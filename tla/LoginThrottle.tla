--------------------------- MODULE LoginThrottle ---------------------------
(***************************************************************************)
(* LoginThrottleService: the in-memory buckets that bound login attempts,  *)
(* as operators on the store they live in.  The store is a JavaScript Map: *)
(* a function on the keys it holds, where a record also knows its place,   *)
(* the keys inserted before it that are still there.                       *)
(***************************************************************************)
EXTENDS Integers, Sequences, FiniteSets

CONSTANTS
    Keys,               \* bucket keys: accounts and addresses
    MaxAttempts,        \* LOGIN_MAX_ATTEMPTS
    WindowSec,          \* LOGIN_LOCKOUT_WINDOW_SEC
    PruneEvery,         \* maybePruneExpired: the least time between prunings
    MaxBuckets          \* MAX_BUCKETS

ASSUME ThrottleAssumption ==
    /\ MaxAttempts \in Nat \ {0} /\ WindowSec \in Nat \ {0}
    /\ PruneEvery \in Nat \ {0} /\ MaxBuckets \in Nat \ {0}

NotLocked == -1

AttemptRecords ==
    [windowStart : Nat, failures : Nat, lockedUntil : Nat \cup {NotLocked}, inFlight : Nat,
     older : SUBSET Keys]

\* The buckets of a store, which stand in the order they were inserted.
IsStore(store) ==
    /\ DOMAIN store \subseteq Keys /\ store \in [DOMAIN store -> AttemptRecords]
    /\ IsFiniteSet(DOMAIN store) /\ Cardinality(DOMAIN store) <= MaxBuckets
    /\ \A k \in DOMAIN store : store[k].older \subseteq DOMAIN store \ {k}
    /\ \A k \in DOMAIN store : \A j \in store[k].older : store[j].older \subseteq store[k].older

Fresh(older, now) ==
    [windowStart |-> now, failures |-> 0, lockedUntil |-> NotLocked, inFlight |-> 0,
     older |-> older]

\* Map.delete of all other keys.
Only(store, kept) ==
    [k \in DOMAIN store \cap kept |-> [store[k] EXCEPT !.older = @ \cap kept]]

Without(store, key) == Only(store, DOMAIN store \ {key})

\* Map.set of a new key, which comes last.
Inserted(store, key, now) ==
    [k \in DOMAIN store \cup {key} |-> IF k = key THEN Fresh(DOMAIN store, now) ELSE store[k]]

LockedAt(r, now) == r.lockedUntil # NotLocked /\ r.lockedUntil > now

-----------------------------------------------------------------------------
(* Expiry *)

\* Fault: a lockout ends with the window it began in.
WindowEndsAt(r) == r.windowStart

ExpiresAt(r) ==
    IF r.lockedUntil # NotLocked THEN r.lockedUntil ELSE r.windowStart + WindowSec

\* maybePruneExpired.
Pruned(store, now) == Only(store, {k \in DOMAIN store : ExpiresAt(store[k]) > now})

\* refreshExisting: an ended lockout is dropped, an ended window begins again.
Refreshed(store, key, now) ==
    IF key \notin DOMAIN store THEN store
    ELSE IF store[key].lockedUntil # NotLocked /\ store[key].lockedUntil <= now
    THEN Without(store, key)
    ELSE IF store[key].lockedUntil = NotLocked /\ now - store[key].windowStart >= WindowSec
    THEN [store EXCEPT ![key].windowStart = now, ![key].failures = 0]
    ELSE store

Open(store) == {k \in DOMAIN store : store[k].lockedUntil = NotLocked}

Oldest(store, keys) == CHOOSE k \in keys : store[k].older \cap keys = {}

\* Fault: the oldest bucket goes, locked or not.
OldestGone(store) ==
    IF Cardinality(DOMAIN store) < MaxBuckets THEN store
    ELSE Without(store, Oldest(store, DOMAIN store))

\* Fault: a full store grows.
NoRoomMade(store) == store

\* makeRoom: a full store loses its oldest bucket that is not locked, or its
\* oldest when all are.
RoomMade(store) ==
    IF Cardinality(DOMAIN store) < MaxBuckets THEN store
    ELSE Without(store, Oldest(store, IF Open(store) = {} THEN DOMAIN store ELSE Open(store)))

\* getOrCreate.
Created(store, key, now) ==
    LET s == Refreshed(store, key, now)
    IN  IF key \in DOMAIN s THEN s ELSE Inserted(RoomMade(s), key, now)

-----------------------------------------------------------------------------
(* The operations.  An attempt is charged to an account and, when it is    *)
(* known, to an address, in that order.                                    *)

\* bucketKeys.
BucketKeys == {<<k>> : k \in Keys} \cup {ks \in Keys \X Keys : ks[1] # ks[2]}

\* A for loop over the bucket keys, which are none for a call the throttle does
\* not count.
Each(Op(_, _), store, keys) ==
    IF keys = <<>> THEN store
    ELSE IF Len(keys) = 1 THEN Op(store, keys[1])
    ELSE Op(Op(store, keys[1]), keys[2])

\* Fault: attempts under way are not counted.
RefusesOnFailures(store, key, now) ==
    /\ key \in DOMAIN store
    /\ LockedAt(store[key], now) \/ store[key].failures >= MaxAttempts

Refuses(store, key, now) ==
    /\ key \in DOMAIN store
    /\ \/ LockedAt(store[key], now)
       \/ store[key].failures + store[key].inFlight >= MaxAttempts

\* The first loop of consume.
Looked(store, keys, now) ==
    Each(LAMBDA s, k : Refreshed(s, k, now), store, keys)

Admits(store, keys, now) ==
    \A i \in DOMAIN keys : ~Refuses(Looked(store, keys, now), keys[i], now)

Reserved(store, key, now) == [Created(store, key, now) EXCEPT ![key].inFlight = @ + 1]

\* The second loop of consume.
Consumed(store, keys, now) ==
    Each(LAMBDA s, k : Reserved(s, k, now), Looked(store, keys, now), keys)

OneLess(n) == IF n > 0 THEN n - 1 ELSE 0

ReleasedOne(store, key) ==
    IF key \notin DOMAIN store THEN store
    ELSE IF /\ OneLess(store[key].inFlight) = 0 /\ store[key].failures = 0
            /\ store[key].lockedUntil = NotLocked
    THEN Without(store, key)
    ELSE [store EXCEPT ![key].inFlight = OneLess(@)]

\* Fault: the reservation is not given back.
NothingReleased(store, keys) == store

Released(store, keys) == Each(ReleasedOne, store, keys)

\* A failure that reaches the limit locks the bucket for a whole window.
Failed(r, now) ==
    IF r.failures + 1 >= MaxAttempts
    THEN [r EXCEPT !.inFlight = OneLess(@), !.lockedUntil = now + WindowSec,
                   !.windowStart = now, !.failures = 0]
    ELSE [r EXCEPT !.inFlight = OneLess(@), !.failures = r.failures + 1]

FailedOne(store, key, now) == [Created(store, key, now) EXCEPT ![key] = Failed(@, now)]

FailureRecorded(store, keys, now) ==
    Each(LAMBDA s, k : FailedOne(s, k, now), store, keys)

SuccessRecorded(store, keys) == Each(Without, store, keys)
=============================================================================
