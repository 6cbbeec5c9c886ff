--------------------------- MODULE AccountsProofs ---------------------------
(***************************************************************************)
(* What holds of the account for any number of requests, sessions,         *)
(* challenges, passkeys and throttle buckets.                              *)
(***************************************************************************)
EXTENDS Accounts, FiniteSetTheorems, WellFoundedInduction, TLAPS

-----------------------------------------------------------------------------
(* The throttle's store *)

\* What a clean-up may do to a bucket.
Eased(r, q) ==
    r.inFlight = q.inFlight /\ r.lockedUntil = q.lockedUntil /\ r.failures <= q.failures

\* What a clean-up may do to a store: t is s with buckets gone or eased.
Eases(s, t) == DOMAIN t \subseteq DOMAIN s /\ \A k \in DOMAIN t : Eased(t[k], s[k])

\* No clean-up ends a lockout.
KeepsLocked(s, t, n) == \A k \in DOMAIN s : LockedAt(s[k], n) => k \in DOMAIN t

\* BurstsAreBounded and LockoutsAreBounded of one bucket.
Bounded(r, n) ==
    /\ r.failures < MaxAttempts /\ r.failures + r.inFlight <= MaxAttempts
    /\ r.windowStart <= n /\ r.lockedUntil <= n + WindowSec

Sound(s, n) == IsStore(s) /\ \A k \in DOMAIN s : Bounded(s[k], n)

\* The reservations of a bucket, which may be gone.
InFlight(s, k) == IF k \in DOMAIN s THEN s[k].inFlight ELSE 0

LEMMA Constants ==
    /\ MaxAttempts \in Nat \ {0} /\ WindowSec \in Nat \ {0} /\ PruneEvery \in Nat \ {0}
    /\ MaxBuckets \in Nat \ {0}
BY ThrottleAssumption

\* Clean-ups follow one another.
LEMMA EasesTransitive ==
    ASSUME NEW s, NEW t, NEW u, NEW n, IsStore(s), IsStore(t), IsStore(u),
           Eases(s, t), Eases(t, u), KeepsLocked(s, t, n), KeepsLocked(t, u, n)
    PROVE  Eases(s, u) /\ KeepsLocked(s, u, n)
<1>1. DOMAIN u \subseteq DOMAIN t /\ DOMAIN t \subseteq DOMAIN s
    BY DEF Eases
<1>2. \A k \in DOMAIN u : s[k].failures \in Nat /\ t[k].failures \in Nat /\ u[k].failures \in Nat
    BY <1>1 DEF IsStore, AttemptRecords
<1>3. \A k \in DOMAIN u : Eased(u[k], s[k])
    BY <1>1, <1>2 DEF Eases, Eased
<1>4. KeepsLocked(s, u, n)
    BY <1>1 DEF KeepsLocked, Eases, Eased, LockedAt
<1> QED
    BY <1>1, <1>3, <1>4 DEF Eases

LEMMA EasesReflexive ==
    ASSUME NEW s, NEW n, IsStore(s) PROVE Eases(s, s) /\ KeepsLocked(s, s, n)
BY DEF Eases, Eased, KeepsLocked, IsStore, AttemptRecords

\* Reservations do not grow in a clean-up.
LEMMA EasesInFlight ==
    ASSUME NEW s, NEW t, IsStore(s), IsStore(t), Eases(s, t), NEW k
    PROVE  InFlight(t, k) <= InFlight(s, k)
BY DEF Eases, Eased, InFlight, IsStore, AttemptRecords

LEMMA InFlightType ==
    ASSUME NEW s, IsStore(s), NEW k PROVE InFlight(s, k) \in Nat
BY DEF InFlight, IsStore, AttemptRecords

\* Deleting buckets leaves a store (maybePruneExpired, Map.delete).
LEMMA OnlyIsSound ==
    ASSUME NEW n, NEW s, Sound(s, n), NEW kept
    PROVE  /\ Sound(Only(s, kept), n) /\ Eases(s, Only(s, kept))
           /\ DOMAIN Only(s, kept) = DOMAIN s \cap kept
<1> DEFINE t == Only(s, kept)
<1>1. DOMAIN t = DOMAIN s \cap kept
    BY DEF Only
<1>2. \A k \in DOMAIN t : /\ t[k] \in AttemptRecords
                          /\ t[k].failures = s[k].failures /\ t[k].inFlight = s[k].inFlight
                          /\ t[k].lockedUntil = s[k].lockedUntil
                          /\ t[k].windowStart = s[k].windowStart
                          /\ t[k].older = s[k].older \cap kept
    BY DEF Only, Sound, IsStore, AttemptRecords
<1>3. IsFiniteSet(DOMAIN t) /\ Cardinality(DOMAIN t) <= MaxBuckets
    <2>1. IsFiniteSet(DOMAIN s) /\ Cardinality(DOMAIN s) <= MaxBuckets
        BY DEF Sound, IsStore
    <2>2. /\ IsFiniteSet(DOMAIN s \cap kept)
          /\ Cardinality(DOMAIN s \cap kept) <= Cardinality(DOMAIN s)
        BY <2>1, FS_Subset
    <2>3. Cardinality(DOMAIN s) \in Nat /\ Cardinality(DOMAIN s \cap kept) \in Nat
        BY <2>1, <2>2, FS_CardinalityType
    <2> QED
        BY <1>1, <2>1, <2>2, <2>3, Constants
<1>4. t \in [DOMAIN t -> AttemptRecords]
    BY <1>2 DEF Only
<1>5. IsStore(t)
    <2>1. \A k \in DOMAIN t : t[k].older \subseteq DOMAIN t \ {k}
        BY <1>1, <1>2 DEF Sound, IsStore
    <2>2. \A k \in DOMAIN t : \A j \in t[k].older : t[j].older \subseteq t[k].older
        BY <1>1, <1>2, <2>1 DEF Sound, IsStore
    <2>3. DOMAIN t \subseteq Keys
        BY <1>1 DEF Sound, IsStore
    <2> HIDE DEF t
    <2> QED
        BY <1>3, <1>4, <2>1, <2>2, <2>3 DEF IsStore
<1>6. \A k \in DOMAIN t : Bounded(t[k], n)
    BY <1>1, <1>2 DEF Sound, Bounded
<1>7. Eases(s, t)
    <2>1. \A k \in DOMAIN t : s[k].failures \in Nat
        BY <1>1 DEF Sound, IsStore, AttemptRecords
    <2> HIDE DEF t
    <2> QED
        BY <1>1, <1>2, <2>1 DEF Eases, Eased
<1> QED
    BY <1>1, <1>5, <1>6, <1>7 DEF Sound

\* A bucket that is replaced by one of the same age leaves a store.
LEMMA ReplacedIsSound ==
    ASSUME NEW n, NEW s, Sound(s, n), NEW key \in DOMAIN s, NEW r \in AttemptRecords,
           r.older = s[key].older, Bounded(r, n)
    PROVE  Sound([s EXCEPT ![key] = r], n)
<1> DEFINE t == [s EXCEPT ![key] = r]
<1>1. DOMAIN t = DOMAIN s /\ t \in [DOMAIN t -> AttemptRecords]
    BY DEF Sound, IsStore
<1>2. \A k \in DOMAIN t : t[k].older = s[k].older
    BY DEF Sound, IsStore
<1>3. \A k \in DOMAIN t : Bounded(t[k], n)
    BY DEF Sound, IsStore
<1> HIDE DEF t
<1>4. IsStore(t)
    BY <1>1, <1>2 DEF Sound, IsStore
<1> QED
    BY <1>3, <1>4 DEF Sound, t

\* A new bucket in a store that is not full.
LEMMA InsertedIsSound ==
    ASSUME NEW n \in Nat, NEW s, Sound(s, n), NEW key \in Keys, key \notin DOMAIN s,
           Cardinality(DOMAIN s) < MaxBuckets
    PROVE  /\ Sound(Inserted(s, key, n), n)
           /\ DOMAIN Inserted(s, key, n) = DOMAIN s \cup {key}
           /\ Inserted(s, key, n)[key] = Fresh(DOMAIN s, n)
           /\ \A k \in DOMAIN s : Inserted(s, key, n)[k] = s[k]
<1> DEFINE t == Inserted(s, key, n)
<1>1. /\ DOMAIN t = DOMAIN s \cup {key} /\ t[key] = Fresh(DOMAIN s, n)
      /\ \A k \in DOMAIN s : t[k] = s[k]
    BY DEF Inserted
<1>2. DOMAIN s \subseteq Keys /\ IsFiniteSet(DOMAIN s)
    BY DEF Sound, IsStore
<1>3. Fresh(DOMAIN s, n) \in AttemptRecords /\ Bounded(Fresh(DOMAIN s, n), n)
    BY <1>2, Constants DEF Fresh, AttemptRecords, Bounded, NotLocked
<1>4. IsFiniteSet(DOMAIN t) /\ Cardinality(DOMAIN t) <= MaxBuckets
    <2>1. /\ IsFiniteSet(DOMAIN s \cup {key})
          /\ Cardinality(DOMAIN s \cup {key}) = Cardinality(DOMAIN s) + 1
        BY <1>2, FS_AddElement
    <2>2. Cardinality(DOMAIN s) \in Nat
        BY <1>2, FS_CardinalityType
    <2> QED
        BY <1>1, <2>1, <2>2, Constants
<1>5. t \in [DOMAIN t -> AttemptRecords]
    <2>1. \A k \in DOMAIN t : t[k] \in AttemptRecords
        BY <1>1, <1>3 DEF Sound, IsStore
    <2> QED
        BY <2>1 DEF Inserted
<1>6. Fresh(DOMAIN s, n).older = DOMAIN s
    BY DEF Fresh
<1> HIDE DEF t
<1>7. IsStore(t)
    <2>1. \A k \in DOMAIN t : t[k].older \subseteq DOMAIN t \ {k}
        BY <1>1, <1>6 DEF Sound, IsStore
    <2>2. \A k \in DOMAIN t : \A j \in t[k].older : t[j].older \subseteq t[k].older
        BY <1>1, <1>6 DEF Sound, IsStore
    <2> QED
        BY <1>1, <1>2, <1>4, <1>5, <2>1, <2>2 DEF IsStore
<1>8. \A k \in DOMAIN t : Bounded(t[k], n)
    BY <1>1, <1>3 DEF Sound
<1> QED
    BY <1>1, <1>7, <1>8 DEF Sound, t

\* Of some buckets one was inserted before the others.
LEMMA OldestIsOne ==
    ASSUME NEW s, IsStore(s), NEW keys \in SUBSET DOMAIN s, keys # {}
    PROVE  Oldest(s, keys) \in keys /\ s[Oldest(s, keys)].older \cap keys = {}
<1> DEFINE D == DOMAIN s
           Ages == {s[k].older : k \in keys}
<1>1. IsFiniteSet(D) /\ \A k \in D : s[k].older \subseteq D \ {k}
    BY DEF IsStore
<1>2. IsWellFoundedOn(StrictSubsetOrdering(D), SUBSET D)
    BY <1>1, FS_StrictSubsetOrderingWellFounded, FS_FiniteSubsetsOfFinite
<1>3. Ages \subseteq SUBSET D /\ Ages # {}
    BY <1>1
<1>4. PICK a \in Ages : \A b \in Ages : ~(<<b, a>> \in StrictSubsetOrdering(D))
    <2> HIDE DEF Ages, D
    <2> QED
        BY <1>2, <1>3, WFMin, Zenon
<1>5. PICK k \in keys : a = s[k].older
    BY <1>4
<1>6. \A j \in keys : j \notin s[k].older
    <2> SUFFICES ASSUME NEW j \in keys, j \in s[k].older PROVE FALSE
        OBVIOUS
    <2>1. s[j].older \subseteq a /\ s[j].older # a
        BY <1>1, <1>5 DEF IsStore
    <2>2. s[j].older \in Ages /\ s[j].older \in SUBSET D /\ a \in SUBSET D
        BY <1>3, <1>4
    <2>3. <<s[j].older, a>> \in StrictSubsetOrdering(D)
        BY <2>1, <2>2 DEF StrictSubsetOrdering
    <2> QED
        BY <1>4, <2>2, <2>3
<1>7. \E x \in keys : s[x].older \cap keys = {}
    BY <1>6
<1> QED
    BY <1>7 DEF Oldest

\* Equal sizes make a store one with what a clean-up left of it.
LEMMA FullIsWhole ==
    ASSUME NEW s, NEW t, IsStore(s), IsStore(t), Eases(s, t),
           Cardinality(DOMAIN t) = MaxBuckets
    PROVE  DOMAIN s = DOMAIN t /\ Cardinality(DOMAIN s) = MaxBuckets
<1>1. IsFiniteSet(DOMAIN s) /\ DOMAIN t \subseteq DOMAIN s
    BY DEF IsStore, Eases
<1>2. /\ Cardinality(DOMAIN t) <= Cardinality(DOMAIN s)
      /\ Cardinality(DOMAIN s) = Cardinality(DOMAIN t) => DOMAIN s = DOMAIN t
    BY <1>1, FS_Subset
<1>3. Cardinality(DOMAIN s) \in Nat /\ Cardinality(DOMAIN s) <= MaxBuckets
    BY <1>1, FS_CardinalityType DEF IsStore
<1> QED
    BY <1>2, <1>3, Constants

\* A store that is full of lockouts was so before it was cleaned up.
LEMMA CrowdedBefore ==
    ASSUME NEW s, NEW t, IsStore(s), IsStore(t), Eases(s, t), Crowded(t, {})
    PROVE  Crowded(s, {})
<1>1. DOMAIN s = DOMAIN t /\ Cardinality(DOMAIN s) = MaxBuckets
    BY FullIsWhole DEF Crowded
<1> QED
    BY <1>1 DEF Crowded, Eases, Eased

\* makeRoom leaves room, and takes it from a lockout only in a store that is
\* full of them.
LEMMA RoomIsMade ==
    ASSUME NEW n \in Nat, NEW s, Sound(s, n)
    PROVE  LET t == RoomMade(s)
           IN  /\ Sound(t, n) /\ Eases(s, t) /\ Cardinality(DOMAIN t) < MaxBuckets
               /\ \/ KeepsLocked(s, t, n)
                  \/ /\ Crowded(s, {})
                     /\ Cardinality(DOMAIN t) + 1 = MaxBuckets
                     /\ \A k \in DOMAIN t : t[k].lockedUntil # NotLocked
<1> DEFINE D == DOMAIN s
<1>1. IsStore(s) /\ IsFiniteSet(D) /\ Cardinality(D) \in Nat /\ Cardinality(D) <= MaxBuckets
    BY FS_CardinalityType DEF Sound, IsStore
<1>2. CASE Cardinality(D) < MaxBuckets
    <2>1. RoomMade(s) = s
        BY <1>2 DEF RoomMade
    <2>2. Eases(s, s) /\ KeepsLocked(s, s, n)
        BY <1>1, EasesReflexive
    <2> QED
        BY <1>2, <2>1, <2>2
<1>3. CASE ~(Cardinality(D) < MaxBuckets)
    <2> DEFINE cands == IF Open(s) = {} THEN D ELSE Open(s)
               gone == Oldest(s, cands)
               t == Without(s, gone)
    <2>1. Cardinality(D) = MaxBuckets
        BY <1>1, <1>3, Constants
    <2>2. cands \in SUBSET D /\ cands # {}
        BY <1>1, <2>1, FS_EmptySet, Constants DEF Open
    <2>3. gone \in cands
        BY <1>1, <2>2, OldestIsOne
    <2>4. RoomMade(s) = t
        BY <1>3 DEF RoomMade
    <2>5. Sound(t, n) /\ Eases(s, t) /\ DOMAIN t = D \ {gone}
        BY OnlyIsSound DEF Without
    <2>6. Cardinality(D \ {gone}) = Cardinality(D) - 1
        BY <1>1, <2>2, <2>3, FS_RemoveElement
    <2>7. CASE Open(s) = {}
        <3>1. \A k \in D : s[k].lockedUntil # NotLocked
            BY <2>7 DEF Open
        <3>2. Crowded(s, {})
            BY <2>1, <3>1 DEF Crowded
        <3>3. \A k \in DOMAIN t : t[k].lockedUntil # NotLocked
            BY <2>5, <3>1 DEF Eases, Eased
        <3> HIDE DEF t
        <3> QED
            BY <1>1, <2>1, <2>4, <2>5, <2>6, <3>2, <3>3, Constants
    <2>8. CASE Open(s) # {}
        <3>1. s[gone].lockedUntil = NotLocked
            BY <2>3, <2>8 DEF Open
        <3>2. KeepsLocked(s, t, n)
            BY <2>5, <3>1 DEF KeepsLocked, LockedAt
        <3> HIDE DEF t
        <3> QED
            BY <1>1, <2>1, <2>4, <2>5, <2>6, <3>2, Constants
    <2> QED
        BY <2>7, <2>8
<1> QED
    BY <1>2, <1>3

\* maybePruneExpired is a clean-up.
LEMMA PrunedIsSound ==
    ASSUME NEW n \in Nat, NEW s, Sound(s, n)
    PROVE  Sound(Pruned(s, n), n) /\ Eases(s, Pruned(s, n)) /\ KeepsLocked(s, Pruned(s, n), n)
<1>1. \A k \in DOMAIN s : LockedAt(s[k], n) => ExpiresAt(s[k]) > n
    BY DEF LockedAt, ExpiresAt
<1> QED
    BY <1>1, OnlyIsSound DEF Pruned, KeepsLocked

\* refreshExisting is a clean-up, and leaves no lockout that is over.
LEMMA RefreshedIsSound ==
    ASSUME NEW n \in Nat, NEW s, Sound(s, n), NEW key
    PROVE  LET t == Refreshed(s, key, n)
           IN  /\ Sound(t, n) /\ Eases(s, t) /\ KeepsLocked(s, t, n)
               /\ key \in DOMAIN t => t[key].lockedUntil = NotLocked \/ LockedAt(t[key], n)
               /\ DOMAIN s \ {key} \subseteq DOMAIN t
<1>1. IsStore(s) /\ Eases(s, s) /\ KeepsLocked(s, s, n)
    BY EasesReflexive DEF Sound
<1>2. CASE key \notin DOMAIN s
    BY <1>1, <1>2 DEF Refreshed
<1> DEFINE ended == s[key].lockedUntil # NotLocked /\ s[key].lockedUntil <= n
           past == s[key].lockedUntil = NotLocked /\ n - s[key].windowStart >= WindowSec
           again == [s[key] EXCEPT !.windowStart = n, !.failures = 0]
<1>3. CASE key \in DOMAIN s /\ ended
    <2>1. Refreshed(s, key, n) = Without(s, key)
        BY <1>3 DEF Refreshed
    <2>2. ~LockedAt(s[key], n)
        BY <1>3 DEF LockedAt, Sound, IsStore, AttemptRecords, NotLocked
    <2> QED
        BY <2>1, <2>2, OnlyIsSound DEF Without, KeepsLocked
<1>4. CASE key \in DOMAIN s /\ ~ended /\ past
    <2>4. s[key] \in AttemptRecords /\ Bounded(s[key], n)
        BY <1>4 DEF Sound, IsStore
    <2>1. Refreshed(s, key, n) = [s EXCEPT ![key].windowStart = n, ![key].failures = 0]
        BY <1>4 DEF Refreshed
    <2>2. Refreshed(s, key, n) = [s EXCEPT ![key] = again]
        BY <1>4, <2>1 DEF Sound, IsStore, AttemptRecords
    <2>3. /\ again \in AttemptRecords /\ again.older = s[key].older /\ again.failures = 0
          /\ again.inFlight = s[key].inFlight /\ again.lockedUntil = s[key].lockedUntil
          /\ again.windowStart = n
        BY <2>4 DEF AttemptRecords
    <2>5. Bounded(again, n)
        <3> HIDE DEF again
        <3> QED
            BY <2>3, <2>4, Constants DEF Bounded, AttemptRecords
    <2> DEFINE t == [s EXCEPT ![key] = again]
    <2>6. Sound(t, n)
        BY <1>4, <2>3, <2>5, ReplacedIsSound
    <2>7. DOMAIN t = DOMAIN s /\ t[key] = again /\ \A k \in DOMAIN s \ {key} : t[k] = s[k]
        BY <1>4
    <2>8. \A k \in DOMAIN s : Eased(s[k], s[k])
        BY <1>1 DEF Eases
    <2>9. Eased(again, s[key])
        BY <2>3, <2>4 DEF Eased, AttemptRecords
    <2> HIDE DEF t, again
    <2>10. Eases(s, t) /\ KeepsLocked(s, t, n)
        BY <2>7, <2>8, <2>9 DEF Eases, KeepsLocked
    <2>11. t[key].lockedUntil = NotLocked
        BY <1>4, <2>3, <2>7
    <2> QED
        BY <2>2, <2>6, <2>7, <2>10, <2>11 DEF t
<1>5. CASE key \in DOMAIN s /\ ~ended /\ ~past
    <2>1. Refreshed(s, key, n) = s
        BY <1>5 DEF Refreshed
    <2>2. s[key].lockedUntil = NotLocked \/ LockedAt(s[key], n)
        BY <1>5 DEF LockedAt, Sound, IsStore, AttemptRecords, NotLocked
    <2> QED
        BY <1>1, <2>1, <2>2
<1> QED
    BY <1>2, <1>3, <1>4, <1>5

\* getOrCreate: the bucket is there, as it was, eased or new; and a lockout is
\* lost only by a store that was full of them.
LEMMA CreatedIsSound ==
    ASSUME NEW n \in Nat, NEW s, Sound(s, n), NEW key \in Keys
    PROVE  LET t == Created(s, key, n)
           IN  /\ Sound(t, n) /\ key \in DOMAIN t
               /\ \A k \in DOMAIN t \ {key} : k \in DOMAIN s /\ Eased(t[k], s[k])
               /\ \/ key \in DOMAIN s /\ Eased(t[key], s[key])
                  \/ /\ t[key].failures = 0 /\ t[key].inFlight = 0
                     /\ t[key].lockedUntil = NotLocked
                     /\ key \in DOMAIN s => ~LockedAt(s[key], n)
               /\ t[key].lockedUntil = NotLocked \/ LockedAt(t[key], n)
               /\ KeepsLocked(s, t, n) \/ (Crowded(s, {}) /\ Crowded(t, {key}))
<1> DEFINE r == Refreshed(s, key, n)
           m == RoomMade(r)
           i == Inserted(m, key, n)
           t == Created(s, key, n)
<1>1. /\ Sound(r, n) /\ Eases(s, r) /\ KeepsLocked(s, r, n)
      /\ key \in DOMAIN r => r[key].lockedUntil = NotLocked \/ LockedAt(r[key], n)
    BY RefreshedIsSound
<1>2. CASE key \in DOMAIN r
    <2>1. t = r
        BY <1>2 DEF Created
    <2> HIDE DEF r, t
    <2> QED
        BY <1>1, <1>2, <2>1 DEF Eases, t
<1>3. CASE key \notin DOMAIN r
    <2>1. t = i
        BY <1>3 DEF Created
    <2>2. /\ Sound(m, n) /\ Eases(r, m) /\ Cardinality(DOMAIN m) < MaxBuckets
          /\ \/ KeepsLocked(r, m, n)
             \/ /\ Crowded(r, {}) /\ Cardinality(DOMAIN m) + 1 = MaxBuckets
                /\ \A k \in DOMAIN m : m[k].lockedUntil # NotLocked
        <3> HIDE DEF r
        <3> QED
            BY <1>1, RoomIsMade
    <2>3. key \notin DOMAIN m
        BY <1>3, <2>2 DEF Eases
    <2>4. /\ Sound(i, n) /\ DOMAIN i = DOMAIN m \cup {key} /\ i[key] = Fresh(DOMAIN m, n)
          /\ \A k \in DOMAIN m : i[k] = m[k]
        <3> HIDE DEF m
        <3> QED
            BY <2>2, <2>3, InsertedIsSound
    <2>5. i[key].failures = 0 /\ i[key].inFlight = 0 /\ i[key].lockedUntil = NotLocked
        BY <2>4 DEF Fresh
    <2>6. IsStore(s) /\ IsStore(r) /\ IsStore(m)
        BY <1>1, <2>2 DEF Sound
    <2>7. Eases(s, m)
        <3>1. DOMAIN m \subseteq DOMAIN r /\ DOMAIN r \subseteq DOMAIN s
            BY <1>1, <2>2 DEF Eases
        <3>2. \A k \in DOMAIN m : /\ s[k].failures \in Nat /\ r[k].failures \in Nat
                                  /\ m[k].failures \in Nat
            BY <2>6, <3>1 DEF IsStore, AttemptRecords
        <3> HIDE DEF m, r
        <3> QED
            BY <1>1, <2>2, <3>1, <3>2 DEF Eases, Eased
    <2>8. KeepsLocked(s, i, n) \/ (Crowded(s, {}) /\ Crowded(i, {key}))
        <3>1. CASE KeepsLocked(r, m, n)
            <4> HIDE DEF m, r, i
            <4>1. \A k \in DOMAIN s : LockedAt(s[k], n) => k \in DOMAIN r /\ LockedAt(r[k], n)
                BY <1>1 DEF KeepsLocked, Eases, Eased, LockedAt
            <4> QED
                BY <2>4, <3>1, <4>1 DEF KeepsLocked
        <3>2. CASE /\ Crowded(r, {}) /\ Cardinality(DOMAIN m) + 1 = MaxBuckets
                   /\ \A k \in DOMAIN m : m[k].lockedUntil # NotLocked
            <4>1. Crowded(s, {})
                BY <1>1, <2>6, <3>2, CrowdedBefore
            <4>2. Cardinality(DOMAIN i) = MaxBuckets
                <5>1. IsFiniteSet(DOMAIN m)
                    BY <2>6 DEF IsStore
                <5>2. Cardinality(DOMAIN m \cup {key}) = Cardinality(DOMAIN m) + 1
                    BY <2>3, <5>1, FS_AddElement
                <5> QED
                    BY <2>4, <3>2, <5>2
            <4> HIDE DEF m, r, i
            <4>3. Crowded(i, {key})
                BY <2>4, <3>2, <4>2 DEF Crowded
            <4> QED
                BY <4>1, <4>3
        <3> QED
            BY <2>2, <3>1, <3>2
    <2>10. key \in DOMAIN s => ~LockedAt(s[key], n)
        BY <1>1, <1>3 DEF KeepsLocked
    <2> HIDE DEF i, t
    <2>9. \A k \in DOMAIN i \ {key} : k \in DOMAIN s /\ Eased(i[k], s[k])
        BY <2>4, <2>7 DEF Eases
    <2> QED
        BY <2>1, <2>4, <2>5, <2>8, <2>9, <2>10 DEF t
<1> QED
    BY <1>2, <1>3

-----------------------------------------------------------------------------
(* The throttle's operations on one bucket *)

\* The lockouts of s stand in t.
Holds(s, t, n) ==
    \A k \in DOMAIN s : LockedAt(s[k], n) =>
        k \in DOMAIN t /\ t[k].lockedUntil >= s[k].lockedUntil

LEMMA KeptAreHeld ==
    ASSUME NEW s, NEW t, NEW n, IsStore(s), Eases(s, t), KeepsLocked(s, t, n)
    PROVE  Holds(s, t, n)
<1>1. \A k \in DOMAIN s : s[k].lockedUntil \in Int
    BY DEF IsStore, AttemptRecords, NotLocked
<1> QED
    BY <1>1 DEF Eases, Eased, KeepsLocked, Holds

LEMMA HoldsTransitive ==
    ASSUME NEW s, NEW t, NEW u, NEW n \in Nat, IsStore(s), IsStore(t), IsStore(u),
           Holds(s, t, n), Holds(t, u, n)
    PROVE  Holds(s, u, n)
<1> SUFFICES ASSUME NEW k \in DOMAIN s, LockedAt(s[k], n)
             PROVE  k \in DOMAIN u /\ u[k].lockedUntil >= s[k].lockedUntil
    BY DEF Holds
<1>1. k \in DOMAIN t /\ t[k].lockedUntil >= s[k].lockedUntil
    BY DEF Holds
<1>2. s[k].lockedUntil \in Int /\ t[k].lockedUntil \in Int
    BY <1>1 DEF IsStore, AttemptRecords, NotLocked
<1>3. LockedAt(t[k], n)
    BY <1>1, <1>2 DEF LockedAt, NotLocked
<1>4. k \in DOMAIN u /\ u[k].lockedUntil >= t[k].lockedUntil
    BY <1>1, <1>3 DEF Holds
<1>5. u[k].lockedUntil \in Int
    BY <1>4 DEF IsStore, AttemptRecords, NotLocked
<1> QED
    BY <1>1, <1>2, <1>4, <1>5

\* What getOrCreate, and then a change of the bucket that ends no lockout of
\* it, do to the lockouts of a store.
LEMMA ChangeHolds ==
    ASSUME NEW n \in Nat, NEW s, Sound(s, n), NEW key \in Keys, NEW r \in AttemptRecords,
           LockedAt(Created(s, key, n)[key], n) =>
                r.lockedUntil >= Created(s, key, n)[key].lockedUntil
    PROVE  LET u == [Created(s, key, n) EXCEPT ![key] = r]
           IN  Holds(s, u, n) \/ (Crowded(s, {}) /\ Crowded(u, {key}))
<1> DEFINE t == Created(s, key, n)
           u == [t EXCEPT ![key] = r]
<1>1. /\ Sound(t, n) /\ key \in DOMAIN t
      /\ \A k \in DOMAIN t \ {key} : k \in DOMAIN s /\ Eased(t[k], s[k])
      /\ \/ key \in DOMAIN s /\ Eased(t[key], s[key])
         \/ t[key].lockedUntil = NotLocked /\ (key \in DOMAIN s => ~LockedAt(s[key], n))
      /\ KeepsLocked(s, t, n) \/ (Crowded(s, {}) /\ Crowded(t, {key}))
    BY CreatedIsSound
<1>2. DOMAIN u = DOMAIN t /\ u[key] = r /\ \A k \in DOMAIN t \ {key} : u[k] = t[k]
    BY <1>1
<1>3. LockedAt(t[key], n) => r.lockedUntil >= t[key].lockedUntil
    OBVIOUS
<1> HIDE DEF t, u
<1>4. CASE KeepsLocked(s, t, n)
    <2> SUFFICES ASSUME NEW k \in DOMAIN s, LockedAt(s[k], n)
                 PROVE  k \in DOMAIN u /\ u[k].lockedUntil >= s[k].lockedUntil
        BY DEF Holds, u, t
    <2>1. k \in DOMAIN t /\ s[k].lockedUntil \in Int
        BY <1>4 DEF KeepsLocked, Sound, IsStore, AttemptRecords, NotLocked
    <2>2. CASE k # key
        BY <1>1, <1>2, <2>1, <2>2 DEF Eased
    <2>3. CASE k = key
        <3>1. Eased(t[key], s[key])
            BY <1>1, <2>3
        <3>2. LockedAt(t[key], n)
            BY <2>3, <3>1 DEF Eased, LockedAt
        <3> QED
            BY <1>2, <1>3, <2>1, <2>3, <3>1, <3>2 DEF Eased
    <2> QED
        BY <2>2, <2>3
<1>5. CASE Crowded(s, {}) /\ Crowded(t, {key})
    BY <1>2, <1>5 DEF Crowded, u, t
<1> QED
    BY <1>1, <1>4, <1>5

\* consume's reservation: one attempt more, within the limit of the bucket.
LEMMA ReservedIsSound ==
    ASSUME NEW n \in Nat, NEW s, Sound(s, n), NEW key \in Keys, ~Refuses(s, key, n)
    PROVE  LET u == Reserved(s, key, n)
           IN  /\ Sound(u, n)
               /\ \A k : InFlight(u, k) <= InFlight(s, k) + (IF k = key THEN 1 ELSE 0)
               /\ Holds(s, u, n) \/ (Crowded(s, {}) /\ Crowded(u, {key}))
               /\ \A k : k # key /\ ~Refuses(s, k, n) => ~Refuses(u, k, n)
<1> DEFINE t == Created(s, key, n)
           r == [t[key] EXCEPT !.inFlight = @ + 1]
           u == [t EXCEPT ![key] = r]
<1>1. /\ Sound(t, n) /\ key \in DOMAIN t
      /\ \A k \in DOMAIN t \ {key} : k \in DOMAIN s /\ Eased(t[k], s[k])
      /\ \/ key \in DOMAIN s /\ Eased(t[key], s[key])
         \/ t[key].failures = 0 /\ t[key].inFlight = 0
    BY CreatedIsSound
<1>2. t[key] \in AttemptRecords /\ Bounded(t[key], n) /\ IsStore(t) /\ IsStore(s)
    BY <1>1 DEF Sound, IsStore
<1>3. Reserved(s, key, n) = u
    <2>1. Reserved(s, key, n) = [t EXCEPT ![key].inFlight = @ + 1]
        BY DEF Reserved
    <2> HIDE DEF t
    <2> QED
        BY <1>1, <1>2, <2>1
<1> HIDE DEF t
<1>4. /\ r \in AttemptRecords /\ r.older = t[key].older /\ r.failures = t[key].failures
      /\ r.inFlight = t[key].inFlight + 1 /\ r.lockedUntil = t[key].lockedUntil
      /\ r.windowStart = t[key].windowStart
    BY <1>2 DEF AttemptRecords
<1> HIDE DEF r
<1>5. t[key].failures + t[key].inFlight < MaxAttempts
    <2>1. CASE key \in DOMAIN s /\ Eased(t[key], s[key])
        <3>1. s[key] \in AttemptRecords
            BY <1>2, <2>1 DEF IsStore
        <3>2. s[key].failures + s[key].inFlight < MaxAttempts
            BY <2>1, <3>1, Constants DEF Refuses, AttemptRecords
        <3> QED
            BY <1>2, <2>1, <3>1, <3>2, Constants DEF Eased, AttemptRecords
    <2>2. CASE t[key].failures = 0 /\ t[key].inFlight = 0
        BY <2>2, Constants
    <2> QED
        BY <1>1, <2>1, <2>2
<1>6. Bounded(r, n)
    BY <1>2, <1>4, <1>5, Constants DEF Bounded, AttemptRecords
<1>7. Sound(u, n)
    BY <1>1, <1>4, <1>6, ReplacedIsSound
<1>8. DOMAIN u = DOMAIN t /\ u[key] = r /\ \A k \in DOMAIN t \ {key} : u[k] = t[k]
    BY <1>1
<1>9. Holds(s, u, n) \/ (Crowded(s, {}) /\ Crowded(u, {key}))
    <2>1. LockedAt(t[key], n) => r.lockedUntil >= t[key].lockedUntil
        BY <1>2, <1>4 DEF AttemptRecords, NotLocked
    <2> QED
        BY <1>4, <2>1, ChangeHolds DEF t
<1> HIDE DEF u
<1>10. \A k : InFlight(u, k) <= InFlight(s, k) + (IF k = key THEN 1 ELSE 0)
    <2> SUFFICES ASSUME NEW k
                 PROVE  InFlight(u, k) <= InFlight(s, k) + (IF k = key THEN 1 ELSE 0)
        OBVIOUS
    <2>1. InFlight(s, k) \in Nat
        BY <1>2, InFlightType
    <2>2. CASE k = key
        BY <1>1, <1>2, <1>4, <1>8, <2>1, <2>2 DEF InFlight, Eased, AttemptRecords
    <2>3. CASE k # key
        BY <1>1, <1>2, <1>8, <2>1, <2>3 DEF InFlight, Eased
    <2> QED
        BY <2>2, <2>3
<1>11. \A k : k # key /\ ~Refuses(s, k, n) => ~Refuses(u, k, n)
    <2> SUFFICES ASSUME NEW k, k # key, k \in DOMAIN u, ~Refuses(s, k, n)
                 PROVE  ~Refuses(u, k, n)
        BY DEF Refuses
    <2>1. k \in DOMAIN s /\ Eased(u[k], s[k])
        BY <1>1, <1>8
    <2>2. u[k] \in AttemptRecords /\ s[k] \in AttemptRecords
        BY <1>2, <1>7, <2>1 DEF Sound, IsStore
    <2> QED
        BY <2>1, <2>2, Constants DEF Refuses, Eased, LockedAt, AttemptRecords
<1> QED
    BY <1>3, <1>7, <1>9, <1>10, <1>11

\* What a release, a failure or a success does to the reservations.
Frees(s, t, keys) ==
    \A k : InFlight(t, k) <= IF k \in keys THEN OneLess(InFlight(s, k)) ELSE InFlight(s, k)

LEMMA OneLessType == \A x \in Nat : OneLess(x) \in Nat /\ OneLess(x) <= x
BY DEF OneLess

\* release of a bucket.
LEMMA ReleasedOneIsSound ==
    ASSUME NEW n \in Nat, NEW s, Sound(s, n), NEW key \in Keys
    PROVE  LET u == ReleasedOne(s, key)
           IN  Sound(u, n) /\ Frees(s, u, {key}) /\ Holds(s, u, n)
<1>0. IsStore(s)
    BY DEF Sound
<1>1. CASE key \notin DOMAIN s
    <2>1. ReleasedOne(s, key) = s /\ InFlight(s, key) = 0
        BY <1>1 DEF ReleasedOne, InFlight
    <2>2. \A k : InFlight(s, k) \in Nat
        BY <1>0, InFlightType
    <2> QED
        BY <1>0, <2>1, <2>2, EasesReflexive, KeptAreHeld DEF Frees, OneLess
<1> DEFINE idle == /\ OneLess(s[key].inFlight) = 0 /\ s[key].failures = 0
                   /\ s[key].lockedUntil = NotLocked
<1>2. CASE key \in DOMAIN s /\ idle
    <2> DEFINE u == Without(s, key)
    <2>1. ReleasedOne(s, key) = u
        BY <1>2 DEF ReleasedOne
    <2>2. Sound(u, n) /\ Eases(s, u) /\ DOMAIN u = DOMAIN s \ {key}
        BY OnlyIsSound DEF Without
    <2> HIDE DEF u
    <2>3. KeepsLocked(s, u, n)
        BY <1>2, <2>2 DEF KeepsLocked, LockedAt
    <2>4. \A k : InFlight(s, k) \in Nat
        BY <1>0, InFlightType
    <2>5. \A k : InFlight(u, k) <= InFlight(s, k) /\ InFlight(u, key) = 0
        BY <1>0, <2>2, EasesInFlight DEF InFlight, Sound
    <2>6. Frees(s, u, {key})
        BY <2>4, <2>5, OneLessType DEF Frees
    <2> QED
        BY <1>0, <2>1, <2>2, <2>3, <2>6, KeptAreHeld
<1>3. CASE key \in DOMAIN s /\ ~idle
    <2> DEFINE r == [s[key] EXCEPT !.inFlight = OneLess(@)]
               u == [s EXCEPT ![key] = r]
    <2>1. s[key] \in AttemptRecords /\ Bounded(s[key], n)
        BY <1>3 DEF Sound, IsStore
    <2>2. ReleasedOne(s, key) = u
        <3>1. ReleasedOne(s, key) = [s EXCEPT ![key].inFlight = OneLess(@)]
            BY <1>3 DEF ReleasedOne
        <3> QED
            BY <1>0, <1>3, <2>1, <3>1
    <2>3. OneLess(s[key].inFlight) \in Nat /\ OneLess(s[key].inFlight) <= s[key].inFlight
        BY <2>1, OneLessType DEF AttemptRecords
    <2>4. /\ r \in AttemptRecords /\ r.older = s[key].older /\ r.failures = s[key].failures
          /\ r.inFlight = OneLess(s[key].inFlight) /\ r.lockedUntil = s[key].lockedUntil
          /\ r.windowStart = s[key].windowStart
        BY <2>1, <2>3 DEF AttemptRecords
    <2> HIDE DEF r
    <2>5. Bounded(r, n)
        BY <2>1, <2>3, <2>4, Constants DEF Bounded, AttemptRecords
    <2>6. Sound(u, n)
        BY <1>3, <2>4, <2>5, ReplacedIsSound
    <2>7. DOMAIN u = DOMAIN s /\ u[key] = r /\ \A k \in DOMAIN s \ {key} : u[k] = s[k]
        BY <1>3
    <2> HIDE DEF u
    <2>8. \A k \in DOMAIN s : s[k].lockedUntil \in Int /\ s[k].inFlight \in Nat
        BY <1>0 DEF IsStore, AttemptRecords, NotLocked
    <2>9. Holds(s, u, n)
        BY <2>4, <2>7, <2>8 DEF Holds
    <2>10. Frees(s, u, {key})
        BY <1>3, <2>4, <2>7, <2>8 DEF Frees, InFlight, OneLess
    <2> QED
        BY <2>2, <2>6, <2>9, <2>10
<1> QED
    BY <1>1, <1>2, <1>3

\* recordFailure of a bucket.
LEMMA FailedOneIsSound ==
    ASSUME NEW n \in Nat, NEW s, Sound(s, n), NEW key \in Keys
    PROVE  LET u == FailedOne(s, key, n)
           IN  /\ Sound(u, n) /\ Frees(s, u, {key})
               /\ Holds(s, u, n) \/ (Crowded(s, {}) /\ Crowded(u, {key}))
<1> DEFINE t == Created(s, key, n)
           r == Failed(t[key], n)
           u == [t EXCEPT ![key] = r]
<1>1. /\ Sound(t, n) /\ key \in DOMAIN t
      /\ \A k \in DOMAIN t \ {key} : k \in DOMAIN s /\ Eased(t[k], s[k])
      /\ \/ key \in DOMAIN s /\ Eased(t[key], s[key])
         \/ t[key].failures = 0 /\ t[key].inFlight = 0
    BY CreatedIsSound
<1>2. t[key] \in AttemptRecords /\ Bounded(t[key], n) /\ IsStore(t) /\ IsStore(s)
    BY <1>1 DEF Sound, IsStore
<1>3. FailedOne(s, key, n) = u
    BY DEF FailedOne
<1> HIDE DEF t
<1>4. OneLess(t[key].inFlight) \in Nat /\ OneLess(t[key].inFlight) <= t[key].inFlight
    BY <1>2, OneLessType DEF AttemptRecords
<1>5. /\ r \in AttemptRecords /\ r.older = t[key].older
      /\ r.inFlight = OneLess(t[key].inFlight)
      /\ \/ /\ r.failures = 0 /\ r.lockedUntil = n + WindowSec /\ r.windowStart = n
         \/ /\ r.failures = t[key].failures + 1 /\ r.failures < MaxAttempts
            /\ r.lockedUntil = t[key].lockedUntil /\ r.windowStart = t[key].windowStart
    <2> DEFINE left == OneLess(t[key].inFlight)
               until == n + WindowSec
               up == t[key].failures + 1
               locked == [t[key] EXCEPT !.inFlight = left, !.lockedUntil = until,
                                        !.windowStart = n, !.failures = 0]
               counted == [t[key] EXCEPT !.inFlight = left, !.failures = up]
    <2>1. r = IF up >= MaxAttempts THEN locked ELSE counted
        BY DEF Failed
    <2>2. left \in Nat /\ until \in Nat /\ up \in Nat
        BY <1>2, <1>4, Constants DEF AttemptRecords
    <2> HIDE DEF left, until, up, r
    <2>3. /\ locked \in AttemptRecords /\ locked.older = t[key].older /\ locked.inFlight = left
          /\ locked.failures = 0 /\ locked.lockedUntil = until
          /\ locked.windowStart = n
        BY <1>2, <2>2 DEF AttemptRecords
    <2>4. /\ counted \in AttemptRecords /\ counted.older = t[key].older
          /\ counted.inFlight = left /\ counted.failures = up
          /\ counted.lockedUntil = t[key].lockedUntil
          /\ counted.windowStart = t[key].windowStart
        BY <1>2, <2>2 DEF AttemptRecords
    <2> HIDE DEF locked, counted
    <2>6. CASE up >= MaxAttempts
        BY <2>1, <2>3, <2>6 DEF left, until
    <2>7. CASE ~(up >= MaxAttempts)
        BY <2>1, <2>2, <2>4, <2>7, Constants DEF left, up
    <2> QED
        BY <2>6, <2>7
<1> HIDE DEF r
<1>6. Bounded(r, n)
    BY <1>2, <1>4, <1>5, Constants DEF Bounded, AttemptRecords, OneLess
<1>7. Sound(u, n)
    BY <1>1, <1>5, <1>6, ReplacedIsSound
<1>8. DOMAIN u = DOMAIN t /\ u[key] = r /\ \A k \in DOMAIN t \ {key} : u[k] = t[k]
    BY <1>1
<1>9. Holds(s, u, n) \/ (Crowded(s, {}) /\ Crowded(u, {key}))
    <2>1. r.lockedUntil >= t[key].lockedUntil
        BY <1>2, <1>5, Constants DEF AttemptRecords, NotLocked, Bounded
    <2> QED
        BY <1>5, <2>1, ChangeHolds DEF t
<1> HIDE DEF u
<1>10. Frees(s, u, {key})
    <2> SUFFICES ASSUME NEW k
                 PROVE  InFlight(u, k) <= IF k = key THEN OneLess(InFlight(s, k)) ELSE InFlight(s, k)
        BY DEF Frees
    <2>1. InFlight(s, k) \in Nat
        BY <1>2, InFlightType
    <2>2. CASE k = key
        <3>1. InFlight(u, k) = OneLess(t[key].inFlight)
            BY <1>1, <1>5, <1>8, <2>2 DEF InFlight
        <3>2. t[key].inFlight <= InFlight(s, k) /\ t[key].inFlight \in Nat
            BY <1>1, <1>2, <2>1, <2>2 DEF InFlight, Eased, AttemptRecords
        <3> QED
            BY <2>1, <2>2, <3>1, <3>2 DEF OneLess
    <2>3. CASE k # key
        BY <1>1, <1>2, <1>8, <2>1, <2>3 DEF InFlight, Eased
    <2> QED
        BY <2>2, <2>3
<1> QED
    BY <1>3, <1>7, <1>9, <1>10

\* recordSuccess of a bucket.
LEMMA WithoutIsSound ==
    ASSUME NEW n \in Nat, NEW s, Sound(s, n), NEW key \in Keys
    PROVE  /\ Sound(Without(s, key), n) /\ Frees(s, Without(s, key), {key})
           /\ DOMAIN Without(s, key) = DOMAIN s \ {key} /\ Eases(s, Without(s, key))
<1> DEFINE u == Without(s, key)
<1>1. Sound(u, n) /\ Eases(s, u) /\ DOMAIN u = DOMAIN s \ {key}
    BY OnlyIsSound DEF Without
<1> HIDE DEF u
<1>2. IsStore(s) /\ IsStore(u)
    BY <1>1 DEF Sound
<1>3. \A k : InFlight(s, k) \in Nat /\ InFlight(u, k) <= InFlight(s, k)
    BY <1>1, <1>2, InFlightType, EasesInFlight
<1>4. InFlight(u, key) = 0
    BY <1>1 DEF InFlight
<1>5. Frees(s, u, {key})
    BY <1>3, <1>4, OneLessType DEF Frees
<1> QED
    BY <1>1, <1>5 DEF u

-----------------------------------------------------------------------------
(* The throttle's operations *)

\* The buckets an attempt is charged to.
Of(keys) == {keys[i] : i \in DOMAIN keys}

\* LockoutsAreServed of two stores, but for successes and restarts.
Served(s, t, n) ==
    Holds(s, t, n) \/ Crowded(s, {}) \/ \E new \in DOMAIN t : Crowded(t, {new})

\* One bucket, or an account's and an address's.
LEMMA KeysAreOneOrTwo ==
    ASSUME NEW keys \in BucketKeys
    PROVE  \/ \E k \in Keys : keys = <<k>> /\ Of(keys) = {k}
           \/ \E k, j \in Keys : k # j /\ keys = <<k, j>> /\ Of(keys) = {k, j}
<1>1. \/ \E k \in Keys : keys = <<k>>
      \/ \E k, j \in Keys : k # j /\ keys = <<k, j>>
    BY DEF BucketKeys
<1>2. ASSUME NEW k \in Keys, keys = <<k>> PROVE Of(keys) = {k}
    BY <1>2 DEF Of
<1>3. ASSUME NEW k \in Keys, NEW j \in Keys, keys = <<k, j>> PROVE Of(keys) = {k, j}
    <2>1. DOMAIN keys = {1, 2} /\ keys[1] = k /\ keys[2] = j
        BY <1>3
    <2> QED
        BY <2>1 DEF Of
<1> QED
    BY <1>1, <1>2, <1>3

LEMMA NoKeys == Of(<<>>) = {}
BY DEF Of

LEMMA FreesTransitive ==
    ASSUME NEW s, NEW t, NEW u, IsStore(s), IsStore(t), IsStore(u), NEW k, NEW j, k # j,
           Frees(s, t, {k}), Frees(t, u, {j})
    PROVE  Frees(s, u, {k, j})
<1> SUFFICES ASSUME NEW x
             PROVE  InFlight(u, x) <= IF x \in {k, j} THEN OneLess(InFlight(s, x))
                                      ELSE InFlight(s, x)
    BY DEF Frees
<1>1. InFlight(s, x) \in Nat /\ InFlight(t, x) \in Nat /\ InFlight(u, x) \in Nat
    BY InFlightType
<1>2. /\ InFlight(t, x) <= IF x = k THEN OneLess(InFlight(s, x)) ELSE InFlight(s, x)
      /\ InFlight(u, x) <= IF x = j THEN OneLess(InFlight(t, x)) ELSE InFlight(t, x)
    BY DEF Frees
<1> QED
    BY <1>1, <1>2 DEF OneLess

\* The first loop of consume is a clean-up.
LEMMA LookedIsSound ==
    ASSUME NEW n \in Nat, NEW s, Sound(s, n), NEW keys \in BucketKeys
    PROVE  LET t == Looked(s, keys, n)
           IN  Sound(t, n) /\ Eases(s, t) /\ KeepsLocked(s, t, n)
<1>1. ASSUME NEW k \in Keys, keys = <<k>>
      PROVE  LET t == Looked(s, keys, n)
             IN  Sound(t, n) /\ Eases(s, t) /\ KeepsLocked(s, t, n)
    <2>1. Looked(s, keys, n) = Refreshed(s, k, n)
        BY <1>1 DEF Looked, Each
    <2> QED
        BY <2>1, RefreshedIsSound
<1>2. ASSUME NEW k \in Keys, NEW j \in Keys, keys = <<k, j>>
      PROVE  LET t == Looked(s, keys, n)
             IN  Sound(t, n) /\ Eases(s, t) /\ KeepsLocked(s, t, n)
    <2> DEFINE r == Refreshed(s, k, n)
               t == Refreshed(r, j, n)
    <2>1. Looked(s, keys, n) = t
        BY <1>2 DEF Looked, Each
    <2>2. Sound(r, n) /\ Eases(s, r) /\ KeepsLocked(s, r, n)
        BY RefreshedIsSound
    <2>3. Sound(t, n) /\ Eases(r, t) /\ KeepsLocked(r, t, n)
        <3> HIDE DEF r
        <3> QED
            BY <2>2, RefreshedIsSound
    <2> HIDE DEF r, t
    <2>4. IsStore(s) /\ IsStore(r) /\ IsStore(t)
        BY <2>2, <2>3 DEF Sound
    <2> QED
        BY <2>1, <2>2, <2>3, <2>4, EasesTransitive
<1> QED
    BY <1>1, <1>2, KeysAreOneOrTwo

\* An attempt that is admitted is counted once in each of its buckets
\* (consume).
LEMMA ConsumedIsSound ==
    ASSUME NEW n \in Nat, NEW s, Sound(s, n), NEW keys \in BucketKeys, Admits(s, keys, n)
    PROVE  LET u == Consumed(s, keys, n)
           IN  /\ Sound(u, n) /\ Served(s, u, n)
               /\ \A x : InFlight(u, x) <= InFlight(s, x) + (IF x \in Of(keys) THEN 1 ELSE 0)
<1> DEFINE l == Looked(s, keys, n)
           Good(u) == /\ Sound(u, n) /\ Served(s, u, n)
                      /\ \A x : InFlight(u, x) <=
                                InFlight(s, x) + (IF x \in Of(keys) THEN 1 ELSE 0)
<1>1. Sound(l, n) /\ Eases(s, l) /\ KeepsLocked(s, l, n)
    BY LookedIsSound
<1>2. \A i \in DOMAIN keys : ~Refuses(l, keys[i], n)
    BY DEF Admits
<1>3. IsStore(s) /\ IsStore(l)
    BY <1>1 DEF Sound
<1>4. Holds(s, l, n)
    BY <1>1, <1>3, KeptAreHeld
<1>5. \A x : /\ InFlight(s, x) \in Nat /\ InFlight(l, x) \in Nat
             /\ InFlight(l, x) <= InFlight(s, x)
    BY <1>1, <1>3, InFlightType, EasesInFlight
<1>6. ASSUME NEW k \in Keys, keys = <<k>>, Of(keys) = {k}
      PROVE  Good(Consumed(s, keys, n))
    <2> DEFINE u == Reserved(l, k, n)
    <2>1. Consumed(s, keys, n) = u
        BY <1>6 DEF Consumed, Each
    <2>2. ~Refuses(l, k, n)
        BY <1>2, <1>6
    <2> HIDE DEF l
    <2>3. /\ Sound(u, n)
          /\ \A x : InFlight(u, x) <= InFlight(l, x) + (IF x = k THEN 1 ELSE 0)
          /\ Holds(l, u, n) \/ (Crowded(l, {}) /\ Crowded(u, {k}))
        BY <1>1, <2>2, ReservedIsSound
    <2> HIDE DEF u
    <2>4. IsStore(u)
        BY <2>3 DEF Sound
    <2>5. Served(s, u, n)
        BY <1>1, <1>3, <1>4, <2>3, <2>4, HoldsTransitive, CrowdedBefore DEF Served
    <2>6. \A x : InFlight(u, x) \in Nat
        BY <2>4, InFlightType
    <2>7. \A x : InFlight(u, x) <= InFlight(s, x) + (IF x \in Of(keys) THEN 1 ELSE 0)
        BY <1>5, <1>6, <2>3, <2>6
    <2> QED
        BY <2>1, <2>3, <2>5, <2>7
<1>7. ASSUME NEW k \in Keys, NEW j \in Keys, k # j, keys = <<k, j>>, Of(keys) = {k, j}
      PROVE  Good(Consumed(s, keys, n))
    <2> DEFINE t == Reserved(l, k, n)
               u == Reserved(t, j, n)
    <2>1. Consumed(s, keys, n) = u
        BY <1>7 DEF Consumed, Each
    <2>2. ~Refuses(l, k, n) /\ ~Refuses(l, j, n)
        BY <1>2, <1>7
    <2> HIDE DEF l
    <2>3. /\ Sound(t, n) /\ ~Refuses(t, j, n)
          /\ \A x : InFlight(t, x) <= InFlight(l, x) + (IF x = k THEN 1 ELSE 0)
          /\ Holds(l, t, n) \/ (Crowded(l, {}) /\ Crowded(t, {k}))
        BY <1>1, <1>7, <2>2, ReservedIsSound
    <2> HIDE DEF t
    <2>4. /\ Sound(u, n) /\ j \in DOMAIN u
          /\ \A x : InFlight(u, x) <= InFlight(t, x) + (IF x = j THEN 1 ELSE 0)
          /\ Holds(t, u, n) \/ (Crowded(t, {}) /\ Crowded(u, {j}))
        <3>1. j \in DOMAIN Created(t, j, n)
            BY <2>3, CreatedIsSound
        <3>2. j \in DOMAIN u
            BY <3>1 DEF Reserved
        <3> HIDE DEF u
        <3> QED
            BY <2>3, <3>2, ReservedIsSound DEF u
    <2> HIDE DEF u
    <2>5. IsStore(t) /\ IsStore(u)
        BY <2>3, <2>4 DEF Sound
    <2>6. Served(s, u, n)
        <3>1. CASE Crowded(l, {})
            BY <1>1, <1>3, <3>1, CrowdedBefore DEF Served
        <3>2. CASE Crowded(u, {j})
            BY <2>4, <3>2 DEF Served
        <3>3. CASE Holds(l, t, n) /\ Holds(t, u, n)
            BY <1>3, <1>4, <2>5, <3>3, HoldsTransitive DEF Served
        <3> QED
            BY <2>3, <2>4, <3>1, <3>2, <3>3
    <2>7. \A x : InFlight(t, x) \in Nat /\ InFlight(u, x) \in Nat
        BY <2>5, InFlightType
    <2>8. \A x : InFlight(u, x) <= InFlight(s, x) + (IF x \in Of(keys) THEN 1 ELSE 0)
        BY <1>5, <1>7, <2>3, <2>4, <2>7
    <2> QED
        BY <2>1, <2>4, <2>6, <2>8
<1> HIDE DEF Good
<1>8. Good(Consumed(s, keys, n))
    BY <1>6, <1>7, KeysAreOneOrTwo
<1> QED
    BY <1>8 DEF Good

\* A failure gives the attempt's reservations back (recordFailure).
LEMMA FailureIsSound ==
    ASSUME NEW n \in Nat, NEW s, Sound(s, n), NEW keys \in BucketKeys \cup {<<>>}
    PROVE  LET u == FailureRecorded(s, keys, n)
           IN  Sound(u, n) /\ Served(s, u, n) /\ Frees(s, u, Of(keys))
<1> DEFINE Good(u) == Sound(u, n) /\ Served(s, u, n) /\ Frees(s, u, Of(keys))
<1>1. IsStore(s)
    BY DEF Sound
<1>2. CASE keys = <<>>
    <2>1. FailureRecorded(s, keys, n) = s
        BY <1>2 DEF FailureRecorded, Each
    <2>2. \A x : InFlight(s, x) \in Nat
        BY <1>1, InFlightType
    <2>3. Frees(s, s, Of(keys))
        BY <1>2, <2>2, NoKeys DEF Frees
    <2> QED
        BY <1>1, <2>1, <2>3, EasesReflexive, KeptAreHeld DEF Served
<1>3. ASSUME NEW k \in Keys, keys = <<k>>, Of(keys) = {k}
      PROVE  Good(FailureRecorded(s, keys, n))
    <2>1. FailureRecorded(s, keys, n) = FailedOne(s, k, n)
        BY <1>3 DEF FailureRecorded, Each
    <2> QED
        BY <1>3, <2>1, FailedOneIsSound DEF Served
<1>4. ASSUME NEW k \in Keys, NEW j \in Keys, k # j, keys = <<k, j>>, Of(keys) = {k, j}
      PROVE  Good(FailureRecorded(s, keys, n))
    <2> DEFINE t == FailedOne(s, k, n)
               u == FailedOne(t, j, n)
    <2>1. FailureRecorded(s, keys, n) = u
        BY <1>4 DEF FailureRecorded, Each
    <2>2. /\ Sound(t, n) /\ Frees(s, t, {k})
          /\ Holds(s, t, n) \/ Crowded(s, {})
        BY FailedOneIsSound
    <2> HIDE DEF t
    <2>3. /\ Sound(u, n) /\ Frees(t, u, {j}) /\ j \in DOMAIN u
          /\ Holds(t, u, n) \/ Crowded(u, {j})
        <3>1. j \in DOMAIN Created(t, j, n)
            BY <2>2, CreatedIsSound
        <3>2. j \in DOMAIN u
            BY <3>1 DEF FailedOne
        <3> HIDE DEF u
        <3> QED
            BY <2>2, <3>2, FailedOneIsSound DEF u
    <2> HIDE DEF u
    <2>4. IsStore(t) /\ IsStore(u)
        BY <2>2, <2>3 DEF Sound
    <2>5. Served(s, u, n)
        BY <1>1, <2>2, <2>3, <2>4, HoldsTransitive DEF Served
    <2>6. Frees(s, u, Of(keys))
        BY <1>1, <1>4, <2>2, <2>3, <2>4, FreesTransitive
    <2> QED
        BY <2>1, <2>3, <2>5, <2>6
<1> HIDE DEF Good
<1>5. Good(FailureRecorded(s, keys, n))
    <2>1. CASE keys = <<>>
        BY <1>2, <2>1 DEF Good
    <2>2. CASE keys \in BucketKeys
        BY <1>3, <1>4, <2>2, KeysAreOneOrTwo
    <2> QED
        BY <2>1, <2>2
<1> QED
    BY <1>5 DEF Good

\* So does a release, which ends no lockout (release).
LEMMA ReleasedIsSound ==
    ASSUME NEW n \in Nat, NEW s, Sound(s, n), NEW keys \in BucketKeys \cup {<<>>}
    PROVE  LET u == Released(s, keys)
           IN  Sound(u, n) /\ Holds(s, u, n) /\ Frees(s, u, Of(keys))
<1> DEFINE Good(u) == Sound(u, n) /\ Holds(s, u, n) /\ Frees(s, u, Of(keys))
<1>1. IsStore(s)
    BY DEF Sound
<1>2. CASE keys = <<>>
    <2>1. Released(s, keys) = s
        BY <1>2 DEF Released, Each
    <2>2. \A x : InFlight(s, x) \in Nat
        BY <1>1, InFlightType
    <2>3. Frees(s, s, Of(keys))
        BY <1>2, <2>2, NoKeys DEF Frees
    <2> QED
        BY <1>1, <2>1, <2>3, EasesReflexive, KeptAreHeld
<1>3. ASSUME NEW k \in Keys, keys = <<k>>, Of(keys) = {k}
      PROVE  Good(Released(s, keys))
    <2>1. Released(s, keys) = ReleasedOne(s, k)
        BY <1>3 DEF Released, Each
    <2> QED
        BY <1>3, <2>1, ReleasedOneIsSound
<1>4. ASSUME NEW k \in Keys, NEW j \in Keys, k # j, keys = <<k, j>>, Of(keys) = {k, j}
      PROVE  Good(Released(s, keys))
    <2> DEFINE t == ReleasedOne(s, k)
               u == ReleasedOne(t, j)
    <2>1. Released(s, keys) = u
        BY <1>4 DEF Released, Each
    <2>2. Sound(t, n) /\ Frees(s, t, {k}) /\ Holds(s, t, n)
        BY ReleasedOneIsSound
    <2> HIDE DEF t
    <2>3. Sound(u, n) /\ Frees(t, u, {j}) /\ Holds(t, u, n)
        BY <2>2, ReleasedOneIsSound
    <2> HIDE DEF u
    <2>4. IsStore(t) /\ IsStore(u)
        BY <2>2, <2>3 DEF Sound
    <2> QED
        BY <1>1, <1>4, <2>1, <2>2, <2>3, <2>4, HoldsTransitive, FreesTransitive
<1> HIDE DEF Good
<1>5. Good(Released(s, keys))
    <2>1. CASE keys = <<>>
        BY <1>2, <2>1 DEF Good
    <2>2. CASE keys \in BucketKeys
        BY <1>3, <1>4, <2>2, KeysAreOneOrTwo
    <2> QED
        BY <2>1, <2>2
<1> QED
    BY <1>5 DEF Good

\* A success drops its buckets and no other (recordSuccess).
LEMMA SuccessIsSound ==
    ASSUME NEW n \in Nat, NEW s, Sound(s, n), NEW keys \in BucketKeys \cup {<<>>}
    PROVE  LET u == SuccessRecorded(s, keys)
           IN  /\ Sound(u, n) /\ Frees(s, u, Of(keys))
               /\ \A k \in DOMAIN s : \/ k \in Of(keys)
                                      \/ k \in DOMAIN u /\ u[k].lockedUntil = s[k].lockedUntil
<1> DEFINE Good(u) == /\ Sound(u, n) /\ Frees(s, u, Of(keys))
                      /\ \A x \in DOMAIN s :
                            \/ x \in Of(keys)
                            \/ x \in DOMAIN u /\ u[x].lockedUntil = s[x].lockedUntil
<1>1. IsStore(s)
    BY DEF Sound
<1>2. CASE keys = <<>>
    <2>1. SuccessRecorded(s, keys) = s
        BY <1>2 DEF SuccessRecorded, Each
    <2>2. \A x : InFlight(s, x) \in Nat
        BY <1>1, InFlightType
    <2>3. Frees(s, s, Of(keys))
        BY <1>2, <2>2, NoKeys DEF Frees
    <2> QED
        BY <2>1, <2>3
<1>3. ASSUME NEW k \in Keys, keys = <<k>>, Of(keys) = {k}
      PROVE  Good(SuccessRecorded(s, keys))
    <2>1. SuccessRecorded(s, keys) = Without(s, k)
        BY <1>3 DEF SuccessRecorded, Each
    <2>2. /\ Sound(Without(s, k), n) /\ Frees(s, Without(s, k), {k})
          /\ DOMAIN Without(s, k) = DOMAIN s \ {k} /\ Eases(s, Without(s, k))
        BY WithoutIsSound
    <2> QED
        BY <1>3, <2>1, <2>2 DEF Eases, Eased
<1>4. ASSUME NEW k \in Keys, NEW j \in Keys, k # j, keys = <<k, j>>, Of(keys) = {k, j}
      PROVE  Good(SuccessRecorded(s, keys))
    <2> DEFINE t == Without(s, k)
               u == Without(t, j)
    <2>1. SuccessRecorded(s, keys) = u
        BY <1>4 DEF SuccessRecorded, Each
    <2>2. /\ Sound(t, n) /\ Frees(s, t, {k}) /\ DOMAIN t = DOMAIN s \ {k}
          /\ Eases(s, t)
        BY WithoutIsSound
    <2> HIDE DEF t
    <2>3. /\ Sound(u, n) /\ Frees(t, u, {j}) /\ DOMAIN u = DOMAIN t \ {j}
          /\ Eases(t, u)
        BY <2>2, WithoutIsSound
    <2> HIDE DEF u
    <2>4. IsStore(t) /\ IsStore(u)
        BY <2>2, <2>3 DEF Sound
    <2>5. Frees(s, u, Of(keys))
        BY <1>1, <1>4, <2>2, <2>3, <2>4, FreesTransitive
    <2> QED
        BY <1>4, <2>1, <2>2, <2>3, <2>5 DEF Eases, Eased
<1> HIDE DEF Good
<1>5. Good(SuccessRecorded(s, keys))
    <2>1. CASE keys = <<>>
        BY <1>2, <2>1 DEF Good
    <2>2. CASE keys \in BucketKeys
        BY <1>3, <1>4, <2>2, KeysAreOneOrTwo
    <2> QED
        BY <2>1, <2>2
<1> QED
    BY <1>5 DEF Good

-----------------------------------------------------------------------------
(* What most steps leave alone *)

Inside(x) == x.kind = "Initialize" /\ x.phase \in {"recheck", "create"}

Charging(x, k) == k \in Of(x.keys) /\ x.phase \in {"begun", "claim", "assert"}

Bears(x, ch) ==
    x.kind = "StepUp" /\ x.challenge = ch /\ x.phase \in {"assert", "use", "elevate"}

Whole(x) ==
    /\ x.kind \in Authenticated => x.session # NoOne
    /\ x.phase \in {"claim", "assert", "use", "elevate"} => x.challenge # NoOne
    /\ x.keys # <<>> => x.kind \in {"Login", "PasskeyLogin"}
    /\ x.challenge = NoOne <=> x.passkey = NoOne

\* A request goes from x to y without coming under the lock of initialization,
Stays(x, y) == y = x \/ ~Inside(y)
\* without taking up or dropping a reservation,
Charged(x, y) == \A k : Charging(x, k) => Charging(y, k)
\* without seeing or ending other sessions,
Seeing(x, y) ==
    y.seen # {} => /\ y.seen = x.seen /\ y.session = x.session
                   /\ y.phase = "answered" => x.phase = "answered"
\* and without getting past a claim.
Bearing(x, y) == \A ch \in Challenges : Bears(y, ch) => Bears(x, ch)

Calm(x, y) == Whole(y) /\ Stays(x, y) /\ Seeing(x, y) /\ Bearing(x, y)
Quiet(x, y) == Calm(x, y) /\ Charged(x, y)

\* A session goes from r to q, its life never from its end back, ...
Ages(r, q) ==
    /\ r.status # "none" => q.status # "none"
    /\ r.status = "revoked" => q.status = "revoked"
    /\ r.status = "expired" => q.status # "active"
\* ... and without a new step-up.
Lowers(r, q) == q.elevation = r.elevation \/ q.elevation = NoOne

\* TypeOK but for the store.
TypeRest ==
    /\ users \in Nat /\ initLock \in Callers \cup {NoOne} /\ call \in [Callers -> CallShapes]
    /\ session \in [Sessions -> SessionRows] /\ challenge \in [Challenges -> ChallengeRows]
    /\ passkeys \subseteq Passkeys
    /\ claims \in [Challenges -> Nat] /\ spent \in [Challenges -> Nat]
    /\ now \in Nat /\ nextPruneAt \in Nat /\ restarts \in Nat /\ mix \in Mixes

Typed == TypeRest /\ CallsAreWhole

LEMMA NoOneIsNone ==
    /\ NoOne \notin Callers /\ NoOne \notin Sessions /\ NoOne \notin Challenges
    /\ NoOne \notin Passkeys
BY AccountsAssumption

LEMMA IdleIsQuiet ==
    /\ Idle \in CallShapes /\ Whole(Idle) /\ ~Inside(Idle)
    /\ \A x : Calm(x, Idle)
    /\ \A k : ~Charging(Idle, k)
BY DEF Idle, CallShapes, Kinds, Phases, Whole, Inside, Calm, Stays, Seeing, Bearing, Bears,
       Charging, Of, Authenticated, Sensitive

\* A request that does not move is quiet.
LEMMA StillIsQuiet ==
    ASSUME NEW x, Whole(x) PROVE Quiet(x, x)
BY DEF Quiet, Calm, Stays, Charged, Seeing, Bearing

\* One request moves, and the others do not.
LEMMA OneMoves ==
    ASSUME Typed, NEW c \in Callers, NEW new \in CallShapes, Whole(new),
           call' = [call EXCEPT ![c] = new]
    PROVE  /\ call' \in [Callers -> CallShapes] /\ \A d \in Callers : Whole(call'[d])
           /\ call'[c] = new /\ \A d \in Callers \ {c} : call'[d] = call[d]
<1>1. call \in [Callers -> CallShapes] /\ \A d \in Callers : Whole(call[d])
    BY DEF Typed, TypeRest, CallsAreWhole, Whole
<1> QED
    BY <1>1

LEMMA OneMovesQuietly ==
    ASSUME Typed, NEW c \in Callers, NEW new \in CallShapes,
           call' = [call EXCEPT ![c] = new], Quiet(call[c], new)
    PROVE  call' \in [Callers -> CallShapes] /\ \A d \in Callers : Quiet(call[d], call'[d])
<1>1. Whole(new) /\ \A d \in Callers : Whole(call[d])
    BY DEF Quiet, Calm, Typed, TypeRest, CallsAreWhole, Whole
<1>2. /\ call' \in [Callers -> CallShapes]
      /\ call'[c] = new /\ \A d \in Callers \ {c} : call'[d] = call[d]
    BY <1>1, OneMoves
<1>3. \A d \in Callers : Quiet(call[d], call[d])
    BY <1>1, StillIsQuiet
<1> QED
    BY <1>2, <1>3

\* A request answered, and one that goes on.
LEMMA AnsweredMoves ==
    ASSUME NEW c, Answer(c) PROVE call' = [call EXCEPT ![c] = Idle]
BY DEF Answer

LEMMA SteppedMoves ==
    ASSUME Typed, NEW c \in Callers, NEW phase \in Phases, Step(c, phase)
    PROVE  \E new \in CallShapes :
              /\ call' = [call EXCEPT ![c] = new] /\ new.phase = phase
              /\ new.kind = call[c].kind /\ new.session = call[c].session
              /\ new.challenge = call[c].challenge /\ new.passkey = call[c].passkey
              /\ new.keys = call[c].keys /\ new.seen = call[c].seen
<1>1. call[c] \in CallShapes
    BY DEF Typed, TypeRest
<1> DEFINE new == [call[c] EXCEPT !.phase = phase]
<1>2. /\ new \in CallShapes /\ new.phase = phase
      /\ new.kind = call[c].kind /\ new.session = call[c].session
      /\ new.challenge = call[c].challenge /\ new.passkey = call[c].passkey
      /\ new.keys = call[c].keys /\ new.seen = call[c].seen
    BY <1>1 DEF CallShapes
<1>3. call' = [call EXCEPT ![c] = new]
    BY DEF Step, Typed, TypeRest
<1> QED
    BY <1>2, <1>3

\* What the quiet steps have in common.
CallsAreQuiet ==
    call' \in [Callers -> CallShapes] /\ \A d \in Callers : Quiet(call[d], call'[d])

SessionsGoOn ==
    /\ session' \in [Sessions -> SessionRows]
    /\ \A s \in Sessions : Ages(session[s], session'[s]) /\ Lowers(session[s], session'[s])

Quietly ==
    /\ CallsAreQuiet /\ SessionsGoOn /\ passkeys' \subseteq Passkeys
    /\ UNCHANGED <<users, initLock, challenge, claims, spent, store, nextPruneAt, now, mix,
                   restarts>>

LEMMA SameSessions ==
    ASSUME Typed, session' = session PROVE SessionsGoOn
BY DEF Typed, TypeRest, SessionsGoOn, Ages, Lowers

\* One session's row is written.
LEMMA OneSession ==
    ASSUME Typed, NEW s \in Sessions, NEW row \in SessionRows,
           session' = [session EXCEPT ![s] = row],
           Ages(session[s], row), Lowers(session[s], row)
    PROVE  SessionsGoOn
BY DEF Typed, TypeRest, SessionsGoOn, Ages, Lowers

LEMMA RevokedSessions ==
    ASSUME Typed, NEW doomed, session' = Revoke(doomed)
    PROVE  /\ SessionsGoOn
           /\ \A s \in Sessions \cap doomed :
                session[s].status # "none" => session'[s].status = "revoked"
<1>1. \A s \in Sessions : session[s] \in SessionRows
    BY DEF Typed, TypeRest
<1>2. ASSUME NEW s \in Sessions
      PROVE  session'[s] = IF s \in doomed /\ session[s].status \in {"active", "expired"}
                           THEN [session[s] EXCEPT !.status = "revoked"] ELSE session[s]
    BY DEF Revoke
<1>3. ASSUME NEW s \in Sessions
      PROVE  LET row == [session[s] EXCEPT !.status = "revoked"]
             IN  /\ row \in SessionRows /\ row.status = "revoked"
                 /\ row.elevation = session[s].elevation
    BY <1>1 DEF SessionRows
<1>4. session' \in [Sessions -> SessionRows]
    <2>1. \A s \in Sessions : session'[s] \in SessionRows
        BY <1>1, <1>2, <1>3
    <2> QED
        BY <2>1 DEF Revoke
<1>5. \A s \in Sessions : Ages(session[s], session'[s]) /\ Lowers(session[s], session'[s])
    BY <1>2, <1>3 DEF Ages, Lowers
<1>6. \A s \in Sessions \cap doomed :
        session[s].status # "none" => session'[s].status = "revoked"
    BY <1>1, <1>2, <1>3 DEF SessionRows
<1> QED
    BY <1>4, <1>5, <1>6 DEF SessionsGoOn

\* The request of a step that only answers has no reservation to lose.
LEMMA AnswersQuietly ==
    ASSUME Typed, NEW c \in Callers, Answer(c), \A k : ~Charging(call[c], k)
    PROVE  CallsAreQuiet
<1>1. Quiet(call[c], Idle)
    BY IdleIsQuiet DEF Quiet, Charged
<1> QED
    BY <1>1, IdleIsQuiet, AnsweredMoves, OneMovesQuietly DEF CallsAreQuiet

\* Nor has a request that begins: an idle one moves quietly.
LEMMA BeginsQuietly ==
    ASSUME Typed, NEW c \in Callers, call[c] = Idle, NEW new \in CallShapes, Whole(new),
           call' = [call EXCEPT ![c] = new], new.seen = {},
           new.phase \notin {"recheck", "create", "assert", "use", "elevate"}
    PROVE  CallsAreQuiet
<1>1. Quiet(call[c], new)
    BY IdleIsQuiet DEF Quiet, Calm, Charged, Stays, Inside, Seeing, Bearing, Bears
<1> QED
    BY <1>1, OneMovesQuietly DEF CallsAreQuiet

\* A request that goes on moves quietly into most phases.
LEMMA StepsQuietly ==
    ASSUME Typed, NEW c \in Callers, NEW phase \in Phases, Step(c, phase),
           phase \notin {"recheck", "create", "answered"},
           phase \in {"claim", "assert", "use", "elevate"} => call[c].challenge # NoOne,
           phase \in {"assert", "use", "elevate"} =>
                call[c].kind # "StepUp" \/ call[c].phase \in {"assert", "use", "elevate"},
           phase \in {"begun", "claim", "assert"} \/ \A k : ~Charging(call[c], k)
    PROVE  CallsAreQuiet
<1>1. PICK new \in CallShapes :
         /\ call' = [call EXCEPT ![c] = new] /\ new.phase = phase
         /\ new.kind = call[c].kind /\ new.session = call[c].session
         /\ new.challenge = call[c].challenge /\ new.passkey = call[c].passkey
         /\ new.keys = call[c].keys /\ new.seen = call[c].seen
    BY SteppedMoves
<1>2. Whole(call[c])
    BY DEF Typed, CallsAreWhole, Whole
<1>3. Whole(new)
    BY <1>1, <1>2 DEF Whole
<1>4. Stays(call[c], new) /\ Seeing(call[c], new) /\ Bearing(call[c], new)
    BY <1>1 DEF Stays, Inside, Seeing, Bearing, Bears
<1>5. Charged(call[c], new)
    BY <1>1 DEF Charged, Charging
<1> QED
    BY <1>1, <1>3, <1>4, <1>5, OneMovesQuietly DEF Quiet, Calm, CallsAreQuiet

\* Only the throttled calls have buckets.
LEMMA OthersAreFree ==
    ASSUME Typed, NEW c \in Callers, call[c].kind \notin {"Login", "PasskeyLogin"}
    PROVE  call[c].keys = <<>> /\ \A k : ~Charging(call[c], k)
BY NoKeys DEF Typed, CallsAreWhole, Charging

-----------------------------------------------------------------------------
(* The quiet steps *)

LEMMA InitializeBegins ==
    ASSUME Typed, NEW c \in Callers, StartInitialize(c) PROVE Quietly
<1> DEFINE new == [Idle EXCEPT !.kind = "Initialize", !.phase = "lock"]
<1>1. new \in CallShapes /\ Whole(new) /\ new.seen = {} /\ new.phase = "lock"
    BY IdleIsQuiet DEF Idle, CallShapes, Kinds, Phases, Whole, Authenticated, Sensitive, Starts
<1>2. call[c] = Idle /\ call' = [call EXCEPT ![c] = new]
    BY DEF StartInitialize, Start
<1> HIDE DEF new
<1>3. CallsAreQuiet
    BY <1>1, <1>2, BeginsQuietly
<1> QED
    BY <1>3, SameSessions
    DEF StartInitialize, Quietly, setup, proofs, throttle, world, Typed, TypeRest

LEMMA SessionsAreIssued ==
    ASSUME Typed, NEW c \in Callers, IssueSession(c) PROVE Quietly
<1>1. Answer(c) /\ \A k : ~Charging(call[c], k)
    BY DEF IssueSession, At, Charging
<1>2. CallsAreQuiet
    BY <1>1, AnswersQuietly
<1>3. SessionsGoOn
    <2>1. CASE session' = session
        BY <2>1, SameSessions
    <2>2. CASE \E s \in Sessions : /\ session[s].status = "none"
                                   /\ session' = [session EXCEPT ![s].status = "active"]
        <3>1. PICK s \in Sessions : /\ session[s].status = "none"
                                    /\ session' = [session EXCEPT ![s].status = "active"]
            BY <2>2
        <3> DEFINE row == [session[s] EXCEPT !.status = "active"]
        <3>2. session[s] \in SessionRows
            BY DEF Typed, TypeRest
        <3>3. row \in SessionRows /\ row.status = "active" /\ row.elevation = session[s].elevation
            BY <3>2 DEF SessionRows
        <3>4. session' = [session EXCEPT ![s] = row]
            BY <3>1 DEF Typed, TypeRest
        <3>5. Ages(session[s], row) /\ Lowers(session[s], row)
            BY <3>1, <3>3 DEF Ages, Lowers
        <3> QED
            BY <3>3, <3>4, <3>5, OneSession
    <2> QED
        BY <2>1, <2>2 DEF IssueSession
<1> QED
    BY <1>2, <1>3 DEF IssueSession, Quietly, setup, proofs, throttle, world, Typed, TypeRest

LEMMA RequestsAuthenticate ==
    ASSUME Typed, NEW c \in Callers, NEW kind \in Authenticated, NEW s \in Sessions,
           Authenticate(c, kind, s)
    PROVE  Quietly
<1>1. PICK phase \in {"slide", "begun"} :
         call' = [call EXCEPT ![c] = [Idle EXCEPT !.kind = kind, !.phase = phase,
                                                  !.session = s]]
    BY DEF Authenticate
<1> DEFINE new == [Idle EXCEPT !.kind = kind, !.phase = phase, !.session = s]
<1>2. /\ new \in CallShapes /\ new.seen = {} /\ new.phase = phase /\ new.session = s
      /\ new.keys = <<>> /\ new.challenge = NoOne /\ new.passkey = NoOne
    BY DEF Idle, CallShapes, Kinds, Phases
<1>3. Whole(new)
    BY <1>2, NoOneIsNone DEF Whole
<1>4. call[c] = Idle
    BY DEF Authenticate, Start
<1>5. call' = [call EXCEPT ![c] = new]
    BY <1>1
<1> HIDE DEF new
<1>6. CallsAreQuiet
    BY <1>2, <1>3, <1>4, <1>5, BeginsQuietly
<1> QED
    BY <1>6, SameSessions
    DEF Authenticate, Quietly, setup, proofs, throttle, world, Typed, TypeRest

LEMMA SlidesAreWritten ==
    ASSUME Typed, NEW c \in Callers, WriteSlide(c) PROVE Quietly
<1>1. call[c].kind \in Authenticated /\ call[c].phase = "slide" /\ call[c] \in CallShapes
    BY DEF WriteSlide, At, Typed, TypeRest
<1> DEFINE s == call[c].session
<1>2. s \in Sessions
    BY <1>1 DEF Typed, CallsAreWhole, CallShapes
<1>3. CallsAreQuiet
    BY <1>1, StepsQuietly DEF WriteSlide, Phases, Charging
<1> DEFINE row == [session[s] EXCEPT !.idle = FALSE]
<1>4. session[s] \in SessionRows
    BY <1>2 DEF Typed, TypeRest
<1>5. /\ row \in SessionRows /\ row.status = session[s].status
      /\ row.elevation = session[s].elevation
    BY <1>4 DEF SessionRows
<1>6. session' = [session EXCEPT ![s] = row]
    BY DEF WriteSlide, SlideWrites
<1>7. Ages(session[s], row) /\ Lowers(session[s], row)
    BY <1>5 DEF Ages, Lowers
<1> HIDE DEF row
<1>8. SessionsGoOn
    BY <1>2, <1>5, <1>6, <1>7, OneSession
<1> QED
    BY <1>3, <1>8 DEF WriteSlide, Quietly, setup, proofs, throttle, world, Typed, TypeRest

LEMMA SessionsLogOut ==
    ASSUME Typed, NEW c \in Callers, Logout(c) \/ LogoutAllOthers(c) PROVE Quietly
<1>1. Answer(c) /\ call[c].kind \notin {"Login", "PasskeyLogin"}
    BY DEF Logout, LogoutAllOthers, At
<1>2. CallsAreQuiet
    BY <1>1, OthersAreFree, AnswersQuietly
<1>3. SessionsGoOn
    BY RevokedSessions DEF Logout, LogoutAllOthers
<1> QED
    BY <1>2, <1>3
    DEF Logout, LogoutAllOthers, Quietly, setup, proofs, throttle, world, Typed, TypeRest

LEMMA CeremoniesBegin ==
    ASSUME Typed, NEW c \in Callers, StartBeginLogin(c) \/ BeginCeremony(c) PROVE Quietly
<1>1. CASE StartBeginLogin(c)
    <2> DEFINE new == [Idle EXCEPT !.kind = "BeginLogin", !.phase = "begun"]
    <2>1. new \in CallShapes /\ Whole(new) /\ new.seen = {} /\ new.phase = "begun"
        BY IdleIsQuiet DEF Idle, CallShapes, Kinds, Phases, Whole, Authenticated, Sensitive, Starts
    <2>2. call[c] = Idle /\ call' = [call EXCEPT ![c] = new]
        BY <1>1 DEF StartBeginLogin, Start
    <2> HIDE DEF new
    <2>3. CallsAreQuiet
        BY <2>1, <2>2, BeginsQuietly
    <2> QED
        BY <1>1, <2>3, SameSessions
        DEF StartBeginLogin, Quietly, setup, proofs, throttle, world, Typed, TypeRest
<1>2. CASE BeginCeremony(c)
    <2>1. call[c].kind \notin {"Login", "PasskeyLogin"}
        BY <1>2 DEF BeginCeremony, At, Starts
    <2>2. \A k : ~Charging(call[c], k)
        BY <2>1, OthersAreFree
    <2>3. Step(c, "challenge") \/ Answer(c)
        BY <1>2 DEF BeginCeremony
    <2>4. CallsAreQuiet
        BY <2>2, <2>3, StepsQuietly, AnswersQuietly DEF Phases
    <2> QED
        BY <1>2, <2>4, SameSessions
        DEF BeginCeremony, Quietly, setup, proofs, throttle, world, Typed, TypeRest
<1> QED
    BY <1>1, <1>2

LEMMA AnswersAreRead ==
    ASSUME Typed, NEW c \in Callers, ReadAnswer(c) PROVE Quietly
<1>1. PICK ch \in Challenges, p \in Passkeys :
         call' = [call EXCEPT ![c].challenge = ch, ![c].passkey = p]
    BY DEF ReadAnswer
<1>2. /\ call[c] \in CallShapes /\ call[c].kind \in {"Register", "StepUp"}
      /\ call[c].phase = "begun" /\ Whole(call[c])
    BY DEF ReadAnswer, At, Typed, TypeRest, CallsAreWhole, Whole
<1> DEFINE new == [call[c] EXCEPT !.challenge = ch, !.passkey = p]
<1>3. /\ new \in CallShapes /\ new.kind = call[c].kind /\ new.phase = "begun"
      /\ new.session = call[c].session /\ new.keys = call[c].keys
      /\ new.seen = call[c].seen /\ new.challenge = ch /\ new.passkey = p
    BY <1>2 DEF CallShapes
<1>4. call' = [call EXCEPT ![c] = new]
    BY <1>1 DEF Typed, TypeRest
<1> HIDE DEF new
<1>5. Whole(new)
    BY <1>2, <1>3, NoOneIsNone DEF Whole
<1>6. Quiet(call[c], new)
    BY <1>2, <1>3, <1>5
    DEF Quiet, Calm, Charged, Charging, Stays, Inside, Seeing, Bearing, Bears
<1>7. CallsAreQuiet
    BY <1>3, <1>4, <1>6, OneMovesQuietly DEF CallsAreQuiet
<1> QED
    BY <1>7, SameSessions
    DEF ReadAnswer, Quietly, setup, proofs, throttle, world, Typed, TypeRest

LEMMA PasskeysComeAndGo ==
    ASSUME Typed, NEW c \in Callers, StorePasskey(c) \/ RemovePasskey(c) PROVE Quietly
<1>1. call[c].kind \notin {"Login", "PasskeyLogin"} /\ Answer(c)
    BY DEF StorePasskey, RemovePasskey, At
<1>2. CallsAreQuiet
    BY <1>1, OthersAreFree, AnswersQuietly
<1>3. passkeys' \subseteq Passkeys
    <2>1. call[c] \in CallShapes
        BY DEF Typed, TypeRest
    <2>2. CASE StorePasskey(c)
        <3>1. call[c].passkey \in Passkeys
            BY <2>1, <2>2 DEF StorePasskey, At, Typed, CallsAreWhole, CallShapes
        <3> QED
            BY <2>2, <3>1 DEF StorePasskey, Typed, TypeRest
    <2>3. CASE RemovePasskey(c)
        BY <2>3 DEF RemovePasskey, Typed, TypeRest
    <2> QED
        BY <2>2, <2>3
<1> QED
    BY <1>2, <1>3, SameSessions
    DEF StorePasskey, RemovePasskey, Quietly, setup, throttle, world

LEMMA UsesAreRecorded ==
    ASSUME Typed, NEW c \in Callers, RecordUse(c) PROVE Quietly
<1>1. call[c].kind \in {"PasskeyLogin", "StepUp"} /\ call[c].phase = "use"
    BY DEF RecordUse, At
<1>2. (\A k : ~Charging(call[c], k)) /\ call[c].challenge # NoOne
    BY <1>1 DEF Charging, Typed, CallsAreWhole
<1>3. Answer(c) \/ Step(c, "elevate") \/ Step(c, "issue")
    BY DEF RecordUse
<1>4. CallsAreQuiet
    BY <1>1, <1>2, <1>3, StepsQuietly, AnswersQuietly DEF Phases
<1> QED
    BY <1>4, SameSessions
    DEF RecordUse, Quietly, setup, proofs, throttle, world, Typed, TypeRest

LEMMA RequestsGoOn ==
    ASSUME Typed, NEW c \in Callers, VerifyPassword(c) \/ EndRequest(c) PROVE Quietly
<1>1. CASE VerifyPassword(c)
    <2>1. call[c].kind \notin {"Login", "PasskeyLogin"} /\ (Step(c, "write") \/ Answer(c))
        BY <1>1 DEF VerifyPassword, At, Sensitive
    <2>2. \A k : ~Charging(call[c], k)
        BY <2>1, OthersAreFree
    <2>3. CallsAreQuiet
        BY <2>1, <2>2, StepsQuietly, AnswersQuietly DEF Phases
    <2> QED
        BY <1>1, <2>3, SameSessions
        DEF VerifyPassword, Quietly, setup, proofs, throttle, world, Typed, TypeRest
<1>2. CASE EndRequest(c)
    <2>1. Answer(c) /\ \A k : ~Charging(call[c], k)
        BY <1>2 DEF EndRequest, Charging
    <2>2. CallsAreQuiet
        BY <2>1, AnswersQuietly
    <2> QED
        BY <1>2, <2>2, SameSessions
        DEF EndRequest, Quietly, setup, proofs, throttle, world, Typed, TypeRest
<1> QED
    BY <1>1, <1>2

\* No request moves when a session lapses or nothing happens at all.
LEMMA NobodyMoves ==
    ASSUME Typed, call' = call PROVE CallsAreQuiet
BY StillIsQuiet DEF CallsAreQuiet, Typed, TypeRest, CallsAreWhole, Whole

LEMMA SessionsLapse ==
    ASSUME Typed, NEW s \in Sessions, SessionLapses(s) PROVE Quietly
<1>1. session[s] \in SessionRows /\ session[s].status = "active"
    BY DEF Typed, TypeRest, SessionLapses
<1>2. SessionsGoOn
    <2>1. CASE session' = [session EXCEPT ![s].idle = TRUE]
        <3> DEFINE row == [session[s] EXCEPT !.idle = TRUE]
        <3>1. row \in SessionRows /\ Ages(session[s], row) /\ Lowers(session[s], row)
            BY <1>1 DEF SessionRows, Ages, Lowers
        <3>2. session' = [session EXCEPT ![s] = row]
            BY <2>1 DEF Typed, TypeRest
        <3> QED
            BY <3>1, <3>2, OneSession
    <2>2. CASE session' = [session EXCEPT ![s].status = "expired"]
        <3> DEFINE row == [session[s] EXCEPT !.status = "expired"]
        <3>1. row \in SessionRows /\ Ages(session[s], row) /\ Lowers(session[s], row)
            BY <1>1 DEF SessionRows, Ages, Lowers
        <3>2. session' = [session EXCEPT ![s] = row]
            BY <2>2 DEF Typed, TypeRest
        <3> QED
            BY <3>1, <3>2, OneSession
    <2>3. CASE session' = [session EXCEPT ![s].elevation = NoOne]
        <3> DEFINE row == [session[s] EXCEPT !.elevation = NoOne]
        <3>1. row \in SessionRows /\ Ages(session[s], row) /\ Lowers(session[s], row)
            BY <1>1 DEF SessionRows, Ages, Lowers
        <3>2. session' = [session EXCEPT ![s] = row]
            BY <2>3 DEF Typed, TypeRest
        <3> QED
            BY <3>1, <3>2, OneSession
    <2> QED
        BY <2>1, <2>2, <2>3 DEF SessionLapses
<1> QED
    BY <1>2, NobodyMoves
    DEF SessionLapses, Quietly, setup, proofs, throttle, world, Typed, TypeRest

-----------------------------------------------------------------------------
(* The other steps, and what each still leaves alone *)

CallsAreCalm ==
    call' \in [Callers -> CallShapes] /\ \A d \in Callers : Calm(call[d], call'[d])

\* Nothing happens to the account and who may create it, ...
InitFrame ==
    /\ users' = users /\ initLock' = initLock
    /\ \A d \in Callers : Stays(call[d], call'[d])
\* ... to what a change of password sees and ends, ...
SeenFrame ==
    /\ \A s \in Sessions : Ages(session[s], session'[s])
    /\ \A d \in Callers : Seeing(call[d], call'[d])
\* ... to the challenges and step-ups, ...
ProofFrame ==
    /\ UNCHANGED <<claims, spent>>
    /\ \A ch \in Challenges :
          challenge[ch].status \in {"consumed", "swept"} =>
              challenge'[ch].status \in {"consumed", "swept"}
    /\ \A s \in Sessions : Lowers(session[s], session'[s])
    /\ \A d \in Callers : Bearing(call[d], call'[d])
\* ... and to the throttle.
ThrottleFrame ==
    /\ store' = store /\ now' \in Nat /\ now <= now'
    /\ \A d \in Callers : Charged(call[d], call'[d])

LEMMA OneMovesCalmly ==
    ASSUME Typed, NEW c \in Callers, NEW new \in CallShapes,
           call' = [call EXCEPT ![c] = new], Calm(call[c], new)
    PROVE  CallsAreCalm
<1>1. Whole(new) /\ \A d \in Callers : Whole(call[d])
    BY DEF Calm, Typed, TypeRest, CallsAreWhole, Whole
<1>2. /\ call' \in [Callers -> CallShapes]
      /\ call'[c] = new /\ \A d \in Callers \ {c} : call'[d] = call[d]
    BY <1>1, OneMoves
<1>3. \A d \in Callers : Calm(call[d], call[d])
    BY <1>1, StillIsQuiet DEF Quiet
<1> QED
    BY <1>2, <1>3 DEF CallsAreCalm

LEMMA AnswersCalmly ==
    ASSUME Typed, NEW c \in Callers, Answer(c)
    PROVE  /\ CallsAreCalm /\ call'[c] = Idle
           /\ \A d \in Callers \ {c} : call'[d] = call[d]
BY IdleIsQuiet, AnsweredMoves, OneMoves, OneMovesCalmly

LEMMA StepsCalmly ==
    ASSUME Typed, NEW c \in Callers, NEW phase \in Phases, Step(c, phase),
           phase \notin {"recheck", "create", "answered"},
           phase \in {"claim", "assert", "use", "elevate"} => call[c].challenge # NoOne,
           phase \in {"assert", "use", "elevate"} =>
                call[c].kind # "StepUp" \/ call[c].phase \in {"assert", "use", "elevate"}
    PROVE  /\ CallsAreCalm /\ call'[c].phase = phase /\ call'[c].keys = call[c].keys
           /\ \A d \in Callers \ {c} : call'[d] = call[d]
<1>1. PICK new \in CallShapes :
         /\ call' = [call EXCEPT ![c] = new] /\ new.phase = phase
         /\ new.kind = call[c].kind /\ new.session = call[c].session
         /\ new.challenge = call[c].challenge /\ new.passkey = call[c].passkey
         /\ new.keys = call[c].keys /\ new.seen = call[c].seen
    BY SteppedMoves
<1>2. Whole(call[c])
    BY DEF Typed, CallsAreWhole, Whole
<1>3. Whole(new)
    BY <1>1, <1>2 DEF Whole
<1>4. Stays(call[c], new) /\ Seeing(call[c], new) /\ Bearing(call[c], new)
    BY <1>1 DEF Stays, Inside, Seeing, Bearing, Bears
<1>5. Calm(call[c], new)
    BY <1>3, <1>4 DEF Calm
<1> QED
    BY <1>1, <1>3, <1>5, OneMoves, OneMovesCalmly

LEMMA CallsGoOn ==
    ASSUME CallsAreCalm PROVE \A d \in Callers : Whole(call'[d])
BY DEF CallsAreCalm, Calm

LEMMA QuietIsCalm ==
    ASSUME CallsAreQuiet
    PROVE  CallsAreCalm /\ \A d \in Callers : Charged(call[d], call'[d])
BY DEF CallsAreQuiet, CallsAreCalm, Quiet

\* Types after a step.
LEMMA TypedAfter ==
    ASSUME call' \in [Callers -> CallShapes], \A d \in Callers : Whole(call'[d]),
           users' \in Nat, initLock' \in Callers \cup {NoOne},
           session' \in [Sessions -> SessionRows], challenge' \in [Challenges -> ChallengeRows],
           passkeys' \subseteq Passkeys,
           claims' \in [Challenges -> Nat], spent' \in [Challenges -> Nat],
           now' \in Nat, nextPruneAt' \in Nat, restarts' \in Nat, mix' \in Mixes
    PROVE  Typed'
BY DEF Typed, TypeRest, CallsAreWhole, Whole

LEMMA QuietSteps ==
    ASSUME Typed, Quietly
    PROVE  Typed' /\ InitFrame /\ SeenFrame /\ ProofFrame /\ ThrottleFrame
<1>1. CallsAreCalm /\ \A d \in Callers : Charged(call[d], call'[d])
    BY QuietIsCalm DEF Quietly
<1>2. Typed'
    BY <1>1, CallsGoOn, TypedAfter DEF Quietly, CallsAreCalm, SessionsGoOn, Typed, TypeRest
<1>3. InitFrame /\ SeenFrame /\ ProofFrame
    BY <1>1 DEF Quietly, CallsAreCalm, Calm, InitFrame, SeenFrame, ProofFrame, SessionsGoOn
<1>4. ThrottleFrame
    BY <1>1 DEF Quietly, ThrottleFrame, Typed, TypeRest
<1> QED
    BY <1>2, <1>3, <1>4

\* The statements of initialization.
InitSteps == {"lock", "recheck", "create"}

LEMMA InitializationSteps ==
    ASSUME Typed, NEW c \in Callers, LockInitialize(c) \/ Recheck(c) \/ CreateAccount(c)
    PROVE  Typed' /\ SeenFrame /\ ProofFrame /\ ThrottleFrame
<1>1. /\ call[c].kind = "Initialize" /\ call[c].phase \in InitSteps /\ Whole(call[c])
      /\ call[c] \in CallShapes
    BY DEF LockInitialize, Recheck, CreateAccount, At, InitSteps, Typed, TypeRest, CallsAreWhole,
           Whole
<1>2. \E new \in CallShapes :
         /\ call' = [call EXCEPT ![c] = new] /\ Whole(new)
         /\ Seeing(call[c], new) /\ Bearing(call[c], new) /\ Charged(call[c], new)
    <2>1. CASE Answer(c)
        <3>1. \A k : ~Charging(call[c], k)
            BY <1>1 DEF InitSteps, Charging
        <3> QED
            BY <2>1, <3>1, AnsweredMoves, IdleIsQuiet DEF Calm, Charged
    <2>2. CASE \E phase \in {"recheck", "create", "issue"} : Step(c, phase)
        <3>1. PICK phase \in {"recheck", "create", "issue"} : Step(c, phase)
            BY <2>2
        <3>2. PICK new \in CallShapes :
                 /\ call' = [call EXCEPT ![c] = new] /\ new.phase = phase
                 /\ new.kind = call[c].kind /\ new.session = call[c].session
                 /\ new.challenge = call[c].challenge /\ new.passkey = call[c].passkey
                 /\ new.keys = call[c].keys /\ new.seen = call[c].seen
            BY <3>1, SteppedMoves DEF Phases
        <3>3. Whole(new)
            BY <1>1, <3>2 DEF Whole
        <3>4. Seeing(call[c], new) /\ Bearing(call[c], new) /\ Charged(call[c], new)
            BY <1>1, <3>2 DEF InitSteps, Seeing, Bearing, Bears, Charged, Charging
        <3> QED
            BY <3>2, <3>3, <3>4
    <2> QED
        BY <2>1, <2>2 DEF LockInitialize, Recheck, CreateAccount
<1>3. /\ call' \in [Callers -> CallShapes]
      /\ \A d \in Callers : /\ Whole(call'[d]) /\ Seeing(call[d], call'[d])
                            /\ Bearing(call[d], call'[d]) /\ Charged(call[d], call'[d])
    <2>1. PICK new \in CallShapes :
             /\ call' = [call EXCEPT ![c] = new] /\ Whole(new)
             /\ Seeing(call[c], new) /\ Bearing(call[c], new) /\ Charged(call[c], new)
        BY <1>2
    <2>2. /\ call' \in [Callers -> CallShapes] /\ \A d \in Callers : Whole(call'[d])
          /\ call'[c] = new /\ \A d \in Callers \ {c} : call'[d] = call[d]
        BY <2>1, OneMoves
    <2>3. \A x : Seeing(x, x) /\ Bearing(x, x) /\ Charged(x, x)
        BY DEF Seeing, Bearing, Charged
    <2> QED
        BY <2>1, <2>2, <2>3
<1>4. /\ users' \in Nat /\ initLock' \in Callers \cup {NoOne}
      /\ UNCHANGED <<session, proofs, throttle, world>>
    BY DEF LockInitialize, EnterInitLock, Recheck, CreateAccount, Typed, TypeRest
<1>5. SessionsGoOn
    BY <1>4, SameSessions
<1>6. Typed'
    BY <1>3, <1>4, TypedAfter DEF proofs, throttle, world, Typed, TypeRest
<1>7. SeenFrame /\ ProofFrame /\ ThrottleFrame
    BY <1>3, <1>4, <1>5
    DEF SeenFrame, ProofFrame, ThrottleFrame, SessionsGoOn, proofs, throttle, world, Typed, TypeRest
<1> QED
    BY <1>6, <1>7

\* The statements of a login touch neither the account, nor sessions, nor, but
\* for the claim, a challenge.
LEMMA CalmFrames ==
    ASSUME Typed, CallsAreCalm, UNCHANGED <<setup, session, mix, restarts, passkeys, spent>>,
           now' \in Nat, nextPruneAt' \in Nat,
           challenge' \in [Challenges -> ChallengeRows], claims' \in [Challenges -> Nat]
    PROVE  /\ Typed' /\ InitFrame /\ SeenFrame
           /\ challenge' = challenge /\ claims' = claims => ProofFrame
<1>1. SessionsGoOn
    BY SameSessions
<1>2. Typed'
    BY <1>1, CallsGoOn, TypedAfter DEF CallsAreCalm, setup, Typed, TypeRest
<1> QED
    BY <1>1, <1>2
    DEF CallsAreCalm, Calm, InitFrame, SeenFrame, ProofFrame, SessionsGoOn, setup

\* An attempt begins: it is admitted, or refused.
Admitted(c, keys) ==
    /\ Admits(Tidied, keys, now) /\ store' = Consumed(Tidied, keys, now)
    /\ call'[c].keys = keys /\ call'[c].phase = "begun"
    /\ \A d \in Callers \ {c} : call'[d] = call[d]
Refused(keys) == store' = Looked(Tidied, keys, now) /\ call' = call

LEMMA PruneTimeType == ASSUME Typed PROVE PruneTime \in Nat
BY Constants DEF PruneTime, Typed, TypeRest

LEMMA AttemptSteps ==
    ASSUME Typed, NEW c \in Callers, StartLogin(c) \/ StartPasskeyLogin(c)
    PROVE  /\ Typed' /\ InitFrame /\ SeenFrame /\ ProofFrame /\ now' = now
           /\ call[c] = Idle
           /\ \E keys \in BucketKeys : Admitted(c, keys) \/ Refused(keys)
<1>1. PICK kind \in {"Login", "PasskeyLogin"}, keys \in BucketKeys,
           ch \in Challenges \cup {NoOne}, p \in Passkeys \cup {NoOne} :
         Attempt(c, kind, keys, ch, p) /\ (ch = NoOne <=> p = NoOne)
    <2>1. CASE StartLogin(c)
        <3>1. PICK keys \in Buckets : Attempt(c, "Login", keys, NoOne, NoOne)
            BY <2>1 DEF StartLogin
        <3>2. keys \in BucketKeys
            BY <3>1, AccountsAssumption
        <3> QED
            BY <3>1, <3>2
    <2>2. CASE StartPasskeyLogin(c)
        <3>1. PICK ch \in Challenges, p \in Passkeys :
                 Attempt(c, "PasskeyLogin", PasskeyBuckets, ch, p)
            BY <2>2 DEF StartPasskeyLogin
        <3>2. PasskeyBuckets \in BucketKeys /\ ch # NoOne /\ p # NoOne
            BY <3>1, AccountsAssumption, NoOneIsNone
        <3> QED
            BY <3>1, <3>2
    <2> QED
        BY <2>1, <2>2
<1>2. call[c] = Idle /\ nextPruneAt' = PruneTime /\ UNCHANGED <<setup, session, proofs, world>>
    BY <1>1 DEF Attempt, Start
<1> DEFINE new == [Idle EXCEPT !.kind = kind, !.phase = "begun", !.keys = keys,
                               !.challenge = ch, !.passkey = p]
<1>3. /\ new \in CallShapes /\ new.kind = kind /\ new.phase = "begun" /\ new.keys = keys
      /\ new.challenge = ch /\ new.passkey = p /\ new.seen = {} /\ new.session = NoOne
    BY <1>1 DEF Idle, CallShapes, Kinds, Phases, Ceremonies
<1>4. Whole(new)
    BY <1>1, <1>3 DEF Whole, Authenticated, Sensitive
<1>5. CASE Admits(Tidied, keys, now)
    <2>1. store' = Consumed(Tidied, keys, now) /\ call' = [call EXCEPT ![c] = new]
        BY <1>1, <1>5 DEF Attempt
    <2> HIDE DEF new
    <2>2. /\ CallsAreQuiet /\ call'[c] = new
          /\ \A d \in Callers \ {c} : call'[d] = call[d]
        BY <1>2, <1>3, <1>4, <2>1, BeginsQuietly, OneMoves
    <2>3. Typed' /\ InitFrame /\ SeenFrame /\ ProofFrame /\ now' = now
        BY <1>2, <2>2, QuietIsCalm, CalmFrames, PruneTimeType
        DEF proofs, world, Typed, TypeRest
    <2>4. Admitted(c, keys)
        BY <1>3, <1>5, <2>1, <2>2 DEF Admitted
    <2> QED
        BY <1>2, <2>3, <2>4
<1>6. CASE ~Admits(Tidied, keys, now)
    <2>1. Refused(keys)
        BY <1>1, <1>6 DEF Attempt, Refused
    <2>2. CallsAreQuiet
        BY <2>1, NobodyMoves DEF Refused
    <2>3. Typed' /\ InitFrame /\ SeenFrame /\ ProofFrame /\ now' = now
        BY <1>2, <2>2, QuietIsCalm, CalmFrames, PruneTimeType
        DEF proofs, world, Typed, TypeRest
    <2> QED
        BY <1>2, <2>1, <2>3
<1> QED
    BY <1>5, <1>6

\* An attempt ends in a failure, a release or a success.
Closes(c) ==
    /\ now' = now /\ call[c].phase \in {"begun", "claim", "assert"}
    /\ \A k : ~Charging(call'[c], k)
    /\ \A d \in Callers \ {c} : call'[d] = call[d]
    /\ \/ store' = FailureRecorded(Tidied, call[c].keys, now)
       \/ store' = Released(store, call[c].keys)
       \/ store' = SuccessRecorded(store, call[c].keys) /\ call'[c].phase \in {"issue", "use"}

\* Answers and steps that close an attempt.
LEMMA AnswersClose ==
    ASSUME Typed, NEW c \in Callers, Answer(c), CountFailure(c) \/ GiveBack(c), now' = now,
           call[c].phase \in {"begun", "claim", "assert"}
    PROVE  CallsAreCalm /\ Closes(c) /\ nextPruneAt' \in Nat
<1>1. /\ CallsAreCalm /\ call'[c] = Idle
      /\ \A d \in Callers \ {c} : call'[d] = call[d]
    BY AnswersCalmly
<1> QED
    BY <1>1, IdleIsQuiet, PruneTimeType
    DEF CountFailure, GiveBack, Closes, Typed, TypeRest

LEMMA VerdictSteps ==
    ASSUME Typed, NEW c \in Callers, Verdict(c)
    PROVE  Typed' /\ InitFrame /\ SeenFrame /\ ProofFrame /\ Closes(c)
<1>1. /\ call[c].kind = "Login" /\ call[c].phase = "begun"
      /\ UNCHANGED <<setup, session, proofs, world>>
    BY DEF Verdict, At
<1>2. now' = now
    BY <1>1 DEF world
<1>3. CallsAreCalm /\ Closes(c) /\ nextPruneAt' \in Nat
    <2>1. CASE CountSuccess(c) /\ Step(c, "issue")
        <3>1. /\ CallsAreCalm /\ call'[c].phase = "issue"
              /\ \A d \in Callers \ {c} : call'[d] = call[d]
            BY <2>1, StepsCalmly DEF Phases
        <3> QED
            BY <1>1, <1>2, <2>1, <3>1 DEF CountSuccess, Closes, Charging, Typed, TypeRest
    <2>2. CASE (CountFailure(c) \/ GiveBack(c)) /\ Answer(c)
        BY <1>1, <1>2, <2>2, AnswersClose
    <2> QED
        BY <2>1, <2>2 DEF Verdict
<1> QED
    BY <1>1, <1>2, <1>3, CalmFrames DEF proofs, world, Typed, TypeRest

LEMMA ReadSteps ==
    ASSUME Typed, NEW c \in Callers, ReadChallenge(c)
    PROVE  Typed' /\ InitFrame /\ SeenFrame /\ ProofFrame /\ (ThrottleFrame \/ Closes(c))
<1>1. /\ call[c].phase = "begun" /\ call[c].challenge # NoOne
      /\ UNCHANGED <<setup, session, proofs, world>>
    BY DEF ReadChallenge, At
<1>2. now' = now
    BY <1>1 DEF world
<1>3. CallsAreCalm /\ (ThrottleFrame \/ Closes(c)) /\ nextPruneAt' \in Nat
    <2>1. CASE Step(c, "claim") /\ UNCHANGED throttle
        <3>1. CallsAreQuiet
            BY <1>1, <2>1, StepsQuietly DEF Phases
        <3> QED
            BY <1>2, <2>1, <3>1, QuietIsCalm DEF throttle, ThrottleFrame, Typed, TypeRest
    <2>2. CASE Fails(c)
        BY <1>1, <1>2, <2>2, AnswersClose DEF Fails
    <2> QED
        BY <2>1, <2>2 DEF ReadChallenge
<1> QED
    BY <1>1, <1>2, <1>3, CalmFrames DEF proofs, world, Typed, TypeRest

LEMMA AssertSteps ==
    ASSUME Typed, NEW c \in Callers, AssertCredential(c)
    PROVE  Typed' /\ InitFrame /\ SeenFrame /\ ProofFrame /\ (ThrottleFrame \/ Closes(c))
<1>1. /\ call[c].kind \in {"PasskeyLogin", "StepUp"} /\ call[c].phase = "assert"
      /\ UNCHANGED <<setup, session, proofs, world>>
    BY DEF AssertCredential, At
<1>2. now' = now /\ call[c].challenge # NoOne
    BY <1>1 DEF world, Typed, CallsAreWhole
<1>3. CallsAreCalm /\ (ThrottleFrame \/ Closes(c)) /\ nextPruneAt' \in Nat
    <2>1. CASE Fails(c)
        BY <1>1, <1>2, <2>1, AnswersClose DEF Fails
    <2>2. CASE call[c].kind = "StepUp" /\ UNCHANGED throttle /\ (Step(c, "use") \/ Answer(c))
        <3>1. \A k : ~Charging(call[c], k)
            BY <2>2, OthersAreFree
        <3>2. CallsAreQuiet
            BY <1>1, <1>2, <2>2, <3>1, StepsQuietly, AnswersQuietly DEF Phases
        <3> QED
            BY <1>2, <2>2, <3>2, QuietIsCalm DEF throttle, ThrottleFrame, Typed, TypeRest
    <2>3. CASE call[c].kind # "StepUp" /\ Step(c, "use") /\ CountSuccess(c)
        <3>1. /\ CallsAreCalm /\ call'[c].phase = "use"
              /\ \A d \in Callers \ {c} : call'[d] = call[d]
            BY <1>2, <2>3, StepsCalmly DEF Phases
        <3> QED
            BY <1>1, <1>2, <2>3, <3>1 DEF CountSuccess, Closes, Charging, Typed, TypeRest
    <2>4. CASE Answer(c) /\ CountFailure(c)
        BY <1>1, <1>2, <2>4, AnswersClose
    <2> QED
        BY <2>1, <2>2, <2>3, <2>4 DEF AssertCredential
<1> QED
    BY <1>1, <1>2, <1>3, CalmFrames DEF proofs, world, Typed, TypeRest

\* The claim of a challenge that is still there to claim.
Claimed(c, ch) ==
    /\ ch \in Challenges /\ challenge[ch].status = "pending" /\ call[c].challenge = ch
    /\ challenge' = [challenge EXCEPT ![ch].status = "consumed"]
    /\ claims' = [claims EXCEPT ![ch] = @ + 1]
    /\ spent' = spent /\ session' = session
    /\ call'[c].challenge = ch /\ \A d \in Callers \ {c} : call'[d] = call[d]

LEMMA ClaimSteps ==
    ASSUME Typed, NEW c \in Callers, ClaimChallenge(c)
    PROVE  /\ Typed' /\ InitFrame /\ SeenFrame /\ (ThrottleFrame \/ Closes(c))
           /\ ProofFrame \/ \E ch \in Challenges : Claimed(c, ch)
<1> DEFINE ch == call[c].challenge
<1>1. /\ call[c].phase = "claim" /\ call[c].kind \in DOMAIN Ceremonies
      /\ UNCHANGED <<setup, session, passkeys, spent, world>>
    BY DEF ClaimChallenge, At
<1>2. now' = now /\ ch # NoOne /\ call[c] \in CallShapes /\ Whole(call[c])
    BY <1>1 DEF world, Typed, TypeRest, CallsAreWhole, Whole
<1>3. ch \in Challenges
    BY <1>2 DEF CallShapes
<1>4. CASE ClaimMatches(ch)
    <2>1. /\ challenge' = [challenge EXCEPT ![ch].status = "consumed"]
          /\ claims' = [claims EXCEPT ![ch] = @ + 1]
          /\ Step(c, "assert") /\ UNCHANGED throttle
        BY <1>4 DEF ClaimChallenge
    <2>2. PICK new \in CallShapes :
             /\ call' = [call EXCEPT ![c] = new] /\ new.phase = "assert"
             /\ new.kind = call[c].kind /\ new.session = call[c].session
             /\ new.challenge = call[c].challenge /\ new.passkey = call[c].passkey
             /\ new.keys = call[c].keys /\ new.seen = call[c].seen
        BY <2>1, SteppedMoves DEF Phases
    <2>3. Whole(new)
        BY <1>2, <2>2 DEF Whole
    <2>4. /\ call' \in [Callers -> CallShapes] /\ \A d \in Callers : Whole(call'[d])
          /\ call'[c] = new /\ \A d \in Callers \ {c} : call'[d] = call[d]
        BY <2>2, <2>3, OneMoves
    <2>5. Stays(call[c], new) /\ Seeing(call[c], new) /\ Charged(call[c], new)
        BY <1>1, <2>2 DEF Stays, Inside, Seeing, Charged, Charging
    <2>6. \A x : Stays(x, x) /\ Seeing(x, x) /\ Charged(x, x)
        BY DEF Stays, Seeing, Charged
    <2>7. \A d \in Callers : /\ Stays(call[d], call'[d]) /\ Seeing(call[d], call'[d])
                             /\ Charged(call[d], call'[d])
        BY <2>4, <2>5, <2>6
    <2>8. SessionsGoOn
        BY <1>1, SameSessions
    <2>9. challenge' \in [Challenges -> ChallengeRows] /\ claims' \in [Challenges -> Nat]
        <3>1. challenge[ch] \in ChallengeRows /\ claims[ch] \in Nat
            BY <1>3 DEF Typed, TypeRest
        <3>2. [challenge[ch] EXCEPT !.status = "consumed"] \in ChallengeRows
            BY <3>1 DEF ChallengeRows
        <3>3. challenge' = [challenge EXCEPT ![ch] = [challenge[ch] EXCEPT !.status = "consumed"]]
            BY <2>1 DEF Typed, TypeRest
        <3> HIDE DEF ch
        <3> QED
            BY <1>3, <2>1, <3>1, <3>2, <3>3 DEF Typed, TypeRest
    <2>10. Typed'
        BY <1>1, <2>1, <2>4, <2>8, <2>9, TypedAfter DEF setup, world, throttle, Typed, TypeRest
    <2>11. InitFrame /\ SeenFrame /\ ThrottleFrame
        BY <1>1, <2>1, <2>7, <2>8
        DEF InitFrame, SeenFrame, ThrottleFrame, SessionsGoOn, setup, world, throttle, Typed,
            TypeRest
    <2>12. Claimed(c, ch)
        BY <1>1, <1>3, <1>4, <2>1, <2>2, <2>4 DEF Claimed, ClaimMatches
    <2> QED
        BY <1>3, <2>10, <2>11, <2>12
<1>5. CASE ~ClaimMatches(ch)
    <2>1. Fails(c) /\ UNCHANGED <<challenge, claims>>
        BY <1>5 DEF ClaimChallenge
    <2>2. CallsAreCalm /\ Closes(c) /\ nextPruneAt' \in Nat
        BY <1>1, <1>2, <2>1, AnswersClose DEF Fails
    <2> QED
        BY <1>1, <1>2, <2>1, <2>2, CalmFrames DEF world, Typed, TypeRest
<1> QED
    BY <1>4, <1>5

\* A challenge is issued, or expires; none becomes redeemable again.
LEMMA ChallengeSteps ==
    ASSUME Typed,
           \/ \E c \in Callers : IssueChallenge(c)
           \/ \E ch \in Challenges : ChallengeExpires(ch)
    PROVE  Typed' /\ InitFrame /\ SeenFrame /\ ProofFrame /\ ThrottleFrame
<1>1. UNCHANGED <<setup, session, passkeys, claims, spent, throttle, world>>
    BY DEF IssueChallenge, ChallengeExpires
<1>2. \A x \in Challenges : challenge[x] \in ChallengeRows
    BY DEF Typed, TypeRest
<1>3. /\ CallsAreQuiet /\ challenge' \in [Challenges -> ChallengeRows]
      /\ \A x \in Challenges :
            challenge[x].status \in {"consumed", "swept"} =>
                challenge'[x].status \in {"consumed", "swept"}
    <2>1. CASE \E c \in Callers : IssueChallenge(c)
        <3>1. PICK c \in Callers : IssueChallenge(c)
            BY <2>1
        <3>2. call[c].kind \in DOMAIN Starts /\ call[c].phase = "challenge" /\ Answer(c)
            BY <3>1 DEF IssueChallenge, At
        <3>3. CallsAreQuiet
            BY <3>2, AnswersQuietly DEF Charging
        <3>4. PICK gone \in {{}, Redeemed}, ch \in Challenges :
                 /\ challenge[ch].status = "none"
                 /\ challenge' = [x \in Challenges |->
                        CASE x = ch -> [status |-> "pending", purpose |-> Starts[call[c].kind]]
                          [] x \in gone -> [challenge[x] EXCEPT !.status = "swept"]
                          [] OTHER -> challenge[x]]
            BY <3>1 DEF IssueChallenge
        <3> DEFINE fresh == [status |-> "pending", purpose |-> Starts[call[c].kind]]
        <3>5. fresh \in ChallengeRows
            BY <3>2 DEF Starts, ChallengeRows, Purposes
        <3>6. \A x \in Challenges : \/ x = ch /\ challenge'[x] = fresh
                                    \/ challenge'[x] = [challenge[x] EXCEPT !.status = "swept"]
                                    \/ challenge'[x] = challenge[x]
            BY <3>4
        <3>7. \A x \in Challenges : LET row == [challenge[x] EXCEPT !.status = "swept"]
                                    IN  row \in ChallengeRows /\ row.status = "swept"
            BY <1>2 DEF ChallengeRows
        <3>8. \A x \in Challenges : challenge'[x] \in ChallengeRows
            BY <1>2, <3>5, <3>6, <3>7
        <3>9. challenge' \in [Challenges -> ChallengeRows]
            BY <3>4, <3>8
        <3>10. \A x \in Challenges :
                  challenge[x].status \in {"consumed", "swept"} =>
                      challenge'[x].status \in {"consumed", "swept"}
            BY <3>4, <3>6, <3>7
        <3> QED
            BY <3>3, <3>9, <3>10
    <2>2. CASE \E ch \in Challenges : ChallengeExpires(ch)
        <3>1. PICK ch \in Challenges : ChallengeExpires(ch)
            BY <2>2
        <3> DEFINE row == [challenge[ch] EXCEPT !.status = "expired"]
        <3>2. row \in ChallengeRows /\ challenge' = [challenge EXCEPT ![ch] = row]
            BY <1>2, <3>1 DEF ChallengeExpires, ChallengeRows, Typed, TypeRest
        <3>3. challenge[ch].status = "pending" /\ call' = call
            BY <3>1 DEF ChallengeExpires
        <3> QED
            BY <3>2, <3>3, NobodyMoves DEF Typed, TypeRest
    <2> QED
        BY <2>1, <2>2
<1>4. SessionsGoOn /\ CallsAreCalm /\ \A d \in Callers : Charged(call[d], call'[d])
    BY <1>1, <1>3, SameSessions, QuietIsCalm
<1>5. Typed'
    BY <1>1, <1>3, <1>4, CallsGoOn, TypedAfter
    DEF CallsAreCalm, setup, throttle, world, Typed, TypeRest
<1>6. InitFrame /\ SeenFrame /\ ProofFrame /\ ThrottleFrame
    BY <1>1, <1>3, <1>4
    DEF CallsAreCalm, Calm, InitFrame, SeenFrame, ProofFrame, ThrottleFrame, SessionsGoOn, setup,
        throttle, world, Typed, TypeRest
<1> QED
    BY <1>5, <1>6

\* A step-up that is verified is written to its session, unless that is over.
Elevates(c, s, ch) ==
    /\ Bears(call[c], ch) /\ call'[c] = Idle
    /\ \A d \in Callers \ {c} : call'[d] = call[d]
    /\ UNCHANGED <<challenge, claims, spent>>
    /\ session'[s].elevation \in {session[s].elevation, ch}
    /\ \A r \in Sessions \ {s} : session'[r] = session[r]

LEMMA ElevateSteps ==
    ASSUME Typed, NEW c \in Callers, Elevate(c)
    PROVE  /\ Typed' /\ InitFrame /\ SeenFrame /\ ThrottleFrame
           /\ \E s \in Sessions, ch \in Challenges : Elevates(c, s, ch)
<1> DEFINE s == call[c].session
           ch == call[c].challenge
<1>1. /\ call[c].kind = "StepUp" /\ call[c].phase = "elevate" /\ Answer(c)
      /\ call[c] \in CallShapes /\ session' = Elevated(s, ch)
      /\ UNCHANGED <<setup, proofs, throttle, world>>
    BY DEF Elevate, At, Typed, TypeRest
<1>2. s \in Sessions /\ ch \in Challenges
    BY <1>1 DEF Typed, CallsAreWhole, CallShapes, Authenticated
<1>3. \A k : ~Charging(call[c], k)
    BY <1>1 DEF Charging
<1>4. CallsAreQuiet
    BY <1>1, <1>3, AnswersQuietly
<1>5. call'[c] = Idle /\ \A d \in Callers \ {c} : call'[d] = call[d]
    BY <1>1, AnswersCalmly
<1> DEFINE row == [session[s] EXCEPT !.elevation = ch]
<1>6. session[s] \in SessionRows
    BY <1>2 DEF Typed, TypeRest
<1>7. row \in SessionRows /\ row.status = session[s].status /\ row.elevation = ch
    BY <1>2, <1>6 DEF SessionRows
<1>8. session' = session \/ session' = [session EXCEPT ![s] = row]
    BY <1>1, <1>2 DEF Elevated, Typed, TypeRest
<1> HIDE DEF row, s, ch
<1>9. /\ session' \in [Sessions -> SessionRows]
      /\ \A r \in Sessions : Ages(session[r], session'[r])
      /\ session'[s].elevation \in {session[s].elevation, ch}
      /\ \A r \in Sessions \ {s} : session'[r] = session[r]
    BY <1>2, <1>7, <1>8 DEF Ages, Typed, TypeRest
<1>10. CallsAreCalm /\ \A d \in Callers : Charged(call[d], call'[d])
    BY <1>4, QuietIsCalm
<1>11. Typed'
    BY <1>1, <1>9, <1>10, CallsGoOn, TypedAfter
    DEF CallsAreCalm, setup, proofs, throttle, world, Typed, TypeRest
<1>12. InitFrame /\ SeenFrame /\ ThrottleFrame
    BY <1>1, <1>9, <1>10
    DEF CallsAreCalm, Calm, InitFrame, SeenFrame, ThrottleFrame, setup, throttle, world, Typed,
        TypeRest
<1>13. Elevates(c, s, ch)
    BY <1>1, <1>5, <1>9 DEF Elevates, Bears, proofs, ch
<1> QED
    BY <1>2, <1>11, <1>12, <1>13

\* A step-up is spent, and its session has it no longer.
Spends(s) ==
    /\ session[s].elevation \in Challenges
    /\ session'[s].elevation = NoOne /\ \A r \in Sessions \ {s} : session'[r] = session[r]
    /\ spent' = [spent EXCEPT ![session[s].elevation] = @ + 1]
    /\ UNCHANGED <<challenge, claims>>
    /\ \A d \in Callers : Bearing(call[d], call'[d])

LEMMA ConsumeSteps ==
    ASSUME Typed, NEW c \in Callers, ConsumeReauthentication(c)
    PROVE  /\ Typed' /\ InitFrame /\ SeenFrame /\ ThrottleFrame
           /\ ProofFrame \/ \E s \in Sessions : Spends(s)
<1> DEFINE s == call[c].session
           spends == session[s].status # "revoked" /\ session[s].elevation # NoOne
<1>1. /\ call[c].kind \in Sensitive /\ call[c] \in CallShapes
      /\ UNCHANGED <<setup, challenge, passkeys, claims, throttle, world>>
    BY DEF ConsumeReauthentication, At, Typed, TypeRest
<1>2. s \in Sessions
    BY <1>1 DEF Typed, CallsAreWhole, CallShapes, Authenticated
<1>3. \A k : ~Charging(call[c], k)
    BY <1>1, OthersAreFree DEF Sensitive
<1>4. session[s] \in SessionRows
    BY <1>2 DEF Typed, TypeRest
<1>5. Step(c, "write") \/ Answer(c)
    BY DEF ConsumeReauthentication
<1>6. CallsAreQuiet
    BY <1>3, <1>5, StepsQuietly, AnswersQuietly DEF Phases
<1>7. CallsAreCalm /\ \A d \in Callers : Charged(call[d], call'[d])
    BY <1>6, QuietIsCalm
<1>8. /\ SessionsGoOn /\ spent' \in [Challenges -> Nat]
      /\ UNCHANGED <<session, spent>> \/ Spends(s)
    <2>1. CASE ~spends
        <3>1. session' = session /\ spent' = spent
            BY <2>1 DEF ConsumeReauthentication
        <3> QED
            BY <3>1, SameSessions DEF Typed, TypeRest
    <2>2. CASE spends
        <3> DEFINE row == [session[s] EXCEPT !.elevation = NoOne]
                   ch == session[s].elevation
        <3>1. ClearElevation(s) /\ spent' = [spent EXCEPT ![ch] = @ + 1]
            BY <2>2 DEF ConsumeReauthentication
        <3>2. row \in SessionRows /\ row.status = session[s].status /\ row.elevation = NoOne
            BY <1>4 DEF SessionRows
        <3>3. session' = [session EXCEPT ![s] = row]
            BY <1>2, <3>1 DEF ClearElevation, Typed, TypeRest
        <3>4. ch \in Challenges
            BY <1>4, <2>2 DEF SessionRows
        <3>5. Ages(session[s], row) /\ Lowers(session[s], row)
            BY <3>2 DEF Ages, Lowers
        <3> HIDE DEF row, s
        <3>6. SessionsGoOn
            BY <1>2, <3>2, <3>3, <3>5, OneSession
        <3>7. /\ session'[s].elevation = NoOne
              /\ \A r \in Sessions \ {s} : session'[r] = session[r]
            BY <1>2, <3>2, <3>3 DEF Typed, TypeRest
        <3>8. Spends(s)
            BY <1>1, <1>7, <3>1, <3>4, <3>7 DEF Spends, CallsAreCalm, Calm
        <3>9. spent' \in [Challenges -> Nat]
            <4> HIDE DEF ch
            <4>1. spent[ch] \in Nat
                BY <3>4 DEF Typed, TypeRest
            <4> QED
                BY <3>1, <3>4, <4>1 DEF Typed, TypeRest
        <3> QED
            BY <3>6, <3>8, <3>9
    <2> QED
        BY <2>1, <2>2
<1> HIDE DEF s
<1>9. Typed'
    BY <1>1, <1>7, <1>8, CallsGoOn, TypedAfter
    DEF CallsAreCalm, SessionsGoOn, setup, throttle, world, Typed, TypeRest
<1>10. InitFrame /\ SeenFrame /\ ThrottleFrame
    BY <1>1, <1>7, <1>8
    DEF CallsAreCalm, Calm, InitFrame, SeenFrame, ThrottleFrame, SessionsGoOn, setup, throttle,
        world, Typed, TypeRest
<1>11. UNCHANGED <<session, spent>> => ProofFrame
    BY <1>1, <1>7, <1>8 DEF CallsAreCalm, Calm, ProofFrame, SessionsGoOn
<1> QED
    BY <1>2, <1>8, <1>9, <1>10, <1>11

\* A change of password sees the other sessions, and then ends them.
Sees(c) ==
    /\ session' = session /\ \A d \in Callers \ {c} : call'[d] = call[d]
    /\ call'[c].phase # "answered"
    /\ \A s \in call'[c].seen : s \in Sessions /\ session[s].status = "active"

EndsOthers(c) ==
    /\ \A d \in Callers \ {c} : call'[d] = call[d]
    /\ call'[c].seen = call[c].seen /\ call'[c].session = call[c].session
    /\ \A s \in Sessions : Ages(session[s], session'[s])
    /\ \A s \in Sessions \ {call[c].session} :
          session[s].status # "none" => session'[s].status = "revoked"

LEMMA ChangeSteps ==
    ASSUME Typed, NEW c \in Callers, WriteChange(c) \/ RevokeOthers(c)
    PROVE  /\ Typed' /\ InitFrame /\ ProofFrame /\ ThrottleFrame
           /\ SeenFrame \/ Sees(c) \/ EndsOthers(c)
<1>1. /\ call[c].kind \in Sensitive /\ call[c] \in CallShapes /\ Whole(call[c])
      /\ UNCHANGED <<setup, proofs, throttle, world>>
    BY DEF WriteChange, RevokeOthers, At, Sensitive, Typed, TypeRest, CallsAreWhole, Whole
<1>2. \A k : ~Charging(call[c], k)
    BY <1>1, OthersAreFree DEF Sensitive
<1>3. SessionsGoOn
    BY SameSessions, RevokedSessions DEF WriteChange, RevokeOthers
<1>4. \E new \in CallShapes :
         /\ call' = [call EXCEPT ![c] = new] /\ Whole(new) /\ Stays(call[c], new)
         /\ Bearing(call[c], new)
         /\ \/ new.seen = {}
            \/ new.seen = Live /\ new.phase = "revoke" /\ session' = session
            \/ /\ new.seen = call[c].seen /\ new.session = call[c].session
               /\ session' = Revoke(Sessions \ {call[c].session})
    <2>1. CASE WriteChange(c) /\ call[c].kind = "ChangePassword"
        <3> DEFINE new == [call[c] EXCEPT !.phase = "revoke", !.seen = Live]
        <3>1. call' = [call EXCEPT ![c] = new]
            BY <2>1 DEF WriteChange
        <3>2. Live \in SUBSET Sessions
            BY DEF Live
        <3>3. /\ new \in CallShapes /\ new.phase = "revoke" /\ new.seen = Live
              /\ new.kind = call[c].kind /\ new.session = call[c].session
              /\ new.challenge = call[c].challenge /\ new.passkey = call[c].passkey
              /\ new.keys = call[c].keys
            BY <1>1, <3>2 DEF CallShapes, Phases
        <3> HIDE DEF new
        <3>4. Whole(new) /\ Stays(call[c], new) /\ Bearing(call[c], new)
            BY <1>1, <3>3 DEF Whole, Stays, Inside, Bearing, Bears
        <3>5. session' = session
            BY <2>1 DEF WriteChange
        <3> QED
            BY <3>1, <3>3, <3>4, <3>5
    <2>2. CASE WriteChange(c) /\ call[c].kind # "ChangePassword"
        <3>1. call' = [call EXCEPT ![c] = Idle]
            BY <2>2 DEF WriteChange
        <3>2. Idle.seen = {}
            BY DEF Idle
        <3> QED
            BY <3>1, <3>2, IdleIsQuiet DEF Calm
    <2>3. CASE RevokeOthers(c)
        <3>1. PICK new \in CallShapes :
                 /\ call' = [call EXCEPT ![c] = new] /\ new.phase = "answered"
                 /\ new.kind = call[c].kind /\ new.session = call[c].session
                 /\ new.challenge = call[c].challenge /\ new.passkey = call[c].passkey
                 /\ new.keys = call[c].keys /\ new.seen = call[c].seen
            BY <2>3, SteppedMoves DEF RevokeOthers, Phases
        <3>2. Whole(new) /\ Stays(call[c], new) /\ Bearing(call[c], new)
            BY <1>1, <3>1 DEF Whole, Stays, Inside, Bearing, Bears
        <3> QED
            BY <2>3, <3>1, <3>2 DEF RevokeOthers
    <2> QED
        BY <2>1, <2>2, <2>3 DEF WriteChange
<1>5. PICK new \in CallShapes :
         /\ call' = [call EXCEPT ![c] = new] /\ Whole(new) /\ Stays(call[c], new)
         /\ Bearing(call[c], new)
         /\ \/ new.seen = {}
            \/ new.seen = Live /\ new.phase = "revoke" /\ session' = session
            \/ /\ new.seen = call[c].seen /\ new.session = call[c].session
               /\ session' = Revoke(Sessions \ {call[c].session})
    BY <1>4
<1>6. /\ call' \in [Callers -> CallShapes] /\ \A d \in Callers : Whole(call'[d])
      /\ call'[c] = new /\ \A d \in Callers \ {c} : call'[d] = call[d]
    BY <1>5, OneMoves
<1>7. \A x : Stays(x, x) /\ Bearing(x, x) /\ Charged(x, x) /\ Seeing(x, x)
    BY DEF Stays, Bearing, Charged, Seeing
<1>8. \A d \in Callers : /\ Stays(call[d], call'[d]) /\ Bearing(call[d], call'[d])
                         /\ Charged(call[d], call'[d])
    BY <1>2, <1>5, <1>6, <1>7 DEF Charged
<1>9. Typed'
    BY <1>1, <1>3, <1>6, TypedAfter
    DEF SessionsGoOn, setup, proofs, throttle, world, Typed, TypeRest
<1>10. InitFrame /\ ProofFrame /\ ThrottleFrame
    BY <1>1, <1>3, <1>8
    DEF InitFrame, ProofFrame, ThrottleFrame, SessionsGoOn, setup, proofs, throttle, world, Typed,
        TypeRest
<1>11. SeenFrame \/ Sees(c) \/ EndsOthers(c)
    <2>1. CASE new.seen = {}
        <3>1. Seeing(call[c], new)
            BY <2>1 DEF Seeing
        <3> QED
            BY <1>3, <1>6, <1>7, <3>1 DEF SeenFrame, SessionsGoOn
    <2>2. CASE new.seen = Live /\ new.phase = "revoke" /\ session' = session
        BY <1>6, <2>2 DEF Sees, Live
    <2>3. CASE /\ new.seen = call[c].seen /\ new.session = call[c].session
               /\ session' = Revoke(Sessions \ {call[c].session})
        BY <1>3, <1>6, <2>3, RevokedSessions DEF EndsOthers, SessionsGoOn
    <2> QED
        BY <1>5, <2>1, <2>2, <2>3
<1> QED
    BY <1>9, <1>10, <1>11

\* Time passes.
LEMMA TickSteps ==
    ASSUME Typed, Tick
    PROVE  Typed' /\ InitFrame /\ SeenFrame /\ ProofFrame /\ ThrottleFrame
<1>1. /\ UNCHANGED <<setup, session, proofs, throttle, call, mix, restarts>>
      /\ now \in Nat /\ now' = now + 1
    BY DEF Tick, Typed, TypeRest
<1>2. CallsAreCalm /\ \A d \in Callers : Charged(call[d], call'[d])
    BY <1>1, NobodyMoves, QuietIsCalm
<1>3. now' \in Nat /\ nextPruneAt' \in Nat /\ now <= now'
    BY <1>1 DEF throttle, Typed, TypeRest
<1>4. Typed' /\ InitFrame /\ SeenFrame /\ ProofFrame
    BY <1>1, <1>2, <1>3, CalmFrames DEF proofs, Typed, TypeRest
<1> QED
    BY <1>1, <1>2, <1>3, <1>4 DEF ThrottleFrame, throttle

\* The process stops: only what is in memory is gone.
LEMMA RestartSteps ==
    ASSUME Typed, Restart
    PROVE  /\ Typed' /\ SeenFrame /\ ProofFrame
           /\ users' = users /\ \A d \in Callers : call'[d] = Idle
<1>1. /\ UNCHANGED <<users, session, proofs, now, mix>> /\ initLock' = NoOne
      /\ call' = [c \in Callers |-> Idle] /\ nextPruneAt' = 0
      /\ restarts \in Nat /\ restarts' = restarts + 1
    BY DEF Restart, Typed, TypeRest
<1>2. \A d \in Callers : call'[d] = Idle
    BY <1>1
<1>3. call' \in [Callers -> CallShapes] /\ \A d \in Callers : Whole(call'[d])
    BY <1>1, <1>2, IdleIsQuiet
<1>4. SessionsGoOn
    BY <1>1, SameSessions
<1>5. Typed'
    BY <1>1, <1>3, TypedAfter DEF proofs, Typed, TypeRest
<1>6. SeenFrame /\ ProofFrame
    BY <1>1, <1>2, <1>4, IdleIsQuiet DEF SeenFrame, ProofFrame, SessionsGoOn, proofs, Calm
<1> QED
    BY <1>1, <1>2, <1>5, <1>6

-----------------------------------------------------------------------------
(* All steps *)

InitializationMoves ==
    \E c \in Callers : LockInitialize(c) \/ Recheck(c) \/ CreateAccount(c)
ThrottleMoves ==
    \E c \in Callers : \/ Closes(c)
                       \/ /\ call[c] = Idle /\ now' = now
                          /\ \E keys \in BucketKeys : Admitted(c, keys) \/ Refused(keys)
SeenMoves == \E c \in Callers : Sees(c) \/ EndsOthers(c)
ProofMoves ==
    \/ \E c \in Callers, ch \in Challenges : Claimed(c, ch)
    \/ \E c \in Callers, s \in Sessions, ch \in Challenges : Elevates(c, s, ch)
    \/ \E s \in Sessions : Spends(s)

LEMMA Steps ==
    ASSUME Typed, [Next]_vars
    PROVE  /\ Typed'
           /\ InitFrame \/ InitializationMoves \/ Restart
           /\ SeenFrame \/ SeenMoves
           /\ ProofFrame \/ ProofMoves
           /\ ThrottleFrame \/ ThrottleMoves \/ Restart
<1>1. CASE UNCHANGED vars
    <2>1. Quietly
        BY <1>1, NobodyMoves, SameSessions DEF vars, Quietly, Typed, TypeRest
    <2> QED
        BY <2>1, QuietSteps
<1>2. CASE Tick
    BY <1>2, TickSteps
<1>3. CASE Restart
    BY <1>3, RestartSteps
<1>4. CASE \E s \in Sessions : SessionLapses(s)
    BY <1>4, SessionsLapse, QuietSteps
<1>5. CASE \E ch \in Challenges : ChallengeExpires(ch)
    BY <1>5, ChallengeSteps
<1>6. ASSUME NEW c \in Callers,
             \/ StartInitialize(c) \/ IssueSession(c)
             \/ \E kind \in Authenticated, s \in Sessions : Authenticate(c, kind, s)
             \/ WriteSlide(c) \/ Logout(c) \/ LogoutAllOthers(c)
             \/ StartBeginLogin(c) \/ BeginCeremony(c) \/ ReadAnswer(c)
             \/ StorePasskey(c) \/ RecordUse(c) \/ RemovePasskey(c)
             \/ VerifyPassword(c) \/ EndRequest(c)
      PROVE  Typed' /\ InitFrame /\ SeenFrame /\ ProofFrame /\ ThrottleFrame
    <2>1. Quietly
        BY <1>6, InitializeBegins, SessionsAreIssued, RequestsAuthenticate, SlidesAreWritten,
           SessionsLogOut, CeremoniesBegin, AnswersAreRead, PasskeysComeAndGo, UsesAreRecorded,
           RequestsGoOn
    <2> QED
        BY <2>1, QuietSteps
<1>7. ASSUME NEW c \in Callers, LockInitialize(c) \/ Recheck(c) \/ CreateAccount(c)
      PROVE  Typed' /\ InitializationMoves /\ SeenFrame /\ ProofFrame /\ ThrottleFrame
    BY <1>7, InitializationSteps DEF InitializationMoves
<1>8. ASSUME NEW c \in Callers, StartLogin(c) \/ StartPasskeyLogin(c)
      PROVE  Typed' /\ InitFrame /\ SeenFrame /\ ProofFrame /\ ThrottleMoves
    BY <1>8, AttemptSteps DEF ThrottleMoves
<1>9. ASSUME NEW c \in Callers,
             Verdict(c) \/ ReadChallenge(c) \/ AssertCredential(c) \/ ClaimChallenge(c)
      PROVE  /\ Typed' /\ InitFrame /\ SeenFrame
             /\ ProofFrame \/ ProofMoves
             /\ ThrottleFrame \/ ThrottleMoves
    BY <1>9, VerdictSteps, ReadSteps, AssertSteps, ClaimSteps DEF ProofMoves, ThrottleMoves
<1>10. ASSUME NEW c \in Callers, IssueChallenge(c) \/ Elevate(c) \/ ConsumeReauthentication(c)
       PROVE  Typed' /\ InitFrame /\ SeenFrame /\ (ProofFrame \/ ProofMoves) /\ ThrottleFrame
    BY <1>10, ChallengeSteps, ElevateSteps, ConsumeSteps DEF ProofMoves
<1>11. ASSUME NEW c \in Callers, WriteChange(c) \/ RevokeOthers(c)
       PROVE  Typed' /\ InitFrame /\ (SeenFrame \/ SeenMoves) /\ ProofFrame /\ ThrottleFrame
    BY <1>11, ChangeSteps DEF SeenMoves
<1> QED
    <2>1. \/ UNCHANGED vars \/ Tick \/ Restart
          \/ \E s \in Sessions : SessionLapses(s)
          \/ \E ch \in Challenges : ChallengeExpires(ch)
          \/ \E c \in Callers :
                \/ \/ StartInitialize(c) \/ IssueSession(c)
                   \/ \E kind \in Authenticated, s \in Sessions : Authenticate(c, kind, s)
                   \/ WriteSlide(c) \/ Logout(c) \/ LogoutAllOthers(c)
                   \/ StartBeginLogin(c) \/ BeginCeremony(c) \/ ReadAnswer(c)
                   \/ StorePasskey(c) \/ RecordUse(c) \/ RemovePasskey(c)
                   \/ VerifyPassword(c) \/ EndRequest(c)
                \/ LockInitialize(c) \/ Recheck(c) \/ CreateAccount(c)
                \/ StartLogin(c) \/ StartPasskeyLogin(c)
                \/ Verdict(c) \/ ReadChallenge(c) \/ AssertCredential(c) \/ ClaimChallenge(c)
                \/ IssueChallenge(c) \/ Elevate(c) \/ ConsumeReauthentication(c)
                \/ WriteChange(c) \/ RevokeOthers(c)
        BY DEF Next
    <2> QED
        BY <1>1, <1>2, <1>3, <1>4, <1>5, <1>6, <1>7, <1>8, <1>9, <1>10, <1>11, <2>1

-----------------------------------------------------------------------------
(* One account *)

\* Who is under the lock of initialization is alone there, and creates the
\* account when there is none.
LEMMA OneAccountStep ==
    ASSUME Typed, Typed', InitializationIsAlone, OneAccount,
           InitFrame \/ InitializationMoves \/ Restart
    PROVE  InitializationIsAlone' /\ OneAccount'
<1> DEFINE Alone(x, c, lock, n) == Inside(x) => lock = c /\ (x.phase = "create" => n = 0)
<1>1. \A c \in Callers : Alone(call[c], c, initLock, users)
    BY DEF InitializationIsAlone, At, Inside
<1>2. users \in Nat /\ users <= 1
    BY DEF OneAccount, Typed, TypeRest
<1>3. SUFFICES /\ \A c \in Callers : Alone(call'[c], c, initLock', users')
               /\ users' <= 1
    BY DEF InitializationIsAlone, OneAccount, At, Inside
<1>4. CASE InitFrame
    <2>1. \A c \in Callers : Alone(call'[c], c, initLock', users')
        BY <1>1, <1>4 DEF InitFrame, Stays
    <2> QED
        BY <1>2, <1>4, <2>1 DEF InitFrame
<1>5. CASE Restart
    BY <1>2, <1>5, RestartSteps, IdleIsQuiet
<1>6. CASE InitializationMoves
    <2>1. PICK c \in Callers : LockInitialize(c) \/ Recheck(c) \/ CreateAccount(c)
        BY <1>6 DEF InitializationMoves
    <2>2. /\ call[c].kind = "Initialize" /\ call[c] \in CallShapes /\ c # NoOne
          /\ call[c].phase \in {"lock", "recheck", "create"}
        BY <2>1, NoOneIsNone
        DEF LockInitialize, Recheck, CreateAccount, At, Typed, TypeRest
    <2>3. call'[c] \in CallShapes /\ \A d \in Callers \ {c} : call'[d] = call[d]
        BY <2>1 DEF LockInitialize, Recheck, CreateAccount, Step, Answer, Typed, TypeRest
    <2>4. CASE LockInitialize(c)
        <3>1. initLock = NoOne /\ initLock' = c /\ users' = users /\ call'[c].phase = "recheck"
            BY <2>4, <2>2 DEF LockInitialize, EnterInitLock, Step, Typed, TypeRest
        <3>2. \A d \in Callers : ~Inside(call[d])
            BY <1>1, <3>1, NoOneIsNone
        <3> QED
            BY <1>2, <2>3, <3>1, <3>2
    <2>5. CASE Recheck(c)
        <3>1. Inside(call[c])
            BY <2>5 DEF Recheck, At, Inside
        <3>2. \A d \in Callers \ {c} : ~Inside(call[d])
            BY <1>1, <3>1
        <3>3. /\ users' = users
              /\ \/ users = 0 /\ call'[c].phase = "create" /\ initLock' = initLock
                 \/ call'[c] = Idle
            <4>1. Step(c, "create") => call'[c].phase = "create"
                BY <2>2 DEF Step, Typed, TypeRest
            <4>2. Answer(c) => call'[c] = Idle
                BY <2>2 DEF Answer, Typed, TypeRest
            <4> QED
                BY <2>5, <4>1, <4>2 DEF Recheck
        <3> QED
            BY <1>1, <1>2, <2>3, <3>1, <3>2, <3>3, IdleIsQuiet
    <2>6. CASE CreateAccount(c)
        <3>1. Inside(call[c]) /\ call[c].phase = "create"
            BY <2>6 DEF CreateAccount, At, Inside
        <3>2. users = 0 /\ \A d \in Callers \ {c} : ~Inside(call[d])
            BY <1>1, <3>1
        <3>3. users' = users + 1 /\ call'[c].phase = "issue"
            BY <2>6, <2>2 DEF CreateAccount, Step, Typed, TypeRest
        <3> QED
            BY <2>3, <3>2, <3>3 DEF Inside
    <2> QED
        BY <2>1, <2>4, <2>5, <2>6
<1> QED
    BY <1>4, <1>5, <1>6

-----------------------------------------------------------------------------
(* Changes of password *)

LEMMA SeenSessionsStep ==
    ASSUME Typed, Typed', SeenSessionsEnd, SeenFrame \/ SeenMoves
    PROVE  SeenSessionsEnd'
<1>1. /\ \A c \in Callers : call[c] \in CallShapes /\ call'[c] \in CallShapes
      /\ \A s \in Sessions : session[s] \in SessionRows
    BY DEF Typed, TypeRest
<1>2. \A c \in Callers : call[c].seen \subseteq Sessions /\ call'[c].seen \subseteq Sessions
    BY <1>1 DEF CallShapes
<1> DEFINE Ended(c, x, rows) ==
        \A s \in x.seen :
            /\ rows[s].status # "none"
            /\ (x.phase = "answered" /\ s # x.session) => rows[s].status = "revoked"
<1>3. \A c \in Callers : Ended(c, call[c], session)
    BY DEF SeenSessionsEnd
<1>4. SUFFICES ASSUME NEW c \in Callers PROVE Ended(c, call'[c], session')
    BY DEF SeenSessionsEnd
<1>5. \A s \in Sessions : Ages(session[s], session'[s])
    BY <1>1 DEF SeenFrame, SeenMoves, Sees, EndsOthers, Ages, SessionRows
<1>6. Seeing(call[c], call'[c]) => Ended(c, call'[c], session')
    BY <1>2, <1>3, <1>5 DEF Seeing, Ages
<1>7. Seeing(call[c], call[c])
    BY DEF Seeing
<1>8. CASE SeenFrame
    BY <1>6, <1>8 DEF SeenFrame
<1>9. CASE \E d \in Callers : Sees(d)
    <2>1. PICK d \in Callers : Sees(d)
        BY <1>9
    <2>2. CASE c # d
        BY <1>6, <1>7, <2>1, <2>2 DEF Sees
    <2>3. CASE c = d
        BY <1>1, <2>1, <2>3 DEF Sees, SessionRows
    <2> QED
        BY <2>2, <2>3
<1>10. CASE \E d \in Callers : EndsOthers(d)
    <2>1. PICK d \in Callers : EndsOthers(d)
        BY <1>10
    <2>2. CASE c # d
        BY <1>6, <1>7, <2>1, <2>2 DEF EndsOthers
    <2>3. CASE c = d
        BY <1>2, <1>3, <1>5, <2>1, <2>3 DEF EndsOthers, Ages
    <2> QED
        BY <2>2, <2>3
<1> QED
    BY <1>8, <1>9, <1>10 DEF SeenMoves

LEMMA SeenSessionsAreOver ==
    ASSUME Typed, SeenSessionsEnd PROVE PasswordChangesEndSessions
BY DEF SeenSessionsEnd, PasswordChangesEndSessions, At

-----------------------------------------------------------------------------
(* Challenges and step-ups *)

\* ProofsAreInOnePlace of one challenge.
InOnePlace(ch) ==
    /\ claims[ch] # 0 => challenge[ch].status \in {"consumed", "swept"}
    /\ spent[ch] # 0 => claims[ch] # 0
    /\ \A c \in Callers : Bears(call[c], ch) => claims[ch] # 0
    /\ \A s \in Sessions : session[s].elevation = ch => claims[ch] # 0
    /\ \A c, d \in Callers : Bears(call[c], ch) /\ Bears(call[d], ch) => c = d
    /\ \A s, r \in Sessions : session[s].elevation = ch /\ session[r].elevation = ch => s = r
    /\ \A c \in Callers : Bears(call[c], ch) =>
          spent[ch] = 0 /\ \A s \in Sessions : session[s].elevation # ch
    /\ \A s \in Sessions : session[s].elevation = ch => spent[ch] = 0

LEMMA EachInOnePlace == ProofsAreInOnePlace <=> \A ch \in Challenges : InOnePlace(ch)
<1>1. \A ch : Bearers(ch) = {c \in Callers : Bears(call[c], ch)}
    BY DEF Bearers, Bears
<1> QED
    BY <1>1 DEF ProofsAreInOnePlace, InOnePlace

\* Whoever gets past a claim or spends a step-up is the first to do so.
LEMMA InOnePlaceStep ==
    ASSUME Typed, Typed', \A ch \in Challenges : InOnePlace(ch), ProofFrame \/ ProofMoves
    PROVE  /\ \A ch \in Challenges : InOnePlace(ch)'
           /\ \/ claims' = claims
              \/ \E ch \in Challenges : claims[ch] = 0 /\ claims' = [claims EXCEPT ![ch] = 1]
           /\ \/ spent' = spent
              \/ \E ch \in Challenges : spent[ch] = 0 /\ spent' = [spent EXCEPT ![ch] = 1]
<1>1. /\ claims \in [Challenges -> Nat] /\ spent \in [Challenges -> Nat]
      /\ challenge \in [Challenges -> ChallengeRows]
    BY DEF Typed, TypeRest
<1>2. ASSUME ProofFrame
      PROVE  (\A ch \in Challenges : InOnePlace(ch)') /\ claims' = claims /\ spent' = spent
    <2>1. claims' = claims /\ spent' = spent
        BY <1>2 DEF ProofFrame
    <2> SUFFICES ASSUME NEW ch \in Challenges PROVE InOnePlace(ch)'
        BY <2>1
    <2>2. InOnePlace(ch) /\ ch # NoOne
        BY NoOneIsNone
    <2>3. \A s \in Sessions : session'[s].elevation = ch => session[s].elevation = ch
        BY <1>2, <2>2 DEF ProofFrame, Lowers
    <2>4. \A d \in Callers : Bears(call'[d], ch) => Bears(call[d], ch)
        BY <1>2 DEF ProofFrame, Bearing
    <2>5. challenge[ch].status \in {"consumed", "swept"} =>
              challenge'[ch].status \in {"consumed", "swept"}
        BY <1>2 DEF ProofFrame
    <2> QED
        BY <2>1, <2>2, <2>3, <2>4, <2>5, Zenon DEF InOnePlace
<1>3. ASSUME NEW c \in Callers, NEW x \in Challenges, Claimed(c, x)
      PROVE  /\ \A ch \in Challenges : InOnePlace(ch)'
             /\ claims[x] = 0 /\ claims' = [claims EXCEPT ![x] = 1] /\ spent' = spent
    <2>1. /\ challenge[x].status = "pending" /\ spent' = spent /\ session' = session
          /\ challenge' = [challenge EXCEPT ![x].status = "consumed"]
          /\ claims' = [claims EXCEPT ![x] = @ + 1]
          /\ call'[c].challenge = x /\ \A d \in Callers \ {c} : call'[d] = call[d]
        BY <1>3 DEF Claimed
    <2>2. claims[x] = 0
        BY <2>1 DEF InOnePlace
    <2>3. claims' = [claims EXCEPT ![x] = 1]
        BY <1>1, <2>1, <2>2
    <2>4. /\ claims'[x] = 1 /\ challenge'[x].status = "consumed"
          /\ \A y \in Challenges \ {x} : claims'[y] = claims[y] /\ challenge'[y] = challenge[y]
        BY <1>1, <2>1, <2>3 DEF ChallengeRows
    <2> SUFFICES ASSUME NEW ch \in Challenges PROVE InOnePlace(ch)'
        BY <2>1, <2>2, <2>3
    <2>5. CASE ch = x
        <3>1. /\ spent[x] = 0 /\ \A d \in Callers : ~Bears(call[d], x)
              /\ \A s \in Sessions : session[s].elevation # x
            BY <2>2 DEF InOnePlace
        <3>2. \A d \in Callers : Bears(call'[d], x) => d = c
            BY <2>1, <3>1
        <3> QED
            BY <2>1, <2>4, <2>5, <3>1, <3>2 DEF InOnePlace
    <2>6. CASE ch # x
        <3>1. \A d \in Callers : Bears(call'[d], ch) => Bears(call[d], ch)
            BY <2>1, <2>6 DEF Bears
        <3>2. claims'[ch] = claims[ch] /\ challenge'[ch] = challenge[ch] /\ InOnePlace(ch)
            BY <2>4, <2>6
        <3> QED
            BY <2>1, <3>1, <3>2, Zenon DEF InOnePlace
    <2> QED
        BY <2>5, <2>6
<1>4. ASSUME NEW c \in Callers, NEW s \in Sessions, NEW x \in Challenges, Elevates(c, s, x)
      PROVE  (\A ch \in Challenges : InOnePlace(ch)') /\ claims' = claims /\ spent' = spent
    <2>1. /\ Bears(call[c], x) /\ call'[c] = Idle
          /\ \A d \in Callers \ {c} : call'[d] = call[d]
          /\ challenge' = challenge /\ claims' = claims /\ spent' = spent
          /\ session'[s].elevation \in {session[s].elevation, x}
          /\ \A r \in Sessions \ {s} : session'[r] = session[r]
        BY <1>4 DEF Elevates
    <2>2. \A ch : ~Bears(call'[c], ch)
        BY <2>1 DEF Bears, Idle
    <2> SUFFICES ASSUME NEW ch \in Challenges PROVE InOnePlace(ch)'
        BY <2>1
    <2>3. InOnePlace(ch) /\ \A d \in Callers : Bears(call'[d], ch) => Bears(call[d], ch)
        BY <2>1, <2>2
    <2>4. CASE ch = x
        <3>1. /\ claims[x] # 0 /\ spent[x] = 0
              /\ \A r \in Sessions : session[r].elevation # x
              /\ \A d \in Callers : Bears(call[d], x) => d = c
            BY <2>1 DEF InOnePlace
        <3>2. \A d \in Callers : ~Bears(call'[d], x)
            BY <2>1, <2>2, <3>1
        <3>3. \A r \in Sessions : session'[r].elevation = x => r = s
            BY <2>1, <3>1
        <3> QED
            BY <2>1, <2>3, <2>4, <3>1, <3>2, <3>3 DEF InOnePlace
    <2>5. CASE ch # x
        <3>1. \A r \in Sessions : session'[r].elevation = ch => session[r].elevation = ch
            BY <2>1, <2>5
        <3> QED
            BY <2>1, <2>3, <3>1, ZenonT(60) DEF InOnePlace
    <2> QED
        BY <2>4, <2>5
<1>5. ASSUME NEW s \in Sessions, Spends(s)
      PROVE  /\ \A ch \in Challenges : InOnePlace(ch)'
             /\ claims' = claims
             /\ \E x \in Challenges : spent[x] = 0 /\ spent' = [spent EXCEPT ![x] = 1]
    <2> DEFINE x == session[s].elevation
    <2>1. /\ x \in Challenges /\ session'[s].elevation = NoOne
          /\ \A r \in Sessions \ {s} : session'[r] = session[r]
          /\ spent' = [spent EXCEPT ![x] = @ + 1]
          /\ challenge' = challenge /\ claims' = claims
          /\ \A d \in Callers : Bearing(call[d], call'[d])
        BY <1>5 DEF Spends
    <2>2. spent[x] = 0 /\ claims[x] # 0 /\ \A r \in Sessions \ {s} : session[r].elevation # x
        BY <2>1 DEF InOnePlace
    <2>3. x # NoOne
        BY <2>1, NoOneIsNone
    <2>4. \A d \in Callers : ~Bears(call[d], x)
        BY <2>1, <2>2 DEF InOnePlace
    <2> HIDE DEF x
    <2>5. spent' = [spent EXCEPT ![x] = 1]
        BY <1>1, <2>1, <2>2
    <2>6. spent'[x] = 1 /\ \A y \in Challenges \ {x} : spent'[y] = spent[y]
        BY <1>1, <2>1, <2>5
    <2> SUFFICES ASSUME NEW ch \in Challenges PROVE InOnePlace(ch)'
        BY <2>1, <2>2, <2>5
    <2>7. /\ InOnePlace(ch)
          /\ \A d \in Callers : Bears(call'[d], ch) => Bears(call[d], ch)
          /\ \A r \in Sessions : session'[r].elevation = ch => session[r].elevation = ch
        BY <2>1, NoOneIsNone DEF Bearing
    <2>8. CASE ch = x
        <3>1. /\ \A d \in Callers : ~Bears(call'[d], x)
              /\ \A r \in Sessions : session'[r].elevation # x
            BY <2>1, <2>2, <2>3, <2>4, <2>7, <2>8
        <3> QED
            BY <2>1, <2>2, <2>6, <2>7, <2>8, <3>1 DEF InOnePlace
    <2>9. CASE ch # x
        <3>1. spent'[ch] = spent[ch]
            BY <2>6, <2>9
        <3> QED
            BY <2>1, <2>7, <3>1, ZenonT(60) DEF InOnePlace
    <2> QED
        BY <2>8, <2>9
<1> QED
    BY <1>2, <1>3, <1>4, <1>5 DEF ProofMoves

-----------------------------------------------------------------------------
(* The throttle in a step *)

LEMMA Charges ==
    \A key : ChargedTo(key) = {c \in Callers : Charging(call[c], key)}
BY DEF ChargedTo, Charging, Of

LEMMA ChargedIsFinite ==
    ASSUME NEW calls, NEW key
    PROVE  /\ IsFiniteSet({c \in Callers : Charging(calls[c], key)})
           /\ Cardinality({c \in Callers : Charging(calls[c], key)}) \in Nat
<1>1. IsFiniteSet(Callers) /\ {c \in Callers : Charging(calls[c], key)} \in SUBSET Callers
    BY AccountsAssumption
<1> HIDE DEF Charging
<1> QED
    BY <1>1, FS_Subset, FS_CardinalityType

\* NoReservationLeaks of one bucket, which may be gone.
Covered(s, calls) ==
    \A k : InFlight(s, k) <= Cardinality({c \in Callers : Charging(calls[c], k)})

\* BurstsAreBounded, LockoutsAreBounded and the store's type.
LEMMA SoundStore ==
    Sound(store, now) <=> IsStore(store) /\ BurstsAreBounded /\ LockoutsAreBounded
BY DEF Sound, Bounded, BurstsAreBounded, LockoutsAreBounded

LEMMA CoveredStore ==
    ASSUME IsStore(store) PROVE NoReservationLeaks <=> Covered(store, call)
<1>1. \A k : ChargedTo(k) = {c \in Callers : Charging(call[c], k)}
    BY Charges
<1> DEFINE N(k) == Cardinality({c \in Callers : Charging(call[c], k)})
<1>2. \A k : N(k) \in Nat
    BY ChargedIsFinite
<1>3. \A k : Cardinality(ChargedTo(k)) = N(k)
    BY <1>1
<1>4. Covered(store, call) <=> \A k : InFlight(store, k) <= N(k)
    BY DEF Covered
<1> HIDE DEF N
<1>5. NoReservationLeaks <=> \A k \in DOMAIN store : store[k].inFlight <= N(k)
    BY <1>3 DEF NoReservationLeaks
<1> QED
    BY <1>2, <1>4, <1>5 DEF InFlight

LEMMA BoundedLater ==
    ASSUME NEW n \in Nat, NEW m \in Nat, n <= m, NEW s, Sound(s, n) PROVE Sound(s, m)
<1>1. \A k \in DOMAIN s : s[k].windowStart \in Nat /\ s[k].lockedUntil \in Int
    BY DEF Sound, IsStore, AttemptRecords, NotLocked
<1>2. \A k \in DOMAIN s : Bounded(s[k], m)
    BY <1>1, Constants DEF Sound, Bounded
<1> QED
    BY <1>2 DEF Sound

\* maybePruneExpired before an attempt or a failure.
LEMMA TidiedIsSound ==
    ASSUME Typed, Sound(store, now)
    PROVE  Sound(Tidied, now) /\ Eases(store, Tidied) /\ KeepsLocked(store, Tidied, now)
<1>1. now \in Nat /\ IsStore(store)
    BY DEF Typed, TypeRest, Sound
<1> QED
    BY <1>1, PrunedIsSound, EasesReflexive DEF Tidied

LEMMA ServedFromTidied ==
    ASSUME Typed, Sound(store, now), NEW t, IsStore(t), Served(Tidied, t, now)
    PROVE  Served(store, t, now)
<1>1. /\ now \in Nat /\ IsStore(store) /\ IsStore(Tidied)
      /\ Eases(store, Tidied) /\ KeepsLocked(store, Tidied, now)
    BY TidiedIsSound DEF Typed, TypeRest, Sound
<1>2. Holds(store, Tidied, now)
    BY <1>1, KeptAreHeld
<1> QED
    BY <1>1, <1>2, HoldsTransitive, CrowdedBefore DEF Served

\* LockoutsAreServed of one step.
ServedStep ==
    \A k \in LockedNow :
        \/ k \in DOMAIN store' /\ store'[k].lockedUntil >= store[k].lockedUntil
        \/ store[k].lockedUntil <= now'
        \/ \E c \in Callers : c \in ChargedTo(k) /\ call'[c].phase \in {"issue", "use"}
        \/ restarts' # restarts
        \/ Crowded(store, {})
        \/ \E new \in DOMAIN store' : Crowded(store', {new})

LEMMA ServedIsStep == ASSUME Served(store, store', now) PROVE ServedStep
BY DEF Served, Holds, ServedStep, LockedNow

\* A request that takes a reservation up is counted for it, ...
LEMMA OneMoreCharges ==
    ASSUME Typed, NEW c \in Callers, call[c] = Idle, call'[c].phase = "begun",
           \A d \in Callers \ {c} : call'[d] = call[d], NEW s, NEW t,
           IsStore(s), IsStore(t), Covered(s, call),
           \A k : InFlight(t, k) <= InFlight(s, k) + (IF k \in Of(call'[c].keys) THEN 1 ELSE 0)
    PROVE  Covered(t, call')
<1> SUFFICES ASSUME NEW k
             PROVE  InFlight(t, k) <= Cardinality({d \in Callers : Charging(call'[d], k)})
    BY DEF Covered
<1> DEFINE old == {d \in Callers : Charging(call[d], k)}
           new == {d \in Callers : Charging(call'[d], k)}
<1>1. IsFiniteSet(old) /\ IsFiniteSet(new) /\ Cardinality(old) \in Nat /\ Cardinality(new) \in Nat
    BY ChargedIsFinite
<1>2. InFlight(s, k) <= Cardinality(old)
    BY DEF Covered
<1>3. InFlight(s, k) \in Nat /\ InFlight(t, k) \in Nat
    BY InFlightType
<1>4. c \notin old
    BY IdleIsQuiet
<1>5. new = IF k \in Of(call'[c].keys) THEN old \cup {c} ELSE old
    BY <1>4 DEF Charging
<1>6. Cardinality(old \cup {c}) = Cardinality(old) + 1
    BY <1>1, <1>4, FS_AddElement
<1>7. InFlight(t, k) <= InFlight(s, k) + (IF k \in Of(call'[c].keys) THEN 1 ELSE 0)
    OBVIOUS
<1> HIDE DEF old, new
<1>8. CASE k \in Of(call'[c].keys)
    BY <1>1, <1>2, <1>3, <1>5, <1>6, <1>7, <1>8 DEF new
<1>9. CASE k \notin Of(call'[c].keys)
    BY <1>1, <1>2, <1>3, <1>5, <1>7, <1>9 DEF new
<1> QED
    BY <1>8, <1>9

\* ... and one that gives it back no longer is.
LEMMA OneLessCharges ==
    ASSUME Typed, NEW c \in Callers, call[c].phase \in {"begun", "claim", "assert"},
           \A k : ~Charging(call'[c], k), \A d \in Callers \ {c} : call'[d] = call[d],
           NEW s, NEW t, IsStore(s), IsStore(t), Covered(s, call), Frees(s, t, Of(call[c].keys))
    PROVE  Covered(t, call')
<1> SUFFICES ASSUME NEW k
             PROVE  InFlight(t, k) <= Cardinality({d \in Callers : Charging(call'[d], k)})
    BY DEF Covered
<1> DEFINE old == {d \in Callers : Charging(call[d], k)}
           new == {d \in Callers : Charging(call'[d], k)}
<1>1. IsFiniteSet(old) /\ IsFiniteSet(new) /\ Cardinality(old) \in Nat /\ Cardinality(new) \in Nat
    BY ChargedIsFinite
<1>2. InFlight(s, k) <= Cardinality(old)
    BY DEF Covered
<1>3. InFlight(s, k) \in Nat /\ InFlight(t, k) \in Nat
    BY InFlightType
<1>4. c \in old <=> k \in Of(call[c].keys)
    BY DEF Charging
<1>5. new = old \ {c}
    OBVIOUS
<1>6. Cardinality(old \ {c}) = IF c \in old THEN Cardinality(old) - 1 ELSE Cardinality(old)
    BY <1>1, FS_RemoveElement
<1>7. InFlight(t, k) <= IF k \in Of(call[c].keys) THEN OneLess(InFlight(s, k))
                        ELSE InFlight(s, k)
    BY DEF Frees
<1> HIDE DEF old, new
<1>8. InFlight(t, k) <= Cardinality(new)
    BY <1>1, <1>2, <1>3, <1>4, <1>5, <1>6, <1>7 DEF OneLess
<1> QED
    BY <1>8 DEF new

\* A clean-up covers what was covered.
LEMMA EasedIsCovered ==
    ASSUME NEW s, NEW t, NEW calls, IsStore(s), IsStore(t), Eases(s, t), Covered(s, calls)
    PROVE  Covered(t, calls)
<1>1. \A k : /\ InFlight(s, k) \in Nat /\ InFlight(t, k) \in Nat
             /\ InFlight(t, k) <= InFlight(s, k)
    BY InFlightType, EasesInFlight
<1>2. \A k : Cardinality({c \in Callers : Charging(calls[c], k)}) \in Nat
    BY ChargedIsFinite
<1> DEFINE N(k) == Cardinality({c \in Callers : Charging(calls[c], k)})
<1>3. (\A k : InFlight(s, k) <= N(k)) /\ \A k : N(k) \in Nat
    BY <1>2 DEF Covered
<1> HIDE DEF N
<1>4. \A k : InFlight(t, k) <= N(k)
    BY <1>1, <1>3
<1> QED
    BY <1>4 DEF Covered, N

LEMMA StoreStep ==
    ASSUME Typed, Typed', Sound(store, now), Covered(store, call),
           ThrottleFrame \/ ThrottleMoves \/ Restart
    PROVE  Sound(store', now') /\ Covered(store', call') /\ ServedStep
<1>1. now \in Nat /\ IsStore(store) /\ \A d \in Callers : call[d] \in CallShapes
    BY DEF Typed, TypeRest, Sound
<1>2. Sound(Tidied, now) /\ Eases(store, Tidied) /\ KeepsLocked(store, Tidied, now)
    BY TidiedIsSound
<1>3. IsStore(Tidied) /\ Covered(Tidied, call)
    BY <1>1, <1>2, EasedIsCovered DEF Sound
<1>4. CASE ThrottleFrame
    <2>1. Sound(store', now')
        BY <1>1, <1>4, BoundedLater DEF ThrottleFrame
    <2>2. Covered(store', call')
        <3> SUFFICES ASSUME NEW k
                     PROVE  InFlight(store', k) <=
                            Cardinality({d \in Callers : Charging(call'[d], k)})
            BY DEF Covered
        <3> DEFINE old == {d \in Callers : Charging(call[d], k)}
                   new == {d \in Callers : Charging(call'[d], k)}
        <3>1. IsFiniteSet(new) /\ Cardinality(old) \in Nat /\ Cardinality(new) \in Nat
            BY ChargedIsFinite
        <3>2. old \in SUBSET new
            BY <1>4 DEF ThrottleFrame, Charged
        <3>3. Cardinality(old) <= Cardinality(new)
            <4> HIDE DEF old, new
            <4> QED
                BY <3>1, <3>2, FS_Subset
        <3>4. InFlight(store, k) <= Cardinality(old) /\ InFlight(store, k) \in Nat
            BY <1>1, InFlightType DEF Covered
        <3>5. InFlight(store', k) = InFlight(store, k)
            BY <1>4 DEF ThrottleFrame
        <3> HIDE DEF old, new
        <3>6. InFlight(store', k) <= Cardinality(new)
            BY <3>1, <3>3, <3>4, <3>5
        <3> QED
            BY <3>6 DEF new
    <2>3. Holds(store, store, now)
        BY <1>1, EasesReflexive, KeptAreHeld
    <2>4. Served(store, store', now)
        BY <1>4, <2>3 DEF ThrottleFrame, Served
    <2> QED
        BY <2>1, <2>2, <2>4, ServedIsStep
<1>5. CASE Restart
    <2>1. /\ store' = [k \in {} |-> {}] /\ now' = now /\ restarts' # restarts
          /\ \A d \in Callers : call'[d] = Idle
        BY <1>5 DEF Restart, Typed, TypeRest
    <2>2. IsStore(store') /\ DOMAIN store' = {}
        BY <2>1, FS_EmptySet, Constants DEF IsStore
    <2>3. Sound(store', now')
        BY <2>2 DEF Sound
    <2>4. Covered(store', call')
        <3>1. \A k : InFlight(store', k) = 0
            BY <2>2 DEF InFlight
        <3>2. \A k : Cardinality({c \in Callers : Charging(call'[c], k)}) \in Nat
            BY ChargedIsFinite
        <3> DEFINE N(k) == Cardinality({c \in Callers : Charging(call'[c], k)})
        <3>3. \A k : N(k) \in Nat
            BY <3>2
        <3> HIDE DEF N
        <3>4. \A k : InFlight(store', k) <= N(k)
            BY <3>1, <3>3
        <3> QED
            BY <3>4 DEF Covered, N
    <2> QED
        BY <2>1, <2>3, <2>4 DEF ServedStep
<1>6. ASSUME NEW c \in Callers, NEW keys \in BucketKeys, call[c] = Idle, now' = now,
             Admitted(c, keys)
      PROVE  Sound(store', now') /\ Covered(store', call') /\ ServedStep
    <2>1. /\ store' = Consumed(Tidied, keys, now) /\ Admits(Tidied, keys, now)
          /\ call'[c].keys = keys /\ call'[c].phase = "begun"
          /\ \A d \in Callers \ {c} : call'[d] = call[d]
        BY <1>6 DEF Admitted
    <2>2. /\ Sound(store', now) /\ Served(Tidied, store', now)
          /\ \A x : InFlight(store', x) <=
                    InFlight(Tidied, x) + (IF x \in Of(keys) THEN 1 ELSE 0)
        BY <1>1, <1>2, <2>1, ConsumedIsSound
    <2>3. IsStore(store')
        BY <2>2 DEF Sound
    <2>4. Covered(store', call')
        BY <1>3, <1>6, <2>1, <2>2, <2>3, OneMoreCharges
    <2>5. ServedStep
        BY <2>2, <2>3, ServedFromTidied, ServedIsStep
    <2> QED
        BY <1>6, <2>2, <2>4, <2>5
<1>7. ASSUME NEW keys \in BucketKeys, now' = now, Refused(keys)
      PROVE  Sound(store', now') /\ Covered(store', call') /\ ServedStep
    <2>1. store' = Looked(Tidied, keys, now) /\ call' = call
        BY <1>7 DEF Refused
    <2>2. Sound(store', now) /\ Eases(Tidied, store') /\ KeepsLocked(Tidied, store', now)
        BY <1>1, <1>2, <2>1, LookedIsSound
    <2>3. IsStore(store') /\ Holds(Tidied, store', now)
        BY <1>3, <2>2, KeptAreHeld DEF Sound
    <2>4. Covered(store', call')
        BY <1>3, <2>1, <2>2, <2>3, EasedIsCovered
    <2>5. ServedStep
        BY <2>3, ServedFromTidied, ServedIsStep DEF Served
    <2> QED
        BY <1>7, <2>2, <2>4, <2>5
<1>8. ASSUME NEW c \in Callers, Closes(c)
      PROVE  Sound(store', now') /\ Covered(store', call') /\ ServedStep
    <2> DEFINE keys == call[c].keys
    <2>1. /\ now' = now /\ call[c].phase \in {"begun", "claim", "assert"}
          /\ \A k : ~Charging(call'[c], k)
          /\ \A d \in Callers \ {c} : call'[d] = call[d]
        BY <1>8 DEF Closes
    <2>2. keys \in BucketKeys \cup {<<>>}
        BY <1>1 DEF CallShapes
    <2> HIDE DEF keys
    <2>3. CASE store' = FailureRecorded(Tidied, keys, now)
        <3>1. Sound(store', now) /\ Served(Tidied, store', now) /\ Frees(Tidied, store', Of(keys))
            BY <1>1, <1>2, <2>2, <2>3, FailureIsSound
        <3>2. IsStore(store')
            BY <3>1 DEF Sound
        <3> QED
            BY <1>3, <2>1, <3>1, <3>2, OneLessCharges, ServedFromTidied, ServedIsStep DEF keys
    <2>4. CASE store' = Released(store, keys)
        <3>1. Sound(store', now) /\ Holds(store, store', now) /\ Frees(store, store', Of(keys))
            BY <1>1, <2>2, <2>4, ReleasedIsSound
        <3>2. IsStore(store') /\ Served(store, store', now)
            BY <3>1 DEF Sound, Served
        <3> QED
            BY <1>1, <2>1, <3>1, <3>2, OneLessCharges, ServedIsStep DEF keys
    <2>5. CASE store' = SuccessRecorded(store, keys) /\ call'[c].phase \in {"issue", "use"}
        <3>1. /\ Sound(store', now) /\ Frees(store, store', Of(keys))
              /\ \A k \in DOMAIN store :
                    \/ k \in Of(keys)
                    \/ k \in DOMAIN store' /\ store'[k].lockedUntil = store[k].lockedUntil
            BY <1>1, <2>2, <2>5, SuccessIsSound
        <3>2. IsStore(store')
            BY <3>1 DEF Sound
        <3>3. Covered(store', call')
            BY <1>1, <2>1, <3>1, <3>2, OneLessCharges DEF keys
        <3>4. \A k \in Of(keys) : c \in ChargedTo(k)
            BY <2>1, Charges DEF Charging, keys
        <3>5. \A k \in DOMAIN store : store[k].lockedUntil \in Int
            BY <1>1 DEF IsStore, AttemptRecords, NotLocked
        <3>6. ServedStep
            BY <2>5, <3>1, <3>4, <3>5 DEF ServedStep, LockedNow
        <3> QED
            BY <2>1, <3>1, <3>3, <3>6
    <2> QED
        BY <1>8, <2>3, <2>4, <2>5 DEF Closes, keys
<1> QED
    BY <1>4, <1>5, <1>6, <1>7, <1>8 DEF ThrottleMoves

-----------------------------------------------------------------------------
(* The account is guarded *)

LEMMA GuardedParts ==
    AccountIsGuarded <=>
        /\ Typed /\ InitializationIsAlone /\ OneAccount
        /\ Sound(store, now) /\ Covered(store, call)
        /\ SeenSessionsEnd /\ PasswordChangesEndSessions
        /\ \A ch \in Challenges : InOnePlace(ch)
<1>1. TypeOK <=> TypeRest /\ IsStore(store)
    BY DEF TypeOK, TypeRest
<1> QED
    BY <1>1, SoundStore, CoveredStore, EachInOnePlace, Zenon DEF AccountIsGuarded, Typed

LEMMA GuardedAtFirst == Init => AccountIsGuarded
<1> SUFFICES ASSUME Init PROVE AccountIsGuarded
    OBVIOUS
<1>1. /\ mix \in Mixes /\ mix.live \subseteq Sessions /\ mix.passkeys \subseteq Passkeys
      /\ users \in {0, 1} /\ initLock = NoOne /\ passkeys = mix.passkeys
      /\ call = [c \in Callers |-> Idle] /\ store = [k \in {} |-> {}]
      /\ nextPruneAt = 0 /\ now = 0 /\ restarts = 0
      /\ challenge = [ch \in Challenges |-> [status |-> "none", purpose |-> "none"]]
      /\ claims = [ch \in Challenges |-> 0] /\ spent = [ch \in Challenges |-> 0]
    BY AccountsAssumption DEF Init
<1>2. \A s \in Sessions :
         /\ session[s] \in SessionRows /\ session[s].elevation = NoOne
    BY DEF Init, NoSession, SessionRows
<1>3. session \in [Sessions -> SessionRows]
    BY <1>2 DEF Init
<1>4. \A c \in Callers : call[c] = Idle
    BY <1>1
<1>5. Typed
    <2>1. call \in [Callers -> CallShapes] /\ \A c \in Callers : Whole(call[c])
        BY <1>1, <1>4, IdleIsQuiet
    <2>2. CallsAreWhole
        BY <2>1 DEF CallsAreWhole, Whole
    <2>3. challenge \in [Challenges -> ChallengeRows]
        BY <1>1 DEF ChallengeRows
    <2> QED
        BY <1>1, <1>3, <2>1, <2>2, <2>3 DEF Typed, TypeRest
<1>6. IsStore(store) /\ DOMAIN store = {}
    BY <1>1, FS_EmptySet, Constants DEF IsStore
<1>7. Sound(store, now)
    BY <1>6 DEF Sound
<1>8. Covered(store, call)
    <2>1. NoReservationLeaks
        BY <1>6 DEF NoReservationLeaks
    <2> QED
        BY <1>6, <2>1, CoveredStore
<1>9. InitializationIsAlone /\ OneAccount
    BY <1>1, <1>4, IdleIsQuiet DEF InitializationIsAlone, OneAccount, At, Inside
<1>10. SeenSessionsEnd
    BY <1>4 DEF SeenSessionsEnd, Idle
<1>11. \A ch \in Challenges : InOnePlace(ch)
    BY <1>1, <1>2, <1>4, NoOneIsNone DEF InOnePlace, Bears, Idle
<1> QED
    BY <1>5, <1>7, <1>8, <1>9, <1>10, <1>11, SeenSessionsAreOver, GuardedParts

\* A step of a guarded account: what it keeps, and what it may change.
LEMMA GuardedStep ==
    ASSUME AccountIsGuarded, [Next]_vars
    PROVE  /\ AccountIsGuarded'
           /\ ServedStep
           /\ \A s \in Sessions : Ages(session[s], session'[s])
           /\ \/ claims' = claims
              \/ \E ch \in Challenges : claims[ch] = 0 /\ claims' = [claims EXCEPT ![ch] = 1]
           /\ \/ spent' = spent
              \/ \E ch \in Challenges : spent[ch] = 0 /\ spent' = [spent EXCEPT ![ch] = 1]
<1>1. /\ Typed /\ InitializationIsAlone /\ OneAccount
      /\ Sound(store, now) /\ Covered(store, call)
      /\ SeenSessionsEnd /\ \A ch \in Challenges : InOnePlace(ch)
    BY GuardedParts
<1>2. /\ Typed'
      /\ InitFrame \/ InitializationMoves \/ Restart
      /\ SeenFrame \/ SeenMoves
      /\ ProofFrame \/ ProofMoves
      /\ ThrottleFrame \/ ThrottleMoves \/ Restart
    BY <1>1, Steps
<1>3. InitializationIsAlone' /\ OneAccount'
    BY <1>1, <1>2, OneAccountStep
<1>4. SeenSessionsEnd'
    BY <1>1, <1>2, SeenSessionsStep
<1>5. PasswordChangesEndSessions'
    BY <1>2, <1>4, SeenSessionsAreOver, PTL
<1>6. /\ \A ch \in Challenges : InOnePlace(ch)'
      /\ \/ claims' = claims
         \/ \E ch \in Challenges : claims[ch] = 0 /\ claims' = [claims EXCEPT ![ch] = 1]
      /\ \/ spent' = spent
         \/ \E ch \in Challenges : spent[ch] = 0 /\ spent' = [spent EXCEPT ![ch] = 1]
    BY <1>1, <1>2, InOnePlaceStep
<1>7. Sound(store', now') /\ Covered(store', call') /\ ServedStep
    BY <1>1, <1>2, StoreStep
<1>8. \A s \in Sessions : Ages(session[s], session'[s])
    <2>1. \A s \in Sessions : session[s] \in SessionRows
        BY <1>1 DEF Typed, TypeRest
    <2> QED
        BY <1>2, <2>1 DEF SeenFrame, SeenMoves, Sees, EndsOthers, Ages, SessionRows
<1>9. AccountIsGuarded'
    <2>1. /\ Typed' /\ InitializationIsAlone' /\ OneAccount'
          /\ Sound(store, now)' /\ Covered(store, call)'
          /\ SeenSessionsEnd' /\ PasswordChangesEndSessions'
          /\ (\A ch \in Challenges : InOnePlace(ch))'
        BY <1>2, <1>3, <1>4, <1>5, <1>6, <1>7
    <2> QED
        BY <2>1, GuardedParts, PTL
<1> QED
    BY <1>6, <1>7, <1>8, <1>9

\* Whoever logs in, however many at once: there is one account, no bucket is
\* over its limit or keeps a reservation, and a change of password leaves no
\* other session that it saw (init.service.ts, login-throttle.service.ts,
\* session.service.ts).
THEOREM AccountStaysGuarded == Spec => []AccountIsGuarded
<1>1. Init => AccountIsGuarded
    BY GuardedAtFirst
<1>2. AccountIsGuarded /\ [Next]_vars => AccountIsGuarded'
    BY GuardedStep
<1> QED
    BY <1>1, <1>2, PTL DEF Spec

\* No challenge is redeemed twice, no step-up spent twice, no session lives
\* after its end and no lockout is cut short (webauthn-challenge.service.ts,
\* session.service.ts, login-throttle.service.ts).
THEOREM NothingEverWorksTwice == Spec => NothingWorksTwice
<1>1. Init => Claims!Init /\ StepUps!Init
    BY DEF Init, Claims!Init, StepUps!Init
<1>2. AccountIsGuarded /\ [Next]_vars => [Claims!Next]_claims
    BY GuardedStep DEF Claims!Next, Claims!Redeem
<1>3. AccountIsGuarded /\ [Next]_vars => [StepUps!Next]_spent
    BY GuardedStep DEF StepUps!Next, StepUps!Redeem
<1>4. AccountIsGuarded /\ [Next]_vars =>
        [\A k \in LockedNow :
            \/ k \in DOMAIN store' /\ store'[k].lockedUntil >= store[k].lockedUntil
            \/ store[k].lockedUntil <= now'
            \/ \E c \in Callers : c \in ChargedTo(k) /\ call'[c].phase \in {"issue", "use"}
            \/ restarts' # restarts
            \/ Crowded(store, {})
            \/ \E new \in DOMAIN store' : Crowded(store', {new})]_vars
    BY GuardedStep DEF ServedStep
<1>5. AccountIsGuarded /\ [Next]_vars =>
        [\A s \in Sessions :
            /\ session[s].status = "revoked" => session'[s].status = "revoked"
            /\ session[s].status = "expired" => session'[s].status # "active"]_vars
    BY GuardedStep DEF Ages
<1> QED
    BY <1>1, <1>2, <1>3, <1>4, <1>5, AccountStaysGuarded, PTL
    DEF Spec, NothingWorksTwice, ChallengesAreSingleUse, StepUpsAreSingleUse, LockoutsAreServed,
        EndedSessionsStayEnded, Claims!Spec, StepUps!Spec
=============================================================================
