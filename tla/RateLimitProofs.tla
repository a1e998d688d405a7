--------------------------- MODULE RateLimitProofs ---------------------------
(***************************************************************************)
(* The rate limiter, for any limit, any window and any number of calls.    *)
(***************************************************************************)
EXTENDS RateLimit, FiniteSetTheorems, WellFoundedInduction, TLAPS

(***************************************************************************)
(* Arithmetic and counting.                                                *)
(***************************************************************************)
LEMMA Constants ==
    /\ Second \in Nat /\ Second >= 1 /\ Window \in Nat /\ Window >= 1 /\ MaxTime \in Nat
    /\ Limit \in Nat /\ Limit >= 1
    /\ Span \in Nat /\ Span >= 1
<1>1. /\ Second \in Nat /\ Second >= 1 /\ Window \in Nat /\ Window >= 1 /\ MaxTime \in Nat
      /\ Limit \in Nat /\ Limit >= 1
  BY LimitAssumption, WindowAssumption, TimeAssumption
<1>2. Window * Second \in Nat /\ Window * Second >= 1
  BY <1>1
<1> QED
  BY <1>1, <1>2 DEF Span

LEMMA Division ==
    ASSUME NEW x \in Int, NEW n \in Nat, n >= 1
    PROVE  x \div n \in Int /\ n * (x \div n) <= x /\ x < n * (x \div n) + n
OBVIOUS

\* Retry-After is later than the oldest hit's last moment, and not by much.
LEMMA RetryLater ==
    ASSUME NEW oldest \in Nat, NEW now \in Nat
    PROVE  /\ RetryAt(oldest, now) \in Nat
           /\ oldest + Span < RetryAt(oldest, now)
           /\ \/ RetryAt(oldest, now) <= oldest + Span + Second
              \/ RetryAt(oldest, now) = now + Second
<1> DEFINE x == oldest + Span - now
<1> DEFINE q == x \div Second
<1>0. /\ Second \in Nat /\ Second >= 1 /\ Span \in Nat /\ Span >= 1 /\ x \in Int
  BY Constants
<1>1. q \in Int /\ Second * q <= x /\ x < Second * q + Second
  BY <1>0, Division
<1>2. RetryAt(oldest, now) = now + Second * (IF q + 1 < 1 THEN 1 ELSE q + 1)
  BY DEF RetryAt
<1> HIDE DEF q
<1>3. CASE q + 1 < 1
  <2>1. q + 1 <= 0
    BY <1>1, <1>3
  <2>2. Second * (q + 1) <= 0 /\ Second * (q + 1) = Second * q + Second
    BY <1>0, <1>1, <2>1
  <2>3. RetryAt(oldest, now) = now + Second
    BY <1>0, <1>2, <1>3
  <2>4. x < 0
    BY <1>0, <1>1, <2>2
  <2> QED
    BY <1>0, <2>3, <2>4
<1>4. CASE ~(q + 1 < 1)
  <2>1. Second * (q + 1) = Second * q + Second /\ Second * (q + 1) \in Nat
    BY <1>0, <1>1, <1>4
  <2>2. RetryAt(oldest, now) = now + (Second * q + Second)
    BY <1>2, <1>4, <2>1
  <2>3. Second * q \in Int
    BY <1>0, <1>1
  <2> HIDE DEF x
  <2>4. RetryAt(oldest, now) > now + x /\ RetryAt(oldest, now) <= now + x + Second /\ RetryAt(oldest, now) \in Nat
    BY <1>0, <1>1, <2>1, <2>2, <2>3
  <2>5. now + x = oldest + Span
    BY <1>0 DEF x
  <2> QED
    BY <1>0, <2>4, <2>5
<1> QED
  BY <1>1, <1>3, <1>4

\* The least of some numbers.
LEMMA MinOf ==
    ASSUME NEW S \in SUBSET Nat, S # {}
    PROVE  Min(S) \in S /\ \A y \in S : Min(S) <= y
<1>1. IsWellFoundedOn(OpToRel(<, Nat), Nat)
  BY NatLessThanWellFounded
<1>2. \E x \in S : \A y \in S : ~(<<y, x>> \in OpToRel(<, Nat))
  BY <1>1, WFMin
<1>3. PICK x \in S : \A y \in S : ~(y < x)
  BY <1>2 DEF OpToRel
<1>4. x \in S /\ \A y \in S : x <= y
  BY <1>3
<1> QED
  BY <1>4 DEF Min

\* Whatever is drawn from the calls or from the times is finite.
LEMMA Finite ==
    /\ \A S \in SUBSET Calls : IsFiniteSet(S) /\ Cardinality(S) \in Nat
    /\ \A S \in SUBSET Times : IsFiniteSet(S) /\ Cardinality(S) \in Nat
<1>1. IsFiniteSet(Calls) /\ IsFiniteSet(Times)
  BY CallsAssumption, Constants, FS_Interval DEF Times
<1> QED
  BY <1>1, FS_Subset, FS_CardinalityType

\* Of fewer calls, fewer timestamps.
LEMMA Stamps ==
    ASSUME NEW S \in SUBSET Calls, NEW f \in [Calls -> Times], NEW T, T \subseteq {f[c] : c \in S}
    PROVE  Cardinality(T) <= Cardinality(S)
<1> DEFINE R == {c \in S : f[c] \in T}
<1> DEFINE g == [c \in R |-> f[c]]
<1>1. IsFiniteSet(S) /\ IsFiniteSet(R) /\ Cardinality(R) <= Cardinality(S)
  BY Finite, FS_Subset
<1>2. g \in Surjection(R, T)
  BY DEF Surjection
<1>3. Cardinality(T) <= Cardinality(R)
  BY <1>1, <1>2, FS_Surjection
<1>4. Cardinality(T) \in Nat /\ Cardinality(R) \in Nat /\ Cardinality(S) \in Nat
  <2>1. T \subseteq Times /\ R \subseteq Calls
    OBVIOUS
  <2> QED
    BY <2>1, Finite
<1> QED
  BY <1>1, <1>3, <1>4

\* As many calls as they have timestamps, if each has its own.
LEMMA OwnStamps ==
    ASSUME NEW S \in SUBSET Calls, NEW f \in [Calls -> Times], NEW T \in SUBSET Times,
           \A c \in S : f[c] \in T,
           \A c, d \in S : f[c] = f[d] => c = d
    PROVE  Cardinality(S) <= Cardinality(T)
<1> DEFINE g == [c \in S |-> f[c]]
<1>1. g \in Injection(S, T)
  BY DEF Injection, IsInjective
<1> QED
  BY <1>1, Finite, FS_Injection

-----------------------------------------------------------------------------
(***************************************************************************)
(* The invariants.                                                         *)
(***************************************************************************)
\* The shape of the state, and what the two limiters leave alone.
ShapeInv ==
    /\ TypeOK
    /\ newest <= clock
    /\ \A c \in Calls : /\ stamp[c] <= clock
                        /\ verdict[c] = "none" <=> pc[c] # "end"
    /\ backend = "memory" => /\ members = {} /\ orderly
                             /\ \A c \in Calls : pc[c] \in {"idle", "end"} /\ verdict[c] # "failed"

\* In memory the hits are those of calls that were let in, and never more than
\* the limit; who is not among them is out of the window.
MemoryInv ==
    backend = "memory" =>
        /\ hits \subseteq Allowed
        /\ Cardinality(hits) <= Limit
        /\ \A d \in Allowed : d \in hits \/ stamp[d] + Span <= clock

\* A call that its MULTI has counted in, and that has not been counted out.
Counted(c) == verdict[c] = "allowed" \/ pc[c] \in {"over", "remove"}

\* Every member of the sorted set is there for some call.
MembersInv == \A m \in members : \E d \in Calls : stamp[d] = m /\ Weighs(d)

\* While the MULTIs come in order, each call that is counted in has a timestamp
\* of its own, and one that was let in is in the set until it is out of every
\* window to come.
OrderInv ==
    backend = "redis" /\ orderly =>
        /\ \A d \in Calls : Counted(d) => stamp[d] <= newest
        /\ \A c, d \in Calls : Counted(c) /\ Counted(d) /\ stamp[c] = stamp[d] => c = d
        /\ \A m \in members : m <= newest
        /\ members # {} => newest + Span + Second <= expires
        /\ \A d \in Allowed :
              \/ stamp[d] \in members
              \/ stamp[d] + Span <= newest
              \/ newest + Span + Second <= clock

\* The members that are no younger than some call that was let in.
Older == {m \in members : \E a \in Allowed : m <= stamp[a]}

OlderInv == orderly => Cardinality(Older) <= Limit

\* The members that count against a call that comes when d was told to.
Against(d) == {m \in members : InWindow(m, until[d]) /\ \E a \in Allowed : m = stamp[a]}

\* Retry-After was worked out from a hit that is out by then, so there is room.
CalmInv ==
    \A d \in Calls : calm[d] =>
        /\ \A e \in Calls : verdict[e] # "failed"
        /\ backend = "memory" => \E h \in hits : stamp[h] + Span < until[d]
        /\ backend = "redis" /\ orderly => Cardinality(Against(d)) < Limit

-----------------------------------------------------------------------------
(***************************************************************************)
(* Every variable keeps its shape.                                         *)
(***************************************************************************)
LEMMA InitHolds == Init => ShapeInv /\ MemoryInv /\ MembersInv /\ OrderInv /\ OlderInv /\ CalmInv /\ WindowBound
<1> SUFFICES ASSUME Init PROVE ShapeInv /\ MemoryInv /\ MembersInv /\ OrderInv /\ OlderInv /\ CalmInv /\ WindowBound
  OBVIOUS
<1>0. 0 \in Times /\ 0 \in 0 .. MaxTime + Span + Second /\ -1 <= 0
  BY Constants DEF Times
<1>1. TypeOK
  BY <1>0 DEF Init, TypeOK
<1>2. ShapeInv
  BY <1>0, <1>1 DEF Init, ShapeInv
<1>3. Allowed = {} /\ Older = {} /\ Cardinality({}) = 0 /\ 0 <= Limit
  BY FS_EmptySet, Constants DEF Init, Allowed, Older
<1>4. MemoryInv /\ MembersInv /\ OrderInv /\ CalmInv
  BY <1>3 DEF Init, MemoryInv, MembersInv, OrderInv, CalmInv, Counted, Allowed
<1>5. OlderInv /\ WindowBound
  BY <1>3 DEF OlderInv, WindowBound
<1> QED
  BY <1>2, <1>4, <1>5

LEMMA RetryOK ==
    ASSUME NEW oldest \in Times, NEW now \in Times
    PROVE  RetryAt(oldest, now) \in 0 .. MaxTime + Span + Second
<1>1. /\ RetryAt(oldest, now) \in Nat
      /\ RetryAt(oldest, now) <= oldest + Span + Second \/ RetryAt(oldest, now) = now + Second
  BY RetryLater, Constants DEF Times
<1> QED
  BY <1>1, Constants DEF Times

LEMMA ShapeStep == ShapeInv /\ [Next]_vars => ShapeInv'
<1> SUFFICES ASSUME ShapeInv, [Next]_vars PROVE ShapeInv'
  OBVIOUS
<1> USE DEF clocks, redis, history
<1>n. /\ MaxTime \in Nat /\ Span \in Nat /\ Second \in Nat /\ clock \in Times /\ members \subseteq Times
      /\ \A c \in Calls : stamp[c] \in Times /\ stamp[c] <= clock /\ stamp[c] \in Nat
  BY Constants DEF ShapeInv, TypeOK, Times
<1>p. ASSUME NEW c \in Calls, NEW l \in {"sent", "over", "remove"}, Goto(c, l), verdict' = verdict, pc[c] # "end"
      PROVE  /\ pc' \in [Calls -> {"idle", "sent", "over", "remove", "end"}]
             /\ \A d \in Calls : verdict'[d] = "none" <=> pc'[d] # "end"
  BY <1>p DEF Goto, ShapeInv, TypeOK
<1>d. ASSUME NEW c \in Calls, NEW v \in {"allowed", "refused", "failed"}, Decide(c, v)
      PROVE  /\ pc' \in [Calls -> {"idle", "sent", "over", "remove", "end"}]
             /\ verdict' \in [Calls -> {"none", "allowed", "refused", "failed"}]
             /\ \A d \in Calls : verdict'[d] = "none" <=> pc'[d] # "end"
             /\ verdict'[c] = v /\ \A d \in Calls \ {c} : verdict'[d] = verdict[d] /\ pc'[d] = pc[d]
  BY <1>d DEF Decide, Goto, ShapeInv, TypeOK
<1>s. ASSUME NEW c \in Calls, stamp' = [stamp EXCEPT ![c] = clock], clock' = clock
      PROVE  stamp' \in [Calls -> Times] /\ \A d \in Calls : stamp'[d] <= clock'
  <2>1. /\ stamp \in [Calls -> Times] /\ clock \in Times /\ clock <= clock
        /\ \A d \in Calls : stamp[d] <= clock
    BY <1>n DEF ShapeInv, TypeOK, Times
  <2>2. stamp' \in [Calls -> Times]
    BY <1>s, <2>1
  <2>3. \A d \in Calls : stamp'[d] = clock \/ stamp'[d] = stamp[d]
    BY <1>s, <2>1
  <2> QED
    BY <1>s, <2>1, <2>2, <2>3
<1>m. ASSUME NEW c \in Calls, Multi(c), UNCHANGED <<clock, stamp>>
      PROVE  /\ members' \subseteq Times /\ expires' \in 0 .. MaxTime + Span + Second
             /\ newest' \in Times /\ newest' <= clock' /\ orderly' \in BOOLEAN
  <2>1. /\ members' = CountedIn(c) /\ expires' = clock + Span + Second /\ newest' = stamp[c]
        /\ orderly' = (orderly /\ stamp[c] > newest /\ clock <= stamp[c] + Second) /\ clock' = clock
    BY <1>m DEF Multi
  <2>2. CountedIn(c) \subseteq Times
    BY <1>n DEF CountedIn
  <2>3. clock + Span + Second \in 0 .. MaxTime + Span + Second
    BY <1>n DEF Times
  <2>4. stamp[c] \in Times /\ stamp[c] <= clock
    BY <1>n
  <2>5. orderly' \in BOOLEAN
    BY <2>1
  <2> QED
    BY <2>1, <2>2, <2>3, <2>4, <2>5
<1>1. ASSUME NEW c \in Calls, CheckInMemory(c) PROVE ShapeInv'
  <2>1. /\ backend = "memory" /\ pc[c] = "idle" /\ stamp' = [stamp EXCEPT ![c] = clock]
        /\ UNCHANGED <<backend, clock, members, expires, newest, orderly>>
    BY <1>1 DEF CheckInMemory
  <2>2. CASE Cardinality(Recent) >= Limit
    <3>1. /\ until' = [until EXCEPT ![c] = RetryAt(OldestHit, clock)]
          /\ calm' = [calm EXCEPT ![c] = TRUE] /\ Decide(c, "refused") /\ hits' = hits
      BY <1>1, <2>2 DEF CheckInMemory
    <3>2. {stamp[d] : d \in Recent} \subseteq Nat /\ {stamp[d] : d \in Recent} # {}
      <4>1. Recent \subseteq Calls
        BY DEF Recent, ShapeInv, TypeOK
      <4>2. Recent # {}
        BY <2>2, FS_EmptySet, Constants
      <4> QED
        BY <1>n, <4>1, <4>2
    <3>3. OldestHit \in {stamp[d] : d \in Recent}
      BY <3>2, MinOf DEF OldestHit
    <3>4. OldestHit \in Times
      BY <1>n, <3>3 DEF Recent, ShapeInv, TypeOK
    <3>5. RetryAt(OldestHit, clock) \in 0 .. MaxTime + Span + Second
      BY <1>n, <3>4, RetryOK
    <3>6. until' \in [Calls -> 0 .. MaxTime + Span + Second] /\ calm' \in [Calls -> BOOLEAN]
      BY <3>1, <3>5 DEF ShapeInv, TypeOK
    <3>7. TypeOK'
      BY <1>d, <1>s, <2>1, <3>1, <3>6 DEF ShapeInv, TypeOK
    <3> QED
      BY <1>d, <1>s, <2>1, <3>1, <3>7 DEF ShapeInv
  <2>3. CASE ~(Cardinality(Recent) >= Limit)
    <3>1. Busy /\ Decide(c, "allowed") /\ hits' = Recent \cup {c} /\ until' = until
      BY <1>1, <2>3 DEF CheckInMemory
    <3>2. TypeOK'
      BY <1>d, <1>s, <2>1, <3>1 DEF ShapeInv, TypeOK, Busy, Recent
    <3> QED
      BY <1>d, <1>s, <2>1, <3>1, <3>2 DEF ShapeInv
  <2> QED
    BY <2>2, <2>3
<1>2. ASSUME NEW c \in Calls, Stamp(c) PROVE ShapeInv'
  <2>1. /\ pc' \in [Calls -> {"idle", "sent", "over", "remove", "end"}]
        /\ \A d \in Calls : verdict'[d] = "none" <=> pc'[d] # "end"
    BY <1>2, <1>p DEF Stamp
  <2>2. stamp' \in [Calls -> Times] /\ \A d \in Calls : stamp'[d] <= clock'
    BY <1>2, <1>s DEF Stamp
  <2> QED
    BY <1>2, <2>1, <2>2 DEF Stamp, ShapeInv, TypeOK
<1>3. ASSUME NEW c \in Calls, Commit(c) PROVE ShapeInv'
  <2>0. /\ pc[c] = "sent" /\ Multi(c) /\ UNCHANGED <<backend, clock, hits, stamp, until>>
        /\ backend # "memory"
    BY <1>3 DEF Commit, ShapeInv
  <2>1. /\ members' \subseteq Times /\ expires' \in 0 .. MaxTime + Span + Second
        /\ newest' \in Times /\ newest' <= clock' /\ orderly' \in BOOLEAN
    BY <1>m, <2>0
  <2>2. /\ pc' \in [Calls -> {"idle", "sent", "over", "remove", "end"}]
        /\ verdict' \in [Calls -> {"none", "allowed", "refused", "failed"}]
        /\ \A d \in Calls : verdict'[d] = "none" <=> pc'[d] # "end"
        /\ calm' \in [Calls -> BOOLEAN]
    <3>1. (Goto(c, "over") /\ UNCHANGED <<verdict, calm>>) \/ (Decide(c, "allowed") /\ Busy)
      BY <1>3 DEF Commit
    <3> QED
      BY <1>d, <1>p, <2>0, <3>1 DEF Busy, ShapeInv, TypeOK
  <2> QED
    BY <2>0, <2>1, <2>2 DEF ShapeInv, TypeOK
<1>4. ASSUME NEW c \in Calls, ReadOldest(c) PROVE ShapeInv'
  <2>0. /\ pc[c] = "over" /\ Goto(c, "remove") /\ UNCHANGED <<backend, clock, hits, redis, stamp, verdict, history>>
        /\ backend # "memory"
    BY <1>4 DEF ReadOldest, ShapeInv
  <2>1. /\ pc' \in [Calls -> {"idle", "sent", "over", "remove", "end"}]
        /\ \A d \in Calls : verdict'[d] = "none" <=> pc'[d] # "end"
    BY <1>p, <2>0
  <2>2. calm' \in [Calls -> BOOLEAN]
    <3> DEFINE v == \A d \in Calls \ {c} : pc[d] \in {"idle", "end"} /\ verdict[d] # "failed"
    <3>1. calm' = [calm EXCEPT ![c] = v]
      BY <1>4 DEF ReadOldest
    <3>2. v \in BOOLEAN
      OBVIOUS
    <3> HIDE DEF v
    <3> QED
      BY <3>1, <3>2 DEF ShapeInv, TypeOK
  <2>3. until' \in [Calls -> 0 .. MaxTime + Span + Second]
    <3> DEFINE u == IF members = {} THEN stamp[c] + Second ELSE RetryAt(Min(members), stamp[c])
    <3>1. until' = [until EXCEPT ![c] = u]
      BY <1>4 DEF ReadOldest
    <3>2. u \in 0 .. MaxTime + Span + Second
      <4>1. CASE members = {}
        BY <1>n, <4>1 DEF Times
      <4>2. CASE members # {}
        <5>1. Min(members) \in Times
          <6>1. members \in SUBSET Nat
            BY <1>n DEF Times
          <6> QED
            BY <1>n, <4>2, <6>1, MinOf
        <5>2. RetryAt(Min(members), stamp[c]) \in 0 .. MaxTime + Span + Second
          BY <1>n, <5>1, RetryOK
        <5> QED
          BY <4>2, <5>2
      <4> QED
        BY <4>1, <4>2
    <3> HIDE DEF u
    <3> QED
      BY <3>1, <3>2 DEF ShapeInv, TypeOK
  <2> QED
    BY <2>0, <2>1, <2>2, <2>3 DEF ShapeInv, TypeOK
<1>5. ASSUME NEW c \in Calls, Remove(c) PROVE ShapeInv'
  <2>0. /\ pc[c] = "remove" /\ Decide(c, "refused") /\ members' = members \ {stamp[c]}
        /\ UNCHANGED <<backend, clock, hits, expires, stamp, until, history, calm>> /\ backend # "memory"
    BY <1>5 DEF Remove, CountedOut, ShapeInv
  <2> QED
    BY <1>d, <2>0 DEF ShapeInv, TypeOK
<1>6. ASSUME NEW c \in Calls, RedisFails(c) PROVE ShapeInv'
  <2>0. /\ pc[c] \in {"sent", "over", "remove"} /\ Decide(c, "failed") /\ Busy
        /\ UNCHANGED <<backend, clock, hits, stamp, until>> /\ backend # "memory"
        /\ UNCHANGED <<redis, history>> \/ Multi(c)
    BY <1>6 DEF RedisFails, ShapeInv
  <2>1. /\ members' \subseteq Times /\ expires' \in 0 .. MaxTime + Span + Second
        /\ newest' \in Times \cup {-1} /\ newest' <= clock' /\ orderly' \in BOOLEAN
    BY <1>m, <2>0 DEF ShapeInv, TypeOK
  <2> QED
    BY <1>d, <2>0, <2>1 DEF ShapeInv, TypeOK, Busy
<1>7. CASE Tick
  <2>1. clock' \in Times /\ clock' = clock + 1 /\ newest' <= clock' /\ \A c \in Calls : stamp'[c] <= clock'
    BY <1>7, <1>n DEF Tick, ShapeInv, TypeOK, Times
  <2> QED
    BY <1>7, <2>1 DEF Tick, ShapeInv, TypeOK
<1>8. CASE UNCHANGED vars
  BY <1>8 DEF vars, ShapeInv, TypeOK
<1> QED
  BY <1>1, <1>2, <1>3, <1>4, <1>5, <1>6, <1>7, <1>8 DEF Next, Check

\* Every reachable state of the limiter has the shape TypeOK gives.
THEOREM TypeCorrect == Spec => []TypeOK
<1>1. ShapeInv => TypeOK
  BY DEF ShapeInv
<1> QED
  BY <1>1, InitHolds, ShapeStep, PTL DEF Spec

-----------------------------------------------------------------------------
(***************************************************************************)
(* What the steps have in common.                                          *)
(***************************************************************************)
LEMMA Facts ==
    ASSUME ShapeInv
    PROVE  /\ clock \in Nat /\ members \subseteq Times /\ newest \in Int /\ newest <= clock
           /\ \A c \in Calls : /\ stamp[c] \in Times /\ stamp[c] \in Nat /\ stamp[c] <= clock
                               /\ until[c] \in Nat
                               /\ pc[c] = "idle" => verdict[c] = "none"
           /\ \A m \in members : m \in Nat
           /\ Allowed \subseteq Calls
           /\ backend \in {"memory", "redis"} /\ orderly \in BOOLEAN
           /\ expires \in Int
BY Constants DEF ShapeInv, TypeOK, Times, Allowed

\* Each limiter takes its own steps.
LEMMA Limiters ==
    ASSUME ShapeInv, NEW c \in Calls, Check(c)
    PROVE  /\ backend' = backend /\ clock' = clock
           /\ backend = "memory" => CheckInMemory(c)
           /\ backend = "redis" => Stamp(c) \/ Commit(c) \/ ReadOldest(c) \/ Remove(c) \/ RedisFails(c)
BY DEF Check, CheckInMemory, Stamp, Commit, ReadOldest, Remove, RedisFails, ShapeInv, clocks

\* A call leaves the others alone, except that it may end their calm.
LEMMA Others ==
    ASSUME ShapeInv, NEW c \in Calls, Check(c), NEW d \in Calls \ {c}
    PROVE  /\ pc'[d] = pc[d] /\ stamp'[d] = stamp[d] /\ verdict'[d] = verdict[d] /\ until'[d] = until[d]
           /\ calm'[d] => calm[d]
BY DEF Check, CheckInMemory, Stamp, Commit, ReadOldest, Remove, RedisFails, Decide, Goto, Busy, ShapeInv, TypeOK

\* What becomes of the call itself.
LEMMA Own ==
    ASSUME ShapeInv, NEW c \in Calls, Check(c)
    PROVE  /\ CheckInMemory(c) => pc'[c] = "end" /\ stamp'[c] = clock /\ verdict'[c] \in {"allowed", "refused"}
           /\ Stamp(c) => pc'[c] = "sent" /\ verdict'[c] = "none" /\ stamp'[c] = clock
           /\ ~CheckInMemory(c) /\ ~Stamp(c) => stamp' = stamp
           /\ Commit(c) => \/ /\ Cardinality(CountedIn(c)) > Limit
                              /\ pc'[c] = "over" /\ UNCHANGED <<verdict, calm>>
                           \/ /\ ~(Cardinality(CountedIn(c)) > Limit)
                              /\ pc'[c] = "end" /\ verdict'[c] = "allowed" /\ Busy
           /\ ReadOldest(c) => pc'[c] = "remove" /\ verdict' = verdict
           /\ Remove(c) => pc'[c] = "end" /\ verdict'[c] = "refused"
           /\ RedisFails(c) => pc'[c] = "end" /\ verdict'[c] = "failed"
<1>g. ASSUME NEW l, Goto(c, l) PROVE pc'[c] = l
  BY <1>g DEF Goto, ShapeInv, TypeOK
<1>d. ASSUME NEW v, Decide(c, v) PROVE pc'[c] = "end" /\ verdict'[c] = v
  BY <1>d, <1>g DEF Decide, ShapeInv, TypeOK
<1>1. CheckInMemory(c) => pc'[c] = "end" /\ stamp'[c] = clock /\ verdict'[c] \in {"allowed", "refused"}
  BY <1>d DEF CheckInMemory, ShapeInv, TypeOK
<1>2. Stamp(c) => pc'[c] = "sent" /\ verdict'[c] = "none" /\ stamp'[c] = clock
  BY <1>g DEF Stamp, ShapeInv, TypeOK
<1>3. ~CheckInMemory(c) /\ ~Stamp(c) => stamp' = stamp
  BY DEF Check, Commit, ReadOldest, Remove, RedisFails
<1>4. Commit(c) => \/ /\ Cardinality(CountedIn(c)) > Limit
                      /\ pc'[c] = "over" /\ UNCHANGED <<verdict, calm>>
                   \/ /\ ~(Cardinality(CountedIn(c)) > Limit)
                      /\ pc'[c] = "end" /\ verdict'[c] = "allowed" /\ Busy
  BY <1>g, <1>d DEF Commit
<1>5. /\ ReadOldest(c) => pc'[c] = "remove" /\ verdict' = verdict
      /\ Remove(c) => pc'[c] = "end" /\ verdict'[c] = "refused"
      /\ RedisFails(c) => pc'[c] = "end" /\ verdict'[c] = "failed"
  BY <1>g, <1>d DEF ReadOldest, Remove, RedisFails
<1> QED
  BY <1>1, <1>2, <1>3, <1>4, <1>5

\* Who has been let in keeps its timestamp, and only a check in memory or a
\* MULTI lets a call in.
LEMMA Admitted ==
    ASSUME ShapeInv, NEW c \in Calls, Check(c)
    PROVE  /\ \A d \in Allowed : stamp'[d] = stamp[d]
           /\ c \notin Allowed
           /\ \/ Allowed' = Allowed
              \/ Allowed' = Allowed \cup {c} /\ (CheckInMemory(c) \/ Commit(c))
<1>1. c \notin Allowed
  BY DEF Allowed, ShapeInv, Check, CheckInMemory, Stamp, Commit, ReadOldest, Remove, RedisFails
<1>2. \A d \in Calls \ {c} : d \in Allowed' <=> d \in Allowed
  BY Others DEF Allowed
<1>3. Allowed' = IF verdict'[c] = "allowed" THEN Allowed \cup {c} ELSE Allowed
  BY <1>1, <1>2 DEF Allowed
<1>4. verdict'[c] = "allowed" => CheckInMemory(c) \/ Commit(c)
  BY Own, <1>1 DEF Check, Allowed
<1>5. \A d \in Allowed : stamp'[d] = stamp[d]
  BY <1>1, Others DEF Allowed
<1> QED
  BY <1>1, <1>3, <1>4, <1>5

\* The effect of a MULTI.
LEMMA Multied ==
    ASSUME ShapeInv, NEW c \in Calls, Multi(c)
    PROVE  /\ members' = CountedIn(c) /\ newest' = stamp[c] /\ expires' = clock + Span + Second
           /\ orderly' => orderly /\ stamp[c] > newest /\ clock <= stamp[c] + Second
           /\ CountedIn(c) \subseteq Times /\ stamp[c] \in CountedIn(c)
           /\ \A m \in CountedIn(c) : m = stamp[c] \/ (m \in members /\ stamp[c] < m + Span)
           /\ \A m \in members : m \in CountedIn(c) \/ m + Span <= stamp[c]
<1>1. /\ members' = CountedIn(c) /\ newest' = stamp[c] /\ expires' = clock + Span + Second
      /\ orderly' => orderly /\ stamp[c] > newest /\ clock <= stamp[c] + Second
  BY DEF Multi
<1>2. CountedIn(c) \subseteq Times /\ stamp[c] \in CountedIn(c)
  BY Facts DEF CountedIn
<1>3. \A m \in members : InWindow(m, stamp[c]) <=> stamp[c] < m + Span
  BY Facts, Constants DEF InWindow
<1>4. \A m \in CountedIn(c) : m = stamp[c] \/ (m \in members /\ stamp[c] < m + Span)
  BY <1>3 DEF CountedIn
<1>5. \A m \in members : m \in CountedIn(c) \/ m + Span <= stamp[c]
  BY <1>3, Facts, Constants DEF CountedIn
<1> QED
  BY <1>1, <1>2, <1>4, <1>5

-----------------------------------------------------------------------------
(***************************************************************************)
(* The memory limiter.                                                     *)
(***************************************************************************)
LEMMA MemoryStep == ShapeInv /\ MemoryInv /\ [Next]_vars => MemoryInv'
<1> SUFFICES ASSUME ShapeInv, MemoryInv, [Next]_vars, backend' = "memory" PROVE MemoryInv'
  BY DEF MemoryInv
<1>1. ASSUME NEW c \in Calls, Check(c) PROVE MemoryInv'
  <2>0. backend = "memory" /\ CheckInMemory(c) /\ clock' = clock
    BY <1>1, Limiters
  <2>1. /\ hits \subseteq Allowed /\ Cardinality(hits) <= Limit
        /\ \A d \in Allowed : d \in hits \/ stamp[d] + Span <= clock
    BY <2>0 DEF MemoryInv
  <2>2. /\ \A d \in Allowed : stamp'[d] = stamp[d]
        /\ c \notin Allowed
        /\ Allowed' = Allowed \/ Allowed' = Allowed \cup {c}
    BY <1>1, Admitted
  <2>3. CASE Cardinality(Recent) >= Limit
    <3>1. Decide(c, "refused") /\ hits' = hits
      BY <2>0, <2>3 DEF CheckInMemory
    <3>2. Allowed' = Allowed
      <4>1. verdict'[c] = "refused"
        BY <3>1 DEF Decide, ShapeInv, TypeOK
      <4> QED
        BY <2>2, <4>1 DEF Allowed
    <3> QED
      BY <2>0, <2>1, <2>2, <3>1, <3>2 DEF MemoryInv
  <2>4. CASE ~(Cardinality(Recent) >= Limit)
    <3>1. Decide(c, "allowed") /\ hits' = Recent \cup {c}
      BY <2>0, <2>4 DEF CheckInMemory
    <3>2. Allowed' = Allowed \cup {c}
      <4>1. verdict'[c] = "allowed"
        BY <3>1 DEF Decide, ShapeInv, TypeOK
      <4> QED
        BY <2>2, <4>1 DEF Allowed
    <3>3. Recent \subseteq hits /\ Recent \subseteq Calls
      BY DEF Recent, ShapeInv, TypeOK
    <3>4. Cardinality(hits') <= Limit
      <4>1. Cardinality(Recent \cup {c}) <= Cardinality(Recent) + 1 /\ Cardinality(Recent) \in Nat
        BY <3>3, Finite, FS_AddElement
      <4>2. Cardinality(Recent \cup {c}) \in Nat
        BY <3>3, Finite
      <4> QED
        BY <2>4, <3>1, <4>1, <4>2, Constants
    <3>5. \A d \in Allowed : d \in Recent \/ stamp[d] + Span <= clock
      <4> TAKE d \in Allowed
      <4>1. CASE d \in hits
        BY <4>1, Facts, Constants DEF Recent, InWindow
      <4> QED
        BY <2>1, <4>1
    <3> QED
      BY <2>0, <2>1, <2>2, <3>1, <3>2, <3>3, <3>4, <3>5 DEF MemoryInv
  <2> QED
    BY <2>3, <2>4
<1>2. CASE Tick
  <2>1. /\ UNCHANGED <<backend, hits, stamp, verdict>> /\ clock' = clock + 1
    BY <1>2 DEF Tick
  <2>2. \A d \in Allowed : stamp[d] + Span <= clock => stamp[d] + Span <= clock + 1
    BY Facts, Constants
  <2> QED
    BY <2>1, <2>2 DEF MemoryInv, Allowed
<1>3. CASE UNCHANGED vars
  BY <1>3 DEF vars, clocks, MemoryInv, Allowed
<1> QED
  BY <1>1, <1>2, <1>3 DEF Next

-----------------------------------------------------------------------------
(***************************************************************************)
(* The sorted set.                                                         *)
(***************************************************************************)
\* What becomes of the set.
LEMMA SetSteps ==
    ASSUME ShapeInv, NEW c \in Calls, Check(c)
    PROVE  \/ /\ UNCHANGED <<members, expires, newest, orderly>>
              /\ ~Remove(c) /\ ~(Multi(c) /\ pc[c] = "sent")
           \/ Multi(c) /\ pc[c] = "sent" /\ (Commit(c) \/ RedisFails(c))
           \/ /\ Remove(c) /\ members' = members \ {stamp[c]} /\ UNCHANGED <<expires, newest, orderly>>
              /\ pc[c] = "remove"
BY DEF Check, CheckInMemory, Stamp, Commit, ReadOldest, Remove, RedisFails, CountedOut, redis, history

LEMMA MembersStep == ShapeInv /\ MembersInv /\ [Next]_vars => MembersInv'
<1> SUFFICES ASSUME ShapeInv, MembersInv, [Next]_vars PROVE MembersInv'
  OBVIOUS
<1>1. ASSUME NEW c \in Calls, Check(c) PROVE MembersInv'
  <2>1. \A d \in Calls \ {c} : stamp'[d] = stamp[d] /\ (Weighs(d) => Weighs(d)')
    BY <1>1, Others DEF Weighs
  <2>2. Weighs(c) => pc[c] \in {"over", "remove"}
    BY <1>1 DEF Weighs, ShapeInv, Check, CheckInMemory, Stamp, Commit, ReadOldest, Remove, RedisFails
  <2>3. CASE Multi(c) /\ pc[c] = "sent" /\ (Commit(c) \/ RedisFails(c))
    <3>1. stamp' = stamp /\ Weighs(c)'
      BY <1>1, <2>3, Own DEF Weighs, Commit, RedisFails
    <3> SUFFICES ASSUME NEW m \in members' PROVE \E d \in Calls : stamp'[d] = m /\ Weighs(d)'
      BY DEF MembersInv
    <3>2. m = stamp[c] \/ m \in members
      BY <2>3, Multied
    <3>3. CASE m = stamp[c]
      BY <3>1, <3>3
    <3>4. CASE m \in members
      <4>1. PICK d \in Calls : stamp[d] = m /\ Weighs(d)
        BY <3>4 DEF MembersInv
      <4> QED
        BY <2>1, <3>1, <4>1
    <3> QED
      BY <3>2, <3>3, <3>4
  <2>4. CASE Remove(c) /\ members' = members \ {stamp[c]}
    <3> SUFFICES ASSUME NEW m \in members' PROVE \E d \in Calls : stamp'[d] = m /\ Weighs(d)'
      BY DEF MembersInv
    <3>1. m \in members /\ m # stamp[c]
      BY <2>4
    <3>2. PICK d \in Calls : stamp[d] = m /\ Weighs(d)
      BY <3>1 DEF MembersInv
    <3> QED
      BY <2>1, <3>1, <3>2
  <2>5. CASE members' = members /\ ~Remove(c)
    <3>1. Weighs(c) => ReadOldest(c) \/ RedisFails(c)
      BY <1>1, <2>2, <2>5 DEF Check, CheckInMemory, Stamp, Commit
    <3>2. ReadOldest(c) \/ RedisFails(c) => Weighs(c)' /\ stamp'[c] = stamp[c]
      BY <1>1, Own DEF Weighs, ReadOldest, RedisFails
    <3>3. \A d \in Calls : Weighs(d) => Weighs(d)' /\ stamp'[d] = stamp[d]
      BY <2>1, <3>1, <3>2
    <3> QED
      BY <2>5, <3>3 DEF MembersInv
  <2> QED
    BY <1>1, <2>3, <2>4, <2>5, SetSteps
<1>2. CASE Tick
  <2>1. members' \subseteq members /\ UNCHANGED <<stamp, verdict, pc>>
    BY <1>2 DEF Tick
  <2> QED
    BY <2>1 DEF MembersInv, Weighs
<1>3. CASE UNCHANGED vars
  BY <1>3 DEF vars, redis, MembersInv, Weighs
<1> QED
  BY <1>1, <1>2, <1>3 DEF Next

\* The members of calls counted in, while MULTIs come in order.
LEMMA OrderStep == ShapeInv /\ OrderInv /\ [Next]_vars => OrderInv'
<1> SUFFICES ASSUME ShapeInv, OrderInv, [Next]_vars, backend' = "redis", orderly' PROVE OrderInv'
  BY DEF OrderInv
<1> DEFINE Fresh == \A d \in Calls : Counted(d) => stamp[d] <= newest
<1> DEFINE Single == \A c, d \in Calls : Counted(c) /\ Counted(d) /\ stamp[c] = stamp[d] => c = d
<1> DEFINE Held == /\ \A m \in members : m <= newest
                   /\ members # {} => newest + Span + Second <= expires
                   /\ \A d \in Allowed : \/ stamp[d] \in members
                                         \/ stamp[d] + Span <= newest
                                         \/ newest + Span + Second <= clock
<1>a. Fresh' /\ Single' /\ Held' => OrderInv'
  BY DEF OrderInv
<1>b. backend = "redis" /\ orderly => Fresh /\ Single /\ Held
  BY DEF OrderInv
<1>1. ASSUME NEW c \in Calls, Check(c) PROVE OrderInv'
  <2>0. backend = "redis" /\ clock' = clock /\ orderly
    BY <1>1, Limiters, SetSteps, Multied
  <2>1. Fresh /\ Single /\ Held
    BY <1>b, <2>0
  <2>2. \A d \in Calls \ {c} : stamp'[d] = stamp[d] /\ (Counted(d)' <=> Counted(d))
    BY <1>1, Others DEF Counted
  <2>3. CASE Multi(c) /\ pc[c] = "sent" /\ (Commit(c) \/ RedisFails(c))
    <3>1. /\ members' = CountedIn(c) /\ newest' = stamp[c] /\ expires' = clock + Span + Second
          /\ stamp[c] > newest /\ clock <= stamp[c] + Second /\ stamp' = stamp
      BY <1>1, <2>3, Multied, Own DEF Commit, RedisFails
    <3>2. /\ stamp[c] \in Nat /\ newest \in Int /\ clock \in Nat /\ stamp[c] <= clock
          /\ \A d \in Calls : stamp[d] \in Nat
          /\ \A m \in members : m \in Nat
      BY Facts
    <3>3. Fresh'
      BY <2>1, <2>2, <3>1, <3>2
    <3>4. Single'
      <4>1. \A d \in Calls \ {c} : Counted(d) => stamp[d] # stamp[c]
        BY <2>1, <3>1, <3>2
      <4> QED
        BY <2>1, <2>2, <3>1, <4>1
    <3>5. Held'
      <4>1. \A m \in members' : m <= newest'
        BY <2>1, <2>3, <3>1, <3>2, Multied
      <4>2. newest' + Span + Second <= expires'
        BY <3>1, <3>2, Constants
      <4>3. ASSUME NEW d \in Allowed'
            PROVE  \/ stamp'[d] \in members'
                   \/ stamp'[d] + Span <= newest'
        <5>1. CASE d = c
          BY <2>3, <3>1, <5>1, Multied
        <5>2. CASE d # c
          <6>0. d \in Allowed /\ d \in Calls /\ stamp[d] <= newest
            BY <1>1, <2>1, <4>3, <5>2, Admitted DEF Allowed, Counted
          <6>1. CASE stamp[d] \in members
            BY <2>3, <3>1, <6>1, Multied
          <6>2. CASE stamp[d] + Span <= newest
            BY <3>1, <3>2, <6>0, <6>2, Constants
          <6>3. CASE newest + Span + Second <= clock
            BY <3>1, <3>2, <6>0, <6>3, Constants
          <6> QED
            BY <2>1, <6>0, <6>1, <6>2, <6>3
        <5> QED
          BY <5>1, <5>2
      <4> QED
        BY <4>1, <4>2, <4>3
    <3> QED
      BY <1>a, <3>3, <3>4, <3>5
  <2>4. CASE UNCHANGED <<expires, newest, orderly>> /\ members' \subseteq members
             /\ (members' = members \/ (Remove(c) /\ members' = members \ {stamp[c]}))
             /\ ~(Multi(c) /\ pc[c] = "sent")
    <3>1. Counted(c)' => Counted(c) /\ stamp'[c] = stamp[c]
      <4>1. ~Commit(c) /\ ~CheckInMemory(c)
        BY <2>0, <2>4 DEF Commit, CheckInMemory
      <4>2. verdict'[c] = "allowed" => FALSE
        BY <1>1, <4>1, Own, Admitted DEF Check, Allowed, ReadOldest, Remove, RedisFails, Stamp
      <4>3. pc'[c] \in {"over", "remove"} => ReadOldest(c)
        BY <1>1, <4>1, Own DEF Check
      <4>4. ReadOldest(c) => pc[c] = "over" /\ stamp' = stamp
        BY DEF ReadOldest
      <4> QED
        BY <4>2, <4>3, <4>4 DEF Counted
    <3>2. Fresh' /\ Single'
      BY <2>1, <2>2, <2>4, <3>1
    <3>3. \A d \in Allowed' : stamp[d] \in members => stamp'[d] \in members'
      <4> SUFFICES ASSUME NEW d \in Allowed', stamp[d] \in members PROVE stamp'[d] \in members'
        OBVIOUS
      <4>1. d # c /\ d \in Calls /\ Counted(d) /\ stamp'[d] = stamp[d]
        <5>1. Allowed' = Allowed
          BY <1>1, <2>0, <2>4, Admitted DEF Commit, CheckInMemory
        <5> QED
          BY <1>1, <5>1, Admitted DEF Allowed, Counted
      <4>2. Remove(c) => Counted(c)
        BY DEF Remove, Counted
      <4>3. Remove(c) => stamp[d] # stamp[c]
        BY <2>1, <4>1, <4>2
      <4> QED
        BY <2>4, <4>1, <4>3
    <3>4. Held'
      <4>1. Allowed' = Allowed /\ \A d \in Allowed : stamp'[d] = stamp[d]
        BY <1>1, <2>0, <2>4, Admitted DEF Commit, CheckInMemory
      <4> QED
        BY <2>0, <2>1, <2>4, <3>3, <4>1
    <3> QED
      BY <1>a, <3>2, <3>4
  <2> QED
    BY <1>1, <2>3, <2>4, SetSteps
<1>2. CASE Tick
  <2>1. /\ UNCHANGED <<backend, newest, orderly, expires, stamp, verdict, pc>> /\ clock' = clock + 1
        /\ members' = IF clock' >= expires THEN {} ELSE members
    BY <1>2 DEF Tick, history
  <2>2. Fresh /\ Single /\ Held
    BY <1>b, <2>1
  <2>3. Fresh' /\ Single'
    BY <2>1, <2>2 DEF Counted
  <2>4. Held'
    BY <2>1, <2>2, Facts, Constants DEF Allowed
  <2> QED
    BY <1>a, <2>3, <2>4
<1>3. CASE UNCHANGED vars
  BY <1>3 DEF vars, clocks, redis, history, OrderInv, Counted, Allowed
<1> QED
  BY <1>1, <1>2, <1>3 DEF Next

\* A MULTI that comes in order adds a member younger than all who were let in.
LEMMA Younger ==
    ASSUME ShapeInv, OrderInv, backend = "redis", NEW c \in Calls, Multi(c), orderly'
    PROVE  \A a \in Allowed : stamp[a] < stamp[c]
<1>1. orderly /\ stamp[c] > newest
  BY Multied
<1>2. \A a \in Allowed : stamp[a] <= newest
  BY <1>1 DEF OrderInv, Counted, Allowed
<1> QED
  BY <1>1, <1>2, Facts

\* The set holds no more than the limit up to the last call that was let in.
LEMMA OlderStep == ShapeInv /\ OrderInv /\ OlderInv /\ [Next]_vars => OlderInv'
<1> SUFFICES ASSUME ShapeInv, OrderInv, OlderInv, [Next]_vars, orderly' PROVE OlderInv'
  BY DEF OlderInv
<1>f. ASSUME orderly, Older' \subseteq Older PROVE OlderInv'
  <2>1. Older \in SUBSET Times /\ Older' \in SUBSET Times
    BY <1>f, Facts DEF Older
  <2>2. Cardinality(Older') <= Cardinality(Older) /\ Cardinality(Older) \in Nat /\ Cardinality(Older') \in Nat
    BY <1>f, <2>1, Finite, FS_Subset
  <2>3. Cardinality(Older) <= Limit
    BY <1>f DEF OlderInv
  <2> QED
    BY <2>2, <2>3, Constants DEF OlderInv
<1>1. ASSUME NEW c \in Calls, Check(c) PROVE OlderInv'
  <2>o. orderly
    BY <1>1, SetSteps, Multied
  <2>a. \A d \in Allowed : d \in Calls /\ stamp'[d] = stamp[d]
    BY <1>1, Admitted, Facts
  <2>1. CASE backend = "memory"
    <3>1. members' = members /\ members = {}
      BY <1>1, <2>1, Limiters DEF ShapeInv, CheckInMemory, redis
    <3> QED
      BY <1>f, <2>o, <3>1 DEF Older
  <2>2. CASE backend = "redis"
    <3>1. CASE Multi(c) /\ pc[c] = "sent"
      <4>0. members' = CountedIn(c) /\ stamp' = stamp
        <5>1. ~CheckInMemory(c) /\ ~Stamp(c)
          BY <3>1 DEF CheckInMemory, Stamp
        <5> QED
          BY <1>1, <3>1, <5>1, Multied, Own
      <4>1. CASE Allowed' = Allowed
        <5>1. \A m \in Older' : m \in Older
          <6> SUFFICES ASSUME NEW m \in members', NEW a \in Allowed, m <= stamp[a] PROVE m \in Older
            BY <4>0, <4>1 DEF Older
          <6>1. m \in Nat /\ stamp[a] \in Nat /\ stamp[c] \in Nat /\ stamp[a] < stamp[c]
            BY <2>2, <3>1, <4>0, Facts, Younger, Multied DEF Times
          <6>2. m # stamp[c]
            BY <6>1
          <6> QED
            BY <3>1, <4>0, <6>2, Multied DEF Older
        <5> QED
          BY <1>f, <2>o, <5>1
      <4>2. CASE Allowed' # Allowed
        <5>1. Commit(c)
          BY <1>1, <2>2, <4>2, Admitted DEF CheckInMemory
        <5>2. ~(Cardinality(CountedIn(c)) > Limit)
          BY <1>1, <4>2, <5>1, Own DEF Allowed
        <5>3. Older' \subseteq CountedIn(c) /\ CountedIn(c) \in SUBSET Times
          BY <3>1, <4>0, Multied DEF Older
        <5>4. /\ Cardinality(Older') <= Cardinality(CountedIn(c))
              /\ Cardinality(CountedIn(c)) \in Nat /\ Cardinality(Older') \in Nat
          BY <5>3, Finite, FS_Subset
        <5> QED
          BY <5>2, <5>4, Constants DEF OlderInv
      <4> QED
        BY <4>1, <4>2
    <3>2. CASE ~(Multi(c) /\ pc[c] = "sent")
      <4>1. members' \subseteq members /\ Allowed' = Allowed
        BY <1>1, <2>2, <3>2, SetSteps, Admitted DEF Commit, CheckInMemory
      <4> QED
        BY <1>f, <2>a, <2>o, <4>1 DEF Older
    <3> QED
      BY <3>1, <3>2
  <2> QED
    BY <2>1, <2>2, Facts
<1>2. CASE Tick
  <2>1. orderly /\ members' \subseteq members /\ UNCHANGED <<stamp, verdict>>
    BY <1>2 DEF Tick, history
  <2> QED
    BY <1>f, <2>1 DEF Older, Allowed
<1>3. CASE UNCHANGED vars
  BY <1>3 DEF vars, redis, history, OlderInv, Older, Allowed
<1> QED
  BY <1>1, <1>2, <1>3 DEF Next

-----------------------------------------------------------------------------
(***************************************************************************)
(* No window holds more calls than the limit.                              *)
(***************************************************************************)
\* The calls let in that are in the window that ends with c.
Reach(c) == {d \in Allowed : stamp[d] <= stamp[c] /\ InWindow(stamp[d], stamp[c])}

LEMMA WindowIs == WindowBound <=> (orderly => \A c \in Allowed : Cardinality(Reach(c)) <= Limit)
BY DEF WindowBound, Reach

LEMMA WindowStep ==
    ShapeInv /\ ShapeInv' /\ MemoryInv' /\ OrderInv /\ OrderInv' /\ WindowBound /\ [Next]_vars => WindowBound'
<1> SUFFICES ASSUME ShapeInv, ShapeInv', MemoryInv', OrderInv, OrderInv', WindowBound, [Next]_vars, orderly'
             PROVE  \A e \in Allowed' : Cardinality(Reach(e)') <= Limit
  BY WindowIs DEF WindowBound, Reach
<1>1. ASSUME NEW c \in Calls, Check(c) PROVE \A e \in Allowed' : Cardinality(Reach(e)') <= Limit
  <2>o. orderly /\ \A e \in Allowed : Cardinality(Reach(e)) <= Limit
    BY <1>1, SetSteps, Multied, WindowIs
  <2>a. /\ \A d \in Allowed : d \in Calls /\ stamp'[d] = stamp[d]
        /\ c \notin Allowed /\ Allowed \subseteq Calls
    BY <1>1, Admitted, Facts
  <2>1. CASE Allowed' = Allowed
    <3>1. \A e \in Allowed : Reach(e)' = Reach(e)
      BY <2>a, <2>1 DEF Reach
    <3> QED
      BY <2>o, <2>1, <3>1
  <2>2. CASE Allowed' = Allowed \cup {c} /\ CheckInMemory(c)
    <3>1. backend = "memory" /\ backend' = "memory" /\ clock' = clock /\ stamp'[c] = clock
      BY <1>1, <2>2, Limiters, Own DEF CheckInMemory
    <3>2. ASSUME NEW e \in Allowed', stamp'[e] = clock PROVE Cardinality(Reach(e)') <= Limit
      <4>1. Reach(e)' \subseteq hits'
        <5> SUFFICES ASSUME NEW d \in Allowed', InWindow(stamp'[d], clock) PROVE d \in hits'
          BY <3>2 DEF Reach
        <5>1. d \in Calls /\ stamp'[d] \in Nat /\ clock \in Nat
          BY <2>a, <2>2, <3>1, Facts
        <5>2. ~(stamp'[d] + Span <= clock)
          BY <5>1, Constants DEF InWindow
        <5> QED
          BY <3>1, <5>2 DEF MemoryInv
      <4>2. Cardinality(hits') <= Limit /\ hits' \in SUBSET Calls
        BY <3>1 DEF MemoryInv, ShapeInv, TypeOK
      <4>3. /\ Cardinality(Reach(e)') <= Cardinality(hits')
            /\ Cardinality(Reach(e)') \in Nat /\ Cardinality(hits') \in Nat
        BY <4>1, <4>2, Finite, FS_Subset
      <4> QED
        BY <4>2, <4>3, Constants
    <3>3. ASSUME NEW e \in Allowed', stamp'[e] # clock PROVE Cardinality(Reach(e)') <= Limit
      <4>1. e \in Allowed /\ stamp'[e] = stamp[e] /\ stamp[e] < clock
        BY <2>a, <2>2, <3>1, <3>3, Facts
      <4>2. ~(stamp'[c] <= stamp'[e])
        BY <2>a, <3>1, <4>1, Facts
      <4>3. Reach(e)' = Reach(e)
        BY <2>a, <2>2, <4>1, <4>2 DEF Reach
      <4> QED
        BY <2>o, <4>1, <4>3
    <3> QED
      BY <3>2, <3>3
  <2>3. CASE Allowed' = Allowed \cup {c} /\ Commit(c)
    <3>0. backend = "redis" /\ backend' = "redis" /\ clock' = clock /\ Multi(c) /\ stamp' = stamp
      BY <1>1, <2>3, Limiters DEF Commit, ShapeInv, TypeOK
    <3>1. /\ members' = CountedIn(c) /\ newest' = stamp[c] /\ ~(Cardinality(CountedIn(c)) > Limit)
          /\ CountedIn(c) \in SUBSET Times /\ clock <= stamp[c] + Second
      BY <1>1, <2>3, <2>a, <3>0, Multied, Own DEF Allowed
    <3>2. \A a \in Allowed : stamp[a] < stamp[c]
      BY <3>0, Younger
    <3>3. \A e \in Allowed : Reach(e)' = Reach(e)
      <4> TAKE e \in Allowed
      <4>1. ~(stamp[c] <= stamp[e])
        BY <2>a, <3>2, Facts
      <4> QED
        BY <2>3, <3>0, <4>1 DEF Reach
    <3>4. Cardinality(Reach(c)') <= Limit
      <4>1. Reach(c)' \in SUBSET Calls
        BY <2>3, <2>a DEF Reach
      <4>2. \A d \in Reach(c)' : stamp[d] \in CountedIn(c)
        <5> SUFFICES ASSUME NEW d \in Allowed', InWindow(stamp[d], stamp[c]) PROVE stamp[d] \in CountedIn(c)
          BY <3>0 DEF Reach
        <5>1. d \in Calls /\ stamp[d] \in Nat /\ stamp[c] \in Nat /\ clock \in Nat
          BY <2>3, <2>a, Facts
        <5>2. stamp[d] > stamp[c] - Span
          BY DEF InWindow
        <5>3. ~(stamp[d] + Span <= stamp[c])
          BY <5>1, <5>2, Constants
        <5>4. ~(stamp[c] + Span + Second <= clock)
          BY <3>1, <5>1, Constants
        <5>5. \/ stamp'[d] \in members'
              \/ stamp'[d] + Span <= newest'
              \/ newest' + Span + Second <= clock'
          BY <3>0 DEF OrderInv
        <5> QED
          BY <3>0, <3>1, <5>3, <5>4, <5>5
      <4>3. \A d, e \in Reach(c)' : stamp[d] = stamp[e] => d = e
        <5>1. \A d, e \in Allowed' : stamp'[d] = stamp'[e] => d = e
          BY <3>0, <2>3, <2>a DEF OrderInv, Counted, Allowed
        <5> QED
          BY <3>0, <5>1 DEF Reach
      <4>4. stamp \in [Calls -> Times]
        BY DEF ShapeInv, TypeOK
      <4>5. Cardinality(Reach(c)') <= Cardinality(CountedIn(c))
        BY <3>1, <4>1, <4>2, <4>3, <4>4, OwnStamps
      <4>6. Cardinality(Reach(c)') \in Nat /\ Cardinality(CountedIn(c)) \in Nat
        BY <3>1, <4>1, Finite
      <4> QED
        BY <3>1, <4>5, <4>6, Constants
    <3> QED
      BY <2>o, <2>3, <3>3, <3>4
  <2> QED
    BY <1>1, <2>1, <2>2, <2>3, Admitted
<1>2. CASE Tick \/ UNCHANGED vars
  <2>1. orderly /\ UNCHANGED <<stamp, verdict>>
    BY <1>2 DEF Tick, history, vars
  <2>2. Allowed' = Allowed /\ \A e \in Allowed : Reach(e)' = Reach(e)
    BY <2>1 DEF Allowed, Reach
  <2> QED
    BY <2>1, <2>2, WindowIs
<1> QED
  BY <1>1, <1>2 DEF Next

\* In no window are more calls let in than the limit; in Redis as long as the
\* MULTIs come in the order of distinct timestamps, each within a second.
THEOREM WindowStaysBounded == Spec => []WindowBound
BY InitHolds, ShapeStep, MemoryStep, OrderStep, WindowStep, PTL DEF Spec

-----------------------------------------------------------------------------
(***************************************************************************)
(* Retry-After.                                                            *)
(***************************************************************************)
LEMMA CalmStep ==
    ShapeInv /\ ShapeInv' /\ MemoryInv /\ OrderInv /\ OlderInv /\ CalmInv /\ [Next]_vars => CalmInv'
<1> SUFFICES ASSUME ShapeInv, ShapeInv', MemoryInv, OrderInv, OlderInv, CalmInv, [Next]_vars,
                    NEW d \in Calls, calm'[d]
             PROVE  /\ \A e \in Calls : verdict'[e] # "failed"
                    /\ backend' = "memory" => \E h \in hits' : stamp'[h] + Span < until'[d]
                    /\ backend' = "redis" /\ orderly' => Cardinality(Against(d)') < Limit
  BY DEF CalmInv
<1> DEFINE Goal == /\ \A e \in Calls : verdict'[e] # "failed"
                   /\ backend' = "memory" => \E h \in hits' : stamp'[h] + Span < until'[d]
                   /\ backend' = "redis" /\ orderly' => Cardinality(Against(d)') < Limit
\* What counts against d only becomes less.
<1>f. ASSUME calm[d], orderly, backend = "redis", Against(d)' \subseteq Against(d)
      PROVE  Cardinality(Against(d)') < Limit
  <2>1. Against(d) \in SUBSET Times /\ Against(d)' \in SUBSET Times
    BY <1>f, Facts DEF Against
  <2>2. /\ Cardinality(Against(d)') <= Cardinality(Against(d))
        /\ Cardinality(Against(d)) \in Nat /\ Cardinality(Against(d)') \in Nat
    BY <1>f, <2>1, Finite, FS_Subset
  <2>3. Cardinality(Against(d)) < Limit
    BY <1>f DEF CalmInv
  <2> QED
    BY <2>2, <2>3, Constants
<1>1. ASSUME NEW c \in Calls, Check(c) PROVE Goal
  <2>a. /\ \A a \in Allowed : a \in Calls /\ stamp'[a] = stamp[a]
        /\ c \notin Allowed /\ Allowed \subseteq Calls
    BY <1>1, Admitted, Facts
  <2>1. CASE backend = "memory"
    <3>0. CheckInMemory(c) /\ backend' = "memory" /\ clock' = clock
      BY <1>1, <2>1, Limiters
    <3>1. \A e \in Calls : verdict'[e] # "failed"
      BY <3>0 DEF ShapeInv
    <3>2. Cardinality(Recent) >= Limit /\ hits' = hits /\ hits \subseteq Allowed
          /\ until' = [until EXCEPT ![c] = RetryAt(OldestHit, clock)]
      BY <2>1, <3>0 DEF CheckInMemory, Busy, MemoryInv
    <3>3. CASE d = c
      <4>1. Recent \subseteq hits /\ Recent \subseteq Calls /\ Recent # {}
        BY <3>2, FS_EmptySet, Constants DEF Recent, ShapeInv, TypeOK
      <4>2. {stamp[h] : h \in Recent} \in SUBSET Nat /\ {stamp[h] : h \in Recent} # {}
        BY <4>1, Facts
      <4>3. OldestHit \in {stamp[h] : h \in Recent}
        BY <4>2, MinOf DEF OldestHit
      <4>4. PICK h \in Recent : stamp[h] = OldestHit
        BY <4>3
      <4>5. stamp[h] + Span < RetryAt(OldestHit, clock)
        BY <4>1, <4>4, Facts, RetryLater
      <4>6. until'[d] = RetryAt(OldestHit, clock)
        BY <3>2, <3>3 DEF ShapeInv, TypeOK
      <4>7. h \in hits' /\ stamp'[h] = stamp[h]
        BY <2>a, <3>2, <4>1, <4>4
      <4> QED
        BY <3>0, <3>1, <4>5, <4>6, <4>7
    <3>4. CASE d # c
      <4>1. calm[d] /\ until'[d] = until[d]
        BY <1>1, <3>4, Others
      <4>2. PICK h \in hits : stamp[h] + Span < until[d]
        BY <2>1, <4>1 DEF CalmInv
      <4>3. h \in hits' /\ stamp'[h] = stamp[h]
        BY <2>a, <3>2, <4>2
      <4> QED
        BY <3>0, <3>1, <4>1, <4>2, <4>3
    <3> QED
      BY <3>3, <3>4
  <2>2. CASE backend = "redis"
    <3>0. backend' = "redis" /\ ~CheckInMemory(c) /\ ~RedisFails(c)
      BY <1>1, <2>2, Limiters DEF CheckInMemory, RedisFails, Busy
    <3>1. Allowed' = Allowed
      <4>1. ~Busy
        BY DEF Busy
      <4>2. Commit(c) => verdict' = verdict
        BY <1>1, <4>1, Own
      <4> QED
        BY <1>1, <3>0, <4>2, Admitted DEF Allowed
    <3>2. orderly' => orderly
      BY <1>1, SetSteps, Multied
    <3>3. CASE ReadOldest(c) /\ d = c
      <4> DEFINE v == \A e \in Calls \ {c} : pc[e] \in {"idle", "end"} /\ verdict[e] # "failed"
      <4>0. /\ pc[c] = "over" /\ calm' = [calm EXCEPT ![c] = v] /\ UNCHANGED <<members, orderly, stamp, verdict>>
            /\ until' = [until EXCEPT ![c] = IF members = {} THEN stamp[c] + Second
                                                             ELSE RetryAt(Min(members), stamp[c])]
        BY <3>3 DEF ReadOldest, redis, history
      <4>1. v
        <5> HIDE DEF v
        <5> QED
          BY <3>3, <4>0 DEF ShapeInv, TypeOK
      <4>2. \A e \in Calls : verdict'[e] # "failed"
        BY <4>0, <4>1 DEF ShapeInv
      <4>3. ASSUME orderly PROVE Cardinality(Against(d)') < Limit
        <5>1. CASE members = {}
          <6>1. Against(d)' = {}
            BY <4>0, <5>1 DEF Against
          <6> QED
            BY <6>1, FS_EmptySet, Constants
        <5>2. CASE members # {}
          <6>1. Min(members) \in members /\ \A m \in members : Min(members) <= m
            <7>1. members \in SUBSET Nat
              BY Facts
            <7> QED
              BY <5>2, <7>1, MinOf
          <6>2. until'[d] = RetryAt(Min(members), stamp[c])
            BY <3>3, <4>0, <5>2 DEF ShapeInv, TypeOK
          <6>3. Min(members) + Span < until'[d] /\ until'[d] \in Nat
            BY <6>1, <6>2, Facts, RetryLater
          <6>4. ~InWindow(Min(members), until'[d])
            BY <6>1, <6>3, Facts, Constants DEF InWindow
          <6>5. CASE Against(d)' = {}
            BY <6>5, FS_EmptySet, Constants
          <6>6. CASE Against(d)' # {}
            <7>1. Against(d)' \subseteq Older \ {Min(members)}
              <8> SUFFICES ASSUME NEW m \in members, InWindow(m, until'[d]), NEW a \in Allowed, m = stamp[a]
                           PROVE  m \in Older \ {Min(members)}
                BY <3>1, <4>0 DEF Against
              <8>1. m <= stamp[a]
                BY Facts
              <8> QED
                BY <6>4, <8>1 DEF Older
            <7>2. Min(members) \in Older
              <8>1. PICK m \in Older : TRUE
                BY <6>6, <7>1
              <8>2. PICK a \in Allowed : m \in members /\ m <= stamp[a]
                BY <8>1 DEF Older
              <8>3. Min(members) <= stamp[a]
                BY <6>1, <8>2, Facts
              <8> QED
                BY <6>1, <8>2, <8>3 DEF Older
            <7>3. Older \in SUBSET Times /\ Older \ {Min(members)} \in SUBSET Times /\ Against(d)' \in SUBSET Times
              BY <7>1, Facts DEF Older
            <7>4. Cardinality(Older \ {Min(members)}) = Cardinality(Older) - 1 /\ Cardinality(Older) \in Nat
              BY <7>2, <7>3, Finite, FS_RemoveElement
            <7>5. /\ Cardinality(Against(d)') <= Cardinality(Older \ {Min(members)})
                  /\ Cardinality(Against(d)') \in Nat
              BY <7>1, <7>3, Finite, FS_Subset
            <7>6. Cardinality(Older) <= Limit
              BY <4>3 DEF OlderInv
            <7> QED
              BY <7>4, <7>5, <7>6, Constants
          <6> QED
            BY <6>5, <6>6
        <5> QED
          BY <5>1, <5>2
      <4> QED
        BY <3>0, <3>2, <4>2, <4>3
    <3>4. CASE ~(ReadOldest(c) /\ d = c)
      <4>1. calm[d] /\ until'[d] = until[d]
        <5>1. CASE d # c
          BY <1>1, <5>1, Others
        <5>2. CASE d = c
          BY <1>1, <3>0, <3>4, <5>2, Own DEF Check, Stamp, Commit, Remove, Busy
        <5> QED
          BY <5>1, <5>2
      <4>2. \A e \in Calls : verdict'[e] # "failed"
        <5>1. \A e \in Calls : verdict[e] # "failed"
          BY <4>1 DEF CalmInv
        <5>2. verdict'[c] # "failed"
          BY <1>1, <3>0, <5>1, Own DEF Check
        <5> QED
          BY <1>1, <5>1, <5>2, Others
      <4>3. ASSUME orderly' PROVE Cardinality(Against(d)') < Limit
        <5>1. ASSUME NEW m \in members', NEW a \in Allowed, m = stamp[a] PROVE m \in members
          <6>1. CASE Multi(c) /\ pc[c] = "sent"
            <7>1. stamp[a] < stamp[c]
              BY <2>2, <4>3, <6>1, Younger
            <7>2. m # stamp[c]
              BY <2>a, <5>1, <7>1, Facts
            <7> QED
              BY <6>1, <7>2, Multied
          <6>2. CASE ~(Multi(c) /\ pc[c] = "sent")
            BY <1>1, <6>2, SetSteps
          <6> QED
            BY <6>1, <6>2
        <5>2. Against(d)' \subseteq Against(d)
          BY <2>a, <3>1, <4>1, <5>1 DEF Against
        <5> QED
          BY <1>f, <2>2, <3>2, <4>1, <4>3, <5>2
      <4> QED
        BY <3>0, <4>2, <4>3
    <3> QED
      BY <3>3, <3>4
  <2> QED
    BY <2>1, <2>2, Facts
<1>2. CASE Tick \/ UNCHANGED vars
  <2>1. /\ UNCHANGED <<backend, hits, stamp, verdict, until, orderly, calm>>
        /\ members' \subseteq members
    BY <1>2 DEF Tick, vars, clocks, redis, history
  <2>2. Against(d)' \subseteq Against(d)
    BY <2>1 DEF Against, Allowed
  <2>3. orderly' /\ backend' = "redis" => Cardinality(Against(d)') < Limit
    BY <1>f, <2>1, <2>2
  <2> QED
    BY <2>1, <2>3 DEF CalmInv
<1> QED
  BY <1>1, <1>2 DEF Next

-----------------------------------------------------------------------------
(***************************************************************************)
(* Who is turned away, and why.                                            *)
(***************************************************************************)
LEMMA TurningAway ==
    ASSUME ShapeInv, [Next]_vars, NEW c \in Calls, TurnsAway(c)
    PROVE  \/ CheckInMemory(c) /\ Cardinality(Recent) >= Limit /\ stamp'[c] = clock
           \/ /\ Commit(c) /\ backend = "redis" /\ Cardinality(CountedIn(c)) > Limit
              /\ stamp'[c] = stamp[c]
<1>1. pc[c] \in {"idle", "sent"} /\ pc'[c] # pc[c]
  <2>1. pc[c] = "idle" /\ verdict'[c] = "refused" => pc'[c] # pc[c]
    <3>1. verdict'[c] = "refused" => pc'[c] = "end"
      BY ShapeStep DEF ShapeInv
    <3> QED
      BY <3>1
  <2> QED
    BY <2>1 DEF TurnsAway
<1>2. PICK q \in Calls : Check(q)
  BY <1>1 DEF Next, Tick, vars
<1>3. q = c
  BY <1>1, <1>2, Others
<1>4. Check(c)
  BY <1>2, <1>3
<1>5. CASE pc[c] = "idle" /\ verdict'[c] = "refused"
  <2>1. CheckInMemory(c)
    BY <1>4, <1>5, Own DEF Check, Commit, ReadOldest, Remove, RedisFails
  <2>2. stamp'[c] = clock
    BY <1>4, <2>1, Own
  <2>3. Cardinality(Recent) >= Limit
    BY <1>5, <2>1 DEF CheckInMemory, Decide, ShapeInv, TypeOK
  <2> QED
    BY <2>1, <2>2, <2>3
<1>6. CASE pc[c] = "sent" /\ pc'[c] = "over"
  <2>1. Commit(c)
    BY <1>4, <1>6, Own DEF Check, CheckInMemory, Stamp, ReadOldest, Remove
  <2>2. Cardinality(CountedIn(c)) > Limit
    BY <1>4, <1>6, <2>1, Own
  <2>3. stamp'[c] = stamp[c]
    BY <2>1 DEF Commit
  <2>4. backend = "redis"
    BY <1>6, Facts DEF ShapeInv
  <2> QED
    BY <2>1, <2>2, <2>3, <2>4
<1> QED
  BY <1>5, <1>6 DEF TurnsAway

\* A call over the limit found as many other members of its window.
LEMMA OverBy ==
    ASSUME ShapeInv, NEW c \in Calls, Cardinality(CountedIn(c)) > Limit
    PROVE  /\ CountedIn(c) \ {stamp[c]} \in SUBSET Times
           /\ Cardinality(CountedIn(c) \ {stamp[c]}) >= Limit
<1>1. CountedIn(c) \in SUBSET Times /\ stamp[c] \in CountedIn(c)
  BY Facts DEF CountedIn
<1>2. IsFiniteSet(CountedIn(c)) /\ Cardinality(CountedIn(c)) \in Nat
  BY <1>1, Finite
<1>3. Cardinality(CountedIn(c) \ {stamp[c]}) = Cardinality(CountedIn(c)) - 1
  BY <1>1, <1>2, FS_RemoveElement
<1> QED
  BY <1>1, <1>2, <1>3, Constants

\* A call is turned away only for as many others as the limit.
THEOREM RefusalsAreEarned == Spec => RefusalEarned
<1>1. ASSUME ShapeInv, MemoryInv, MembersInv, [Next]_vars, NEW c \in Calls, TurnsAway(c)
      PROVE  Cardinality({d \in Calls \ {c} : Weighs(d) /\ InWindow(stamp[d], stamp'[c])}) >= Limit
  <2> DEFINE W == {d \in Calls \ {c} : Weighs(d) /\ InWindow(stamp[d], stamp'[c])}
  <2>0. W \in SUBSET Calls /\ IsFiniteSet(W) /\ Cardinality(W) \in Nat
    BY Finite
  <2>1. CASE CheckInMemory(c) /\ Cardinality(Recent) >= Limit /\ stamp'[c] = clock
    <3>1. hits \subseteq Allowed /\ c \notin Allowed /\ Allowed \subseteq Calls
      BY <1>1, <2>1, Admitted, Facts DEF MemoryInv, CheckInMemory, Check
    <3>2. Recent \subseteq W
      BY <2>1, <3>1 DEF Recent, Weighs, Allowed
    <3>3. Cardinality(Recent) <= Cardinality(W) /\ Cardinality(Recent) \in Nat
      BY <2>0, <3>2, FS_Subset, Finite
    <3> QED
      BY <2>0, <2>1, <3>3, Constants
  <2>2. CASE Commit(c) /\ backend = "redis" /\ Cardinality(CountedIn(c)) > Limit /\ stamp'[c] = stamp[c]
    <3> DEFINE T == CountedIn(c) \ {stamp[c]}
    <3>1. T \in SUBSET Times /\ Cardinality(T) >= Limit
      BY <1>1, <2>2, OverBy
    <3>2. T \subseteq {stamp[d] : d \in W}
      <4> SUFFICES ASSUME NEW m \in members, InWindow(m, stamp[c]), m # stamp[c]
                   PROVE  m \in {stamp[d] : d \in W}
        BY DEF CountedIn
      <4>1. PICK d \in Calls : stamp[d] = m /\ Weighs(d)
        BY <1>1 DEF MembersInv
      <4>2. d \in W
        BY <2>2, <4>1
      <4> QED
        BY <4>1, <4>2
    <3>3. stamp \in [Calls -> Times]
      BY <1>1 DEF ShapeInv, TypeOK
    <3> HIDE DEF T, W
    <3>4. Cardinality(T) <= Cardinality(W) /\ Cardinality(T) \in Nat
      BY <2>0, <3>1, <3>2, <3>3, Stamps, Finite
    <3> QED
      BY <2>0, <3>1, <3>4, Constants DEF W
  <2> QED
    BY <1>1, <2>1, <2>2, TurningAway
<1>2. ShapeInv /\ MemoryInv /\ MembersInv /\ [Next]_vars =>
         [\A c \in Calls : TurnsAway(c) =>
             Cardinality({d \in Calls \ {c} : Weighs(d) /\ InWindow(stamp[d], stamp'[c])}) >= Limit]_vars
  BY <1>1
<1> QED
  BY <1>2, InitHolds, ShapeStep, MemoryStep, MembersStep, PTL DEF Spec, RefusalEarned

\* A call that comes no sooner than a refused one was told, with nothing let in
\* since, is let in; in Redis if calls come in order and none is being counted
\* out.
THEOREM RetryIsHonoured == Spec => RetryHonoured
<1>1. ASSUME ShapeInv, MemoryInv, MembersInv, CalmInv, [Next]_vars, NEW c \in Calls, NEW d \in Calls,
             TurnsAway(c), verdict[d] = "refused", calm[d], orderly',
             ~(stamp'[c] < until[d]), \A e \in Calls \ {c} : pc[e] \notin {"over", "remove"}
      PROVE  FALSE
  <2>1. CASE CheckInMemory(c) /\ Cardinality(Recent) >= Limit /\ stamp'[c] = clock
    <3>1. backend = "memory" /\ Cardinality(hits) <= Limit /\ hits \subseteq Calls
      BY <1>1, <2>1 DEF CheckInMemory, MemoryInv, ShapeInv, TypeOK
    <3>2. PICK h \in hits : stamp[h] + Span < until[d]
      BY <1>1, <3>1 DEF CalmInv
    <3>3. h \notin Recent
      <4>1. stamp[h] \in Nat /\ until[d] \in Nat /\ clock \in Nat
        BY <1>1, <3>1, Facts
      <4>2. ~InWindow(stamp[h], clock)
        BY <1>1, <2>1, <3>2, <4>1, Constants DEF InWindow
      <4> QED
        BY <4>2 DEF Recent
    <3>4. Recent \subseteq hits \ {h}
      BY <3>3 DEF Recent
    <3>5. IsFiniteSet(hits) /\ Cardinality(hits) \in Nat
      BY <3>1, Finite
    <3>6. IsFiniteSet(hits \ {h}) /\ Cardinality(hits \ {h}) = Cardinality(hits) - 1
      BY <3>2, <3>5, FS_RemoveElement
    <3>7. Cardinality(Recent) <= Cardinality(hits \ {h}) /\ Cardinality(Recent) \in Nat
      BY <3>1, <3>4, <3>6, FS_Subset, Finite
    <3> QED
      BY <2>1, <3>1, <3>5, <3>6, <3>7, Constants
  <2>2. CASE Commit(c) /\ backend = "redis" /\ Cardinality(CountedIn(c)) > Limit /\ stamp'[c] = stamp[c]
    <3> DEFINE T == CountedIn(c) \ {stamp[c]}
    <3>1. T \in SUBSET Times /\ Cardinality(T) >= Limit
      BY <1>1, <2>2, OverBy
    <3>2. orderly /\ Cardinality(Against(d)) < Limit /\ \A e \in Calls : verdict[e] # "failed"
      BY <1>1, <2>2, Multied DEF CalmInv, Commit
    <3>3. T \subseteq Against(d)
      <4> SUFFICES ASSUME NEW m \in members, InWindow(m, stamp[c]), m # stamp[c]
                   PROVE  m \in Against(d)
        BY DEF CountedIn
      <4>1. PICK a \in Calls : stamp[a] = m /\ Weighs(a)
        BY <1>1 DEF MembersInv
      <4>2. a \in Allowed
        BY <1>1, <3>2, <4>1 DEF Weighs, Allowed
      <4>3. InWindow(m, until[d])
        <5>1. m \in Nat /\ stamp[c] \in Nat /\ until[d] \in Nat
          BY <1>1, Facts
        <5> QED
          BY <1>1, <2>2, <5>1, Constants DEF InWindow
      <4> QED
        BY <4>1, <4>2, <4>3 DEF Against
    <3>4. Against(d) \in SUBSET Times
      BY <1>1, Facts DEF Against
    <3>5. /\ Cardinality(T) <= Cardinality(Against(d))
          /\ Cardinality(T) \in Nat /\ Cardinality(Against(d)) \in Nat
      BY <3>1, <3>3, <3>4, Finite, FS_Subset
    <3> QED
      BY <3>1, <3>2, <3>5, Constants
  <2> QED
    BY <1>1, <2>1, <2>2, TurningAway
<1>2. ShapeInv /\ MemoryInv /\ MembersInv /\ CalmInv /\ [Next]_vars =>
         [\A c, d \in Calls :
             TurnsAway(c) /\ verdict[d] = "refused" /\ calm[d] /\ orderly' => stamp'[c] < until[d]
                \/ \E e \in Calls \ {c} : pc[e] \in {"over", "remove"}]_vars
  BY <1>1
<1> QED
  BY <1>2, InitHolds, ShapeStep, MemoryStep, MembersStep, OrderStep, OlderStep, CalmStep, PTL
  DEF Spec, RetryHonoured
=============================================================================
