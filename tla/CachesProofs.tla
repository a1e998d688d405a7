---------------------------- MODULE CachesProofs ----------------------------
(***************************************************************************)
(* What the cache promises, for any number of processes, users and calls,  *)
(* any positive time to live and any number of versions.  Times and        *)
(* versions have an upper bound in the model; the bounds are constants.    *)
(***************************************************************************)
EXTENDS Caches, Integers, WellFoundedInduction, TLAPS

Entry == [place : Procs \cup {Shared}, key : Keys, value : Results, expires : 1 .. MaxTime + TTL]

-----------------------------------------------------------------------------
(***************************************************************************)
(* The greatest of some numbers.                                           *)
(***************************************************************************)
LEMMA MaxOf ==
    ASSUME NEW n \in Nat, NEW S \in SUBSET (0 .. n), S # {}
    PROVE  Max(S) \in S /\ \A y \in S : y <= Max(S)
<1> DEFINE T == {n - x : x \in S}
<1>1. T \subseteq Nat /\ T # {}
  <2>1. \A x \in S : n - x \in Nat
    OBVIOUS
  <2>2. PICK x : x \in S
    OBVIOUS
  <2>3. n - x \in T
    BY <2>2
  <2> QED
    BY <2>1, <2>3
<1>2. IsWellFoundedOn(OpToRel(<, Nat), Nat)
  BY NatLessThanWellFounded
<1>3. \E x \in T : \A y \in T : ~(<<y, x>> \in OpToRel(<, Nat))
  BY <1>1, <1>2, WFMin
<1>4. PICK x \in T : \A y \in T : ~(y < x)
  BY <1>1, <1>3 DEF OpToRel
<1>5. PICK m \in S : x = n - m
  BY <1>4
<1>6. ASSUME NEW y \in S PROVE y <= m
  <2>1. n - y \in T
    OBVIOUS
  <2>2. ~(n - y < n - m)
    BY <1>4, <1>5, <2>1
  <2>3. y \in Int /\ m \in Int
    OBVIOUS
  <2> QED
    BY <2>2, <2>3
<1>7. m \in S /\ \A y \in S : m >= y
  BY <1>5, <1>6
<1>8. Max(S) \in S /\ \A y \in S : Max(S) >= y
  BY <1>7 DEF Max
<1> QED
  BY <1>8

LEMMA MaxOfTwo ==
    ASSUME NEW a \in Nat, NEW b \in Nat
    PROVE  Max({a, b}) \in {a, b} /\ a <= Max({a, b}) /\ b <= Max({a, b})
<1>1. {a, b} \in SUBSET (0 .. a + b) /\ a + b \in Nat
  OBVIOUS
<1> QED
  BY <1>1, MaxOf

-----------------------------------------------------------------------------
(***************************************************************************)
(* The helpers.                                                            *)
(***************************************************************************)

\* A floor is the version of some call that was served from the cache.
LEMMA FloorServed ==
    ASSUME TypeOK, NEW p, NEW k
    PROVE  /\ Floor(p, k) \in 0 .. MaxVersion
           /\ \/ Floor(p, k) = 0
              \/ \E d \in Calls : /\ pc[d] = "done" /\ key[d] = k
                                  /\ Place(asker[d].proc) = Place(p)
                                  /\ Floor(p, k) = result[d].version
<1> DEFINE D == {d \in Calls : pc[d] = "done" /\ key[d] = k /\ Place(asker[d].proc) = Place(p)}
<1> DEFINE S == {0} \cup {result[d].version : d \in D}
<1>1. \A d \in Calls : result[d].version \in 0 .. MaxVersion
  BY DEF TypeOK, Results
<1>2. S \in SUBSET (0 .. MaxVersion) /\ S # {} /\ MaxVersion \in Nat
  BY <1>1, BoundsAssumption
<1>3. Max(S) \in S
  BY <1>2, MaxOf
<1>4. Floor(p, k) = Max(S)
  BY DEF Floor
<1> QED
  BY <1>2, <1>3, <1>4

-----------------------------------------------------------------------------
(***************************************************************************)
(* TypeOK in parts, with what makes it inductive: nothing is from the      *)
(* future, a call under way knows who asks, and with the memory cache no   *)
(* call is ever seen under way.                                            *)
(***************************************************************************)
WorldOK ==
    /\ kind \in Kinds /\ store \in {"memory", "redis"} /\ scoped \in BOOLEAN
    /\ clock \in 0 .. MaxTime
    /\ data \in Versions /\ file \in Versions
    /\ loaded \in [Procs -> Versions]

CacheOK ==
    /\ entries \subseteq Entry
    /\ \A e, f \in entries : e.place = f.place /\ e.key = f.key => e = f
    /\ \A e \in entries : e.value.at <= clock

UnderWay == {"get", "compute", "set"}

CallsOK ==
    /\ pc \in [Calls -> {"idle", "get", "compute", "set", "done", "failed"}]
    /\ asker \in [Calls -> Asks \cup {NoAsk}]
    /\ key \in [Calls -> Keys]
    /\ result \in [Calls -> Results]
    /\ age \in [Calls -> 0 .. MaxTime]
    /\ floor \in [Calls -> 0 .. MaxVersion]
    /\ \A c \in Calls :
          /\ result[c].at <= clock
          /\ pc[c] \in UnderWay \cup {"done"} => asker[c] \in Asks
          /\ store = "memory" => pc[c] \notin UnderWay

HistoryOK == lag \in 0 .. MaxTime /\ crossed \in BOOLEAN /\ mixed \in BOOLEAN

TypeInv == WorldOK /\ CacheOK /\ CallsOK /\ HistoryOK

LEMMA TypeInvIsTypeOK == TypeInv => TypeOK
BY DEF TypeInv, WorldOK, CacheOK, CallsOK, HistoryOK, TypeOK, Entry

LEMMA ComputedOK ==
    ASSUME WorldOK, NEW a \in Asks
    PROVE  Computed(a) \in Results /\ Computed(a).at = clock
BY BoundsAssumption DEF WorldOK, Computed, Results, Asks, Versions

LEMMA KeyOfOK ==
    ASSUME WorldOK, NEW u \in PassedOn
    PROVE  KeyOf(u) \in Keys /\ u \in Scopes
BY BoundsAssumption DEF WorldOK, KeyOf, Keys, Versions, Kinds, Scopes, PassedOn

LEMMA FoundOK ==
    ASSUME CacheOK, NEW p, NEW k, NEW e \in Found(p, k)
    PROVE  e \in entries /\ e.value \in Results /\ e.value.at <= clock
BY DEF CacheOK, Found, Entry

LEMMA StoredOK ==
    ASSUME WorldOK, CacheOK, NEW p \in Procs, NEW k \in Keys, NEW v \in Results, v.at <= clock,
           entries' = Stored(p, k, v), clock' = clock
    PROVE  CacheOK'
<1> DEFINE new == [place |-> Place(p), key |-> k, value |-> v, expires |-> clock + TTL]
<1>1. new \in Entry
  BY TTLAssumption, BoundsAssumption DEF WorldOK, Entry, Place
<1>2. entries' = {e \in entries : ~(e.place = Place(p) /\ e.key = k)} \cup {new}
  BY DEF Stored
<1>3. entries' \subseteq Entry
  BY <1>1, <1>2 DEF CacheOK
<1>4. ASSUME NEW e \in entries', NEW f \in entries', e.place = f.place, e.key = f.key
      PROVE  e = f
  BY <1>2, <1>4 DEF CacheOK
<1>5. \A e \in entries' : e.value.at <= clock
  BY <1>2 DEF CacheOK
<1> QED
  BY <1>3, <1>4, <1>5 DEF CacheOK

LEMMA FailOK ==
    ASSUME TypeInv, NEW cs, Fail(cs), UNCHANGED <<store, clock>>
    PROVE  CallsOK'
<1>1. NoAsk \in {NoAsk} /\ NoKey \in Keys /\ NoResult \in Results /\ NoResult.at = 0
  BY BoundsAssumption DEF NoAsk, NoKey, NoResult, Keys, Results, Scopes
<1>2. clock \in Nat /\ 0 \in 0 .. MaxVersion
  BY BoundsAssumption DEF TypeInv, WorldOK
<1> QED
  BY <1>1, <1>2 DEF TypeInv, CallsOK, Fail, UnderWay

LEMMA ServeOK ==
    ASSUME WorldOK, CallsOK, NEW c \in Calls, NEW v \in Results, v.at <= clock, Serve(c, v)
    PROVE  /\ pc' = [pc EXCEPT ![c] = "done"]
           /\ result' = [result EXCEPT ![c] = v]
           /\ result' \in [Calls -> Results]
           /\ age' \in [Calls -> 0 .. MaxTime]
<1>1. clock - v.at \in 0 .. MaxTime
  BY BoundsAssumption DEF WorldOK, Results
<1> QED
  BY <1>1 DEF Serve, Goto, CallsOK

LEMMA PutOK ==
    ASSUME TypeInv, NEW c \in Calls, pc[c] = "set", Put(c), UNCHANGED <<store, clock>>
    PROVE  CacheOK' /\ lag' \in 0 .. MaxTime /\ crossed' \in BOOLEAN
<1>1. /\ asker[c].proc \in Procs /\ key[c] \in Keys
      /\ result[c] \in Results /\ result[c].at <= clock
  BY DEF TypeInv, CallsOK, UnderWay, Asks
<1>2. CacheOK'
  BY <1>1, StoredOK DEF TypeInv, Put
<1>3. lag \in 0 .. MaxTime /\ clock - result[c].at \in 0 .. MaxTime
  BY <1>1, BoundsAssumption DEF TypeInv, WorldOK, HistoryOK, Results
<1>4. Max({lag, clock - result[c].at}) \in {lag, clock - result[c].at}
  BY <1>3, MaxOfTwo
<1> QED
  BY <1>2, <1>3, <1>4 DEF Put, TypeInv, HistoryOK

LEMMA TypeStep == TypeInv /\ [Next]_vars => TypeInv'
<1> SUFFICES ASSUME TypeInv, [Next]_vars PROVE TypeInv'
  OBVIOUS
<1> USE DEF settings, world, local, history
<1>0. WorldOK /\ CacheOK /\ CallsOK /\ HistoryOK
  BY DEF TypeInv
<1>1. ASSUME NEW c \in Calls, Ask(c) PROVE TypeInv'
  <2>1. PICK p \in Procs, u \in PassedOn :
          LET a == [proc |-> p, user |-> u, loaded |-> loaded[p]]
              k == KeyOf(u)
          IN  /\ asker' = [asker EXCEPT ![c] = a]
              /\ key' = [key EXCEPT ![c] = k]
              /\ floor' = [floor EXCEPT ![c] = Floor(p, k)]
              /\ \/ store = "memory" /\ RunInMemory(c, a, k)
                 \/ store = "redis" /\ Goto(c, "get") /\ UNCHANGED <<entries, result, age, mixed>>
    BY <1>1 DEF Ask
  <2> DEFINE a == [proc |-> p, user |-> u, loaded |-> loaded[p]]
  <2> DEFINE k == KeyOf(u)
  <2>2. a \in Asks /\ k \in Keys /\ Floor(p, k) \in 0 .. MaxVersion
    BY <1>0, KeyOfOK, FloorServed, TypeInvIsTypeOK DEF WorldOK, Asks
  <2>3. /\ WorldOK' /\ UNCHANGED <<lag, crossed, clock, store>>
    BY <1>0, <1>1 DEF Ask, WorldOK
  <2>4. /\ asker' \in [Calls -> Asks \cup {NoAsk}] /\ asker' = [asker EXCEPT ![c] = a]
        /\ key' \in [Calls -> Keys]
        /\ floor' \in [Calls -> 0 .. MaxVersion]
    BY <1>0, <2>1, <2>2 DEF CallsOK
  <2>5. CASE store = "memory" /\ RunInMemory(c, a, k)
    <3> DEFINE Serves(v) == /\ Serve(c, v) /\ v.at <= clock
                            /\ \/ UNCHANGED <<entries, mixed>>
                               \/ entries' = Stored(p, k, v) /\ mixed' \in BOOLEAN
    <3>0. \E v \in Results : Serves(v)
      <4>1. ASSUME NEW e \in Found(p, k), Serve(c, e.value), UNCHANGED <<entries, mixed>>
            PROVE  e.value \in Results /\ Serves(e.value)
        BY <1>0, <4>1, FoundOK
      <4>2. ASSUME Serve(c, Computed(a)), entries' = Stored(p, k, Computed(a)), mixed' \in BOOLEAN
            PROVE  Computed(a) \in Results /\ Serves(Computed(a))
        <5>1. Computed(a) \in Results /\ Computed(a).at = clock /\ clock \in Nat
          BY <1>0, <2>2, ComputedOK DEF WorldOK
        <5> QED
          BY <4>2, <5>1
      <4>3. \/ \E e \in Found(p, k) : Serve(c, e.value) /\ UNCHANGED <<entries, mixed>>
            \/ /\ Serve(c, Computed(a)) /\ entries' = Stored(p, k, Computed(a))
               /\ mixed' \in BOOLEAN
        BY <1>0, <2>5 DEF RunInMemory, HistoryOK
      <4> QED
        BY <4>1, <4>2, <4>3
    <3>1. PICK v \in Results : Serves(v)
      BY <3>0
    <3>2. CacheOK' /\ HistoryOK'
      BY <1>0, <2>2, <2>3, <3>1, StoredOK DEF CacheOK, HistoryOK
    <3>3. /\ pc' = [pc EXCEPT ![c] = "done"]
          /\ result' = [result EXCEPT ![c] = v]
          /\ result' \in [Calls -> Results]
          /\ age' \in [Calls -> 0 .. MaxTime]
      BY <1>0, <3>1, ServeOK
    <3>4. CallsOK'
      BY <1>0, <2>2, <2>3, <2>4, <3>1, <3>3 DEF CallsOK, UnderWay
    <3> QED
      BY <2>3, <3>2, <3>4 DEF TypeInv
  <2>6. CASE store = "redis" /\ Goto(c, "get") /\ UNCHANGED <<entries, result, age, mixed>>
    <3>1. CacheOK' /\ HistoryOK'
      BY <1>0, <2>3, <2>6 DEF CacheOK, HistoryOK
    <3>2. CallsOK'
      BY <1>0, <2>2, <2>3, <2>4, <2>6 DEF CallsOK, UnderWay, Goto
    <3> QED
      BY <2>3, <3>1, <3>2 DEF TypeInv
  <2> QED
    BY <2>1, <2>5, <2>6
<1>2. ASSUME NEW c \in Calls, RaiseInMemory(c) PROVE TypeInv'
  <2>1. CallsOK'
    BY <1>2, FailOK DEF RaiseInMemory
  <2> QED
    BY <1>0, <1>2, <2>1 DEF RaiseInMemory, TypeInv, WorldOK, CacheOK, HistoryOK
<1>3. ASSUME NEW c \in Calls, Get(c) PROVE TypeInv'
  <2>1. WorldOK' /\ CacheOK' /\ HistoryOK' /\ UNCHANGED <<clock, store, asker, key, floor>>
    BY <1>0, <1>3 DEF Get, WorldOK, CacheOK, HistoryOK
  <2>2. asker[c] \in Asks /\ store # "memory"
    BY <1>0, <1>3 DEF Get, CallsOK, UnderWay
  <2>3. ASSUME NEW e \in Found(asker[c].proc, key[c]), Serve(c, e.value) PROVE CallsOK'
    <3>1. e.value \in Results /\ e.value.at <= clock
      BY <1>0, FoundOK
    <3> QED
      BY <1>0, <2>1, <2>2, <2>3, <3>1, ServeOK DEF CallsOK, UnderWay
  <2>4. ASSUME Goto(c, "compute"), UNCHANGED <<result, age>> PROVE CallsOK'
    BY <1>0, <2>1, <2>2, <2>4 DEF CallsOK, UnderWay, Goto
  <2> QED
    BY <1>3, <2>1, <2>3, <2>4 DEF Get, TypeInv
<1>4. ASSUME NEW c \in Calls, Compute(c) PROVE TypeInv'
  <2>1. WorldOK' /\ CacheOK' /\ HistoryOK' /\ UNCHANGED <<clock, store>>
    BY <1>0, <1>4 DEF Compute, WorldOK, CacheOK, HistoryOK
  <2>2. asker[c] \in Asks /\ store # "memory"
    BY <1>0, <1>4 DEF Compute, CallsOK, UnderWay
  <2>3. CASE result' = [result EXCEPT ![c] = Computed(asker[c])] /\ Goto(c, "set")
             /\ UNCHANGED <<asker, key, floor, age>>
    <3>1. Computed(asker[c]) \in Results /\ Computed(asker[c]).at = clock /\ clock \in Nat
      BY <1>0, <2>2, ComputedOK DEF WorldOK
    <3> QED
      BY <1>0, <2>1, <2>2, <2>3, <3>1 DEF CallsOK, UnderWay, Goto, TypeInv
  <2>4. CASE Fail({c})
    BY <2>1, <2>4, FailOK DEF TypeInv
  <2> QED
    BY <1>4, <2>3, <2>4 DEF Compute
<1>5. ASSUME NEW c \in Calls, Set(c) PROVE TypeInv'
  <2>1. CacheOK' /\ HistoryOK'
    BY <1>0, <1>5, PutOK DEF Set, HistoryOK
  <2> QED
    BY <1>0, <1>5, <2>1 DEF Set, Goto, TypeInv, WorldOK, CallsOK, UnderWay
<1>6. ASSUME NEW c \in Calls, RedisFails(c) PROVE TypeInv'
  <2>1. CacheOK' /\ HistoryOK'
    BY <1>0, <1>6, PutOK DEF RedisFails, CacheOK, HistoryOK
  <2>2. CallsOK'
    BY <1>6, FailOK DEF RedisFails
  <2> QED
    BY <1>0, <1>6, <2>1, <2>2 DEF RedisFails, TypeInv, WorldOK
<1>7. ASSUME NEW p \in Procs, Restart(p) PROVE TypeInv'
  <2>1. CallsOK'
    BY <1>7, FailOK DEF Restart
  <2> QED
    BY <1>0, <1>7, <2>1 DEF Restart, TypeInv, WorldOK, CacheOK, HistoryOK
<1>8. CASE ChangeData \/ ReplaceSchemaFile
  BY <1>0, <1>8, BoundsAssumption
  DEF ChangeData, ReplaceSchemaFile, TypeInv, WorldOK, CacheOK, CallsOK, HistoryOK, Versions
<1>9. CASE Tick
  <2>1. clock \in Nat /\ clock' = clock + 1 /\ clock' \in 0 .. MaxTime
    BY <1>0, <1>9, BoundsAssumption DEF Tick, WorldOK
  <2>2. WorldOK' /\ HistoryOK' /\ UNCHANGED <<pc, asker, key, result, age, floor, store>>
    BY <1>0, <1>9, <2>1 DEF Tick, WorldOK, HistoryOK
  <2>3. CacheOK'
    <3>1. \A e \in entries' : e \in entries /\ e.value.at \in Nat
      BY <1>0, <1>9 DEF Tick, CacheOK, Entry, Results
    <3> QED
      BY <1>0, <2>1, <3>1 DEF CacheOK
  <2>4. CallsOK'
    <3>1. \A c \in Calls : result[c].at \in Nat
      BY <1>0 DEF CallsOK, Results
    <3> QED
      BY <1>0, <2>1, <2>2, <3>1 DEF CallsOK
  <2> QED
    BY <2>2, <2>3, <2>4 DEF TypeInv
<1>10. CASE UNCHANGED vars
  BY <1>0, <1>10 DEF vars, TypeInv, WorldOK, CacheOK, CallsOK, HistoryOK
<1> QED
  BY <1>1, <1>2, <1>3, <1>4, <1>5, <1>6, <1>7, <1>8, <1>9, <1>10 DEF Next

LEMMA TypeInvHolds == Spec => []TypeInv
<1>1. Init => TypeInv
  <2> SUFFICES ASSUME Init PROVE TypeInv
    OBVIOUS
  <2>1. NoKey \in Keys /\ NoResult \in Results /\ NoResult.at = 0
    BY BoundsAssumption DEF NoKey, NoResult, Keys, Results, Scopes
  <2>2. 0 \in 0 .. MaxTime /\ 0 \in 0 .. MaxVersion /\ 1 \in Versions
    BY BoundsAssumption DEF Versions
  <2>3. WorldOK /\ HistoryOK
    BY <2>2 DEF Init, WorldOK, HistoryOK
  <2>4. CacheOK
    BY DEF Init, CacheOK
  <2>5. CallsOK
    BY <2>1, <2>2 DEF Init, CallsOK, UnderWay
  <2> QED
    BY <2>3, <2>4, <2>5 DEF TypeInv
<1> QED
  BY <1>1, TypeStep, PTL DEF Spec

\* Every reachable state of the cache and its callers has the shape TypeOK
\* gives; in particular a cache never holds two entries for a key.
THEOREM TypeCorrect == Spec => []TypeOK
BY TypeInvHolds, TypeInvIsTypeOK, PTL

-----------------------------------------------------------------------------
(***************************************************************************)
(* Users.  With scoped keys, what is stored under a key is of the user of  *)
(* the key, and the key of a call is its asker's.                          *)
(***************************************************************************)
ApartInv ==
    scoped =>
        /\ \A e \in entries : e.value.user = e.key.user
        /\ \A c \in Calls :
              /\ pc[c] \in UnderWay \cup {"done"} => key[c].user = asker[c].user
              /\ pc[c] \in {"set", "done"} => result[c].user = asker[c].user

\* What there is after a SET: what there was, without the old entry, and the new one.
LEMMA StoredIs ==
    ASSUME NEW p, NEW k, NEW v
    PROVE  \A e \in Stored(p, k, v) :
              \/ /\ e.place = Place(p) /\ e.key = k /\ e.value = v
                 /\ e.expires = clock + TTL
              \/ e \in entries /\ ~(e.place = Place(p) /\ e.key = k)
BY DEF Stored

LEMMA FailIs ==
    ASSUME CallsOK, NEW cs, Fail(cs)
    PROVE  \A c \in Calls :
              \/ c \in cs /\ pc'[c] = "failed"
              \/ /\ c \notin cs
                 /\ pc'[c] = pc[c] /\ asker'[c] = asker[c] /\ key'[c] = key[c]
                 /\ result'[c] = result[c] /\ floor'[c] = floor[c]
BY DEF Fail, CallsOK

LEMMA ApartStep == TypeInv /\ ApartInv /\ [Next]_vars => ApartInv'
<1> SUFFICES ASSUME TypeInv, ApartInv, [Next]_vars, scoped' PROVE ApartInv'
  BY DEF ApartInv
<1> USE DEF settings, world, local, history
<1>0. WorldOK /\ CacheOK /\ CallsOK
  BY DEF TypeInv
<1>f. ASSUME NEW cs, Fail(cs), entries' \subseteq entries, scoped PROVE ApartInv'
  BY <1>0, <1>f, FailIs DEF ApartInv, UnderWay
<1>1. ASSUME NEW c \in Calls, Ask(c) PROVE ApartInv'
  <2>1. PICK p \in Procs, u \in PassedOn :
          LET a == [proc |-> p, user |-> u, loaded |-> loaded[p]]
              k == KeyOf(u)
          IN  /\ asker' = [asker EXCEPT ![c] = a]
              /\ key' = [key EXCEPT ![c] = k]
              /\ \/ store = "memory" /\ RunInMemory(c, a, k)
                 \/ store = "redis" /\ Goto(c, "get") /\ UNCHANGED <<entries, result>>
    BY <1>1 DEF Ask
  <2> DEFINE a == [proc |-> p, user |-> u, loaded |-> loaded[p]]
  <2> DEFINE k == KeyOf(u)
  <2>2. scoped /\ k.user = u /\ a.user = u
    BY <1>1 DEF Ask, KeyOf
  <2>3. ASSUME NEW e \in Found(p, k), Serve(c, e.value), UNCHANGED entries PROVE ApartInv'
    <3>1. e.value.user = u
      BY <2>2 DEF ApartInv, Found
    <3> QED
      BY <1>0, <2>1, <2>2, <2>3, <3>1 DEF ApartInv, Serve, Goto, CallsOK, UnderWay
  <2>4. ASSUME Serve(c, Computed(a)), entries' = Stored(p, k, Computed(a)) PROVE ApartInv'
    <3>1. Computed(a).user = u
      BY <2>2 DEF Computed
    <3>2. \A e \in entries' : e.value.user = e.key.user
      BY <2>2, <2>4, <3>1, StoredIs DEF ApartInv
    <3> QED
      BY <1>0, <2>1, <2>2, <2>4, <3>1, <3>2 DEF ApartInv, Serve, Goto, CallsOK, UnderWay
  <2>5. ASSUME Goto(c, "get"), UNCHANGED <<entries, result>> PROVE ApartInv'
    BY <1>0, <2>1, <2>2, <2>5 DEF ApartInv, Goto, CallsOK, UnderWay
  <2> QED
    BY <2>1, <2>3, <2>4, <2>5 DEF RunInMemory
<1>2. ASSUME NEW c \in Calls, RaiseInMemory(c) PROVE ApartInv'
  BY <1>2, <1>f DEF RaiseInMemory
<1>3. ASSUME NEW c \in Calls, Get(c) PROVE ApartInv'
  <2>1. ASSUME NEW e \in Found(asker[c].proc, key[c]), Serve(c, e.value) PROVE ApartInv'
    <3>1. e.value.user = asker[c].user
      BY <1>3 DEF Get, ApartInv, Found, UnderWay
    <3> QED
      BY <1>0, <1>3, <2>1, <3>1 DEF Get, ApartInv, Serve, Goto, CallsOK, UnderWay
  <2> QED
    BY <1>0, <1>3, <2>1 DEF Get, ApartInv, Goto, CallsOK, UnderWay
<1>4. ASSUME NEW c \in Calls, Compute(c) PROVE ApartInv'
  <2>1. CASE Fail({c})
    BY <1>4, <2>1, <1>f DEF Compute
  <2>2. CASE /\ result' = [result EXCEPT ![c] = Computed(asker[c])] /\ Goto(c, "set")
             /\ UNCHANGED <<asker, key>>
    BY <1>0, <1>4, <2>2 DEF Compute, Computed, ApartInv, Goto, CallsOK, UnderWay
  <2> QED
    BY <1>4, <2>1, <2>2 DEF Compute
<1>p. ASSUME NEW c \in Calls, pc[c] = "set", scoped, Put(c)
      PROVE  \A e \in entries' : e.value.user = e.key.user
  BY <1>p, StoredIs DEF Put, ApartInv, UnderWay
<1>5. ASSUME NEW c \in Calls, Set(c) PROVE ApartInv'
  BY <1>0, <1>5, <1>p DEF Set, ApartInv, Goto, CallsOK, UnderWay
<1>6. ASSUME NEW c \in Calls, RedisFails(c) PROVE ApartInv'
  BY <1>0, <1>6, <1>p, FailIs DEF RedisFails, ApartInv, UnderWay
<1>7. ASSUME NEW p \in Procs, Restart(p) PROVE ApartInv'
  BY <1>7, <1>f DEF Restart
<1>8. CASE ChangeData \/ ReplaceSchemaFile \/ Tick \/ UNCHANGED vars
  BY <1>8 DEF ChangeData, ReplaceSchemaFile, Tick, vars, ApartInv
<1> QED
  BY <1>1, <1>2, <1>3, <1>4, <1>5, <1>6, <1>7, <1>8 DEF Next

\* With user scope, who passes on a user is served rows computed for that user
\* and no other, whichever process and whichever cache they come from; who
\* passes nobody on, as the agent's tool does, is served the rows of callers
\* who pass nobody on either, whoever they are.
THEOREM UsersStayApart == Spec => []UsersApart
<1>1. Init => ApartInv
  BY DEF Init, ApartInv, UnderWay
<1>2. ApartInv => UsersApart
  BY DEF ApartInv, UsersApart, Done
<1> QED
  BY <1>1, <1>2, ApartStep, TypeInvHolds, PTL DEF Spec

-----------------------------------------------------------------------------
(***************************************************************************)
(* Age.  An entry is dropped when it is due, and it is due a time to live  *)
(* after its SET, which came at most the longest lag after the result was  *)
(* computed.                                                               *)
(***************************************************************************)
AgeInv ==
    /\ \A e \in entries : clock < e.expires /\ e.expires <= e.value.at + lag + TTL
    /\ \A c \in Calls : age[c] < TTL + lag

LEMMA AgeStep == TypeInv /\ AgeInv /\ [Next]_vars => AgeInv'
<1> SUFFICES ASSUME TypeInv, AgeInv, [Next]_vars PROVE AgeInv'
  OBVIOUS
<1> USE DEF settings, world, local, history
<1>0. /\ WorldOK /\ CacheOK /\ CallsOK
      /\ TTL \in Nat /\ TTL > 0 /\ clock \in Nat /\ lag \in Nat
      /\ \A e \in entries : e.value.at \in Nat /\ e.expires \in Nat
      /\ \A c \in Calls : age[c] \in Nat /\ result[c].at \in Nat
  BY TTLAssumption DEF TypeInv, WorldOK, CacheOK, CallsOK, HistoryOK, Entry, Results
<1>s. ASSUME NEW c \in Calls, NEW p, NEW k, NEW e \in Found(p, k), Serve(c, e.value), UNCHANGED <<entries, clock, lag>>
      PROVE  AgeInv'
  <2>1. e \in entries
    BY DEF Found
  <2>2. age' = [age EXCEPT ![c] = clock - e.value.at]
    BY <1>s DEF Serve
  <2>3. clock - e.value.at < TTL + lag
    BY <1>0, <2>1 DEF AgeInv
  <2> QED
    BY <1>0, <1>s, <2>2, <2>3 DEF AgeInv, CallsOK
<1>1. ASSUME NEW c \in Calls, Ask(c) PROVE AgeInv'
  <2>1. UNCHANGED <<clock, lag>>
    BY <1>1 DEF Ask
  <2>2. ASSUME NEW a, NEW p, NEW k, Serve(c, Computed(a)), entries' = Stored(p, k, Computed(a))
        PROVE  AgeInv'
    <3>1. Computed(a).at = clock /\ clock - clock = 0
      BY <1>0 DEF Computed
    <3>2. age' = [age EXCEPT ![c] = 0]
      BY <2>2, <3>1 DEF Serve
    <3>3. ASSUME NEW e \in entries' PROVE clock < e.expires /\ e.expires <= e.value.at + lag + TTL
      BY <1>0, <2>2, <3>1, StoredIs DEF AgeInv
    <3> QED
      BY <1>0, <2>1, <3>2, <3>3 DEF AgeInv, CallsOK
  <2>3. ASSUME UNCHANGED <<entries, age>> PROVE AgeInv'
    BY <2>1, <2>3 DEF AgeInv
  <2> QED
    BY <1>1, <1>s, <2>1, <2>2, <2>3 DEF Ask, RunInMemory
<1>2. ASSUME entries' \subseteq entries, UNCHANGED <<clock, lag, age>> PROVE AgeInv'
  BY <1>2 DEF AgeInv
<1>3. ASSUME NEW c \in Calls, Get(c) PROVE AgeInv'
  BY <1>2, <1>3, <1>s DEF Get
<1>p. ASSUME NEW c \in Calls, Put(c), UNCHANGED <<clock, age>> PROVE AgeInv'
  <2> DEFINE late == clock - result[c].at
  <2>1. late \in Nat /\ late <= lag' /\ lag <= lag' /\ lag' \in Nat
    <3>1. late \in Nat
      BY <1>0 DEF CallsOK
    <3> QED
      BY <1>0, <1>p, <3>1, MaxOfTwo DEF Put
  <2>2. ASSUME NEW e \in entries' PROVE clock < e.expires /\ e.expires <= e.value.at + lag' + TTL
    BY <1>0, <1>p, <2>1, StoredIs DEF Put, AgeInv
  <2>3. ASSUME NEW d \in Calls PROVE age[d] < TTL + lag'
    BY <1>0, <2>1 DEF AgeInv
  <2> QED
    BY <1>p, <2>2, <2>3 DEF AgeInv
<1>4. ASSUME NEW c \in Calls, Compute(c) PROVE AgeInv'
  BY <1>2, <1>4 DEF Compute, Fail
<1>5. ASSUME NEW c \in Calls, Set(c) PROVE AgeInv'
  BY <1>5, <1>p DEF Set
<1>6. ASSUME NEW c \in Calls, RedisFails(c) PROVE AgeInv'
  BY <1>2, <1>6, <1>p DEF RedisFails, Fail
<1>7. CASE Tick
  BY <1>0, <1>7 DEF Tick, AgeInv
<1>8. CASE (\E p \in Procs : Restart(p)) \/ (\E c \in Calls : RaiseInMemory(c))
           \/ ChangeData \/ ReplaceSchemaFile \/ UNCHANGED vars
  BY <1>2, <1>8 DEF Restart, RaiseInMemory, Fail, ChangeData, ReplaceSchemaFile, vars
<1> QED
  BY <1>1, <1>3, <1>4, <1>5, <1>6, <1>7, <1>8 DEF Next

\* No result is older, when it is served, than the time to live and the
\* longest time a result took to reach the cache.
THEOREM AgeStaysBounded == Spec => []AgeBounded
<1>1. Init => AgeInv
  BY TTLAssumption DEF Init, AgeInv
<1>2. AgeInv => AgeBounded
  BY DEF AgeInv, AgeBounded
<1> QED
  BY <1>1, <1>2, AgeStep, TypeInvHolds, PTL DEF Spec

-----------------------------------------------------------------------------
(***************************************************************************)
(* Contexts.  As long as no context was built by a process that lags       *)
(* behind the file, what is stored under a modification time is of that    *)
(* time; the memory of a process holds contexts of what it has loaded.     *)
(***************************************************************************)
ContextInv ==
    kind = "schema" =>
        /\ \A p \in Procs : loaded[p] <= file
        /\ \A c \in Calls : pc[c] \in UnderWay \cup {"done"} => asker[c].loaded <= key[c].mtime
        /\ ~mixed =>
              /\ \A e \in entries : e.value.version = e.key.mtime
              /\ \A c \in Calls : pc[c] \in {"set", "done"} => result[c].version = key[c].mtime
        /\ store = "memory" =>
              /\ \A e \in entries : e.place \in Procs /\ e.value.version = loaded[e.place]
              /\ \A c \in Calls : pc[c] = "done" => result[c].version = asker[c].loaded

LEMMA ContextStep == TypeInv /\ ContextInv /\ [Next]_vars => ContextInv'
<1> SUFFICES ASSUME TypeInv, ContextInv, [Next]_vars, kind' = "schema" PROVE ContextInv'
  BY DEF ContextInv
<1> USE DEF settings, world, local, history
<1>0. /\ WorldOK /\ CacheOK /\ CallsOK
      /\ \A p \in Procs : loaded[p] \in Nat
      /\ file \in Nat
  BY DEF TypeInv, WorldOK, Versions
<1>k. kind = "schema" /\ store' = store
  BY DEF Next, vars, Ask, RaiseInMemory, Get, Compute, Set, RedisFails, Restart, ChangeData,
     ReplaceSchemaFile, Tick
<1>f. ASSUME NEW cs, Fail(cs), entries' \subseteq entries, UNCHANGED <<file, loaded, mixed>>
      PROVE  ContextInv'
  BY <1>0, <1>k, <1>f, FailIs DEF ContextInv, UnderWay
<1>1. ASSUME NEW c \in Calls, Ask(c) PROVE ContextInv'
  <2>1. PICK p \in Procs, u \in PassedOn :
          LET a == [proc |-> p, user |-> u, loaded |-> loaded[p]]
              k == KeyOf(u)
          IN  /\ asker' = [asker EXCEPT ![c] = a]
              /\ key' = [key EXCEPT ![c] = k]
              /\ \/ store = "memory" /\ RunInMemory(c, a, k)
                 \/ store = "redis" /\ Goto(c, "get") /\ UNCHANGED <<entries, result, mixed>>
    BY <1>1 DEF Ask
  <2> DEFINE a == [proc |-> p, user |-> u, loaded |-> loaded[p]]
  <2> DEFINE k == KeyOf(u)
  <2>2. k.mtime = file /\ a.loaded = loaded[p] /\ a.proc = p /\ loaded[p] <= file
    BY <1>k DEF KeyOf, ContextInv
  <2>3. UNCHANGED <<loaded, file>>
    BY <1>1 DEF Ask
  <2>4. ASSUME NEW e \in Found(p, k), Serve(c, e.value), UNCHANGED <<entries, mixed>>, store = "memory"
        PROVE  ContextInv'
    <3>1. e \in entries /\ e.key = k /\ e.place = p
      BY <2>4 DEF Found, Place
    <3>2. /\ e.value.version = loaded[p]
          /\ ~mixed => e.value.version = file
      BY <1>k, <2>2, <2>4, <3>1 DEF ContextInv
    <3> QED
      BY <1>0, <1>k, <2>1, <2>2, <2>3, <2>4, <3>2 DEF ContextInv, Serve, Goto, CallsOK, UnderWay
  <2>5. ASSUME Serve(c, Computed(a)), entries' = Stored(p, k, Computed(a)),
               mixed' = (mixed \/ (kind = "schema" /\ loaded[p] # file)), store = "memory"
        PROVE  ContextInv'
    <3>1. Computed(a).version = loaded[p]
      BY <1>k DEF Computed
    <3>2. Place(p) = p
      BY <2>5 DEF Place
    <3>3. \A e \in entries' : e.place \in Procs /\ e.value.version = loaded[e.place]
      BY <1>k, <2>5, <3>1, <3>2, StoredIs DEF ContextInv
    <3>4. ~mixed' => ~mixed /\ loaded[p] = file
      BY <1>0, <1>k, <2>5
    <3>5. ~mixed' => \A e \in entries' : e.value.version = e.key.mtime
      BY <1>k, <2>2, <2>5, <3>1, <3>4, StoredIs DEF ContextInv
    <3> QED
      BY <1>0, <1>k, <2>1, <2>2, <2>3, <2>5, <3>1, <3>3, <3>4, <3>5
      DEF ContextInv, Serve, Goto, CallsOK, UnderWay
  <2>6. ASSUME Goto(c, "get"), UNCHANGED <<entries, result, mixed>>, store = "redis" PROVE ContextInv'
    BY <1>0, <1>k, <2>1, <2>2, <2>3, <2>6 DEF ContextInv, Goto, CallsOK, UnderWay
  <2> QED
    BY <2>1, <2>4, <2>5, <2>6 DEF RunInMemory
<1>2. ASSUME NEW c \in Calls, RaiseInMemory(c) PROVE ContextInv'
  BY <1>2, <1>f DEF RaiseInMemory
<1>3. ASSUME NEW c \in Calls, Get(c) PROVE ContextInv'
  <2>0. store # "memory"
    BY <1>0, <1>3 DEF Get, CallsOK, UnderWay
  <2>1. ASSUME NEW e \in Found(asker[c].proc, key[c]), Serve(c, e.value) PROVE ContextInv'
    <3>1. ~mixed => e.value.version = key[c].mtime
      BY <1>k DEF ContextInv, Found
    <3> QED
      BY <1>0, <1>k, <1>3, <2>0, <2>1, <3>1 DEF Get, ContextInv, Serve, Goto, CallsOK, UnderWay
  <2> QED
    BY <1>0, <1>k, <1>3, <2>0, <2>1 DEF Get, ContextInv, Goto, CallsOK, UnderWay
<1>4. ASSUME NEW c \in Calls, Compute(c) PROVE ContextInv'
  <2>0. store # "memory"
    BY <1>0, <1>4 DEF Compute, CallsOK, UnderWay
  <2>1. CASE Fail({c}) /\ UNCHANGED mixed
    BY <1>4, <2>1, <1>f DEF Compute
  <2>2. CASE /\ result' = [result EXCEPT ![c] = Computed(asker[c])] /\ Goto(c, "set")
             /\ mixed' = (mixed \/ (kind = "schema" /\ loaded[asker[c].proc] # key[c].mtime))
             /\ UNCHANGED <<asker, key>>
    <3>1. Computed(asker[c]).version = loaded[asker[c].proc]
      BY <1>k DEF Computed
    <3>2. ~mixed' => ~mixed /\ loaded[asker[c].proc] = key[c].mtime
      BY <1>k, <2>2
    <3> QED
      BY <1>0, <1>k, <1>4, <2>0, <2>2, <3>1, <3>2 DEF Compute, ContextInv, Goto, CallsOK, UnderWay
  <2> QED
    BY <1>4, <2>1, <2>2 DEF Compute
<1>p. ASSUME NEW c \in Calls, pc[c] = "set", Put(c), UNCHANGED <<file, loaded, mixed>>
      PROVE  /\ store # "memory"
             /\ ~mixed' => \A e \in entries' : e.value.version = e.key.mtime
  BY <1>0, <1>k, <1>p, StoredIs DEF Put, ContextInv, CallsOK, UnderWay
<1>5. ASSUME NEW c \in Calls, Set(c) PROVE ContextInv'
  BY <1>0, <1>k, <1>5, <1>p DEF Set, ContextInv, Goto, CallsOK, UnderWay
<1>6. ASSUME NEW c \in Calls, RedisFails(c) PROVE ContextInv'
  <2>1. CASE UNCHANGED entries
    BY <1>6, <2>1, <1>f DEF RedisFails
  <2>2. CASE pc[c] = "set" /\ Put(c)
    BY <1>0, <1>k, <1>6, <1>p, <2>2, FailIs DEF RedisFails, ContextInv, UnderWay
  <2> QED
    BY <1>6, <2>1, <2>2 DEF RedisFails
<1>7. ASSUME NEW p \in Procs, Restart(p) PROVE ContextInv'
  <2>1. \A d \in Calls :
           \/ pc'[d] = "failed"
           \/ /\ pc'[d] = pc[d] /\ asker'[d] = asker[d] /\ key'[d] = key[d]
              /\ result'[d] = result[d]
    BY <1>0, <1>7, FailIs DEF Restart
  <2>2. /\ \A q \in Procs : loaded'[q] <= file
        /\ \A e \in entries' : e \in entries /\ e.place # p
        /\ \A q \in Procs : q # p => loaded'[q] = loaded[q]
        /\ UNCHANGED <<file, mixed>>
    BY <1>0, <1>k, <1>7 DEF Restart, ContextInv, WorldOK
  <2> QED
    BY <1>k, <2>1, <2>2 DEF ContextInv, UnderWay
<1>8. CASE ChangeData \/ Tick \/ UNCHANGED vars
  BY <1>k, <1>8 DEF ChangeData, Tick, vars, ContextInv
<1>9. CASE ReplaceSchemaFile
  BY <1>0, <1>k, <1>9 DEF ReplaceSchemaFile, ContextInv
<1> QED
  BY <1>1, <1>2, <1>3, <1>4, <1>5, <1>6, <1>7, <1>8, <1>9 DEF Next

\* A process serves contexts of the schema it has loaded or of a newer one,
\* until one that lags behind the file has put a context into Redis.
THEOREM ContextStaysCurrent == Spec => []ContextIsCurrent
<1>1. Init => ContextInv
  <2> SUFFICES ASSUME Init PROVE ContextInv
    OBVIOUS
  <2>1. entries = {} /\ file = 1 /\ \A p \in Procs : loaded[p] <= 1
    BY DEF Init
  <2>2. \A c \in Calls : pc[c] = "idle"
    BY DEF Init
  <2> QED
    BY <2>1, <2>2 DEF ContextInv, UnderWay
<1>2. TypeInv /\ ContextInv => ContextIsCurrent
  <2> SUFFICES ASSUME TypeInv, ContextInv, NEW c \in Calls, Done(c, "schema")
               PROVE  /\ store = "memory" => result[c].version = asker[c].loaded
                      /\ ~mixed => result[c].version >= asker[c].loaded
    BY DEF ContextIsCurrent
  <2>1. asker[c].loaded <= key[c].mtime
    BY DEF ContextInv, Done
  <2>2. asker[c].loaded \in Int /\ key[c].mtime \in Int
    BY DEF TypeInv, CallsOK, Done, Asks, Versions, Keys
  <2> QED
    BY <2>1, <2>2 DEF ContextInv, Done
<1> QED
  BY <1>1, <1>2, ContextStep, TypeInvHolds, PTL DEF Spec

-----------------------------------------------------------------------------
(***************************************************************************)
(* Time.  As long as no two misses of one key overlapped, what is stored   *)
(* under a key, or is on its way there, is at least as new as all that was *)
(* served under it; so a later call, whose floor is among the latter, gets *)
(* nothing older.  A miss under way then has the key to itself.            *)
(***************************************************************************)
\* Calls that have a cache and a key.
Active == {c \in Calls : pc[c] \in UnderWay \cup {"done"}}

SameCache(c, d) == key[c] = key[d] /\ Place(asker[c].proc) = Place(asker[d].proc)

OfCall(e, c) == e.key = key[c] /\ e.place = Place(asker[c].proc)

\* Nothing is newer than the data.
DataInv ==
    kind = "query" =>
        /\ \A e \in entries : e.value.version <= data
        /\ \A c \in Calls : result[c].version <= data /\ floor[c] <= data

\* A call that has been, or is going to be, served under the key of an entry.
EntryInv ==
    \A c \in Active, e \in entries : OfCall(e, c) =>
        /\ pc[c] = "done" => result[c].version <= e.value.version
        /\ pc[c] = "get" => floor[c] <= e.value.version
        /\ pc[c] \notin {"compute", "set"}

\* The same for a result on its way into the cache.
PendingInv ==
    \A c, d \in Active : SameCache(c, d) /\ pc[d] = "set" =>
        /\ pc[c] = "done" => result[c].version <= result[d].version
        /\ pc[c] = "get" => floor[c] <= result[d].version

FloorInv == \A c \in Calls : pc[c] \in {"set", "done"} => floor[c] <= result[c].version

ForwardInv == kind = "query" /\ ~crossed => EntryInv /\ PendingInv /\ FloorInv

LEMMA DataStep == TypeInv /\ DataInv /\ [Next]_vars => DataInv'
<1> SUFFICES ASSUME TypeInv, DataInv, [Next]_vars, kind' = "query" PROVE DataInv'
  BY DEF DataInv
<1> USE DEF settings, world, local, history
<1>0. /\ WorldOK /\ CacheOK /\ CallsOK
      /\ data \in Nat
  BY DEF TypeInv, WorldOK, Versions
<1>k. kind = "query" /\ store' = store
  BY DEF Next, vars, Ask, RaiseInMemory, Get, Compute, Set, RedisFails, Restart, ChangeData,
     ReplaceSchemaFile, Tick
<1>c. \A a : Computed(a).version = data
  BY <1>k DEF Computed
<1>f. ASSUME NEW cs, Fail(cs), entries' \subseteq entries, UNCHANGED data PROVE DataInv'
  BY <1>0, <1>k, <1>f DEF Fail, DataInv, NoResult
<1>1. ASSUME NEW c \in Calls, Ask(c) PROVE DataInv'
  <2>1. PICK p \in Procs, u \in PassedOn : floor' = [floor EXCEPT ![c] = Floor(p, KeyOf(u))]
    BY <1>1 DEF Ask
  <2>2. Floor(p, KeyOf(u)) <= data
    BY <1>0, <1>k, FloorServed, TypeInvIsTypeOK DEF DataInv
  <2>3. UNCHANGED data
    BY <1>1 DEF Ask
  <2>4. \A d \in Calls : floor'[d] <= data
    BY <1>0, <1>k, <2>1, <2>2 DEF DataInv, CallsOK
  <2>5. ASSUME NEW q, NEW k, NEW e \in Found(q, k), Serve(c, e.value), UNCHANGED entries PROVE DataInv'
    BY <1>0, <1>k, <2>3, <2>4, <2>5 DEF Found, Serve, DataInv, CallsOK
  <2>6. ASSUME NEW q, NEW k, NEW a, Serve(c, Computed(a)), entries' = Stored(q, k, Computed(a))
        PROVE  DataInv'
    BY <1>0, <1>k, <1>c, <2>3, <2>4, <2>6, StoredIs DEF Serve, DataInv, CallsOK
  <2>7. ASSUME UNCHANGED <<entries, result>> PROVE DataInv'
    BY <1>k, <2>3, <2>4, <2>7 DEF DataInv
  <2> QED
    BY <1>1, <2>5, <2>6, <2>7 DEF Ask, RunInMemory
<1>2. ASSUME NEW c \in Calls, Get(c) PROVE DataInv'
  <2>1. ASSUME NEW e \in Found(asker[c].proc, key[c]), Serve(c, e.value) PROVE DataInv'
    BY <1>0, <1>k, <1>2, <2>1 DEF Get, Found, Serve, DataInv, CallsOK
  <2>2. ASSUME UNCHANGED result PROVE DataInv'
    BY <1>k, <1>2, <2>2 DEF Get, DataInv
  <2> QED
    BY <1>2, <2>1, <2>2 DEF Get
<1>3. ASSUME NEW c \in Calls, Compute(c) PROVE DataInv'
  <2>1. CASE result' = [result EXCEPT ![c] = Computed(asker[c])] /\ UNCHANGED floor
    BY <1>0, <1>k, <1>c, <1>3, <2>1 DEF Compute, DataInv, CallsOK
  <2> QED
    BY <1>3, <1>f, <2>1 DEF Compute
<1>p. ASSUME NEW c \in Calls, Put(c) PROVE \A e \in entries' : e.value.version <= data
  BY <1>k, <1>p, StoredIs DEF Put, DataInv
<1>4. ASSUME NEW c \in Calls, Set(c) PROVE DataInv'
  BY <1>k, <1>4, <1>p DEF Set, DataInv
<1>5. ASSUME NEW c \in Calls, RedisFails(c) PROVE DataInv'
  <2>1. CASE UNCHANGED entries
    BY <1>5, <1>f, <2>1 DEF RedisFails
  <2>2. CASE Put(c)
    BY <1>0, <1>k, <1>5, <1>p, <2>2 DEF RedisFails, Fail, DataInv, NoResult
  <2> QED
    BY <1>5, <2>1, <2>2 DEF RedisFails
<1>6. CASE (\E p \in Procs : Restart(p)) \/ (\E c \in Calls : RaiseInMemory(c))
  BY <1>6, <1>f DEF Restart, RaiseInMemory
<1>7. CASE ChangeData
  <2>1. /\ \A e \in entries : e.value.version \in Nat
        /\ \A c \in Calls : result[c].version \in Nat /\ floor[c] \in Nat
    BY <1>0 DEF CacheOK, CallsOK, Entry, Results
  <2> QED
    BY <1>0, <1>k, <1>7, <2>1 DEF ChangeData, DataInv
<1>8. CASE ReplaceSchemaFile \/ Tick \/ UNCHANGED vars
  BY <1>k, <1>8 DEF ReplaceSchemaFile, Tick, vars, DataInv
<1> QED
  BY <1>1, <1>2, <1>3, <1>4, <1>5, <1>6, <1>7, <1>8 DEF Next

LEMMA ForwardStep == TypeInv /\ DataInv /\ ForwardInv /\ [Next]_vars => ForwardInv'
<1> SUFFICES ASSUME TypeInv, DataInv, ForwardInv, [Next]_vars, kind' = "query", ~crossed'
             PROVE  EntryInv' /\ PendingInv' /\ FloorInv'
  BY DEF ForwardInv
<1> USE DEF settings, world, local, history
<1>k. kind = "query" /\ store' = store
  BY DEF Next, vars, Ask, RaiseInMemory, Get, Compute, Set, RedisFails, Restart, ChangeData,
     ReplaceSchemaFile, Tick
<1>x. ~crossed
  BY DEF Next, vars, Ask, RaiseInMemory, Get, Compute, Set, RedisFails, Restart, ChangeData,
     ReplaceSchemaFile, Tick, Put
<1>0. /\ WorldOK /\ CacheOK /\ CallsOK
      /\ EntryInv /\ PendingInv /\ FloorInv
      /\ data \in Nat
      /\ \A e \in entries : e.value.version \in Nat /\ e.value.version <= data
      /\ \A c \in Calls : /\ result[c].version \in Nat /\ floor[c] \in Nat
                          /\ result[c].version <= data /\ floor[c] <= data
  BY <1>k, <1>x DEF TypeInv, WorldOK, CacheOK, CallsOK, Versions, Entry, Results, DataInv, ForwardInv
<1>c. \A a : Computed(a).version = data
  BY <1>k DEF Computed
<1>f. ASSUME NEW cs, Fail(cs), entries' \subseteq entries PROVE EntryInv' /\ PendingInv' /\ FloorInv'
  <2>1. \A c \in Calls :
           \/ pc'[c] = "failed"
           \/ /\ pc'[c] = pc[c] /\ asker'[c] = asker[c] /\ key'[c] = key[c]
              /\ result'[c] = result[c] /\ floor'[c] = floor[c]
    BY <1>0, <1>f, FailIs
  <2>2. EntryInv'
    BY <1>0, <1>k, <1>f, <2>1 DEF EntryInv, OfCall, Place, Active, UnderWay
  <2>3. PendingInv'
    BY <1>0, <1>k, <2>1 DEF PendingInv, SameCache, Place, Active, UnderWay
  <2>4. FloorInv'
    BY <1>0, <2>1 DEF FloorInv
  <2> QED
    BY <2>2, <2>3, <2>4
<1>1. ASSUME NEW c \in Calls, Ask(c) PROVE EntryInv' /\ PendingInv' /\ FloorInv'
  <2>1. PICK p \in Procs, u \in PassedOn :
          LET a == [proc |-> p, user |-> u, loaded |-> loaded[p]]
              k == KeyOf(u)
          IN  /\ asker' = [asker EXCEPT ![c] = a]
              /\ key' = [key EXCEPT ![c] = k]
              /\ floor' = [floor EXCEPT ![c] = Floor(p, k)]
              /\ \/ store = "memory" /\ RunInMemory(c, a, k)
                 \/ store = "redis" /\ Goto(c, "get") /\ UNCHANGED <<entries, result>>
    BY <1>1 DEF Ask
  <2> DEFINE a == [proc |-> p, user |-> u, loaded |-> loaded[p]]
  <2> DEFINE k == KeyOf(u)
  <2>2. /\ Floor(p, k) \in Nat
        /\ \/ Floor(p, k) = 0
           \/ \E d \in Active : /\ pc[d] = "done" /\ key[d] = k
                                /\ Place(asker[d].proc) = Place(p)
                                /\ Floor(p, k) = result[d].version
    BY <1>0, FloorServed, TypeInvIsTypeOK DEF Active
  <2>3. /\ pc[c] = "idle" /\ a.proc = p
        /\ asker'[c] = a /\ key'[c] = k /\ floor'[c] = Floor(p, k)
        /\ \A d \in Calls \ {c} : asker'[d] = asker[d] /\ key'[d] = key[d] /\ floor'[d] = floor[d]
    BY <1>0, <1>1, <2>1 DEF Ask, CallsOK
  <2>4. \A e \in entries : e.key = k /\ e.place = Place(p) => Floor(p, k) <= e.value.version
    BY <1>0, <2>2 DEF EntryInv, OfCall
  <2>s. ASSUME NEW v, Serve(c, v)
        PROVE  /\ pc'[c] = "done" /\ result'[c] = v
               /\ \A d \in Calls \ {c} : pc'[d] = pc[d] /\ result'[d] = result[d]
    BY <1>0, <2>s DEF Serve, Goto, CallsOK
  <2>5. ASSUME NEW e \in Found(p, k), Serve(c, e.value), UNCHANGED entries, store = "memory"
        PROVE  EntryInv' /\ PendingInv' /\ FloorInv'
    <3>1. e \in entries /\ e.key = k /\ e.place = Place(p)
      BY DEF Found
    <3>2. \A f \in entries : f.key = k /\ f.place = Place(p) => f = e
      BY <1>0, <3>1 DEF CacheOK
    <3>3. EntryInv'
      BY <1>0, <1>k, <2>3, <2>5, <2>s, <3>1, <3>2 DEF EntryInv, OfCall, Place, Active, UnderWay
    <3>4. PendingInv'
      BY <1>0, <1>k, <2>5, <2>s DEF PendingInv, CallsOK, Active, UnderWay
    <3>5. FloorInv'
      BY <1>0, <2>3, <2>4, <2>5, <2>s, <3>1 DEF FloorInv
    <3> QED
      BY <3>3, <3>4, <3>5
  <2>6. ASSUME Serve(c, Computed(a)), entries' = Stored(p, k, Computed(a)), store = "memory"
        PROVE  EntryInv' /\ PendingInv' /\ FloorInv'
    <3>1. \A e \in entries' :
             \/ e.place = Place(p) /\ e.key = k /\ e.value.version = data
             \/ e \in entries /\ ~(e.place = Place(p) /\ e.key = k)
      BY <1>c, <2>6, StoredIs
    <3>2. /\ pc'[c] = "done" /\ result'[c].version = data
          /\ \A d \in Calls \ {c} : pc'[d] = pc[d] /\ result'[d] = result[d]
      BY <1>c, <2>6, <2>s
    <3>3. \A d \in Calls : pc'[d] \notin UnderWay
      BY <1>0, <2>6, <3>2 DEF CallsOK, UnderWay
    <3>4. EntryInv'
      BY <1>0, <1>k, <2>3, <3>1, <3>2, <3>3 DEF EntryInv, OfCall, Place, Active, UnderWay
    <3>5. PendingInv'
      BY <3>3 DEF PendingInv, Active, UnderWay
    <3>6. FloorInv'
      BY <1>0, <2>2, <2>3, <3>2 DEF FloorInv, Active
    <3> QED
      BY <3>4, <3>5, <3>6
  <2>7. ASSUME Goto(c, "get"), UNCHANGED <<entries, result>>
        PROVE  EntryInv' /\ PendingInv' /\ FloorInv'
    <3>1. /\ pc'[c] = "get" /\ \A d \in Calls \ {c} : pc'[d] = pc[d]
      BY <1>0, <2>7 DEF Goto, CallsOK
    <3>2. \A d \in Active : pc[d] = "set" /\ key[d] = k /\ Place(asker[d].proc) = Place(p)
                                => Floor(p, k) <= result[d].version
      BY <1>0, <2>2 DEF PendingInv, SameCache, Active
    <3>3. EntryInv'
      BY <1>0, <1>k, <2>3, <2>4, <2>7, <3>1 DEF EntryInv, OfCall, Place, Active, UnderWay
    <3>4. PendingInv'
      BY <1>0, <1>k, <2>3, <2>7, <3>1, <3>2 DEF PendingInv, SameCache, Place, Active, UnderWay
    <3>5. FloorInv'
      BY <1>0, <2>3, <2>7, <3>1 DEF FloorInv
    <3> QED
      BY <3>3, <3>4, <3>5
  <2> QED
    BY <2>1, <2>5, <2>6, <2>7 DEF RunInMemory
<1>2. ASSUME NEW c \in Calls, Get(c) PROVE EntryInv' /\ PendingInv' /\ FloorInv'
  <2>0. pc[c] = "get" /\ c \in Active /\ UNCHANGED <<entries, asker, key, floor>>
    BY <1>2 DEF Get, Active, UnderWay
  <2>1. ASSUME NEW e \in Found(asker[c].proc, key[c]), Serve(c, e.value)
        PROVE  EntryInv' /\ PendingInv' /\ FloorInv'
    <3>1. e \in entries /\ OfCall(e, c) /\ floor[c] <= e.value.version
      BY <1>0, <2>0 DEF Found, OfCall, EntryInv
    <3>2. \A f \in entries : OfCall(f, c) => f = e
      BY <1>0, <3>1 DEF CacheOK, OfCall
    <3>3. /\ pc'[c] = "done" /\ result'[c] = e.value
          /\ \A d \in Calls \ {c} : pc'[d] = pc[d] /\ result'[d] = result[d]
      BY <1>0, <2>1 DEF Serve, Goto, CallsOK
    <3>4. \A d \in Active : pc[d] = "set" => ~SameCache(c, d)
      BY <1>0, <3>1 DEF EntryInv, OfCall, SameCache
    <3>5. EntryInv'
      BY <1>0, <1>k, <2>0, <3>2, <3>3 DEF EntryInv, OfCall, Place, Active, UnderWay
    <3>6. PendingInv'
      BY <1>0, <1>k, <2>0, <3>3, <3>4 DEF PendingInv, SameCache, Place, Active, UnderWay
    <3>7. FloorInv'
      BY <1>0, <2>0, <3>1, <3>3 DEF FloorInv
    <3> QED
      BY <3>5, <3>6, <3>7
  <2>2. ASSUME Found(asker[c].proc, key[c]) = {}, Goto(c, "compute"), UNCHANGED result
        PROVE  EntryInv' /\ PendingInv' /\ FloorInv'
    <3>1. /\ pc'[c] = "compute" /\ \A d \in Calls \ {c} : pc'[d] = pc[d]
      BY <1>0, <2>2 DEF Goto, CallsOK
    <3>2. \A e \in entries : ~OfCall(e, c)
      BY <2>2 DEF Found, OfCall
    <3>3. EntryInv'
      BY <1>0, <1>k, <2>0, <2>2, <3>1, <3>2 DEF EntryInv, OfCall, Place, Active, UnderWay
    <3>4. PendingInv'
      BY <1>0, <1>k, <2>0, <2>2, <3>1 DEF PendingInv, SameCache, Place, Active, UnderWay
    <3>5. FloorInv'
      BY <1>0, <2>0, <2>2, <3>1 DEF FloorInv
    <3> QED
      BY <3>3, <3>4, <3>5
  <2> QED
    BY <1>2, <2>1, <2>2 DEF Get
<1>3. ASSUME NEW c \in Calls, Compute(c) PROVE EntryInv' /\ PendingInv' /\ FloorInv'
  <2>0. pc[c] = "compute" /\ c \in Active /\ UNCHANGED entries
    BY <1>3 DEF Compute, Active, UnderWay
  <2>1. CASE /\ result' = [result EXCEPT ![c] = Computed(asker[c])] /\ Goto(c, "set")
             /\ UNCHANGED <<asker, key, floor>>
    <3>1. /\ pc'[c] = "set" /\ result'[c].version = data
          /\ \A d \in Calls \ {c} : pc'[d] = pc[d] /\ result'[d] = result[d]
      BY <1>0, <1>c, <2>1 DEF Goto, CallsOK
    <3>2. EntryInv'
      BY <1>0, <1>k, <2>0, <2>1, <3>1 DEF EntryInv, OfCall, Place, Active, UnderWay
    <3>3. PendingInv'
      BY <1>0, <1>k, <2>0, <2>1, <3>1 DEF PendingInv, SameCache, Place, Active, UnderWay
    <3>4. FloorInv'
      BY <1>0, <2>1, <3>1 DEF FloorInv
    <3> QED
      BY <3>2, <3>3, <3>4
  <2> QED
    BY <1>3, <1>f, <2>0, <2>1 DEF Compute
<1>p. ASSUME NEW c \in Calls, pc[c] = "set", Put(c)
      PROVE  /\ c \in Active
             /\ \A d \in Calls \ {c} : pc[d] \in {"compute", "set"} => key[d] # key[c]
             /\ \A e \in entries' :
                   \/ OfCall(e, c) /\ e.value.version = result[c].version
                   \/ e \in entries /\ ~OfCall(e, c)
             /\ \A d \in Active : OfCall([key |-> key[c], place |-> Place(asker[c].proc)], d)
                                     <=> SameCache(d, c)
  BY <1>p, StoredIs DEF Put, Active, UnderWay, OfCall, SameCache
<1>q. ASSUME NEW c \in Calls, pc[c] = "set", Put(c), NEW e \in entries', NEW d \in Active \ {c}, OfCall(e, d)
      PROVE  /\ pc[d] = "done" => result[d].version <= e.value.version
             /\ pc[d] = "get" => floor[d] <= e.value.version
             /\ pc[d] \notin {"compute", "set"}
  <2>1. CASE e \in entries
    BY <1>0, <1>q, <2>1 DEF EntryInv
  <2>2. CASE OfCall(e, c) /\ e.value.version = result[c].version
    <3>1. SameCache(d, c) /\ key[d] = key[c]
      BY <1>q, <2>2 DEF OfCall, SameCache
    <3> QED
      BY <1>0, <1>p, <1>q, <2>2, <3>1 DEF PendingInv, Active
  <2> QED
    BY <1>p, <1>q, <2>1, <2>2
<1>4. ASSUME NEW c \in Calls, Set(c) PROVE EntryInv' /\ PendingInv' /\ FloorInv'
  <2>0. /\ pc[c] = "set" /\ Put(c) /\ UNCHANGED <<asker, key, result, floor>>
        /\ pc'[c] = "done" /\ \A d \in Calls \ {c} : pc'[d] = pc[d]
    BY <1>0, <1>4 DEF Set, Goto, CallsOK
  <2>1. EntryInv'
    <3>1. ASSUME NEW e \in entries', OfCall(e, c) PROVE result[c].version <= e.value.version
      <4>1. e.value.version = result[c].version
        BY <1>p, <2>0, <3>1
      <4> QED
        BY <1>0, <4>1
    <3> QED
      BY <1>k, <1>q, <2>0, <3>1 DEF EntryInv, OfCall, Place, Active, UnderWay
  <2>2. PendingInv'
    <3>1. \A d \in Calls : pc'[d] = "set" => d # c /\ ~SameCache(c, d)
      BY <1>p, <2>0 DEF SameCache
    <3> QED
      BY <1>0, <1>k, <2>0, <3>1 DEF PendingInv, SameCache, Place, Active, UnderWay
  <2>3. FloorInv'
    BY <1>0, <2>0 DEF FloorInv
  <2> QED
    BY <2>1, <2>2, <2>3
<1>5. ASSUME NEW c \in Calls, RedisFails(c) PROVE EntryInv' /\ PendingInv' /\ FloorInv'
  <2>1. CASE UNCHANGED entries
    BY <1>5, <1>f, <2>1 DEF RedisFails
  <2>2. CASE pc[c] = "set" /\ Put(c)
    <3>1. /\ pc'[c] = "failed"
          /\ \A d \in Calls \ {c} :
                /\ pc'[d] = pc[d] /\ asker'[d] = asker[d] /\ key'[d] = key[d]
                /\ result'[d] = result[d] /\ floor'[d] = floor[d]
      BY <1>0, <1>5, FailIs DEF RedisFails
    <3>2. EntryInv'
      BY <1>k, <1>q, <2>2, <3>1 DEF EntryInv, OfCall, Place, Active, UnderWay
    <3>3. PendingInv'
      BY <1>0, <1>k, <3>1 DEF PendingInv, SameCache, Place, Active, UnderWay
    <3>4. FloorInv'
      BY <1>0, <3>1 DEF FloorInv
    <3> QED
      BY <3>2, <3>3, <3>4
  <2> QED
    BY <1>5, <2>1, <2>2 DEF RedisFails
<1>6. CASE (\E p \in Procs : Restart(p)) \/ (\E c \in Calls : RaiseInMemory(c))
  BY <1>6, <1>f DEF Restart, RaiseInMemory
<1>7. CASE ChangeData \/ ReplaceSchemaFile \/ Tick \/ UNCHANGED vars
  <2>1. entries' \subseteq entries /\ UNCHANGED <<pc, asker, key, result, floor>>
    BY <1>7 DEF ChangeData, ReplaceSchemaFile, Tick, vars
  <2> QED
    BY <1>0, <1>k, <2>1 DEF EntryInv, PendingInv, FloorInv, OfCall, SameCache, Place, Active
<1> QED
  BY <1>1, <1>2, <1>3, <1>4, <1>5, <1>6, <1>7 DEF Next

\* Once a version of the data has been served from a cache, who asks the same
\* of it later gets none that is older, unless two misses overlapped.
THEOREM NothingGoesBack == Spec => []NeverBackInTime
<1>1. Init => DataInv /\ ForwardInv
  <2> SUFFICES ASSUME Init PROVE DataInv /\ ForwardInv
    OBVIOUS
  <2>1. /\ entries = {} /\ data = 1
        /\ \A c \in Calls : pc[c] = "idle" /\ result[c].version = 0 /\ floor[c] = 0
    BY DEF Init, NoResult
  <2> QED
    BY <2>1 DEF DataInv, ForwardInv, EntryInv, PendingInv, FloorInv, Active, UnderWay
<1>2. TypeInv /\ ForwardInv => NeverBackInTime
  <2> SUFFICES ASSUME TypeInv, ForwardInv, NEW c \in Calls, Done(c, "query"), ~crossed
               PROVE  result[c].version >= floor[c]
    BY DEF NeverBackInTime
  <2>1. floor[c] <= result[c].version
    BY DEF ForwardInv, FloorInv, Done
  <2>2. floor[c] \in Int /\ result[c].version \in Int
    BY DEF TypeInv, CallsOK, Results
  <2> QED
    BY <2>1, <2>2
<1> QED
  BY <1>1, <1>2, DataStep, ForwardStep, TypeInvHolds, PTL DEF Spec
=============================================================================
