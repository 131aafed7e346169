------------------------- MODULE FrontRegistryProofs -------------------------
(***************************************************************************)
(* The gateway's front for any number of clients and addresses, any window *)
(* and maximum of the limiter, any page size and any number of restarts;   *)
(* and the registry of what it sells, for any table of routes of which no  *)
(* path has two, any environments, request paths and bodies.               *)
(***************************************************************************)
EXTENDS GatewayFront, Registry, SumLemmas

-----------------------------------------------------------------------------
(* What an address got through                                             *)

\* From a time on.
Since(ip, from) == Within(ip, from, MaxTime)

LimiterTypes ==
    /\ now \in 1..MaxTime /\ restarts \in Nat
    /\ bucket \in [Ips -> [count : Nat, resetAt : Nat]]
    /\ passed \in [Ips -> [1..MaxTime -> Nat]]
    /\ promise \in [Ips -> [ends : Nat, back : Nat]]
    /\ \A ip \in Ips, t \in 1..MaxTime : t > now => passed[ip][t] = 0

Times(from, to) == {t \in 1..MaxTime : from <= t /\ t <= to}

LEMMA TimesFinite ==
    \A from, to \in Int : IsFiniteSet(Times(from, to)) /\ Times(from, to) \subseteq 1..MaxTime
<1>1. IsFiniteSet(1..MaxTime)
  BY LimitsAssumption, FS_Interval
<1>2. QED
  BY <1>1, FS_Subset DEF Times

\* Sums over times of what is nothing from n on.
LEMMA TimesSum ==
    ASSUME NEW n \in 1..MaxTime, NEW f \in [1..MaxTime -> Nat],
           \A t \in 1..MaxTime : t > n => f[t] = 0, NEW from \in Int, NEW to \in Int
    PROVE  /\ SumFunctionOnSet(f, Times(from, to)) \in Nat
           /\ to >= n => SumFunctionOnSet(f, Times(from, to))
                              = SumFunctionOnSet(f, Times(from, MaxTime))
           /\ from > n => SumFunctionOnSet(f, Times(from, MaxTime)) = 0
<1>1. f \in [1..MaxTime -> Nat] /\ MaxTime \in Nat /\ n \in 1..MaxTime
  BY LimitsAssumption
<1>2. \A t \in 1..MaxTime : t > n => f[t] = 0
  OBVIOUS
<1>3. \A a, b \in Int : SumFunctionOnSet(f, Times(a, b)) \in Nat
  <2>1. TAKE a, b \in Int
  <2>2. IsFiniteSet(Times(a, b)) /\ \A x \in Times(a, b) : f[x] \in Nat
    BY <1>1, TimesFinite
  <2>3. QED
    BY <2>2, SumNat
<1>4. ASSUME to >= n
      PROVE SumFunctionOnSet(f, Times(from, to)) = SumFunctionOnSet(f, Times(from, MaxTime))
  <2> DEFINE T == Times(from, to) \cap Times(from, MaxTime)
             U == Times(from, MaxTime)
             V == Times(from, to)
  <2>1. IsFiniteSet(U) /\ IsFiniteSet(V) /\ T \in SUBSET U /\ T \in SUBSET V
    BY <1>1, TimesFinite
  <2>2. (\A x \in U : f[x] \in Int) /\ (\A x \in V : f[x] \in Int)
    BY <1>1, TimesFinite
  <2>3. (\A x \in U \ T : f[x] = 0) /\ (\A x \in V \ T : f[x] = 0)
    BY <1>1, <1>2, <1>4 DEF Times
  <2> HIDE DEF T, U, V
  <2>4. SumFunctionOnSet(f, T) = SumFunctionOnSet(f, U)
    BY ONLY <2>1, <2>2, <2>3, SumSkipsZeros
  <2>5. SumFunctionOnSet(f, T) = SumFunctionOnSet(f, V)
    BY ONLY <2>1, <2>2, <2>3, SumSkipsZeros
  <2>6. QED
    BY <2>4, <2>5 DEF U, V
<1>5. ASSUME from > n PROVE SumFunctionOnSet(f, Times(from, MaxTime)) = 0
  <2> DEFINE U == Times(from, MaxTime)
  <2>1. IsFiniteSet(U) /\ {} \in SUBSET U /\ \A x \in U : f[x] \in Int
    BY <1>1, TimesFinite
  <2>2. \A x \in U \ {} : f[x] = 0
    BY <1>1, <1>2, <1>5 DEF Times
  <2> HIDE DEF U
  <2>3. SumFunctionOnSet(f, {}) = SumFunctionOnSet(f, U)
    BY ONLY <2>1, <2>2, SumSkipsZeros
  <2>4. QED
    BY <2>3, SumEmpty DEF U
<1>6. QED
  BY <1>3, <1>4, <1>5

\* Counts are naturals, and nothing got through after now.
LEMMA WithinType ==
    ASSUME LimiterTypes, NEW ip \in Ips, NEW from \in Int, NEW to \in Int
    PROVE  /\ Within(ip, from, to) \in Nat
           /\ to >= now => Within(ip, from, to) = Since(ip, from)
           /\ from > now => Since(ip, from) = 0
<1>1. /\ passed[ip] \in [1..MaxTime -> Nat] /\ now \in 1..MaxTime
      /\ \A t \in 1..MaxTime : t > now => passed[ip][t] = 0
  BY DEF LimiterTypes
<1>2. /\ Within(ip, from, to) = SumFunctionOnSet(passed[ip], Times(from, to))
      /\ Since(ip, from) = SumFunctionOnSet(passed[ip], Times(from, MaxTime))
  BY DEF Within, Since, Times
<1>3. QED
  BY <1>1, <1>2, TimesSum

\* A request let through counts from every time up to now.
LEMMA SinceAdds ==
    ASSUME LimiterTypes, NEW ip \in Ips, passed' = [passed EXCEPT ![ip][now] = @ + 1],
           NEW a \in Ips, NEW from \in Int
    PROVE  Since(a, from)' = Since(a, from) + IF a = ip /\ from <= now THEN 1 ELSE 0
<1> DEFINE f == passed[a]
           g == passed'[a]
           S == Times(from, MaxTime)
<1>1. /\ MaxTime \in Nat /\ now \in 1..MaxTime /\ f \in [1..MaxTime -> Nat]
      /\ g = IF a = ip THEN [f EXCEPT ![now] = @ + 1] ELSE f
  BY LimitsAssumption DEF LimiterTypes
<1>2. Since(a, from) = SumFunctionOnSet(f, S) /\ Since(a, from)' = SumFunctionOnSet(g, S)
  BY DEF Since, Within, Times
<1> HIDE DEF f, g
<1>3. /\ IsFiniteSet(S) /\ SumFunctionOnSet(f, S) \in Int
      /\ \A x \in S : f[x] \in Int /\ g[x] \in Int
  <2>1. IsFiniteSet(S) /\ \A x \in S : f[x] \in Int /\ g[x] \in Int
    BY <1>1, TimesFinite
  <2>2. QED
    BY <2>1, SumType
<1>4. CASE a = ip /\ from <= now
  <2>1. now \in S
    BY <1>1, <1>4 DEF Times
  <2>2. g[now] = f[now] + 1 /\ f[now] \in Int /\ \A x \in S \ {now} : f[x] = g[x]
    BY <1>1, <1>4, TimesFinite
  <2> HIDE DEF S
  <2>3. SumFunctionOnSet(g, S) = SumFunctionOnSet(f, S) - f[now] + g[now]
    BY ONLY <1>3, <2>1, <2>2, SumChanges
  <2>4. QED
    BY <1>2, <1>3, <1>4, <2>2, <2>3
<1>5. CASE ~(a = ip /\ from <= now)
  <2>1. \A x \in S : f[x] \in Int /\ f[x] = g[x]
    <3>1. \A x \in S : x \in 1..MaxTime /\ from <= x
      BY DEF Times
    <3>2. a = ip => \A x \in S : x # now
      BY <1>1, <1>5, <3>1
    <3>3. QED
      BY <1>1, <1>3, <3>1, <3>2
  <2> HIDE DEF S
  <2>2. SumFunctionOnSet(g, S) = SumFunctionOnSet(f, S)
    BY <1>3, <2>1, SumAgrees
  <2>3. QED
    BY <1>2, <1>3, <1>5, <2>2
<1>6. QED
  BY <1>4, <1>5

-----------------------------------------------------------------------------
(* The limiter's invariant                                                 *)

\* Of the requests that a bucket has counted, those it let through,
Granted(ip) == IF bucket[ip].count <= MaxRequests THEN bucket[ip].count ELSE MaxRequests

\* and when it was opened.
OpenedAt(ip) == bucket[ip].resetAt - Window

\* The maximum, for the first process and for each restart.
Allowance == (1 + restarts) * MaxRequests

\* While a bucket is fresh: fewer than it granted came after the request that
\* opened it; those before it that a window ending now or later still reaches
\* are fewer than the allowance; and all it granted came since it was opened.
WhileFresh(ip) ==
    /\ bucket[ip].count > 0 /\ OpenedAt(ip) \in 1..now
    /\ \A t \in 1..MaxTime :
        /\ t > OpenedAt(ip) => Since(ip, t) < Granted(ip)
        /\ t > now - Window /\ t <= OpenedAt(ip) => Since(ip, t) - Granted(ip) < Allowance
        /\ t <= OpenedAt(ip) => Since(ip, t) >= Granted(ip)

\* Once it is not, the last window got fewer than the allowance.
OnceStale(ip) ==
    \A t \in 1..MaxTime : t > now - Window => Since(ip, t) < Allowance

\* A promise is of the bucket that is fresh, or of a time before it.
PromiseInv(ip) ==
    /\ promise[ip].ends <= promise[ip].back
    /\ promise[ip].ends <= now \/ (Fresh(bucket[ip]) /\ bucket[ip].resetAt = promise[ip].ends)
    /\ Fresh(bucket[ip]) => \/ promise[ip].ends = bucket[ip].resetAt
                            \/ promise[ip].ends <= OpenedAt(ip)

AddressInv(ip) ==
    /\ Fresh(bucket[ip]) => WhileFresh(ip)
    /\ ~Fresh(bucket[ip]) => OnceStale(ip)
    /\ PromiseInv(ip)

LimiterInv == LimiterTypes /\ LessThanTwiceMax /\ \A ip \in Ips : AddressInv(ip)

limiter == <<now, bucket, passed, promise, restarts>>

\* What the allowance is worth, in naturals.
LEMMA AllowanceType ==
    ASSUME LimiterTypes
    PROVE  /\ Allowance \in Nat /\ Allowance >= MaxRequests
           /\ (2 + restarts) * MaxRequests = Allowance + MaxRequests
<1>1. restarts \in Nat /\ MaxRequests \in Nat
  BY LimitsAssumption DEF LimiterTypes
<1>2. /\ (1 + restarts) * MaxRequests = MaxRequests + restarts * MaxRequests
      /\ (2 + restarts) * MaxRequests = MaxRequests + MaxRequests + restarts * MaxRequests
      /\ restarts * MaxRequests \in Nat
  BY <1>1
<1>3. QED
  BY <1>1, <1>2 DEF Allowance

\* What a bucket granted is at most the maximum.
LEMMA GrantedType ==
    ASSUME LimiterTypes, NEW ip \in Ips
    PROVE  Granted(ip) \in Nat /\ Granted(ip) <= MaxRequests /\ OpenedAt(ip) \in Int
  BY LimitsAssumption DEF LimiterTypes, Granted, OpenedAt

\* Steps that leave the limiter alone keep its invariant.
LEMMA LimiterQuiet == LimiterInv /\ UNCHANGED limiter => LimiterInv'
<1> SUFFICES ASSUME LimiterInv, UNCHANGED limiter PROVE LimiterInv'
  OBVIOUS
<1>1. \A ip, from, to : Within(ip, from, to)' = Within(ip, from, to)
  BY DEF Within, limiter
<1>2. \A ip, from : Since(ip, from)' = Since(ip, from)
  BY <1>1 DEF Since
<1>3. LimiterTypes' /\ LessThanTwiceMax'
  BY <1>1 DEF LimiterInv, LimiterTypes, LessThanTwiceMax, limiter
<1>4. ASSUME NEW ip \in Ips PROVE AddressInv(ip)'
  <2>1. AddressInv(ip)
    BY DEF LimiterInv
  <2>2. QED
    BY <1>2, <2>1 DEF limiter, AddressInv, WhileFresh, OnceStale, PromiseInv, Fresh,
             OpenedAt, Granted, Allowance
<1>5. QED
  BY <1>3, <1>4 DEF LimiterInv

\* A bucket that turns stale leaves fewer than the allowance behind.
LEMMA TickLimiter == LimiterInv /\ Tick => LimiterInv'
<1> SUFFICES ASSUME LimiterInv, Tick PROVE LimiterInv'
  OBVIOUS
<1>0. /\ now' = now + 1 /\ now \in 1..MaxTime /\ now' \in 1..MaxTime /\ MaxTime \in Nat
      /\ Window \in Nat \ {0} /\ MaxRequests \in Nat /\ LimiterTypes
      /\ UNCHANGED <<bucket, passed, promise, restarts>>
  BY LimitsAssumption DEF Tick, LimiterInv, LimiterTypes
<1>1. \A ip, from, to : Within(ip, from, to)' = Within(ip, from, to)
  BY <1>0 DEF Within
<1>2. \A ip, from : Since(ip, from)' = Since(ip, from)
  BY <1>1 DEF Since
<1>3. LimiterTypes'
  BY <1>0 DEF LimiterTypes
<1>4. LessThanTwiceMax'
  BY <1>0, <1>1 DEF LimiterInv, LessThanTwiceMax
<1>5. ASSUME NEW ip \in Ips PROVE AddressInv(ip)'
  <2>1. AddressInv(ip)
    BY DEF LimiterInv
  <2>2. /\ Granted(ip)' = Granted(ip) /\ OpenedAt(ip)' = OpenedAt(ip) /\ Allowance' = Allowance
        /\ Granted(ip) \in Nat /\ Granted(ip) <= MaxRequests /\ OpenedAt(ip) \in Int
        /\ Allowance \in Nat /\ Allowance >= MaxRequests
    BY <1>0, GrantedType, AllowanceType DEF Granted, OpenedAt, Allowance
  <2>3. /\ bucket[ip] \in [count : Nat, resetAt : Nat] /\ bucket'[ip] = bucket[ip]
        /\ promise[ip] \in [ends : Nat, back : Nat] /\ promise'[ip] = promise[ip]
        /\ \A t \in 1..MaxTime : Since(ip, t) \in Nat
    BY <1>0, WithinType DEF LimiterTypes, Since
  <2>4. CASE bucket[ip].resetAt > now + 1
    <3>1. WhileFresh(ip)'
      BY <1>0, <1>2, <2>1, <2>2, <2>3, <2>4 DEF AddressInv, WhileFresh, Fresh
    <3>2. PromiseInv(ip)'
      BY <1>0, <2>1, <2>2, <2>3, <2>4 DEF AddressInv, PromiseInv, Fresh
    <3>3. QED
      BY <1>0, <2>3, <2>4, <3>1, <3>2 DEF AddressInv, Fresh
  <2>5. CASE bucket[ip].resetAt <= now + 1
    <3>1. ASSUME NEW t \in 1..MaxTime, t > now + 1 - Window PROVE Since(ip, t) < Allowance
      <4>1. CASE bucket[ip].resetAt > now
        <5>1. t > OpenedAt(ip) /\ WhileFresh(ip)
          BY <1>0, <2>1, <2>3, <2>5, <3>1, <4>1 DEF OpenedAt, AddressInv, Fresh
        <5>2. Since(ip, t) < Granted(ip)
          BY <5>1 DEF WhileFresh
        <5>3. QED
          BY <1>0, <2>2, <2>3, <5>2
      <4>2. CASE ~(bucket[ip].resetAt > now)
        BY <1>0, <2>1, <3>1, <4>2 DEF AddressInv, OnceStale, Fresh
      <4>3. QED
        BY <4>1, <4>2
    <3>2. OnceStale(ip)'
      BY <1>0, <1>2, <2>2, <3>1 DEF OnceStale
    <3>3. PromiseInv(ip)'
      BY <1>0, <2>1, <2>2, <2>3, <2>5 DEF AddressInv, PromiseInv, Fresh
    <3>4. QED
      BY <1>0, <2>3, <2>5, <3>2, <3>3 DEF AddressInv, Fresh
  <2>6. QED
    BY <1>0, <2>3, <2>4, <2>5
<1>6. QED
  BY <1>3, <1>4, <1>5 DEF LimiterInv

\* The clean-up deletes only what is stale.
LEMMA CleanupLimiter == LimiterInv /\ Cleanup => LimiterInv'
<1> SUFFICES ASSUME LimiterInv, Cleanup PROVE LimiterInv'
  OBVIOUS
<1>0. /\ now \in 1..MaxTime /\ LimiterTypes /\ UNCHANGED <<now, passed, promise, restarts>>
      /\ bucket' = [ip \in Ips |-> IF Fresh(bucket[ip]) THEN bucket[ip] ELSE NoBucket]
  BY DEF Cleanup, LimiterInv, LimiterTypes
<1>1. \A ip, from, to : Within(ip, from, to)' = Within(ip, from, to)
  BY <1>0 DEF Within
<1>2. \A ip, from : Since(ip, from)' = Since(ip, from)
  BY <1>1 DEF Since
<1>3. LimiterTypes' /\ LessThanTwiceMax'
  BY <1>0, <1>1 DEF LimiterInv, LimiterTypes, LessThanTwiceMax, NoBucket
<1>4. ASSUME NEW ip \in Ips PROVE AddressInv(ip)'
  <2>1. AddressInv(ip)
    BY DEF LimiterInv
  <2>2. CASE Fresh(bucket[ip])
    <3>1. bucket'[ip] = bucket[ip]
      BY <1>0, <2>2
    <3>2. QED
      BY <1>0, <1>2, <2>1, <3>1 DEF AddressInv, WhileFresh, OnceStale, PromiseInv, Fresh,
               OpenedAt, Granted, Allowance
  <2>3. CASE ~Fresh(bucket[ip])
    <3>1. ~Fresh(bucket[ip])' /\ promise[ip].ends <= now
      BY <1>0, <2>1, <2>3 DEF Fresh, NoBucket, AddressInv, PromiseInv
    <3>2. PromiseInv(ip)' /\ OnceStale(ip)'
      BY <1>0, <1>2, <2>1, <2>3, <3>1 DEF AddressInv, PromiseInv, OnceStale, Allowance
    <3>3. QED
      BY <3>1, <3>2 DEF AddressInv
  <2>4. QED
    BY <2>2, <2>3
<1>5. QED
  BY <1>3, <1>4 DEF LimiterInv

\* A restart forgets the buckets, and allows the maximum once more.
LEMMA RestartLimiter == LimiterInv /\ Restart => LimiterInv'
<1> SUFFICES ASSUME LimiterInv, Restart PROVE LimiterInv'
  OBVIOUS
<1>0. /\ now \in 1..MaxTime /\ LimiterTypes /\ UNCHANGED <<now, passed>>
      /\ restarts \in Nat /\ restarts' = restarts + 1 /\ MaxTime \in Nat
      /\ Window \in Nat \ {0} /\ MaxRequests \in Nat \ {0}
      /\ bucket' = [ip \in Ips |-> NoBucket] /\ promise' = [ip \in Ips |-> NoPromise]
  BY LimitsAssumption DEF Restart, LimiterInv, LimiterTypes
<1>1. \A ip, from, to : Within(ip, from, to)' = Within(ip, from, to)
  BY <1>0 DEF Within
<1>2. \A ip, from : Since(ip, from)' = Since(ip, from)
  BY <1>1 DEF Since
<1>3. LimiterTypes'
  BY <1>0 DEF LimiterTypes, NoBucket, NoPromise
<1>4. /\ (2 + restarts) * MaxRequests = Allowance'
      /\ (2 + restarts)* MaxRequests \in Nat
      /\ (2 + (restarts + 1)) * MaxRequests = (2 + restarts) * MaxRequests + MaxRequests
  <2>1. (2 + (restarts + 1)) * MaxRequests = (2 + restarts) * MaxRequests + MaxRequests
    BY <1>0
  <2>2. (2 + restarts) * MaxRequests \in Nat /\ 1 + (restarts + 1) = 2 + restarts
    BY <1>0
  <2>3. Allowance' = (1 + (restarts + 1)) * MaxRequests
    BY <1>0 DEF Allowance
  <2>4. QED
    BY <2>1, <2>2, <2>3
<1>5. LessThanTwiceMax'
  <2>1. ASSUME NEW ip \in Ips, NEW t \in 1..MaxTime
        PROVE  Within(ip, t, t + Window - 1)' < ((2 + restarts) * MaxRequests)'
    <3>1. Within(ip, t, t + Window - 1) < (2 + restarts) * MaxRequests
      BY DEF LimiterInv, LessThanTwiceMax
    <3>2. Within(ip, t, t + Window - 1) \in Nat
      BY <1>0, WithinType
    <3> DEFINE least == (2 + restarts) * MaxRequests
    <3> HIDE DEF least
    <3>3. Within(ip, t, t + Window - 1) < least /\ least \in Nat
          /\ (2 + (restarts + 1)) * MaxRequests = least + MaxRequests
      BY <1>4, <3>1 DEF least
    <3>4. Within(ip, t, t + Window - 1) < (2 + (restarts + 1)) * MaxRequests
      BY <1>0, <3>2, <3>3
    <3>5. QED
      BY <1>0, <1>1, <3>4
  <2>2. QED
    BY <2>1 DEF LessThanTwiceMax
<1>6. ASSUME NEW ip \in Ips PROVE AddressInv(ip)'
  <2>1. ~Fresh(bucket[ip])' /\ promise'[ip] = NoPromise
    BY <1>0 DEF Fresh, NoBucket
  <2>2. PromiseInv(ip)'
    BY <1>0, <2>1 DEF PromiseInv, NoPromise
  <2>3. ASSUME NEW t \in 1..MaxTime, t > now - Window
        PROVE  Since(ip, t) < (2 + restarts) * MaxRequests
    <3>1. t + Window - 1 >= now
      BY <1>0, <2>3
    <3>2. Within(ip, t, t + Window - 1) = Since(ip, t)
      BY <1>0, <3>1, WithinType
    <3>3. QED
      BY <3>2 DEF LimiterInv, LessThanTwiceMax
  <2>4. OnceStale(ip)'
    BY <1>0, <1>2, <1>4, <2>3 DEF OnceStale
  <2>5. QED
    BY <2>1, <2>2, <2>4 DEF AddressInv
<1>7. QED
  BY <1>3, <1>5, <1>6 DEF LimiterInv

\* What stays true of an address when another one's request comes in.
LEMMA OtherAddress ==
    ASSUME LimiterTypes, NEW ip \in Ips, AddressInv(ip), UNCHANGED <<now, restarts>>,
           bucket'[ip] = bucket[ip], promise'[ip] = promise[ip],
           \A t \in 1..MaxTime : Since(ip, t)' = Since(ip, t)
    PROVE  AddressInv(ip)'
  BY DEF AddressInv, WhileFresh, OnceStale, PromiseInv, Fresh, OpenedAt, Granted, Allowance

\* Rounding up to whole seconds never ends before the time rounded.
LEMMA RoundedUp ==
    ASSUME NEW k \in Nat \ {0}, NEW d \in Nat
    PROVE  k * ((d + k - 1) \div k) \in Nat /\ k * ((d + k - 1) \div k) >= d
<1> DEFINE n == d + k - 1
           q == n \div k
<1>1. n \in Nat /\ q \in Nat
  OBVIOUS
<1>2. n = k * q + (n % k) /\ n % k \in 0..k - 1
  BY <1>1
<1>3. k * q \in Nat
  BY <1>1
<1>4. k * q >= d
  <2> DEFINE p == k * q
             r == n % k
  <2>1. p \in Nat /\ d + k - 1 = p + r /\ r \in 0..k - 1
    BY <1>2, <1>3
  <2> HIDE DEF p, r
  <2>2. p >= d
    BY <2>1
  <2>3. QED
    BY <2>2 DEF p
<1>5. QED
  BY <1>3, <1>4

\* A refused request is counted, but nothing more is granted; the answer
\* promises the end of the window or later.
LEMMA RefuseLimiter == LimiterInv /\ (\E c \in Clients : Refuse(c)) => LimiterInv'
<1> SUFFICES ASSUME LimiterInv, NEW c \in Clients, Refuse(c) PROVE LimiterInv'
  OBVIOUS
<1> DEFINE ip == Ip[c]
<1>0. /\ now \in 1..MaxTime /\ LimiterTypes /\ UNCHANGED <<now, passed, restarts>>
      /\ MaxTime \in Nat /\ Window \in Nat \ {0} /\ MaxRequests \in Nat \ {0}
      /\ TicksPerSecond \in Nat \ {0} /\ ip \in Ips
  BY LimitsAssumption DEF Refuse, LimiterInv, LimiterTypes, Ips
<1>1. /\ bucket[ip] \in [count : Nat, resetAt : Nat] /\ bucket[ip].resetAt > now
      /\ bucket[ip].count >= MaxRequests
      /\ bucket' = [bucket EXCEPT ![ip] = [bucket[ip] EXCEPT !.count = @ + 1]]
      /\ promise' = [promise EXCEPT ![ip] =
                       [ends |-> bucket[ip].resetAt, back |-> now + RetryAfter(ip)]]
  <2>1. bucket[ip] \in [count : Nat, resetAt : Nat]
    BY <1>0 DEF LimiterTypes
  <2>2. Fresh(bucket[ip]) /\ bucket[ip].count + 1 > MaxRequests
    BY DEF Refuse, CountedOut
  <2>3. Counted(ip) = [bucket[ip] EXCEPT !.count = @ + 1]
    BY <2>2 DEF Counted
  <2>4. bucket' = [bucket EXCEPT ![ip] = Counted(ip)]
    BY DEF Refuse
  <2>5. bucket[ip].resetAt > now /\ bucket[ip].count >= MaxRequests
    BY <1>0, <2>1, <2>2 DEF Fresh
  <2>6. promise' = [promise EXCEPT ![ip] =
                      [ends |-> bucket[ip].resetAt, back |-> now + RetryAfter(ip)]]
    BY DEF Refuse
  <2>7. QED
    BY <2>1, <2>3, <2>4, <2>5, <2>6
<1> HIDE DEF ip
<1>2. \A a, from, to : Within(a, from, to)' = Within(a, from, to)
  BY <1>0 DEF Within
<1>3. \A a, from : Since(a, from)' = Since(a, from)
  BY <1>2 DEF Since
<1>4. RetryAfter(ip) \in Nat /\ now + RetryAfter(ip) >= bucket[ip].resetAt
  <2>1. PICK d \in Nat : d = bucket[ip].resetAt - now
    BY <1>0, <1>1
  <2>2. RetryAfter(ip) = TicksPerSecond * ((d + TicksPerSecond - 1) \div TicksPerSecond)
    BY <2>1 DEF RetryAfter
  <2>3. RetryAfter(ip) \in Nat /\ RetryAfter(ip) >= d
    BY <1>0, <2>2, RoundedUp
  <2>4. QED
    BY <1>0, <1>1, <2>1, <2>3
<1>5. LimiterTypes'
  <2>1. bucket' \in [Ips -> [count : Nat, resetAt : Nat]]
    <3> DEFINE b == [bucket[ip] EXCEPT !.count = @ + 1]
    <3>1. b \in [count : Nat, resetAt : Nat]
      BY <1>1
    <3>2. bucket' = [bucket EXCEPT ![ip] = b]
      BY <1>1
    <3> HIDE DEF b
    <3>3. QED
      BY <1>0, <3>1, <3>2 DEF LimiterTypes
  <2>2. now + RetryAfter(ip) \in Nat
    BY <1>0, <1>4
  <2>3. promise' \in [Ips -> [ends : Nat, back : Nat]]
    BY <1>0, <1>1, <2>2 DEF LimiterTypes
  <2>4. QED
    BY <1>0, <2>1, <2>3 DEF LimiterTypes
<1>6. LessThanTwiceMax'
  BY <1>0, <1>2 DEF LimiterInv, LessThanTwiceMax
<1>7. ASSUME NEW a \in Ips PROVE AddressInv(a)'
  <2>1. AddressInv(a)
    BY DEF LimiterInv
  <2>2. CASE a # ip
    <3>1. bucket'[a] = bucket[a] /\ promise'[a] = promise[a]
      BY <1>0, <1>1, <2>2 DEF LimiterTypes
    <3>2. QED
      BY <1>0, <1>3, <2>1, <3>1, OtherAddress
  <2>3. CASE a = ip
    <3>1. /\ bucket'[ip].count = bucket[ip].count + 1 /\ bucket'[ip].resetAt = bucket[ip].resetAt
          /\ promise'[ip].ends = bucket[ip].resetAt /\ promise'[ip].back = now + RetryAfter(ip)
      BY <1>0, <1>1 DEF LimiterTypes
    <3>2. OpenedAt(ip)' = OpenedAt(ip) /\ Granted(ip)' = Granted(ip) /\ Allowance' = Allowance
      BY <1>0, <1>1, <3>1 DEF OpenedAt, Granted, Allowance
    <3>3. WhileFresh(ip) /\ Fresh(bucket[ip])
      BY <1>1, <2>1, <2>3 DEF AddressInv, Fresh
    <3>4. WhileFresh(ip)'
      BY <1>0, <1>1, <1>3, <3>1, <3>2, <3>3 DEF WhileFresh
    <3>5. Fresh(bucket[ip])'
      BY <1>0, <1>1, <3>1 DEF Fresh
    <3>6. PromiseInv(ip)'
      BY <1>0, <1>4, <3>1, <3>5 DEF PromiseInv
    <3>7. QED
      BY <2>3, <3>4, <3>5, <3>6 DEF AddressInv
  <2>4. QED
    BY <2>2, <2>3
<1>8. QED
  BY <1>5, <1>6, <1>7 DEF LimiterInv

\* A request let through opens a window, or is granted by the one it is in.
LEMMA LetThroughLimiter == LimiterInv /\ (\E c \in Clients : LetThrough(c)) => LimiterInv'
<1> SUFFICES ASSUME LimiterInv, NEW c \in Clients, LetThrough(c) PROVE LimiterInv'
  OBVIOUS
<1> DEFINE ip == Ip[c]
<1>0. /\ now \in 1..MaxTime /\ LimiterTypes /\ UNCHANGED <<now, promise, restarts>>
      /\ MaxTime \in Nat /\ Window \in Nat \ {0} /\ MaxRequests \in Nat \ {0} /\ ip \in Ips
      /\ bucket[ip] \in [count : Nat, resetAt : Nat]
  BY LimitsAssumption DEF LetThrough, LimiterInv, LimiterTypes, Ips
<1>1. /\ bucket' = [bucket EXCEPT ![ip] = Counted(ip)] /\ ~CountedOut(ip)
      /\ passed' = [passed EXCEPT ![ip][now] = @ + 1]
  BY DEF LetThrough
<1> HIDE DEF ip
<1>2. Counted(ip) \in [count : Nat, resetAt : Nat]
  BY <1>0 DEF Counted, Fresh
<1>3. LimiterTypes'
  <2>1. bucket' \in [Ips -> [count : Nat, resetAt : Nat]]
    BY <1>0, <1>1, <1>2 DEF LimiterTypes
  <2>2. passed' \in [Ips -> [1..MaxTime -> Nat]]
    BY <1>0, <1>1 DEF LimiterTypes
  <2>3. \A a \in Ips, t \in 1..MaxTime : t > now => passed'[a][t] = 0
    BY <1>0, <1>1 DEF LimiterTypes
  <2>4. QED
    BY <1>0, <2>1, <2>2, <2>3 DEF LimiterTypes
<1>4. \A a \in Ips, from \in Int :
         Since(a, from)' = Since(a, from) + IF a = ip /\ from <= now THEN 1 ELSE 0
  BY <1>0, <1>1, SinceAdds
<1>5. \A t \in 1..MaxTime : Since(ip, t) \in Nat /\ (t > now => Since(ip, t) = 0)
  BY <1>0, WithinType DEF Since
<1>6. /\ Allowance \in Nat /\ Allowance >= MaxRequests /\ Allowance' = Allowance
      /\ (2 + restarts) * MaxRequests = Allowance + MaxRequests
  BY <1>0, AllowanceType DEF Allowance
<1>7. AddressInv(ip)
  BY <1>0 DEF LimiterInv
<1>8. Granted(ip) \in Nat /\ Granted(ip) <= MaxRequests /\ OpenedAt(ip) \in Int
  BY <1>0, GrantedType
<1>9. ASSUME Fresh(bucket[ip])
      PROVE  /\ bucket'[ip].resetAt = bucket[ip].resetAt /\ bucket'[ip].count = bucket[ip].count + 1
             /\ Granted(ip)' = Granted(ip) + 1 /\ OpenedAt(ip)' = OpenedAt(ip)
             /\ Granted(ip) + 1 <= MaxRequests /\ WhileFresh(ip)
  <2>1. /\ bucket'[ip].resetAt = bucket[ip].resetAt /\ bucket'[ip].count = bucket[ip].count + 1
        /\ bucket[ip].count + 1 <= MaxRequests
    BY <1>0, <1>1, <1>9 DEF CountedOut, Counted, LimiterTypes
  <2>2. QED
    BY <1>0, <1>7, <1>9, <2>1 DEF Granted, OpenedAt, AddressInv
<1>10. ASSUME ~Fresh(bucket[ip])
       PROVE  /\ bucket'[ip].resetAt = now + Window /\ bucket'[ip].count = 1
              /\ Granted(ip)' = 1 /\ OpenedAt(ip)' = now /\ OnceStale(ip)
  <2>1. bucket'[ip].resetAt = now + Window /\ bucket'[ip].count = 1
    BY <1>0, <1>1, <1>10 DEF Counted, LimiterTypes
  <2>2. QED
    BY <1>0, <1>7, <1>10, <2>1 DEF Granted, OpenedAt, AddressInv
<1>11. LessThanTwiceMax'
  <2>1. ASSUME NEW a \in Ips, NEW t \in 1..MaxTime
        PROVE  Within(a, t, t + Window - 1)' < (2 + restarts) * MaxRequests
    <3>1. Within(a, t, t + Window - 1) < (2 + restarts) * MaxRequests
      BY DEF LimiterInv, LessThanTwiceMax
    <3>2. CASE a # ip
      <4>1. passed'[a] = passed[a]
        BY <1>0, <1>1, <3>2 DEF LimiterTypes
      <4>2. QED
        BY <3>1, <4>1 DEF Within
    <3>3. CASE a = ip /\ t + Window - 1 < now
      <4>1. /\ MaxTime \in Nat /\ passed'[ip] = [passed[ip] EXCEPT ![now] = @ + 1]
            /\ passed[ip] \in [1..MaxTime -> Nat]
        BY <1>0, <1>1 DEF LimiterTypes
      <4> DEFINE S == Times(t, t + Window - 1)
      <4>2. \A x \in S : x \in 1..MaxTime /\ x # now
        BY <1>0, <3>3 DEF Times
      <4>3. IsFiniteSet(S) /\ \A x \in S : passed[ip][x] \in Int /\ passed[ip][x] = passed'[ip][x]
        BY <1>0, <4>1, <4>2, TimesFinite
      <4> HIDE DEF S
      <4>4. SumFunctionOnSet(passed[ip], S) = SumFunctionOnSet(passed'[ip], S)
        BY <4>3, SumAgrees
      <4>5. QED
        BY <3>1, <3>3, <4>4 DEF Within, Times, S
    <3>4. CASE a = ip /\ t + Window - 1 >= now
      <4>1. Within(ip, t, t + Window - 1)' = Since(ip, t)'
        <5>1. /\ passed'[ip] \in [1..MaxTime -> Nat] /\ now' \in 1..MaxTime
              /\ \A x \in 1..MaxTime : x > now' => passed'[ip][x] = 0
          BY <1>0, <1>3 DEF LimiterTypes
        <5>2. SumFunctionOnSet(passed'[ip], Times(t, t + Window - 1))
                 = SumFunctionOnSet(passed'[ip], Times(t, MaxTime))
          <6> DEFINE f == passed'[ip]
                     to == t + Window - 1
          <6>1. /\ f \in [1..MaxTime -> Nat] /\ now \in 1..MaxTime /\ to \in Int /\ t \in Int
                /\ to >= now /\ \A x \in 1..MaxTime : x > now => f[x] = 0
            BY <1>0, <3>4, <5>1
          <6> HIDE DEF f, to
          <6>2. SumFunctionOnSet(f, Times(t, to)) = SumFunctionOnSet(f, Times(t, MaxTime))
            BY <6>1, TimesSum
          <6>3. QED
            BY <6>2 DEF f, to
        <5>3. QED
          BY <5>2 DEF Within, Since, Times
      <4>2. Since(ip, t)' <= Since(ip, t) + 1
        BY <1>0, <1>4, <1>5
      <4>3. Since(ip, t) < Allowance + MaxRequests - 1
        <5>1. t > now - Window
          BY <1>0, <3>4
        <5>2. CASE Fresh(bucket[ip])
          BY <1>0, <1>5, <1>6, <1>8, <1>9, <5>1, <5>2 DEF WhileFresh
        <5>3. CASE ~Fresh(bucket[ip])
          BY <1>0, <1>5, <1>6, <1>10, <5>1, <5>3 DEF OnceStale
        <5>4. QED
          BY <5>2, <5>3
      <4>4. Since(ip, t)' < Allowance + MaxRequests
        BY <1>0, <1>4, <1>5, <1>6, <4>3
      <4>5. QED
        BY <1>6, <3>4, <4>1, <4>4
    <3>5. QED
      BY <1>0, <3>2, <3>3, <3>4
  <2>2. QED
    BY <1>0, <2>1 DEF LessThanTwiceMax
<1>12. WhileFresh(ip)' /\ Fresh(bucket[ip])'
  <2>1. CASE Fresh(bucket[ip])
    <3>1. Fresh(bucket[ip])' /\ bucket'[ip].count > 0 /\ OpenedAt(ip) \in 1..now
      BY <1>0, <1>9, <2>1 DEF Fresh, WhileFresh
    <3>2. ASSUME NEW t \in 1..MaxTime
          PROVE  /\ t > OpenedAt(ip) => Since(ip, t)' < Granted(ip) + 1
                 /\ t > now - Window /\ t <= OpenedAt(ip) =>
                       Since(ip, t)' - (Granted(ip) + 1) < Allowance
                 /\ t <= OpenedAt(ip) => Since(ip, t)' >= Granted(ip) + 1
      BY <1>0, <1>4, <1>5, <1>6, <1>8, <1>9, <2>1, <3>1 DEF WhileFresh
    <3>3. QED
      BY <1>0, <1>6, <1>9, <2>1, <3>1, <3>2 DEF WhileFresh
  <2>2. CASE ~Fresh(bucket[ip])
    <3>1. Fresh(bucket[ip])' /\ bucket'[ip].count > 0 /\ now \in 1..now
      BY <1>0, <1>10, <2>2 DEF Fresh
    <3>2. ASSUME NEW t \in 1..MaxTime
          PROVE  /\ t > now => Since(ip, t)' < 1
                 /\ t > now - Window /\ t <= now => Since(ip, t)' - 1 < Allowance
                 /\ t <= now => Since(ip, t)' >= 1
      BY <1>0, <1>4, <1>5, <1>6, <1>10, <2>2 DEF OnceStale
    <3>3. QED
      BY <1>0, <1>6, <1>10, <2>2, <3>1, <3>2 DEF WhileFresh
  <2>3. QED
    BY <2>1, <2>2
<1>13. PromiseInv(ip)'
  <2>1. PromiseInv(ip) /\ promise[ip] \in [ends : Nat, back : Nat]
    BY <1>0, <1>7 DEF AddressInv, LimiterTypes
  <2>2. CASE Fresh(bucket[ip])
    BY <1>0, <1>9, <1>12, <2>1, <2>2 DEF PromiseInv
  <2>3. CASE ~Fresh(bucket[ip])
    BY <1>0, <1>10, <2>1, <2>3 DEF PromiseInv
  <2>4. QED
    BY <2>2, <2>3
<1>14. ASSUME NEW a \in Ips PROVE AddressInv(a)'
  <2>1. AddressInv(a)
    BY DEF LimiterInv
  <2>2. CASE a # ip
    <3>1. bucket'[a] = bucket[a] /\ promise'[a] = promise[a]
      BY <1>0, <1>1, <2>2 DEF LimiterTypes
    <3>2. \A t \in 1..MaxTime : Since(a, t)' = Since(a, t)
      <4>1. \A t \in 1..MaxTime : Since(a, t) \in Nat
        BY <1>0, WithinType DEF Since
      <4>2. QED
        BY <1>4, <2>2, <4>1
    <3>3. QED
      BY <1>0, <2>1, <3>1, <3>2, OtherAddress
  <2>3. CASE a = ip
    BY <1>12, <1>13, <2>3 DEF AddressInv
  <2>4. QED
    BY <2>2, <2>3
<1>15. QED
  BY <1>3, <1>11, <1>14 DEF LimiterInv

-----------------------------------------------------------------------------
(* The limiter's theorems                                                  *)

LEMMA LimiterInit == Init => LimiterInv
<1> SUFFICES ASSUME Init PROVE LimiterInv
  OBVIOUS
<1>1. /\ now = 1 /\ restarts = 0 /\ MaxTime \in Nat \ {0} /\ MaxRequests \in Nat \ {0}
      /\ Window \in Nat \ {0}
  BY LimitsAssumption DEF Init
<1>2. LimiterTypes
  BY <1>1 DEF Init, LimiterTypes, NoBucket, NoPromise
<1>3. ASSUME NEW ip \in Ips, NEW from \in Int, NEW to \in Int PROVE Within(ip, from, to) = 0
  <2> DEFINE f == passed[ip]
             S == Times(from, to)
  <2>1. IsFiniteSet(S) /\ {} \in SUBSET S /\ \A x \in S : f[x] = 0
    BY <1>1, TimesFinite DEF Init
  <2>2. (\A x \in S : f[x] \in Int) /\ \A x \in S \ {} : f[x] = 0
    BY <2>1
  <2> HIDE DEF f, S
  <2>3. SumFunctionOnSet(f, {}) = SumFunctionOnSet(f, S)
    BY ONLY <2>1, <2>2, SumSkipsZeros
  <2>4. QED
    BY <2>3, SumEmpty DEF Within, Times, f, S
<1>4. Allowance \in Nat /\ Allowance > 0 /\ (2 + restarts) * MaxRequests > 0
  BY <1>1, <1>2, AllowanceType
<1>5. LessThanTwiceMax
  BY <1>1, <1>3, <1>4 DEF LessThanTwiceMax
<1>6. ASSUME NEW ip \in Ips PROVE AddressInv(ip)
  <2>1. bucket[ip] = NoBucket /\ promise[ip] = NoPromise
    BY DEF Init
  <2>2. ~Fresh(bucket[ip]) /\ PromiseInv(ip)
    BY <1>1, <2>1 DEF Fresh, NoBucket, NoPromise, PromiseInv
  <2>3. OnceStale(ip)
    BY <1>1, <1>3, <1>4 DEF OnceStale, Since
  <2>4. QED
    BY <2>2, <2>3 DEF AddressInv
<1>7. QED
  BY <1>2, <1>5, <1>6 DEF LimiterInv

LEMMA LimiterStep == LimiterInv /\ [Next]_vars => LimiterInv'
<1> SUFFICES ASSUME LimiterInv, [Next]_vars PROVE LimiterInv'
  OBVIOUS
<1>1. CASE Tick
  BY <1>1, TickLimiter
<1>2. CASE Cleanup
  BY <1>2, CleanupLimiter
<1>3. CASE Restart
  BY <1>3, RestartLimiter
<1>4. CASE \E c \in Clients : Refuse(c)
  BY <1>4, RefuseLimiter
<1>5. CASE \E c \in Clients : LetThrough(c)
  BY <1>5, LetThroughLimiter
<1>6. ASSUME NEW c \in Clients, Handle(c) PROVE LimiterInv'
  <2>1. UNCHANGED limiter
    BY <1>6 DEF Handle, limiter, Insert, Commit, ListRows, CountRows, Totals, Groups, QueryFails
  <2>2. QED
    BY <2>1, LimiterQuiet
<1>7. CASE UNCHANGED vars
  BY <1>7, LimiterQuiet DEF vars, limiter
<1>8. QED
  BY <1>1, <1>2, <1>3, <1>4, <1>5, <1>6, <1>7 DEF Next

LEMMA LimiterAlways == Spec => []LimiterInv
  BY LimiterInit, LimiterStep, PTL DEF Spec

\* createRateLimiter: over any time as long as its window an address gets less
\* than twice the maximum through, and the maximum once more for each restart.
THEOREM AlwaysLessThanTwiceMax == Spec => []LessThanTwiceMax
<1>1. LimiterInv => LessThanTwiceMax
  BY DEF LimiterInv
<1>2. QED
  BY <1>1, LimiterAlways, PTL

-----------------------------------------------------------------------------
(* The transactions table                                                  *)

RowType == Nat \X Services \X (1..MaxTime)

SqlStates == {"idle", "pay", "commit", "rows", "count", "totals", "groups"}

Handlers == [at : SqlStates, row : RowType \cup {<<>>}, page : SUBSET RowType,
             total : Nat, groups : Nat, asks : Nat]

Walks == [offset : Nat, seen : SUBSET RowType, since : SUBSET RowType, done : BOOLEAN]

\* Inserted and not yet committed.
Pending(c) == handler[c].at = "commit"

TableTypes ==
    /\ now \in 1..MaxTime /\ ids \in Nat
    /\ rows \subseteq RowType /\ IsFiniteSet(rows)
    /\ handler \in [Clients -> Handlers] /\ walk \in [Clients -> Walks]
    /\ \A c \in Clients : handler[c].page \subseteq rows /\ walk[c].since \subseteq rows

\* No two rows, committed or not, have the same id.
IdsInv ==
    /\ \A r \in rows : r[1] <= ids /\ r[3] <= now
    /\ \A r, s \in rows : r[1] = s[1] => r = s
    /\ \A c \in Clients : Pending(c) =>
          /\ handler[c].row \in RowType /\ handler[c].row[1] <= ids /\ handler[c].row[3] <= now
          /\ \A r \in rows : r[1] # handler[c].row[1]
          /\ \A d \in Clients \ {c} : Pending(d) => handler[d].row[1] # handler[c].row[1]

TableInv == TableTypes /\ IdsInv

\* Steps that leave the table and its readers alone keep the invariant.
LEMMA TableQuiet ==
    ASSUME TableInv, UNCHANGED <<rows, ids, handler, walk>>, now' \in now..MaxTime
    PROVE  TableInv'
<1>1. now \in 1..MaxTime /\ MaxTime \in Nat /\ now' \in 1..MaxTime /\ now <= now'
  BY LimitsAssumption DEF TableInv, TableTypes
<1>2. TableTypes'
  BY <1>1 DEF TableInv, TableTypes
<1>3. \A r \in RowType : r[3] \in Int /\ (r[3] <= now => r[3] <= now')
  BY <1>1 DEF RowType
<1>4. IdsInv'
  BY <1>1, <1>3 DEF TableInv, TableTypes, IdsInv, Pending
<1>5. QED
  BY <1>2, <1>4 DEF TableInv

\* So do steps of one client that neither insert nor commit.
LEMMA TableReader ==
    ASSUME TableInv, NEW c \in Clients, UNCHANGED <<now, rows, ids>>,
           NEW h \in Handlers, handler' = [handler EXCEPT ![c] = h], h.at # "commit",
           h.page \subseteq rows,
           NEW w \in Walks, walk' = [walk EXCEPT ![c] = w], w.since \subseteq rows
    PROVE  TableInv'
<1>1. \A d \in Clients : handler'[d] = IF d = c THEN h ELSE handler[d]
  BY DEF TableInv, TableTypes
<1>2. \A d \in Clients : walk'[d] = IF d = c THEN w ELSE walk[d]
  BY DEF TableInv, TableTypes
<1>3. handler' \in [Clients -> Handlers] /\ walk' \in [Clients -> Walks]
  BY DEF TableInv, TableTypes
<1>4. TableTypes'
  BY <1>1, <1>2, <1>3 DEF TableInv, TableTypes
<1>5. \A d \in Clients : Pending(d)' => Pending(d) /\ handler'[d] = handler[d]
  BY <1>1 DEF Pending
<1>6. IdsInv'
  BY <1>5 DEF TableInv, IdsInv
<1>7. QED
  BY <1>4, <1>6 DEF TableInv

LEMMA TableInit == Init => TableInv
<1> SUFFICES ASSUME Init PROVE TableInv
  OBVIOUS
<1>1. Idle \in Handlers /\ NoWalk \in Walks /\ IsFiniteSet({}) /\ 1 \in 1..MaxTime
  BY LimitsAssumption, FS_EmptySet DEF Idle, NoWalk, Handlers, Walks, SqlStates
<1>2. \A c \in Clients : handler[c] = Idle /\ walk[c] = NoWalk
  BY DEF Init
<1>3. TableTypes
  BY <1>1, <1>2 DEF Init, TableTypes, Idle, NoWalk
<1>4. IdsInv
  BY <1>2 DEF Init, IdsInv, Pending, Idle
<1>5. QED
  BY <1>3, <1>4 DEF TableInv

\* What is let through goes to a route that is no commit; a list may begin.
LEMMA LetThroughTable == TableInv /\ (\E c \in Clients : LetThrough(c)) => TableInv'
<1> SUFFICES ASSUME TableInv, NEW c \in Clients, LetThrough(c) PROVE TableInv'
  OBVIOUS
<1> DEFINE h == [Idle EXCEPT !.at = Route(c), !.asks = handler[c].asks + 1]
           w == IF walk[c].offset = 0 /\ Route(c) = "rows"
                THEN [walk[c] EXCEPT !.since = rows] ELSE walk[c]
<1>1. handler[c] \in Handlers /\ walk[c] \in Walks /\ walk[c].since \subseteq rows /\ rows \subseteq RowType
  BY DEF TableInv, TableTypes
<1>2. Route(c) \in SqlStates \ {"commit"}
  BY DEF Route, SqlStates
<1>3. h \in Handlers /\ h.at # "commit" /\ h.page \subseteq rows
  <2> DEFINE at == Route(c)
             asks == handler[c].asks + 1
             g == [Idle EXCEPT !.at = at]
  <2>1. asks \in Nat
    BY <1>1 DEF Handlers
  <2>2. h = [g EXCEPT !.asks = asks]
    OBVIOUS
  <2> HIDE DEF at, asks, h
  <2>3. g \in Handlers /\ g.at = at /\ g.page = {}
    BY <1>2 DEF Handlers, Idle, at
  <2> HIDE DEF g
  <2>4. h \in Handlers /\ h.at = at /\ h.page = {}
    BY <2>1, <2>2, <2>3 DEF Handlers
  <2>5. QED
    BY <1>2, <2>4 DEF at
<1>4. w \in Walks /\ w.since \subseteq rows
  BY <1>1 DEF Walks
<1>5. UNCHANGED <<now, rows, ids>> /\ handler' = [handler EXCEPT ![c] = h]
  BY DEF LetThrough
<1>6. walk' = [walk EXCEPT ![c] = w]
  <2>1. walk \in [Clients -> Walks]
    BY DEF TableInv, TableTypes
  <2>2. CASE walk[c].offset = 0 /\ Route(c) = "rows"
    BY <2>2 DEF LetThrough
  <2>3. CASE ~(walk[c].offset = 0 /\ Route(c) = "rows")
    <3>1. walk' = walk /\ w = walk[c]
      BY <2>3 DEF LetThrough
    <3>2. QED
      BY <2>1, <3>1
  <2>4. QED
    BY <2>2, <2>3
<1> HIDE DEF h, w
<1>7. QED
  BY <1>3, <1>4, <1>5, <1>6, TableReader

\* A row of the next id.
LEMMA InsertTable ==
    TableInv /\ (\E c \in Clients, s \in Services : Insert(c, s)) => TableInv'
<1> SUFFICES ASSUME TableInv, NEW c \in Clients, NEW s \in Services, Insert(c, s) PROVE TableInv'
  OBVIOUS
<1> DEFINE new == <<ids + 1, s, now>>
<1>1. /\ ids \in Nat /\ now \in 1..MaxTime /\ MaxTime \in Nat /\ ids' = ids + 1
      /\ UNCHANGED <<now, rows, walk>> /\ handler[c].at = "pay" /\ handler[c] \in Handlers
      /\ handler \in [Clients -> Handlers]
  BY LimitsAssumption DEF Insert, TableInv, TableTypes
<1>2. new \in RowType /\ new[1] = ids + 1 /\ new[3] = now
  BY <1>1 DEF RowType
<1> HIDE DEF new
<1> DEFINE h == [handler[c] EXCEPT !.at = "commit", !.row = new]
<1>3. /\ h \in Handlers /\ h.page = handler[c].page /\ h.at = "commit" /\ h.row = new
      /\ handler' = [handler EXCEPT ![c] = h]
  BY <1>1, <1>2 DEF Handlers, SqlStates, Insert, new
<1> HIDE DEF h
<1>4. \A d \in Clients : handler'[d] = IF d = c THEN h ELSE handler[d]
  BY <1>1, <1>3
<1>5. TableTypes'
  <2>1. handler' \in [Clients -> Handlers]
    BY <1>1, <1>3
  <2>2. ids' \in Nat
    BY <1>1
  <2>3. \A d \in Clients : handler'[d].page = handler[d].page
    BY <1>3, <1>4
  <2>4. QED
    BY <1>1, <2>1, <2>2, <2>3 DEF TableInv, TableTypes
<1>6. IdsInv'
  <2>1. \A r \in RowType : r[1] \in Nat
    BY DEF RowType
  <2>2. \A r \in rows : r \in RowType /\ r[1] <= ids
    BY DEF TableInv, TableTypes, IdsInv
  <2>3. \A r \in rows : r[1] <= ids + 1 /\ r[1] # new[1] /\ r[3] <= now
    BY <1>1, <1>2, <2>1, <2>2 DEF TableInv, IdsInv
  <2>4. ASSUME NEW d \in Clients \ {c}, Pending(d)
        PROVE  handler[d].row \in RowType /\ handler[d].row[1] <= ids + 1 /\ handler[d].row[1] # new[1]
    BY <1>1, <1>2, <2>1, <2>4 DEF TableInv, IdsInv
  <2>5. \A d \in Clients : Pending(d)' <=> d = c \/ Pending(d)
    BY <1>3, <1>4 DEF Pending
  <2>6. now <= now
    BY <1>1
  <2>7. ids + 1 <= ids + 1
    BY <1>1
  <2>8. ASSUME NEW d \in Clients, Pending(d)'
        PROVE  /\ handler'[d].row \in RowType /\ handler'[d].row[1] <= ids' /\ handler'[d].row[3] <= now'
               /\ \A r \in rows' : r[1] # handler'[d].row[1]
               /\ \A e \in Clients \ {d} : Pending(e)' => handler'[e].row[1] # handler'[d].row[1]
    <3>1. CASE d = c
      BY <1>1, <1>2, <1>3, <1>4, <2>3, <2>4, <2>5, <2>6, <2>7, <3>1
    <3>2. CASE d # c
      <4>1. /\ Pending(d) /\ handler'[d] = handler[d] /\ handler[d].row[3] <= now
            /\ \A r \in rows : r[1] # handler[d].row[1]
            /\ \A e \in Clients \ {d} : Pending(e) => handler[e].row[1] # handler[d].row[1]
        BY <1>4, <2>5, <2>8, <3>2 DEF TableInv, IdsInv
      <4>2. \A e \in Clients \ {d} : Pending(e)' => handler'[e].row[1] # handler'[d].row[1]
        BY <1>3, <1>4, <2>4, <2>5, <3>2, <4>1
      <4>3. QED
        BY <1>1, <2>4, <3>2, <4>1, <4>2
    <3>3. QED
      BY <3>1, <3>2
  <2>9. QED
    BY <1>1, <2>3, <2>8 DEF TableInv, IdsInv
<1>7. QED
  BY <1>5, <1>6 DEF TableInv

\* The row becomes visible.
LEMMA CommitTable == TableInv /\ (\E c \in Clients : Commit(c)) => TableInv'
<1> SUFFICES ASSUME TableInv, NEW c \in Clients, Commit(c) PROVE TableInv'
  OBVIOUS
<1> DEFINE new == handler[c].row
           h == [handler[c] EXCEPT !.at = "idle", !.row = <<>>]
<1>1. /\ handler[c] \in Handlers /\ handler \in [Clients -> Handlers] /\ Pending(c)
      /\ rows' = rows \cup {new} /\ UNCHANGED <<now, ids, walk>>
  BY DEF Commit, TableInv, TableTypes, Pending
<1>2. new \in RowType /\ new[1] <= ids /\ new[3] <= now /\ \A r \in rows : r[1] # new[1]
  BY <1>1 DEF TableInv, IdsInv
<1>3. /\ h \in Handlers /\ h.page = handler[c].page /\ h.at = "idle"
      /\ handler' = [handler EXCEPT ![c] = h]
  BY <1>1 DEF Handlers, SqlStates, Commit
<1> HIDE DEF h
<1>4. \A d \in Clients : handler'[d] = IF d = c THEN h ELSE handler[d]
  BY <1>1, <1>3
<1>5. TableTypes'
  <2>1. rows' \subseteq RowType /\ IsFiniteSet(rows')
    BY <1>1, <1>2, FS_AddElement DEF TableInv, TableTypes
  <2>2. handler' \in [Clients -> Handlers] /\ \A d \in Clients : handler'[d].page = handler[d].page
    BY <1>1, <1>3, <1>4
  <2>3. QED
    BY <1>1, <2>1, <2>2 DEF TableInv, TableTypes
<1>6. IdsInv'
  <2>1. \A d \in Clients : Pending(d)' => d # c /\ Pending(d) /\ handler'[d] = handler[d]
    BY <1>3, <1>4 DEF Pending
  <2>2. \A d \in Clients \ {c} : Pending(d) => handler[d].row[1] # new[1]
    BY <1>1 DEF TableInv, IdsInv
  <2>3. QED
    BY <1>1, <1>2, <2>1, <2>2 DEF TableInv, IdsInv
<1>7. QED
  BY <1>5, <1>6 DEF TableInv

\* The order of a list is a list of all rows, each once, the newest first.
LEMMA OrderType ==
    ASSUME TableTypes, NEW order \in NewestFirst(rows)
    PROVE  LET n == Cardinality(rows)
           IN  /\ n \in Nat /\ order \in [1..n -> rows]
               /\ \A i, k \in 1..n : i # k => order[i] # order[k]
               /\ \A i, k \in 1..n : i < k => order[i][3] >= order[k][3]
               /\ \A row \in rows : \E i \in 1..n : order[i] = row
<1> DEFINE n == Cardinality(rows)
<1>1. n \in Nat /\ IsFiniteSet(rows)
  BY FS_CardinalityType DEF TableTypes
<1>2. order \in [1..n -> rows] /\ \A i, k \in 1..n : i # k => order[i] # order[k]
  BY DEF NewestFirst, SetToSeqs
<1>3. IsFiniteSet(1..n) /\ Cardinality(1..n) = n
  BY <1>1, FS_Interval
<1>4. order \in Injection(1..n, rows)
  BY <1>2 DEF Injection, IsInjective
<1>5. order \in Surjection(1..n, rows)
  BY <1>1, <1>3, <1>4, FS_Injection
<1>6. \A row \in rows : \E i \in 1..n : order[i] = row
  BY <1>5 DEF Surjection
<1>7. Len(order) = n
  <2>1. order \in Seq(rows) /\ DOMAIN order = 1..n
    BY <1>1, <1>2
  <2>2. Len(order) \in Nat /\ DOMAIN order = 1..Len(order)
    BY <2>1
  <2> HIDE DEF n
  <2>3. QED
    BY <1>1, <2>1, <2>2
<1>8. \A i, k \in 1..n : i < k => order[i][3] >= order[k][3]
  BY <1>7 DEF NewestFirst
<1>9. QED
  BY <1>1, <1>2, <1>6, <1>8

\* A page holds rows of the table, a page full of them at most.
LEMMA PageType ==
    ASSUME TableTypes, NEW order \in NewestFirst(rows), NEW offset \in Nat
    PROVE  /\ Page(order, offset) \subseteq rows /\ IsFiniteSet(Page(order, offset))
           /\ Cardinality(Page(order, offset)) <= Limit
<1> DEFINE n == Cardinality(rows)
           D == 1..n \cap (offset + 1..offset + Limit)
           P == {order[i] : i \in D}
<1>1. /\ n \in Nat /\ order \in [1..n -> rows] /\ IsFiniteSet(rows) /\ Limit \in Nat
      /\ \A i, k \in 1..n : i # k => order[i] # order[k]
  BY OrderType, LimitsAssumption DEF TableTypes
<1>2. Page(order, offset) = P
  BY <1>1 DEF Page
<1>3. P \subseteq rows /\ IsFiniteSet(P)
  <2>1. P \subseteq rows
    BY <1>1
  <2>2. QED
    BY <1>1, <2>1, FS_Subset
<1>4. IsFiniteSet(offset + 1..offset + Limit) /\ Cardinality(offset + 1..offset + Limit) = Limit
  <2>1. \A a, b \in Int : /\ IsFiniteSet(a..b)
                          /\ Cardinality(a..b) = IF a > b THEN 0 ELSE b - a + 1
    BY FS_Interval
  <2>2. /\ offset + 1 \in Int /\ offset + Limit \in Int /\ ~(offset + 1 > offset + Limit)
        /\ (offset + Limit) - (offset + 1) + 1 = Limit
    BY LimitsAssumption
  <2>3. QED
    BY <2>1, <2>2
<1>5. IsFiniteSet(D) /\ Cardinality(D) <= Limit
  BY <1>4, FS_Subset
<1>6. Cardinality(P) <= Cardinality(D)
  <2> DEFINE f == [i \in D |-> order[i]]
  <2>1. f \in Surjection(D, P)
    BY DEF Surjection
  <2> HIDE DEF f, D, P
  <2>2. QED
    BY <1>5, <2>1, FS_Surjection
<1>7. Cardinality(P) \in Nat /\ Cardinality(D) \in Nat
  BY <1>3, <1>5, FS_CardinalityType
<1> HIDE DEF P, D
<1>8. Cardinality(P) <= Limit
  BY <1>1, <1>5, <1>6, <1>7
<1>9. QED
  BY <1>2, <1>3, <1>8

\* The answers of the queries are what the table holds.
LEMMA QueriesTable ==
    ASSUME TableInv, NEW c \in Clients,
           ListRows(c) \/ CountRows(c) \/ Totals(c) \/ Groups(c) \/ QueryFails(c)
    PROVE  TableInv'
<1>1. /\ handler[c] \in Handlers /\ handler \in [Clients -> Handlers]
      /\ handler[c].page \subseteq rows /\ rows \subseteq RowType /\ IsFiniteSet(rows) /\ TableTypes
      /\ walk[c] \in Walks /\ walk \in [Clients -> Walks] /\ walk[c].since \subseteq rows
      /\ UNCHANGED <<now, rows, ids>>
  BY DEF TableInv, TableTypes, ListRows, CountRows, Totals, Groups, QueryFails
<1>2. walk' = walk => walk' = [walk EXCEPT ![c] = walk[c]]
  BY <1>1
<1>3. CASE ListRows(c)
  <2>1. PICK order \in NewestFirst(rows) :
           handler' = [handler EXCEPT ![c].at = "count", ![c].page = Page(order, walk[c].offset)]
    BY <1>3 DEF ListRows
  <2> DEFINE page == Page(order, walk[c].offset)
             h == [handler[c] EXCEPT !.at = "count", !.page = page]
  <2>2. page \subseteq rows
    BY <1>1, PageType DEF Walks
  <2>3. handler' = [handler EXCEPT ![c] = h]
    BY <1>1, <2>1
  <2> HIDE DEF page
  <2>4. h \in Handlers /\ h.at # "commit" /\ h.page \subseteq rows
    BY <1>1, <2>2 DEF Handlers, SqlStates
  <2> HIDE DEF h
  <2>5. QED
    BY <1>1, <1>2, <1>3, <2>3, <2>4, TableReader DEF ListRows
<1>4. CASE CountRows(c)
  <2> DEFINE page == handler[c].page
             read == walk[c].offset + Cardinality(page)
             h == [handler[c] EXCEPT !.at = "idle", !.page = {}]
             w == [walk[c] EXCEPT !.seen = @ \cup page, !.offset = read,
                                  !.done = ~(read < Cardinality(rows))]
  <2>1. handler' = [handler EXCEPT ![c] = h]
    BY <1>1, <1>4 DEF CountRows
  <2>2. walk' = [walk EXCEPT ![c] = w]
    BY <1>1, <1>4 DEF CountRows
  <2>3. read \in Nat
    <3>1. IsFiniteSet(page)
      BY <1>1, FS_Subset
    <3>2. Cardinality(page) \in Nat
      BY <3>1, FS_CardinalityType
    <3>3. QED
      BY <1>1, <3>2 DEF Walks
  <2>4. h \in Handlers /\ h.at # "commit" /\ h.page \subseteq rows
    BY <1>1 DEF Handlers, SqlStates
  <2> HIDE DEF read, h
  <2>5. w \in Walks /\ w.since \subseteq rows
    <3>1. page \subseteq RowType
      BY <1>1
    <3> HIDE DEF page
    <3>2. QED
      BY <1>1, <2>3, <3>1 DEF Walks
  <2> HIDE DEF w
  <2>6. QED
    BY <1>1, <2>1, <2>2, <2>4, <2>5, TableReader
<1>5. CASE Totals(c)
  <2> DEFINE h == [handler[c] EXCEPT !.at = "groups", !.total = Cardinality(rows)]
  <2>1. handler' = [handler EXCEPT ![c] = h]
    BY <1>1, <1>5 DEF Totals
  <2>2. Cardinality(rows) \in Nat
    BY <1>1, FS_CardinalityType
  <2>3. h \in Handlers /\ h.at # "commit" /\ h.page \subseteq rows
    BY <1>1, <2>2 DEF Handlers, SqlStates
  <2> HIDE DEF h
  <2>4. QED
    BY <1>1, <1>2, <1>5, <2>1, <2>3, TableReader DEF Totals
<1>6. CASE Groups(c)
  <2> DEFINE count == [s \in Services |-> Cardinality({row \in rows : row[2] = s})]
             sum == SumFunctionOnSet(count, Services)
             h == [handler[c] EXCEPT !.at = "idle", !.groups = sum]
  <2>1. handler' = [handler EXCEPT ![c] = h]
    BY <1>1, <1>6 DEF Groups
  <2>2. \A s \in Services : count[s] \in Nat
    <3>1. ASSUME NEW s \in Services PROVE Cardinality({row \in rows : row[2] = s}) \in Nat
      <4>1. IsFiniteSet({row \in rows : row[2] = s})
        BY <1>1, FS_Subset
      <4>2. QED
        BY <4>1, FS_CardinalityType
    <3>2. QED
      BY <3>1
  <2> HIDE DEF count
  <2>3. sum \in Nat
    BY <2>2, LimitsAssumption, SumNat
  <2> HIDE DEF sum
  <2>4. h \in Handlers /\ h.at # "commit" /\ h.page \subseteq rows
    BY <1>1, <2>3 DEF Handlers, SqlStates
  <2> HIDE DEF h
  <2>5. QED
    BY <1>1, <1>2, <1>6, <2>1, <2>4, TableReader DEF Groups
<1>7. CASE QueryFails(c)
  <2> DEFINE h == [Idle EXCEPT !.asks = handler[c].asks]
  <2>1. handler' = [handler EXCEPT ![c] = h]
    BY <1>7 DEF QueryFails
  <2>2. h \in Handlers /\ h.at # "commit" /\ h.page \subseteq rows
    BY <1>1 DEF Handlers, SqlStates, Idle
  <2> HIDE DEF h
  <2>3. QED
    BY <1>1, <1>2, <1>7, <2>1, <2>2, TableReader DEF QueryFails
<1>8. QED
  BY <1>3, <1>4, <1>5, <1>6, <1>7

\* A restart drops what was inserted and not committed.
LEMMA RestartTable == TableInv /\ Restart => TableInv'
<1> SUFFICES ASSUME TableInv, Restart PROVE TableInv'
  OBVIOUS
<1>1. /\ handler' = [c \in Clients |-> [Idle EXCEPT !.asks = handler[c].asks]]
      /\ UNCHANGED <<now, rows, ids, walk>> /\ handler \in [Clients -> Handlers]
  BY DEF Restart, TableInv, TableTypes
<1>2. \A c \in Clients : /\ handler'[c] \in Handlers /\ handler'[c].at = "idle"
                         /\ handler'[c].page = {} /\ handler'[c].asks = handler[c].asks
  BY <1>1 DEF Handlers, SqlStates, Idle
<1>3. handler' \in [Clients -> Handlers]
  BY <1>1, <1>2
<1>4. TableTypes'
  BY <1>1, <1>2, <1>3 DEF TableInv, TableTypes
<1>5. IdsInv'
  BY <1>1, <1>2 DEF TableInv, IdsInv, Pending
<1>6. QED
  BY <1>4, <1>5 DEF TableInv

LEMMA TableStep == TableInv /\ [Next]_vars => TableInv'
<1> SUFFICES ASSUME TableInv, [Next]_vars PROVE TableInv'
  OBVIOUS
<1>0. now \in 1..MaxTime /\ MaxTime \in Nat
  BY LimitsAssumption DEF TableInv, TableTypes
<1>1. CASE Tick
  BY <1>0, <1>1, TableQuiet DEF Tick
<1>2. CASE Cleanup
  BY <1>0, <1>2, TableQuiet DEF Cleanup
<1>3. CASE Restart
  BY <1>3, RestartTable
<1>4. ASSUME NEW c \in Clients, Refuse(c) PROVE TableInv'
  <2>1. handler[c] \in Handlers /\ handler \in [Clients -> Handlers] /\ IdsInv /\ TableTypes
    BY DEF TableInv, TableTypes
  <2> DEFINE h == [handler[c] EXCEPT !.asks = @ + 1]
  <2>2. h \in Handlers /\ h.at = handler[c].at /\ h.page = handler[c].page
    BY <2>1 DEF Handlers
  <2>3. handler' = [handler EXCEPT ![c] = h] /\ UNCHANGED <<now, rows, ids, walk>>
    BY <1>4, <2>1 DEF Refuse
  <2>4. handler[c].at = "idle" /\ handler[c].page \subseteq rows /\ walk[c].since \subseteq rows
    BY <1>4 DEF Refuse, TableInv, TableTypes
  <2>5. walk[c] \in Walks /\ walk' = [walk EXCEPT ![c] = walk[c]]
    BY <2>1, <2>3 DEF TableTypes
  <2> HIDE DEF h
  <2>6. QED
    BY <2>2, <2>3, <2>4, <2>5, TableReader
<1>5. CASE \E c \in Clients : LetThrough(c)
  BY <1>5, LetThroughTable
<1>6. ASSUME NEW c \in Clients, Handle(c) PROVE TableInv'
  BY <1>6, InsertTable, CommitTable, QueriesTable DEF Handle
<1>7. CASE UNCHANGED vars
  BY <1>0, <1>7, TableQuiet DEF vars
<1>8. QED
  BY <1>1, <1>2, <1>3, <1>4, <1>5, <1>6, <1>7 DEF Next

LEMMA TableAlways == Spec => []TableInv
  BY TableInit, TableStep, PTL DEF Spec

-----------------------------------------------------------------------------
(* Types, and Retry-After                                                  *)

BucketInv ==
    \A ip \in Ips : bucket[ip] = NoBucket \/ (bucket[ip].count \in Nat \ {0}
                                              /\ bucket[ip].resetAt \in 1..now + Window)

\* A bucket's end is never further away than the window is long.
LEMMA BucketStep == LimiterInv /\ BucketInv /\ [Next]_vars => BucketInv'
<1> SUFFICES ASSUME LimiterInv, BucketInv, [Next]_vars PROVE BucketInv'
  OBVIOUS
<1>0. /\ now \in 1..MaxTime /\ MaxTime \in Nat /\ Window \in Nat \ {0}
      /\ bucket \in [Ips -> [count : Nat, resetAt : Nat]]
  BY LimitsAssumption DEF LimiterInv, LimiterTypes
<1>1. CASE bucket' = bucket /\ now' \in {now, now + 1}
  BY <1>0, <1>1 DEF BucketInv
<1>2. CASE Cleanup
  BY <1>2 DEF Cleanup, BucketInv
<1>3. CASE Restart
  BY <1>3 DEF Restart, BucketInv
<1>4. ASSUME NEW c \in Clients, Refuse(c) \/ LetThrough(c) PROVE BucketInv'
  <2> DEFINE ip == Ip[c]
             b == Counted(ip)
  <2>1. ip \in Ips /\ bucket' = [bucket EXCEPT ![ip] = b] /\ now' = now
    BY <1>4 DEF Refuse, LetThrough, Ips
  <2> HIDE DEF ip
  <2>2. b.count \in Nat \ {0} /\ b.resetAt \in 1..now + Window
    <3>1. CASE Fresh(bucket[ip])
      <4>1. bucket[ip].count \in Nat /\ bucket[ip].resetAt \in 1..now + Window
        BY <1>0, <2>1, <3>1 DEF BucketInv, Fresh, NoBucket
      <4>2. b.count = bucket[ip].count + 1 /\ b.resetAt = bucket[ip].resetAt
        BY <1>0, <2>1, <3>1 DEF Counted
      <4>3. QED
        BY <4>1, <4>2
    <3>2. CASE ~Fresh(bucket[ip])
      BY <1>0, <3>2 DEF Counted
    <3>3. QED
      BY <3>1, <3>2
  <2> HIDE DEF b
  <2>3. QED
    BY <1>0, <2>1, <2>2 DEF BucketInv
<1>5. CASE Tick \/ UNCHANGED vars \/ \E c \in Clients : Handle(c)
  <2>1. bucket' = bucket /\ now' \in {now, now + 1}
    BY <1>5 DEF Tick, vars, Handle, Insert, Commit, ListRows, CountRows, Totals, Groups, QueryFails
  <2>2. QED
    BY <1>1, <2>1
<1>6. QED
  BY <1>2, <1>3, <1>4, <1>5 DEF Next

\* Types: buckets, times, the states of a request, and ids that no two rows share.
THEOREM FrontTypeCorrect == Spec => []TypeOK
<1>1. Init => BucketInv
  BY DEF Init, BucketInv
<1>2. TableInv /\ LimiterInv /\ BucketInv => TypeOK
  <2> SUFFICES ASSUME TableInv, LimiterInv, BucketInv PROVE TypeOK
    OBVIOUS
  <2>1. \A c \in Clients : handler[c].at \in SqlStates
    BY DEF TableInv, TableTypes, Handlers
  <2>2. now \in 1..MaxTime /\ IdsInv
    BY DEF TableInv, TableTypes
  <2>3. QED
    BY <2>1, <2>2 DEF TypeOK, BucketInv, IdsInv, SqlStates
<1>3. QED
  BY <1>1, <1>2, TableAlways, LimiterInit, LimiterStep, BucketStep, PTL DEF Spec

\* Requests are counted where they are refused or let through, nowhere else.
LEMMA AsksStep ==
    ASSUME TableInv, [Next]_vars, NEW c \in Clients, handler'[c].asks > handler[c].asks
    PROVE  Refuse(c) \/ LetThrough(c)
<1>0. /\ handler \in [Clients -> Handlers] /\ handler[c].asks \in Nat
      /\ ~(handler[c].asks > handler[c].asks)
  BY DEF TableInv, TableTypes, Handlers
<1>1. ASSUME NEW d \in Clients, Refuse(d) \/ LetThrough(d), d # c PROVE FALSE
  BY <1>0, <1>1 DEF Refuse, LetThrough
<1>2. ASSUME NEW d \in Clients, Handle(d) PROVE FALSE
  <2>1. handler'[c].asks = handler[c].asks
    <3>1. handler[c] \in Handlers /\ handler[d] \in Handlers
      BY <1>0
    <3>2. CASE \E s \in Services : Insert(d, s)
      BY <1>0, <3>1, <3>2 DEF Insert, Handlers
    <3>3. CASE Commit(d)
      BY <1>0, <3>1, <3>3 DEF Commit, Handlers
    <3>4. CASE ListRows(d)
      BY <1>0, <3>1, <3>4 DEF ListRows, Handlers
    <3>5. CASE CountRows(d)
      BY <1>0, <3>1, <3>5 DEF CountRows, Handlers
    <3>6. CASE Totals(d)
      BY <1>0, <3>1, <3>6 DEF Totals, Handlers
    <3>7. CASE Groups(d)
      BY <1>0, <3>1, <3>7 DEF Groups, Handlers
    <3>8. CASE QueryFails(d)
      BY <1>0, <3>1, <3>8 DEF QueryFails, Handlers, Idle
    <3>9. QED
      BY <1>2, <3>2, <3>3, <3>4, <3>5, <3>6, <3>7, <3>8 DEF Handle
  <2>2. QED
    BY <1>0, <2>1
<1>3. CASE Restart
  BY <1>0, <1>3 DEF Restart, Idle
<1>4. CASE Tick \/ Cleanup \/ UNCHANGED vars
  BY <1>0, <1>4 DEF Tick, Cleanup, vars
<1>5. QED
  BY <1>1, <1>2, <1>3, <1>4 DEF Next

\* createRateLimiter, line 39: who comes back as late as Retry-After said is
\* refused again only once the maximum got through since the window it was of.
THEOREM RetryAfterAlwaysKept == Spec => RetryAfterKept
<1>1. TableInv /\ LimiterInv /\ [Next]_vars =>
        [\A ip \in Ips :
            LET asked(c) == Ip[c] = ip /\ handler'[c].asks > handler[c].asks
                refused == (\E c \in Clients : asked(c)) /\ passed'[ip] = passed[ip]
            IN  (refused /\ promise[ip] # NoPromise /\ promise[ip].back <= now)
                   => Within(ip, promise[ip].ends, now) >= MaxRequests]_vars
  <2> SUFFICES ASSUME TableInv, LimiterInv, [Next]_vars, NEW ip \in Ips,
                      NEW c \in Clients, Ip[c] = ip, handler'[c].asks > handler[c].asks,
                      passed'[ip] = passed[ip], promise[ip] # NoPromise, promise[ip].back <= now
               PROVE  Within(ip, promise[ip].ends, now) >= MaxRequests
    BY Zenon
  <2>1. /\ now \in 1..MaxTime /\ MaxTime \in Nat /\ Window \in Nat \ {0} /\ MaxRequests \in Nat
        /\ bucket[ip] \in [count : Nat, resetAt : Nat] /\ LimiterTypes /\ AddressInv(ip)
        /\ promise[ip] \in [ends : Nat, back : Nat] /\ passed[ip] \in [1..MaxTime -> Nat]
    BY LimitsAssumption DEF LimiterInv, LimiterTypes
  <2>2. ~LetThrough(c)
    <3>1. LetThrough(c) => passed'[ip] = [passed[ip] EXCEPT ![now] = @ + 1]
      BY DEF LetThrough, LimiterInv, LimiterTypes
    <3>2. passed[ip][now] \in Nat
      BY <2>1
    <3>3. QED
      BY <2>1, <3>1, <3>2
  <2>3. CountedOut(ip)
    BY <2>2, AsksStep DEF Refuse
  <2>4. Fresh(bucket[ip]) /\ bucket[ip].count >= MaxRequests /\ bucket[ip].resetAt > now
    BY <2>1, <2>3 DEF CountedOut, Fresh
  <2>5. WhileFresh(ip) /\ PromiseInv(ip) /\ Granted(ip) = MaxRequests
    BY <2>1, <2>4 DEF AddressInv, Granted
  <2>6. promise[ip].ends <= OpenedAt(ip) /\ promise[ip].ends <= now
    BY <2>1, <2>4, <2>5 DEF PromiseInv
  <2>7. Within(ip, promise[ip].ends, now) = Since(ip, promise[ip].ends)
    BY <2>1, WithinType
  <2>8. CASE promise[ip].ends >= 1
    <3>1. promise[ip].ends \in 1..MaxTime
      BY <2>1, <2>6, <2>8
    <3>2. QED
      BY <2>5, <2>6, <2>7, <3>1 DEF WhileFresh
  <2>9. CASE promise[ip].ends = 0
    <3>1. Times(0, MaxTime) = Times(1, MaxTime)
      BY <2>1 DEF Times
    <3>2. Since(ip, 0) = Since(ip, 1)
      BY <3>1, Zenon DEF Since, Within, Times
    <3>3. Since(ip, 1) >= Granted(ip)
      BY <2>1, <2>5 DEF WhileFresh
    <3>4. QED
      BY <2>5, <2>7, <2>9, <3>2, <3>3
  <2>10. QED
    BY <2>1, <2>8, <2>9
<1>2. QED
  BY <1>1, TableAlways, LimiterAlways, PTL DEF Spec, RetryAfterKept

-----------------------------------------------------------------------------
(* Reading page by page                                                    *)

\* What stands above a row in the list, whatever the order of equal times.
Newer(row) == {other \in rows : other[3] > row[3]}

\* A row that shares its time with no other.
Alone(row) == \A other \in rows : other # row => other[3] # row[3]

\* Of the rows there were when the client began, the ones that stand alone and
\* now have fewer rows above them than the client has read are read.
RowsRead(c) ==
    /\ \A row \in walk[c].since :
          Alone(row) /\ Cardinality(Newer(row)) < walk[c].offset => row \in walk[c].seen
    /\ handler[c].at = "count" => \A row \in walk[c].since :
          Alone(row) /\ Cardinality(Newer(row)) < walk[c].offset + Cardinality(handler[c].page)
             => row \in walk[c].seen \cup handler[c].page

\* A client that is done has read all of them.
DoneReading(c) ==
    walk[c].done => \A row \in walk[c].since : Alone(row) => row \in walk[c].seen

PagingInv == \A c \in Clients : RowsRead(c) /\ DoneReading(c)

\* The rows above a row are part of the table, and do not include it.
LEMMA NewerType ==
    ASSUME TableTypes, NEW row \in rows
    PROVE  /\ IsFiniteSet(Newer(row)) /\ Cardinality(Newer(row)) \in Nat
           /\ Cardinality(Newer(row)) < Cardinality(rows)
<1>1. IsFiniteSet(rows) /\ row[3] \in Int
  BY DEF TableTypes, RowType
<1>2. Newer(row) \in SUBSET rows /\ row \notin Newer(row)
  BY <1>1 DEF Newer
<1>3. /\ IsFiniteSet(Newer(row)) /\ Cardinality(Newer(row)) <= Cardinality(rows)
      /\ Cardinality(rows) # Cardinality(Newer(row))
  BY <1>1, <1>2, FS_Subset
<1>4. Cardinality(Newer(row)) \in Nat /\ Cardinality(rows) \in Nat
  BY <1>1, <1>3, FS_CardinalityType
<1>5. QED
  BY <1>3, <1>4

\* In any order of the list, a row that stands alone is preceded by exactly
\* the rows above it.
LEMMA PositionOf ==
    ASSUME TableTypes, NEW order \in NewestFirst(rows), NEW row \in rows, Alone(row)
    PROVE  \E i \in 1..Cardinality(rows) : order[i] = row /\ Cardinality(Newer(row)) = i - 1
<1> DEFINE n == Cardinality(rows)
<1>1. /\ n \in Nat /\ order \in [1..n -> rows]
      /\ \A i, k \in 1..n : i # k => order[i] # order[k]
      /\ \A i, k \in 1..n : i < k => order[i][3] >= order[k][3]
      /\ \A r \in rows : \E i \in 1..n : order[i] = r
  BY OrderType
<1>2. \A r \in rows : r[3] \in Int
  BY DEF TableTypes, RowType
<1> HIDE DEF n
<1>3. PICK i \in 1..n : order[i] = row
  BY <1>1
<1>4. ASSUME NEW k \in 1..n PROVE order[k] \in Newer(row) <=> k < i
  <2>1. order[k] \in rows /\ order[k][3] \in Int /\ row[3] \in Int
    BY <1>1, <1>2
  <2>2. CASE k < i
    <3>1. order[k][3] >= row[3] /\ order[k] # row
      BY <1>1, <1>3, <2>2
    <3>2. order[k][3] # row[3]
      BY <2>1, <3>1 DEF Alone
    <3>3. QED
      BY <2>1, <2>2, <3>1, <3>2 DEF Newer
  <2>3. CASE k > i
    <3>1. row[3] >= order[k][3]
      BY <1>1, <1>3, <2>3
    <3>2. QED
      BY <1>1, <2>1, <2>3, <3>1 DEF Newer
  <2>4. CASE k = i
    BY <1>1, <1>3, <2>1, <2>4 DEF Newer
  <2>5. QED
    BY <1>1, <2>2, <2>3, <2>4
<1> DEFINE D == 1..i - 1
           f == [k \in D |-> order[k]]
<1>5. D \subseteq 1..n /\ \A k \in 1..n : k \in D <=> k < i
  BY <1>1
<1>6. f \in Surjection(D, Newer(row)) /\ f \in Injection(D, Newer(row))
  <2>1. f \in [D -> Newer(row)] /\ \A k, m \in D : f[k] = f[m] => k = m
    BY <1>1, <1>4, <1>5
  <2>2. \A r \in Newer(row) : \E k \in D : f[k] = r
    <3>1. TAKE r \in Newer(row)
    <3>2. r \in rows
      BY DEF Newer
    <3>3. PICK k \in 1..n : order[k] = r
      BY <1>1, <3>2
    <3>4. k \in D
      BY <1>4, <1>5, <3>3
    <3>5. QED
      BY <3>3, <3>4
  <2> HIDE DEF f, D
  <2>3. QED
    BY <2>1, <2>2 DEF Surjection, Injection, IsInjective
<1>7. IsFiniteSet(D) /\ Cardinality(D) = i - 1
  <2>1. \A a, b \in Int : /\ IsFiniteSet(a..b)
                          /\ Cardinality(a..b) = IF a > b THEN 0 ELSE b - a + 1
    BY FS_Interval
  <2>2. i - 1 \in Int /\ (IF 1 > i - 1 THEN 0 ELSE (i - 1) - 1 + 1) = i - 1
    BY <1>1
  <2>3. QED
    BY <2>1, <2>2
<1> HIDE DEF f, D
<1>8. Cardinality(Newer(row)) = Cardinality(D)
  BY <1>6, <1>7, FS_Surjection
<1>9. QED
  BY <1>3, <1>7, <1>8 DEF n

\* Rows that come in later take nothing from what was read: they can only
\* push a row further down, or take its standing alone.
LEMMA RowsGrow ==
    ASSUME TableTypes, TableTypes', rows \subseteq rows', NEW row \in rows
    PROVE  /\ Alone(row)' => Alone(row)
           /\ Cardinality(Newer(row)) <= Cardinality(Newer(row)')
<1>1. Alone(row)' => Alone(row)
  BY DEF Alone
<1>2. Newer(row)' = {other \in rows' : other[3] > row[3]}
  BY DEF Newer
<1> DEFINE S == {other \in rows' : other[3] > row[3]}
<1>3. Newer(row) \in SUBSET S
  BY DEF Newer
<1>4. IsFiniteSet(rows') /\ S \in SUBSET rows'
  BY DEF TableTypes
<1> HIDE DEF S
<1>5. IsFiniteSet(S)
  BY <1>4, FS_Subset
<1>6. Cardinality(Newer(row)) <= Cardinality(S)
  BY <1>3, <1>5, FS_Subset
<1>7. QED
  BY <1>1, <1>2, <1>6 DEF S

\* A client that does not move keeps what it has read.
LEMMA StandsStill ==
    ASSUME TableInv, TableInv', rows \subseteq rows', NEW c \in Clients,
           RowsRead(c), DoneReading(c), walk'[c] = walk[c],
           handler'[c].at # "count" \/ (handler'[c].at = handler[c].at
                                        /\ handler'[c].page = handler[c].page)
    PROVE  RowsRead(c)' /\ DoneReading(c)'
<1>1. TableTypes /\ TableTypes' /\ walk[c].since \subseteq rows /\ walk[c] \in Walks
  BY DEF TableInv, TableTypes
<1>2. ASSUME NEW row \in walk[c].since
      PROVE  /\ Alone(row)' => Alone(row)
             /\ Cardinality(Newer(row)) <= Cardinality(Newer(row)')
             /\ Cardinality(Newer(row)) \in Nat /\ Cardinality(Newer(row)') \in Nat
  <2>1. row \in rows /\ row \in rows'
    BY <1>1
  <2>2. IsFiniteSet(Newer(row)') /\ Cardinality(Newer(row)') \in Nat
    <3> DEFINE S == {other \in rows' : other[3] > row[3]}
    <3>1. Newer(row)' = S /\ S \in SUBSET rows' /\ IsFiniteSet(rows')
      BY <1>1 DEF Newer, TableTypes
    <3> HIDE DEF S
    <3>2. QED
      BY <3>1, FS_Subset, FS_CardinalityType
  <2>3. QED
    BY <1>1, <2>1, <2>2, RowsGrow, NewerType
<1>3. \A row \in walk[c].since : \A m \in Int :
         Alone(row)' /\ Cardinality(Newer(row)') < m => Alone(row) /\ Cardinality(Newer(row)) < m
  BY <1>2
<1>4. walk[c].offset \in Int
  BY <1>1 DEF Walks
<1>5. \A row \in walk[c].since :
         Alone(row)' /\ Cardinality(Newer(row)') < walk[c].offset => row \in walk[c].seen
  BY <1>3, <1>4 DEF RowsRead
<1>6. ASSUME handler'[c].at = "count"
      PROVE  \A row \in walk[c].since :
                Alone(row)' /\ Cardinality(Newer(row)') < walk[c].offset + Cardinality(handler[c].page)
                   => row \in walk[c].seen \cup handler[c].page
  <2>1. handler[c].at = "count" /\ handler[c].page \subseteq rows /\ IsFiniteSet(rows)
    BY <1>6 DEF TableInv, TableTypes
  <2>2. Cardinality(handler[c].page) \in Nat
    BY <2>1, FS_Subset, FS_CardinalityType
  <2>3. walk[c].offset + Cardinality(handler[c].page) \in Int
    BY <1>4, <2>2
  <2>4. QED
    BY <1>3, <2>1, <2>3 DEF RowsRead
<1>7. RowsRead(c)'
  BY <1>5, <1>6 DEF RowsRead
<1>8. DoneReading(c)'
  BY <1>2 DEF DoneReading
<1>9. QED
  BY <1>7, <1>8

\* A page brings the rows that stand at its positions.
LEMMA ListRowsReads ==
    ASSUME TableInv, NEW c \in Clients, RowsRead(c), DoneReading(c), ListRows(c)
    PROVE  RowsRead(c)' /\ DoneReading(c)'
<1>1. /\ TableTypes /\ walk[c].since \subseteq rows /\ walk[c] \in Walks /\ Limit \in Nat
      /\ handler \in [Clients -> Handlers] /\ UNCHANGED <<rows, walk>>
  BY LimitsAssumption DEF TableInv, TableTypes, ListRows
<1>2. PICK order \in NewestFirst(rows) :
         handler' = [handler EXCEPT ![c].at = "count", ![c].page = Page(order, walk[c].offset)]
  BY DEF ListRows
<1> DEFINE page == Page(order, walk[c].offset)
<1>3. handler'[c].page = page
  BY <1>1, <1>2 DEF Handlers
<1>4. walk[c].offset \in Nat
  BY <1>1 DEF Walks
<1>5. IsFiniteSet(page) /\ Cardinality(page) <= Limit /\ Cardinality(page) \in Nat
  BY <1>1, <1>4, PageType, FS_CardinalityType
<1>6. ASSUME NEW row \in walk[c].since, Alone(row),
             Cardinality(Newer(row)) < walk[c].offset + Cardinality(page)
      PROVE  row \in walk[c].seen \cup page
  <2>1. PICK i \in 1..Cardinality(rows) : order[i] = row /\ Cardinality(Newer(row)) = i - 1
    BY <1>1, <1>6, PositionOf
  <2>2. CASE i <= walk[c].offset
    <3>1. Cardinality(Newer(row)) < walk[c].offset
      BY <1>4, <2>1, <2>2
    <3>2. QED
      BY <1>6, <3>1 DEF RowsRead
  <2>3. CASE i > walk[c].offset
    <3>1. i \in walk[c].offset + 1..walk[c].offset + Limit
      BY <1>1, <1>4, <1>5, <1>6, <2>1, <2>3
    <3>2. DOMAIN order = 1..Cardinality(rows)
      BY <1>1, OrderType
    <3>3. QED
      BY <2>1, <3>1, <3>2 DEF Page
  <2>4. QED
    BY <1>4, <2>2, <2>3
<1>7. \A row : (Alone(row)' <=> Alone(row)) /\ Newer(row)' = Newer(row)
  BY <1>1 DEF Alone, Newer
<1> HIDE DEF page
<1>8. RowsRead(c)'
  BY <1>1, <1>3, <1>6, <1>7 DEF RowsRead
<1>9. DoneReading(c)'
  BY <1>1, <1>7 DEF DoneReading
<1>10. QED
  BY <1>8, <1>9

\* The count moves the client on; where it ends, no row has more rows above it
\* than were read.
LEMMA CountRowsReads ==
    ASSUME TableInv, NEW c \in Clients, RowsRead(c), DoneReading(c), CountRows(c)
    PROVE  RowsRead(c)' /\ DoneReading(c)'
<1> DEFINE page == handler[c].page
           read == walk[c].offset + Cardinality(page)
<1>1. /\ TableTypes /\ walk[c].since \subseteq rows /\ walk[c] \in Walks
      /\ walk \in [Clients -> Walks] /\ IsFiniteSet(rows) /\ page \subseteq rows
      /\ handler[c] \in Handlers /\ handler \in [Clients -> Handlers]
      /\ handler[c].at = "count" /\ UNCHANGED rows
  BY DEF TableInv, TableTypes, CountRows
<1>2. /\ walk'[c].seen = walk[c].seen \cup page /\ walk'[c].offset = read
      /\ walk'[c].done = ~(read < Cardinality(rows)) /\ walk'[c].since = walk[c].since
      /\ handler'[c].at = "idle"
  BY <1>1 DEF CountRows, Walks, Handlers
<1>3. \A row \in walk[c].since :
         Alone(row) /\ Cardinality(Newer(row)) < read => row \in walk[c].seen \cup page
  BY <1>1 DEF RowsRead
<1>4. read \in Nat /\ Cardinality(rows) \in Nat
  BY <1>1, FS_Subset, FS_CardinalityType DEF Walks
<1>5. \A row \in rows : Cardinality(Newer(row)) \in Nat /\ Cardinality(Newer(row)) < Cardinality(rows)
  BY <1>1, NewerType
<1>6. \A row : (Alone(row)' <=> Alone(row)) /\ Newer(row)' = Newer(row)
  BY <1>1 DEF Alone, Newer
<1> HIDE DEF page, read
<1>7. RowsRead(c)'
  BY <1>2, <1>3, <1>6 DEF RowsRead
<1>8. DoneReading(c)'
  <2>1. ASSUME walk'[c].done, NEW row \in walk[c].since, Alone(row)
        PROVE  row \in walk[c].seen \cup page
    <3>1. row \in rows
      BY <1>1
    <3>2. ~(read < Cardinality(rows))
      BY <1>2, <2>1, Zenon
    <3>3. Cardinality(Newer(row)) < read
      BY <1>4, <1>5, <3>1, <3>2
    <3>4. QED
      BY <1>3, <2>1, <3>3
  <2>2. QED
    BY <1>2, <1>6, <2>1 DEF DoneReading
<1>9. QED
  BY <1>7, <1>8

\* A new list begins with nothing read of the rows there are.
LEMMA LetThroughReads ==
    ASSUME TableInv, TableInv', NEW c \in Clients, RowsRead(c), DoneReading(c), LetThrough(c)
    PROVE  RowsRead(c)' /\ DoneReading(c)'
<1>1. /\ walk \in [Clients -> Walks] /\ walk[c] \in Walks /\ rows' = rows
      /\ handler \in [Clients -> Handlers] /\ TableTypes
      /\ handler'[c].at = Route(c) /\ Route(c) # "count"
  BY DEF TableInv, TableTypes, LetThrough, Route, Idle
<1>2. CASE walk' = walk
  BY <1>1, <1>2, StandsStill
<1>3. CASE walk[c].offset = 0 /\ Route(c) = "rows"
  <2>1. /\ walk'[c].since = rows /\ walk'[c].offset = 0 /\ walk'[c].done = walk[c].done
        /\ Kind[c] = "page"
    BY <1>1, <1>3 DEF LetThrough, Walks, Route
  <2>2. ~walk'[c].done
    BY <2>1 DEF LetThrough
  <2>3. \A row \in rows : Cardinality(Newer(row)') \in Nat
    <3>1. \A row \in rows : Cardinality(Newer(row)) \in Nat /\ Newer(row)' = Newer(row)
      BY <1>1, NewerType DEF Newer
    <3>2. QED
      BY <3>1
  <2>4. \A row \in walk'[c].since : ~(Cardinality(Newer(row)') < walk'[c].offset)
    BY <2>1, <2>3
  <2>5. QED
    BY <1>1, <2>2, <2>4 DEF RowsRead, DoneReading
<1>4. QED
  BY <1>2, <1>3 DEF LetThrough

LEMMA PagingStep == TableInv /\ TableInv' /\ PagingInv /\ [Next]_vars => PagingInv'
<1> SUFFICES ASSUME TableInv, TableInv', PagingInv, [Next]_vars PROVE PagingInv'
  OBVIOUS
<1>0. \A d \in Clients : RowsRead(d) /\ DoneReading(d)
  BY DEF PagingInv
<1>1. ASSUME NEW c \in Clients, UNCHANGED rows,
             \A d \in Clients \ {c} : walk'[d] = walk[d] /\ handler'[d] = handler[d],
             RowsRead(c)' /\ DoneReading(c)'
      PROVE  PagingInv'
  <2>1. ASSUME NEW d \in Clients \ {c} PROVE RowsRead(d)' /\ DoneReading(d)'
    BY <1>0, <1>1, <2>1, StandsStill
  <2>2. QED
    BY <1>1, <2>1 DEF PagingInv
<1>2. ASSUME rows \subseteq rows', UNCHANGED walk,
             \A d \in Clients : handler'[d].at # "count"
                \/ (handler'[d].at = handler[d].at /\ handler'[d].page = handler[d].page)
      PROVE  PagingInv'
  <2>1. ASSUME NEW d \in Clients PROVE RowsRead(d)' /\ DoneReading(d)'
    BY <1>0, <1>2, <2>1, StandsStill
  <2>2. QED
    BY <2>1 DEF PagingInv
<1>3. handler \in [Clients -> Handlers] /\ walk \in [Clients -> Walks]
  BY DEF TableInv, TableTypes
<1>4. CASE Tick \/ Cleanup \/ UNCHANGED vars
  BY <1>2, <1>4 DEF Tick, Cleanup, vars
<1>5. CASE Restart
  <2>1. \A d \in Clients : handler'[d].at = "idle"
    BY <1>5 DEF Restart, Idle
  <2>2. QED
    BY <1>2, <1>5, <2>1 DEF Restart
<1>6. ASSUME NEW c \in Clients, Refuse(c) PROVE PagingInv'
  <2>1. \A d \in Clients : handler'[d].at = handler[d].at /\ handler'[d].page = handler[d].page
    BY <1>3, <1>6 DEF Refuse, Handlers
  <2>2. QED
    BY <1>2, <1>6, <2>1 DEF Refuse
<1>7. ASSUME NEW c \in Clients, LetThrough(c) PROVE PagingInv'
  <2>1. RowsRead(c)' /\ DoneReading(c)'
    BY <1>0, <1>7, LetThroughReads
  <2>2. UNCHANGED rows /\ \A d \in Clients \ {c} : walk'[d] = walk[d] /\ handler'[d] = handler[d]
    BY <1>3, <1>7 DEF LetThrough
  <2>3. QED
    BY <1>1, <2>1, <2>2
<1>8. ASSUME NEW c \in Clients, ListRows(c) \/ CountRows(c) PROVE PagingInv'
  <2>1. RowsRead(c)' /\ DoneReading(c)'
    BY <1>0, <1>8, ListRowsReads, CountRowsReads
  <2>2. UNCHANGED rows /\ \A d \in Clients \ {c} : walk'[d] = walk[d] /\ handler'[d] = handler[d]
    BY <1>3, <1>8 DEF ListRows, CountRows
  <2>3. QED
    BY <1>1, <2>1, <2>2
<1>9. ASSUME NEW c \in Clients,
             (\E s \in Services : Insert(c, s)) \/ Commit(c) \/ Totals(c) \/ Groups(c) \/ QueryFails(c)
      PROVE  PagingInv'
  <2>1. rows \subseteq rows' /\ UNCHANGED walk
    BY <1>9 DEF Insert, Commit, Totals, Groups, QueryFails
  <2>2. handler'[c].at # "count" /\ \A d \in Clients \ {c} : handler'[d] = handler[d]
    BY <1>3, <1>9 DEF Insert, Commit, Totals, Groups, QueryFails, Handlers, Idle
  <2>3. \A d \in Clients : handler'[d].at # "count"
           \/ (handler'[d].at = handler[d].at /\ handler'[d].page = handler[d].page)
    BY <2>2
  <2>4. QED
    BY <1>2, <2>1, <2>3
<1>10. QED
  BY <1>4, <1>5, <1>6, <1>7, <1>8, <1>9 DEF Next, Handle

\* listPayments: whoever reads page by page to the end has seen every row that
\* was there at the beginning, unless its time is another row's as well, for
\* any page size and however many rows come in meanwhile.
THEOREM PagingAlwaysMissesNothing == Spec => []PagingMissesNothing
<1>1. Init => PagingInv
  BY DEF Init, PagingInv, RowsRead, DoneReading, NoWalk
<1>2. TableInv /\ PagingInv => PagingMissesNothing
  <2> SUFFICES ASSUME TableInv, PagingInv, NEW c \in Clients, walk[c].done,
                      NEW row \in walk[c].since \ walk[c].seen
               PROVE  \E other \in rows : other # row /\ other[3] = row[3]
    BY DEF PagingMissesNothing
  <2>1. ~Alone(row)
    BY DEF PagingInv, DoneReading
  <2>2. QED
    BY <2>1 DEF Alone
<1>3. QED
  BY <1>1, <1>2, TableAlways, PagingStep, PTL DEF Spec

-----------------------------------------------------------------------------
(* The table of routes                                                     *)

\* What the proofs read of a row.
RowOk(row) ==
    /\ row.service \in STRING \ Parameters /\ row.path \in Seq(STRING)
    /\ row.bodyToQuery => row.inUrl \in BLOCKED_QUERY_KEYS \cup {""}

Table == allGatewayRoutes

\* What is sold: finitely many rows of that kind.
LEMMA RowsType ==
    /\ Rows \in SUBSET (Nat \ {0}) /\ IsFiniteSet(Rows) /\ Rows \subseteq DOMAIN Table
    /\ \A i \in Rows : gatewayRoutes[i] = Table[i] /\ RowOk(Table[i])
                      /\ Table[i].service \in enabledServiceIds
<1>1. Len(Table) \in Nat /\ DOMAIN Table = 1..Len(Table)
  BY RowsAssumption DEF Table
<1>2. Rows \in SUBSET (1..Len(Table))
  BY <1>1 DEF Rows, Table
<1>3. IsFiniteSet(Rows)
  <2>1. IsFiniteSet(1..Len(Table))
    BY <1>1, FS_Interval
  <2>2. QED
    BY <1>2, <2>1, FS_Subset
<1>4. ASSUME NEW i \in DOMAIN Table PROVE RowOk(Table[i])
  <2> DEFINE Row == [service : STRING, path : Seq(STRING), price : Nat,
                     upstreamMethod : {"GET", "POST"}, bodyToQuery : BOOLEAN,
                     requiredEnv : SUBSET STRING, keys : SUBSET STRING,
                     throws : BOOLEAN, inUrl : STRING]
  <2>1. Table[i].service \in STRING /\ Table[i].path \in Seq(STRING)
    <3>1. \A row \in Row : row.service \in STRING /\ row.path \in Seq(STRING)
      OBVIOUS
    <3>2. Table \in Seq(Row)
      BY RowsAssumption DEF Table
    <3>3. Table[i] \in Row
      <4> HIDE DEF Row
      <4> QED
        BY <1>4, <3>2
    <3>4. QED
      BY <3>1, <3>3
  <2>2. QED
    BY <1>4, <2>1, KeysAssumption DEF RowOk, Table
<1>5. \A i \in Rows : gatewayRoutes[i] = Table[i] /\ Table[i].service \in enabledServiceIds
  BY DEF gatewayRoutes, Table, Rows
<1>6. QED
  BY <1>1, <1>2, <1>3, <1>4, <1>5

\* Two rows of one service whose paths have one length differ in a literal.
LEMMA RowsDiffer ==
    ASSUME NEW i \in Rows, NEW k \in Rows, i # k, Table[i].service = Table[k].service,
           Len(Table[i].path) = Len(Table[k].path)
    PROVE  \E n \in DOMAIN Table[i].path :
              /\ Table[i].path[n] \notin Parameters /\ Table[k].path[n] \notin Parameters
              /\ Table[i].path[n] # Table[k].path[n]
<1>1. i \in DOMAIN Table /\ k \in DOMAIN Table
  BY RowsType
<1>2. QED
  BY <1>1, NoShadowAssumption DEF Table

-----------------------------------------------------------------------------
(* Endpoints and the rows they resolve to                                  *)

\* A pattern is the service and then the path.
LEMMA PatternType ==
  ASSUME NEW row, RowOk(row)
  PROVE  LET p == Pattern(row) IN
         /\ Len(row.path) \in Nat /\ Len(p) = 1 + Len(row.path) /\ DOMAIN p = 1..Len(p)
         /\ DOMAIN row.path = 1..Len(row.path)
         /\ p[1] = row.service /\ \A n \in DOMAIN row.path : p[1 + n] = row.path[n]
<1>1. <<row.service>> \in Seq(STRING) /\ row.path \in Seq(STRING)
  <2>1. row.service \in STRING /\ row.path \in Seq(STRING)
    BY DEF RowOk
  <2>2. ASSUME NEW S, NEW x \in S PROVE <<x>> \in Seq(S)
    OBVIOUS
  <2>3. QED
    BY <2>1, <2>2
<1>2. Len(<<row.service>>) = 1 /\ <<row.service>>[1] = row.service
  OBVIOUS
<1> DEFINE p == <<row.service>> \o row.path
<1>3. /\ p \in Seq(STRING) /\ Len(p) = 1 + Len(row.path)
      /\ p[1] = row.service /\ Len(row.path) \in Nat
  BY <1>1
<1>4. DOMAIN p = 1..Len(p) /\ DOMAIN row.path = 1..Len(row.path)
  BY <1>1, <1>3
<1>5. \A n \in DOMAIN row.path : p[1 + n] = row.path[n]
  BY <1>1, <1>4
<1>6. QED
  BY <1>3, <1>4, <1>5 DEF Pattern

\* A row as /services lists it, and as the page does.
Offers(i) == {Endpoint(Table[i]), [Endpoint(Table[i]) EXCEPT !.method = "POST"]}

LEMMA OfferType ==
  \A i : \A e \in Offers(i) : e.service = Table[i].service /\ e.path = Table[i].path
  BY DEF Offers, Endpoint

\* matchPath and resolveGatewayRoute: what a row offers, its parameters filled in
\* with safe texts, matches that row and no other, so that the first match is it.
LEMMA ResolvesTo ==
  ASSUME NEW i \in Rows, NEW e \in Offers(i), NEW path \in Filled(e)
  PROVE  ResolveGatewayRoute(path) = i
<1> DEFINE p == Pattern(Table[i])
           matching == {k \in Rows : MatchPath(Pattern(gatewayRoutes[k]), path)}
<1>1. RowOk(Table[i]) /\ i \in Nat
  BY RowsType
<1>2. Pattern(e) = p
  BY OfferType DEF Pattern
<1>3. /\ Len(Table[i].path) \in Nat /\ Len(p) = 1 + Len(Table[i].path) /\ DOMAIN p = 1..Len(p)
      /\ DOMAIN Table[i].path = 1..Len(Table[i].path)
      /\ p[1] = Table[i].service /\ \A n \in DOMAIN Table[i].path : p[1 + n] = Table[i].path[n]
  BY <1>1, PatternType
<1> HIDE DEF p
<1>4. PICK texts \in [DOMAIN p -> SafeTexts] :
         path = [n \in DOMAIN p |-> IF p[n] \in Parameters THEN texts[n] ELSE p[n]]
  BY <1>2 DEF Filled
<1>5. /\ DOMAIN path = DOMAIN p
      /\ \A n \in DOMAIN p : IF p[n] \in Parameters THEN path[n] \in SafeTexts ELSE path[n] = p[n]
  BY <1>4
<1>6. Len(path) = Len(p)
  <2>1. \A n \in Nat : \A f : f = [k \in 1..n |-> f[k]] => Len(f) = n
    <3>1. TAKE n \in Nat
    <3>2. TAKE f
    <3>3. HAVE f = [k \in 1..n |-> f[k]]
    <3>4. f \in Seq({f[k] : k \in 1..n})
      BY <3>3
    <3>5. QED
      BY <3>3, <3>4
  <2>2. Len(p) \in Nat /\ path = [n \in 1..Len(p) |-> path[n]]
    BY <1>3, <1>4
  <2>3. QED
    BY <2>1, <2>2
<1>7. i \in matching
  <2>1. MatchPath(p, path)
    BY <1>5, <1>6 DEF MatchPath, Sanitized
  <2>2. QED
    BY <2>1, RowsType DEF p
<1>8. ASSUME NEW k \in matching PROVE k = i
  <2> DEFINE q == Pattern(Table[k])
  <2>1. k \in Rows /\ RowOk(Table[k]) /\ MatchPath(q, path)
    BY <1>8, RowsType
  <2>2. /\ Len(Table[k].path) \in Nat /\ Len(q) = 1 + Len(Table[k].path) /\ DOMAIN q = 1..Len(q)
        /\ DOMAIN Table[k].path = 1..Len(Table[k].path)
        /\ q[1] = Table[k].service
        /\ \A n \in DOMAIN Table[k].path : q[1 + n] = Table[k].path[n]
    BY <2>1, PatternType
  <2> HIDE DEF q
  <2>3. /\ Len(q) = Len(path)
        /\ \A n \in DOMAIN q : q[n] \notin Parameters => q[n] = path[n]
    BY <2>1 DEF MatchPath
  <2>4. Len(Table[k].path) = Len(Table[i].path) /\ DOMAIN q = DOMAIN p /\ 1 \in DOMAIN p
    BY <1>3, <1>6, <2>2, <2>3
  <2>5. \A n \in DOMAIN p : q[n] \notin Parameters /\ p[n] \notin Parameters => q[n] = p[n]
    BY <1>5, <2>3, <2>4
  <2>6. Table[k].service = Table[i].service
    BY <1>1, <1>3, <2>1, <2>2, <2>4, <2>5 DEF RowOk
  <2>7. ASSUME k # i PROVE FALSE
    <3>1. PICK n \in DOMAIN Table[i].path :
             /\ Table[i].path[n] \notin Parameters /\ Table[k].path[n] \notin Parameters
             /\ Table[i].path[n] # Table[k].path[n]
      BY <2>1, <2>4, <2>6, <2>7, RowsDiffer
    <3>2. n \in DOMAIN Table[k].path /\ 1 + n \in DOMAIN p
      BY <1>3, <2>2, <2>4
    <3>3. p[1 + n] = Table[i].path[n] /\ q[1 + n] = Table[k].path[n]
      BY <1>3, <2>2, <3>2
    <3>4. QED
      BY <2>5, <3>1, <3>2, <3>3
  <2>8. QED
    BY <2>7
<1>9. matching = {i}
  BY <1>7, <1>8
<1>10. Min(matching) = i
  BY <1>1, <1>9 DEF Min
<1>11. QED
  BY <1>9, <1>10 DEF ResolveGatewayRoute

\* No two rows are listed as one endpoint,
LEMMA EndpointsDiffer ==
    ASSUME NEW i \in Rows, NEW k \in Rows,
           Endpoint(Table[i]) = Endpoint(Table[k])
    PROVE  i = k
<1>1. Table[i].service = Table[k].service /\ Table[i].path = Table[k].path
  BY DEF Endpoint
<1>2. QED
  BY <1>1, RowsDiffer

Configured == {i \in Rows : IsRouteConfigured(Table[i])}

\* so buildServices lists a row when, and only when, it is configured,
LEMMA ServicesAre ==
  /\ BuildServices = {Endpoint(Table[i]) : i \in Configured}
  /\ \A i \in Rows : Endpoint(Table[i]) \in BuildServices <=> i \in Configured
<1>1. \A i \in Rows : gatewayRoutes[i] = Table[i] /\ Table[i].service \in serviceMeta
  BY RowsType, ServicesAssumption
<1>2. {k \in Rows : gatewayRoutes[k].service \in serviceMeta
                         /\ IsRouteConfigured(gatewayRoutes[k])} = Configured
  BY <1>1 DEF Configured
<1>3. BuildServices = {Endpoint(Table[i]) : i \in Configured}
  BY <1>1, <1>2 DEF BuildServices, Configured
<1>4. \A i \in Rows : Endpoint(Table[i]) \in BuildServices => i \in Configured
  BY <1>3, EndpointsDiffer DEF Configured
<1>5. QED
  BY <1>3, <1>4

\* and as many endpoints as getProviderSummary counts.
LEMMA CountsAgree == ConfiguredRoutes = Cardinality(BuildServices)
<1> DEFINE E == BuildServices
           f == [i \in Configured |-> Endpoint(Table[i])]
           missing == {i \in Rows : GetMissingRequiredEnv(gatewayRoutes[i]) # {}}
<1>1. Configured \in SUBSET Rows /\ IsFiniteSet(Rows) /\ IsFiniteSet(Configured)
  BY RowsType, FS_Subset DEF Configured
<1>2. f \in Surjection(Configured, E)
  <2>1. f \in [Configured -> E] /\ \A e \in E : \E i \in Configured : f[i] = e
    BY ServicesAre
  <2> HIDE DEF f, E
  <2>2. QED
    BY <2>1 DEF Surjection
<1>3. f \in Injection(Configured, E)
  <2>1. f \in [Configured -> E]
    BY ServicesAre
  <2>2. \A i, k \in Configured : f[i] = f[k] => i = k
    BY <1>1, EndpointsDiffer
  <2> HIDE DEF f, E
  <2>3. QED
    BY <2>1, <2>2 DEF Injection, IsInjective
<1> HIDE DEF f, E
<1>4. Cardinality(E) = Cardinality(Configured)
  BY <1>1, <1>2, <1>3, FS_Surjection
<1>5. missing = Rows \ Configured
  <2>1. \A i \in Rows : gatewayRoutes[i] = Table[i]
    BY RowsType
  <2>2. QED
    BY <2>1 DEF Configured, IsRouteConfigured
<1>6. Cardinality(missing) = Cardinality(Rows) - Cardinality(Configured)
  <2>1. Rows \cap Configured = Configured
    BY <1>1
  <2>2. QED
    BY <1>1, <1>5, <2>1, FS_Difference
<1>7. Cardinality(Rows) \in Nat /\ Cardinality(Configured) \in Nat
  BY <1>1, FS_CardinalityType
<1>8. ConfiguredRoutes = Cardinality(Rows) - Cardinality(missing)
  BY DEF ConfiguredRoutes
<1> HIDE DEF missing
<1>9. ConfiguredRoutes = Cardinality(Configured)
  BY <1>6, <1>7, <1>8
<1>10. QED
  BY <1>4, <1>9 DEF E

Listed == UNION {Offers(i) : i \in Rows}

\* Inductive: all that a client ever reads is offered by a row of the table, in
\* this process and in every other.
CatalogueInv ==
    /\ \A e \in fetched : \E i \in Rows : e = Endpoint(Table[i])
    /\ catalogue \in [Callers -> SUBSET Listed]

LEMMA CatalogueStep == CatalogueInv /\ [RegistryNext]_registryVars => CatalogueInv'
<1> SUFFICES ASSUME CatalogueInv, [RegistryNext]_registryVars PROVE CatalogueInv'
  OBVIOUS
<1>1. \A e \in BuildServices : \E i \in Rows : e = Endpoint(Table[i])
  BY ServicesAre DEF Configured
<1>2. BuildServices \subseteq Listed
  BY <1>1 DEF Listed, Offers
<1>3. CASE UNCHANGED <<fetched, catalogue>>
  BY <1>3 DEF CatalogueInv
<1>4. ASSUME NEW c \in Callers, ReadServices(c) PROVE CatalogueInv'
  BY <1>2, <1>4 DEF ReadServices, CatalogueInv
<1>5. CASE Revalidate
  BY <1>1, <1>5 DEF Revalidate, CatalogueInv
<1>6. ASSUME NEW c \in Callers, ReadPage(c) PROVE CatalogueInv'
  <2> DEFINE S == {[e EXCEPT !.method = "POST"] : e \in fetched}
  <2>1. S \subseteq Listed
    BY DEF CatalogueInv, Listed, Offers
  <2>2. catalogue' = [catalogue EXCEPT ![c] = S] /\ fetched' = fetched
    BY <1>6 DEF ReadPage
  <2> HIDE DEF S
  <2>3. QED
    BY <2>1, <2>2 DEF CatalogueInv
<1>7. QED
  BY <1>3, <1>4, <1>5, <1>6 DEF RegistryNext, registryVars, Ask, Pay, Present, Again,
       Forward, FetchEnds, Redeploy

\* resolveGatewayRoute, buildServices, getProviderSummary: a listed endpoint,
\* called as it is listed, resolves to its own row in every later process, is
\* turned away only by one that does not list it, and is counted; for every table
\* in which no path has two rows and every service sold is described.
THEOREM ListedAlwaysResolves == RegistrySpec => []ListedResolves
<1>1. RegistryInit => CatalogueInv
  BY DEF RegistryInit, CatalogueInv
<1>2. CatalogueInv => ListedResolves
  <2> SUFFICES ASSUME CatalogueInv PROVE ListedResolves
    OBVIOUS
  <2>1. ASSUME NEW c \in Callers, NEW e \in catalogue[c], NEW path \in Filled(e)
        PROVE  LET row == ResolveGatewayRoute(path)
                   found == Endpoint(gatewayRoutes[row])
               IN  /\ row # 0 /\ e \in {found, [found EXCEPT !.method = "POST"]}
                   /\ Turned(row) = IF found \in BuildServices THEN {} ELSE {503}
    <3>1. PICK i \in Rows : e \in Offers(i)
      BY DEF CatalogueInv, Listed
    <3>2. ResolveGatewayRoute(path) = i /\ gatewayRoutes[i] = Table[i] /\ i # 0
      BY <3>1, ResolvesTo, RowsType
    <3>3. IsRouteConfigured(Table[i]) <=> Endpoint(Table[i]) \in BuildServices
      BY <3>1, ServicesAre DEF Configured
    <3>4. Turned(i) = IF Endpoint(Table[i]) \in BuildServices THEN {} ELSE {503}
      BY <3>2, <3>3, Zenon DEF Turned
    <3>5. QED
      BY <3>1, <3>2, <3>4 DEF Offers
  <2>2. QED
    BY <2>1, CountsAgree DEF ListedResolves
<1>3. QED
  BY <1>1, <1>2, CatalogueStep, PTL DEF RegistrySpec

-----------------------------------------------------------------------------
(* Paid calls                                                              *)
\* What a call holds.
AnyBody == Bodies \cup {NoCall.body}

Strings == UNION {b.strings : b \in AnyBody}

PathsKept == Paths \cup {<<>>}

Calls ==
    [pc : {"idle", "challenged", "paid", "admitted", "forwarded", "answered"},
     path : PathsKept, body : AnyBody, row : {0} \cup Rows, paid : BOOLEAN,
     used : BOOLEAN, query : SUBSET Strings, status : Nat]

\* An admitted call has its payment in the books, and a row whose declared keys
\* are set in the process that admitted it.
CallOk(q) ==
    /\ q.pc \in {"admitted", "forwarded"} => q.row \in Rows /\ q.used
    /\ q.pc = "admitted" => IsRouteConfigured(gatewayRoutes[q.row])

\* Inductive: only a restart changes the environment, and it ends every call
\* that was admitted.
CallInv ==
    /\ env \in Envs
    /\ call \in [Callers -> Calls]
    /\ \A c \in Callers : CallOk(call[c])

\* A path resolves to a row or to none,
LEMMA RowResolved ==
    \A path : ResolveGatewayRoute(path) \in {0} \cup Rows
<1> TAKE path
<1> DEFINE matching == {k \in Rows : MatchPath(Pattern(gatewayRoutes[k]), path)}
<1>1. matching \in SUBSET Rows /\ Rows \in SUBSET Nat
  BY RowsType
<1>2. ResolveGatewayRoute(path) = IF matching = {} THEN 0 ELSE Min(matching)
  BY DEF ResolveGatewayRoute
<1> HIDE DEF matching
<1>3. CASE matching # {}
  <2>1. \E n \in matching : \A m \in matching : n <= m
    BY <1>1, <1>3, LeastNumber
  <2>2. Min(matching) \in matching
    BY <2>1 DEF Min
  <2>3. QED
    BY <1>1, <1>2, <1>3, <2>2
<1>4. QED
  BY <1>2, <1>3

\* and is let through only to a row with its declared keys.
LEMMA TurnedBy ==
    ASSUME NEW row \in {0} \cup Rows
    PROVE  /\ Turned(row) # {} => Max(Turned(row)) \in Nat
           /\ Turned(row) = {} => row \in Rows /\ IsRouteConfigured(gatewayRoutes[row])
<1>1. Turned(row) = IF row = 0 THEN {404}
          ELSE IF IsRouteConfigured(gatewayRoutes[row]) THEN {} ELSE {503}
  BY DEF Turned
<1>2. \A n \in Nat : Max({n}) = n
  BY DEF Max
<1>3. Turned(row) # {} => Max(Turned(row)) \in Nat
  BY <1>1, <1>2
<1>4. QED
  BY <1>1, <1>3

LEMMA NoCallType == NoCall \in Calls
  BY DEF NoCall, Calls, AnyBody, PathsKept

LEMMA AnswerType ==
    \A q \in Calls, n \in Nat : Answer(q, n) \in Calls /\ CallOk(Answer(q, n))
  BY DEF Answer, Calls, CallOk

\* A step of one call, in one process.
LEMMA CallChanges ==
    ASSUME CallInv, NEW c \in Callers, NEW q \in Calls, call' = [call EXCEPT ![c] = q],
           CallOk(q), env' = env
    PROVE  CallInv'
<1>1. call' \in [Callers -> Calls]
  BY DEF CallInv
<1>2. \A d \in Callers : CallOk(call'[d])
  BY DEF CallInv
<1>3. \A d : CallOk(call'[d]) => CallOk(call[d])'
  BY DEF CallOk, IsRouteConfigured, GetMissingRequiredEnv
<1>4. QED
  BY <1>1, <1>2, <1>3 DEF CallInv

\* The steps.
LEMMA AskStep ==
    ASSUME CallInv, NEW c \in Callers, NEW path \in Paths, NEW body \in Bodies,
           Ask(c, path, body)
    PROVE  CallInv'
<1> DEFINE row == ResolveGatewayRoute(path)
           asked == [NoCall EXCEPT !.path = path, !.body = body, !.row = row]
           turned == Turned(row)
           q == IF turned # {} THEN Answer(asked, Max(turned))
                ELSE [asked EXCEPT !.pc = "challenged", !.status = 402]
<1>1. asked \in Calls
  BY NoCallType, RowResolved DEF Calls, AnyBody, PathsKept
<1>2. call' = [call EXCEPT ![c] = q] /\ env' = env
  BY DEF Ask
<1>3. turned # {} => Max(turned) \in Nat
  BY RowResolved, TurnedBy
<1> HIDE DEF asked, turned
<1>4. CASE turned # {}
  BY <1>1, <1>2, <1>3, <1>4, AnswerType, CallChanges
<1>5. CASE turned = {}
  <2>1. q = [asked EXCEPT !.pc = "challenged", !.status = 402]
    BY <1>5
  <2> HIDE DEF q
  <2>2. q \in Calls /\ q.pc = "challenged"
    <3>1. ASSUME NEW a \in Calls, NEW n \in Nat
          PROVE  /\ [a EXCEPT !.pc = "challenged", !.status = n] \in Calls
                 /\ [a EXCEPT !.pc = "challenged", !.status = n].pc = "challenged"
      BY DEF Calls
    <3>2. 402 \in Nat
      OBVIOUS
    <3>3. /\ [asked EXCEPT !.pc = "challenged", !.status = 402] \in Calls
          /\ [asked EXCEPT !.pc = "challenged", !.status = 402].pc = "challenged"
      BY <1>1, <3>1, <3>2, Zenon
    <3>4. QED
      BY <2>1, <3>3, Zenon
  <2>3. CallOk(q)
    BY <2>2 DEF CallOk
  <2>4. QED
    BY <1>2, <2>2, <2>3, CallChanges
<1>6. QED
  BY <1>4, <1>5

LEMMA PayStep ==
    ASSUME CallInv, NEW c \in Callers, Pay(c) PROVE CallInv'
<1> DEFINE q == [call[c] EXCEPT !.pc = "paid", !.paid = TRUE]
<1>1. call' = [call EXCEPT ![c] = q] /\ env' = env /\ call[c] \in Calls
  BY DEF Pay, CallInv
<1>2. q \in Calls /\ CallOk(q)
  BY <1>1 DEF Calls, CallOk
<1>3. QED
  BY <1>1, <1>2, CallChanges

LEMMA AgainStep ==
    ASSUME CallInv, NEW c \in Callers, Again(c) PROVE CallInv'
<1> DEFINE q == [call[c] EXCEPT !.pc = "paid"]
<1>1. call' = [call EXCEPT ![c] = q] /\ env' = env /\ call[c] \in Calls
  BY DEF Again, CallInv
<1>2. q \in Calls /\ CallOk(q)
  BY <1>1 DEF Calls, CallOk
<1>3. QED
  BY <1>1, <1>2, CallChanges

LEMMA PresentStep ==
    ASSUME CallInv, NEW c \in Callers, Present(c) PROVE CallInv'
<1> DEFINE row == ResolveGatewayRoute(call[c].path)
           turned == Turned(row)
           q == IF turned # {} THEN Answer(call[c], Max(turned))
                ELSE IF call[c].used THEN Answer(call[c], 409)
                ELSE [call[c] EXCEPT !.pc = "admitted", !.used = TRUE, !.row = row]
<1>1. call' = [call EXCEPT ![c] = q] /\ env' = env /\ call[c] \in Calls
  BY DEF Present, CallInv
<1>2. /\ turned # {} => Max(turned) \in Nat
      /\ turned = {} => row \in Rows /\ IsRouteConfigured(gatewayRoutes[row])
  BY RowResolved, TurnedBy
<1> HIDE DEF row, turned
<1>3. CASE turned # {} \/ call[c].used
  BY <1>1, <1>2, <1>3, AnswerType, CallChanges
<1>4. CASE turned = {} /\ ~call[c].used
  <2>1. q = [call[c] EXCEPT !.pc = "admitted", !.used = TRUE, !.row = row]
    BY <1>4
  <2>2. q \in Calls /\ q.pc = "admitted" /\ q.row = row /\ q.used
    BY <1>1, <1>2, <1>4, <2>1 DEF Calls
  <2> HIDE DEF q
  <2>3. CallOk(q)
    BY <1>2, <1>4, <2>2 DEF CallOk
  <2>4. QED
    BY <1>1, <2>2, <2>3, CallChanges
<1>5. QED
  BY <1>3, <1>4

LEMMA ForwardStep ==
    ASSUME CallInv, NEW c \in Callers, Forward(c) PROVE CallInv'
<1> DEFINE row == gatewayRoutes[call[c].row]
           body == call[c].body
           q(sent) == [call[c] EXCEPT !.pc = "forwarded", !.query = sent]
<1>1. call[c] \in Calls /\ CallOk(call[c]) /\ call[c].pc = "admitted" /\ env' = env
  BY DEF Forward, CallInv
<1>2. \/ \E n \in {400, 500} : call' = [call EXCEPT ![c] = Answer(call[c], n)]
      \/ \E sent \in SUBSET Strings : call' = [call EXCEPT ![c] = q(sent)]
  <2>1. Safe(body) \in SUBSET Strings /\ {} \in SUBSET Strings
    BY <1>1 DEF Safe, Strings, Calls
  <2>2. \/ call' = [call EXCEPT ![c] = Answer(call[c], 400)]
        \/ call' = [call EXCEPT ![c] = Answer(call[c], 500)]
        \/ call' = [call EXCEPT ![c] = q(IF row.bodyToQuery THEN Safe(body) ELSE {})]
    BY DEF Forward
  <2> HIDE DEF q
  <2>3. QED
    BY <2>1, <2>2
<1>3. \A sent \in SUBSET Strings : q(sent) \in Calls /\ CallOk(q(sent))
  BY <1>1 DEF Calls, CallOk
<1> HIDE DEF q
<1>4. QED
  BY <1>1, <1>2, <1>3, AnswerType, CallChanges

LEMMA RestartCalls ==
    ASSUME CallInv, Redeploy PROVE CallInv'
<1> DEFINE q(c) == IF call[c].pc \in {"admitted", "forwarded"} THEN Answer(call[c], 0)
                   ELSE call[c]
<1>1. call' = [c \in Callers |-> q(c)] /\ env' \in Envs
  BY DEF Redeploy
<1>2. \A c \in Callers : q(c) \in Calls /\ q(c).pc \notin {"admitted", "forwarded"}
  BY DEF CallInv, Answer, Calls
<1> HIDE DEF q
<1>3. /\ call' \in [Callers -> Calls]
      /\ \A c \in Callers : call'[c].pc \notin {"admitted", "forwarded"}
  BY <1>1, <1>2
<1>4. \A c \in Callers : CallOk(call[c])'
  BY <1>3 DEF CallOk
<1>5. QED
  BY <1>1, <1>3, <1>4 DEF CallInv

LEMMA CallStep == CallInv /\ [RegistryNext]_registryVars => CallInv'
<1> SUFFICES ASSUME CallInv, [RegistryNext]_registryVars PROVE CallInv'
  OBVIOUS
<1>1. CASE UNCHANGED <<env, call>>
  BY <1>1 DEF CallInv, CallOk, IsRouteConfigured, GetMissingRequiredEnv
<1>2. ASSUME NEW c \in Callers, FetchEnds(c) PROVE CallInv'
  <2>1. PICK n \in {200, 502} : call' = [call EXCEPT ![c] = Answer(call[c], n)]
    BY <1>2 DEF FetchEnds
  <2>2. n \in Nat /\ call[c] \in Calls /\ env' = env
    BY <1>2 DEF FetchEnds, CallInv
  <2>3. Answer(call[c], n) \in Calls /\ CallOk(Answer(call[c], n))
    BY <2>2, AnswerType
  <2>4. QED
    BY <2>1, <2>2, <2>3, CallChanges
<1>3. ASSUME NEW c \in Callers, ReadServices(c) \/ ReadPage(c) PROVE UNCHANGED <<env, call>>
  BY <1>3 DEF ReadServices, ReadPage
<1>4. Revalidate => UNCHANGED <<env, call>>
  BY DEF Revalidate
<1>5. QED
  BY <1>1, <1>2, <1>3, <1>4, AskStep, PayStep, AgainStep, PresentStep, ForwardStep, RestartCalls
     DEF RegistryNext, registryVars

LEMMA CallStart == RegistryInit => CallInv
<1>1. NoCall.pc = "idle"
  BY DEF NoCall
<1>2. CallOk(NoCall)
  BY <1>1 DEF CallOk
<1>3. QED
  BY <1>2, NoCallType DEF RegistryInit, CallInv

\* Calls are of the shapes the types say, and one that is served has a row and a
\* payment in the books.
THEOREM RegistryTypeCorrect == RegistrySpec => []RegistryTypeOK
<1>1. CallInv => RegistryTypeOK
  BY RowsType DEF CallInv, CallOk, Calls, RegistryTypeOK
<1>2. QED
  BY <1>1, CallStart, CallStep, PTL DEF RegistrySpec

\* The proxy handler: a payment in the books buys a call upstream with the keys
\* its row declares and no key of the body's in the query, or a failure with a
\* cause that no check before the payment could know.
THEOREM PaidAlwaysFailsForCause == RegistrySpec => PaidFailsForCause
<1>1. CallInv /\ [RegistryNext]_registryVars =>
        [\A c \in Callers : call[c].pc = "admitted" =>
           LET row == gatewayRoutes[call[c].row] IN
           CASE call'[c].pc = "answered" ->
                  \/ call'[c].status = 0
                  \/ call'[c].status = 400 /\ ~call[c].body.json
                  \/ /\ call'[c].status = 500
                     /\ \E key \in row.keys \ row.requiredEnv : env[key] = "unset"
             [] call'[c].pc = "forwarded" ->
                  /\ \A key \in row.requiredEnv : env[key] = "set"
                  /\ row.inUrl # "" => \A f \in call'[c].query : Lower[f] # row.inUrl
             [] OTHER -> UNCHANGED call[c]]_registryVars
  <2> DEFINE Fails(c) == LET row == gatewayRoutes[call[c].row] IN
           CASE call'[c].pc = "answered" ->
                  \/ call'[c].status = 0
                  \/ call'[c].status = 400 /\ ~call[c].body.json
                  \/ /\ call'[c].status = 500
                     /\ \E key \in row.keys \ row.requiredEnv : env[key] = "unset"
             [] call'[c].pc = "forwarded" ->
                  /\ \A key \in row.requiredEnv : env[key] = "set"
                  /\ row.inUrl # "" => \A f \in call'[c].query : Lower[f] # row.inUrl
             [] OTHER -> UNCHANGED call[c]
  <2> SUFFICES ASSUME CallInv, RegistryNext, NEW c \in Callers, call[c].pc = "admitted" PROVE Fails(c)
    BY Zenon
  <2>1. /\ call \in [Callers -> Calls] /\ call[c] \in Calls /\ CallOk(call[c])
        /\ call[c].row \in Rows /\ IsRouteConfigured(gatewayRoutes[call[c].row])
    BY DEF CallInv, CallOk
  <2>2. CASE call'[c] = call[c]
    <3>1. call'[c].pc = "admitted" /\ call'[c].pc # "answered" /\ call'[c].pc # "forwarded"
      BY <2>2
    <3>2. QED
      BY <2>2, <3>1
  <2>3. CASE Redeploy
    <3>1. call'[c] = Answer(call[c], 0)
      BY <2>3 DEF Redeploy
    <3>2. call'[c].pc = "answered" /\ call'[c].status = 0
      BY <2>1, <3>1 DEF Answer, Calls
    <3>3. QED
      BY <3>2
  <2>4. CASE Forward(c)
    <3> DEFINE row == gatewayRoutes[call[c].row]
               sent == IF row.bodyToQuery THEN Safe(call[c].body) ELSE {}
               q == IF row.bodyToQuery /\ ~call[c].body.json THEN Answer(call[c], 400)
                    ELSE IF row.throws /\ \E key \in row.keys : env[key] = "unset"
                         THEN Answer(call[c], 500)
                    ELSE [call[c] EXCEPT !.pc = "forwarded", !.query = sent]
    <3>1. call' = [call EXCEPT ![c] = q]
      BY <2>4 DEF Forward
    <3>2. call'[c] = q
      BY <2>1, <3>1
    <3>3. \A key \in row.requiredEnv : env[key] = "set"
      BY <2>1 DEF IsRouteConfigured, GetMissingRequiredEnv
    <3>4. RowOk(row)
      BY <2>1, RowsType
    <3>5. row.inUrl # "" => \A f \in sent : Lower[f] # row.inUrl
      BY <3>4 DEF RowOk, Safe
    <3>a. \/ q = Answer(call[c], 400) /\ ~call[c].body.json
          \/ q = Answer(call[c], 500) /\ (\E key \in row.keys : env[key] = "unset")
          \/ q = [call[c] EXCEPT !.pc = "forwarded", !.query = sent]
      OBVIOUS
    <3> HIDE DEF row, sent, q
    <3>6. CASE q = Answer(call[c], 400) /\ ~call[c].body.json
      <4>1. call'[c].pc = "answered" /\ call'[c].status = 400
        BY <2>1, <3>2, <3>6 DEF Answer, Calls
      <4>2. QED
        BY <3>6, <4>1
    <3>7. CASE q = Answer(call[c], 500) /\ (\E key \in row.keys : env[key] = "unset")
      <4>1. \E key \in row.keys \ row.requiredEnv : env[key] = "unset"
        BY <3>3, <3>7
      <4>2. call'[c].pc = "answered" /\ call'[c].status = 500
        BY <2>1, <3>2, <3>7 DEF Answer, Calls
      <4>3. QED
        BY <4>1, <4>2 DEF row
    <3>8. CASE q = [call[c] EXCEPT !.pc = "forwarded", !.query = sent]
      <4>1. call'[c].pc = "forwarded" /\ call'[c].query = sent
        BY <2>1, <3>2, <3>8 DEF Calls
      <4>2. QED
        BY <3>3, <3>5, <4>1 DEF row
    <3>9. QED
      BY <3>6, <3>7, <3>8, <3>a
  <2> HIDE DEF Fails
  <2>5. ASSUME NEW d \in Callers, Pay(d) \/ Again(d) \/ Present(d) \/ FetchEnds(d)
                  \/ \E path \in Paths, body \in Bodies : Ask(d, path, body)
        PROVE  call'[c] = call[c]
    <3>1. d # c
      BY <2>5 DEF Pay, Again, Present, FetchEnds, Ask
    <3>2. call' = [call EXCEPT ![d] = call'[d]]
      <4>1. \A q : call' = [call EXCEPT ![d] = q] => call' = [call EXCEPT ![d] = call'[d]]
        BY <2>1
      <4>2. Pay(d) => call' = [call EXCEPT ![d] = [call[d] EXCEPT !.pc = "paid", !.paid = TRUE]]
        BY DEF Pay
      <4>3. Again(d) => call' = [call EXCEPT ![d] = [call[d] EXCEPT !.pc = "paid"]]
        BY DEF Again
      <4>4. Present(d) => \E q : call' = [call EXCEPT ![d] = q]
        BY Zenon DEF Present
      <4>5. FetchEnds(d) => \E q : call' = [call EXCEPT ![d] = q]
        BY DEF FetchEnds
      <4>6. \A path, body : Ask(d, path, body) => \E q : call' = [call EXCEPT ![d] = q]
        BY Zenon DEF Ask
      <4>7. QED
        BY <2>5, <4>1, <4>2, <4>3, <4>4, <4>5, <4>6
    <3>3. QED
      BY <2>1, <3>1, <3>2
  <2>6. ASSUME NEW d \in Callers, d # c, Forward(d) PROVE call'[c] = call[c]
    <3>1. \E q : call' = [call EXCEPT ![d] = q]
      BY <2>6 DEF Forward
    <3>2. QED
      BY <2>1, <2>6, <3>1
  <2>7. ASSUME NEW d \in Callers, ReadServices(d) \/ ReadPage(d) PROVE call'[c] = call[c]
    BY <2>7 DEF ReadServices, ReadPage
  <2>8. Revalidate => call'[c] = call[c]
    BY DEF Revalidate
  <2>9. QED
    BY <2>2, <2>3, <2>4, <2>5, <2>6, <2>7, <2>8 DEF RegistryNext
<1>2. QED
  BY <1>1, CallStart, CallStep, PTL DEF RegistrySpec, PaidFailsForCause

=============================================================================
