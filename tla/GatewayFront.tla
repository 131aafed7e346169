---------------------------- MODULE GatewayFront ----------------------------
(***************************************************************************)
(* The gateway's front (backend/src/index.ts): every request passes the    *)
(* per-address rate limiter; payments that get through add a row to the    *)
(* transactions table, and two administrators' routes read that table      *)
(* while rows come in: a list read page by page, each page with two        *)
(* queries, and totals read with two queries.                              *)
(*                                                                         *)
(* Time runs in ticks shorter than a second. What a payment has to pass    *)
(* before its row is inserted is in MppGateway. Definitions named X_Y are  *)
(* X with a mistake Y in it.                                               *)
(***************************************************************************)
EXTENDS Integers, FiniteSets, Sequences, SequencesExt

CONSTANTS
    Clients,         \* each has at most one request under way
    Kind,            \* Kind[c]: "payment", "page", "stats" or "public"
    Ip,              \* Ip[c]: the address its requests carry; some share one
    Admins,          \* clients that know the administrators' token
    AdminToken,      \* whether the token is configured
    Services,        \* what payments buy
    Window, MaxRequests,     \* windowMs in ticks; max
    TicksPerSecond,  \* the Retry-After header is in whole seconds
    Limit,           \* rows on a page
    Asks,            \* bound: Asks[c] requests by c
    MaxTime, MaxRows, MaxRestarts  \* bounds

Ips == {Ip[c] : c \in Clients}
NoBucket == [count |-> 0, resetAt |-> 0]
NoPromise == [ends |-> 0, back |-> 0]

ASSUME LimitsAssumption ==
    /\ Window \in Nat \ {0} /\ MaxRequests \in Nat \ {0} /\ Limit \in Nat \ {0}
    /\ TicksPerSecond \in Nat \ {0} /\ MaxTime \in Nat \ {0}
    /\ Admins \subseteq Clients /\ IsFiniteSet(Services)

VARIABLES
    now,       \* 1..MaxTime
    bucket,    \* bucket[ip]; NoBucket where the map has no entry
    rows,      \* the transactions committed: a set of <<id, service, created_at>>
    ids,       \* ids drawn by inserts so far
    handler,   \* handler[c]: what c's request is at
    walk,      \* walk[c]: where c is in the list, kept by the client
    passed,    \* passed[ip][t]: requests let through at t
    promise,   \* promise[ip]: of the last refusal, when its window ends and when
               \* it said to come back
    restarts

vars == <<now, bucket, rows, ids, handler, walk, passed, promise, restarts>>

Idle == [at |-> "idle", row |-> <<>>, page |-> {}, total |-> 0, groups |-> 0, asks |-> 0]

NoWalk == [offset |-> 0, seen |-> {}, since |-> {}, done |-> FALSE]

Init ==
    /\ now = 1
    /\ bucket = [ip \in Ips |-> NoBucket]
    /\ rows = {} /\ ids = 0
    /\ handler = [c \in Clients |-> Idle]
    /\ walk = [c \in Clients |-> NoWalk]
    /\ passed = [ip \in Ips |-> [t \in 1..MaxTime |-> 0]]
    /\ promise = [ip \in Ips |-> NoPromise]
    /\ restarts = 0

-----------------------------------------------------------------------------
(* The rate limiter                                                        *)

Tick ==
    /\ now < MaxTime
    /\ now' = now + 1
    /\ UNCHANGED <<bucket, rows, ids, handler, walk, passed, promise, restarts>>

Fresh(b) == b.resetAt > now

\* The timer, at times of its own, deletes the buckets whose window is over.
Cleanup ==
    /\ \E ip \in Ips : bucket[ip] # NoBucket /\ ~Fresh(bucket[ip])
    /\ bucket' = [ip \in Ips |-> IF Fresh(bucket[ip]) THEN bucket[ip] ELSE NoBucket]
    /\ UNCHANGED <<now, rows, ids, handler, walk, passed, promise, restarts>>

\* One more in the bucket, or the first of a new one.
Counted(ip) ==
    IF Fresh(bucket[ip]) THEN [bucket[ip] EXCEPT !.count = @ + 1]
    ELSE [count |-> 1, resetAt |-> now + Window]

CountedOut_BeforeCounting(ip) == Fresh(bucket[ip]) /\ bucket[ip].count > MaxRequests

CountedOut(ip) == Fresh(bucket[ip]) /\ bucket[ip].count + 1 > MaxRequests

RetryAfter_RoundedDown(ip) ==
    TicksPerSecond * ((bucket[ip].resetAt - now) \div TicksPerSecond)

\* Math.ceil: in whole seconds, and never before the window is over.
RetryAfter(ip) ==
    TicksPerSecond * ((bucket[ip].resetAt - now + TicksPerSecond - 1) \div TicksPerSecond)

\* 429: refused requests count as well.
Refuse(c) ==
    LET ip == Ip[c] IN
    /\ handler[c].at = "idle" /\ handler[c].asks < Asks[c]
    /\ CountedOut(ip)
    /\ bucket' = [bucket EXCEPT ![ip] = Counted(ip)]
    /\ promise' = [promise EXCEPT ![ip] =
                     [ends |-> bucket[ip].resetAt, back |-> now + RetryAfter(ip)]]
    /\ handler' = [handler EXCEPT ![c].asks = @ + 1]
    /\ UNCHANGED <<now, rows, ids, walk, passed, restarts>>

\* adminAuth: without a configured token nobody gets in.
AdminAuth(c) == AdminToken /\ c \in Admins

\* The route that a request let through goes to; public pages and refused
\* administrators are answered at once.
Route(c) ==
    CASE Kind[c] = "payment" -> "pay"
      [] Kind[c] = "page" /\ AdminAuth(c) -> "rows"
      [] Kind[c] = "stats" /\ AdminAuth(c) -> "totals"
      [] OTHER -> "idle"

LetThrough(c) ==
    LET ip == Ip[c] IN
    /\ handler[c].at = "idle" /\ handler[c].asks < Asks[c]
    /\ ~CountedOut(ip)
    /\ Kind[c] = "page" => ~walk[c].done
    /\ bucket' = [bucket EXCEPT ![ip] = Counted(ip)]
    /\ passed' = [passed EXCEPT ![ip][now] = @ + 1]
    /\ handler' = [handler EXCEPT ![c] =
                     [Idle EXCEPT !.at = Route(c), !.asks = handler[c].asks + 1]]
    /\ walk' = IF walk[c].offset = 0 /\ Route(c) = "rows"
               THEN [walk EXCEPT ![c].since = rows] ELSE walk
    /\ UNCHANGED <<now, rows, ids, promise, restarts>>

-----------------------------------------------------------------------------
(* The transactions table                                                  *)

Sql(c, at) == [handler EXCEPT ![c].at = at]

\* The INSERT draws an id and its NOW(),
Insert(c, service) ==
    /\ handler[c].at = "pay" /\ ids < MaxRows
    /\ ids' = ids + 1
    /\ handler' = [handler EXCEPT ![c].at = "commit", ![c].row = <<ids + 1, service, now>>]
    /\ UNCHANGED <<now, bucket, rows, walk, passed, promise, restarts>>

\* and others see the row when it commits.
Commit(c) ==
    /\ handler[c].at = "commit"
    /\ rows' = rows \cup {handler[c].row}
    /\ handler' = [handler EXCEPT ![c].at = "idle", ![c].row = <<>>]
    /\ UNCHANGED <<now, bucket, ids, walk, passed, promise, restarts>>

NewestFirst(S) ==
    {order \in SetToSeqs(S) : \A i, k \in 1..Len(order) : i < k => order[i][3] >= order[k][3]}

Page(order, offset) == {order[i] : i \in DOMAIN order \cap (offset + 1..offset + Limit)}

\* listPayments, ORDER BY created_at DESC LIMIT OFFSET: rows of the same time
\* come in any order.
ListRows(c) ==
    /\ handler[c].at = "rows"
    /\ \E order \in NewestFirst(rows) :
          handler' = [handler EXCEPT ![c].at = "count", ![c].page = Page(order, walk[c].offset)]
    /\ UNCHANGED <<now, bucket, rows, ids, walk, passed, promise, restarts>>

CountRows_LastPageLost(c) ==
    LET read == walk[c].offset + Cardinality(handler[c].page) IN
    /\ handler[c].at = "count"
    /\ walk' = [walk EXCEPT ![c].seen = @ \cup handler[c].page, ![c].offset = read,
                            ![c].done = read + Limit >= Cardinality(rows)]
    /\ handler' = [handler EXCEPT ![c].at = "idle", ![c].page = {}]
    /\ UNCHANGED <<now, bucket, rows, ids, passed, promise, restarts>>

\* Then COUNT(*) and hasMore, from which the client goes on to the next page.
CountRows(c) ==
    LET read == walk[c].offset + Cardinality(handler[c].page)
        hasMore == read < Cardinality(rows)
    IN  /\ handler[c].at = "count"
        /\ walk' = [walk EXCEPT ![c].seen = @ \cup handler[c].page,
                                ![c].offset = read, ![c].done = ~hasMore]
        /\ handler' = [handler EXCEPT ![c].at = "idle", ![c].page = {}]
        /\ UNCHANGED <<now, bucket, rows, ids, passed, promise, restarts>>

\* getMppStats: the totals, then the totals by service.
Totals(c) ==
    /\ handler[c].at = "totals"
    /\ handler' = [handler EXCEPT ![c].at = "groups", ![c].total = Cardinality(rows)]
    /\ UNCHANGED <<now, bucket, rows, ids, walk, passed, promise, restarts>>

Groups(c) ==
    LET count == [s \in Services |-> Cardinality({row \in rows : row[2] = s})] IN
    /\ handler[c].at = "groups"
    /\ handler' = [handler EXCEPT ![c].at = "idle",
                       ![c].groups = SumFunctionOnSet(count, Services)]
    /\ UNCHANGED <<now, bucket, rows, ids, walk, passed, promise, restarts>>

\* A query fails: 500, and the client may ask again.
QueryFails(c) ==
    /\ handler[c].at \notin {"idle", "commit"}
    /\ handler' = [handler EXCEPT ![c] = [Idle EXCEPT !.asks = handler[c].asks]]
    /\ UNCHANGED <<now, bucket, rows, ids, walk, passed, promise, restarts>>

\* shutdown, and a new process: the buckets and the open requests are gone,
\* and with them what the old process promised.
Restart ==
    /\ restarts < MaxRestarts
    /\ restarts' = restarts + 1
    /\ bucket' = [ip \in Ips |-> NoBucket]
    /\ handler' = [c \in Clients |-> [Idle EXCEPT !.asks = handler[c].asks]]
    /\ promise' = [ip \in Ips |-> NoPromise]
    /\ UNCHANGED <<now, rows, ids, walk, passed>>

Handle(c) ==
    \/ \E s \in Services : Insert(c, s)
    \/ Commit(c) \/ ListRows(c) \/ CountRows(c) \/ Totals(c) \/ Groups(c) \/ QueryFails(c)

Next ==
    \/ Tick \/ Cleanup \/ Restart
    \/ \E c \in Clients : Refuse(c) \/ LetThrough(c) \/ Handle(c)

Spec == Init /\ [][Next]_vars

-----------------------------------------------------------------------------
(* Properties                                                              *)

\* An address has a bucket with an end, within a window of now, and rows have
\* numbers of their own.
TypeOK ==
    /\ now \in 1..MaxTime
    /\ \A ip \in Ips : bucket[ip] = NoBucket \/ (bucket[ip].count \in Nat \ {0}
                                                 /\ bucket[ip].resetAt \in 1..now + Window)
    /\ \A c \in Clients :
          handler[c].at \in {"idle", "pay", "commit", "rows", "count", "totals", "groups"}
    /\ \A r, s \in rows : r[1] = s[1] => r = s
    /\ \A r \in rows : r[1] <= ids /\ r[3] <= now

Within(ip, from, to) ==
    SumFunctionOnSet(passed[ip], {t \in 1..MaxTime : from <= t /\ t <= to})

\* What a fixed window gives: over any time as long as the window an address
\* gets less than twice the maximum through, whatever the clean-up deletes;
\* each restart may add the maximum once. (The request that opens a window is
\* one of its maximum, so no time that reaches into the next window and is no
\* longer than one holds all of both.)
LessThanTwiceMax ==
    \A ip \in Ips, t \in 1..MaxTime :
        Within(ip, t, t + Window - 1) < (2 + restarts) * MaxRequests

\* Retry-After is kept while the process lives: whoever waits as long as told
\* is refused again only when the address has had the maximum through since
\* its window ended.
RetryAfterKept ==
    [][\A ip \in Ips :
          LET asked(c) == Ip[c] = ip /\ handler'[c].asks > handler[c].asks
              refused == (\E c \in Clients : asked(c)) /\ passed'[ip] = passed[ip]
          IN  (refused /\ promise[ip] # NoPromise /\ promise[ip].back <= now)
                 => Within(ip, promise[ip].ends, now) >= MaxRequests]_vars

\* A client that reads page by page until told there is no more has seen
\* every row there was when it began, though rows came in above it meanwhile;
\* the only rows it may have missed share their created_at with another one.
PagingMissesNothing ==
    \A c \in Clients : walk[c].done =>
        \A row \in walk[c].since \ walk[c].seen :
            \E other \in rows : other # row /\ other[3] = row[3]

=============================================================================
