----------------------------- MODULE MppGateway -----------------------------
(***************************************************************************)
(* The pay-per-call gateway (backend): a request for a priced route is     *)
(* answered 402, or carries the signature of a Solana transaction that     *)
(* pays for it. The middleware looks the transaction up, marks the         *)
(* signature used in Redis, then in Postgres, and only then forwards the   *)
(* request upstream.                                                       *)
(*                                                                         *)
(* A step is what one request's handler does between two awaits, with the  *)
(* effect of the call it awaited. Requests interleave at every await.      *)
(*                                                                         *)
(* Definitions named X_Y are X with a plausible mistake Y in it; nothing   *)
(* but the comparison of the two uses them.                                *)
(***************************************************************************)
EXTENDS Integers, FiniteSets

CONSTANTS
    Requests,     \* HTTP requests
    Signatures,   \* well-formed transaction signatures
    NoSignature,  \* no payment header
    Malformed,    \* a payment header that is no signature
    Routes,       \* the routes of the registry
    NoRoute,      \* a path that matches none
    Configured,   \* routes whose upstream has its API keys
    Price,        \* Price[route]
    Amounts,      \* amounts a transaction moves to the recipient
    MaxRetries,   \* MAX_RETRIES of the transaction lookup
    FetchRetries, \* attempts of fetchWithRetry
    MaxTxAge,     \* MAX_TX_AGE_SECONDS
    TxTtl,        \* TX_TTL of the Redis key
    MaxTime,      \* bound: the clock stops at MaxTime
    Faults        \* faults that may happen: rpc, redis, flush, db, upstream, crash

ASSUME NamesAssumption ==
    /\ NoSignature \notin Signatures /\ Malformed \notin Signatures
    /\ NoRoute \notin Routes /\ Configured \subseteq Routes
ASSUME PriceAssumption == Price \in [Routes -> Nat] /\ Amounts \subseteq Nat
ASSUME RetriesAssumption ==
    MaxRetries \in Nat \ {0} /\ FetchRetries \in Nat \ {0}
ASSUME TimeAssumption ==
    MaxTxAge \in Nat /\ TxTtl \in Nat /\ MaxTime \in Nat \ {0}

VARIABLES
    now,   \* seconds; 1..MaxTime
    tx,    \* tx[s]: the transaction s signs, as getTransaction tells it
    key,   \* key[s]: when the Redis key of s expires; 0 = no key
    rows,  \* transactions table: rows[s] is the amount_usd of signature s
    req,   \* req[r]: progress of request r
    redisWorks  \* Redis has neither failed nor forgotten (no code sees this)

vars == <<now, tx, key, rows, req, redisWorks>>

\* blockTime 0 is a transaction that the RPC gives no time for.
TxStates == {"unsent", "landed", "failed"}

Transaction == [state : TxStates, amount : Nat, blockTime : 0..MaxTime]

Unsent == [state |-> "unsent", amount |-> 0, blockTime |-> 0]

\* attempt: lookups, or fetches; fetched: whether a fetch has been started;
\* status: the HTTP status of the answer, 0 for a connection that broke.
States == {"new", "lookup", "verified", "marked", "admitted", "fetching", "answered"}
Statuses == {0, 200, 400, 402, 404, 409, 500, 502, 503}

Paths == Routes \cup {NoRoute}
Headers == Signatures \cup {NoSignature, Malformed}

Request == [state : States, route : Paths, sig : Headers,
            attempt : Nat, fetched : BOOLEAN, status : Statuses]

NewRequest == [state |-> "new", route |-> NoRoute, sig |-> NoSignature,
               attempt |-> 0, fetched |-> FALSE, status |-> 0]

Init ==
    /\ now = 1
    /\ tx = [s \in Signatures |-> Unsent]
    /\ key = [s \in Signatures |-> 0]
    /\ rows = [s \in {} |-> 0]
    /\ req = [r \in Requests |-> NewRequest]
    /\ redisWorks = TRUE

-----------------------------------------------------------------------------

In(r, state) == req[r].state = state

\* What becomes of a request: its handler goes on, tries again, or returns.
Advance(q, state) == [q EXCEPT !.state = state, !.attempt = 0]
Retry(q) == [q EXCEPT !.attempt = @ + 1]
Answer(q, status) == [q EXCEPT !.state = "answered", !.status = status]

MoveTo(r, state) == [req EXCEPT ![r] = Advance(@, state)]
TryAgain(r) == [req EXCEPT ![r] = Retry(@)]
Answered(r, status) == [req EXCEPT ![r] = Answer(@, status)]

\* The checks that precede the lookup, in the order the middleware makes them.
Refusal(route, sig) ==
    CASE route = NoRoute -> 404
      [] route # NoRoute /\ route \notin Configured -> 503
      [] route \in Configured /\ sig = NoSignature -> 402
      [] route \in Configured /\ sig = Malformed -> 400

Asks(q, route, sig) == [q EXCEPT !.state = "lookup", !.route = route, !.sig = sig]

Arrive(r, route, sig) ==
    /\ In(r, "new")
    /\ req' = [req EXCEPT ![r] =
                   IF route \in Configured /\ sig \in Signatures
                   THEN Asks(@, route, sig)
                   ELSE Answer(Asks(@, route, sig), Refusal(route, sig))]
    /\ UNCHANGED <<now, tx, key, rows, redisWorks>>

LookupMiss_NotCounted(r) ==
    /\ In(r, "lookup")
    /\ tx[req[r].sig].state = "unsent" \/ "rpc" \in Faults
    /\ req' = IF req[r].attempt + 1 = MaxRetries THEN Answered(r, 402) ELSE req
    /\ UNCHANGED <<now, tx, key, rows, redisWorks>>

\* fetchTransaction: the RPC does not know the transaction yet, or throws.
LookupMiss(r) ==
    /\ In(r, "lookup")
    /\ tx[req[r].sig].state = "unsent" \/ "rpc" \in Faults
    /\ req' = IF req[r].attempt + 1 = MaxRetries THEN Answered(r, 402)
              ELSE TryAgain(r)
    /\ UNCHANGED <<now, tx, key, rows, redisWorks>>

\* checkTxBasics
TooOld(t) == t.blockTime # 0 /\ now - t.blockTime > MaxTxAge

PaysFor_AnyAmount(t, route) == t.state = "landed" /\ ~TooOld(t) /\ t.amount > 0

\* verifyMainnet and verifyDevnet: the transaction succeeded, is recent, and
\* moved the price of the route to the recipient.
PaysFor(t, route) ==
    /\ t.state = "landed"
    /\ ~TooOld(t)
    /\ t.amount >= Price[route]

LookupHit(r) ==
    LET t == tx[req[r].sig] IN
    /\ In(r, "lookup")
    /\ t.state # "unsent"
    /\ req' = IF PaysFor(t, req[r].route) THEN MoveTo(r, "verified")
              ELSE Answered(r, 402)
    /\ UNCHANGED <<now, tx, key, rows, redisWorks>>

-----------------------------------------------------------------------------
(* Replay protection                                                       *)

HasKey(s) == key[s] > now

MarkUsed_Millis(r) ==
    LET s == req[r].sig IN
    /\ In(r, "verified")
    /\ IF HasKey(s)
       THEN /\ req' = Answered(r, 409)
            /\ key' = key
       ELSE /\ req' = MoveTo(r, "marked")
            /\ key' = [key EXCEPT ![s] = now + 1]
    /\ UNCHANGED <<now, tx, rows, redisWorks>>

\* tryMarkUsed: SET NX EX.
MarkUsed(r) ==
    LET s == req[r].sig IN
    /\ In(r, "verified")
    /\ IF HasKey(s)
       THEN /\ req' = Answered(r, 409)
            /\ key' = key
       ELSE /\ req' = MoveTo(r, "marked")
            /\ key' = [key EXCEPT ![s] = now + TxTtl]
    /\ UNCHANGED <<now, tx, rows, redisWorks>>

\* tryMarkUsed throws: the middleware goes on to the database. Redis may have
\* set the key all the same.
MarkThrows(r) ==
    LET s == req[r].sig IN
    /\ "redis" \in Faults
    /\ In(r, "verified")
    /\ req' = MoveTo(r, "marked")
    /\ key' \in {key, [key EXCEPT ![s] = IF HasKey(s) THEN @ ELSE now + TxTtl]}
    /\ redisWorks' = FALSE
    /\ UNCHANGED <<now, tx, rows>>

\* The transactions table with a row for s.
Inserted(s, amount) == [x \in DOMAIN rows \cup {s} |-> IF x = s THEN amount ELSE rows[x]]

Record_ConflictIgnored(r) ==
    LET s == req[r].sig IN
    /\ In(r, "marked")
    /\ rows' = Inserted(s, Price[req[r].route])
    /\ req' = MoveTo(r, "admitted")
    /\ UNCHANGED <<now, tx, key, redisWorks>>

\* tryInsertTransaction: ON CONFLICT DO NOTHING, RETURNING.
Record(r) ==
    LET s == req[r].sig IN
    /\ In(r, "marked")
    /\ IF s \in DOMAIN rows
       THEN /\ req' = Answered(r, 409)
            /\ rows' = rows
       ELSE /\ req' = MoveTo(r, "admitted")
            /\ rows' = Inserted(s, Price[req[r].route])
    /\ UNCHANGED <<now, tx, key, redisWorks>>

\* tryInsertTransaction throws, before the row is committed or after.
RecordThrows(r) ==
    LET s == req[r].sig IN
    /\ "db" \in Faults
    /\ In(r, "marked")
    /\ req' = Answered(r, 503)
    /\ rows' \in {rows, IF s \in DOMAIN rows THEN rows
                        ELSE Inserted(s, Price[req[r].route])}
    /\ UNCHANGED <<now, tx, key, redisWorks>>

-----------------------------------------------------------------------------
(* The proxy handler                                                       *)

\* A body that is not JSON, on a route that turns bodies into query strings;
\* or a key that the route's headers need and its row does not declare (see
\* Registry), so that they throw.
RejectCall(r) ==
    /\ In(r, "admitted")
    /\ \E status \in {400, 500} : req' = Answered(r, status)
    /\ UNCHANGED <<now, tx, key, rows, redisWorks>>

StartFetch(r) ==
    /\ In(r, "admitted")
    /\ req' = [req EXCEPT ![r] = [Advance(@, "fetching") EXCEPT !.fetched = TRUE]]
    /\ UNCHANGED <<now, tx, key, rows, redisWorks>>

FetchEnds(r) ==
    /\ In(r, "fetching")
    /\ req' = Answered(r, 200)
    /\ UNCHANGED <<now, tx, key, rows, redisWorks>>

\* fetchWithRetry: upstream answers 5xx, times out or cannot be reached.
FetchFails(r) ==
    /\ "upstream" \in Faults
    /\ In(r, "fetching")
    /\ req' = IF req[r].attempt + 1 = FetchRetries THEN Answered(r, 502)
              ELSE TryAgain(r)
    /\ UNCHANGED <<now, tx, key, rows, redisWorks>>

-----------------------------------------------------------------------------
(* Around the handlers                                                     *)

\* A transaction lands, with the time of its block or with none.
Land(s, amount) ==
    /\ tx[s].state = "unsent"
    /\ \E state \in {"landed", "failed"}, blockTime \in {0, now} :
          tx' = [tx EXCEPT ![s] = [state |-> state, amount |-> amount,
                                   blockTime |-> blockTime]]
    /\ UNCHANGED <<now, key, rows, req, redisWorks>>

Tick ==
    /\ now < MaxTime
    /\ now' = now + 1
    /\ UNCHANGED <<tx, key, rows, req, redisWorks>>

\* Redis restarts without its data, or evicts.
Flush ==
    /\ "flush" \in Faults
    /\ \E lost \in SUBSET Signatures :
          key' = [s \in Signatures |-> IF s \in lost THEN 0 ELSE key[s]]
    /\ redisWorks' = FALSE
    /\ UNCHANGED <<now, tx, rows, req>>

\* The gateway dies: every connection breaks.
Crash ==
    /\ "crash" \in Faults
    /\ req' = [r \in Requests |->
                 IF In(r, "new") \/ In(r, "answered") THEN req[r]
                 ELSE Answer(req[r], 0)]
    /\ UNCHANGED <<now, tx, key, rows, redisWorks>>

Handle(r) ==
    \/ LookupMiss(r) \/ LookupHit(r)
    \/ MarkUsed(r) \/ MarkThrows(r)
    \/ Record(r) \/ RecordThrows(r)
    \/ RejectCall(r) \/ StartFetch(r) \/ FetchEnds(r) \/ FetchFails(r)

Next ==
    \/ \E r \in Requests :
          \/ \E route \in Paths, sig \in Headers : Arrive(r, route, sig)
          \/ Handle(r)
    \/ \E s \in Signatures, amount \in Amounts : Land(s, amount)
    \/ Tick
    \/ Flush
    \/ Crash

Spec == Init /\ [][Next]_vars

\* Every await of a handler is on a bounded wait: the RPC and Redis clients
\* fail or answer, setTimeout fires, and fetch has FETCH_TIMEOUT_MS.
FairSpec == Spec /\ \A r \in Requests : WF_vars(Handle(r))

-----------------------------------------------------------------------------
(* Properties                                                              *)

\* Past the first checks, a request has a route that can be served and a
\* signature that can be looked up.
Accepted(q) ==
    /\ q.state = "new" => ~q.fetched
    /\ q.state \notin {"new", "answered"} \/ q.fetched =>
          q.route \in Configured /\ q.sig \in Signatures

\* Types, and every request past the first checks is accepted.
TypeOK ==
    /\ now \in 1..MaxTime
    /\ tx \in [Signatures -> Transaction]
    /\ key \in [Signatures -> Nat]
    /\ DOMAIN rows \subseteq Signatures
    /\ rows \in [DOMAIN rows -> Nat]
    /\ req \in [Requests -> Request]
    /\ redisWorks \in BOOLEAN
    /\ \A r \in Requests : Accepted(req[r])

\* One payment, one call: of all the requests that carry one signature, at
\* once or one after the other, at most one is ever sent upstream, though
\* Redis loses or expires its keys, fails after it has set one, and the
\* gateway crashes between any two steps.
OneCallPerPayment ==
    \A r1, r2 \in Requests :
        req[r1].fetched /\ req[r2].fetched /\ req[r1].sig = req[r2].sig => r1 = r2

\* The books match the chain: every row, and every request sent upstream,
\* stands for a transaction that landed and moved at least the price.
BooksBalance ==
    /\ \A s \in DOMAIN rows : tx[s].state = "landed" /\ rows[s] <= tx[s].amount
    /\ \A r \in Requests : req[r].fetched =>
          req[r].sig \in DOMAIN rows /\ tx[req[r].sig].amount >= Price[req[r].route]

\* Redis alone turns every replay away as long as it has neither failed nor
\* forgotten: a recorded signature that the age limit would still let pass has
\* a key that has not expired ("Match verifier MAX_TX_AGE (300s) plus margin",
\* redis.ts), if the RPC gives the block's time. Whatever else fails, and in
\* whatever order requests come, its own steps leave no gap.
KeyOutlivesPayment ==
    redisWorks => \A s \in DOMAIN rows :
        tx[s].blockTime # 0 /\ ~TooOld(tx[s]) => HasKey(s)

\* Every request is answered, whatever the RPC, Redis, Postgres and the
\* upstream do: retries are bounded.
EveryRequestAnswered ==
    \A r \in Requests : ~In(r, "new") ~> In(r, "answered")

\* "DB UNIQUE(signature) is authoritative. Redis is best-effort fast-path"
\* (mpp.ts): a request is turned away as a replay only if its signature is in
\* the database, or is about to be. A failed insert leaves the Redis key, and
\* the retry of a payment that bought nothing is a replay until it is too old.
ReplaysAreRecorded ==
    \A r \in Requests : req[r].status = 409 =>
        \/ req[r].sig \in DOMAIN rows
        \/ \E other \in Requests : In(other, "marked") /\ req[other].sig = req[r].sig

\* The gateway sells tickets: whatever happens to Redis, to the database
\* connection and to the process, it is a Tickets machine.
Worth(s) == IF tx[s].state = "landed" THEN tx[s].amount ELSE 0
Worths == [s \in Signatures |-> Worth(s)]
Served == {<<r, req[r].sig>> : r \in {x \in Requests : req[x].fetched}}

Booth == INSTANCE Tickets WITH
    Payments <- Amounts, Prices <- {Price[route] : route \in Routes},
    worth <- Worths,
    torn <- DOMAIN rows,
    let <- Served

SellsTickets == Booth!Spec

=============================================================================
