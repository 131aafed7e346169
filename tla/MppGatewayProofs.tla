-------------------------- MODULE MppGatewayProofs --------------------------
(***************************************************************************)
(* Theorems about MppGateway, for any number of requests, signatures and   *)
(* routes, any prices, limits and combination of faults.                   *)
(***************************************************************************)
EXTENDS MppGateway, TLAPS

-----------------------------------------------------------------------------
(* The inductive invariant                                                 *)

\* r has got past the database: it holds the ticket of its signature.
Admitted(r) == req[r].state \in {"admitted", "fetching"} \/ req[r].fetched

\* A request that has been verified is paid for, whoever else is.
VerifiedIsPaid ==
    \A r \in Requests : req[r].state \in {"verified", "marked"} =>
        /\ tx[req[r].sig].state = "landed"
        /\ tx[req[r].sig].amount >= Price[req[r].route]

RowsArePaid ==
    \A s \in DOMAIN rows : tx[s].state = "landed" /\ rows[s] <= tx[s].amount

AdmittedIsRecorded ==
    \A r \in Requests : Admitted(r) =>
        /\ req[r].sig \in DOMAIN rows
        /\ tx[req[r].sig].amount >= Price[req[r].route]

OneAdmitted ==
    \A r1, r2 \in Requests :
        Admitted(r1) /\ Admitted(r2) /\ req[r1].sig = req[r2].sig => r1 = r2

TicketInv == VerifiedIsPaid /\ RowsArePaid /\ AdmittedIsRecorded /\ OneAdmitted

-----------------------------------------------------------------------------

\* Arrive writes a status only when it turns the request away.
LEMMA RefusalType ==
    ASSUME NEW route \in Paths, NEW sig \in Headers,
           ~(route \in Configured /\ sig \in Signatures)
    PROVE  Refusal(route, sig) \in {400, 402, 404, 503}
<1>1. CASE route = NoRoute
  BY <1>1, NamesAssumption DEF Refusal
<1>2. CASE route # NoRoute /\ route \notin Configured
  BY <1>2, NamesAssumption DEF Refusal
<1>3. CASE route \in Configured /\ sig = NoSignature
  BY <1>3, NamesAssumption DEF Refusal
<1>4. CASE route \in Configured /\ sig = Malformed
  BY <1>4, NamesAssumption DEF Refusal
<1>5. QED
  BY <1>1, <1>2, <1>3, <1>4 DEF Paths, Headers

LEMMA TypeInit == Init => TypeOK
<1>1. Unsent \in Transaction
  BY TimeAssumption DEF Unsent, Transaction, TxStates
<1>2. NewRequest \in Request
  BY DEF NewRequest, Request, States, Statuses, Paths, Headers
<1>3. ASSUME Init, NEW r \in Requests
      PROVE  req[r].state = "new" /\ ~req[r].fetched
  BY <1>3 DEF Init, NewRequest
<1>4. Init => rows \in [DOMAIN rows -> Nat] /\ DOMAIN rows \subseteq Signatures
  BY DEF Init
<1>5. QED
  BY <1>1, <1>2, <1>3, <1>4, TimeAssumption DEF Init, TypeOK, Accepted

\* What the record operators make of a request.
LEMMA AdvanceFields ==
    ASSUME NEW q \in Request, NEW state \in States
    PROVE  /\ Advance(q, state) \in Request
           /\ Advance(q, state).state = state
           /\ Advance(q, state).route = q.route
           /\ Advance(q, state).sig = q.sig
           /\ Advance(q, state).fetched = q.fetched
  BY DEF Advance, Request

LEMMA AnswerFields ==
    ASSUME NEW q \in Request, NEW status \in Statuses
    PROVE  /\ Answer(q, status) \in Request
           /\ Answer(q, status).state = "answered"
           /\ Answer(q, status).route = q.route
           /\ Answer(q, status).sig = q.sig
           /\ Answer(q, status).fetched = q.fetched
<1>1. "answered" \in States
  BY DEF States
<1>2. QED
  BY <1>1 DEF Answer, Request

LEMMA RetryFields ==
    ASSUME NEW q \in Request
    PROVE  /\ Retry(q) \in Request
           /\ Retry(q).state = q.state
           /\ Retry(q).route = q.route
           /\ Retry(q).sig = q.sig
           /\ Retry(q).fetched = q.fetched
  BY DEF Retry, Request

LEMMA AsksType ==
    ASSUME NEW q \in Request, NEW route \in Paths, NEW sig \in Headers
    PROVE  /\ Asks(q, route, sig) \in Request
           /\ Asks(q, route, sig).state = "lookup"
           /\ Asks(q, route, sig).route = route
           /\ Asks(q, route, sig).sig = sig
           /\ Asks(q, route, sig).fetched = q.fetched
<1>1. "lookup" \in States
  BY DEF States
<1>2. QED
  BY <1>1 DEF Asks, Request

\* A row added to the table leaves it a table, and changes no other row.
LEMMA InsertedTable ==
    ASSUME TypeOK, NEW s \in Signatures, NEW amount \in Nat
    PROVE  /\ DOMAIN Inserted(s, amount) = DOMAIN rows \cup {s}
           /\ Inserted(s, amount) \in [DOMAIN rows \cup {s} -> Nat]
           /\ Inserted(s, amount)[s] = amount
           /\ \A x \in DOMAIN rows : x # s => Inserted(s, amount)[x] = rows[x]
  BY DEF TypeOK, Inserted

\* The routes a request can be past the first checks with have a price.
LEMMA PriceType ==
    ASSUME NEW route \in Configured
    PROVE  Price[route] \in Nat
  BY NamesAssumption, PriceAssumption

RequestsType ==
    /\ req \in [Requests -> Request]
    /\ \A r \in Requests : Accepted(req[r])

StoresType ==
    /\ now \in 1..MaxTime
    /\ tx \in [Signatures -> Transaction]
    /\ key \in [Signatures -> Nat]
    /\ DOMAIN rows \subseteq Signatures
    /\ rows \in [DOMAIN rows -> Nat]

LEMMA TypeParts == TypeOK <=> StoresType /\ RequestsType /\ redisWorks \in BOOLEAN
  BY DEF TypeOK, StoresType, RequestsType, Accepted

\* A handler replaces the record of its own request.
LEMMA Replaced ==
    ASSUME RequestsType, NEW r \in Requests, NEW q \in Request, Accepted(q),
           req' = [req EXCEPT ![r] = q]
    PROVE  RequestsType'
  BY DEF RequestsType, Accepted

\* A request that advances, tries again or is answered is still accepted.
LEMMA StaysAccepted ==
    ASSUME NEW q \in Request, Accepted(q)
    PROVE  /\ q.state \notin {"new", "answered"} =>
                /\ \A state \in States \ {"new"} : Accepted(Advance(q, state))
                /\ Accepted(Retry(q))
           /\ \A status \in Statuses : Accepted(Answer(q, status))
  BY AdvanceFields, AnswerFields, RetryFields DEF Accepted

\* A handler past the first checks and not yet done.
Active(r) == req[r].state \notin {"new", "answered"}

\* The four ways a handler of an active request changes its record.
LEMMA HandlerRequests ==
    ASSUME RequestsType, NEW r \in Requests, Active(r),
           \/ \E state \in States \ {"new"} : req' = MoveTo(r, state)
           \/ \E status \in Statuses : req' = Answered(r, status)
           \/ req' = TryAgain(r)
    PROVE  RequestsType'
<1>1. req[r] \in Request /\ Accepted(req[r])
  BY DEF RequestsType
<1>2. ASSUME NEW state \in States \ {"new"}, req' = MoveTo(r, state) PROVE RequestsType'
  <2>1. /\ Advance(req[r], state) \in Request
        /\ Accepted(Advance(req[r], state))
    BY <1>1, AdvanceFields, StaysAccepted DEF Active
  <2>2. req' = [req EXCEPT ![r] = Advance(req[r], state)]
    BY <1>2 DEF MoveTo
  <2>3. QED
    BY <2>1, <2>2, Replaced
<1>3. ASSUME NEW status \in Statuses, req' = Answered(r, status) PROVE RequestsType'
  <2>1. /\ Answer(req[r], status) \in Request
        /\ Accepted(Answer(req[r], status))
    BY <1>1, AnswerFields, StaysAccepted
  <2>2. req' = [req EXCEPT ![r] = Answer(req[r], status)]
    BY <1>3 DEF Answered
  <2>3. QED
    BY <2>1, <2>2, Replaced
<1>4. ASSUME req' = TryAgain(r) PROVE RequestsType'
  <2>1. Retry(req[r]) \in Request /\ Accepted(Retry(req[r]))
    BY <1>1, RetryFields, StaysAccepted DEF Active
  <2>2. req' = [req EXCEPT ![r] = Retry(req[r])]
    BY <1>4 DEF TryAgain
  <2>3. QED
    BY <2>1, <2>2, Replaced
<1>5. QED
  BY <1>2, <1>3, <1>4

\* The states and statuses the handlers name.
LEMMA StatesNamed ==
    /\ "verified" \in States /\ "marked" \in States /\ "admitted" \in States
    /\ "fetching" \in States
  BY DEF States

LEMMA StatusesNamed ==
    /\ 0 \in Statuses /\ 200 \in Statuses /\ 400 \in Statuses /\ 402 \in Statuses
    /\ 409 \in Statuses /\ 500 \in Statuses /\ 502 \in Statuses /\ 503 \in Statuses
  BY DEF Statuses

LEMMA ArriveType ==
    ASSUME RequestsType, NEW r \in Requests, NEW route \in Paths, NEW sig \in Headers,
           Arrive(r, route, sig)
    PROVE  RequestsType'
<1> DEFINE asked == Asks(req[r], route, sig)
           refused == Answer(asked, Refusal(route, sig))
<1>1. req[r] \in Request
  BY DEF RequestsType
<1>2. /\ asked \in Request
      /\ asked.state = "lookup"
      /\ asked.route = route
      /\ asked.sig = sig
      /\ asked.fetched = req[r].fetched
  BY <1>1, AsksType
<1>3. CASE route \in Configured /\ sig \in Signatures
  <2>1. req' = [req EXCEPT ![r] = asked]
    BY <1>3 DEF Arrive
  <2>2. Accepted(asked)
    BY <1>2, <1>3 DEF Accepted
  <2>3. QED
    BY <1>2, <2>1, <2>2, Replaced
<1>4. CASE ~(route \in Configured /\ sig \in Signatures)
  <2>1. req' = [req EXCEPT ![r] = refused]
    BY <1>4 DEF Arrive
  <2>2. Refusal(route, sig) \in Statuses
    BY <1>4, RefusalType DEF Statuses
  <2> HIDE DEF asked
  <2>3. /\ refused \in Request
        /\ refused.state = "answered"
        /\ refused.route = asked.route
        /\ refused.sig = asked.sig
        /\ refused.fetched = asked.fetched
    BY <1>2, <2>2, AnswerFields
  <2>4. ~req[r].fetched
    BY DEF RequestsType, Accepted, Arrive, In
  <2>5. Accepted(refused)
    BY <1>2, <2>3, <2>4 DEF Accepted
  <2>6. QED
    BY <2>1, <2>3, <2>5, Replaced
<1>5. QED
  BY <1>3, <1>4

\* A step in which Redis fails or forgets.
RedisLapses == Flush \/ \E r \in Requests : MarkThrows(r)

\* Only such a step changes what is known of Redis.
LEMMA LapsesShow ==
    /\ RedisLapses => redisWorks' = FALSE
    /\ [Next]_vars => RedisLapses \/ redisWorks' = redisWorks
<1>1. RedisLapses => redisWorks' = FALSE
  BY DEF RedisLapses, Flush, MarkThrows
<1>2. [Next]_vars => RedisLapses \/ redisWorks' = redisWorks
  <2>1. ASSUME NEW r \in Requests, Handle(r) PROVE RedisLapses \/ redisWorks' = redisWorks
    BY <2>1 DEF RedisLapses, Handle, LookupMiss, LookupHit, MarkUsed, Record, RecordThrows,
                RejectCall, StartFetch, FetchEnds, FetchFails
  <2>2. ASSUME NEW r \in Requests, NEW route \in Paths, NEW sig \in Headers,
               Arrive(r, route, sig)
        PROVE  redisWorks' = redisWorks
    BY <2>2 DEF Arrive
  <2>3. ASSUME NEW s \in Signatures, NEW amount \in Amounts, Land(s, amount)
        PROVE  redisWorks' = redisWorks
    BY <2>3 DEF Land
  <2>4. Tick \/ Crash \/ UNCHANGED vars => redisWorks' = redisWorks
    BY DEF Tick, Crash, vars
  <2>5. QED
    BY <2>1, <2>2, <2>3, <2>4 DEF Next, RedisLapses
<1>3. QED
  BY <1>1, <1>2

\* Every step preserves the type invariant.
LEMMA TypeStep == TypeOK /\ [Next]_vars => TypeOK'
<1> SUFFICES ASSUME TypeOK, [Next]_vars PROVE StoresType' /\ RequestsType'
  <2>1. TypeOK /\ [Next]_vars => redisWorks' \in BOOLEAN
    BY TypeParts, LapsesShow, Zenon
  <2>2. TypeOK' <=> StoresType' /\ RequestsType' /\ redisWorks' \in BOOLEAN
    BY DEF TypeOK, StoresType, RequestsType, Accepted
  <2>3. QED
    BY <2>1, <2>2
<1> StoresType /\ RequestsType
  BY TypeParts
<1>1. ASSUME NEW r \in Requests, NEW route \in Paths, NEW sig \in Headers,
             Arrive(r, route, sig)
      PROVE  StoresType' /\ RequestsType'
  BY <1>1, ArriveType DEF Arrive, StoresType
<1>2. ASSUME NEW r \in Requests, LookupMiss(r)
      PROVE  StoresType' /\ RequestsType'
  BY <1>2, HandlerRequests, StatusesNamed DEF LookupMiss, StoresType, Active, In
<1>3. ASSUME NEW r \in Requests, LookupHit(r)
      PROVE  StoresType' /\ RequestsType'
  BY <1>3, HandlerRequests, StatesNamed, StatusesNamed
  DEF LookupHit, StoresType, Active, In
<1>4. ASSUME NEW r \in Requests, MarkUsed(r) \/ MarkThrows(r)
      PROVE  StoresType' /\ RequestsType'
  <2>1. now + TxTtl \in Nat
    BY TimeAssumption DEF StoresType
  <2>2. StoresType'
    BY <1>4, <2>1 DEF MarkUsed, MarkThrows, StoresType
  <2>3. RequestsType'
    BY <1>4, HandlerRequests, StatesNamed, StatusesNamed
    DEF MarkUsed, MarkThrows, Active, In
  <2>4. QED
    BY <2>2, <2>3
<1>5. ASSUME NEW r \in Requests, Record(r) \/ RecordThrows(r)
      PROVE  StoresType' /\ RequestsType'
  <2>1. req[r].sig \in Signatures /\ Price[req[r].route] \in Nat
    BY <1>5, PriceType DEF Record, RecordThrows, In, RequestsType, Accepted
  <2>2. rows' = rows \/ rows' = Inserted(req[r].sig, Price[req[r].route])
    BY <1>5 DEF Record, RecordThrows
  <2>3. DOMAIN rows' \subseteq Signatures /\ rows' \in [DOMAIN rows' -> Nat]
    <3>1. CASE rows' = rows
      BY <3>1 DEF StoresType
    <3>2. CASE rows' = Inserted(req[r].sig, Price[req[r].route])
      <4>1. /\ DOMAIN rows' = DOMAIN rows \cup {req[r].sig}
            /\ rows' \in [DOMAIN rows \cup {req[r].sig} -> Nat]
        BY <2>1, <3>2, InsertedTable
      <4>2. QED
        BY <2>1, <4>1 DEF StoresType
    <3>3. QED
      BY <2>2, <3>1, <3>2
  <2>4. StoresType'
    BY <1>5, <2>3 DEF Record, RecordThrows, StoresType
  <2>5. RequestsType'
    BY <1>5, HandlerRequests, StatesNamed, StatusesNamed
    DEF Record, RecordThrows, Active, In
  <2>6. QED
    BY <2>4, <2>5
<1>6. ASSUME NEW r \in Requests, StartFetch(r)
      PROVE  StoresType' /\ RequestsType'
  <2> DEFINE advanced == Advance(req[r], "fetching")
             started == [advanced EXCEPT !.fetched = TRUE]
  <2>1. advanced \in Request /\ Accepted(advanced) /\ advanced.state = "fetching"
    BY <1>6, AdvanceFields, StaysAccepted, StatesNamed
    DEF StartFetch, RequestsType, In
  <2>2. req' = [req EXCEPT ![r] = started]
    BY <1>6 DEF StartFetch
  <2> HIDE DEF advanced
  <2>3. started \in Request /\ Accepted(started)
    BY <2>1 DEF Request, Accepted
  <2>4. QED
    BY <1>6, <2>2, <2>3, Replaced DEF StartFetch, StoresType
<1>7. ASSUME NEW r \in Requests, RejectCall(r) \/ FetchEnds(r) \/ FetchFails(r)
      PROVE  StoresType' /\ RequestsType'
  BY <1>7, HandlerRequests, StatusesNamed
  DEF RejectCall, FetchEnds, FetchFails, StoresType, Active, In
<1>8. ASSUME NEW s \in Signatures, NEW amount \in Amounts, Land(s, amount)
      PROVE  StoresType' /\ RequestsType'
  <2>1. PICK state \in {"landed", "failed"}, blockTime \in {0, now} :
           tx' = [tx EXCEPT ![s] = [state |-> state, amount |-> amount,
                                    blockTime |-> blockTime]]
    BY <1>8 DEF Land
  <2>2. [state |-> state, amount |-> amount, blockTime |-> blockTime] \in Transaction
    BY PriceAssumption, TimeAssumption DEF Transaction, TxStates, StoresType
  <2>3. QED
    BY <1>8, <2>1, <2>2 DEF Land, StoresType, RequestsType
<1>9. ASSUME Tick
      PROVE  StoresType' /\ RequestsType'
  BY <1>9, TimeAssumption DEF Tick, StoresType, RequestsType
<1>10. ASSUME Flush
       PROVE  StoresType' /\ RequestsType'
  BY <1>10 DEF Flush, StoresType, RequestsType
<1>11. ASSUME Crash
       PROVE  StoresType' /\ RequestsType'
  <2>1. ASSUME NEW r \in Requests
        PROVE  Answer(req[r], 0) \in Request /\ Accepted(Answer(req[r], 0))
    BY AnswerFields, StaysAccepted, StatusesNamed DEF RequestsType
  <2>2. QED
    BY <1>11, <2>1 DEF Crash, StoresType, RequestsType
<1>12. CASE UNCHANGED vars
  BY <1>12 DEF vars, StoresType, RequestsType
<1>13. QED
  BY <1>1, <1>2, <1>3, <1>4, <1>5, <1>6, <1>7, <1>8, <1>9, <1>10, <1>11, <1>12
  DEF Next, Handle

\* Types: every reachable state of the gateway is one the records describe.
THEOREM TypeCorrect == Spec => []TypeOK
<1>1. QED
  BY TypeInit, TypeStep, PTL DEF Spec

-----------------------------------------------------------------------------
(* The ticket invariant                                                    *)

LEMMA TicketInit == Init => TicketInv
<1> SUFFICES ASSUME Init PROVE TicketInv
  OBVIOUS
<1>1. \A r \in Requests : req[r].state = "new" /\ ~req[r].fetched
  BY DEF Init, NewRequest
<1>2. DOMAIN rows = {}
  BY DEF Init
<1>3. QED
  BY <1>1, <1>2
  DEF TicketInv, VerifiedIsPaid, RowsArePaid, AdmittedIsRecorded, OneAdmitted, Admitted

\* x asks for the same as before, if it still asks.
SameAsked(x) == req'[x].sig = req[x].sig /\ req'[x].route = req[x].route

\* A request is past the lookup and not yet past the database.
Paid(x) == req[x].state \in {"verified", "marked"}

\* No step that admits nobody, verifies nobody and leaves the chain and the
\* table alone can break the invariant.
LEMMA NobodyNew ==
    ASSUME TicketInv, UNCHANGED <<tx, rows>>,
           \A x \in Requests :
               /\ Admitted(x)' => Admitted(x) /\ SameAsked(x)
               /\ Paid(x)' => Paid(x) /\ SameAsked(x)
    PROVE  TicketInv'
<1>1. VerifiedIsPaid'
  BY DEF TicketInv, VerifiedIsPaid, Paid, SameAsked
<1>2. RowsArePaid'
  BY DEF TicketInv, RowsArePaid
<1>3. AdmittedIsRecorded'
  BY DEF TicketInv, AdmittedIsRecorded, SameAsked
<1>4. OneAdmitted'
  BY DEF TicketInv, OneAdmitted, SameAsked
<1>5. QED
  BY <1>1, <1>2, <1>3, <1>4 DEF TicketInv

\* Nothing changes for the requests that a handler does not handle.
LEMMA OthersKept ==
    ASSUME RequestsType, NEW r \in Requests, NEW q, req' = [req EXCEPT ![r] = q]
    PROVE  req'[r] = q /\ \A x \in Requests : x # r => req'[x] = req[x]
  BY DEF RequestsType

\* A handler that answers, tries again, or goes on from a state it is
\* admitted or verified in, gains nothing.
LEMMA HandlerGainsNothing ==
    ASSUME TypeOK, TicketInv, NEW r \in Requests, UNCHANGED <<tx, rows>>,
           \/ \E status \in Statuses : req' = Answered(r, status)
           \/ req' = TryAgain(r)
           \/ req[r].state = "verified" /\ req' = MoveTo(r, "marked")
    PROVE  TicketInv'
<1> RequestsType
  BY TypeParts
<1>1. req[r] \in Request
  BY DEF RequestsType
<1>2. ASSUME NEW x \in Requests
      PROVE  /\ Admitted(x)' => Admitted(x) /\ SameAsked(x)
             /\ Paid(x)' => Paid(x) /\ SameAsked(x)
  <2>1. ASSUME NEW status \in Statuses, req' = Answered(r, status)
        PROVE  /\ Admitted(x)' => Admitted(x) /\ SameAsked(x)
               /\ Paid(x)' => Paid(x) /\ SameAsked(x)
    <3>1. /\ req'[r] = Answer(req[r], status)
          /\ x # r => req'[x] = req[x]
      BY <2>1, OthersKept DEF Answered
    <3>2. /\ req'[r].state = "answered"
          /\ SameAsked(r)
          /\ req'[r].fetched = req[r].fetched
      BY <1>1, <3>1, AnswerFields DEF SameAsked
    <3>3. QED
      BY <3>1, <3>2 DEF Admitted, Paid, SameAsked
  <2>2. ASSUME req' = TryAgain(r)
        PROVE  /\ Admitted(x)' => Admitted(x) /\ SameAsked(x)
               /\ Paid(x)' => Paid(x) /\ SameAsked(x)
    <3>1. /\ req'[r] = Retry(req[r])
          /\ x # r => req'[x] = req[x]
      BY <2>2, OthersKept DEF TryAgain
    <3>2. QED
      BY <1>1, <3>1, RetryFields DEF Admitted, Paid, SameAsked
  <2>3. ASSUME req[r].state = "verified", req' = MoveTo(r, "marked")
        PROVE  /\ Admitted(x)' => Admitted(x) /\ SameAsked(x)
               /\ Paid(x)' => Paid(x) /\ SameAsked(x)
    <3>1. /\ req'[r] = Advance(req[r], "marked")
          /\ x # r => req'[x] = req[x]
      BY <2>3, OthersKept DEF MoveTo
    <3>2. /\ req'[r].state = "marked"
          /\ req'[r].route = req[r].route
          /\ req'[r].sig = req[r].sig
          /\ req'[r].fetched = req[r].fetched
      <4>1. "marked" \in States
        BY StatesNamed
      <4>2. QED
        BY <1>1, <3>1, <4>1, AdvanceFields
    <3>3. QED
      BY <2>3, <3>1, <3>2 DEF Admitted, Paid, SameAsked
  <2>4. QED
    BY <2>1, <2>2, <2>3
<1>3. QED
  BY <1>2, NobodyNew

\* LookupHit: a request is verified only against a transaction that pays.
LEMMA LookupHitTicket ==
    ASSUME TypeOK, TicketInv, NEW r \in Requests, LookupHit(r)
    PROVE  TicketInv'
<1> RequestsType
  BY TypeParts
<1>1. req[r] \in Request
  BY DEF RequestsType
<1>2. CASE ~PaysFor(tx[req[r].sig], req[r].route)
  BY <1>2, HandlerGainsNothing, StatusesNamed DEF LookupHit
<1>3. CASE PaysFor(tx[req[r].sig], req[r].route)
  <2>1. /\ req'[r] = Advance(req[r], "verified")
        /\ \A x \in Requests : x # r => req'[x] = req[x]
    BY <1>3, OthersKept DEF LookupHit, MoveTo
  <2>2. /\ req'[r].state = "verified"
        /\ SameAsked(r)
        /\ req'[r].fetched = req[r].fetched
    <3>1. "verified" \in States
      BY StatesNamed
    <3>2. QED
      BY <1>1, <2>1, <3>1, AdvanceFields DEF SameAsked
  <2>3. UNCHANGED <<tx, rows>>
    BY DEF LookupHit
  <2>4. \A x \in Requests : Admitted(x)' => Admitted(x) /\ SameAsked(x)
    BY <2>1, <2>2 DEF Admitted, SameAsked
  <2>5. VerifiedIsPaid'
    BY <1>3, <2>1, <2>2, <2>3
    DEF TicketInv, VerifiedIsPaid, PaysFor, SameAsked
  <2>6. RowsArePaid' /\ AdmittedIsRecorded' /\ OneAdmitted'
    BY <2>3, <2>4
    DEF TicketInv, RowsArePaid, AdmittedIsRecorded, OneAdmitted, SameAsked
  <2>7. QED
    BY <2>5, <2>6 DEF TicketInv
<1>4. QED
  BY <1>2, <1>3

\* A row inserted for a verified request is paid for.
LEMMA InsertPaid ==
    ASSUME TypeOK, TicketInv, NEW r \in Requests, req[r].state = "marked",
           req[r].sig \notin DOMAIN rows,
           rows' = Inserted(req[r].sig, Price[req[r].route]), UNCHANGED tx
    PROVE  /\ RowsArePaid'
           /\ DOMAIN rows' = DOMAIN rows \cup {req[r].sig}
<1> DEFINE s == req[r].sig
           amount == Price[req[r].route]
<1>1. s \in Signatures /\ amount \in Nat
  <2>1. req[r].route \in Configured /\ s \in Signatures
    BY DEF TypeOK, Accepted
  <2>2. QED
    BY <2>1, PriceType
<1>2. tx[s].state = "landed" /\ amount <= tx[s].amount
  <2>1. tx[s].amount \in Nat
    BY <1>1 DEF TypeOK, Transaction
  <2>2. QED
    BY <1>1, <2>1 DEF TicketInv, VerifiedIsPaid
<1>3. /\ DOMAIN rows' = DOMAIN rows \cup {s}
      /\ rows'[s] = amount
      /\ \A x \in DOMAIN rows : x # s => rows'[x] = rows[x]
  <2>1. rows' = Inserted(s, amount)
    OBVIOUS
  <2> HIDE DEF s, amount
  <2>2. QED
    BY <2>1 DEF Inserted
<1>4. QED
  BY <1>2, <1>3 DEF TicketInv, RowsArePaid

\* Record: the row is what admits a request, and there was none.
LEMMA RecordTicket ==
    ASSUME TypeOK, TicketInv, NEW r \in Requests, Record(r)
    PROVE  TicketInv'
<1> RequestsType
  BY TypeParts
<1>1. req[r] \in Request
  BY DEF RequestsType
<1>2. CASE req[r].sig \in DOMAIN rows
  BY <1>2, HandlerGainsNothing, StatusesNamed DEF Record
<1>3. CASE req[r].sig \notin DOMAIN rows
  <2>1. /\ req'[r] = Advance(req[r], "admitted")
        /\ \A x \in Requests : x # r => req'[x] = req[x]
    BY <1>3, OthersKept DEF Record, MoveTo
  <2>2. req'[r].state = "admitted" /\ SameAsked(r)
    <3>1. "admitted" \in States
      BY StatesNamed
    <3>2. QED
      BY <1>1, <2>1, <3>1, AdvanceFields DEF SameAsked
  <2>3. /\ RowsArePaid'
        /\ DOMAIN rows' = DOMAIN rows \cup {req[r].sig}
    BY <1>3, InsertPaid DEF Record, In
  <2>4. tx' = tx
    BY DEF Record
  <2>5. VerifiedIsPaid'
    BY <2>1, <2>2, <2>4 DEF TicketInv, VerifiedIsPaid
  <2>6. AdmittedIsRecorded'
    BY <2>1, <2>2, <2>3, <2>4
    DEF TicketInv, AdmittedIsRecorded, VerifiedIsPaid, Admitted, SameAsked, Record, In
  <2>7. OneAdmitted'
    BY <1>3, <2>1, <2>2
    DEF TicketInv, OneAdmitted, AdmittedIsRecorded, Admitted, SameAsked
  <2>8. QED
    BY <2>3, <2>5, <2>6, <2>7 DEF TicketInv
<1>4. QED
  BY <1>2, <1>3

\* RecordThrows: the row may be there, but it admits nobody.
LEMMA RecordThrowsTicket ==
    ASSUME TypeOK, TicketInv, NEW r \in Requests, RecordThrows(r)
    PROVE  TicketInv'
<1> RequestsType
  BY TypeParts
<1>1. req[r] \in Request
  BY DEF RequestsType
<1>2. CASE rows' = rows
  BY <1>2, HandlerGainsNothing, StatusesNamed DEF RecordThrows
<1>3. CASE rows' # rows
  <2>1. /\ req[r].sig \notin DOMAIN rows
        /\ rows' = Inserted(req[r].sig, Price[req[r].route])
        /\ tx' = tx
    BY <1>3 DEF RecordThrows
  <2>2. /\ req'[r] = Answer(req[r], 503)
        /\ \A x \in Requests : x # r => req'[x] = req[x]
    BY OthersKept DEF RecordThrows, Answered
  <2>3. /\ req'[r].state = "answered"
        /\ SameAsked(r)
        /\ req'[r].fetched = req[r].fetched
    <3>1. 503 \in Statuses
      BY StatusesNamed
    <3>2. QED
      BY <1>1, <2>2, <3>1, AnswerFields DEF SameAsked
  <2>4. \A x \in Requests :
           /\ Admitted(x)' => Admitted(x) /\ SameAsked(x)
           /\ Paid(x)' => Paid(x) /\ SameAsked(x)
    BY <2>2, <2>3 DEF Admitted, Paid, SameAsked
  <2>5. /\ RowsArePaid'
        /\ DOMAIN rows' = DOMAIN rows \cup {req[r].sig}
    BY <2>1, InsertPaid DEF RecordThrows, In
  <2>6. VerifiedIsPaid'
    BY <2>1, <2>4 DEF TicketInv, VerifiedIsPaid, Paid, SameAsked
  <2>7. AdmittedIsRecorded' /\ OneAdmitted'
    BY <2>1, <2>4, <2>5 DEF TicketInv, AdmittedIsRecorded, OneAdmitted, SameAsked
  <2>8. QED
    BY <2>5, <2>6, <2>7 DEF TicketInv
<1>4. QED
  BY <1>2, <1>3

\* Land: a transaction that lands is one that nobody has seen yet.
LEMMA LandTicket ==
    ASSUME TypeOK, TicketInv, NEW s \in Signatures, NEW amount \in Amounts,
           Land(s, amount)
    PROVE  TicketInv'
<1>1. tx[s].state = "unsent" /\ UNCHANGED <<rows, req>>
  BY DEF Land
<1>2. \A x \in Signatures : x # s => tx'[x] = tx[x]
  BY DEF Land, TypeOK
<1>3. s \notin DOMAIN rows
  BY <1>1 DEF TicketInv, RowsArePaid
<1>4. \A r \in Requests : Paid(r) => req[r].sig \in Signatures /\ req[r].sig # s
  BY <1>1 DEF TicketInv, VerifiedIsPaid, Paid, TypeOK, Accepted
<1>5. \A r \in Requests : Admitted(r) => req[r].sig \in Signatures /\ req[r].sig # s
  BY <1>3 DEF TicketInv, AdmittedIsRecorded, TypeOK
<1>6. VerifiedIsPaid'
  BY <1>1, <1>2, <1>4 DEF TicketInv, VerifiedIsPaid, Paid
<1>7. RowsArePaid'
  BY <1>1, <1>2, <1>3 DEF TicketInv, RowsArePaid, TypeOK
<1>8. AdmittedIsRecorded' /\ OneAdmitted'
  BY <1>1, <1>2, <1>5 DEF TicketInv, AdmittedIsRecorded, OneAdmitted, Admitted
<1>9. QED
  BY <1>6, <1>7, <1>8 DEF TicketInv

\* Every step preserves the ticket invariant.
LEMMA TicketStep == TypeOK /\ TicketInv /\ [Next]_vars => TicketInv'
<1> SUFFICES ASSUME TypeOK, TicketInv, [Next]_vars PROVE TicketInv'
  OBVIOUS
<1> RequestsType
  BY TypeParts
<1>1. ASSUME NEW r \in Requests, NEW route \in Paths, NEW sig \in Headers,
             Arrive(r, route, sig)
      PROVE  TicketInv'
  <2> DEFINE asked == Asks(req[r], route, sig)
             refused == Answer(asked, Refusal(route, sig))
  <2>1. req[r] \in Request /\ ~req[r].fetched
    BY <1>1 DEF RequestsType, Accepted, Arrive, In
  <2>2. asked \in Request /\ asked.state = "lookup" /\ ~asked.fetched
    BY <2>1, AsksType
  <2>3. ~(route \in Configured /\ sig \in Signatures) =>
           refused.state = "answered" /\ ~refused.fetched
    <3>1. ~(route \in Configured /\ sig \in Signatures) =>
             Refusal(route, sig) \in Statuses
      BY RefusalType DEF Statuses
    <3> HIDE DEF asked
    <3>2. QED
      BY <2>2, <3>1, AnswerFields
  <2>4. PICK q \in {asked, refused} :
           /\ req' = [req EXCEPT ![r] = q]
           /\ q.state \in {"lookup", "answered"} /\ ~q.fetched
    BY <1>1, <2>2, <2>3 DEF Arrive
  <2>5. req'[r] = q /\ \A x \in Requests : x # r => req'[x] = req[x]
    BY <2>4, OthersKept
  <2>6. \A x \in Requests :
           /\ Admitted(x)' => Admitted(x) /\ SameAsked(x)
           /\ Paid(x)' => Paid(x) /\ SameAsked(x)
    BY <2>4, <2>5 DEF Admitted, Paid, SameAsked
  <2>7. QED
    BY <1>1, <2>6, NobodyNew DEF Arrive
<1>2. ASSUME NEW r \in Requests,
             LookupMiss(r) \/ RejectCall(r) \/ FetchEnds(r) \/ FetchFails(r)
      PROVE  TicketInv'
  BY <1>2, HandlerGainsNothing, StatusesNamed
  DEF LookupMiss, RejectCall, FetchEnds, FetchFails
<1>3. ASSUME NEW r \in Requests, MarkUsed(r) \/ MarkThrows(r)
      PROVE  TicketInv'
  BY <1>3, HandlerGainsNothing, StatusesNamed DEF MarkUsed, MarkThrows, In
<1>4. ASSUME NEW r \in Requests, StartFetch(r)
      PROVE  TicketInv'
  <2> DEFINE started == [Advance(req[r], "fetching") EXCEPT !.fetched = TRUE]
  <2>1. req'[r] = started /\ \A x \in Requests : x # r => req'[x] = req[x]
    BY <1>4, OthersKept DEF StartFetch
  <2>2. started.state = "fetching" /\ started.sig = req[r].sig
                                   /\ started.route = req[r].route
    BY DEF Advance, RequestsType, Request
  <2> HIDE DEF started
  <2>3. \A x \in Requests :
           /\ Admitted(x)' => Admitted(x) /\ SameAsked(x)
           /\ Paid(x)' => Paid(x) /\ SameAsked(x)
    BY <1>4, <2>1, <2>2 DEF Admitted, Paid, SameAsked, StartFetch, In
  <2>4. QED
    BY <1>4, <2>3, NobodyNew DEF StartFetch
<1>5. ASSUME NEW r \in Requests, LookupHit(r) \/ Record(r) \/ RecordThrows(r)
      PROVE  TicketInv'
  BY <1>5, LookupHitTicket, RecordTicket, RecordThrowsTicket
<1>6. ASSUME NEW s \in Signatures, NEW amount \in Amounts, Land(s, amount)
      PROVE  TicketInv'
  BY <1>6, LandTicket
<1>7. ASSUME Tick \/ Flush \/ UNCHANGED vars
      PROVE  TicketInv'
  <2>1. UNCHANGED <<tx, rows, req>>
    BY <1>7 DEF Tick, Flush, vars
  <2>2. QED
    BY <2>1, NobodyNew DEF Admitted, Paid, SameAsked
<1>8. ASSUME Crash
      PROVE  TicketInv'
  <2>1. 0 \in Statuses
    BY StatusesNamed
  <2>2. ASSUME NEW x \in Requests
        PROVE  /\ Admitted(x)' => Admitted(x) /\ SameAsked(x)
               /\ Paid(x)' => Paid(x) /\ SameAsked(x)
    <3>1. CASE req'[x] = req[x]
      BY <3>1 DEF Admitted, Paid, SameAsked
    <3>2. CASE req'[x] = Answer(req[x], 0)
      BY <2>1, <3>2, AnswerFields DEF RequestsType, Admitted, Paid, SameAsked
    <3>3. QED
      BY <1>8, <3>1, <3>2 DEF Crash
  <2>3. QED
    BY <1>8, <2>2, NobodyNew DEF Crash
<1>9. QED
  BY <1>1, <1>2, <1>3, <1>4, <1>5, <1>6, <1>7, <1>8 DEF Next, Handle

\* One payment, one call, for any number of requests, in any order, with any
\* combination of faults.
THEOREM OnePaymentOneCall == Spec => []OneCallPerPayment
<1>1. TicketInv => OneCallPerPayment
  BY DEF TicketInv, OneAdmitted, OneCallPerPayment, Admitted
<1>2. Init => TypeOK /\ TicketInv
  BY TypeInit, TicketInit
<1>3. TypeOK /\ TicketInv /\ [Next]_vars => (TypeOK /\ TicketInv)'
  BY TypeStep, TicketStep
<1>4. QED
  BY <1>1, <1>2, <1>3, PTL DEF Spec

\* Every row of the transactions table and every request sent upstream is
\* covered by a transaction on chain.
THEOREM BooksAlwaysBalance == Spec => []BooksBalance
<1>1. TicketInv => BooksBalance
  BY DEF TicketInv, RowsArePaid, AdmittedIsRecorded, BooksBalance, Admitted
<1>2. Init => TypeOK /\ TicketInv
  BY TypeInit, TicketInit
<1>3. TypeOK /\ TicketInv /\ [Next]_vars => (TypeOK /\ TicketInv)'
  BY TypeStep, TicketStep
<1>4. QED
  BY <1>1, <1>2, <1>3, PTL DEF Spec

-----------------------------------------------------------------------------
(* Redis alone                                                             *)

\* Redis keeps a key for longer than a transaction may be old: 600 and 300
\* seconds in the code.
KeysLast == MaxTxAge < TxTtl

\* The key of s outlives the time in which s would be accepted.
Outlives(s) == tx[s].blockTime # 0 => tx[s].blockTime + MaxTxAge < key[s]

BlocksArePast == \A s \in Signatures : tx[s].blockTime <= now

\* A request that Redis let through is covered already, before its row is.
KeyInv ==
    /\ BlocksArePast
    /\ \A r \in Requests : req[r].state = "marked" => Outlives(req[r].sig)
    /\ \A s \in DOMAIN rows : Outlives(s)

LEMMA KeyInit == Init => KeyInv
<1>1. Init => DOMAIN rows = {}
  BY DEF Init
<1>2. ASSUME Init, NEW s \in Signatures
      PROVE  tx[s].blockTime <= now
  BY <1>2 DEF Init, Unsent
<1>3. ASSUME Init, NEW r \in Requests
      PROVE  req[r].state = "new"
  BY <1>3 DEF Init, NewRequest
<1>4. QED
  BY <1>1, <1>2, <1>3 DEF KeyInv, BlocksArePast

\* Past Redis and on its way to the database.
Marked(x) == req[x].state = "marked"

\* A step that marks nobody and records only the marked keeps the invariant:
\* time goes on, and keys are only renewed.
LEMMA NobodyMarked ==
    ASSUME KeyInv, TypeOK, now' \in Int, now <= now', UNCHANGED <<tx, key>>,
           \A x \in Requests : Marked(x)' => Marked(x) /\ SameAsked(x),
           \A s \in DOMAIN rows' :
               s \in DOMAIN rows \/ \E x \in Requests : Marked(x) /\ req[x].sig = s
    PROVE  KeyInv'
<1>1. BlocksArePast'
  <2>1. ASSUME NEW s \in Signatures PROVE tx[s].blockTime \in Int /\ now \in Int
    BY DEF TypeOK, Transaction
  <2>2. QED
    BY <2>1 DEF KeyInv, BlocksArePast
<1>2. \A s : Outlives(s)' <=> Outlives(s)
  BY DEF Outlives
<1>3. QED
  BY <1>1, <1>2 DEF KeyInv, Marked, SameAsked

\* MarkUsed renews a key that has expired, and marks its request.
LEMMA MarkUsedKeys ==
    ASSUME KeysLast, TypeOK, TicketInv, KeyInv, NEW r \in Requests, MarkUsed(r)
    PROVE  KeyInv'
<1> RequestsType
  BY TypeParts
<1> PICK s : s = req[r].sig
  OBVIOUS
<1>1. req[r] \in Request /\ s \in Signatures
  BY DEF RequestsType, Accepted, MarkUsed, In
<1>2. UNCHANGED <<now, tx, rows>>
  BY DEF MarkUsed
<1>3. CASE HasKey(s)
  <2>1. key' = key /\ req' = Answered(r, 409)
    BY <1>3 DEF MarkUsed
  <2>2. /\ req'[r] = Answer(req[r], 409)
        /\ \A x \in Requests : x # r => req'[x] = req[x]
    BY <2>1, OthersKept DEF Answered
  <2>3. req'[r].state = "answered"
    <3>1. 409 \in Statuses
      BY StatusesNamed
    <3>2. QED
      BY <1>1, <2>2, <3>1, AnswerFields
  <2>4. \A x \in Requests : Marked(x)' => Marked(x) /\ SameAsked(x)
    BY <2>2, <2>3 DEF Marked, SameAsked
  <2>5. now' \in Int /\ now <= now'
    BY <1>2 DEF TypeOK
  <2>6. QED
    BY <1>2, <2>1, <2>4, <2>5, NobodyMarked
<1>4. CASE ~HasKey(s)
  <2>1. key' = [key EXCEPT ![s] = now + TxTtl] /\ req' = MoveTo(r, "marked")
    BY <1>4 DEF MarkUsed
  <2>2. /\ req'[r] = Advance(req[r], "marked")
        /\ \A x \in Requests : x # r => req'[x] = req[x]
    BY <2>1, OthersKept DEF MoveTo
  <2>3. req'[r].sig = s
    <3>1. "marked" \in States
      BY StatesNamed
    <3>2. QED
      BY <1>1, <2>2, <3>1, AdvanceFields
  <2>4. key'[s] = now + TxTtl /\ \A x \in Signatures : x # s => key'[x] = key[x]
    BY <1>1, <2>1 DEF TypeOK
  <2>5. ASSUME NEW x \in Signatures
        PROVE  tx[x].blockTime \in Int /\ now \in Int /\ tx[x].blockTime <= now
    BY DEF TypeOK, Transaction, KeyInv, BlocksArePast
  <2>6. Outlives(s)'
    <3>1. MaxTxAge \in Int /\ TxTtl \in Int /\ MaxTxAge < TxTtl
      BY TimeAssumption DEF KeysLast
    <3>2. QED
      BY <1>1, <1>2, <2>4, <2>5, <3>1 DEF Outlives
  <2>7. ASSUME NEW x \in Signatures, Outlives(x) PROVE Outlives(x)'
    BY <1>2, <2>4, <2>6, <2>7 DEF Outlives
  <2>8. BlocksArePast'
    BY <1>2 DEF KeyInv, BlocksArePast
  <2>9. ASSUME NEW x \in Requests, req'[x].state = "marked"
        PROVE  tx'[req'[x].sig].blockTime # 0 =>
                   tx'[req'[x].sig].blockTime + MaxTxAge < key'[req'[x].sig]
    <3>1. CASE x = r
      BY <2>3, <2>6, <3>1 DEF Outlives
    <3>2. CASE x # r
      <4>1. req[x].state = "marked" /\ req'[x] = req[x]
        BY <2>2, <2>9, <3>2
      <4>2. req[x].sig \in Signatures /\ Outlives(req[x].sig)
        BY <4>1 DEF KeyInv, RequestsType, Accepted
      <4>3. QED
        BY <2>7, <4>1, <4>2 DEF Outlives
    <3>3. QED
      BY <3>1, <3>2
  <2>10. ASSUME NEW x \in DOMAIN rows' PROVE Outlives(x)'
    BY <1>2, <2>7 DEF KeyInv, TypeOK
  <2>11. QED
    BY <2>8, <2>9, <2>10 DEF KeyInv, Outlives
<1>5. QED
  BY <1>3, <1>4

\* A handler that does not go to the database marks nobody.
LEMMA HandlerMarksNobody ==
    ASSUME RequestsType, NEW r \in Requests,
           \/ \E state \in States \ {"marked"} : req' = MoveTo(r, state)
           \/ \E status \in Statuses : req' = Answered(r, status)
           \/ req' = TryAgain(r)
           \/ StartFetch(r)
    PROVE  \A x \in Requests : Marked(x)' => Marked(x) /\ SameAsked(x)
<1>1. req[r] \in Request
  BY DEF RequestsType
<1>2. ASSUME NEW state \in States \ {"marked"}, req' = MoveTo(r, state)
      PROVE  \A x \in Requests : Marked(x)' => Marked(x) /\ SameAsked(x)
  <2>1. /\ req'[r] = Advance(req[r], state)
        /\ \A x \in Requests : x # r => req'[x] = req[x]
    BY <1>2, OthersKept DEF MoveTo
  <2>2. req'[r].state # "marked"
    BY <1>1, <2>1, AdvanceFields
  <2>3. QED
    BY <2>1, <2>2 DEF Marked, SameAsked
<1>3. ASSUME NEW status \in Statuses, req' = Answered(r, status)
      PROVE  \A x \in Requests : Marked(x)' => Marked(x) /\ SameAsked(x)
  <2>1. /\ req'[r] = Answer(req[r], status)
        /\ \A x \in Requests : x # r => req'[x] = req[x]
    BY <1>3, OthersKept DEF Answered
  <2>2. req'[r].state = "answered"
    BY <1>1, <2>1, AnswerFields
  <2>3. QED
    BY <2>1, <2>2 DEF Marked, SameAsked
<1>4. ASSUME req' = TryAgain(r)
      PROVE  \A x \in Requests : Marked(x)' => Marked(x) /\ SameAsked(x)
  <2>1. /\ req'[r] = Retry(req[r])
        /\ \A x \in Requests : x # r => req'[x] = req[x]
    BY <1>4, OthersKept DEF TryAgain
  <2>2. QED
    BY <1>1, <2>1, RetryFields DEF Marked, SameAsked
<1>5. ASSUME StartFetch(r)
      PROVE  \A x \in Requests : Marked(x)' => Marked(x) /\ SameAsked(x)
  <2> DEFINE started == [Advance(req[r], "fetching") EXCEPT !.fetched = TRUE]
  <2>1. req'[r] = started /\ \A x \in Requests : x # r => req'[x] = req[x]
    BY <1>5, OthersKept DEF StartFetch
  <2>2. started.state = "fetching"
    BY <1>1 DEF Advance, Request
  <2>3. QED
    BY <2>1, <2>2 DEF Marked, SameAsked
<1>6. QED
  BY <1>2, <1>3, <1>4, <1>5

\* A transaction lands that no request past the lookup and no row stands for.
LEMMA LandKeys ==
    ASSUME TypeOK, TicketInv, KeyInv, NEW s \in Signatures, NEW amount \in Amounts,
           Land(s, amount)
    PROVE  KeyInv'
<1>1. tx[s].state = "unsent" /\ UNCHANGED <<now, key, rows, req>>
  BY DEF Land
<1>2. \A x \in Signatures : x # s => tx'[x] = tx[x]
  BY DEF Land, TypeOK
<1>3. tx'[s].blockTime \in {0, now}
  BY DEF Land, TypeOK
<1>4. s \notin DOMAIN rows
  BY <1>1 DEF TicketInv, RowsArePaid
<1>5. \A r \in Requests : Marked(r) => req[r].sig \in Signatures /\ req[r].sig # s
  BY <1>1 DEF TicketInv, VerifiedIsPaid, Marked, TypeOK, Accepted
<1>6. BlocksArePast'
  <2>1. now \in Int /\ 0 <= now
    BY DEF TypeOK
  <2>2. QED
    BY <1>1, <1>2, <1>3, <2>1 DEF KeyInv, BlocksArePast
<1>7. \A x \in Signatures : x # s /\ Outlives(x) => Outlives(x)'
  BY <1>1, <1>2 DEF Outlives
<1>8. \A x \in DOMAIN rows' : Outlives(x)'
  BY <1>1, <1>4, <1>7 DEF KeyInv, TypeOK
<1>9. ASSUME NEW r \in Requests, req'[r].state = "marked"
      PROVE  tx'[req'[r].sig].blockTime # 0 =>
                 tx'[req'[r].sig].blockTime + MaxTxAge < key'[req'[r].sig]
  BY <1>1, <1>2, <1>5, <1>9 DEF KeyInv, Outlives, Marked
<1>10. QED
  BY <1>6, <1>8, <1>9 DEF KeyInv, Outlives

\* If Redis still works after a step it did before, and did not lapse.
LEMMA StillWorks == [Next]_vars /\ redisWorks' => redisWorks /\ ~RedisLapses
  BY LapsesShow, Zenon

LEMMA KeyStep ==
    ASSUME KeysLast, TypeOK, TicketInv, KeyInv, [Next]_vars, ~RedisLapses
    PROVE  KeyInv'
<1> RequestsType
  BY TypeParts
<1>1. now \in Int /\ now <= now
  BY DEF TypeOK
<1>2. ASSUME NEW r \in Requests, NEW route \in Paths, NEW sig \in Headers,
             Arrive(r, route, sig)
      PROVE  KeyInv'
  <2> DEFINE asked == Asks(req[r], route, sig)
             refused == Answer(asked, Refusal(route, sig))
  <2>1. req[r] \in Request
    BY DEF RequestsType
  <2>2. asked \in Request /\ asked.state = "lookup"
    BY <2>1, AsksType
  <2>3. ~(route \in Configured /\ sig \in Signatures) => refused.state = "answered"
    <3>1. ~(route \in Configured /\ sig \in Signatures) =>
             Refusal(route, sig) \in Statuses
      BY RefusalType DEF Statuses
    <3> HIDE DEF asked
    <3>2. QED
      BY <2>2, <3>1, AnswerFields
  <2>4. PICK q \in {asked, refused} :
           req' = [req EXCEPT ![r] = q] /\ q.state \in {"lookup", "answered"}
    BY <1>2, <2>2, <2>3 DEF Arrive
  <2>5. req'[r] = q /\ \A x \in Requests : x # r => req'[x] = req[x]
    BY <2>4, OthersKept
  <2>6. \A x \in Requests : Marked(x)' => Marked(x) /\ SameAsked(x)
    BY <2>4, <2>5 DEF Marked, SameAsked
  <2>7. QED
    BY <1>1, <1>2, <2>6, NobodyMarked DEF Arrive
<1>3. ASSUME NEW r \in Requests,
             \/ LookupMiss(r) \/ LookupHit(r) \/ RejectCall(r) \/ StartFetch(r)
             \/ FetchEnds(r) \/ FetchFails(r)
      PROVE  KeyInv'
  <2>1. UNCHANGED <<now, tx, key, rows>>
    BY <1>3 DEF LookupMiss, LookupHit, RejectCall, StartFetch, FetchEnds, FetchFails
  <2>2. \A x \in Requests : Marked(x)' => Marked(x) /\ SameAsked(x)
    BY <1>3, HandlerMarksNobody, StatusesNamed, StatesNamed
    DEF LookupMiss, LookupHit, RejectCall, FetchEnds, FetchFails
  <2>3. QED
    BY <1>1, <2>1, <2>2, NobodyMarked
<1>4. ASSUME NEW r \in Requests, Record(r) \/ RecordThrows(r)
      PROVE  KeyInv'
  <2>1. UNCHANGED <<now, tx, key>> /\ Marked(r)
    BY <1>4 DEF Record, RecordThrows, Marked, In
  <2>2. \A s \in DOMAIN rows' : s \in DOMAIN rows \/ req[r].sig = s
    BY <1>4 DEF Record, RecordThrows, Inserted
  <2>3. \A x \in Requests : Marked(x)' => Marked(x) /\ SameAsked(x)
    BY <1>4, HandlerMarksNobody, StatusesNamed, StatesNamed DEF Record, RecordThrows
  <2>4. QED
    BY <1>1, <2>1, <2>2, <2>3, NobodyMarked
<1>5. ASSUME NEW r \in Requests, MarkUsed(r) \/ MarkThrows(r)
      PROVE  KeyInv'
  BY <1>5, MarkUsedKeys DEF RedisLapses
<1>6. ASSUME NEW s \in Signatures, NEW amount \in Amounts, Land(s, amount)
      PROVE  KeyInv'
  BY <1>6, LandKeys
<1>7. ASSUME Tick \/ Flush \/ UNCHANGED vars
      PROVE  KeyInv'
  <2>1. UNCHANGED <<tx, key, rows, req>> /\ now' \in Int /\ now <= now'
    BY <1>7 DEF Tick, RedisLapses, vars, TypeOK
  <2>2. QED
    BY <2>1, NobodyMarked DEF Marked, SameAsked
<1>8. ASSUME Crash
      PROVE  KeyInv'
  <2>1. 0 \in Statuses
    BY StatusesNamed
  <2>2. ASSUME NEW x \in Requests
        PROVE  Marked(x)' => Marked(x) /\ SameAsked(x)
    <3>1. CASE req'[x] = req[x]
      BY <3>1 DEF Marked, SameAsked
    <3>2. CASE req'[x] = Answer(req[x], 0)
      BY <2>1, <3>2, AnswerFields DEF RequestsType, Marked
    <3>3. QED
      BY <1>8, <3>1, <3>2 DEF Crash
  <2>3. QED
    BY <1>1, <1>8, <2>2, NobodyMarked DEF Crash
<1>9. QED
  BY <1>2, <1>3, <1>4, <1>5, <1>6, <1>7, <1>8 DEF Next, Handle

\* As long as Redis has neither failed nor forgotten, a recorded signature
\* that the verifier would still accept has a key, however long its handlers
\* take between their steps and whatever else fails.
THEOREM KeysOutlivePayments ==
    ASSUME KeysLast
    PROVE  Spec => []KeyOutlivesPayment
<1> DEFINE KeysKept == redisWorks => KeyInv
<1>1. TypeOK /\ KeysKept => KeyOutlivesPayment
  <2> SUFFICES ASSUME TypeOK, KeyInv, NEW s \in DOMAIN rows,
                      tx[s].blockTime # 0, ~TooOld(tx[s])
               PROVE  HasKey(s)
    BY DEF KeyOutlivesPayment
  <2>1. s \in Signatures /\ tx[s].blockTime \in Int /\ now \in Int /\ key[s] \in Int
    BY DEF TypeOK, Transaction
  <2>2. tx[s].blockTime + MaxTxAge < key[s]
    BY DEF KeyInv, Outlives
  <2>3. now - tx[s].blockTime <= MaxTxAge
    BY <2>1, TimeAssumption DEF TooOld
  <2>4. QED
    BY <2>1, <2>2, <2>3, TimeAssumption DEF HasKey
<1>2. Init => TypeOK /\ TicketInv /\ KeysKept
  BY TypeInit, TicketInit, KeyInit
<1>3. TypeOK /\ TicketInv /\ KeysKept /\ [Next]_vars => (TypeOK /\ TicketInv /\ KeysKept)'
  <2>1. SUFFICES ASSUME TypeOK, TicketInv, KeysKept, [Next]_vars, redisWorks' PROVE KeyInv'
    BY TypeStep, TicketStep
  <2>2. redisWorks /\ ~RedisLapses
    BY <2>1, StillWorks
  <2>3. QED
    BY <2>1, <2>2, KeyStep
<1>4. QED
  BY <1>1, <1>2, <1>3, PTL DEF Spec

-----------------------------------------------------------------------------
(* The gateway implements Tickets                                          *)

\* Which calls have been served, and for which ticket, only StartFetch tells.
LEMMA ServedKept ==
    ASSUME \A x \in Requests :
               /\ req'[x].fetched = req[x].fetched
               /\ req[x].fetched => req'[x].sig = req[x].sig
    PROVE  Served' = Served
  BY DEF Served

\* A handler that advances, tries again or answers serves nothing new.
LEMMA HandlerServesNothing ==
    ASSUME RequestsType, NEW r \in Requests,
           \/ \E state \in States : req' = MoveTo(r, state)
           \/ \E status \in Statuses : req' = Answered(r, status)
           \/ req' = TryAgain(r)
    PROVE  Served' = Served
<1>1. req[r] \in Request
  BY DEF RequestsType
<1>2. ASSUME NEW state \in States, req' = MoveTo(r, state) PROVE Served' = Served
  <2>1. /\ req'[r] = Advance(req[r], state)
        /\ \A x \in Requests : x # r => req'[x] = req[x]
    BY <1>2, OthersKept DEF MoveTo
  <2>2. req'[r].fetched = req[r].fetched /\ req'[r].sig = req[r].sig
    BY <1>1, <2>1, AdvanceFields
  <2>3. QED
    BY <2>1, <2>2, ServedKept
<1>3. ASSUME NEW status \in Statuses, req' = Answered(r, status) PROVE Served' = Served
  <2>1. /\ req'[r] = Answer(req[r], status)
        /\ \A x \in Requests : x # r => req'[x] = req[x]
    BY <1>3, OthersKept DEF Answered
  <2>2. req'[r].fetched = req[r].fetched /\ req'[r].sig = req[r].sig
    BY <1>1, <2>1, AnswerFields
  <2>3. QED
    BY <2>1, <2>2, ServedKept
<1>4. ASSUME req' = TryAgain(r) PROVE Served' = Served
  <2>1. /\ req'[r] = Retry(req[r])
        /\ \A x \in Requests : x # r => req'[x] = req[x]
    BY <1>4, OthersKept DEF TryAgain
  <2>2. req'[r].fetched = req[r].fetched /\ req'[r].sig = req[r].sig
    BY <1>1, <2>1, RetryFields
  <2>3. QED
    BY <2>1, <2>2, ServedKept
<1>5. QED
  BY <1>2, <1>3, <1>4

Ticketing == <<Worths, DOMAIN rows, Served>>

\* The three steps of Tickets, and what stutters.
LEMMA TearsTicket ==
    ASSUME TypeOK, TicketInv, NEW r \in Requests, req[r].state = "marked",
           rows' = rows \/ /\ req[r].sig \notin DOMAIN rows
                           /\ rows' = Inserted(req[r].sig, Price[req[r].route]),
           UNCHANGED tx, Served' = Served
    PROVE  [Booth!Next]_Ticketing
<1>1. CASE rows' = rows
  BY <1>1 DEF Ticketing, Worths, Worth
<1>2. CASE rows' # rows
  <2> DEFINE s == req[r].sig
  <2>1. /\ s \notin DOMAIN rows
        /\ DOMAIN rows' = DOMAIN rows \cup {s}
    BY <1>2, InsertPaid
  <2>2. req[r].route \in Routes /\ s \in Signatures
    BY NamesAssumption DEF TypeOK, Accepted
  <2>3. Price[req[r].route] <= Worths[s]
    <3>1. tx[s].state = "landed" /\ tx[s].amount >= Price[req[r].route]
      BY DEF TicketInv, VerifiedIsPaid
    <3>2. tx[s].amount \in Nat /\ Price[req[r].route] \in Nat
      BY <2>2, PriceAssumption DEF TypeOK, Transaction
    <3>3. QED
      BY <2>2, <3>1, <3>2 DEF Worths, Worth
  <2>4. Worths' = Worths
    BY DEF Worths, Worth
  <2>5. Booth!Tear(s, Price[req[r].route])
    BY <2>1, <2>3, <2>4 DEF Booth!Tear
  <2>6. QED
    BY <2>2, <2>5 DEF Booth!Next
<1>3. QED
  BY <1>1, <1>2

LEMMA LetsThrough ==
    ASSUME TypeOK, TicketInv, NEW r \in Requests, StartFetch(r)
    PROVE  [Booth!Next]_Ticketing
<1> RequestsType
  BY TypeParts
<1> DEFINE s == req[r].sig
           started == [Advance(req[r], "fetching") EXCEPT !.fetched = TRUE]
<1>1. req'[r] = started /\ \A x \in Requests : x # r => req'[x] = req[x]
  BY OthersKept DEF StartFetch
<1>2. started.sig = s /\ started.fetched = TRUE
  BY DEF Advance, RequestsType, Request
<1> HIDE DEF started
<1>3. Worths' = Worths /\ DOMAIN rows' = DOMAIN rows
  BY DEF StartFetch, Worths, Worth
<1>4. Admitted(r)
  BY DEF StartFetch, In, Admitted
<1>5. s \in DOMAIN rows /\ s \in Signatures
  BY <1>4 DEF TicketInv, AdmittedIsRecorded, TypeOK
<1>6. CASE req[r].fetched
  <2>1. req[r].fetched = TRUE
    BY <1>6 DEF RequestsType, Request
  <2>2. Served' = Served
    BY <1>1, <1>2, <2>1, ServedKept
  <2>3. QED
    BY <1>3, <2>2 DEF Ticketing
<1>7. CASE ~req[r].fetched
  <2>1. \A entry \in Served : entry[2] # s
    BY <1>4, <1>7 DEF Served, TicketInv, OneAdmitted, Admitted
  <2>2. Served' = Served \cup {<<r, s>>}
    BY <1>1, <1>2, <1>7 DEF Served
  <2>3. Booth!LetThrough(r, s)
    BY <1>3, <1>5, <2>1, <2>2 DEF Booth!LetThrough
  <2>4. QED
    BY <1>5, <2>3 DEF Booth!Next
<1>8. QED
  BY <1>6, <1>7

LEMMA PaysTicket ==
    ASSUME TypeOK, NEW s \in Signatures, NEW amount \in Amounts, Land(s, amount)
    PROVE  [Booth!Next]_Ticketing
<1>1. DOMAIN rows' = DOMAIN rows /\ Served' = Served
  BY DEF Land, Served
<1>2. tx[s].state = "unsent"
  BY DEF Land
<1>3. PICK state \in {"landed", "failed"}, blockTime \in {0, now} :
         tx' = [tx EXCEPT ![s] = [state |-> state, amount |-> amount,
                                  blockTime |-> blockTime]]
  BY DEF Land
<1>4. /\ tx'[s].state = state
      /\ tx'[s].amount = amount
      /\ \A x \in Signatures : x # s => tx'[x] = tx[x]
  BY <1>3 DEF TypeOK
<1>5. CASE state = "landed"
  <2>1. Worths' = [Worths EXCEPT ![s] = amount]
    BY <1>4, <1>5 DEF Worths, Worth
  <2>2. Worths[s] = 0
    BY <1>2 DEF Worths, Worth
  <2>3. Booth!Pay(s, amount)
    BY <1>1, <2>1, <2>2 DEF Booth!Pay
  <2>4. QED
    BY <2>3 DEF Booth!Next
<1>6. CASE state = "failed"
  <2>1. Worths' = Worths
    BY <1>2, <1>4, <1>6 DEF Worths, Worth
  <2>2. QED
    BY <1>1, <2>1 DEF Ticketing
<1>7. QED
  BY <1>5, <1>6

LEMMA TicketingInit == Init => Booth!Init
<1> SUFFICES ASSUME Init PROVE Booth!Init
  OBVIOUS
<1>1. Worths = [s \in Signatures |-> 0]
  BY DEF Init, Worths, Worth, Unsent
<1>2. DOMAIN rows = {}
  BY DEF Init
<1>3. Served = {}
  BY DEF Init, Served, NewRequest
<1>4. QED
  BY <1>1, <1>2, <1>3 DEF Booth!Init

LEMMA TicketingStep == TypeOK /\ TicketInv /\ [Next]_vars => [Booth!Next]_Ticketing
<1> SUFFICES ASSUME TypeOK, TicketInv, [Next]_vars PROVE [Booth!Next]_Ticketing
  OBVIOUS
<1> RequestsType
  BY TypeParts
<1> DEFINE Stutters == UNCHANGED <<tx, rows>> /\ Served' = Served
<1>1. Stutters => [Booth!Next]_Ticketing
  BY DEF Ticketing, Worths, Worth
<1>2. ASSUME NEW r \in Requests, NEW route \in Paths, NEW sig \in Headers,
             Arrive(r, route, sig)
      PROVE  Stutters
  <2> DEFINE asked == Asks(req[r], route, sig)
             refused == Answer(asked, Refusal(route, sig))
  <2>1. req[r] \in Request /\ ~req[r].fetched
    BY <1>2 DEF RequestsType, Accepted, Arrive, In
  <2>2. asked \in Request /\ asked.fetched = req[r].fetched
    BY <2>1, AsksType
  <2>3. ~(route \in Configured /\ sig \in Signatures) =>
           refused.fetched = req[r].fetched
    <3>1. ~(route \in Configured /\ sig \in Signatures) =>
             Refusal(route, sig) \in Statuses
      BY RefusalType DEF Statuses
    <3> HIDE DEF asked
    <3>2. QED
      BY <2>2, <3>1, AnswerFields
  <2>4. PICK q \in {asked, refused} :
           req' = [req EXCEPT ![r] = q] /\ q.fetched = req[r].fetched
    BY <1>2, <2>2, <2>3 DEF Arrive
  <2>5. req'[r] = q /\ \A x \in Requests : x # r => req'[x] = req[x]
    BY <2>4, OthersKept
  <2>6. QED
    BY <1>2, <2>1, <2>4, <2>5, ServedKept DEF Arrive
<1>3. ASSUME NEW r \in Requests,
             \/ LookupMiss(r) \/ LookupHit(r) \/ MarkUsed(r) \/ MarkThrows(r)
             \/ RejectCall(r) \/ FetchEnds(r) \/ FetchFails(r)
      PROVE  Stutters
  <2>1. UNCHANGED <<tx, rows>>
    BY <1>3 DEF LookupMiss, LookupHit, MarkUsed, MarkThrows, RejectCall,
                FetchEnds, FetchFails
  <2>2. \/ \E state \in States : req' = MoveTo(r, state)
        \/ \E status \in Statuses : req' = Answered(r, status)
        \/ req' = TryAgain(r)
    BY <1>3, StatesNamed, StatusesNamed
    DEF LookupMiss, LookupHit, MarkUsed, MarkThrows, RejectCall, FetchEnds, FetchFails
  <2>3. QED
    BY <2>1, <2>2, HandlerServesNothing
<1>4. ASSUME NEW r \in Requests, Record(r) \/ RecordThrows(r)
      PROVE  [Booth!Next]_Ticketing
  <2>1. Served' = Served
    BY <1>4, HandlerServesNothing, StatesNamed, StatusesNamed DEF Record, RecordThrows
  <2>2. QED
    BY <1>4, <2>1, TearsTicket DEF Record, RecordThrows, In
<1>5. ASSUME NEW r \in Requests, StartFetch(r)
      PROVE  [Booth!Next]_Ticketing
  BY <1>5, LetsThrough
<1>6. ASSUME NEW s \in Signatures, NEW amount \in Amounts, Land(s, amount)
      PROVE  [Booth!Next]_Ticketing
  BY <1>6, PaysTicket
<1>7. ASSUME Tick \/ Flush \/ UNCHANGED vars
      PROVE  Stutters
  BY <1>7 DEF Tick, Flush, vars, Served
<1>8. ASSUME Crash
      PROVE  Stutters
  <2>1. 0 \in Statuses
    BY StatusesNamed
  <2>2. ASSUME NEW x \in Requests
        PROVE  req'[x].fetched = req[x].fetched /\ req'[x].sig = req[x].sig
    <3>1. CASE req'[x] = req[x]
      BY <3>1
    <3>2. CASE req'[x] = Answer(req[x], 0)
      BY <2>1, <3>2, AnswerFields DEF RequestsType
    <3>3. QED
      BY <1>8, <3>1, <3>2 DEF Crash
  <2>3. QED
    BY <1>8, <2>2, ServedKept DEF Crash
<1>9. QED
  BY <1>1, <1>2, <1>3, <1>4, <1>5, <1>6, <1>7, <1>8 DEF Next, Handle

\* The gateway implements Tickets: with the transactions table as the torn
\* tickets, every step of the gateway pays for, tears or uses one ticket, or
\* changes nothing that Tickets can see.
THEOREM GatewaySellsTickets == Spec => SellsTickets
<1>1. Init => TypeOK /\ TicketInv
  BY TypeInit, TicketInit
<1>2. TypeOK /\ TicketInv /\ [Next]_vars => (TypeOK /\ TicketInv)'
  BY TypeStep, TicketStep
<1>3. QED
  BY <1>1, <1>2, TicketingInit, TicketingStep, PTL
  DEF Spec, SellsTickets, Booth!Spec, Ticketing

=============================================================================
