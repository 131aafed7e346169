------------------------------ MODULE Registry ------------------------------
(***************************************************************************)
(* What the gateway sells (backend/src/services/registry.ts): the table of *)
(* routes, the catalogue that /services makes of it, the summary in        *)
(* /status, and the proxy handler of index.ts that serves a paid call by   *)
(* its row. Clients read the catalogue, of this process or of one before,  *)
(* and call by it; a restart may bring other API keys.                     *)
(*                                                                         *)
(* The lookup, the replay check and the books of a payment are one step    *)
(* here; MppGateway has them in full. Definitions named X_Y are X with a   *)
(* mistake Y in it.                                                        *)
(***************************************************************************)
EXTENDS Integers, Sequences, FiniteSetsExt

CONSTANTS
    allGatewayRoutes,  \* the table: a sequence of rows
    enabledServiceIds, \* the services that are sold,
    serviceMeta,       \* and those that have a description
    Parameters,        \* the segments of a pattern that stand for any safe one
    Callers,           \* each makes one call at a time
    Paths,             \* the request paths tried, as sequences of segments
    SafeTexts,         \* segments that may stand for a parameter
    Bodies,            \* request bodies: [json |-> ., strings |-> .]
    Lower,             \* Lower[f]: the name of body field f in small letters
    Envs               \* environments a process may start with: Envs[.][key] is
                       \* "set", "blank" or "unset"

ASSUME BodiesAssumption ==
    \A b \in Bodies : b.json \in BOOLEAN /\ b.strings \subseteq DOMAIN Lower

-----------------------------------------------------------------------------
(* The table                                                               *)

\* The query keys a caller may not set, in small letters.
BLOCKED_QUERY_KEYS ==
    {"api_key", "apikey", "key", "token", "access_key", "access_token", "auth", "auth_token",
     "authorization", "bearer", "x_cg_demo_api_key", "x-api-key", "x_api_key", "appid",
     "app_id", "app_key", "appkey", "secret", "client_secret", "callback", "webhook"}

\* price: in thousandths of a dollar; requiredEnv: the keys declared; keys:
\* those used; throws: whether the call fails without them; inUrl: the name of
\* the key's parameter in the URL, in small letters, "" for none.
ASSUME RowsAssumption ==
    allGatewayRoutes \in
        Seq([service : STRING, path : Seq(STRING), price : Nat, upstreamMethod : {"GET", "POST"},
             bodyToQuery : BOOLEAN, requiredEnv : SUBSET STRING, keys : SUBSET STRING,
             throws : BOOLEAN, inUrl : STRING])

\* A service is no parameter, and a row uses what it declares. One that makes
\* the query of the body has its key in a header or under a name that is
\* blocked.
ASSUME KeysAssumption ==
    \A i \in DOMAIN allGatewayRoutes :
        LET row == allGatewayRoutes[i] IN
        /\ row.service \notin Parameters /\ row.requiredEnv \subseteq row.keys
        /\ row.bodyToQuery => row.inUrl \in BLOCKED_QUERY_KEYS \cup {""}

\* No path has two rows: those of one service and one length differ in some
\* segment that is a parameter in neither.
ASSUME NoShadowAssumption ==
    \A i, k \in DOMAIN allGatewayRoutes :
        LET p == allGatewayRoutes[i] q == allGatewayRoutes[k] IN
        i # k /\ p.service = q.service /\ Len(p.path) = Len(q.path) =>
            \E n \in DOMAIN p.path : {p.path[n], q.path[n]} \cap Parameters = {}
                                     /\ p.path[n] # q.path[n]

\* Two lists that are kept by hand: what is sold has a description.
ASSUME ServicesAssumption == enabledServiceIds \subseteq serviceMeta

\* The rows sold, each at its place in the table.
Rows == {i \in DOMAIN allGatewayRoutes : allGatewayRoutes[i].service \in enabledServiceIds}
gatewayRoutes == [i \in Rows |-> allGatewayRoutes[i]]
Keys == UNION {gatewayRoutes[i].keys : i \in Rows}

ASSUME EnvsAssumption == Envs \subseteq [Keys -> {"set", "blank", "unset"}]

VARIABLES
    env,        \* the environment of the running process
    fetched,    \* the endpoints the frontend's services page has fetched last
    catalogue,  \* catalogue[c]: the endpoints c has read, here or there
    call        \* call[c]: progress of c's call

registryVars == <<env, fetched, catalogue, call>>

\* row: of the route it resolved to, 0 for none; paid: by a transaction of the
\* route's price; used: the payment is in the books; query: the fields sent on.
NoCall == [pc |-> "idle", path |-> <<>>, body |-> CHOOSE b \in Bodies : TRUE, row |-> 0,
           paid |-> FALSE, used |-> FALSE, query |-> {}, status |-> 0]

RegistryInit ==
    /\ env \in Envs
    /\ fetched = {}
    /\ catalogue = [c \in Callers |-> {}]
    /\ call = [c \in Callers |-> NoCall]

-----------------------------------------------------------------------------
(* Helpers of the registry                                                 *)

\* getMissingRequiredEnv: blank is missing.
GetMissingRequiredEnv(row) == {key \in row.requiredEnv : env[key] # "set"}

IsRouteConfigured(row) == GetMissingRequiredEnv(row) = {}

\* sanitizeParam
Sanitized(text) == text \in SafeTexts

MatchPath_LiteralsUnchecked(pattern, actual) ==
    /\ Len(pattern) = Len(actual) /\ pattern[1] = actual[1]
    /\ \A i \in DOMAIN pattern : pattern[i] \in Parameters => Sanitized(actual[i])

\* matchPath: segment by segment.
MatchPath(pattern, actual) ==
    /\ Len(pattern) = Len(actual)
    /\ \A i \in DOMAIN pattern :
          IF pattern[i] \in Parameters THEN Sanitized(actual[i]) ELSE pattern[i] = actual[i]

Pattern(row) == <<row.service>> \o row.path

\* resolveGatewayRoute: the first row that matches.
ResolveGatewayRoute(path) ==
    LET matching == {i \in Rows : MatchPath(Pattern(gatewayRoutes[i]), path)}
    IN  IF matching = {} THEN 0 ELSE Min(matching)

Endpoint(row) == [service |-> row.service, method |-> row.upstreamMethod,
                  path |-> row.path, price |-> row.price]

\* buildServices: for each service that is described, its configured routes.
BuildServices ==
    {Endpoint(gatewayRoutes[i]) : i \in {k \in Rows :
        gatewayRoutes[k].service \in serviceMeta /\ IsRouteConfigured(gatewayRoutes[k])}}

\* getProviderSummary, which /health and /status give out.
ConfiguredRoutes ==
    Cardinality(Rows) - Cardinality({i \in Rows : GetMissingRequiredEnv(gatewayRoutes[i]) # {}})

-----------------------------------------------------------------------------
(* The clients                                                             *)

\* GET /services, by the MCP tool solobank_services.
ReadServices(c) ==
    /\ catalogue' = [catalogue EXCEPT ![c] = BuildServices]
    /\ UNCHANGED <<env, fetched, call>>

\* getServices: the page's fetch, repeated at most once a minute; a failed one
\* leaves an empty list.
Revalidate ==
    /\ fetched' \in {BuildServices, {}}
    /\ UNCHANGED <<env, catalogue, call>>

\* The page calls every endpoint a POST, whatever its method.
ReadPage(c) ==
    /\ catalogue' = [catalogue EXCEPT ![c] = {[e EXCEPT !.method = "POST"] : e \in fetched}]
    /\ UNCHANGED <<env, fetched, call>>

Answer(q, status) == [q EXCEPT !.pc = "answered", !.status = status]

\* The part of the middleware that every request passes, by the row it
\* resolves to.
Turned(row) ==
    IF row = 0 THEN {404} ELSE IF IsRouteConfigured(gatewayRoutes[row]) THEN {} ELSE {503}

\* A call without a payment is turned away or answered 402 with the price.
Ask(c, path, body) ==
    LET row == ResolveGatewayRoute(path)
        asked == [NoCall EXCEPT !.path = path, !.body = body, !.row = row]
    IN  /\ call[c].pc \in {"idle", "answered"}
        /\ call' = [call EXCEPT ![c] = IF Turned(row) # {} THEN Answer(asked, Max(Turned(row)))
                                       ELSE [asked EXCEPT !.pc = "challenged", !.status = 402]]
        /\ UNCHANGED <<env, fetched, catalogue>>

Pay(c) ==
    /\ call[c].pc = "challenged"
    /\ call' = [call EXCEPT ![c].pc = "paid", ![c].paid = TRUE]
    /\ UNCHANGED <<env, fetched, catalogue>>

Present_Unchecked(c) ==
    /\ call[c].pc = "paid"
    /\ call' = [call EXCEPT ![c] = [@ EXCEPT !.pc = "admitted", !.used = TRUE]]
    /\ UNCHANGED <<env, fetched, catalogue>>

\* The call comes again with its payment: resolved and checked anew, perhaps
\* by another process, and then entered in the books, once.
Present(c) ==
    LET row == ResolveGatewayRoute(call[c].path)
        turned == Turned(row)
    IN  /\ call[c].pc = "paid"
        /\ call' = [call EXCEPT ![c] =
                      IF turned # {} THEN Answer(@, Max(turned))
                      ELSE IF @.used THEN Answer(@, 409)
                      ELSE [@ EXCEPT !.pc = "admitted", !.used = TRUE, !.row = row]]
        /\ UNCHANGED <<env, fetched, catalogue>>

\* A client that was refused, or whose connection broke, may come again with
\* the payment it has.
Again(c) ==
    /\ call[c].pc = "answered" /\ call[c].paid /\ call[c].status \in {0, 404, 409, 503}
    /\ call' = [call EXCEPT ![c].pc = "paid"]
    /\ UNCHANGED <<env, fetched, catalogue>>

-----------------------------------------------------------------------------
(* The proxy handler                                                       *)

\* The fields of a body that go into the query: strings, but for the names of
\* keys in whatever letters. Numbers, lists and objects are dropped.
Safe(body) == {f \in body.strings : Lower[f] \notin BLOCKED_QUERY_KEYS}

\* From the body to the fetch without an await that matters: the query is
\* made, the headers are resolved, bearer() throws when its key is unset.
Forward(c) ==
    LET row == gatewayRoutes[call[c].row]
        body == call[c].body
    IN  /\ call[c].pc = "admitted"
        /\ call' = [call EXCEPT ![c] =
              IF row.bodyToQuery /\ ~body.json THEN Answer(@, 400)
              ELSE IF row.throws /\ \E key \in row.keys : env[key] = "unset" THEN Answer(@, 500)
              ELSE [@ EXCEPT !.pc = "forwarded",
                             !.query = IF row.bodyToQuery THEN Safe(body) ELSE {}]]
        /\ UNCHANGED <<env, fetched, catalogue>>

\* The upstream answers, or fetchWithRetry gives up.
FetchEnds(c) ==
    /\ call[c].pc = "forwarded"
    /\ \E status \in {200, 502} : call' = [call EXCEPT ![c] = Answer(@, status)]
    /\ UNCHANGED <<env, fetched, catalogue>>

\* The gateway stops and a process with another environment starts:
\* connections break, payments in the books stay there.
Redeploy ==
    /\ env' \in Envs
    /\ call' = [c \in Callers |-> IF call[c].pc \in {"admitted", "forwarded"}
                                  THEN Answer(call[c], 0) ELSE call[c]]
    /\ UNCHANGED <<fetched, catalogue>>

RegistryNext ==
    \/ \E c \in Callers :
          \/ ReadServices(c) \/ ReadPage(c)
          \/ \E path \in Paths, body \in Bodies : Ask(c, path, body)
          \/ Pay(c) \/ Present(c) \/ Again(c) \/ Forward(c) \/ FetchEnds(c)
    \/ Revalidate
    \/ Redeploy

RegistrySpec == RegistryInit /\ [][RegistryNext]_registryVars

-----------------------------------------------------------------------------
(* Properties                                                              *)

\* Calls are of the shapes above, and one that is served has a row and a
\* payment in the books.
RegistryTypeOK ==
    /\ env \in Envs
    /\ \A c \in Callers :
          /\ call[c].pc \in {"idle", "challenged", "paid", "admitted", "forwarded", "answered"}
          /\ call[c].row \in {0} \cup Rows
          /\ call[c].pc \in {"admitted", "forwarded"} => call[c].row # 0 /\ call[c].used

\* The paths of an endpoint, its parameters filled in.
Filled(endpoint) ==
    LET pattern == Pattern(endpoint)
    IN  {[i \in DOMAIN pattern |-> IF pattern[i] \in Parameters THEN texts[i] ELSE pattern[i]] :
            texts \in [DOMAIN pattern -> SafeTexts]}

\* What a catalogue lists can be called as it is listed, in the process that
\* gave it out and in every later one: whatever safe texts stand for its
\* parameters, the first row that matches is the endpoint listed, at the price
\* listed, and it is turned away for want of keys only, and only by a process
\* that does not list it. (The method listed is the upstream's; the gateway
\* takes any.) And a process that lists an endpoint counts it in /status,
\* though the count goes by what is not missing, the list by what is described.
ListedResolves ==
    LET services == BuildServices IN
    /\ ConfiguredRoutes = Cardinality(services)
    /\ \A c \in Callers : \A endpoint \in catalogue[c] : \A path \in Filled(endpoint) :
          LET row == ResolveGatewayRoute(path)
              found == Endpoint(gatewayRoutes[row])
          IN  /\ row # 0 /\ endpoint \in {found, [found EXCEPT !.method = "POST"]}
              /\ Turned(row) = IF found \in services THEN {} ELSE {503}

\* What a payment that has been entered in the books buys: its call goes
\* upstream with the gateway's keys, all that its row declares and under no
\* name that the caller has put into the body, or it fails for a body that is
\* no JSON, a key that the row uses and does not declare, or the end of the
\* process. What was checked before the payment still holds after it, whatever
\* environments come and go meanwhile.
PaidFailsForCause ==
    [][\A c \in Callers : call[c].pc = "admitted" =>
          LET row == gatewayRoutes[call[c].row] IN
          CASE call'[c].pc = "answered" ->
                 \/ call'[c].status = 0
                 \/ call'[c].status = 400 /\ ~call[c].body.json
                 \/ /\ call'[c].status = 500
                    /\ \E key \in row.keys \ row.requiredEnv : env[key] = "unset"
            [] call'[c].pc = "forwarded" ->
                 /\ \A key \in row.requiredEnv : env[key] = "set"
                 /\ row.inUrl # "" => \A f \in call'[c].query : Lower[f] # row.inUrl
            [] OTHER -> UNCHANGED call[c]]_registryVars

\* "Available services and pricing" (backend/README.md): a listed endpoint,
\* called with a body it can use, is served.
ListedIsServed ==
    [][\A c \in Callers :
          /\ call[c].pc = "admitted" /\ call[c].body.json
          /\ Endpoint(gatewayRoutes[call[c].row]) \in BuildServices
          /\ call'[c].pc = "answered"
          => call'[c].status = 0]_registryVars

=============================================================================
