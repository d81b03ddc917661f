-------------------------------- MODULE Api --------------------------------
(***************************************************************************)
(* The management API and its generated client: one call at a time, from   *)
(* the method of the client to the typed result it returns.                *)
(*                                                                         *)
(*   Call      the client builds the request (apiclient.gen.go)            *)
(*   Receive   ServeMux, the wrapper's parameters (api.gen.go)             *)
(*   Decode    the JSON body, before anything is authenticated             *)
(*   Authorize StrictSessionMiddleware                                     *)
(*   Handle    the handler of the operation and its answer                 *)
(*   Parse     the client reads status and content type                    *)
(*                                                                         *)
(* Paths are sequences of segments; "/" at the end is an empty last        *)
(* segment.  A segment that is the name of a parameter is a wildcard.      *)
(* Both generated files go through the operations in the same order, and   *)
(* so do the tables here.                                                  *)
(***************************************************************************)
EXTENDS Naturals, Sequences, FiniteSets, SequencesExt

CONSTANTS
  Ids,         \* users, counters and tokens a call may name
  Sessions,    \* what a session may say: user and admin
  NoSession,   \* no cookie, no token, or not a valid one
  NoOp         \* the operation of a request that reached none

Names == {"counterId", "userId", "tokenId"}

ASSUME ApiConstants ==
  /\ Ids \cap Names = {} /\ "" \notin Ids
  /\ \A s \in Sessions : s.user \in Ids /\ s.admin \in BOOLEAN
  /\ NoSession \notin Sessions

VARIABLE call    \* the call in progress

-----------------------------------------------------------------------------
(* The server: patterns, parameters, bodies and answers.                   *)

Pattern(method, path, op) == [method |-> method, path |-> path, op |-> op]

ApiRoutes == {
  Pattern("GET",    <<"api", "admin", "counters">>,                       "GetAvailableCounters"),
  Pattern("GET",    <<"api", "admin", "counters", "counterId">>,          "GetAllUserCounters"),
  Pattern("GET",    <<"api", "config", "rate-limiter">>,                  "GetRateLimiterConfig"),
  Pattern("GET",    <<"api", "counters", "counterId", "userId">>,         "GetUserCounters"),
  Pattern("POST",   <<"api", "counters", "counterId", "userId">>,         "AdjustUserCounters"),
  Pattern("GET",    <<"api", "counters", "counterId", "userId", "history">>, "GetUserCounterHistory"),
  Pattern("GET",    <<"api", "statistics", "rate-limiter">>,              "GetRateLimiterStats"),
  Pattern("GET",    <<"api", "statistics", "requests">>,                  "GetRequestStatistics"),
  Pattern("GET",    <<"api", "statistics", "requests", "details">>,       "GetRequestDetails"),
  Pattern("DELETE", <<"api", "tokens", "tokenId">>,                       "DeleteToken"),
  Pattern("GET",    <<"api", "tokens", "tokenId">>,                       "GetToken"),
  Pattern("GET",    <<"api", "users">>,                                   "ListUsers"),
  Pattern("POST",   <<"api", "users">>,                                   "CreateUser"),
  Pattern("GET",    <<"api", "users", "userId">>,                         "GetUserById"),
  Pattern("GET",    <<"api", "users", "userId", "tokens">>,               "ListTokens"),
  Pattern("POST",   <<"api", "users", "userId", "tokens">>,               "CreateToken"),
  Pattern("GET",    <<"health">>,                                         "HealthCheck"),
  Pattern("GET",    <<"logout">>,                                         "LogoutUser"),
  Pattern("GET",    <<"me">>,                                             "GetCurrentUser"),
  Pattern("GET",    <<"openapi.yaml">>,                                   "GetOpenApiYaml") }

(* What the wrapper of an operation binds from the path and the query.     *)
Binds(path, query) == [path |-> path, query |-> query]

AdminCounterParams ==
  [GetAvailableCounters  |-> Binds({}, {}),
   GetAllUserCounters    |-> Binds({"counterId"}, {"limit", "offset"}),
   GetRateLimiterConfig  |-> Binds({}, {})]
UserCounterParams ==
  [GetUserCounters       |-> Binds({"counterId", "userId"}, {}),
   AdjustUserCounters    |-> Binds({"counterId", "userId"}, {}),
   GetUserCounterHistory |-> Binds({"counterId", "userId"}, {"limit", "offset"})]
StatisticsParams ==
  [GetRateLimiterStats   |-> Binds({}, {}),
   GetRequestStatistics  |-> Binds({}, {"start_date", "end_date"}),
   GetRequestDetails     |-> Binds({}, {"start_date", "end_date"})]
TokenParams ==
  [DeleteToken           |-> Binds({"tokenId"}, {}),
   GetToken              |-> Binds({"tokenId"}, {})]
UserParams ==
  [ListUsers             |-> Binds({}, {}),
   CreateUser            |-> Binds({}, {}),
   GetUserById           |-> Binds({"userId"}, {})]
UserTokenParams ==
  [ListTokens            |-> Binds({"userId"}, {}),
   CreateToken           |-> Binds({"userId"}, {})]
OtherParams ==
  [HealthCheck           |-> Binds({}, {}),
   LogoutUser            |-> Binds({}, {"redirect"}),
   GetCurrentUser        |-> Binds({}, {}),
   GetOpenApiYaml        |-> Binds({}, {})]

TableOf(op, tables) == (CHOOSE t \in Range(tables) : op \in DOMAIN t)[op]

Wrapper(op) == TableOf(op,
  <<AdminCounterParams, UserCounterParams, StatisticsParams, TokenParams,
    UserParams, UserTokenParams, OtherParams>>)

Operations == {r.op : r \in ApiRoutes}

(* The operations whose strict handler decodes a JSON body.                *)
WithBody == {"AdjustUserCounters", "CreateUser", "CreateToken"}

OperationWithNoSecurity == {"LogoutUser", "HealthCheck", "GetOpenApiYaml"}

(* The answers with a JSON body an operation's response type can write.    *)
AdminCounterAnswers ==
  [GetAvailableCounters  |-> {200, 401, 403, 500},
   GetAllUserCounters    |-> {200, 401, 403, 404, 500},
   GetRateLimiterConfig  |-> {200, 401, 500}]
UserCounterAnswers ==
  [GetUserCounters       |-> {200, 401, 403, 404, 500},
   AdjustUserCounters    |-> {200, 400, 401, 403, 404, 500},
   GetUserCounterHistory |-> {200, 401, 403, 404, 500}]
StatisticsAnswers ==
  [GetRateLimiterStats   |-> {200, 401, 500},
   GetRequestStatistics  |-> {200, 401, 500},
   GetRequestDetails     |-> {200, 401}]
TokenAnswers ==
  [DeleteToken           |-> {401, 404, 500},
   GetToken              |-> {200, 401, 404, 500}]
UserAnswers ==
  [ListUsers             |-> {200, 401, 500},
   CreateUser            |-> {201, 400, 409, 500},
   GetUserById           |-> {200, 400, 401, 404, 500}]
UserTokenAnswers ==
  [ListTokens            |-> {200, 401, 404, 500},
   CreateToken           |-> {201, 400, 401, 404, 500}]
OtherAnswers ==
  [HealthCheck           |-> {200},
   LogoutUser            |-> {},
   GetCurrentUser        |-> {200, 401},
   GetOpenApiYaml        |-> {}]

WrittenAsJSON(op) == TableOf(op,
  <<AdminCounterAnswers, UserCounterAnswers, StatisticsAnswers, TokenAnswers,
    UserAnswers, UserTokenAnswers, OtherAnswers>>)

-----------------------------------------------------------------------------
(* The handlers: who is refused, and the statuses they answer with.        *)

AdminOr401 == {"GetRequestStatistics", "GetRequestDetails", "GetRateLimiterStats",
               "GetRateLimiterConfig", "ListTokens", "CreateToken", "GetToken",
               "DeleteToken"}
AdminOr403 == {"AdjustUserCounters", "GetAllUserCounters", "GetAvailableCounters"}
OwnOrAdmin == {"GetUserCounters", "GetUserCounterHistory"}

CounterStatuses(op) ==
  CASE op \in OwnOrAdmin            -> {200, 404, 500}
    [] op = "AdjustUserCounters"    -> {200, 400, 404, 500}
    [] OTHER                        -> {200, 500}

StatisticsStatuses(op) == IF op = "GetRequestStatistics" THEN {200, 500} ELSE {200}

TokenStatuses(op) ==
  CASE op = "ListTokens"  -> {200, 404, 500}
    [] op = "CreateToken" -> {201, 400, 404, 500}
    [] op = "GetToken"    -> {200, 404}
    [] op = "DeleteToken" -> {204, 404, 500}

UserStatuses(op) ==
  CASE op = "CreateUser"  -> {201, 400, 409, 500}
    [] op = "ListUsers"   -> {200, 500}
    [] op = "GetUserById" -> {200, 404, 500}

(* Me finds the row of the user, or does not.                              *)
Statuses(op) ==
  CASE op \in AdminOr403 \cup OwnOrAdmin          -> CounterStatuses(op)
    [] op \in DOMAIN StatisticsParams \cup {"GetRateLimiterConfig"} -> StatisticsStatuses(op)
    [] op \in DOMAIN TokenParams \cup DOMAIN UserTokenParams -> TokenStatuses(op)
    [] op \in DOMAIN UserParams                   -> UserStatuses(op)
    [] op = "GetCurrentUser"                      -> {200, 401}
    [] op = "LogoutUser"                          -> {302}
    [] OTHER                                      -> {200}

(* The handlers that hand an error of the repository on: "Internal Server  *)
(* Error" as text.                                                         *)
HandsErrorsOn == {"GetRequestDetails", "GetCurrentUser"}

-----------------------------------------------------------------------------
(* The client: requests, and the answers it has a typed field for.         *)

Builds(method, path, query) == [method |-> method, path |-> path, query |-> query]

AdminCounterRequests ==
  [GetAvailableCounters  |-> Builds("GET", <<"api", "admin", "counters">>, {}),
   GetAllUserCounters    |-> Builds("GET", <<"api", "admin", "counters", "counterId">>,
                                    {"limit", "offset"}),
   GetRateLimiterConfig  |-> Builds("GET", <<"api", "config", "rate-limiter">>, {})]
UserCounterRequests ==
  [GetUserCounters       |-> Builds("GET", <<"api", "counters", "counterId", "userId">>, {}),
   AdjustUserCounters    |-> Builds("POST", <<"api", "counters", "counterId", "userId">>, {}),
   GetUserCounterHistory |-> Builds("GET", <<"api", "counters", "counterId", "userId", "history">>,
                                    {"limit", "offset"})]
StatisticsRequests ==
  [GetRateLimiterStats   |-> Builds("GET", <<"api", "statistics", "rate-limiter">>, {}),
   GetRequestStatistics  |-> Builds("GET", <<"api", "statistics", "requests">>,
                                    {"start_date", "end_date"}),
   GetRequestDetails     |-> Builds("GET", <<"api", "statistics", "requests", "details">>,
                                    {"start_date", "end_date"})]
TokenRequests ==
  [DeleteToken           |-> Builds("DELETE", <<"api", "tokens", "tokenId">>, {}),
   GetToken              |-> Builds("GET", <<"api", "tokens", "tokenId">>, {})]
UserRequests ==
  [ListUsers             |-> Builds("GET", <<"api", "users">>, {}),
   CreateUser            |-> Builds("POST", <<"api", "users">>, {}),
   GetUserById           |-> Builds("GET", <<"api", "users", "userId">>, {})]
UserTokenRequests ==
  [ListTokens            |-> Builds("GET", <<"api", "users", "userId", "tokens">>, {}),
   CreateToken           |-> Builds("POST", <<"api", "users", "userId", "tokens">>, {})]
OtherRequests ==
  [HealthCheck           |-> Builds("GET", <<"health">>, {}),
   LogoutUser            |-> Builds("GET", <<"logout">>, {"redirect"}),
   GetCurrentUser        |-> Builds("GET", <<"me">>, {}),
   GetOpenApiYaml        |-> Builds("GET", <<"openapi.yaml">>, {})]

Builder(op) == TableOf(op,
  <<AdminCounterRequests, UserCounterRequests, StatisticsRequests, TokenRequests,
    UserRequests, UserTokenRequests, OtherRequests>>)

AdminCounterParsers ==
  [GetAvailableCounters  |-> {200, 401, 403, 500},
   GetAllUserCounters    |-> {200, 401, 403, 404, 500},
   GetRateLimiterConfig  |-> {200, 401, 500}]
(* Broken variant: a refusal of the handler is not read.                   *)
UserCounterParsersFewer ==
  [GetUserCounters       |-> {200, 401, 404, 500},
   AdjustUserCounters    |-> {200, 400, 401, 404, 500},
   GetUserCounterHistory |-> {200, 401, 404, 500}]

UserCounterParsers ==
  [GetUserCounters       |-> {200, 401, 403, 404, 500},
   AdjustUserCounters    |-> {200, 400, 401, 403, 404, 500},
   GetUserCounterHistory |-> {200, 401, 403, 404, 500}]
StatisticsParsers ==
  [GetRateLimiterStats   |-> {200, 401, 500},
   GetRequestStatistics  |-> {200, 401, 500},
   GetRequestDetails     |-> {200, 401}]
TokenParsers ==
  [DeleteToken           |-> {401, 404, 500},
   GetToken              |-> {200, 401, 404, 500}]
UserParsers ==
  [ListUsers             |-> {200, 401, 500},
   CreateUser            |-> {201, 400, 409, 500},
   GetUserById           |-> {200, 400, 401, 404, 500}]
UserTokenParsers ==
  [ListTokens            |-> {200, 401, 404, 500},
   CreateToken           |-> {201, 400, 401, 404, 500}]
OtherParsers ==
  [HealthCheck           |-> {200},
   LogoutUser            |-> {},
   GetCurrentUser        |-> {200, 401},
   GetOpenApiYaml        |-> {}]

TypedByClient(op) == TableOf(op,
  <<AdminCounterParsers, UserCounterParsers, StatisticsParsers, TokenParsers,
    UserParsers, UserTokenParsers, OtherParsers>>)

-----------------------------------------------------------------------------
(* A call.  at is the operation it reached, got what its handler is given; *)
(* running is history: the handler has been entered with this session.     *)

Stages == {"idle", "sent", "bound", "decoded", "admitted", "answered", "done"}

Arguments(op) ==
  [path: [Names \cap Range(Builder(op).path) -> Ids], query: SUBSET Builder(op).query]

NoArgs == [path |-> <<>>, query |-> {}]

NoCall == [stage |-> "idle", op |-> NoOp, args |-> NoArgs, session |-> NoSession,
           body |-> TRUE, method |-> "GET", path |-> <<"">>, at |-> NoOp,
           got |-> NoArgs, ran |-> FALSE, status |-> 0, json |-> FALSE,
           result |-> "none"]

(* The reference to the operation is relative to the server's URL: it      *)
(* replaces what follows the last "/".                                     *)
Resolve(server, path) == Front(server) \o path

NewClient(server) == IF Last(server) = "" THEN server ELSE Append(server, "")

(* Broken variant: the first wildcard gets the last argument.              *)
FillReversed(path, args) ==
  [i \in DOMAIN path |->
     IF path[i] = "counterId" /\ "userId" \in DOMAIN args THEN args["userId"]
     ELSE IF path[i] \in Names THEN args[path[i]] ELSE path[i]]

Fill(path, args) == [i \in DOMAIN path |-> IF path[i] \in Names THEN args[path[i]] ELSE path[i]]

(* The user of the client asks for op; only a caller that passes a body of *)
(* its own can send one that is not JSON.                                  *)
Call(op, server, session) ==
  /\ call.stage = "idle"
  /\ \E args \in Arguments(op), body \in (IF op \in WithBody THEN BOOLEAN ELSE {TRUE}) :
       call' = [NoCall EXCEPT
                  !.stage = "sent", !.op = op, !.args = args, !.session = session,
                  !.body = body, !.method = Builder(op).method,
                  !.path = Resolve(NewClient(server), Fill(Builder(op).path, args.path))]

Fits(pattern, path) ==
  /\ Len(pattern) = Len(path)
  /\ \A i \in DOMAIN path : pattern[i] = path[i] \/ (pattern[i] \in Names /\ path[i] # "")

Answered(status, json) == [call EXCEPT !.stage = "answered", !.status = status, !.json = json]

(* path is what is left of the path behind the prefix.  Among the patterns *)
(* that fit, ServeMux takes the one with fewer wildcards.                  *)
Receive(path) ==
  LET fitting == {r \in ApiRoutes : r.method = call.method /\ Fits(r.path, path)}
      best(r) == \A q \in fitting :
                    Cardinality({i \in DOMAIN r.path : r.path[i] \in Names})
                      <= Cardinality({i \in DOMAIN q.path : q.path[i] \in Names})
  IN /\ call.stage = "sent"
     /\ \/ /\ fitting = {}
           /\ call' = Answered(IF \E r \in ApiRoutes : Fits(r.path, path) THEN 405 ELSE 404,
                               FALSE)
        \/ \E r \in fitting :
             /\ best(r)
             /\ LET bound == Wrapper(r.op)
                    index(n) == CHOOSE i \in DOMAIN r.path : r.path[i] = n
                IN call' = [call EXCEPT
                     !.stage = "bound", !.at = r.op,
                     !.got = [path |-> [n \in bound.path |-> path[index(n)]],
                              query |-> bound.query \cap call.args.query]]

Decode ==
  /\ call.stage = "bound"
  /\ call' = IF call.at \in WithBody /\ ~call.body
             THEN Answered(400, FALSE)
             ELSE [call EXCEPT !.stage = "decoded"]

Authorize ==
  /\ call.stage = "decoded"
  /\ call' = IF call.at \notin OperationWithNoSecurity /\ call.session = NoSession
             THEN Answered(401, TRUE)
             ELSE [call EXCEPT !.stage = "admitted"]

(* The status a handler refuses a session with, 0 when it does not.        *)
Refused(op, session, args) ==
  IF session = NoSession \/ session.admin THEN 0
  ELSE IF op \in AdminOr401 THEN 401
  ELSE IF op \in AdminOr403 THEN 403
  ELSE IF op \in OwnOrAdmin /\ args.path["userId"] # session.user THEN 403
  ELSE 0

Handle ==
  /\ call.stage = "admitted"
  /\ LET refused == Refused(call.at, call.session, call.got)
     IN \/ /\ refused # 0
           /\ call' = Answered(refused, refused \in WrittenAsJSON(call.at))
        \/ /\ refused = 0
           /\ \E status \in Statuses(call.at) :
                call' = [Answered(status, status \in WrittenAsJSON(call.at)) EXCEPT !.ran = TRUE]
        \/ /\ refused = 0 /\ call.at \in HandsErrorsOn
           /\ call' = [Answered(500, FALSE) EXCEPT !.ran = TRUE]

(* The document of the API is a map, which does not fit the string the     *)
(* client unmarshals it into.  http.Client follows the redirect of a       *)
(* logout, and the method has no field for what it finds there.            *)
Parse ==
  /\ call.stage = "answered"
  /\ call' = [call EXCEPT
       !.stage = "done",
       !.result = IF call.json /\ call.status \in TypedByClient(call.op) THEN "typed"
                  ELSE IF call.op = "GetOpenApiYaml" /\ call.at = call.op THEN "failed"
                  ELSE "untyped"]

Return == call.stage = "done" /\ call' = NoCall

-----------------------------------------------------------------------------
CallOK ==
  /\ call.stage \in Stages
  /\ call.op \in Operations \cup {NoOp} /\ call.at \in Operations \cup {NoOp}
  /\ call.session \in Sessions \cup {NoSession}
  /\ call.status \in {0, 200, 201, 204, 302, 400, 401, 403, 404, 405, 409, 500}
  /\ call.result \in {"none", "typed", "untyped", "failed"}

(* Whatever comes between them, the prefix, the patterns and the           *)
(* parameters, the handler that runs is the one of the method that was     *)
(* called, and it is given the ids and the parameters the caller passed.   *)
CallsReachTheirOperation ==
  call.stage \in {"bound", "decoded", "admitted"} \/ (call.stage \in {"answered", "done"} /\ call.ran)
    => call.at = call.op /\ call.got = call.args

(* Every answer the gateway writes as JSON comes out of the client as a    *)
(* value of its type, but for the 401 of the session middleware to         *)
(* CreateUser, which the API's document does not declare.                  *)
AnswersAreTyped ==
  call.stage = "done" /\ call.json =>
    call.result = "typed" \/ (call.op = "CreateUser" /\ call.status = 401)
=============================================================================
