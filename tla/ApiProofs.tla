----------------------------- MODULE ApiProofs -----------------------------
(* What GatewayProofs needs to know about module Api: that the tables of   *)
(* the server, of its generated code and of the generated client fit       *)
(* together, and that the path the client builds leads to the operation it *)
(* was built for, whatever the ids in it are.                              *)
EXTENDS Api, TLAPS, SequenceTheorems

-----------------------------------------------------------------------------
(* The tables: an operation is in just one of the seven.                   *)

OfAdminCounters == {"GetAvailableCounters", "GetAllUserCounters", "GetRateLimiterConfig"}
OfUserCounters == {"GetUserCounters", "AdjustUserCounters", "GetUserCounterHistory"}
OfStatistics == {"GetRateLimiterStats", "GetRequestStatistics", "GetRequestDetails"}
OfTokens == {"DeleteToken", "GetToken"}
OfUsers == {"ListUsers", "CreateUser", "GetUserById"}
OfUserTokens == {"ListTokens", "CreateToken"}
OfOthers == {"HealthCheck", "LogoutUser", "GetCurrentUser", "GetOpenApiYaml"}

LEMMA RangeOfSeven ==
  ASSUME NEW a, NEW b, NEW c, NEW d, NEW e, NEW f, NEW g
  PROVE  Range(<<a, b, c, d, e, f, g>>) = {a, b, c, d, e, f, g}
BY DEF Range

LEMMA TheTable ==
  ASSUME NEW tables, NEW t \in Range(tables), NEW op \in DOMAIN t,
         \A u \in Range(tables) : op \in DOMAIN u => u = t
  PROVE  TableOf(op, tables) = t[op]
BY DEF TableOf

LEMMA SevenTables ==
  ASSUME NEW a, NEW b, NEW c, NEW d, NEW e, NEW f, NEW g,
         DOMAIN a = OfAdminCounters, DOMAIN b = OfUserCounters, DOMAIN c = OfStatistics,
         DOMAIN d = OfTokens, DOMAIN e = OfUsers, DOMAIN f = OfUserTokens, DOMAIN g = OfOthers,
         NEW op
  PROVE  LET x == TableOf(op, <<a, b, c, d, e, f, g>>) IN
         /\ op \in OfAdminCounters => x = a[op]
         /\ op \in OfUserCounters => x = b[op]
         /\ op \in OfStatistics => x = c[op]
         /\ op \in OfTokens => x = d[op]
         /\ op \in OfUsers => x = e[op]
         /\ op \in OfUserTokens => x = f[op]
         /\ op \in OfOthers => x = g[op]
<1> DEFINE tables == <<a, b, c, d, e, f, g>>
<1>1. Range(tables) = {a, b, c, d, e, f, g}
  BY RangeOfSeven
<1> HIDE DEF tables
<1>2. ASSUME NEW t \in {a, b, c, d, e, f, g}, op \in DOMAIN t
      PROVE  TableOf(op, tables) = t[op]
  <2>1. ASSUME NEW u \in {a, b, c, d, e, f, g}, op \in DOMAIN u PROVE u = t
    BY <1>2, <2>1 DEF OfAdminCounters, OfUserCounters, OfStatistics, OfTokens, OfUsers,
       OfUserTokens, OfOthers
  <2> QED BY <1>1, <1>2, <2>1, TheTable
<1> QED BY <1>2 DEF tables

LEMMA ParamTables ==
  /\ DOMAIN AdminCounterParams = OfAdminCounters /\ DOMAIN UserCounterParams = OfUserCounters
  /\ DOMAIN StatisticsParams = OfStatistics /\ DOMAIN TokenParams = OfTokens
  /\ DOMAIN UserParams = OfUsers /\ DOMAIN UserTokenParams = OfUserTokens
  /\ DOMAIN OtherParams = OfOthers
BY DEF AdminCounterParams, UserCounterParams, StatisticsParams, TokenParams, UserParams,
   UserTokenParams, OtherParams, OfAdminCounters, OfUserCounters, OfStatistics, OfTokens,
   OfUsers, OfUserTokens, OfOthers

LEMMA RequestTables ==
  /\ DOMAIN AdminCounterRequests = OfAdminCounters /\ DOMAIN UserCounterRequests = OfUserCounters
  /\ DOMAIN StatisticsRequests = OfStatistics /\ DOMAIN TokenRequests = OfTokens
  /\ DOMAIN UserRequests = OfUsers /\ DOMAIN UserTokenRequests = OfUserTokens
  /\ DOMAIN OtherRequests = OfOthers
BY DEF AdminCounterRequests, UserCounterRequests, StatisticsRequests, TokenRequests, UserRequests,
   UserTokenRequests, OtherRequests, OfAdminCounters, OfUserCounters, OfStatistics, OfTokens,
   OfUsers, OfUserTokens, OfOthers

LEMMA AnswerTables ==
  /\ DOMAIN AdminCounterAnswers = OfAdminCounters /\ DOMAIN UserCounterAnswers = OfUserCounters
  /\ DOMAIN StatisticsAnswers = OfStatistics /\ DOMAIN TokenAnswers = OfTokens
  /\ DOMAIN UserAnswers = OfUsers /\ DOMAIN UserTokenAnswers = OfUserTokens
  /\ DOMAIN OtherAnswers = OfOthers
BY DEF AdminCounterAnswers, UserCounterAnswers, StatisticsAnswers, TokenAnswers, UserAnswers,
   UserTokenAnswers, OtherAnswers, OfAdminCounters, OfUserCounters, OfStatistics, OfTokens,
   OfUsers, OfUserTokens, OfOthers

(* The client reads what the server writes.                                *)
LEMMA SameAnswers == \A op : TypedByClient(op) = WrittenAsJSON(op)
<1>1. /\ AdminCounterParsers = AdminCounterAnswers /\ UserCounterParsers = UserCounterAnswers
      /\ StatisticsParsers = StatisticsAnswers /\ TokenParsers = TokenAnswers
      /\ UserParsers = UserAnswers /\ UserTokenParsers = UserTokenAnswers
      /\ OtherParsers = OtherAnswers
  BY DEF AdminCounterParsers, AdminCounterAnswers, UserCounterParsers, UserCounterAnswers,
     StatisticsParsers, StatisticsAnswers, TokenParsers, TokenAnswers, UserParsers, UserAnswers,
     UserTokenParsers, UserTokenAnswers, OtherParsers, OtherAnswers
<1> QED BY <1>1 DEF TypedByClient, WrittenAsJSON

LEMMA AllOperations ==
  Operations = OfAdminCounters \cup OfUserCounters \cup OfStatistics \cup OfTokens
               \cup OfUsers \cup OfUserTokens \cup OfOthers
BY DEF Operations, ApiRoutes, Pattern, OfAdminCounters, OfUserCounters, OfStatistics, OfTokens,
       OfUsers, OfUserTokens, OfOthers

(* The middleware's 401 is typed too, with the exception of CreateUser.    *)
LEMMA RefusalTyped ==
  ASSUME NEW op \in Operations \ OperationWithNoSecurity, op # "CreateUser"
  PROVE  401 \in TypedByClient(op)
<1> DEFINE x == WrittenAsJSON(op)
<1>1. /\ op \in OfAdminCounters => x = AdminCounterAnswers[op]
      /\ op \in OfUserCounters => x = UserCounterAnswers[op]
      /\ op \in OfStatistics => x = StatisticsAnswers[op]
      /\ op \in OfTokens => x = TokenAnswers[op]
      /\ op \in OfUsers => x = UserAnswers[op]
      /\ op \in OfUserTokens => x = UserTokenAnswers[op]
      /\ op \in OfOthers => x = OtherAnswers[op]
  BY SevenTables, AnswerTables DEF WrittenAsJSON
<1> HIDE DEF x
<1>2. op \in OfAdminCounters => 401 \in x
  BY <1>1 DEF OfAdminCounters, AdminCounterAnswers
<1>3. op \in OfUserCounters => 401 \in x
  BY <1>1 DEF OfUserCounters, UserCounterAnswers
<1>4. op \in OfStatistics => 401 \in x
  BY <1>1 DEF OfStatistics, StatisticsAnswers
<1>5. op \in OfTokens => 401 \in x
  BY <1>1 DEF OfTokens, TokenAnswers
<1>6. op \in OfUsers => 401 \in x
  BY <1>1 DEF OfUsers, UserAnswers
<1>7. op \in OfUserTokens => 401 \in x
  BY <1>1 DEF OfUserTokens, UserTokenAnswers
<1>8. op \in OfOthers => 401 \in x
  BY <1>1 DEF OfOthers, OtherAnswers, OperationWithNoSecurity
<1> QED BY <1>2, <1>3, <1>4, <1>5, <1>6, <1>7, <1>8, AllOperations, SameAnswers DEF x

LEMMA BuilderTable ==
  ASSUME NEW op
  PROVE  /\ op \in OfAdminCounters => Builder(op) = AdminCounterRequests[op]
         /\ op \in OfUserCounters => Builder(op) = UserCounterRequests[op]
         /\ op \in OfStatistics => Builder(op) = StatisticsRequests[op]
         /\ op \in OfTokens => Builder(op) = TokenRequests[op]
         /\ op \in OfUsers => Builder(op) = UserRequests[op]
         /\ op \in OfUserTokens => Builder(op) = UserTokenRequests[op]
         /\ op \in OfOthers => Builder(op) = OtherRequests[op]
BY SevenTables, RequestTables DEF Builder

LEMMA WrapperTable ==
  ASSUME NEW op
  PROVE  /\ op \in OfAdminCounters => Wrapper(op) = AdminCounterParams[op]
         /\ op \in OfUserCounters => Wrapper(op) = UserCounterParams[op]
         /\ op \in OfStatistics => Wrapper(op) = StatisticsParams[op]
         /\ op \in OfTokens => Wrapper(op) = TokenParams[op]
         /\ op \in OfUsers => Wrapper(op) = UserParams[op]
         /\ op \in OfUserTokens => Wrapper(op) = UserTokenParams[op]
         /\ op \in OfOthers => Wrapper(op) = OtherParams[op]
BY SevenTables, ParamTables DEF Wrapper

-----------------------------------------------------------------------------
(* The routes.  The pattern of an operation, the request of the client and *)
(* the parameters of the wrapper go together.                              *)
GoTogether(r) ==
  /\ Builder(r.op).method = r.method /\ Builder(r.op).path = r.path
  /\ Wrapper(r.op).path = Names \cap Range(r.path)
  /\ Wrapper(r.op).query = Builder(r.op).query

LEMMA RoutesFit == \A r \in ApiRoutes : GoTogether(r)
<1>1. GoTogether(Pattern("GET", <<"api", "admin", "counters">>, "GetAvailableCounters"))
  <2>1. Range(<<"api", "admin", "counters">>) = {"api", "admin", "counters"}
    BY DEF Range
  <2>2. Names \cap {"api", "admin", "counters"} = {}
    BY DEF Names
  <2>3. /\ Builder("GetAvailableCounters") = AdminCounterRequests["GetAvailableCounters"]
        /\ Wrapper("GetAvailableCounters") = AdminCounterParams["GetAvailableCounters"]
    BY BuilderTable, WrapperTable DEF OfAdminCounters
  <2> QED BY <2>1, <2>2, <2>3
    DEF GoTogether, Pattern, AdminCounterRequests, AdminCounterParams, Builds, Binds
<1>2. GoTogether(Pattern("GET", <<"api", "admin", "counters", "counterId">>, "GetAllUserCounters"))
  <2>1. Range(<<"api", "admin", "counters", "counterId">>) = {"api", "admin", "counters", "counterId"}
    BY DEF Range
  <2>2. Names \cap {"api", "admin", "counters", "counterId"} = {"counterId"}
    BY DEF Names
  <2>3. /\ Builder("GetAllUserCounters") = AdminCounterRequests["GetAllUserCounters"]
        /\ Wrapper("GetAllUserCounters") = AdminCounterParams["GetAllUserCounters"]
    BY BuilderTable, WrapperTable DEF OfAdminCounters
  <2> QED BY <2>1, <2>2, <2>3
    DEF GoTogether, Pattern, AdminCounterRequests, AdminCounterParams, Builds, Binds
<1>3. GoTogether(Pattern("GET", <<"api", "config", "rate-limiter">>, "GetRateLimiterConfig"))
  <2>1. Range(<<"api", "config", "rate-limiter">>) = {"api", "config", "rate-limiter"}
    BY DEF Range
  <2>2. Names \cap {"api", "config", "rate-limiter"} = {}
    BY DEF Names
  <2>3. /\ Builder("GetRateLimiterConfig") = AdminCounterRequests["GetRateLimiterConfig"]
        /\ Wrapper("GetRateLimiterConfig") = AdminCounterParams["GetRateLimiterConfig"]
    BY BuilderTable, WrapperTable DEF OfAdminCounters
  <2> QED BY <2>1, <2>2, <2>3
    DEF GoTogether, Pattern, AdminCounterRequests, AdminCounterParams, Builds, Binds
<1>4. GoTogether(Pattern("GET", <<"api", "counters", "counterId", "userId">>, "GetUserCounters"))
  <2>1. Range(<<"api", "counters", "counterId", "userId">>) = {"api", "counters", "counterId", "userId"}
    BY DEF Range
  <2>2. Names \cap {"api", "counters", "counterId", "userId"} = {"counterId", "userId"}
    BY DEF Names
  <2>3. /\ Builder("GetUserCounters") = UserCounterRequests["GetUserCounters"]
        /\ Wrapper("GetUserCounters") = UserCounterParams["GetUserCounters"]
    BY BuilderTable, WrapperTable DEF OfUserCounters
  <2> QED BY <2>1, <2>2, <2>3
    DEF GoTogether, Pattern, UserCounterRequests, UserCounterParams, Builds, Binds
<1>5. GoTogether(Pattern("POST", <<"api", "counters", "counterId", "userId">>, "AdjustUserCounters"))
  <2>1. Range(<<"api", "counters", "counterId", "userId">>) = {"api", "counters", "counterId", "userId"}
    BY DEF Range
  <2>2. Names \cap {"api", "counters", "counterId", "userId"} = {"counterId", "userId"}
    BY DEF Names
  <2>3. /\ Builder("AdjustUserCounters") = UserCounterRequests["AdjustUserCounters"]
        /\ Wrapper("AdjustUserCounters") = UserCounterParams["AdjustUserCounters"]
    BY BuilderTable, WrapperTable DEF OfUserCounters
  <2> QED BY <2>1, <2>2, <2>3
    DEF GoTogether, Pattern, UserCounterRequests, UserCounterParams, Builds, Binds
<1>6. GoTogether(Pattern("GET", <<"api", "counters", "counterId", "userId", "history">>, "GetUserCounterHistory"))
  <2>1. Range(<<"api", "counters", "counterId", "userId", "history">>) = {"api", "counters", "counterId", "userId", "history"}
    BY DEF Range
  <2>2. Names \cap {"api", "counters", "counterId", "userId", "history"} = {"counterId", "userId"}
    BY DEF Names
  <2>3. /\ Builder("GetUserCounterHistory") = UserCounterRequests["GetUserCounterHistory"]
        /\ Wrapper("GetUserCounterHistory") = UserCounterParams["GetUserCounterHistory"]
    BY BuilderTable, WrapperTable DEF OfUserCounters
  <2> QED BY <2>1, <2>2, <2>3
    DEF GoTogether, Pattern, UserCounterRequests, UserCounterParams, Builds, Binds
<1>7. GoTogether(Pattern("GET", <<"api", "statistics", "rate-limiter">>, "GetRateLimiterStats"))
  <2>1. Range(<<"api", "statistics", "rate-limiter">>) = {"api", "statistics", "rate-limiter"}
    BY DEF Range
  <2>2. Names \cap {"api", "statistics", "rate-limiter"} = {}
    BY DEF Names
  <2>3. /\ Builder("GetRateLimiterStats") = StatisticsRequests["GetRateLimiterStats"]
        /\ Wrapper("GetRateLimiterStats") = StatisticsParams["GetRateLimiterStats"]
    BY BuilderTable, WrapperTable DEF OfStatistics
  <2> QED BY <2>1, <2>2, <2>3
    DEF GoTogether, Pattern, StatisticsRequests, StatisticsParams, Builds, Binds
<1>8. GoTogether(Pattern("GET", <<"api", "statistics", "requests">>, "GetRequestStatistics"))
  <2>1. Range(<<"api", "statistics", "requests">>) = {"api", "statistics", "requests"}
    BY DEF Range
  <2>2. Names \cap {"api", "statistics", "requests"} = {}
    BY DEF Names
  <2>3. /\ Builder("GetRequestStatistics") = StatisticsRequests["GetRequestStatistics"]
        /\ Wrapper("GetRequestStatistics") = StatisticsParams["GetRequestStatistics"]
    BY BuilderTable, WrapperTable DEF OfStatistics
  <2> QED BY <2>1, <2>2, <2>3
    DEF GoTogether, Pattern, StatisticsRequests, StatisticsParams, Builds, Binds
<1>9. GoTogether(Pattern("GET", <<"api", "statistics", "requests", "details">>, "GetRequestDetails"))
  <2>1. Range(<<"api", "statistics", "requests", "details">>) = {"api", "statistics", "requests", "details"}
    BY DEF Range
  <2>2. Names \cap {"api", "statistics", "requests", "details"} = {}
    BY DEF Names
  <2>3. /\ Builder("GetRequestDetails") = StatisticsRequests["GetRequestDetails"]
        /\ Wrapper("GetRequestDetails") = StatisticsParams["GetRequestDetails"]
    BY BuilderTable, WrapperTable DEF OfStatistics
  <2> QED BY <2>1, <2>2, <2>3
    DEF GoTogether, Pattern, StatisticsRequests, StatisticsParams, Builds, Binds
<1>10. GoTogether(Pattern("DELETE", <<"api", "tokens", "tokenId">>, "DeleteToken"))
  <2>1. Range(<<"api", "tokens", "tokenId">>) = {"api", "tokens", "tokenId"}
    BY DEF Range
  <2>2. Names \cap {"api", "tokens", "tokenId"} = {"tokenId"}
    BY DEF Names
  <2>3. /\ Builder("DeleteToken") = TokenRequests["DeleteToken"]
        /\ Wrapper("DeleteToken") = TokenParams["DeleteToken"]
    BY BuilderTable, WrapperTable DEF OfTokens
  <2> QED BY <2>1, <2>2, <2>3
    DEF GoTogether, Pattern, TokenRequests, TokenParams, Builds, Binds
<1>11. GoTogether(Pattern("GET", <<"api", "tokens", "tokenId">>, "GetToken"))
  <2>1. Range(<<"api", "tokens", "tokenId">>) = {"api", "tokens", "tokenId"}
    BY DEF Range
  <2>2. Names \cap {"api", "tokens", "tokenId"} = {"tokenId"}
    BY DEF Names
  <2>3. /\ Builder("GetToken") = TokenRequests["GetToken"]
        /\ Wrapper("GetToken") = TokenParams["GetToken"]
    BY BuilderTable, WrapperTable DEF OfTokens
  <2> QED BY <2>1, <2>2, <2>3
    DEF GoTogether, Pattern, TokenRequests, TokenParams, Builds, Binds
<1>12. GoTogether(Pattern("GET", <<"api", "users">>, "ListUsers"))
  <2>1. Range(<<"api", "users">>) = {"api", "users"}
    BY DEF Range
  <2>2. Names \cap {"api", "users"} = {}
    BY DEF Names
  <2>3. /\ Builder("ListUsers") = UserRequests["ListUsers"]
        /\ Wrapper("ListUsers") = UserParams["ListUsers"]
    BY BuilderTable, WrapperTable DEF OfUsers
  <2> QED BY <2>1, <2>2, <2>3
    DEF GoTogether, Pattern, UserRequests, UserParams, Builds, Binds
<1>13. GoTogether(Pattern("POST", <<"api", "users">>, "CreateUser"))
  <2>1. Range(<<"api", "users">>) = {"api", "users"}
    BY DEF Range
  <2>2. Names \cap {"api", "users"} = {}
    BY DEF Names
  <2>3. /\ Builder("CreateUser") = UserRequests["CreateUser"]
        /\ Wrapper("CreateUser") = UserParams["CreateUser"]
    BY BuilderTable, WrapperTable DEF OfUsers
  <2> QED BY <2>1, <2>2, <2>3
    DEF GoTogether, Pattern, UserRequests, UserParams, Builds, Binds
<1>14. GoTogether(Pattern("GET", <<"api", "users", "userId">>, "GetUserById"))
  <2>1. Range(<<"api", "users", "userId">>) = {"api", "users", "userId"}
    BY DEF Range
  <2>2. Names \cap {"api", "users", "userId"} = {"userId"}
    BY DEF Names
  <2>3. /\ Builder("GetUserById") = UserRequests["GetUserById"]
        /\ Wrapper("GetUserById") = UserParams["GetUserById"]
    BY BuilderTable, WrapperTable DEF OfUsers
  <2> QED BY <2>1, <2>2, <2>3
    DEF GoTogether, Pattern, UserRequests, UserParams, Builds, Binds
<1>15. GoTogether(Pattern("GET", <<"api", "users", "userId", "tokens">>, "ListTokens"))
  <2>1. Range(<<"api", "users", "userId", "tokens">>) = {"api", "users", "userId", "tokens"}
    BY DEF Range
  <2>2. Names \cap {"api", "users", "userId", "tokens"} = {"userId"}
    BY DEF Names
  <2>3. /\ Builder("ListTokens") = UserTokenRequests["ListTokens"]
        /\ Wrapper("ListTokens") = UserTokenParams["ListTokens"]
    BY BuilderTable, WrapperTable DEF OfUserTokens
  <2> QED BY <2>1, <2>2, <2>3
    DEF GoTogether, Pattern, UserTokenRequests, UserTokenParams, Builds, Binds
<1>16. GoTogether(Pattern("POST", <<"api", "users", "userId", "tokens">>, "CreateToken"))
  <2>1. Range(<<"api", "users", "userId", "tokens">>) = {"api", "users", "userId", "tokens"}
    BY DEF Range
  <2>2. Names \cap {"api", "users", "userId", "tokens"} = {"userId"}
    BY DEF Names
  <2>3. /\ Builder("CreateToken") = UserTokenRequests["CreateToken"]
        /\ Wrapper("CreateToken") = UserTokenParams["CreateToken"]
    BY BuilderTable, WrapperTable DEF OfUserTokens
  <2> QED BY <2>1, <2>2, <2>3
    DEF GoTogether, Pattern, UserTokenRequests, UserTokenParams, Builds, Binds
<1>17. GoTogether(Pattern("GET", <<"health">>, "HealthCheck"))
  <2>1. Range(<<"health">>) = {"health"}
    BY DEF Range
  <2>2. Names \cap {"health"} = {}
    BY DEF Names
  <2>3. /\ Builder("HealthCheck") = OtherRequests["HealthCheck"]
        /\ Wrapper("HealthCheck") = OtherParams["HealthCheck"]
    BY BuilderTable, WrapperTable DEF OfOthers
  <2> QED BY <2>1, <2>2, <2>3
    DEF GoTogether, Pattern, OtherRequests, OtherParams, Builds, Binds
<1>18. GoTogether(Pattern("GET", <<"logout">>, "LogoutUser"))
  <2>1. Range(<<"logout">>) = {"logout"}
    BY DEF Range
  <2>2. Names \cap {"logout"} = {}
    BY DEF Names
  <2>3. /\ Builder("LogoutUser") = OtherRequests["LogoutUser"]
        /\ Wrapper("LogoutUser") = OtherParams["LogoutUser"]
    BY BuilderTable, WrapperTable DEF OfOthers
  <2> QED BY <2>1, <2>2, <2>3
    DEF GoTogether, Pattern, OtherRequests, OtherParams, Builds, Binds
<1>19. GoTogether(Pattern("GET", <<"me">>, "GetCurrentUser"))
  <2>1. Range(<<"me">>) = {"me"}
    BY DEF Range
  <2>2. Names \cap {"me"} = {}
    BY DEF Names
  <2>3. /\ Builder("GetCurrentUser") = OtherRequests["GetCurrentUser"]
        /\ Wrapper("GetCurrentUser") = OtherParams["GetCurrentUser"]
    BY BuilderTable, WrapperTable DEF OfOthers
  <2> QED BY <2>1, <2>2, <2>3
    DEF GoTogether, Pattern, OtherRequests, OtherParams, Builds, Binds
<1>20. GoTogether(Pattern("GET", <<"openapi.yaml">>, "GetOpenApiYaml"))
  <2>1. Range(<<"openapi.yaml">>) = {"openapi.yaml"}
    BY DEF Range
  <2>2. Names \cap {"openapi.yaml"} = {}
    BY DEF Names
  <2>3. /\ Builder("GetOpenApiYaml") = OtherRequests["GetOpenApiYaml"]
        /\ Wrapper("GetOpenApiYaml") = OtherParams["GetOpenApiYaml"]
    BY BuilderTable, WrapperTable DEF OfOthers
  <2> QED BY <2>1, <2>2, <2>3
    DEF GoTogether, Pattern, OtherRequests, OtherParams, Builds, Binds
<1> QED BY <1>1, <1>2, <1>3, <1>4, <1>5, <1>6, <1>7, <1>8, <1>9, <1>10,
         <1>11, <1>12, <1>13, <1>14, <1>15, <1>16, <1>17, <1>18, <1>19, <1>20
  DEF ApiRoutes

(* Two patterns of a method differ at a place that is a name in neither.   *)
LEMMA RoutesDiffer ==
  ASSUME NEW q \in ApiRoutes, NEW r \in ApiRoutes, q.method = r.method,
         Len(q.path) = Len(r.path),
         \A i \in 1 .. Len(q.path) :
            q.path[i] = r.path[i] \/ q.path[i] \in Names \/ r.path[i] \in Names
  PROVE  q = r
BY SMTT(100) DEF ApiRoutes, Pattern, Names

LEMMA RoutePlaces ==
  ASSUME NEW r \in ApiRoutes
  PROVE  /\ Len(r.path) \in 1 .. 5 /\ DOMAIN r.path = 1 .. Len(r.path)
         /\ r.path[1] \in {"api", "health", "logout", "me", "openapi.yaml"}
         /\ Len(r.path) = 1 \/ r.path[2] \in {"admin", "config", "counters", "statistics", "tokens", "users"}
<1>1. Len(r.path) \in 1 .. 5
  BY DEF ApiRoutes, Pattern
<1>2. DOMAIN r.path = 1 .. Len(r.path)
  BY DEF ApiRoutes, Pattern
<1>3. r.path[1] \in {"api", "health", "logout", "me", "openapi.yaml"}
  BY DEF ApiRoutes, Pattern
<1>4. Len(r.path) = 1 \/ r.path[2] \in {"admin", "config", "counters", "statistics", "tokens", "users"}
  BY DEF ApiRoutes, Pattern
<1> QED BY <1>1, <1>2, <1>3, <1>4

LEMMA RouteOf == \A op \in Operations : \E q \in ApiRoutes : q.op = op
BY DEF Operations

(* A request of the client fits the pattern of its operation, and no other.*)
LEMMA Arrives ==
  ASSUME NEW op \in Operations, NEW args \in Arguments(op), NEW r \in ApiRoutes,
         r.method = Builder(op).method, Fits(r.path, Fill(Builder(op).path, args.path))
  PROVE  r.op = op
<1>1. PICK q \in ApiRoutes : q.op = op
  BY RouteOf
<1>2. Builder(op).method = q.method /\ Builder(op).path = q.path
  BY <1>1, RoutesFit DEF GoTogether
<1> DEFINE path == Fill(q.path, args.path)
<1>3. DOMAIN path = 1 .. Len(q.path)
  BY RoutePlaces DEF Fill
<1>4. \A i \in 1 .. Len(q.path) : q.path[i] \notin Names => path[i] = q.path[i]
  BY RoutePlaces DEF Fill
<1>5. Fits(r.path, path)
  BY <1>2
<1>6. Len(path) = Len(q.path)
  BY <1>3, RoutePlaces DEF Fill
<1> HIDE DEF path
<1>7. \A i \in 1 .. Len(q.path) :
         q.path[i] = r.path[i] \/ q.path[i] \in Names \/ r.path[i] \in Names
  BY <1>3, <1>4, <1>5 DEF Fits
<1>8. Len(q.path) = Len(r.path)
  BY <1>5, <1>6 DEF Fits
<1> QED BY <1>1, <1>2, <1>7, <1>8, RoutesDiffer

(* The handler gets back what the client has put into the path.            *)
Bound(r, path, query) ==
  [path |-> [n \in Wrapper(r.op).path |-> path[CHOOSE i \in DOMAIN r.path : r.path[i] = n]],
   query |-> Wrapper(r.op).query \cap query]

LEMMA GivenBack ==
  ASSUME NEW r \in ApiRoutes, NEW args \in Arguments(r.op)
  PROVE  Bound(r, Fill(Builder(r.op).path, args.path), args.query) = args
<1> DEFINE path == Fill(Builder(r.op).path, args.path)
           index(n) == CHOOSE i \in DOMAIN r.path : r.path[i] = n
           taken == Names \cap Range(r.path)
<1>1. /\ Builder(r.op).path = r.path /\ Wrapper(r.op).path = taken
      /\ Wrapper(r.op).query = Builder(r.op).query
  BY RoutesFit DEF GoTogether
<1>2. args.path \in [taken -> Ids] /\ args.query \subseteq Builder(r.op).query
      /\ args = [path |-> args.path, query |-> args.query]
  BY <1>1 DEF Arguments
<1>3. ASSUME NEW n \in taken PROVE path[index(n)] = args.path[n]
  <2>1. \E i \in DOMAIN r.path : r.path[i] = n
    BY DEF Range
  <2>2. index(n) \in DOMAIN r.path /\ r.path[index(n)] = n
    BY <2>1
  <2> HIDE DEF index
  <2> QED BY <1>1, <2>2 DEF Fill
<1>4. [n \in taken |-> path[index(n)]] = args.path
  BY <1>2, <1>3
<1>5. Wrapper(r.op).query \cap args.query = args.query
  BY <1>1, <1>2
<1>6. Bound(r, path, args.query) = [path |-> [n \in taken |-> path[index(n)]],
                                    query |-> args.query]
  BY <1>1, <1>5 DEF Bound
<1> HIDE DEF path, index, taken
<1> QED BY <1>2, <1>4, <1>6 DEF path

(* With "api" in front once more, a request fits no pattern.               *)
LEMMA GoesAstray ==
  ASSUME NEW op \in Operations, NEW args \in Arguments(op), NEW r \in ApiRoutes, NEW path,
         DOMAIN path = 1 .. Len(path),
         Len(path) = Len(Builder(op).path) + 1,
         path[2] = Fill(Builder(op).path, args.path)[1]
  PROVE  ~Fits(r.path, path)
<1>1. PICK q \in ApiRoutes : q.op = op
  BY RouteOf
<1>2. Builder(op).path = q.path
  BY <1>1, RoutesFit DEF GoTogether
<1>3. /\ DOMAIN q.path = 1 .. Len(q.path) /\ Len(q.path) \in 1 .. 5
      /\ q.path[1] \in {"api", "health", "logout", "me", "openapi.yaml"}
  BY RoutePlaces
<1>4. path[2] = q.path[1]
  BY <1>2, <1>3 DEF Fill, Names
<1>5. Len(path) >= 2 /\ 2 \in DOMAIN path
  BY <1>2, <1>3
<1> SUFFICES ASSUME Fits(r.path, path) PROVE FALSE
  OBVIOUS
<1>6. Len(r.path) = Len(path) /\ (r.path[2] = path[2] \/ r.path[2] \in Names)
  BY <1>5 DEF Fits
<1>7. r.path[2] \in {"admin", "config", "counters", "statistics", "tokens", "users"}
  <2>1. Len(r.path) # 1
    BY <1>5, <1>6
  <2> QED BY <2>1, RoutePlaces
<1> QED BY <1>3, <1>4, <1>6, <1>7 DEF Names

-----------------------------------------------------------------------------
(* Sequences.                                                              *)

LEMMA FrontAppend ==
  ASSUME NEW V, NEW s \in Seq(V), NEW x \in V
  PROVE  Front(Append(s, x)) = s /\ Last(Append(s, x)) = x
<1> DEFINE a == Append(s, x)
<1>1. PICK n \in Nat : Len(s) = n /\ DOMAIN s = 1 .. n
  BY LenProperties
<1>2. a \in Seq(V) /\ Len(a) = n + 1 /\ (\A i \in 1 .. n : a[i] = s[i]) /\ a[n + 1] = x
  BY <1>1, AppendProperties
<1> HIDE DEF a
<1>3. \A i \in 1 .. n : a[i] \in V
  BY <1>1, <1>2, ElementOfSeq
<1>4. /\ SubSeq(a, 1, n) \in Seq(V) /\ Len(SubSeq(a, 1, n)) = n
      /\ \A i \in 1 .. n : SubSeq(a, 1, n)[i] = a[i]
  BY <1>3, SubSeqProperties
<1>5. SubSeq(a, 1, n) = s
  BY <1>1, <1>2, <1>4, SeqEqual
<1>6. Front(a) = s /\ Last(a) = x
  BY <1>2, <1>5 DEF Front, Last
<1> QED BY <1>6 DEF a

LEMMA BehindConcat ==
  ASSUME NEW V, NEW s \in Seq(V), NEW t \in Seq(V), t # <<>>
  PROVE  SubSeq(s \o t, Len(s) + 1, Len(s \o t)) = t
<1>1. PICK n \in Nat, m \in Nat : Len(s) = n /\ Len(t) = m
  BY LenProperties
<1>2. m # 0 /\ Len(s \o t) = n + m
  BY <1>1, EmptySeq, ConcatProperties
<1>3. n + 1 \in n + 1 .. n + m /\ n + m \in n + 1 .. n + m
  BY <1>2
<1>4. SubSeq(s \o t, n + 1, n + m) = SubSeq(t, (n + 1) - n, (n + m) - n)
  <2>1. ASSUME NEW a \in n + 1 .. n + m, NEW b \in n + 1 .. n + m
        PROVE  SubSeq(s \o t, a, b) = SubSeq(t, a - n, b - n)
    <3>1. a \in Len(s) + 1 .. Len(s) + Len(t) /\ b \in Len(s) + 1 .. Len(s) + Len(t)
      BY <1>1
    <3>2. SubSeq(s \o t, a, b) = SubSeq(t, a - Len(s), b - Len(s))
      BY <3>1, SubSeqOfConcat2
    <3> QED BY <1>1, <3>2
  <2> QED BY <1>3, <2>1
<1>5. (n + 1) - n = 1 /\ (n + m) - n = m
  OBVIOUS
<1>6. SubSeq(t, 1, m) = t
  BY <1>1, SubSeqFull
<1> QED BY <1>1, <1>2, <1>4, <1>5, <1>6

LEMMA LongerConcat ==
  ASSUME NEW V, NEW one \in Seq(V), NEW t \in Seq(V), t # <<>>
  PROVE  one \o t \in Seq(V) /\ one \o t # <<>>
<1>1. one \o t \in Seq(V)
  BY ConcatProperties
<1>2. one \o t # <<>>
  <2>1. Len(t) \in Nat \ {0} /\ Len(one) \in Nat
    BY EmptySeq, LenProperties
  <2>2. Len(one \o t) = Len(one) + Len(t)
    BY ConcatProperties
  <2>3. Len(one \o t) # 0
    BY <2>1, <2>2
  <2> QED BY <1>1, <2>3, EmptySeq
<1> QED BY <1>1, <1>2

LEMMA BehindOneMore ==
  ASSUME NEW V, NEW s \in Seq(V), NEW t \in Seq(V), t # <<>>, NEW x \in V,
         NEW a, a = Append(s, x)
  PROVE  SubSeq(a \o t, Len(s) + 1, Len(a \o t)) = <<x>> \o t
<1>1. PICK one : one = <<x>>
  OBVIOUS
<1>2. PICK u : u = one \o t
  OBVIOUS
<1>3. one \in Seq(V)
  BY <1>1
<1>4. u \in Seq(V) /\ u # <<>>
  BY <1>2, <1>3, LongerConcat
<1>5. SubSeq(s \o u, Len(s) + 1, Len(s \o u)) = u
  BY <1>4, BehindConcat
<1>6. a = s \o one
  BY <1>1, AppendIsConcat
<1>7. (s \o one) \o t = s \o (one \o t)
  BY <1>3, ConcatAssociative
<1>8. SubSeq(a \o t, Len(s) + 1, Len(a \o t)) = u
  BY <1>2, <1>5, <1>6, <1>7
<1> QED BY <1>1, <1>2, <1>8

(* The path a client builds is a sequence, of one to five names and ids.   *)
LEMMA FillSeq ==
  ASSUME NEW op \in Operations, NEW args \in Arguments(op)
  PROVE  LET p == Fill(Builder(op).path, args.path)
         IN /\ Len(p) = Len(Builder(op).path) /\ Len(p) \in 1 .. 5 /\ p # <<>>
            /\ \E V : p \in Seq(V)
<1>1. PICK q \in ApiRoutes : q.op = op
  BY RouteOf
<1>2. Builder(op).path = q.path
  BY <1>1, RoutesFit DEF GoTogether
<1>3. PICK n \in 1 .. 5 : Len(q.path) = n /\ DOMAIN q.path = 1 .. n
  BY RoutePlaces
<1> DEFINE p == Fill(q.path, args.path)
           V == {p[i] : i \in 1 .. n}
<1>4. DOMAIN p = 1 .. n /\ p = [i \in 1 .. n |-> p[i]]
  BY <1>3 DEF Fill
<1> HIDE DEF p
<1>5. p \in [1 .. n -> V]
  BY <1>4
<1> HIDE DEF V
<1>6. p \in Seq(V)
  BY <1>5, SeqDef
<1>7. Len(p) = n
  BY <1>4, <1>6, LenProperties
<1>8. p # <<>>
  BY <1>3, <1>7, EmptySeq
<1> QED BY <1>2, <1>3, <1>6, <1>7, <1>8 DEF p
=============================================================================
