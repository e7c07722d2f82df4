--------------------------- MODULE AccountsProofs ---------------------------
(***************************************************************************)
(* What the server keeps for any number of replicas, browsers, tabs, users *)
(* and requests.                                                           *)
(***************************************************************************)
EXTENDS Accounts, StartupProofs, SequenceTheorems, WellFoundedInduction

----------------------------------------------------------------------------
(***************************************************************************)
(* Routing: which handlers each middleware stands in front of.             *)
(***************************************************************************)

Behind(m) ==
  CASE m = "apiMiddleware"    -> {"ping", "imagePush", "createDeployment"}
    [] m = "secretMiddleware" -> {"secretHtmxRoute", "secretPage"}
    [] m = "userMiddleware"   -> {"userHtmxRoute", "userPage"}
    [] m = "loginMiddleware"  -> {"loginHtmxRoute", "loginPage"}
    [] m = "userProtected"    -> {"signOut", "createEnvironmentHtmxRoute",
         "deleteEnvironmentHtmxRoute", "deploymentHtmxRoute", "deploymentStatusHtmxRoute",
         "updateDeploymentConfigHtmxRoute", "tokenHtmxRoute", "revokeTokenHtmxRoute",
         "dashboardPage", "deploymentPage", "environmentPage", "tokenPage"}
    [] OTHER                  -> {}

Middlewares == {"apiMiddleware", "secretMiddleware", "userMiddleware", "loginMiddleware",
                "userProtected"}

IsChain(chain) ==
  \/ chain = <<"NotFound">>
  \/ \E m \in Middlewares : \E h \in Behind(m) : chain = <<m, h>>

LEMMA AppendToOne == ASSUME NEW m, NEW h PROVE Append(<<m>>, h) = <<m, h>>
<1> DEFINE a == Append(<<m>>, h)
           b == <<m, h>>
<1>1. <<m>> \in Seq({m, h}) /\ Len(<<m>>) = 1 /\ <<m>>[1] = m
  OBVIOUS
<1>2. a \in Seq({m, h}) /\ Len(a) = 2 /\ a[1] = m /\ a[2] = h
  BY <1>1
<1>3. b \in Seq({m, h}) /\ Len(b) = 2 /\ b[1] = m /\ b[2] = h
  OBVIOUS
<1> HIDE DEF a, b
<1>4. \A i \in 1..2 : a[i] = b[i]
  <2> TAKE i \in 1..2
  <2>1. i = 1 \/ i = 2
    OBVIOUS
  <2> QED BY <2>1, <1>2, <1>3
<1>5. a = b
  BY <1>2, <1>3, <1>4, SeqEqual
<1> QED BY <1>5 DEF a, b

LEMMA HandleChain ==
  ASSUME NEW r, NEW method, NEW path, NEW handler
  PROVE  Handle(r, method, path, handler).chain = Append(r.middlewares, handler)
  BY DEF Handle

LEMMA HandlePattern ==
  ASSUME NEW r, NEW method, NEW path, NEW handler
  PROVE  Handle(r, method, path, handler).pattern = r.path \o path
  BY DEF Handle

LEMMA UseMiddleware ==
  ASSUME NEW m, NEW p, NEW q
  PROVE  /\ Use(NewRouter, m).middlewares = <<m>>
         /\ Use(Route(NewRouter, p), m).middlewares = <<m>>
         /\ Use(Route(Route(NewRouter, p), q), m).middlewares = <<m>>
  BY DEF Use, Route, NewRouter

(* A handler that is registered on a router with one middleware.            *)
LEMMA OneMiddleware ==
  ASSUME NEW m, NEW r, r.middlewares = <<m>>, NEW method, NEW path, NEW h
  PROVE  Handle(r, method, path, h).chain = <<m, h>>
<1>1. Handle(r, method, path, h).chain = Append(r.middlewares, h)
  BY HandleChain
<1>2. Append(<<m>>, h) = <<m, h>>
  BY AppendToOne
<1> QED BY ONLY <1>1, <1>2, r.middlewares = <<m>>, Zenon

(* The route 15 is the root's.                                             *)
LEMMA RouteChains == \A i \in 1..22 \ {15} : IsChain(Routes[i].chain)
<1>0. \A m \in Middlewares : \A h \in Behind(m) : IsChain(<<m, h>>)
  BY DEF IsChain
<1> USE DEF Api, Htmx, Protected, Middlewares, Behind
<1>1. IsChain(Routes[1].chain)
  <2> DEFINE r == Use(Api, "apiMiddleware")
  <2>1. Routes[1] = Handle(r, "GET", <<"ping">>, "ping")
    BY DEF Routes
  <2>2. r.middlewares = <<"apiMiddleware">>
    BY UseMiddleware
  <2> HIDE DEF r
  <2>3. Routes[1].chain = <<"apiMiddleware", "ping">>
    BY <2>1, <2>2, OneMiddleware
  <2> QED BY <2>3, <1>0
<1>2. IsChain(Routes[2].chain)
  <2> DEFINE r == Use(Api, "apiMiddleware")
  <2>1. Routes[2] = Handle(r, "POST", <<"image">>, "imagePush")
    BY DEF Routes
  <2>2. r.middlewares = <<"apiMiddleware">>
    BY UseMiddleware
  <2> HIDE DEF r
  <2>3. Routes[2].chain = <<"apiMiddleware", "imagePush">>
    BY <2>1, <2>2, OneMiddleware
  <2> QED BY <2>3, <1>0
<1>3. IsChain(Routes[3].chain)
  <2> DEFINE r == Use(Route(Api, <<"environment", ":slug">>), "apiMiddleware")
  <2>1. Routes[3] = Handle(r, "POST", <<"deployment">>, "createDeployment")
    BY DEF Routes
  <2>2. r.middlewares = <<"apiMiddleware">>
    BY UseMiddleware
  <2> HIDE DEF r
  <2>3. Routes[3].chain = <<"apiMiddleware", "createDeployment">>
    BY <2>1, <2>2, OneMiddleware
  <2> QED BY <2>3, <1>0
<1>4. IsChain(Routes[4].chain)
  <2> DEFINE r == Use(Htmx, "secretMiddleware")
  <2>1. Routes[4] = Handle(r, "POST", <<"secret">>, "secretHtmxRoute")
    BY DEF Routes
  <2>2. r.middlewares = <<"secretMiddleware">>
    BY UseMiddleware
  <2> HIDE DEF r
  <2>3. Routes[4].chain = <<"secretMiddleware", "secretHtmxRoute">>
    BY <2>1, <2>2, OneMiddleware
  <2> QED BY <2>3, <1>0
<1>5. IsChain(Routes[5].chain)
  <2> DEFINE r == Use(Htmx, "userMiddleware")
  <2>1. Routes[5] = Handle(r, "POST", <<"user">>, "userHtmxRoute")
    BY DEF Routes
  <2>2. r.middlewares = <<"userMiddleware">>
    BY UseMiddleware
  <2> HIDE DEF r
  <2>3. Routes[5].chain = <<"userMiddleware", "userHtmxRoute">>
    BY <2>1, <2>2, OneMiddleware
  <2> QED BY <2>3, <1>0
<1>6. IsChain(Routes[6].chain)
  <2> DEFINE r == Use(Htmx, "loginMiddleware")
  <2>1. Routes[6] = Handle(r, "POST", <<"login">>, "loginHtmxRoute")
    BY DEF Routes
  <2>2. r.middlewares = <<"loginMiddleware">>
    BY UseMiddleware
  <2> HIDE DEF r
  <2>3. Routes[6].chain = <<"loginMiddleware", "loginHtmxRoute">>
    BY <2>1, <2>2, OneMiddleware
  <2> QED BY <2>3, <1>0
<1>7. IsChain(Routes[7].chain)
  <2> DEFINE r == Protected(Htmx)
  <2>1. Routes[7] = Handle(r, "POST", <<"signout">>, "signOut")
    BY DEF Routes
  <2>2. r.middlewares = <<"userProtected">>
    BY UseMiddleware
  <2> HIDE DEF r
  <2>3. Routes[7].chain = <<"userProtected", "signOut">>
    BY <2>1, <2>2, OneMiddleware
  <2> QED BY <2>3, <1>0
<1>8. IsChain(Routes[8].chain)
  <2> DEFINE r == Protected(Route(Htmx, <<"environment">>))
  <2>1. Routes[8] = Handle(r, "POST", <<>>, "createEnvironmentHtmxRoute")
    BY DEF Routes
  <2>2. r.middlewares = <<"userProtected">>
    BY UseMiddleware
  <2> HIDE DEF r
  <2>3. Routes[8].chain = <<"userProtected", "createEnvironmentHtmxRoute">>
    BY <2>1, <2>2, OneMiddleware
  <2> QED BY <2>3, <1>0
<1>9. IsChain(Routes[9].chain)
  <2> DEFINE r == Protected(Route(Htmx, <<"environment">>))
  <2>1. Routes[9] = Handle(r, "DELETE", <<>>, "deleteEnvironmentHtmxRoute")
    BY DEF Routes
  <2>2. r.middlewares = <<"userProtected">>
    BY UseMiddleware
  <2> HIDE DEF r
  <2>3. Routes[9].chain = <<"userProtected", "deleteEnvironmentHtmxRoute">>
    BY <2>1, <2>2, OneMiddleware
  <2> QED BY <2>3, <1>0
<1>10. IsChain(Routes[10].chain)
  <2> DEFINE r == Protected(Route(Htmx, <<"deployment">>))
  <2>1. Routes[10] = Handle(r, "GET", <<>>, "deploymentHtmxRoute")
    BY DEF Routes
  <2>2. r.middlewares = <<"userProtected">>
    BY UseMiddleware
  <2> HIDE DEF r
  <2>3. Routes[10].chain = <<"userProtected", "deploymentHtmxRoute">>
    BY <2>1, <2>2, OneMiddleware
  <2> QED BY <2>3, <1>0
<1>11. IsChain(Routes[11].chain)
  <2> DEFINE r == Protected(Route(Htmx, <<"deployment">>))
  <2>1. Routes[11] = Handle(r, "GET", <<":id", "status">>, "deploymentStatusHtmxRoute")
    BY DEF Routes
  <2>2. r.middlewares = <<"userProtected">>
    BY UseMiddleware
  <2> HIDE DEF r
  <2>3. Routes[11].chain = <<"userProtected", "deploymentStatusHtmxRoute">>
    BY <2>1, <2>2, OneMiddleware
  <2> QED BY <2>3, <1>0
<1>12. IsChain(Routes[12].chain)
  <2> DEFINE r == Protected(Route(Htmx, <<"deployment">>))
  <2>1. Routes[12] = Handle(r, "POST", <<":id", "config">>, "updateDeploymentConfigHtmxRoute")
    BY DEF Routes
  <2>2. r.middlewares = <<"userProtected">>
    BY UseMiddleware
  <2> HIDE DEF r
  <2>3. Routes[12].chain = <<"userProtected", "updateDeploymentConfigHtmxRoute">>
    BY <2>1, <2>2, OneMiddleware
  <2> QED BY <2>3, <1>0
<1>13. IsChain(Routes[13].chain)
  <2> DEFINE r == Protected(Route(Htmx, <<"token">>))
  <2>1. Routes[13] = Handle(r, "POST", <<>>, "tokenHtmxRoute")
    BY DEF Routes
  <2>2. r.middlewares = <<"userProtected">>
    BY UseMiddleware
  <2> HIDE DEF r
  <2>3. Routes[13].chain = <<"userProtected", "tokenHtmxRoute">>
    BY <2>1, <2>2, OneMiddleware
  <2> QED BY <2>3, <1>0
<1>14. IsChain(Routes[14].chain)
  <2> DEFINE r == Protected(Route(Htmx, <<"token">>))
  <2>1. Routes[14] = Handle(r, "POST", <<"revoke">>, "revokeTokenHtmxRoute")
    BY DEF Routes
  <2>2. r.middlewares = <<"userProtected">>
    BY UseMiddleware
  <2> HIDE DEF r
  <2>3. Routes[14].chain = <<"userProtected", "revokeTokenHtmxRoute">>
    BY <2>1, <2>2, OneMiddleware
  <2> QED BY <2>3, <1>0
<1>16. IsChain(Routes[16].chain)
  <2> DEFINE r == Use(NewRouter, "loginMiddleware")
  <2>1. Routes[16] = Handle(r, "GET", <<"login">>, "loginPage")
    BY DEF Routes
  <2>2. r.middlewares = <<"loginMiddleware">>
    BY UseMiddleware
  <2> HIDE DEF r
  <2>3. Routes[16].chain = <<"loginMiddleware", "loginPage">>
    BY <2>1, <2>2, OneMiddleware
  <2> QED BY <2>3, <1>0
<1>17. IsChain(Routes[17].chain)
  <2> DEFINE r == Protected(NewRouter)
  <2>1. Routes[17] = Handle(r, "GET", <<"dashboard">>, "dashboardPage")
    BY DEF Routes
  <2>2. r.middlewares = <<"userProtected">>
    BY UseMiddleware
  <2> HIDE DEF r
  <2>3. Routes[17].chain = <<"userProtected", "dashboardPage">>
    BY <2>1, <2>2, OneMiddleware
  <2> QED BY <2>3, <1>0
<1>18. IsChain(Routes[18].chain)
  <2> DEFINE r == Protected(NewRouter)
  <2>1. Routes[18] = Handle(r, "GET", <<"deployment", ":id">>, "deploymentPage")
    BY DEF Routes
  <2>2. r.middlewares = <<"userProtected">>
    BY UseMiddleware
  <2> HIDE DEF r
  <2>3. Routes[18].chain = <<"userProtected", "deploymentPage">>
    BY <2>1, <2>2, OneMiddleware
  <2> QED BY <2>3, <1>0
<1>19. IsChain(Routes[19].chain)
  <2> DEFINE r == Protected(NewRouter)
  <2>1. Routes[19] = Handle(r, "GET", <<"environment">>, "environmentPage")
    BY DEF Routes
  <2>2. r.middlewares = <<"userProtected">>
    BY UseMiddleware
  <2> HIDE DEF r
  <2>3. Routes[19].chain = <<"userProtected", "environmentPage">>
    BY <2>1, <2>2, OneMiddleware
  <2> QED BY <2>3, <1>0
<1>20. IsChain(Routes[20].chain)
  <2> DEFINE r == Protected(NewRouter)
  <2>1. Routes[20] = Handle(r, "GET", <<"tokens">>, "tokenPage")
    BY DEF Routes
  <2>2. r.middlewares = <<"userProtected">>
    BY UseMiddleware
  <2> HIDE DEF r
  <2>3. Routes[20].chain = <<"userProtected", "tokenPage">>
    BY <2>1, <2>2, OneMiddleware
  <2> QED BY <2>3, <1>0
<1>21. IsChain(Routes[21].chain)
  <2> DEFINE r == Use(Route(NewRouter, <<"setup">>), "secretMiddleware")
  <2>1. Routes[21] = Handle(r, "GET", <<"secret">>, "secretPage")
    BY DEF Routes
  <2>2. r.middlewares = <<"secretMiddleware">>
    BY UseMiddleware
  <2> HIDE DEF r
  <2>3. Routes[21].chain = <<"secretMiddleware", "secretPage">>
    BY <2>1, <2>2, OneMiddleware
  <2> QED BY <2>3, <1>0
<1>22. IsChain(Routes[22].chain)
  <2> DEFINE r == Use(Route(NewRouter, <<"setup">>), "userMiddleware")
  <2>1. Routes[22] = Handle(r, "GET", <<"user">>, "userPage")
    BY DEF Routes
  <2>2. r.middlewares = <<"userMiddleware">>
    BY UseMiddleware
  <2> HIDE DEF r
  <2>3. Routes[22].chain = <<"userMiddleware", "userPage">>
    BY <2>1, <2>2, OneMiddleware
  <2> QED BY <2>3, <1>0
<1> HIDE DEF Api, Htmx, Protected, Middlewares, Behind
<1> QED
  <2> TAKE i \in 1..22 \ {15}
  <2>1. CASE i \in 1..8
    <3>1. i = 1 \/ i = 2 \/ i = 3 \/ i = 4 \/ i = 5 \/ i = 6 \/ i = 7 \/ i = 8
      BY <2>1
    <3> QED BY <3>1, <1>1, <1>2, <1>3, <1>4, <1>5, <1>6, <1>7, <1>8
  <2>2. CASE i \in 9..14
    <3>1. i = 9 \/ i = 10 \/ i = 11 \/ i = 12 \/ i = 13 \/ i = 14
      BY <2>2
    <3> QED BY <3>1, <1>9, <1>10, <1>11, <1>12, <1>13, <1>14
  <2>3. CASE i \in 16..22
    <3>1. i = 16 \/ i = 17 \/ i = 18 \/ i = 19 \/ i = 20 \/ i = 21 \/ i = 22
      BY <2>3
    <3> QED BY <3>1, <1>16, <1>17, <1>18, <1>19, <1>20, <1>21, <1>22
  <2> QED BY <2>1, <2>2, <2>3

LEMMA MinIn == ASSUME NEW S \in SUBSET Nat, S # {} PROVE Min(S) \in S
<1> DEFINE Less == {ss \in Nat \X Nat : ss[1] < ss[2]}
<1>1. IsWellFoundedOn(Less, Nat)
  BY NatLessThanWellFounded DEF OpToRel
<1>2. \A x, y \in Nat : y < x => <<y, x>> \in Less
  OBVIOUS
<1> HIDE DEF Less
<1>3. PICK x \in S : \A y \in S : ~(<<y, x>> \in Less)
  BY ONLY WFMin, <1>1, S \in SUBSET Nat, S # {}
<1>4. \A y \in S : x <= y
  <2> TAKE y \in S
  <2>1. x \in Nat /\ y \in Nat
    OBVIOUS
  <2>2. ~(y < x)
    BY <1>2, <1>3, <2>1
  <2> QED BY <2>1, <2>2
<1> QED BY <1>4 DEF Min

LEMMA OnePart == ASSUME NEW part PROVE Len(<<part>> \o <<>>) = 1
<1> DEFINE a == <<part>>
           b == <<>>
<1>1. a \in Seq({part}) /\ b \in Seq({part}) /\ Len(a) = 1 /\ Len(b) = 0
  OBVIOUS
<1> HIDE DEF a, b
<1>2. Len(a \o b) = 1
  BY <1>1, ConcatProperties
<1> QED BY <1>2 DEF a, b

(* A path with a slash in it is never that of the route 15.                 *)
LEMMA DispatchChain ==
  ASSUME NEW method, NEW path, Len(path) # 1
  PROVE  IsChain(Dispatch(method, path))
<1> DEFINE hits == {i \in DOMAIN Routes :
                      Routes[i].method = method /\ Match(Routes[i].pattern, path)}
<1>1. DOMAIN Routes = 1..22
  BY DEF Routes
<1>2. 15 \notin hits
  <2>1. Routes[15] = Handle(NewRouter, "GET", <<>>, "root")
    BY DEF Routes
  <2>2. Routes[15].pattern = <<"">> \o <<>>
    <3>1. Routes[15].pattern = NewRouter.path \o <<>>
      BY <2>1, HandlePattern
    <3>2. NewRouter.path = <<"">>
      BY DEF NewRouter
    <3> QED BY ONLY <3>1, <3>2, Zenon
  <2>3. Len(Routes[15].pattern) = 1
    BY <2>2, OnePart
  <2>4. ~Match(Routes[15].pattern, path)
    <3>1. Len(Routes[15].pattern) # Len(path)
      BY ONLY <2>3, Len(path) # 1
    <3> QED BY ONLY <3>1, Zenon DEF Match
  <2> HIDE DEF Routes
  <2> QED BY ONLY <2>4, Zenon
<1>3. CASE hits = {}
  BY <1>3 DEF Dispatch, IsChain
<1>4. CASE hits # {}
  <2>1. Min(hits) \in hits
    BY <1>1, <1>4, MinIn, hits \in SUBSET Nat
  <2>2. Min(hits) \in 1..22 \ {15}
    BY <1>1, <1>2, <2>1
  <2> QED BY <1>4, <2>2, RouteChains DEF Dispatch
<1> QED BY <1>3, <1>4

(* What tells the patterns of the routes for GET apart: their lengths, and  *)
(* the parts after the first one, which is empty.                           *)
LEMMA RouterPaths ==
  ASSUME NEW m, NEW p
  PROVE  /\ NewRouter.path = <<"">>
         /\ Use(NewRouter, m).path = <<"">>
         /\ Use(Route(NewRouter, p), m).path = <<"">> \o p
  BY DEF Use, Route, NewRouter

LEMMA NestedPath ==
  ASSUME NEW m, NEW p, NEW q
  PROVE  Use(Route(Route(NewRouter, p), q), m).path = (NewRouter.path \o p) \o q
  BY DEF Use, Route, NewRouter

LEMMA OnePartMore ==
  ASSUME NEW e, NEW a PROVE Len(<<e>> \o <<a>>) = 2 /\ (<<e>> \o <<a>>)[2] = a
  OBVIOUS

LEMMA TwoPartsMore ==
  ASSUME NEW e, NEW a, NEW b
  PROVE  (<<e>> \o <<a, b>>)[2] = a
  OBVIOUS

LEMMA TwiceLength == ASSUME NEW e, NEW a, NEW b PROVE Len((<<e>> \o <<a>>) \o <<b>>) = 3
<1> DEFINE q == <<e>> \o <<a>>
           p == q \o <<b>>
<1>1. q = <<e>> \o <<a>> /\ p = q \o <<b>>
  OBVIOUS
<1> HIDE DEF p, q
<1>2. Len(p) = 3
  BY ONLY <1>1
<1> QED BY ONLY <1>2, Zenon DEF p, q

LEMMA TwiceSecond == ASSUME NEW e, NEW a, NEW b PROVE ((<<e>> \o <<a>>) \o <<b>>)[2] = a
<1> DEFINE q == <<e>> \o <<a>>
           p == q \o <<b>>
<1>1. q = <<e>> \o <<a>> /\ p = q \o <<b>>
  OBVIOUS
<1> HIDE DEF p, q
<1>2. p[2] = a
  BY ONLY <1>1
<1> QED BY ONLY <1>2, Zenon DEF p, q

LEMMA TwiceThird == ASSUME NEW e, NEW a, NEW b PROVE ((<<e>> \o <<a>>) \o <<b>>)[3] = b
<1> DEFINE q == <<e>> \o <<a>>
           p == q \o <<b>>
<1>1. q = <<e>> \o <<a>> /\ p = q \o <<b>>
  OBVIOUS
<1> HIDE DEF p, q
<1>2. p[3] = b
  BY ONLY <1>1
<1> QED BY ONLY <1>2, Zenon DEF p, q

LEMMA LongPatterns ==
  ASSUME NEW e, NEW a, NEW b, NEW c, NEW d
  PROVE  /\ Len((<<e>> \o <<a, b>>) \o <<c>>) = 4
         /\ Len(((<<e>> \o <<a>>) \o <<b>>) \o <<c, d>>) = 5
  OBVIOUS

LEMMA Joined ==
  ASSUME NEW S, NEW e \in S, NEW a \in S, NEW b \in S
  PROVE  (<<e>> \o <<a>>) \o <<b>> \in Seq(S)
<1> DEFINE x == <<e>> \o <<a>>
           y == <<b>>
<1>1. x \in Seq(S) /\ y \in Seq(S)
  OBVIOUS
<1> HIDE DEF x, y
<1>2. x \o y \in Seq(S)
  BY <1>1
<1> QED BY <1>2 DEF x, y

LEMMA TwicePartNoMore ==
  ASSUME NEW e, NEW a, NEW b PROVE (((<<e>> \o <<a>>) \o <<b>>) \o <<>>)[2] = a
<1> DEFINE q == <<e>> \o <<a>>
           p == q \o <<b>>
<1>1. p \in Seq({e, a, b})
  BY Joined
<1>2. q = <<e>> \o <<a>> /\ p = q \o <<b>>
  OBVIOUS
<1> HIDE DEF p, q
<1>3. p[2] = a
  BY ONLY <1>2
<1>4. p \o <<>> = p
  BY ONLY <1>1, ConcatEmptySeq, Zenon
<1> QED BY ONLY <1>3, <1>4, Zenon DEF p, q

LEMMA GetRoutes ==
  /\ \A i \in 1..22 : Routes[i].method = "GET" => i \in {1, 10, 11} \cup 15..22
  /\ Len(Routes[1].pattern) = 4 /\ Len(Routes[11].pattern) = 5 /\ Len(Routes[15].pattern) = 1
  /\ Routes[10].pattern[2] = "htmx"
  /\ Len(Routes[16].pattern) = 2 /\ Routes[16].pattern[2] = "login"
  /\ Len(Routes[17].pattern) = 2 /\ Routes[17].pattern[2] = "dashboard"
  /\ Routes[18].pattern[2] = "deployment"
  /\ Len(Routes[19].pattern) = 2 /\ Routes[19].pattern[2] = "environment"
  /\ Len(Routes[20].pattern) = 2 /\ Routes[20].pattern[2] = "tokens"
  /\ Len(Routes[21].pattern) = 3
  /\ Routes[21].pattern[2] = "setup" /\ Routes[21].pattern[3] = "secret"
  /\ Len(Routes[22].pattern) = 3
  /\ Routes[22].pattern[2] = "setup" /\ Routes[22].pattern[3] = "user"
<1>m. ASSUME NEW r, NEW method, NEW path, NEW h PROVE Handle(r, method, path, h).method = method
  BY DEF Handle
<1>1. \A i \in 2..9 : Routes[i].method # "GET"
  <2> TAKE i \in 2..9
  <2>1. i = 2 \/ i = 3 \/ i = 4 \/ i = 5 \/ i = 6 \/ i = 7 \/ i = 8 \/ i = 9
    OBVIOUS
  <2> QED BY <2>1, <1>m DEF Routes
<1>2. \A i \in 12..14 : Routes[i].method # "GET"
  <2> TAKE i \in 12..14
  <2>1. i = 12 \/ i = 13 \/ i = 14
    OBVIOUS
  <2> QED BY <2>1, <1>m DEF Routes
<1>3. Len(Routes[1].pattern) = 4
  <2> DEFINE r == Use(Api, "apiMiddleware")
  <2>1. Routes[1] = Handle(r, "GET", <<"ping">>, "ping")
    BY DEF Routes
  <2>2. r.path = <<"">> \o <<"api", "v1">>
    BY RouterPaths, Zenon DEF Api
  <2> HIDE DEF r
  <2>3. Routes[1].pattern = r.path \o <<"ping">>
    BY ONLY <2>1, HandlePattern, Zenon
  <2>4. Len((<<"">> \o <<"api", "v1">>) \o <<"ping">>) = 4
    BY ONLY LongPatterns, Zenon
  <2> QED BY ONLY <2>2, <2>3, <2>4, Zenon
<1>10. Routes[10].pattern[2] = "htmx"
  <2> DEFINE r == Protected(Route(Htmx, <<"deployment">>))
  <2>1. Routes[10] = Handle(r, "GET", <<>>, "deploymentHtmxRoute")
    BY DEF Routes
  <2>2. r.path = (<<"">> \o <<"htmx">>) \o <<"deployment">>
    <3>1. r = Use(Route(Route(NewRouter, <<"htmx">>), <<"deployment">>), "userProtected")
      BY Zenon DEF Htmx, Protected
    <3> HIDE DEF r
    <3> DEFINE a == <<"htmx">>
               b == <<"deployment">>
               m == "userProtected"
    <3> HIDE DEF a, b, m
    <3>2. Use(Route(Route(NewRouter, a), b), m).path = (NewRouter.path \o a) \o b
      BY ONLY NestedPath
    <3> QED BY ONLY <3>1, <3>2, RouterPaths, Zenon DEF a, b, m
  <2> HIDE DEF r
  <2>3. Routes[10].pattern = r.path \o <<>>
    BY ONLY <2>1, HandlePattern, Zenon
  <2>4. (((<<"">> \o <<"htmx">>) \o <<"deployment">>) \o <<>>)[2] = "htmx"
    BY ONLY TwicePartNoMore, Zenon
  <2> QED BY ONLY <2>2, <2>3, <2>4, Zenon
<1>11. Len(Routes[11].pattern) = 5
  <2> DEFINE r == Protected(Route(Htmx, <<"deployment">>))
  <2>1. Routes[11] = Handle(r, "GET", <<":id", "status">>, "deploymentStatusHtmxRoute")
    BY DEF Routes
  <2>2. r.path = (<<"">> \o <<"htmx">>) \o <<"deployment">>
    <3>1. r = Use(Route(Route(NewRouter, <<"htmx">>), <<"deployment">>), "userProtected")
      BY Zenon DEF Htmx, Protected
    <3> HIDE DEF r
    <3> DEFINE a == <<"htmx">>
               b == <<"deployment">>
               m == "userProtected"
    <3> HIDE DEF a, b, m
    <3>2. Use(Route(Route(NewRouter, a), b), m).path = (NewRouter.path \o a) \o b
      BY ONLY NestedPath
    <3> QED BY ONLY <3>1, <3>2, RouterPaths, Zenon DEF a, b, m
  <2> HIDE DEF r
  <2>3. Routes[11].pattern = r.path \o <<":id", "status">>
    BY ONLY <2>1, HandlePattern, Zenon
  <2>4. Len(((<<"">> \o <<"htmx">>) \o <<"deployment">>) \o <<":id", "status">>) = 5
    BY ONLY LongPatterns, Zenon
  <2> QED BY ONLY <2>2, <2>3, <2>4, Zenon
<1>15. Len(Routes[15].pattern) = 1
  <2>1. Routes[15] = Handle(NewRouter, "GET", <<>>, "root")
    BY DEF Routes
  <2>2. NewRouter.path = <<"">>
    BY RouterPaths
  <2>3. Routes[15].pattern = NewRouter.path \o <<>>
    BY ONLY <2>1, HandlePattern, Zenon
  <2>4. Len(<<"">> \o <<>>) = 1
    BY ONLY OnePart, Zenon
  <2> QED BY ONLY <2>2, <2>3, <2>4, Zenon
<1>16. Len(Routes[16].pattern) = 2 /\ Routes[16].pattern[2] = "login"
  <2> DEFINE r == Use(NewRouter, "loginMiddleware")
  <2>1. Routes[16] = Handle(r, "GET", <<"login">>, "loginPage")
    BY DEF Routes
  <2>2. r.path = <<"">>
    BY RouterPaths, Zenon
  <2> HIDE DEF r
  <2>3. Routes[16].pattern = r.path \o <<"login">>
    BY ONLY <2>1, HandlePattern, Zenon
  <2>4. Len(<<"">> \o <<"login">>) = 2 /\ (<<"">> \o <<"login">>)[2] = "login"
    BY ONLY OnePartMore, Zenon
  <2> QED BY ONLY <2>2, <2>3, <2>4, Zenon
<1>17. Len(Routes[17].pattern) = 2 /\ Routes[17].pattern[2] = "dashboard"
  <2> DEFINE r == Protected(NewRouter)
  <2>1. Routes[17] = Handle(r, "GET", <<"dashboard">>, "dashboardPage")
    BY DEF Routes
  <2>2. r.path = <<"">>
    BY RouterPaths, Zenon DEF Protected
  <2> HIDE DEF r
  <2>3. Routes[17].pattern = r.path \o <<"dashboard">>
    BY ONLY <2>1, HandlePattern, Zenon
  <2>4. Len(<<"">> \o <<"dashboard">>) = 2 /\ (<<"">> \o <<"dashboard">>)[2] = "dashboard"
    BY ONLY OnePartMore, Zenon
  <2> QED BY ONLY <2>2, <2>3, <2>4, Zenon
<1>18. Routes[18].pattern[2] = "deployment"
  <2> DEFINE r == Protected(NewRouter)
  <2>1. Routes[18] = Handle(r, "GET", <<"deployment", ":id">>, "deploymentPage")
    BY DEF Routes
  <2>2. r.path = <<"">>
    BY RouterPaths, Zenon DEF Protected
  <2> HIDE DEF r
  <2>3. Routes[18].pattern = r.path \o <<"deployment", ":id">>
    BY ONLY <2>1, HandlePattern, Zenon
  <2>4. (<<"">> \o <<"deployment", ":id">>)[2] = "deployment"
    BY ONLY TwoPartsMore, Zenon
  <2> QED BY ONLY <2>2, <2>3, <2>4, Zenon
<1>19. Len(Routes[19].pattern) = 2 /\ Routes[19].pattern[2] = "environment"
  <2> DEFINE r == Protected(NewRouter)
  <2>1. Routes[19] = Handle(r, "GET", <<"environment">>, "environmentPage")
    BY DEF Routes
  <2>2. r.path = <<"">>
    BY RouterPaths, Zenon DEF Protected
  <2> HIDE DEF r
  <2>3. Routes[19].pattern = r.path \o <<"environment">>
    BY ONLY <2>1, HandlePattern, Zenon
  <2>4. Len(<<"">> \o <<"environment">>) = 2 /\ (<<"">> \o <<"environment">>)[2] = "environment"
    BY ONLY OnePartMore, Zenon
  <2> QED BY ONLY <2>2, <2>3, <2>4, Zenon
<1>20. Len(Routes[20].pattern) = 2 /\ Routes[20].pattern[2] = "tokens"
  <2> DEFINE r == Protected(NewRouter)
  <2>1. Routes[20] = Handle(r, "GET", <<"tokens">>, "tokenPage")
    BY DEF Routes
  <2>2. r.path = <<"">>
    BY RouterPaths, Zenon DEF Protected
  <2> HIDE DEF r
  <2>3. Routes[20].pattern = r.path \o <<"tokens">>
    BY ONLY <2>1, HandlePattern, Zenon
  <2>4. Len(<<"">> \o <<"tokens">>) = 2 /\ (<<"">> \o <<"tokens">>)[2] = "tokens"
    BY ONLY OnePartMore, Zenon
  <2> QED BY ONLY <2>2, <2>3, <2>4, Zenon
<1>21. /\ Len(Routes[21].pattern) = 3
       /\ Routes[21].pattern[2] = "setup" /\ Routes[21].pattern[3] = "secret"
  <2> DEFINE r == Use(Route(NewRouter, <<"setup">>), "secretMiddleware")
  <2>1. Routes[21] = Handle(r, "GET", <<"secret">>, "secretPage")
    BY DEF Routes
  <2>2. r.path = <<"">> \o <<"setup">>
    BY RouterPaths, Zenon
  <2> HIDE DEF r
  <2>3. Routes[21].pattern = r.path \o <<"secret">>
    BY ONLY <2>1, HandlePattern, Zenon
  <2>4. Len((<<"">> \o <<"setup">>) \o <<"secret">>) = 3
    BY ONLY TwiceLength, Zenon
  <2>5. ((<<"">> \o <<"setup">>) \o <<"secret">>)[2] = "setup"
    BY ONLY TwiceSecond, Zenon
  <2>6. ((<<"">> \o <<"setup">>) \o <<"secret">>)[3] = "secret"
    BY ONLY TwiceThird
  <2> QED BY ONLY <2>2, <2>3, <2>4, <2>5, <2>6, Zenon
<1>22. /\ Len(Routes[22].pattern) = 3
       /\ Routes[22].pattern[2] = "setup" /\ Routes[22].pattern[3] = "user"
  <2> DEFINE r == Use(Route(NewRouter, <<"setup">>), "userMiddleware")
  <2>1. Routes[22] = Handle(r, "GET", <<"user">>, "userPage")
    BY DEF Routes
  <2>2. r.path = <<"">> \o <<"setup">>
    BY RouterPaths, Zenon
  <2> HIDE DEF r
  <2>3. Routes[22].pattern = r.path \o <<"user">>
    BY ONLY <2>1, HandlePattern, Zenon
  <2>4. Len((<<"">> \o <<"setup">>) \o <<"user">>) = 3
    BY ONLY TwiceLength, Zenon
  <2>5. ((<<"">> \o <<"setup">>) \o <<"user">>)[2] = "setup"
    BY ONLY TwiceSecond, Zenon
  <2>6. ((<<"">> \o <<"setup">>) \o <<"user">>)[3] = "user"
    BY ONLY TwiceThird
  <2> QED BY ONLY <2>2, <2>3, <2>4, <2>5, <2>6, Zenon
<1>23. \A i \in 1..22 : i \in 2..9 \/ i \in 12..14 \/ i \in {1, 10, 11} \cup 15..22
  OBVIOUS
<1> HIDE DEF Routes
<1> QED BY ONLY <1>1, <1>2, <1>3, <1>10, <1>11, <1>15, <1>16, <1>17, <1>18, <1>19, <1>20,
           <1>21, <1>22, <1>23, Zenon

(* The pages that a redirect sends to, and the middleware in front of them. *)
LEMMA PageChains ==
  /\ Routes[16].method = "GET" /\ Routes[16].chain = <<"loginMiddleware", "loginPage">>
  /\ Routes[17].method = "GET" /\ Routes[17].chain = <<"userProtected", "dashboardPage">>
  /\ Routes[21].method = "GET" /\ Routes[21].chain = <<"secretMiddleware", "secretPage">>
  /\ Routes[22].method = "GET" /\ Routes[22].chain = <<"userMiddleware", "userPage">>
<1>m. ASSUME NEW r, NEW method, NEW path, NEW h PROVE Handle(r, method, path, h).method = method
  BY DEF Handle
<1>16. Routes[16].method = "GET" /\ Routes[16].chain = <<"loginMiddleware", "loginPage">>
  <2> DEFINE r == Use(NewRouter, "loginMiddleware")
  <2>1. Routes[16] = Handle(r, "GET", <<"login">>, "loginPage")
    BY DEF Routes
  <2>2. r.middlewares = <<"loginMiddleware">>
    BY UseMiddleware DEF Protected
  <2> HIDE DEF r
  <2> QED BY <2>1, <2>2, <1>m, OneMiddleware
<1>17. Routes[17].method = "GET" /\ Routes[17].chain = <<"userProtected", "dashboardPage">>
  <2> DEFINE r == Protected(NewRouter)
  <2>1. Routes[17] = Handle(r, "GET", <<"dashboard">>, "dashboardPage")
    BY DEF Routes
  <2>2. r.middlewares = <<"userProtected">>
    BY UseMiddleware DEF Protected
  <2> HIDE DEF r
  <2> QED BY <2>1, <2>2, <1>m, OneMiddleware
<1>21. Routes[21].method = "GET" /\ Routes[21].chain = <<"secretMiddleware", "secretPage">>
  <2> DEFINE r == Use(Route(NewRouter, <<"setup">>), "secretMiddleware")
  <2>1. Routes[21] = Handle(r, "GET", <<"secret">>, "secretPage")
    BY DEF Routes
  <2>2. r.middlewares = <<"secretMiddleware">>
    BY UseMiddleware DEF Protected
  <2> HIDE DEF r
  <2> QED BY <2>1, <2>2, <1>m, OneMiddleware
<1>22. Routes[22].method = "GET" /\ Routes[22].chain = <<"userMiddleware", "userPage">>
  <2> DEFINE r == Use(Route(NewRouter, <<"setup">>), "userMiddleware")
  <2>1. Routes[22] = Handle(r, "GET", <<"user">>, "userPage")
    BY DEF Routes
  <2>2. r.middlewares = <<"userMiddleware">>
    BY UseMiddleware DEF Protected
  <2> HIDE DEF r
  <2> QED BY <2>1, <2>2, <1>m, OneMiddleware
<1> QED BY ONLY <1>16, <1>17, <1>21, <1>22, Zenon

LEMMA OnlyHit ==
  ASSUME NEW path, NEW k \in 1..22, Routes[k].method = "GET", Match(Routes[k].pattern, path),
         \A i \in 1..22 \ {k} : Routes[i].method = "GET" => ~Match(Routes[i].pattern, path)
  PROVE  Dispatch("GET", path) = Routes[k].chain
<1> DEFINE hits == {i \in DOMAIN Routes :
                      Routes[i].method = "GET" /\ Match(Routes[i].pattern, path)}
<1>1. DOMAIN Routes = 1..22
  BY DEF Routes
<1>2. hits = {k}
  BY <1>1
<1>3. Min(hits) = k
  <2>1. Min(hits) \in hits
    BY <1>2, MinIn
  <2> QED BY <1>2, <2>1
<1> QED BY <1>2, <1>3 DEF Dispatch

LEMMA MatchParts ==
  ASSUME NEW p, NEW q, Match(p, q), Len(q) \in {2, 3}
  PROVE  /\ Len(p) = Len(q)
         /\ p[2] \in {":slug", ":id", q[2]}
         /\ Len(q) = 3 => p[3] \in {":slug", ":id", q[3]}
  BY DEF Match, Params

LEMMA PathParts ==
  ASSUME NEW e, NEW a, NEW b
  PROVE  /\ Len(<<e, a>>) = 2 /\ <<e, a>>[2] = a
         /\ Len(<<e, a, b>>) = 3 /\ <<e, a, b>>[2] = a /\ <<e, a, b>>[3] = b
  OBVIOUS

LEMMA MatchedBy ==
  ASSUME NEW path, Len(path) \in {2, 3}, NEW i \in 1..22, Routes[i].method = "GET",
         Match(Routes[i].pattern, path)
  PROVE  \/ i = 10 /\ path[2] = "htmx"
         \/ i = 16 /\ path[2] = "login"
         \/ i = 17 /\ path[2] = "dashboard"
         \/ i = 18 /\ path[2] = "deployment"
         \/ i = 19 /\ path[2] = "environment"
         \/ i = 20 /\ path[2] = "tokens"
         \/ i = 21 /\ path[2] = "setup" /\ path[3] = "secret"
         \/ i = 22 /\ path[2] = "setup" /\ path[3] = "user"
<1> DEFINE p == Routes[i].pattern
<1>1. i \in {1, 10, 11, 15, 16, 17, 18, 19, 20, 21, 22}
  <2>1. i \in {1, 10, 11} \cup 15..22
    BY GetRoutes
  <2> QED BY <2>1
<1>2. /\ Len(p) = Len(path)
      /\ p[2] \in {":slug", ":id", path[2]}
      /\ Len(path) = 3 => p[3] \in {":slug", ":id", path[3]}
  <2> HIDE DEF p
  <2>1. Match(p, path)
    BY DEF p
  <2> QED BY <2>1, MatchParts
<1>3. i \notin {1, 11, 15}
  <2>1. Len(p) = 2 \/ Len(p) = 3
    BY <1>2
  <2>2. Len(Routes[1].pattern) = 4 /\ Len(Routes[11].pattern) = 5 /\ Len(Routes[15].pattern) = 1
    BY GetRoutes, Zenon
  <2> QED BY ONLY <2>1, <2>2
<1>4. CASE i \in {10, 18}
  BY <1>2, <1>4, GetRoutes
<1>5. CASE i \in {16, 17, 19, 20}
  <2>1. /\ Routes[16].pattern[2] = "login" /\ Routes[17].pattern[2] = "dashboard"
        /\ Routes[19].pattern[2] = "environment" /\ Routes[20].pattern[2] = "tokens"
    BY GetRoutes, Zenon
  <2>2. p[2] \in {":slug", ":id", path[2]}
    BY <1>2, Zenon
  <2>3. CASE i = 16
    BY ONLY <2>1, <2>2, <2>3
  <2>4. CASE i = 17
    BY ONLY <2>1, <2>2, <2>4
  <2>5. CASE i = 19
    BY ONLY <2>1, <2>2, <2>5
  <2>6. CASE i = 20
    BY ONLY <2>1, <2>2, <2>6
  <2> QED BY ONLY <1>5, <2>3, <2>4, <2>5, <2>6
<1>6. CASE i \in {21, 22}
  <2>1. /\ Len(p) = 3 /\ p[2] = "setup"
        /\ i = 21 => p[3] = "secret"
        /\ i = 22 => p[3] = "user"
    BY <1>6, GetRoutes
  <2>2. Len(path) = 3
    BY <1>2, <2>1
  <2> HIDE DEF p
  <2>3. path[2] = "setup"
    BY <1>2, <2>1
  <2>4. (i = 21 => path[3] = "secret") /\ (i = 22 => path[3] = "user")
    BY <1>2, <2>1, <2>2
  <2> QED BY <1>6, <2>3, <2>4
<1>7. i \in {10, 18} \/ i \in {16, 17, 19, 20} \/ i \in {21, 22}
  BY ONLY <1>1, <1>3
<1> QED BY ONLY <1>7, <1>4, <1>5, <1>6

LEMMA PageRoutes ==
  /\ Dispatch("GET", <<"", "login">>) = <<"loginMiddleware", "loginPage">>
  /\ Dispatch("GET", <<"", "dashboard">>) = <<"userProtected", "dashboardPage">>
  /\ Dispatch("GET", <<"", "setup", "secret">>) = <<"secretMiddleware", "secretPage">>
  /\ Dispatch("GET", <<"", "setup", "user">>) = <<"userMiddleware", "userPage">>
<1>1. ASSUME NEW path, Len(path) = 2, path[2] = "login"
      PROVE  Dispatch("GET", path) = <<"loginMiddleware", "loginPage">>
  <2>1. Match(Routes[16].pattern, path)
    BY <1>1, GetRoutes DEF Match
  <2>2. \A i \in 1..22 \ {16} : Routes[i].method = "GET" => ~Match(Routes[i].pattern, path)
    BY <1>1, MatchedBy
  <2>3. 16 \in 1..22 /\ Routes[16].method = "GET"
    BY PageChains
  <2>4. Dispatch("GET", path) = Routes[16].chain
    BY ONLY <2>1, <2>2, <2>3, OnlyHit
  <2> QED BY <2>4, PageChains
<1>2. ASSUME NEW path, Len(path) = 2, path[2] = "dashboard"
      PROVE  Dispatch("GET", path) = <<"userProtected", "dashboardPage">>
  <2>1. Match(Routes[17].pattern, path)
    BY <1>2, GetRoutes DEF Match
  <2>2. \A i \in 1..22 \ {17} : Routes[i].method = "GET" => ~Match(Routes[i].pattern, path)
    BY <1>2, MatchedBy
  <2>3. 17 \in 1..22 /\ Routes[17].method = "GET"
    BY PageChains
  <2>4. Dispatch("GET", path) = Routes[17].chain
    BY ONLY <2>1, <2>2, <2>3, OnlyHit
  <2> QED BY <2>4, PageChains
<1>3. ASSUME NEW path, Len(path) = 3, path[2] = "setup", path[3] = "secret"
      PROVE  Dispatch("GET", path) = <<"secretMiddleware", "secretPage">>
  <2>1. Match(Routes[21].pattern, path)
    BY <1>3, GetRoutes DEF Match
  <2>2. \A i \in 1..22 \ {21} : Routes[i].method = "GET" => ~Match(Routes[i].pattern, path)
    BY <1>3, MatchedBy
  <2>3. 21 \in 1..22 /\ Routes[21].method = "GET"
    BY PageChains
  <2>4. Dispatch("GET", path) = Routes[21].chain
    BY ONLY <2>1, <2>2, <2>3, OnlyHit
  <2> QED BY <2>4, PageChains
<1>4. ASSUME NEW path, Len(path) = 3, path[2] = "setup", path[3] = "user"
      PROVE  Dispatch("GET", path) = <<"userMiddleware", "userPage">>
  <2>1. Match(Routes[22].pattern, path)
    BY <1>4, GetRoutes DEF Match
  <2>2. \A i \in 1..22 \ {22} : Routes[i].method = "GET" => ~Match(Routes[i].pattern, path)
    BY <1>4, MatchedBy
  <2>3. 22 \in 1..22 /\ Routes[22].method = "GET"
    BY PageChains
  <2>4. Dispatch("GET", path) = Routes[22].chain
    BY ONLY <2>1, <2>2, <2>3, OnlyHit
  <2> QED BY <2>4, PageChains
<1>5. Len(<<"", "login">>) = 2 /\ <<"", "login">>[2] = "login"
  BY ONLY PathParts
<1>6. Len(<<"", "dashboard">>) = 2 /\ <<"", "dashboard">>[2] = "dashboard"
  BY ONLY PathParts
<1>7. /\ Len(<<"", "setup", "secret">>) = 3
      /\ <<"", "setup", "secret">>[2] = "setup" /\ <<"", "setup", "secret">>[3] = "secret"
  BY ONLY PathParts
<1>8. /\ Len(<<"", "setup", "user">>) = 3
      /\ <<"", "setup", "user">>[2] = "setup" /\ <<"", "setup", "user">>[3] = "user"
  BY ONLY PathParts
<1> QED BY ONLY <1>1, <1>2, <1>3, <1>4, <1>5, <1>6, <1>7, <1>8, Zenon

----------------------------------------------------------------------------
(***************************************************************************)
(* The inductive invariant: what is true of each row, and of each tab.     *)
(***************************************************************************)

Targets ==
  {<<"", "setup", "secret">>, <<"", "setup", "user">>, <<"", "login">>, <<"", "dashboard">>}

Request(n) ==
  [next : Waits, path : {<<>>} \cup Targets, session : 0..n, user : Name \cup {None},
   slug : Slug \cup {None}, overtaken : BOOLEAN]

InHand(t) == ~At(t, "visit") /\ ~At(t, "follow")

(* A session was opened with the secret or a login, and is that of a user   *)
(* who was made or logged in within it.                                     *)
GoodSession(x) ==
  /\ x \in Session
  /\ x.user # None => x.user \in users /\ x.user \in x.names
  /\ x.proof # "credentials" => x.proof # None /\ x.proof = kv

RowInv ==
  /\ users \subseteq Name
  /\ sessions \in Seq(Session)
  /\ \A s \in 1..Len(sessions) : GoodSession(sessions[s])
  /\ environments \in [Name \X Slug -> Nat]
  /\ tokens \in [Name -> Nat]
  /\ \A owner \in Name : tokens[owner] > 0 => owner \in users
  /\ jar \in [Tab -> Browser]
  /\ cookie \in [Browser -> 0..Len(sessions)]

(* What a request has been given is there until it is answered.             *)
TabInv(t) ==
  /\ request[t] \in Request(Len(sessions))
  /\ InHand(t) => phase[Serves[t]] = "serving"
  /\ At(t, "follow") => request[t].path \in Targets
  /\ At(t, "secretHtmxRoute") => secret[Serves[t]] # None
  /\ At(t, "updateUserId") =>
       /\ request[t].user \in users
       /\ Found(request[t].session) => request[t].user \in sessions[request[t].session].names
  /\ At(t, "newEnvironment") => request[t].slug \in Slug
  /\ request[t].next \in UsesUser => request[t].user \in users
  /\ request[t].next \in UsesSession => request[t].session # 0

AccountsInv ==
  /\ StartupInv
  /\ RowInv
  /\ request = [t \in Tab |-> request[t]]
  /\ \A t \in Tab : TabInv(t)
  /\ DuplicatesOverlap

(* A request takes nothing from the others but what has ended.              *)
RowsGrow ==
  /\ users \subseteq users'
  /\ Len(sessions) <= Len(sessions')
  /\ \A s \in 1..Len(sessions) :
       sessions'[s].live => sessions[s].live /\ sessions[s].names \subseteq sessions'[s].names

SameRequest(p) == \E b \in BOOLEAN : request'[p] = [request[p] EXCEPT !.overtaken = b]

Effect(t) ==
  /\ UNCHANGED <<schema, kv, lock, replica, crashes>>
  /\ kv # None \/ users' = users
  /\ RowsGrow
  /\ RowInv'
  /\ request' = [p \in Tab |-> request'[p]]
  /\ TabInv(t)'
  /\ \A p \in Tab \ {t} : SameRequest(p)

LEMMA TargetsAre == Targets = {r[2] : r \in Redirects}
<1>1. Redirects = {"GET"} \X Targets
  BY DEF Targets, Redirects
<1> HIDE DEF Targets
<1>2. ASSUME NEW x \in Targets PROVE \E r \in Redirects : r[2] = x
  <2>1. <<"GET", x>> \in Redirects /\ <<"GET", x>>[2] = x
    BY <1>1
  <2> QED BY <2>1
<1> QED BY <1>1, <1>2

LEMMA IdleRequest == \A n \in Nat : Idle \in Request(n)
<1> TAKE n \in Nat
<1> DEFINE e == <<>>
           P == {e} \cup Targets
<1> HIDE DEF e
<1>1. e \in P /\ "visit" \in Waits
  BY DEF Waits
<1> HIDE DEF P
<1>2. [next |-> "visit", path |-> e, session |-> 0, user |-> None, slug |-> None,
       overtaken |-> FALSE]
        \in [next : Waits, path : P, session : 0..n, user : Name \cup {None},
            slug : Slug \cup {None}, overtaken : BOOLEAN]
  BY <1>1
<1> QED BY ONLY <1>2, Zenon DEF P, e, Idle, Request

LEMMA InvType == AccountsInv => TypeOK
<1> SUFFICES ASSUME AccountsInv PROVE TypeOK
  OBVIOUS
<1>1. request \in [Tab -> Request(Len(sessions))]
  BY DEF AccountsInv, TabInv
<1>2. request \in [Tab ->
       [next : Waits, path : {<<>>} \cup {r[2] : r \in Redirects},
        session : 0..Len(sessions), user : Name \cup {None}, slug : Slug \cup {None},
        overtaken : BOOLEAN]]
  BY ONLY <1>1, TargetsAre DEF Request
<1> QED BY <1>2 DEF AccountsInv, StartupInv, RowInv, TypeOK

LEMMA InitAccounts == Init => AccountsInv
<1> SUFFICES ASSUME Init PROVE AccountsInv
  OBVIOUS
<1>1. StartupInv
  BY InitStartup DEF Init
<1>2. sessions = <<>> /\ Len(sessions) = 0
  BY DEF Init, AccountsInit
<1>3. RowInv
  <2>1. sessions \in Seq(Session) /\ \A s \in 1..Len(sessions) : GoodSession(sessions[s])
    BY <1>2
  <2>2. users \subseteq Name /\ environments \in [Name \X Slug -> Nat]
    BY DEF Init, StartupInit, AccountsInit
  <2>3. tokens \in [Name -> Nat] /\ \A owner \in Name : ~(tokens[owner] > 0)
    BY DEF Init, AccountsInit
  <2>4. jar \in [Tab -> Browser] /\ cookie \in [Browser -> 0..Len(sessions)]
    BY <1>2 DEF Init, AccountsInit
  <2> QED BY <2>1, <2>2, <2>3, <2>4 DEF RowInv
<1>4. request = [t \in Tab |-> Idle]
  BY DEF Init, AccountsInit
<1>5. \A t \in Tab : TabInv(t)
  <2> TAKE t \in Tab
  <2>1. request[t] = Idle
    BY <1>4
  <2>2. Idle \in Request(0)
    BY IdleRequest
  <2>3. Idle.next = "visit"
    BY DEF Idle
  <2> QED BY ONLY <1>2, <2>1, <2>2, <2>3 DEF TabInv, At, InHand, UsesUser, UsesSession
<1>6. DuplicatesOverlap
  BY <1>4 DEF DuplicatesOverlap, PastUsersCheck, Idle, At
<1> QED BY <1>1, <1>3, <1>4, <1>5, <1>6 DEF AccountsInv

(* What the other requests have been given stays.                           *)
LEMMA OtherTabs ==
  ASSUME RowInv, RowInv', RowsGrow, NEW p \in Tab, TabInv(p), SameRequest(p),
         UNCHANGED <<phase, secret>>
  PROVE  TabInv(p)'
<1>1. Len(sessions) \in Nat /\ Len(sessions') \in Nat /\ Len(sessions) <= Len(sessions')
  BY DEF RowInv, RowsGrow
<1>2. PICK b \in BOOLEAN : request'[p] = [request[p] EXCEPT !.overtaken = b]
  BY DEF SameRequest
<1>3. request[p] \in Request(Len(sessions))
  BY DEF TabInv
<1>4. /\ request'[p].next = request[p].next /\ request'[p].path = request[p].path
      /\ request'[p].session = request[p].session /\ request'[p].user = request[p].user
      /\ request'[p].slug = request[p].slug
      /\ request'[p] \in Request(Len(sessions'))
  BY ONLY <1>1, <1>2, <1>3 DEF Request
<1>5. Found(request[p].session)' =>
        /\ Found(request[p].session)
        /\ sessions[request[p].session].names \subseteq sessions'[request[p].session].names
  BY <1>1, <1>3, <1>4 DEF Found, RowsGrow, Request
<1>6. users \subseteq users' /\ users \subseteq Name
  BY DEF RowsGrow, RowInv
<1> QED BY <1>4, <1>5, <1>6 DEF TabInv, InHand, At, Found

LEMMA EffectKeeps ==
  ASSUME AccountsInv, NEW t \in Tab, Effect(t), DuplicatesOverlap'
  PROVE  AccountsInv'
<1>1. StartupInv'
  BY ServeStartup DEF AccountsInv, Effect, RowsGrow
<1>2. \A p \in Tab : TabInv(p)'
  <2> TAKE p \in Tab
  <2>1. CASE p = t
    BY <2>1 DEF Effect
  <2>2. CASE p # t
    BY <2>2, OtherTabs DEF AccountsInv, Effect, replica
  <2> QED BY <2>1, <2>2
<1> QED BY <1>1, <1>2 DEF AccountsInv, Effect

LEMMA PutTab ==
  ASSUME AccountsInv, NEW t \in Tab, NEW q, Put(t, q)
  PROVE  /\ request'[t] = q
         /\ request' = [p \in Tab |-> request'[p]]
         /\ \A p \in Tab \ {t} : SameRequest(p)
<1>1. request' = [request EXCEPT ![t] = q] /\ request = [p \in Tab |-> request[p]]
  BY DEF Put, AccountsInv
<1>2. \A p \in Tab \ {t} : request'[p] = request[p] /\ request[p] \in Request(Len(sessions))
  BY <1>1 DEF AccountsInv, TabInv
<1>3. ASSUME NEW p \in Tab \ {t} PROVE SameRequest(p)
  <2>1. request[p].overtaken \in BOOLEAN
        /\ request'[p] = [request[p] EXCEPT !.overtaken = request[p].overtaken]
    BY <1>2 DEF Request
  <2> QED BY <2>1 DEF SameRequest
<1>4. request'[t] = q /\ request' = [p \in Tab |-> request'[p]]
  BY <1>1
<1> QED BY <1>3, <1>4

LEMMA IdleTab ==
  ASSUME NEW t \in Tab, Len(sessions') \in Nat, request'[t] = Idle
  PROVE  TabInv(t)'
<1>1. request'[t] \in Request(Len(sessions'))
  BY IdleRequest
<1>2. request'[t].next = "visit"
  BY DEF Idle
<1> QED BY ONLY <1>1, <1>2 DEF TabInv, InHand, At, UsesUser, UsesSession

LEMMA FollowTab ==
  ASSUME NEW t \in Tab, Len(sessions') \in Nat, NEW x \in Targets,
         request'[t] = [Idle EXCEPT !.next = "follow", !.path = x]
  PROVE  TabInv(t)'
<1>1. Idle \in Request(Len(sessions'))
  BY IdleRequest
<1>2. "follow" \in Waits
  BY DEF Waits
<1>3. /\ request'[t] \in Request(Len(sessions'))
      /\ request'[t].next = "follow" /\ request'[t].path = x
  BY ONLY <1>1, <1>2, x \in Targets,
     request'[t] = [Idle EXCEPT !.next = "follow", !.path = x] DEF Request
<1> QED BY ONLY <1>3, x \in Targets DEF TabInv, InHand, At, UsesUser, UsesSession

LEMMA TargetIn ==
  /\ <<"", "setup", "secret">> \in Targets /\ <<"", "setup", "user">> \in Targets
  /\ <<"", "login">> \in Targets /\ <<"", "dashboard">> \in Targets
  BY Zenon DEF Targets

(* Rows that are not changed, and users and cookies that are.               *)
LEMMA SameSessions ==
  ASSUME AccountsInv, UNCHANGED <<sessions, environments, tokens, jar, kv>>,
         users \subseteq users', users' \subseteq Name,
         cookie' \in [Browser -> 0..Len(sessions)]
  PROVE  RowsGrow /\ RowInv' /\ Len(sessions') \in Nat
<1>1. RowInv /\ Len(sessions) \in Nat
  BY DEF AccountsInv, RowInv
<1>2. RowsGrow
  BY <1>1 DEF RowsGrow
<1>3. RowInv'
  BY <1>1 DEF RowInv, GoodSession
<1> QED BY <1>1, <1>2, <1>3

LEMMA FinishEffect ==
  ASSUME AccountsInv, NEW t \in Tab, Finish(t), UNCHANGED <<startupVars, rows, jar>>
  PROVE  Effect(t)
<1>1. Put(t, Idle) /\ UNCHANGED cookie
  BY DEF Finish
<1>2. RowsGrow /\ RowInv' /\ Len(sessions') \in Nat
  BY <1>1, SameSessions DEF AccountsInv, RowInv, startupVars, rows
<1>3. TabInv(t)'
  BY <1>1, <1>2, PutTab, IdleTab
<1> QED BY <1>1, <1>2, <1>3, PutTab DEF Effect, startupVars

LEMMA NewSessionRows ==
  ASSUME AccountsInv, NEW t \in Tab, NEW user, NEW proof, NEW names,
         NewSession(t, user, proof, names),
         GoodSession([user |-> user, live |-> TRUE, proof |-> proof, names |-> names]),
         UNCHANGED <<users, kv, environments, tokens, jar>>
  PROVE  RowsGrow /\ RowInv' /\ Len(sessions') \in Nat
<1> DEFINE x == [user |-> user, live |-> TRUE, proof |-> proof, names |-> names]
           n == Len(sessions)
<1>1. RowInv /\ n \in Nat /\ GoodSession(x) /\ x \in Session
  BY DEF AccountsInv, RowInv, GoodSession
<1>2. sessions' = Append(sessions, x) /\ SetCookie(t, Len(sessions'))
  BY DEF NewSession
<1> HIDE DEF x
<1>3. /\ sessions' \in Seq(Session) /\ Len(sessions') = n + 1
      /\ \A s \in 1..n : sessions'[s] = sessions[s]
      /\ sessions'[n + 1] = x
  BY <1>1, <1>2 DEF RowInv
<1>4. ASSUME NEW s \in 1..Len(sessions') PROVE GoodSession(sessions[s])'
  <2>1. GoodSession(sessions'[s])
    <3>1. CASE s \in 1..n
      BY <3>1, <1>1, <1>3 DEF RowInv
    <3>2. CASE s = n + 1
      BY <3>2, <1>1, <1>3
    <3> QED BY <3>1, <3>2, <1>1, <1>3
  <2> QED BY <2>1 DEF GoodSession
<1>5. cookie' \in [Browser -> 0..Len(sessions')]
  BY <1>1, <1>2, <1>3 DEF RowInv, SetCookie
<1>6. RowInv'
  BY <1>1, <1>3, <1>4, <1>5 DEF RowInv
<1>7. RowsGrow
  BY <1>1, <1>3 DEF RowsGrow
<1> QED BY <1>1, <1>3, <1>6, <1>7

LEMMA UpdateRows ==
  ASSUME AccountsInv, NEW s \in 1..Len(sessions), NEW x,
         sessions' = [sessions EXCEPT ![s] = x],
         GoodSession(x)', x.live => sessions[s].live /\ sessions[s].names \subseteq x.names,
         users \subseteq users', users' \subseteq Name,
         UNCHANGED <<kv, environments, tokens, jar, cookie>>
  PROVE  RowsGrow /\ RowInv' /\ Len(sessions') = Len(sessions) /\ sessions'[s] = x
<1>1. RowInv /\ Len(sessions) \in Nat
  BY DEF AccountsInv, RowInv
<1>2. /\ sessions' \in Seq(Session) /\ Len(sessions') = Len(sessions)
      /\ \A i \in 1..Len(sessions) : sessions'[i] = IF i = s THEN x ELSE sessions[i]
  BY <1>1 DEF RowInv, GoodSession
<1>3. ASSUME NEW i \in 1..Len(sessions') PROVE GoodSession(sessions[i])'
  <2>1. CASE i = s
    BY <2>1, <1>2
  <2>2. CASE i # s
    <3>1. GoodSession(sessions[i]) /\ sessions'[i] = sessions[i]
      BY <2>2, <1>1, <1>2 DEF RowInv
    <3> QED BY <3>1 DEF GoodSession
  <2> QED BY <2>1, <2>2
<1>4. RowInv'
  BY <1>1, <1>2, <1>3 DEF RowInv
<1>5. RowsGrow
  BY <1>1, <1>2 DEF RowsGrow
<1> QED BY <1>2, <1>4, <1>5

----------------------------------------------------------------------------
(***************************************************************************)
(* The handlers                                                            *)
(***************************************************************************)

LEMMA SecretHtmxRouteEffect ==
  ASSUME AccountsInv, NEW t \in Tab, SecretHtmxRoute(t) PROVE Effect(t)
<1>1. PICK posted \in Replica \cup {None} :
        IF posted # secret[Serves[t]] THEN Finish(t) /\ UNCHANGED sessions
        ELSE NewSession(t, None, posted, {}) /\ GoTo(t, <<"", "setup", "user">>)
  BY DEF SecretHtmxRoute
<1>2. UNCHANGED <<startupVars, environments, tokens, jar>>
  BY DEF SecretHtmxRoute
<1>3. CASE posted # secret[Serves[t]]
  BY <1>1, <1>2, <1>3, FinishEffect DEF rows
<1>4. CASE posted = secret[Serves[t]]
  <2>1. posted # None /\ posted = kv
    <3>1. Serves[t] \in Replica /\ secret[Serves[t]] # None
      BY AccountsAssumption DEF SecretHtmxRoute, AccountsInv, TabInv
    <3> QED BY <1>4, <3>1 DEF AccountsInv, StartupInv, SecretAgreement
  <2>2. GoodSession([user |-> None, live |-> TRUE, proof |-> posted, names |-> {}])
    BY <2>1 DEF GoodSession, Session
  <2>3. /\ NewSession(t, None, posted, {})
        /\ Put(t, [Idle EXCEPT !.next = "follow", !.path = <<"", "setup", "user">>])
    BY <1>1, <1>4 DEF GoTo
  <2>4. RowsGrow /\ RowInv' /\ Len(sessions') \in Nat
    BY <1>2, <2>2, <2>3, NewSessionRows DEF startupVars
  <2>5. TabInv(t)'
    BY <2>3, <2>4, PutTab, FollowTab, TargetIn
  <2> QED BY <1>2, <2>3, <2>4, <2>5, PutTab DEF Effect, startupVars
<1> QED BY <1>3, <1>4

LEMMA LoginHtmxRouteEffect ==
  ASSUME AccountsInv, NEW t \in Tab, LoginHtmxRoute(t) PROVE Effect(t)
<1>1. UNCHANGED <<startupVars, environments, tokens, jar>>
  BY DEF LoginHtmxRoute
<1>2. CASE Finish(t) /\ UNCHANGED sessions
  BY <1>1, <1>2, FinishEffect DEF rows
<1>3. CASE \E name \in users :
             NewSession(t, name, "credentials", {name}) /\ GoTo(t, <<"", "dashboard">>)
  <2>1. PICK name \in users :
          /\ NewSession(t, name, "credentials", {name})
          /\ Put(t, [Idle EXCEPT !.next = "follow", !.path = <<"", "dashboard">>])
    BY <1>3 DEF GoTo
  <2>2. GoodSession([user |-> name, live |-> TRUE, proof |-> "credentials", names |-> {name}])
    BY DEF GoodSession, Session, AccountsInv, RowInv
  <2>3. RowsGrow /\ RowInv' /\ Len(sessions') \in Nat
    BY <1>1, <2>1, <2>2, NewSessionRows DEF startupVars
  <2>4. TabInv(t)'
    BY <2>1, <2>3, PutTab, FollowTab, TargetIn
  <2> QED BY <1>1, <2>1, <2>3, <2>4, PutTab DEF Effect, startupVars
<1> QED BY <1>2, <1>3 DEF LoginHtmxRoute

LEMMA FindSetupSessionEffect ==
  ASSUME AccountsInv, NEW t \in Tab, FindSetupSession(t) PROVE Effect(t)
<1> DEFINE v == SetupSession(request[t].session, Held(t))
           q == IF v.next = "follow" THEN [Idle EXCEPT !.next = "follow", !.path = v.path]
                ELSE IF At(t, "userPage") THEN Idle
                ELSE [request[t] EXCEPT !.next = "newAdminUser"]
<1>1. /\ request[t].next \in {"userPage", "userHtmxRoute"}
      /\ SetCookie(t, v.cookie) /\ Put(t, q)
      /\ UNCHANGED <<startupVars, rows, jar>>
  BY DEF FindSetupSession
<1>2. /\ v.next = "follow" => v.path \in Targets
      /\ v.cookie \in {0, Held(t)}
  BY TargetIn DEF SetupSession, SendTo, PassOn
<1> HIDE DEF v
<1>3. RowInv /\ TabInv(t) /\ Len(sessions) \in Nat
  BY DEF AccountsInv, RowInv
<1>4. cookie' \in [Browser -> 0..Len(sessions)]
  BY <1>1, <1>2, <1>3 DEF SetCookie, Held, RowInv
<1>5. RowsGrow /\ RowInv' /\ Len(sessions') \in Nat
  BY <1>1, <1>3, <1>4, SameSessions DEF startupVars, rows, RowInv
<1>6. TabInv(t)'
  <2>1. CASE v.next = "follow"
    BY <2>1, <1>1, <1>2, <1>5, PutTab, FollowTab
  <2>2. CASE v.next # "follow" /\ At(t, "userPage")
    BY <2>2, <1>1, <1>5, PutTab, IdleTab
  <2>3. CASE v.next # "follow" /\ ~At(t, "userPage")
    <3>1. request'[t] = [request[t] EXCEPT !.next = "newAdminUser"] /\ At(t, "userHtmxRoute")
      BY <2>3, <1>1, PutTab DEF At
    <3>2. /\ request[t] \in Request(Len(sessions)) /\ request[t].session # 0
          /\ phase[Serves[t]] = "serving"
      BY <3>1, <1>3 DEF TabInv, InHand, At, UsesSession
    <3>3. /\ request'[t] \in Request(Len(sessions))
          /\ request'[t].next = "newAdminUser" /\ request'[t].session # 0
      BY <3>1, <3>2 DEF Request, Waits
    <3>4. UNCHANGED <<sessions, phase>>
      BY <1>1 DEF rows, startupVars, replica
    <3> QED BY ONLY <3>2, <3>3, <3>4 DEF TabInv, InHand, At, UsesUser, UsesSession
  <2> QED BY <2>1, <2>2, <2>3
<1> QED BY <1>1, <1>5, <1>6, PutTab DEF Effect, startupVars

(* Who has a request in hand has a secret.                                  *)
LEMMA HandHasSecret ==
  ASSUME AccountsInv, NEW t \in Tab, InHand(t)
  PROVE  kv # None
<1>1. phase[Serves[t]] = "serving" /\ Serves[t] \in Replica
  BY AccountsAssumption DEF AccountsInv, TabInv
<1> QED BY <1>1 DEF AccountsInv, StartupInv, SecretFirst

LEMMA NewAdminUserEffect ==
  ASSUME AccountsInv, NEW t \in Tab, NewAdminUser(t) PROVE Effect(t)
<1> USE DEF At
<1>1. At(t, "newAdminUser") /\ UNCHANGED <<schema, kv, lock, replica, crashes>>
      /\ UNCHANGED <<environments, tokens, cookie, jar>>
  BY DEF NewAdminUser
<1>2. /\ RowInv /\ TabInv(t) /\ Len(sessions) \in Nat
      /\ request = [p \in Tab |-> request[p]]
  BY DEF AccountsInv, RowInv
<1>3. kv # None
  BY <1>1, HandHasSecret DEF InHand
<1>4. PICK name \in Name :
        IF name \in users THEN Finish(t) /\ UNCHANGED <<users, sessions>>
        ELSE /\ users' = users \cup {name}
             /\ sessions' = IF Found(request[t].session)
                  THEN [sessions EXCEPT ![request[t].session].names = @ \cup {name}]
                  ELSE sessions
             /\ request' = [p \in Tab |->
                  IF p = t THEN [request[t] EXCEPT !.next = "updateUserId", !.user = name]
                  ELSE [request[p] EXCEPT !.overtaken = @ \/ PastUsersCheck(p)]]
  BY DEF NewAdminUser
<1>5. CASE name \in users
  BY <1>1, <1>4, <1>5, FinishEffect DEF startupVars, rows
<1>6. CASE name \notin users
  <2>0. PICK s : s = request[t].session
    OBVIOUS
  <2>1. /\ s \in 0..Len(sessions) /\ s # 0 /\ request[t] \in Request(Len(sessions))
        /\ phase[Serves[t]] = "serving"
    BY <1>1, <1>2, <2>0 DEF TabInv, UsesSession, Request, InHand
  <2>2. users' = users \cup {name} /\ users' \subseteq Name
    BY <1>2, <1>4, <1>6 DEF RowInv
  <2>3. /\ RowsGrow /\ RowInv' /\ Len(sessions') = Len(sessions)
        /\ Found(s)' => name \in sessions'[s].names
    <3>1. CASE Found(s)
      <4>0. PICK x : x = [sessions[s] EXCEPT !.names = @ \cup {name}]
        OBVIOUS
      <4>1. sessions' = [sessions EXCEPT ![s] = x]
        BY <1>4, <1>6, <2>0, <3>1, <4>0
      <4>2. GoodSession(sessions[s]) /\ sessions[s] \in Session
        BY <1>2, <2>1 DEF RowInv, GoodSession
      <4>3. /\ x \in Session /\ x.user = sessions[s].user /\ x.proof = sessions[s].proof
            /\ x.live = sessions[s].live /\ x.names = sessions[s].names \cup {name}
        BY <4>0, <4>2 DEF Session
      <4>4. GoodSession(x)'
        BY <1>1, <2>2, <4>2, <4>3 DEF GoodSession
      <4>5. s \in 1..Len(sessions)
        BY <1>2, <2>1
      <4>6. /\ x.live => sessions[s].live /\ sessions[s].names \subseteq x.names
            /\ users \subseteq users' /\ kv' = kv
        BY <1>1, <2>2, <4>3
      <4>7. RowsGrow /\ RowInv' /\ Len(sessions') = Len(sessions) /\ sessions'[s] = x
        BY <1>1, <2>2, <4>1, <4>4, <4>5, <4>6, UpdateRows
      <4> QED BY <4>3, <4>7
    <3>2. CASE ~Found(s)
      <4>1. sessions' = sessions
        BY <1>4, <1>6, <2>0, <3>2
      <4> QED BY <1>1, <1>2, <2>2, <3>2, <4>1, SameSessions DEF Found, RowInv
    <3> QED BY <3>1, <3>2
  <2>4. request' = [p \in Tab |->
                  IF p = t THEN [request[t] EXCEPT !.next = "updateUserId", !.user = name]
                  ELSE [request[p] EXCEPT !.overtaken = @ \/ PastUsersCheck(p)]]
    BY <1>4, <1>6
  <2>5. TabInv(t)'
    <3>1. /\ request'[t] \in Request(Len(sessions)) /\ request'[t].next = "updateUserId"
          /\ request'[t].user = name /\ request'[t].session = s
      BY <2>0, <2>1, <2>4 DEF Request, Waits
    <3>2. phase' = phase /\ name \in users'
      BY <1>1, <2>2 DEF replica
    <3> QED BY ONLY <2>1, <2>3, <3>1, <3>2 DEF TabInv, InHand, At, UsesUser, UsesSession, Found
  <2>6. ASSUME NEW p \in Tab \ {t} PROVE SameRequest(p)
    <3>1. request'[p] = [request[p] EXCEPT !.overtaken = @ \/ PastUsersCheck(p)]
      BY <2>4
    <3>2. (request[p].overtaken \/ PastUsersCheck(p)) \in BOOLEAN
      BY DEF AccountsInv, TabInv, Request, PastUsersCheck
    <3> QED BY <3>1, <3>2 DEF SameRequest
  <2>7. request' = [p \in Tab |-> request'[p]]
    BY <2>4
  <2> QED BY <1>1, <1>3, <2>3, <2>5, <2>6, <2>7 DEF Effect
<1> QED BY <1>5, <1>6

LEMMA UpdateUserIdEffect ==
  ASSUME AccountsInv, NEW t \in Tab, UpdateUserId(t) PROVE Effect(t)
<1> USE DEF At
<1>1. /\ At(t, "updateUserId")
      /\ Put(t, [Idle EXCEPT !.next = "follow", !.path = <<"", "dashboard">>])
      /\ UNCHANGED <<startupVars, environments, tokens, jar, cookie>>
  BY DEF UpdateUserId, Redirect, GoTo
<1>2. RowInv /\ TabInv(t) /\ Len(sessions) \in Nat
  BY DEF AccountsInv, RowInv
<1>3. PICK s, user : s = request[t].session /\ user = request[t].user
  OBVIOUS
<1>4. /\ s \in 0..Len(sessions) /\ user \in users
      /\ Found(s) => user \in sessions[s].names
  BY <1>1, <1>2, <1>3 DEF TabInv, Request
<1>5. RowsGrow /\ RowInv' /\ Len(sessions') \in Nat
  <2>1. CASE Found(s)
    <3>1. PICK x : x = [sessions[s] EXCEPT !.user = user]
      OBVIOUS
    <3>2. sessions' = [sessions EXCEPT ![s] = x]
      BY <1>3, <2>1, <3>1 DEF UpdateUserId
    <3>3. s \in 1..Len(sessions) /\ user \in sessions[s].names /\ user \in Name
      BY <1>2, <1>4, <2>1 DEF Found, RowInv
    <3>4. GoodSession(sessions[s]) /\ sessions[s] \in Session
      BY <1>2, <3>3 DEF RowInv, GoodSession
    <3>5. /\ x \in Session /\ x.user = user /\ x.proof = sessions[s].proof
          /\ x.live = sessions[s].live /\ x.names = sessions[s].names
      BY <3>1, <3>3, <3>4 DEF Session
    <3>6. UNCHANGED <<users, kv>>
      BY <1>1 DEF startupVars
    <3>7. GoodSession(x)'
      BY <1>4, <3>3, <3>4, <3>5, <3>6 DEF GoodSession
    <3>8. /\ x.live => sessions[s].live /\ sessions[s].names \subseteq x.names
          /\ users \subseteq users' /\ users' \subseteq Name
      BY <1>2, <3>5, <3>6 DEF RowInv
    <3> QED BY <1>1, <1>2, <3>2, <3>3, <3>6, <3>7, <3>8, UpdateRows
  <2>2. CASE ~Found(s)
    <3>1. UNCHANGED <<sessions, users, kv>>
      BY <1>1, <1>3, <2>2 DEF UpdateUserId, startupVars
    <3> QED BY <1>1, <1>2, <3>1, SameSessions DEF RowInv
  <2> QED BY <2>1, <2>2
<1>6. TabInv(t)'
  BY <1>1, <1>5, PutTab, FollowTab, TargetIn
<1> QED BY <1>1, <1>5, <1>6, PutTab DEF Effect, startupVars

LEMMA SignOutEffect ==
  ASSUME AccountsInv, NEW t \in Tab, SignOut(t) PROVE Effect(t)
<1> USE DEF At
<1>1. /\ At(t, "signOut") /\ Put(t, [request[t] EXCEPT !.next = "signedOut"])
      /\ UNCHANGED <<startupVars, environments, tokens, cookie, jar>>
  BY DEF SignOut
<1>2. RowInv /\ TabInv(t) /\ Len(sessions) \in Nat
  BY DEF AccountsInv, RowInv
<1>3. PICK s : s = request[t].session
  OBVIOUS
<1>4. s \in 1..Len(sessions) /\ phase[Serves[t]] = "serving"
  BY <1>1, <1>2, <1>3 DEF TabInv, Request, UsesSession, InHand
<1>5. RowsGrow /\ RowInv' /\ Len(sessions') = Len(sessions)
  <2>1. sessions' = [sessions EXCEPT ![s] = Deleted]
    BY <1>3 DEF SignOut
  <2>2. GoodSession(Deleted)' /\ ~Deleted.live
    BY DEF GoodSession, Deleted, Session
  <2>3. UNCHANGED <<users, kv>> /\ users' \subseteq Name
    BY <1>1, <1>2 DEF startupVars, RowInv
  <2> QED BY <1>1, <1>4, <2>1, <2>2, <2>3, UpdateRows
<1>6. TabInv(t)'
  <2>1. request'[t] = [request[t] EXCEPT !.next = "signedOut"]
    BY <1>1, PutTab
  <2>2. request'[t] \in Request(Len(sessions)) /\ request'[t].next = "signedOut"
    BY <1>2, <2>1 DEF TabInv, Request, Waits
  <2>3. phase' = phase
    BY <1>1 DEF startupVars, replica
  <2> QED BY ONLY <1>4, <1>5, <2>2, <2>3 DEF TabInv, InHand, At, UsesUser, UsesSession
<1> QED BY <1>1, <1>2, <1>5, <1>6, PutTab DEF Effect, startupVars

LEMMA SignedOutEffect ==
  ASSUME AccountsInv, NEW t \in Tab, SignedOut(t) PROVE Effect(t)
<1>1. /\ Put(t, [Idle EXCEPT !.next = "follow", !.path = <<"", "login">>])
      /\ SetCookie(t, 0) /\ UNCHANGED <<startupVars, rows, jar>>
  BY DEF SignedOut, RedirectWith, GoTo
<1>2. RowInv /\ Len(sessions) \in Nat
  BY DEF AccountsInv, RowInv
<1>3. cookie' \in [Browser -> 0..Len(sessions)]
  BY <1>1, <1>2 DEF SetCookie, RowInv
<1>4. RowsGrow /\ RowInv' /\ Len(sessions') \in Nat
  BY <1>1, <1>2, <1>3, SameSessions DEF startupVars, rows, RowInv
<1>5. TabInv(t)'
  BY <1>1, <1>4, PutTab, FollowTab, TargetIn
<1> QED BY <1>1, <1>4, <1>5, PutTab DEF Effect, startupVars

LEMMA OwnedRows ==
  ASSUME AccountsInv, UNCHANGED <<startupVars, sessions, cookie, jar>>,
         environments' \in [Name \X Slug -> Nat], tokens' \in [Name -> Nat],
         \A owner \in Name : tokens'[owner] > 0 => owner \in users
  PROVE  RowsGrow /\ RowInv' /\ Len(sessions') \in Nat
<1>1. RowInv /\ Len(sessions) \in Nat /\ UNCHANGED <<users, kv>>
  BY DEF AccountsInv, RowInv, startupVars
<1>2. RowsGrow
  BY <1>1 DEF RowsGrow
<1>3. \A s \in 1..Len(sessions) : GoodSession(sessions[s])'
  BY <1>1 DEF RowInv, GoodSession
<1>4. RowInv'
  BY <1>1, <1>3 DEF RowInv
<1> QED BY <1>1, <1>2, <1>4

(* A handler that uses its user is one of that user's.                      *)
LEMMA HandIsUser ==
  ASSUME AccountsInv, NEW t \in Tab, request[t].next \in UsesUser
  PROVE  request[t].user \in users /\ request[t].user \in Name
  BY DEF AccountsInv, TabInv, RowInv

LEMMA Count ==
  ASSUME NEW S, NEW f \in [S -> Nat], NEW e
  PROVE  /\ [f EXCEPT ![e] = @ + 1] \in [S -> Nat]
         /\ f[e] > 0 => [f EXCEPT ![e] = @ - 1] \in [S -> Nat]
<1>1. CASE e \in S
  BY <1>1
<1>2. CASE e \notin S
  BY <1>2
<1> QED BY <1>1, <1>2

LEMMA CheckSlugEffect ==
  ASSUME AccountsInv, NEW t \in Tab, CheckSlug(t) PROVE Effect(t)
<1>1. At(t, "createEnvironmentHtmxRoute") /\ UNCHANGED <<startupVars, rows, cookie, jar>>
  BY DEF CheckSlug
<1>2. CASE Finish(t)
  BY <1>1, <1>2, FinishEffect
<1>3. CASE \E slug \in Slug :
             Put(t, [request[t] EXCEPT !.next = "newEnvironment", !.slug = slug])
  <2>1. PICK slug \in Slug :
          Put(t, [request[t] EXCEPT !.next = "newEnvironment", !.slug = slug])
    BY <1>3
  <2>2. RowsGrow /\ RowInv' /\ Len(sessions') \in Nat
    BY <1>1, SameSessions DEF AccountsInv, RowInv, startupVars, rows
  <2>3. /\ request[t] \in Request(Len(sessions)) /\ phase[Serves[t]] = "serving"
        /\ request[t].user \in users
    BY <1>1 DEF AccountsInv, TabInv, InHand, At, UsesUser
  <2>4. /\ request'[t] \in Request(Len(sessions)) /\ request'[t].next = "newEnvironment"
        /\ request'[t].slug = slug /\ request'[t].user = request[t].user
    <3>1. request'[t] = [request[t] EXCEPT !.next = "newEnvironment", !.slug = slug]
      BY <2>1, PutTab
    <3>2. "newEnvironment" \in Waits
      BY DEF Waits
    <3> QED BY <2>3, <3>1, <3>2 DEF Request
  <2>5. UNCHANGED <<users, phase, sessions>>
    BY <1>1 DEF startupVars, replica, rows
  <2>6. TabInv(t)'
    BY ONLY <2>3, <2>4, <2>5 DEF TabInv, InHand, At, UsesUser, UsesSession
  <2> QED BY <1>1, <2>1, <2>2, <2>6, PutTab DEF Effect, startupVars
<1> QED BY <1>2, <1>3 DEF CheckSlug

LEMMA NewEnvironmentEffect ==
  ASSUME AccountsInv, NEW t \in Tab, NewEnvironment(t) PROVE Effect(t)
<1> DEFINE same(p) == /\ At(p, "newEnvironment")
                      /\ request[p].user = request[t].user
                      /\ request[p].slug = request[t].slug
<1>1. /\ At(t, "newEnvironment") /\ UNCHANGED <<startupVars, sessions, tokens, cookie, jar>>
      /\ environments' = [environments EXCEPT ![<<request[t].user, request[t].slug>>] = @ + 1]
      /\ request' = [p \in Tab |->
           IF p = t THEN Idle ELSE [request[p] EXCEPT !.overtaken = @ \/ same(p)]]
  BY DEF NewEnvironment
<1>2. RowsGrow /\ RowInv' /\ Len(sessions') \in Nat
  <2>1. environments' \in [Name \X Slug -> Nat]
    BY <1>1, Count DEF AccountsInv, RowInv
  <2> QED BY <1>1, <2>1, OwnedRows DEF AccountsInv, RowInv
<1>3. TabInv(t)'
  BY <1>1, <1>2, IdleTab
<1>4. ASSUME NEW p \in Tab \ {t} PROVE SameRequest(p)
  <2>1. request'[p] = [request[p] EXCEPT !.overtaken = @ \/ same(p)]
    BY <1>1
  <2>2. request[p].overtaken \in BOOLEAN /\ same(p) \in BOOLEAN
    BY DEF AccountsInv, TabInv, Request, At
  <2> HIDE DEF same
  <2>3. (request[p].overtaken \/ same(p)) \in BOOLEAN
    BY <2>2
  <2> QED BY <2>1, <2>3 DEF SameRequest
<1> QED BY <1>1, <1>2, <1>3, <1>4 DEF Effect, startupVars

(* What a request that ends has done to environments and tokens.            *)
LEMMA OwnedEffect ==
  ASSUME AccountsInv, NEW t \in Tab, Finish(t), UNCHANGED <<startupVars, sessions, jar>>,
         environments' \in [Name \X Slug -> Nat], tokens' \in [Name -> Nat],
         \A owner \in Name : tokens'[owner] > 0 => owner \in users
  PROVE  Effect(t)
<1>1. Put(t, Idle) /\ UNCHANGED cookie
  BY DEF Finish
<1>2. RowsGrow /\ RowInv' /\ Len(sessions') \in Nat
  BY <1>1, OwnedRows
<1>3. TabInv(t)'
  BY <1>1, <1>2, PutTab, IdleTab
<1> QED BY <1>1, <1>2, <1>3, PutTab DEF Effect, startupVars

LEMMA DeleteEnvironmentEffect ==
  ASSUME AccountsInv, NEW t \in Tab, DeleteEnvironment(t) PROVE Effect(t)
<1>1. Finish(t) /\ UNCHANGED <<startupVars, sessions, tokens, jar>>
  BY DEF DeleteEnvironment
<1>2. environments' \in [Name \X Slug -> Nat]
  <2>1. CASE UNCHANGED environments
    BY <2>1 DEF AccountsInv, RowInv
  <2>2. CASE \E slug \in Slug :
               /\ Taken(request[t].user, slug)
               /\ environments' = [environments EXCEPT ![<<request[t].user, slug>>] = @ - 1]
    <3>1. PICK slug \in Slug :
            /\ environments[<<request[t].user, slug>>] > 0
            /\ environments' = [environments EXCEPT ![<<request[t].user, slug>>] = @ - 1]
      BY <2>2 DEF Taken
    <3> QED BY <3>1, Count DEF AccountsInv, RowInv
  <2> QED BY <2>1, <2>2 DEF DeleteEnvironment
<1> QED BY <1>1, <1>2, OwnedEffect DEF AccountsInv, RowInv

LEMMA NewTokenEffect ==
  ASSUME AccountsInv, NEW t \in Tab, NewToken(t) PROVE Effect(t)
<1>1. /\ Finish(t) /\ UNCHANGED <<startupVars, sessions, environments, jar>>
      /\ tokens' = [tokens EXCEPT ![request[t].user] = @ + 1]
      /\ request[t].user \in users
  BY HandIsUser DEF NewToken, At, UsesUser
<1>2. tokens \in [Name -> Nat] /\ \A owner \in Name : tokens[owner] > 0 => owner \in users
  BY DEF AccountsInv, RowInv
<1>3. tokens' \in [Name -> Nat]
  BY <1>1, <1>2, Count
<1>4. ASSUME NEW owner \in Name, tokens'[owner] > 0 PROVE owner \in users
  <2>1. CASE owner = request[t].user
    BY <1>1, <2>1
  <2>2. CASE owner # request[t].user
    BY <1>1, <1>2, <1>4, <2>2
  <2> QED BY <2>1, <2>2
<1> QED BY <1>1, <1>3, <1>4, OwnedEffect DEF AccountsInv, RowInv

LEMMA RevokeTokenEffect ==
  ASSUME AccountsInv, NEW t \in Tab, RevokeToken(t) PROVE Effect(t)
<1>1. /\ Finish(t) /\ UNCHANGED <<startupVars, sessions, environments, jar>>
      /\ request[t].user \in users /\ request[t].user \in Name
  BY HandIsUser DEF RevokeToken, At, UsesUser
<1>2. /\ tokens' \in [Name -> Nat]
      /\ \A owner \in Name : tokens'[owner] > 0 => owner \in users
  <2>1. CASE UNCHANGED tokens
    BY <2>1 DEF AccountsInv, RowInv
  <2>2. CASE /\ tokens[request[t].user] > 0
             /\ tokens' = [tokens EXCEPT ![request[t].user] = @ - 1]
    BY <1>1, <2>2 DEF AccountsInv, RowInv
  <2> QED BY <2>1, <2>2 DEF RevokeToken
<1> QED BY <1>1, <1>2, OwnedEffect DEF AccountsInv, RowInv

LEMMA HandlerEffect ==
  ASSUME AccountsInv, NEW t \in Tab, Handler(t) \/ Fail(t)
  PROVE  Effect(t)
<1>1. CASE Answer(t) \/ Fail(t)
  BY <1>1, FinishEffect DEF Answer, Fail
<1> QED BY <1>1, SecretHtmxRouteEffect, LoginHtmxRouteEffect, FindSetupSessionEffect,
  NewAdminUserEffect, UpdateUserIdEffect, SignOutEffect, SignedOutEffect, CheckSlugEffect,
  NewEnvironmentEffect, DeleteEnvironmentEffect, NewTokenEffect, RevokeTokenEffect DEF Handler

----------------------------------------------------------------------------
(***************************************************************************)
(* Requests that arrive: what middleware lets through.                     *)
(***************************************************************************)

Verdict(m, c, v) ==
  /\ v.next \in {"pass", "follow", "visit"}
  /\ v.path \in {<<>>} \cup Targets /\ (v.next = "follow" => v.path \in Targets)
  /\ v.cookie \in {0, c} /\ v.session \in {0, c} /\ v.user \in Name \cup {None}
  /\ v.next = "pass" =>
       /\ m \in {"secretMiddleware", "userMiddleware"} => ~UsersExist
       /\ m \in {"userMiddleware", "userProtected"} => v.session # 0
       /\ m \in {"userProtected", "apiMiddleware"} => v.user \in users

LEMMA NoPath == <<>> \in {<<>>} \cup Targets
<1> DEFINE e == <<>>
<1> HIDE DEF e
<1>1. e \in {e} \cup Targets
  OBVIOUS
<1> QED BY ONLY <1>1, Zenon DEF e

LEMMA Verdicts ==
  ASSUME AccountsInv, NEW m \in Middlewares, NEW c \in 0..Len(sessions),
         NEW v \in Middleware(m, c)
  PROVE  Verdict(m, c, v)
<1>1. RowInv /\ Len(sessions) \in Nat
  BY DEF AccountsInv, RowInv
<1> USE DEF SendTo, PassOn, Verdict
<1>2. CASE m = "secretMiddleware"
  <2>1. v = SecretMiddleware(c)
    BY <1>2 DEF Middleware
  <2> QED BY <1>2, <2>1, TargetIn, NoPath DEF SecretMiddleware
<1>3. CASE m = "loginMiddleware"
  <2>1. v = LoginMiddleware(c)
    BY <1>3 DEF Middleware
  <2> QED BY <1>3, <2>1, TargetIn, NoPath DEF LoginMiddleware
<1>4. CASE m = "userMiddleware"
  <2>1. v = UserMiddleware(c)
    BY <1>4 DEF Middleware
  <2> QED BY <1>4, <2>1, TargetIn, NoPath DEF UserMiddleware
<1>5. CASE m = "userProtected"
  <2>1. v = UserProtected(c) \/ v \in Unreadable(c)
    BY <1>5 DEF Middleware
  <2>2. CASE v \in Unreadable(c)
    <3>1. v = SendTo(<<"", "login">>, 0)
      BY <2>2 DEF Unreadable
    <3> QED BY <1>5, <3>1, TargetIn, NoPath
  <2>3. CASE v = UserProtected(c)
    <3>1. Found(c) /\ sessions[c].user # None =>
            sessions[c].user \in users /\ sessions[c].user \in Name
      BY <1>1 DEF Found, RowInv, GoodSession
    <3> QED BY <1>5, <2>3, <3>1, TargetIn, NoPath DEF UserProtected, Found
  <2> QED BY <2>1, <2>2, <2>3
<1>6. CASE m = "apiMiddleware"
  <2>1. v \in ApiMiddleware(c)
    BY <1>6 DEF Middleware
  <2>2. CASE v = [PassOn(c, 0, None) EXCEPT !.next = "visit"]
    BY <1>6, <2>2, NoPath
  <2>3. CASE \E owner \in Name : tokens[owner] > 0 /\ v = PassOn(c, 0, owner)
    <3>1. PICK owner \in Name : tokens[owner] > 0 /\ v = PassOn(c, 0, owner)
      BY <2>3
    <3>2. owner \in users
      BY <1>1, <3>1 DEF RowInv
    <3> QED BY <1>6, <3>1, <3>2, NoPath
  <2> QED BY <2>1, <2>2, <2>3 DEF ApiMiddleware
<1> QED BY <1>2, <1>3, <1>4, <1>5, <1>6 DEF Middlewares

LEMMA ChainIs == ASSUME NEW r \in Visits \cup Redirects PROVE IsChain(Chain[r])
<1>1. Len(r[2]) # 1
  <2>1. CASE r \in Visits
    BY <2>1, AccountsAssumption
  <2>2. CASE r \in Redirects
    <3>1. r[2] \in Targets
      BY <2>2 DEF Redirects, Targets
    <3>2. ASSUME NEW a, NEW b, NEW c PROVE Len(<<a, b>>) # 1 /\ Len(<<a, b, c>>) # 1
      OBVIOUS
    <3> QED BY <3>1, <3>2 DEF Targets
  <2> QED BY <2>1, <2>2
<1>2. Chain[r] = Dispatch(r[1], r[2])
  BY DEF Chain
<1> QED BY <1>1, <1>2, DispatchChain

(* A route to a handler that takes the user has a middleware in front.      *)
LEMMA RouteOfUser ==
  ASSUME NEW i \in DOMAIN Routes, Last(Routes[i].chain) \in UsesUser
  PROVE  \E m \in Middlewares : \E h \in Behind(m) : Routes[i].chain = <<m, h>>
<1>1. DOMAIN Routes = 1..22
  BY DEF Routes
<1>2. ASSUME NEW h PROVE Last(<<h>>) = h
  BY DEF Last
<1>3. i # 15
  <2>1. Routes[15] = Handle(NewRouter, "GET", <<>>, "root")
    BY DEF Routes
  <2>2. Routes[15].chain = Append(<<>>, "root")
    <3>1. ASSUME NEW router, NEW method, NEW path, NEW h
          PROVE  Handle(router, method, path, h).chain = Append(router.middlewares, h)
      BY DEF Handle
    <3>2. NewRouter.middlewares = <<>>
      BY DEF NewRouter
    <3> QED BY ONLY <2>1, <3>1, <3>2, Zenon
  <2>3. Routes[15].chain = <<"root">>
    BY <2>2
  <2>4. Last(Routes[15].chain) = "root"
    BY <1>2, <2>3
  <2> QED BY <2>4 DEF UsesUser
<1>4. IsChain(Routes[i].chain)
  BY <1>1, <1>3, RouteChains
<1>5. Routes[i].chain # <<"NotFound">>
  <2>1. "NotFound" \notin UsesUser
    BY DEF UsesUser
  <2> QED BY ONLY <1>2, <2>1, Last(Routes[i].chain) \in UsesUser
<1> QED BY <1>4, <1>5 DEF IsChain

(* A request in hand has the user or session that its handler takes.        *)
Passed(q) ==
  /\ q \in Request(Len(sessions)) /\ ~q.overtaken
  /\ q.next \notin {"newAdminUser", "updateUserId", "newEnvironment"}
  /\ q.next = "follow" => q.path \in Targets
  /\ q.next \in {"secretHtmxRoute", "userPage", "userHtmxRoute"} => ~UsersExist
  /\ q.next \in UsesUser => q.user \in users
  /\ q.next \in UsesSession => q.session # 0

LEMMA ArrivePasses ==
  ASSUME AccountsInv, NEW t \in Tab, NEW r \in Visits \cup Redirects, Arrive(t, r)
  PROVE  \E q, c : Put(t, q) /\ SetCookie(t, c) /\ Passed(q) /\ c \in 0..Len(sessions)
<1>1. RowInv /\ Len(sessions) \in Nat /\ Held(t) \in 0..Len(sessions)
  BY DEF AccountsInv, RowInv, Held
<1>2. Idle \in Request(Len(sessions)) /\ Idle.next = "visit" /\ ~Idle.overtaken
  BY <1>1, IdleRequest DEF Idle
<1>3. CASE Chain[r] = <<"NotFound">>
  <2>1. Len(Chain[r]) = 1 /\ Last(Chain[r]) = "NotFound"
    BY <1>3 DEF Last
  <2>2. PassOn(Held(t), 0, None).next = "pass" /\ PassOn(Held(t), 0, None).cookie = Held(t)
    BY DEF PassOn
  <2>3. Put(t, Idle) /\ SetCookie(t, Held(t))
    BY <2>1, <2>2 DEF Arrive, Admitted, Elsewhere
  <2>4. Passed(Idle)
    BY ONLY <1>2 DEF Passed, UsesUser, UsesSession
  <2> QED BY <1>1, <2>3, <2>4
<1>4. CASE \E m \in Middlewares : \E h \in Behind(m) : Chain[r] = <<m, h>>
  <2>0. PICK m \in Middlewares : \E h \in Behind(m) : Chain[r] = <<m, h>>
    BY <1>4
  <2>1. PICK h \in Behind(m) : Chain[r] = <<m, h>>
    BY <2>0
  <2>2. Len(Chain[r]) = 2 /\ Chain[r][1] = m /\ Last(Chain[r]) = h
    BY <2>1 DEF Last
  <2>3. PICK v \in Middleware(m, Held(t)) :
          /\ SetCookie(t, v.cookie)
          /\ Put(t, IF v.next = "pass" /\ h \in Elsewhere THEN Idle
                    ELSE [Idle EXCEPT !.next = IF v.next = "pass" THEN h ELSE v.next,
                                      !.path = v.path, !.session = v.session, !.user = v.user])
    <3>1. \E v \in Admitted(Chain[r], Held(t)) :
            /\ SetCookie(t, v.cookie)
            /\ Put(t, IF v.next = "pass" /\ Last(Chain[r]) \in Elsewhere THEN Idle
                      ELSE [Idle EXCEPT !.next = IF v.next = "pass" THEN Last(Chain[r])
                                                 ELSE v.next,
                                        !.path = v.path, !.session = v.session,
                                        !.user = v.user])
      BY Zenon DEF Arrive
    <3>2. Admitted(Chain[r], Held(t)) = Middleware(m, Held(t))
      BY <2>2 DEF Admitted
    <3> QED BY ONLY <2>2, <3>1, <3>2, Zenon
  <2>4. Verdict(m, Held(t), v)
    BY <1>1, Verdicts
  <2>5. v.cookie \in 0..Len(sessions) /\ v.session \in 0..Len(sessions)
    BY <1>1, <2>4 DEF Verdict
  <2>6. CASE v.next = "pass" /\ h \in Elsewhere
    <3>1. Passed(Idle)
      BY ONLY <1>2 DEF Passed, UsesUser, UsesSession
    <3> QED BY <2>3, <2>5, <2>6, <3>1
  <2>7. CASE v.next = "pass" /\ h \notin Elsewhere
    <3>1. PICK q : q = [Idle EXCEPT !.next = h, !.path = v.path, !.session = v.session,
                                    !.user = v.user]
      OBVIOUS
    <3>2. h \in Waits \ {"visit", "follow", "newAdminUser", "updateUserId", "newEnvironment"}
      BY <2>7 DEF Behind, Middlewares, Elsewhere, Waits
    <3>3. /\ q \in Request(Len(sessions)) /\ ~q.overtaken
          /\ q.next = h /\ q.session = v.session /\ q.user = v.user
      BY <1>2, <2>4, <2>5, <3>1, <3>2 DEF Request, Verdict
    <3>4. /\ h \in {"secretHtmxRoute", "userPage", "userHtmxRoute"} =>
                m \in {"secretMiddleware", "userMiddleware"}
          /\ h \in UsesUser => m \in {"userProtected", "apiMiddleware"}
          /\ h \in UsesSession => m \in {"userMiddleware", "userProtected"}
      BY <3>2 DEF Behind, Middlewares, UsesUser, UsesSession
    <3>5. Passed(q)
      BY ONLY <2>4, <2>7, <3>2, <3>3, <3>4 DEF Passed, Verdict
    <3> QED BY <2>3, <2>5, <2>7, <3>1, <3>5
  <2>8. CASE v.next # "pass"
    <3>1. PICK q : q = [Idle EXCEPT !.next = v.next, !.path = v.path, !.session = v.session,
                                    !.user = v.user]
      OBVIOUS
    <3>2. v.next \in {"visit", "follow"} /\ v.next \in Waits
      BY <2>4, <2>8 DEF Verdict, Waits
    <3>3. /\ q \in Request(Len(sessions)) /\ ~q.overtaken
          /\ q.next = v.next /\ q.path = v.path
      BY <1>2, <2>4, <2>5, <3>1, <3>2 DEF Request, Verdict
    <3>4. Passed(q)
      BY ONLY <2>4, <3>2, <3>3 DEF Passed, Verdict, UsesUser, UsesSession
    <3> QED BY <2>3, <2>5, <2>8, <3>1, <3>4
  <2> QED BY <2>6, <2>7, <2>8
<1> QED BY <1>3, <1>4, ChainIs DEF IsChain

LEMMA ArriveEffect ==
  ASSUME AccountsInv, NEW t \in Tab, NEW r \in Visits \cup Redirects, Arrive(t, r)
  PROVE  Effect(t)
<1>1. PICK q, c : Put(t, q) /\ SetCookie(t, c) /\ Passed(q) /\ c \in 0..Len(sessions)
  BY ArrivePasses
<1>2. UNCHANGED <<startupVars, rows, jar>> /\ phase[Serves[t]] = "serving"
  BY DEF Arrive
<1>3. RowInv /\ cookie' \in [Browser -> 0..Len(sessions)]
  BY <1>1 DEF AccountsInv, RowInv, SetCookie
<1>4. RowsGrow /\ RowInv' /\ Len(sessions') \in Nat
  BY <1>2, <1>3, SameSessions DEF startupVars, rows, RowInv
<1>5. TabInv(t)'
  <2>1. request'[t] = q
    BY <1>1, PutTab
  <2>2. ~UsersExist => secret[Serves[t]] # None
    BY <1>2, AccountsAssumption DEF AccountsInv, StartupInv, EmptyIsLate
  <2>3. UNCHANGED <<users, sessions, phase, secret>>
    BY <1>2 DEF startupVars, rows, replica
  <2> QED BY ONLY <1>1, <1>2, <2>1, <2>2, <2>3 DEF Passed, TabInv, InHand, At
<1> QED BY <1>1, <1>2, <1>4, <1>5, PutTab DEF Effect, startupVars

----------------------------------------------------------------------------
(***************************************************************************)
(* What has been checked not to be there                                   *)
(***************************************************************************)

Checked(p) ==
  ~request[p].overtaken =>
    /\ PastUsersCheck(p) => ~UsersExist
    /\ At(p, "newEnvironment") => ~Taken(request[p].user, request[p].slug)

LEMMA CheckedIs == DuplicatesOverlap <=> \A p \in Tab : Checked(p)
  BY DEF DuplicatesOverlap, Checked

(* Nothing that others have checked is inserted.                            *)
LEMMA NothingInserted ==
  ASSUME AccountsInv, NEW t \in Tab, NEW q, Put(t, q), users' = users,
         \A e \in Name \X Slug : environments'[e] > 0 => environments[e] > 0,
         Checked(t)'
  PROVE  DuplicatesOverlap'
<1>1. ASSUME NEW p \in Tab, p # t PROVE Checked(p)'
  <2>1. request'[p] = request[p] /\ Checked(p) /\ TabInv(p)
    BY <1>1, CheckedIs DEF AccountsInv, Put
  <2>2. At(p, "newEnvironment") => <<request[p].user, request[p].slug>> \in Name \X Slug
    BY <2>1, HandIsUser DEF TabInv, At, UsesUser
  <2>3. At(p, "newEnvironment") /\ Taken(request[p].user, request[p].slug)' =>
          Taken(request[p].user, request[p].slug)
    BY <2>1, <2>2 DEF Taken
  <2> QED BY <2>1, <2>3 DEF Checked, PastUsersCheck, At, UsersExist
<1>2. \A p \in Tab : Checked(p)'
  BY <1>1
<1> QED BY <1>2 DEF DuplicatesOverlap, Checked

LEMMA ArriveChecked ==
  ASSUME AccountsInv, NEW t \in Tab, NEW r \in Visits \cup Redirects, Arrive(t, r)
  PROVE  DuplicatesOverlap'
<1>1. PICK q, c : Put(t, q) /\ SetCookie(t, c) /\ Passed(q) /\ c \in 0..Len(sessions)
  BY ArrivePasses
<1>2. UNCHANGED <<users, environments>>
  BY DEF Arrive, startupVars, rows
<1>3. Checked(t)'
  <2>1. request'[t] = q
    BY <1>1, PutTab
  <2> QED BY ONLY <1>1, <1>2, <2>1 DEF Passed, Checked, PastUsersCheck, At, UsersExist
<1> QED BY <1>1, <1>2, <1>3, NothingInserted

(* A request that is neither past a check then.                             *)
LEMMA Unchecked ==
  ASSUME AccountsInv, NEW t \in Tab, NEW q, Put(t, q), users' = users,
         \A e \in Name \X Slug : environments'[e] > 0 => environments[e] > 0,
         q.next \in {"visit", "follow", "signedOut", "updateUserId"}
  PROVE  DuplicatesOverlap'
<1>1. request'[t] = q
  BY PutTab
<1>2. Checked(t)'
  BY ONLY <1>1, q.next \in {"visit", "follow", "signedOut", "updateUserId"}
  DEF Checked, PastUsersCheck, At
<1> QED BY <1>2, NothingInserted

LEMMA FinishChecked ==
  ASSUME AccountsInv, NEW t \in Tab, Finish(t), users' = users,
         \A e \in Name \X Slug : environments'[e] > 0 => environments[e] > 0
  PROVE  DuplicatesOverlap'
<1>1. Put(t, Idle) /\ Idle.next = "visit"
  BY DEF Finish, Idle
<1> QED BY <1>1, Unchecked

LEMMA GoToChecked ==
  ASSUME AccountsInv, NEW t \in Tab, NEW x, GoTo(t, x), users' = users, UNCHANGED environments
  PROVE  DuplicatesOverlap'
<1> DEFINE q == [Idle EXCEPT !.next = "follow", !.path = x]
<1>1. Put(t, q) /\ q.next = "follow"
  BY DEF GoTo, Idle
<1> HIDE DEF q
<1> QED BY <1>1, Unchecked

LEMMA FindSetupSessionChecked ==
  ASSUME AccountsInv, NEW t \in Tab, FindSetupSession(t) PROVE DuplicatesOverlap'
<1> DEFINE v == SetupSession(request[t].session, Held(t))
<1>1. /\ request[t].next \in {"userPage", "userHtmxRoute"}
      /\ UNCHANGED <<users, environments>>
      /\ Put(t, IF v.next = "follow" THEN [Idle EXCEPT !.next = "follow", !.path = v.path]
                ELSE IF At(t, "userPage") THEN Idle
                ELSE [request[t] EXCEPT !.next = "newAdminUser"])
  BY DEF FindSetupSession, startupVars, rows
<1> HIDE DEF v
<1>2. CASE v.next = "follow"
  BY <1>1, <1>2, GoToChecked DEF GoTo
<1>3. CASE v.next # "follow" /\ At(t, "userPage")
  BY <1>1, <1>3, Unchecked DEF Idle
<1>4. CASE v.next # "follow" /\ ~At(t, "userPage")
  <2>1. PICK q : q = [request[t] EXCEPT !.next = "newAdminUser"]
    OBVIOUS
  <2>2. Put(t, q) /\ request'[t] = q /\ Checked(t) /\ request[t] \in Request(Len(sessions))
    BY <1>1, <1>4, <2>1, PutTab, CheckedIs DEF AccountsInv, TabInv
  <2>3. q.next = "newAdminUser" /\ q.overtaken = request[t].overtaken
    BY <2>1, <2>2 DEF Request
  <2>4. Checked(t)'
    BY ONLY <1>1, <2>2, <2>3 DEF Checked, PastUsersCheck, At, UsersExist
  <2> QED BY <1>1, <2>2, <2>4, NothingInserted
<1> QED BY <1>2, <1>3, <1>4

LEMMA CheckSlugChecked ==
  ASSUME AccountsInv, NEW t \in Tab, CheckSlug(t) PROVE DuplicatesOverlap'
<1>1. UNCHANGED <<users, environments>>
  BY DEF CheckSlug, startupVars, rows
<1>2. PICK slug \in Slug :
        IF Taken(request[t].user, slug) THEN Finish(t)
        ELSE Put(t, [request[t] EXCEPT !.next = "newEnvironment", !.slug = slug])
  BY DEF CheckSlug
<1>3. CASE Taken(request[t].user, slug)
  <2>1. Finish(t)
    BY <1>2, <1>3
  <2> QED BY <1>1, <2>1, FinishChecked
<1>4. CASE ~Taken(request[t].user, slug)
  <2>1. PICK q : q = [request[t] EXCEPT !.next = "newEnvironment", !.slug = slug]
    OBVIOUS
  <2>2. Put(t, q) /\ request'[t] = q /\ request[t] \in Request(Len(sessions))
    BY <1>2, <1>4, <2>1, PutTab DEF AccountsInv, TabInv
  <2>3. q.next = "newEnvironment" /\ q.user = request[t].user /\ q.slug = slug
    BY <2>1, <2>2 DEF Request
  <2>4. Checked(t)'
    BY ONLY <1>1, <1>4, <2>2, <2>3 DEF Checked, PastUsersCheck, At, Taken
  <2> QED BY <1>1, <2>2, <2>4, NothingInserted
<1> QED BY <1>3, <1>4

(* The one that inserts tells the others, for the proof's sake.             *)
LEMMA NewAdminUserChecked ==
  ASSUME AccountsInv, NEW t \in Tab, NewAdminUser(t) PROVE DuplicatesOverlap'
<1>1. UNCHANGED environments
  BY DEF NewAdminUser
<1>2. CASE Finish(t) /\ UNCHANGED users
  BY <1>1, <1>2, FinishChecked
<1>3. CASE \E name \in Name :
             request' = [p \in Tab |->
               IF p = t THEN [request[t] EXCEPT !.next = "updateUserId", !.user = name]
               ELSE [request[p] EXCEPT !.overtaken = @ \/ PastUsersCheck(p)]]
  <2>1. PICK name \in Name :
             request' = [p \in Tab |->
               IF p = t THEN [request[t] EXCEPT !.next = "updateUserId", !.user = name]
               ELSE [request[p] EXCEPT !.overtaken = @ \/ PastUsersCheck(p)]]
    BY <1>3
  <2>2. \A p \in Tab : request[p] \in Request(Len(sessions)) /\ Checked(p)
    BY CheckedIs DEF AccountsInv, TabInv
  <2>3. Checked(t)'
    <3>1. request'[t].next = "updateUserId"
      BY <2>1, <2>2 DEF Request
    <3> QED BY ONLY <3>1 DEF Checked, PastUsersCheck, At
  <2>4. ASSUME NEW p \in Tab, p # t PROVE Checked(p)'
    <3>1. /\ request'[p].next = request[p].next /\ request'[p].user = request[p].user
          /\ request'[p].slug = request[p].slug
          /\ request'[p].overtaken <=> (request[p].overtaken \/ PastUsersCheck(p))
      BY <2>1, <2>2, <2>4 DEF Request
    <3> QED BY ONLY <1>1, <2>2, <3>1, p \in Tab DEF Checked, PastUsersCheck, At, Taken
  <2>5. \A p \in Tab : Checked(p)'
    BY <2>3, <2>4
  <2> QED BY <2>5 DEF DuplicatesOverlap, Checked
<1> QED BY <1>2, <1>3 DEF NewAdminUser

LEMMA NewEnvironmentChecked ==
  ASSUME AccountsInv, NEW t \in Tab, NewEnvironment(t) PROVE DuplicatesOverlap'
<1> DEFINE same(p) == /\ At(p, "newEnvironment")
                      /\ request[p].user = request[t].user
                      /\ request[p].slug = request[t].slug
<1>1. /\ UNCHANGED users
      /\ environments' = [environments EXCEPT ![<<request[t].user, request[t].slug>>] = @ + 1]
      /\ request' = [p \in Tab |->
           IF p = t THEN Idle ELSE [request[p] EXCEPT !.overtaken = @ \/ same(p)]]
  BY DEF NewEnvironment, startupVars
<1>2. \A p \in Tab : request[p] \in Request(Len(sessions)) /\ Checked(p) /\ TabInv(p)
  BY CheckedIs DEF AccountsInv, TabInv
<1>3. Checked(t)'
  <2>1. request'[t].next = "visit"
    BY <1>1 DEF Idle
  <2> QED BY ONLY <2>1 DEF Checked, PastUsersCheck, At
<1>4. ASSUME NEW p \in Tab, p # t PROVE Checked(p)'
  <2>1. /\ request'[p].next = request[p].next /\ request'[p].user = request[p].user
        /\ request'[p].slug = request[p].slug
        /\ request'[p].overtaken <=> request[p].overtaken \/ same(p)
    BY <1>1, <1>2, <1>4 DEF Request, At
  <2>2. At(p, "newEnvironment") => <<request[p].user, request[p].slug>> \in Name \X Slug
    BY <1>2, HandIsUser DEF TabInv, At, UsesUser
  <2>3. At(p, "newEnvironment") /\ ~same(p) =>
          environments'[<<request[p].user, request[p].slug>>]
            = environments[<<request[p].user, request[p].slug>>]
    BY <1>1, <2>2 DEF AccountsInv, RowInv
  <2> QED BY ONLY <1>1, <1>2, <2>1, <2>3, p \in Tab
    DEF Checked, PastUsersCheck, At, Taken, UsersExist
<1>5. \A p \in Tab : Checked(p)'
  BY <1>3, <1>4
<1> QED BY <1>5 DEF DuplicatesOverlap, Checked

LEMMA DeleteEnvironmentChecked ==
  ASSUME AccountsInv, NEW t \in Tab, DeleteEnvironment(t) PROVE DuplicatesOverlap'
<1>1. Finish(t) /\ users' = users
  BY DEF DeleteEnvironment, startupVars
<1>2. \A e \in Name \X Slug : environments'[e] > 0 => environments[e] > 0
  <2>1. CASE UNCHANGED environments
    BY <2>1
  <2>2. CASE \E slug \in Slug :
               /\ Taken(request[t].user, slug)
               /\ environments' = [environments EXCEPT ![<<request[t].user, slug>>] = @ - 1]
    <3>1. PICK d : environments' = [environments EXCEPT ![d] = @ - 1]
      BY <2>2
    <3>2. ASSUME NEW e \in Name \X Slug, environments'[e] > 0 PROVE environments[e] > 0
      <4>1. environments[e] \in Nat
        BY DEF AccountsInv, RowInv
      <4>2. environments'[e] = environments[e] \/ environments'[e] = environments[e] - 1
        BY <3>1 DEF AccountsInv, RowInv
      <4> QED BY <3>2, <4>1, <4>2
    <3> QED BY <3>2
  <2> QED BY <2>1, <2>2 DEF DeleteEnvironment
<1> QED BY <1>1, <1>2, FinishChecked

LEMMA HandlerChecked ==
  ASSUME AccountsInv, NEW t \in Tab, Handler(t) \/ Fail(t)
  PROVE  DuplicatesOverlap'
<1>1. CASE SecretHtmxRoute(t) \/ LoginHtmxRoute(t)
  <2>1. UNCHANGED <<users, environments>>
    BY <1>1 DEF SecretHtmxRoute, LoginHtmxRoute, startupVars
  <2>2. Finish(t) \/ \E x : GoTo(t, x)
    BY <1>1 DEF SecretHtmxRoute, LoginHtmxRoute
  <2> QED BY <2>1, <2>2, FinishChecked, GoToChecked
<1>2. CASE UpdateUserId(t) \/ SignedOut(t)
  <2>1. UNCHANGED <<users, environments>>
    BY <1>2 DEF UpdateUserId, SignedOut, startupVars, rows
  <2>2. \E x : GoTo(t, x)
    BY <1>2 DEF UpdateUserId, SignedOut, Redirect, RedirectWith
  <2> QED BY <2>1, <2>2, GoToChecked
<1>3. CASE SignOut(t)
  <2>1. PICK q : q = [request[t] EXCEPT !.next = "signedOut"]
    OBVIOUS
  <2>2. request[t] \in Request(Len(sessions))
    BY DEF AccountsInv, TabInv
  <2>3. Put(t, q) /\ q.next = "signedOut" /\ UNCHANGED <<users, environments>>
    BY <1>3, <2>1, <2>2 DEF SignOut, Request, startupVars
  <2> QED BY <2>3, Unchecked
<1>4. CASE NewToken(t) \/ RevokeToken(t) \/ Answer(t) \/ Fail(t)
  <2>1. Finish(t) /\ UNCHANGED <<users, environments>>
    BY <1>4 DEF NewToken, RevokeToken, Answer, Fail, startupVars, rows
  <2> QED BY <2>1, FinishChecked
<1> QED BY <1>1, <1>2, <1>3, <1>4, FindSetupSessionChecked, NewAdminUserChecked,
  CheckSlugChecked, NewEnvironmentChecked, DeleteEnvironmentChecked DEF Handler

----------------------------------------------------------------------------
(***************************************************************************)
(* Replicas                                                                *)
(***************************************************************************)

(* A replica that starts or ends does nothing to what another one serves.   *)
LEMMA OnlyItself ==
  ASSUME StartupTypeOK, NEW r \in Replica, ReplicaStep(r), kv = None => phase[r] # "serving"
  PROVE  /\ \A p \in Replica \ {r} : phase'[p] = phase[p] /\ secret'[p] = secret[p]
         /\ users' = users
         /\ kv # None => kv' = kv
<1> USE DEF StartupTypeOK, Enter, Die, Serve
<1>1. CASE GetMigrations(r)
  BY <1>1 DEF GetMigrations
<1>2. CASE \E m \in Migration : RunScript(r, m)
  BY <1>2 DEF RunScript
<1>3. CASE RecordVersion(r)
  BY <1>3 DEF RecordVersion
<1>4. CASE NeedsSecret(r)
  BY <1>4 DEF NeedsSecret
<1>5. CASE SelectSecret(r)
  BY <1>5 DEF SelectSecret
<1>6. CASE TrySessionLock(r)
  BY <1>6 DEF TrySessionLock
<1>7. CASE InsertSecret(r)
  BY <1>7 DEF InsertSecret
<1>8. CASE PollSecret(r)
  BY <1>8 DEF PollSecret
<1>9. CASE CloseConnection(r)
  BY <1>9 DEF CloseConnection, replica
<1>10. CASE Crash(r)
  BY <1>10 DEF Crash
<1> QED BY <1>1, <1>2, <1>3, <1>4, <1>5, <1>6, <1>7, <1>8, <1>9, <1>10
  DEF ReplicaStep, NewApp, SetupMigrations, GetOrCreateSecret

LEMMA NewAppStarts ==
  ASSUME NEW r \in Replica, NewApp(r) PROVE phase[r] # "serving"
  BY DEF NewApp, SetupMigrations, GetOrCreateSecret, GetMigrations, RunScript, RecordVersion,
     NeedsSecret, SelectSecret, TrySessionLock, InsertSecret, PollSecret

LEMMA StartupStepKeeps == ASSUME AccountsInv, StartupStep PROVE AccountsInv'
<1>1. PICK r \in Replica :
        /\ ReplicaStep(r) /\ UNCHANGED <<rows, cookie, jar>>
        /\ \/ NewApp(r) /\ UNCHANGED request
           \/ CloseConnection(r) /\ UNCHANGED request
           \/ request' = [t \in Tab |->
                IF Serves[t] = r /\ ~At(t, "follow") THEN Idle ELSE request[t]]
  BY DEF StartupStep, ReplicaStep, accountVars
<1>2. /\ StartupInv /\ RowInv /\ StartupTypeOK /\ Len(sessions) \in Nat
      /\ request = [t \in Tab |-> request[t]]
      /\ \A t \in Tab : TabInv(t) /\ Checked(t)
  BY CheckedIs DEF AccountsInv, StartupInv, RowInv
<1>3. StartupInv'
  BY <1>1, <1>2, StepStartup
<1>4. /\ \A p \in Replica \ {r} : phase'[p] = phase[p] /\ secret'[p] = secret[p]
      /\ users' = users /\ (kv # None => kv' = kv)
  BY <1>1, <1>2, OnlyItself DEF StartupInv, SecretFirst
<1>5. UNCHANGED <<sessions, environments, tokens>>
  BY <1>1 DEF rows
<1>6. RowInv'
  <2>1. \A s \in 1..Len(sessions) : GoodSession(sessions[s])'
    BY <1>2, <1>4, <1>5 DEF RowInv, GoodSession
  <2> QED BY <1>1, <1>2, <1>4, <1>5, <2>1 DEF RowInv
<1>7. request' = [t \in Tab |-> request'[t]]
  BY <1>1, <1>2
<1>8. ASSUME NEW t \in Tab PROVE request'[t] \in {Idle, request[t]}
  BY <1>1, <1>8
<1>9. ASSUME NEW t \in Tab, request'[t] = request[t], request[t] # Idle
      PROVE  InHand(t) => phase'[Serves[t]] = phase[Serves[t]]
                          /\ secret'[Serves[t]] = secret[Serves[t]]
  <2> SUFFICES ASSUME InHand(t) PROVE /\ phase'[Serves[t]] = phase[Serves[t]]
                                      /\ secret'[Serves[t]] = secret[Serves[t]]
    OBVIOUS
  <2>1. phase[Serves[t]] = "serving" /\ Serves[t] \in Replica
    BY <1>2, AccountsAssumption DEF TabInv
  <2>2. CASE Serves[t] # r
    BY <1>4, <2>1, <2>2
  <2>3. CASE Serves[t] = r
    <3>1. CASE NewApp(r)
      BY <2>1, <2>3, <3>1, NewAppStarts
    <3>2. CASE CloseConnection(r)
      BY <3>2 DEF CloseConnection, replica
    <3>3. CASE request' = [p \in Tab |->
                IF Serves[p] = r /\ ~At(p, "follow") THEN Idle ELSE request[p]]
      <4>1. request'[t] = Idle
        BY <2>3, <3>3 DEF InHand
      <4> QED BY <1>9, <4>1
    <3> QED BY <1>1, <3>1, <3>2, <3>3
  <2> QED BY <2>2, <2>3
<1>10. ASSUME NEW t \in Tab PROVE TabInv(t)' /\ Checked(t)'
  <2>1. CASE request'[t] = Idle
    <3>1. TabInv(t)'
      BY <1>2, <1>5, <2>1, IdleTab
    <3>2. Idle.next = "visit"
      BY DEF Idle
    <3>3. Checked(t)'
      BY ONLY <2>1, <3>2 DEF Checked, PastUsersCheck, At
    <3> QED BY <3>1, <3>3
  <2>2. CASE request'[t] = request[t] /\ request[t] # Idle
    <3>1. /\ TabInv(t) /\ Checked(t) /\ UNCHANGED <<users, sessions, environments>>
          /\ request'[t] = request[t]
          /\ InHand(t) => phase'[Serves[t]] = phase[Serves[t]]
                          /\ secret'[Serves[t]] = secret[Serves[t]]
      BY <1>2, <1>4, <1>5, <1>9, <2>2
    <3>2. TabInv(t)'
      BY ONLY <3>1 DEF TabInv, InHand, At, Found
    <3>3. Checked(t)'
      BY ONLY <3>1 DEF Checked, PastUsersCheck, At, UsersExist, Taken
    <3> QED BY <3>2, <3>3
  <2> QED BY <1>8, <2>1, <2>2
<1>11. DuplicatesOverlap'
  <2>1. \A t \in Tab : Checked(t)'
    BY <1>10
  <2> QED BY <2>1 DEF DuplicatesOverlap, Checked
<1> QED BY <1>3, <1>6, <1>7, <1>10, <1>11 DEF AccountsInv

LEMMA NextAccounts == AccountsInv /\ [Next]_vars => AccountsInv'
<1> SUFFICES ASSUME AccountsInv, [Next]_vars PROVE AccountsInv'
  OBVIOUS
<1>1. CASE StartupStep
  BY <1>1, StartupStepKeeps
<1>2. ASSUME NEW t \in Tab, Visit(t) PROVE AccountsInv'
  <2>1. PICK r \in Visits \cup Redirects : Arrive(t, r)
    BY <1>2 DEF Visit
  <2> QED BY <2>1, ArriveEffect, ArriveChecked, EffectKeeps
<1>3. ASSUME NEW t \in Tab, Follow(t) PROVE AccountsInv'
  <2>1. request[t].path \in Targets
    BY <1>3 DEF Follow, AccountsInv, TabInv
  <2>2. <<"GET", request[t].path>> \in Redirects
    BY <2>1, Zenon DEF Redirects, Targets
  <2>3. PICK r \in Visits \cup Redirects : Arrive(t, r)
    BY <1>3, <2>2 DEF Follow
  <2> QED BY <2>3, ArriveEffect, ArriveChecked, EffectKeeps
<1>4. ASSUME NEW t \in Tab, Handler(t) \/ Fail(t) PROVE AccountsInv'
  BY <1>4, HandlerEffect, HandlerChecked, EffectKeeps
<1>5. CASE UNCHANGED vars
  <2>1. UNCHANGED <<users, applied, recorded, kv, lock, phase, missing, script, secret, crashes,
                    sessions, environments, tokens, jar, cookie, request>>
    BY <1>5 DEF vars, startupVars, schema, replica, accountVars, rows
  <2>2. StartupInv'
    BY <2>1, ServeStartup DEF AccountsInv, schema, replica
  <2>3. RowInv'
    BY <2>1 DEF AccountsInv, RowInv, GoodSession
  <2>4. \A t \in Tab : TabInv(t)'
    BY <2>1 DEF AccountsInv, TabInv, InHand, At, Found
  <2>5. DuplicatesOverlap'
    BY <2>1 DEF AccountsInv, DuplicatesOverlap, PastUsersCheck, At, UsersExist, Taken
  <2> QED BY <2>1, <2>2, <2>3, <2>4, <2>5 DEF AccountsInv
<1> QED BY <1>1, <1>2, <1>3, <1>4, <1>5 DEF Next

LEMMA AlwaysAccounts == Spec => []AccountsInv
  BY InitAccounts, NextAccounts, PTL DEF Spec

----------------------------------------------------------------------------
(***************************************************************************)
(* Redirects: each brings the tab nearer to a page.                        *)
(***************************************************************************)

Gate(path) == Chain[<<"GET", path>>][1]

(* How many requests a tab that is at a path with a cookie is from its page,*)
(* at most.  A cookie may turn out to be invalid, which costs one more.     *)
Distance(at) ==
  CASE at.path = <<>> -> 0
    [] at.path # <<>> /\ UsersExist ->
         (CASE Gate(at.path) = "loginMiddleware" -> IF at.cookie = 0 THEN 1 ELSE 3
            [] Gate(at.path) = "userProtected"   -> 2
            [] OTHER                             -> 4)
    [] OTHER ->
         (CASE Gate(at.path) = "secretMiddleware" -> IF at.cookie = 0 THEN 1 ELSE 3
            [] Gate(at.path) = "userMiddleware"   -> 2
            [] Gate(at.path) = "loginMiddleware"  -> IF at.cookie = 0 THEN 2 ELSE 3
            [] OTHER                              -> 3)

Place == [path : {<<>>} \cup Targets, cookie : 0..Len(sessions)]

LEMMA FirstOfTwo == ASSUME NEW a, NEW b PROVE <<a, b>>[1] = a
  OBVIOUS

LEMMA Gates ==
  /\ Gate(<<"", "login">>) = "loginMiddleware"
  /\ Gate(<<"", "dashboard">>) = "userProtected"
  /\ Gate(<<"", "setup", "secret">>) = "secretMiddleware"
  /\ Gate(<<"", "setup", "user">>) = "userMiddleware"
<1>1. ASSUME NEW p \in Targets PROVE Gate(p) = Dispatch("GET", p)[1]
  <2>1. <<"GET", p>> \in Visits \cup Redirects
    <3>1. Redirects = {"GET"} \X Targets
      BY DEF Targets, Redirects
    <3> HIDE DEF Targets
    <3> QED BY <3>1
  <2>2. Chain[<<"GET", p>>] = Dispatch(<<"GET", p>>[1], <<"GET", p>>[2])
    BY <2>1, Zenon DEF Chain
  <2>3. <<"GET", p>>[1] = "GET" /\ <<"GET", p>>[2] = p
    OBVIOUS
  <2> QED BY ONLY <2>2, <2>3, Zenon DEF Gate
<1>2. Gate(<<"", "login">>) = Dispatch("GET", <<"", "login">>)[1]
  BY <1>1, TargetIn, Zenon
<1>3. Gate(<<"", "dashboard">>) = Dispatch("GET", <<"", "dashboard">>)[1]
  BY <1>1, TargetIn, Zenon
<1>4. Gate(<<"", "setup", "secret">>) = Dispatch("GET", <<"", "setup", "secret">>)[1]
  BY <1>1, TargetIn, Zenon
<1>5. Gate(<<"", "setup", "user">>) = Dispatch("GET", <<"", "setup", "user">>)[1]
  BY <1>1, TargetIn, Zenon
<1> QED BY ONLY <1>2, <1>3, <1>4, <1>5, PageRoutes, FirstOfTwo, Zenon

LEMMA GateOf == \A p \in Targets :
  /\ p # <<>>
  /\ Gate(p) \in {"loginMiddleware", "userProtected", "secretMiddleware", "userMiddleware"}
<1>1. ASSUME NEW a, NEW b, NEW c PROVE <<a, b>> # <<>> /\ <<a, b, c>> # <<>>
  OBVIOUS
<1>2. \A p \in Targets : p # <<>>
  BY ONLY <1>1, Zenon DEF Targets
<1>3. \A p \in Targets :
        Gate(p) \in {"loginMiddleware", "userProtected", "secretMiddleware", "userMiddleware"}
  BY ONLY Gates, Zenon DEF Targets
<1> QED BY <1>2, <1>3

LEMMA Distances ==
  ASSUME NEW c \in Nat
  PROVE  /\ Distance([path |-> <<>>, cookie |-> c]) = 0
         /\ Distance([path |-> <<"", "login">>, cookie |-> c])
              = IF c # 0 THEN 3 ELSE IF UsersExist THEN 1 ELSE 2
         /\ Distance([path |-> <<"", "dashboard">>, cookie |-> c])
              = IF UsersExist THEN 2 ELSE 3
         /\ Distance([path |-> <<"", "setup", "secret">>, cookie |-> c])
              = IF UsersExist THEN 4 ELSE IF c = 0 THEN 1 ELSE 3
         /\ Distance([path |-> <<"", "setup", "user">>, cookie |-> c])
              = IF UsersExist THEN 4 ELSE 2
<1>1. ASSUME NEW p, p # <<>>
      PROVE  /\ Gate(p) = "loginMiddleware" =>
                  Distance([path |-> p, cookie |-> c])
                    = IF c # 0 THEN 3 ELSE IF UsersExist THEN 1 ELSE 2
             /\ Gate(p) = "userProtected" =>
                  Distance([path |-> p, cookie |-> c]) = IF UsersExist THEN 2 ELSE 3
             /\ Gate(p) = "secretMiddleware" =>
                  Distance([path |-> p, cookie |-> c])
                    = IF UsersExist THEN 4 ELSE IF c = 0 THEN 1 ELSE 3
             /\ Gate(p) = "userMiddleware" =>
                  Distance([path |-> p, cookie |-> c]) = IF UsersExist THEN 4 ELSE 2
  BY <1>1 DEF Distance
<1>2. Distance([path |-> <<>>, cookie |-> c]) = 0
  BY DEF Distance
<1>3. <<"", "login">> # <<>> /\ <<"", "dashboard">> # <<>>
        /\ <<"", "setup", "secret">> # <<>> /\ <<"", "setup", "user">> # <<>>
  BY GateOf, TargetIn, Zenon
<1> QED BY ONLY <1>1, <1>2, <1>3, Gates, Zenon

(* What the middleware of a page makes of a cookie: the page, or a place    *)
(* that is nearer to one.                                                   *)
Nearer(m, n, c) ==
  \/ n = [path |-> <<>>, cookie |-> c]
  \/ /\ m = "loginMiddleware"
     /\ \/ c # 0 /\ UsersExist /\ n = [path |-> <<"", "dashboard">>, cookie |-> c]
        \/ c # 0 /\ ~UsersExist /\ n = [path |-> <<"", "setup", "user">>, cookie |-> c]
        \/ c = 0 /\ ~UsersExist /\ n = [path |-> <<"", "setup", "secret">>, cookie |-> c]
  \/ /\ m = "userProtected" /\ n = [path |-> <<"", "login">>, cookie |-> 0]
  \/ /\ m = "secretMiddleware"
     /\ \/ UsersExist /\ n = [path |-> <<"", "login">>, cookie |-> c]
        \/ c # 0 /\ ~UsersExist /\ n = [path |-> <<"", "setup", "user">>, cookie |-> c]
  \/ /\ m = "userMiddleware"
     /\ \/ UsersExist /\ n = [path |-> <<"", "login">>, cookie |-> c]
        \/ ~UsersExist /\ n = [path |-> <<"", "setup", "secret">>, cookie |-> 0]

LEMMA SentTo ==
  ASSUME NEW path, NEW s
  PROVE  SendTo(path, s).path = path /\ SendTo(path, s).cookie = s
  BY DEF SendTo

LEMMA PassedOn ==
  ASSUME NEW s, NEW session, NEW user
  PROVE  PassOn(s, session, user).path = <<>> /\ PassOn(s, session, user).cookie = s
<1> DEFINE e == <<>>
<1>1. PassOn(s, session, user)
        = [next |-> "pass", path |-> e, cookie |-> s, session |-> session, user |-> user]
  BY Zenon DEF PassOn
<1> HIDE DEF e
<1>2. PassOn(s, session, user).path = e /\ PassOn(s, session, user).cookie = s
  BY <1>1
<1> QED BY ONLY <1>2, Zenon DEF e

LEMMA HopNearer ==
  ASSUME RowInv, NEW at \in Place, at.path \in Targets, NEW n \in Hop(at)
  PROVE  Nearer(Gate(at.path), n, at.cookie)
<1> DEFINE m == Gate(at.path)
           c == at.cookie
           seen(v) == IF m = "userMiddleware" /\ v.next = "pass"
                      THEN SetupSession(v.session, v.cookie) ELSE v
<1>1. c \in 0..Len(sessions) /\ at.path # <<>>
      /\ m \in {"loginMiddleware", "userProtected", "secretMiddleware", "userMiddleware"}
  BY GateOf DEF Place
<1>2. PICK v \in Middleware(m, c) : n = [path |-> seen(v).path, cookie |-> seen(v).cookie]
  BY <1>1, Zenon DEF Hop, Gate
<1>3. Len(sessions) \in Nat
  BY DEF RowInv
<1> HIDE DEF m, c
<1> USE DEF SendTo, PassOn, Nearer
<1>4. CASE m = "loginMiddleware"
  <2>1. v = LoginMiddleware(c) /\ n = [path |-> v.path, cookie |-> v.cookie]
    BY <1>2, <1>4 DEF Middleware
  <2> QED BY ONLY <2>1, <1>4, Zenon DEF LoginMiddleware, m, c
<1>5. CASE m = "userProtected"
  <2>1. /\ v = UserProtected(c) \/ v = SendTo(<<"", "login">>, 0)
        /\ n = [path |-> v.path, cookie |-> v.cookie]
    BY <1>2, <1>5 DEF Middleware, Unreadable
  <2>2. v = SendTo(<<"", "login">>, 0) \/ v = PassOn(c, c, sessions[c].user)
    BY ONLY <2>1, Zenon DEF UserProtected
  <2> HIDE DEF SendTo, PassOn
  <2>3. CASE v = SendTo(<<"", "login">>, 0)
    <3>1. v.path = <<"", "login">> /\ v.cookie = 0
      BY ONLY <2>3, SentTo, Zenon
    <3> QED BY ONLY <2>1, <3>1, <1>5, Zenon DEF m, c, Nearer
  <2>4. CASE v = PassOn(c, c, sessions[c].user)
    <3> DEFINE u == sessions[c].user
    <3>0. v = PassOn(c, c, u)
      BY <2>4
    <3> HIDE DEF u
    <3>1. v.path = <<>> /\ v.cookie = c
      BY ONLY <3>0, PassedOn
    <3> QED BY ONLY <2>1, <3>1, Zenon DEF m, c, Nearer
  <2> QED BY <2>2, <2>3, <2>4
<1>6. CASE m = "secretMiddleware"
  <2>1. v = SecretMiddleware(c) /\ n = [path |-> v.path, cookie |-> v.cookie]
    BY <1>2, <1>6 DEF Middleware
  <2> QED BY ONLY <2>1, <1>6 DEF SecretMiddleware, m, c
<1>7. CASE m = "userMiddleware"
  <2>1. v = UserMiddleware(c)
    BY <1>2, <1>7 DEF Middleware
  <2>2. CASE UsersExist
    BY <1>2, <1>7, <2>1, <2>2 DEF UserMiddleware, m, c
  <2>3. CASE ~UsersExist /\ c = 0
    BY <1>2, <1>7, <2>1, <2>3 DEF UserMiddleware, m, c
  <2>4. CASE ~UsersExist /\ c # 0
    <3>1. v.next = "pass" /\ v.session = c /\ v.cookie = c
      BY <2>1, <2>4 DEF UserMiddleware
    <3>2. LET w == SetupSession(c, c) IN n = [path |-> w.path, cookie |-> w.cookie]
      BY <1>2, <1>7, <3>1
    <3>3. sessions[c].user = None
      BY <1>1, <1>3, <2>4 DEF RowInv, GoodSession, UsersExist
    <3> QED BY <1>7, <2>4, <3>2, <3>3 DEF SetupSession, m, c
  <2> QED BY <2>2, <2>3, <2>4
<1> QED BY <1>1, <1>4, <1>5, <1>6, <1>7 DEF m, c

LEMMA HopCloser ==
  ASSUME RowInv, NEW at \in Place, NEW n \in Hop(at)
  PROVE  n \in Place /\ ((n = at /\ Distance(n) = 0) \/ Distance(n) < Distance(at))
<1>1. CASE at.path = <<>>
  <2>1. n = at
    BY <1>1 DEF Hop
  <2> QED BY <1>1, <2>1 DEF Distance
<1>2. CASE at.path # <<>>
  <2> DEFINE c == at.cookie
             m == Gate(at.path)
  <2>1. at.path \in Targets /\ c \in 0..Len(sessions) /\ Len(sessions) \in Nat
    BY <1>2 DEF Place, RowInv
  <2>2. Nearer(m, n, c)
    BY <2>1, HopNearer
  <2>3. /\ m = "loginMiddleware" =>
             Distance(at) = IF c # 0 THEN 3 ELSE IF UsersExist THEN 1 ELSE 2
        /\ m = "userProtected" => Distance(at) = IF UsersExist THEN 2 ELSE 3
        /\ m = "secretMiddleware" =>
             Distance(at) = IF UsersExist THEN 4 ELSE IF c = 0 THEN 1 ELSE 3
        /\ m = "userMiddleware" => Distance(at) = IF UsersExist THEN 4 ELSE 2
    BY <1>2 DEF Distance
  <2>4. m \in {"loginMiddleware", "userProtected", "secretMiddleware", "userMiddleware"}
    BY <2>1, GateOf
  <2> HIDE DEF m, c
  <2>5. c \in Nat /\ 0 \in Nat /\ 0 \in 0..Len(sessions)
    BY <2>1
  <2>6. \A p \in {<<>>} \cup Targets, d \in 0..Len(sessions) : [path |-> p, cookie |-> d] \in Place
    BY DEF Place
  <2>7. n \in Place
    BY ONLY <2>1, <2>2, <2>5, <2>6, NoPath, TargetIn, Zenon DEF Nearer
  <2> DEFINE page == [path |-> <<>>, cookie |-> c]
             login == [path |-> <<"", "login">>, cookie |-> c]
             login0 == [path |-> <<"", "login">>, cookie |-> 0]
             dashboard == [path |-> <<"", "dashboard">>, cookie |-> c]
             start == [path |-> <<"", "setup", "secret">>, cookie |-> c]
             start0 == [path |-> <<"", "setup", "secret">>, cookie |-> 0]
             user == [path |-> <<"", "setup", "user">>, cookie |-> c]
  <2>8. Nearer(m, n, c) <=>
          \/ n = page
          \/ /\ m = "loginMiddleware"
             /\ \/ c # 0 /\ UsersExist /\ n = dashboard
                \/ c # 0 /\ ~UsersExist /\ n = user
                \/ c = 0 /\ ~UsersExist /\ n = start
          \/ m = "userProtected" /\ n = login0
          \/ /\ m = "secretMiddleware"
             /\ \/ UsersExist /\ n = login
                \/ c # 0 /\ ~UsersExist /\ n = user
          \/ /\ m = "userMiddleware"
             /\ \/ UsersExist /\ n = login
                \/ ~UsersExist /\ n = start0
    BY ONLY Zenon DEF Nearer
  <2>9. /\ Distance(page) = 0
        /\ Distance(login) = IF c # 0 THEN 3 ELSE IF UsersExist THEN 1 ELSE 2
        /\ Distance(dashboard) = IF UsersExist THEN 2 ELSE 3
        /\ Distance(start) = IF UsersExist THEN 4 ELSE IF c = 0 THEN 1 ELSE 3
        /\ Distance(user) = IF UsersExist THEN 4 ELSE 2
    BY ONLY <2>5, Distances, Zenon
  <2>10. /\ Distance(login0) = IF 0 # 0 THEN 3 ELSE IF UsersExist THEN 1 ELSE 2
         /\ Distance(start0) = IF UsersExist THEN 4 ELSE IF 0 = 0 THEN 1 ELSE 3
    BY ONLY <2>5, Distances, Zenon
  <2> HIDE DEF page, login, login0, dashboard, start, start0, user
  <2> QED BY ONLY <2>2, <2>3, <2>4, <2>5, <2>7, <2>8, <2>9, <2>10
<1> QED BY <1>1, <1>2

LEMMA DistanceIs == ASSUME NEW at \in Place
  PROVE Distance(at) \in 0..4 /\ (Distance(at) = 0 => at.path = <<>>)
  BY GateOf DEF Distance, Place

LEMMA HopsCloser ==
  ASSUME RowInv, NEW k \in 0..4, NEW places, \A at \in places : at \in Place /\ Distance(at) <= k
  PROVE  \A n \in Hops(places) : n \in Place /\ (Distance(n) <= k - 1 \/ Distance(n) = 0)
<1> SUFFICES ASSUME NEW at \in places, NEW n \in Hop(at)
             PROVE  n \in Place /\ (Distance(n) <= k - 1 \/ Distance(n) = 0)
  BY DEF Hops
<1>1. n \in Place /\ (Distance(n) = 0 \/ Distance(n) < Distance(at))
  BY HopCloser
<1> QED BY <1>1, DistanceIs

(* The inductive invariant says that a session is of a user there is: while *)
(* there are no users the middleware of the set-up pages takes any session. *)
LEMMA RedirectsEndThere == RowInv => RedirectsEnd
<1> SUFFICES ASSUME RowInv, NEW b \in Browser, NEW r \in Redirects,
                    NEW at \in Hops(Hops(Hops(Hop([path |-> r[2], cookie |-> cookie[b]]))))
             PROVE  at.path = <<>>
  BY DEF RedirectsEnd
<1> DEFINE start == [path |-> r[2], cookie |-> cookie[b]]
           one == Hop(start)
           two == Hops(one)
           three == Hops(two)
           four == Hops(three)
<1>1. start \in Place
  <2>1. r[2] \in Targets
    BY TargetsAre
  <2> QED BY <2>1 DEF Place, RowInv
<1>2. at \in four
  OBVIOUS
<1> HIDE DEF start
<1>3. \A n \in one : n \in Place /\ Distance(n) <= 3
  <2> TAKE n \in one
  <2>1. n \in Place /\ (Distance(n) = 0 \/ Distance(n) < Distance(start))
    BY <1>1, HopCloser
  <2> QED BY <1>1, <2>1, DistanceIs
<1> HIDE DEF one
<1>4. \A n \in two : n \in Place /\ Distance(n) <= 2
  BY <1>3, HopsCloser, DistanceIs
<1> HIDE DEF two
<1>5. \A n \in three : n \in Place /\ Distance(n) <= 1
  BY <1>4, HopsCloser, DistanceIs
<1> HIDE DEF three
<1>6. \A n \in four : n \in Place /\ Distance(n) = 0
  BY <1>5, HopsCloser, DistanceIs
<1> HIDE DEF four
<1> QED BY <1>2, <1>6, DistanceIs

----------------------------------------------------------------------------
(***************************************************************************)
(* Theorems                                                                *)
(***************************************************************************)

(* Every variable keeps its type; a tab that follows a redirect is at one of*)
(* the four paths that middleware and handlers send it to.                  *)
THEOREM TypeCorrect == Spec => []TypeOK
  BY AlwaysAccounts, InvType, PTL

(* A replica that checks the secret of a set-up form (App.secret) has the   *)
(* one in the database, however many replicas race, crash and restart.      *)
THEOREM SecretAgrees == Spec => []SecretAgreement
<1>1. AccountsInv => SecretAgreement
  BY DEF AccountsInv, StartupInv
<1> QED BY <1>1, AlwaysAccounts, PTL

(* SetupMigrations records a version only after its script has run, and     *)
(* only a crash between the two leaves a script that has run unrecorded.    *)
THEOREM RecordedRuns == Spec => []RecordedHasRun
<1>1. AccountsInv => RecordedHasRun
  BY DEF AccountsInv, StartupInv
<1> QED BY <1>1, AlwaysAccounts, PTL

(* Replicas that poll for the secret are never all there is: one that is    *)
(* neither polling nor serving can still have the lock that the insert of   *)
(* getOrCreateSecret needs.                                                 *)
THEOREM SomeoneRemains == Spec => []SomeoneInserts
<1>1. AccountsInv => SomeoneInserts
  BY DEF AccountsInv, StartupInv
<1> QED BY <1>1, AlwaysAccounts, PTL

(* A session that secretHtmxRoute opens was opened with the secret in the   *)
(* database, never with the empty one of a replica that found users.        *)
THEOREM SetupProven == Spec => []SetupIsProven
<1>1. AccountsInv => SetupIsProven
  <2> SUFFICES ASSUME AccountsInv PROVE SetupIsProven
    OBVIOUS
  <2>1. DOMAIN sessions = 1..Len(sessions)
    BY DEF AccountsInv, RowInv
  <2> QED BY <2>1 DEF AccountsInv, RowInv, GoodSession, SetupIsProven
<1> QED BY <1>1, AlwaysAccounts, PTL

(* UpdateUserId binds a session to the user that was made in it, and a login*)
(* to the one who logged in, whatever other tabs do between the statements  *)
(* of userHtmxRoute.                                                        *)
THEOREM SessionsOwned == Spec => []SessionsAreOwn
<1>1. AccountsInv => SessionsAreOwn
  <2> SUFFICES ASSUME AccountsInv PROVE SessionsAreOwn
    OBVIOUS
  <2>1. DOMAIN sessions = 1..Len(sessions)
    BY DEF AccountsInv, RowInv
  <2> QED BY <2>1 DEF AccountsInv, RowInv, GoodSession, SessionsAreOwn
<1> QED BY <1>1, AlwaysAccounts, PTL

(* Two administrators, or two environments of the same owner and slug, need *)
(* two requests that overlap: what a request has checked not to be there is *)
(* not there until another one inserts it.                                  *)
THEOREM DuplicatesNeedOverlap == Spec => []DuplicatesOverlap
<1>1. AccountsInv => DuplicatesOverlap
  BY DEF AccountsInv
<1> QED BY <1>1, AlwaysAccounts, PTL

(* A handler that takes a user or a session from its context finds one      *)
(* there: the routes that main registers put the middleware that sets it in *)
(* front of every such handler.                                             *)
THEOREM HandlersFindTheirUser == Spec => []HandlersHaveTheirUser
<1>1. AccountsInv => HandlersHaveTheirUser
  <2> SUFFICES ASSUME AccountsInv PROVE HandlersHaveTheirUser
    OBVIOUS
  <2>1. DOMAIN sessions = 1..Len(sessions) /\ Len(sessions) \in Nat
    BY DEF AccountsInv, RowInv
  <2>2. ASSUME NEW t \in Tab
        PROVE  /\ request[t].next \in UsesUser => request[t].user \in users
               /\ request[t].next \in UsesSession =>
                    request[t].session \in DOMAIN sessions
    <3>1. TabInv(t)
      BY DEF AccountsInv
    <3> QED BY <2>1, <3>1 DEF TabInv, Request
  <2>3. ASSUME NEW i \in DOMAIN Routes, NEW b \in Browser,
               Last(Routes[i].chain) \in UsesUser,
               NEW v \in Admitted(Routes[i].chain, cookie[b]), v.next = "pass"
        PROVE  v.user \in users
    <3>1. PICK m \in Middlewares : \E h \in Behind(m) : Routes[i].chain = <<m, h>>
      BY <2>3, RouteOfUser
    <3>2. PICK h \in Behind(m) : Routes[i].chain = <<m, h>>
      BY <3>1
    <3>3. Len(Routes[i].chain) = 2 /\ Routes[i].chain[1] = m /\ Last(Routes[i].chain) = h
      BY <3>2 DEF Last
    <3>4. v \in Middleware(m, cookie[b]) /\ cookie[b] \in 0..Len(sessions)
      BY <3>3 DEF Admitted, AccountsInv, RowInv
    <3>5. Verdict(m, cookie[b], v)
      BY <3>4, Verdicts
    <3>6. m \in {"userProtected", "apiMiddleware"}
      <4>1. h \in UsesUser
        BY <2>3, <3>3
      <4> QED BY ONLY <4>1, h \in Behind(m), m \in Middlewares DEF Behind, Middlewares, UsesUser
    <3> QED BY ONLY <2>3, <3>5, <3>6 DEF Verdict
  <2> QED BY <2>2, <2>3 DEF HandlersHaveTheirUser
<1> QED BY <1>1, AlwaysAccounts, PTL

LEMMA OwnersStep ==
  ASSUME AccountsInv, [Next]_vars
  PROVE  /\ \A e \in Name \X Slug : environments'[e] < environments[e] => DeletedBy(e[1])
         /\ \A owner \in Name : tokens'[owner] < tokens[owner] => DeletedBy(owner)
<1>1. environments \in [Name \X Slug -> Nat] /\ tokens \in [Name -> Nat]
  BY DEF AccountsInv, RowInv
<1> DEFINE Goal == /\ \A e \in Name \X Slug :
                         environments'[e] < environments[e] => DeletedBy(e[1])
                   /\ \A owner \in Name : tokens'[owner] < tokens[owner] => DeletedBy(owner)
<1>2. CASE UNCHANGED <<environments, tokens>>
  BY <1>1, <1>2
<1>3. ASSUME NEW t \in Tab, NewEnvironment(t) PROVE Goal
  <2>1. PICK d : environments' = [environments EXCEPT ![d] = @ + 1]
    BY <1>3 DEF NewEnvironment
  <2>2. \A e \in Name \X Slug : environments[e] \in Nat /\
          (environments'[e] = environments[e] \/ environments'[e] = environments[e] + 1)
    BY <1>1, <2>1
  <2>3. \A e \in Name \X Slug : ~(environments'[e] < environments[e])
    BY ONLY <2>2
  <2>4. tokens' = tokens
    BY <1>3 DEF NewEnvironment
  <2> QED BY <1>1, <2>3, <2>4
<1>4. ASSUME NEW t \in Tab, DeleteEnvironment(t) PROVE Goal
  <2>1. tokens' = tokens /\ request'[t] = Idle
    BY <1>4, PutTab DEF DeleteEnvironment, Finish
  <2>2. CASE UNCHANGED environments
    BY <1>1, <2>1, <2>2
  <2>3. CASE \E slug \in Slug :
               /\ Taken(request[t].user, slug)
               /\ environments' = [environments EXCEPT ![<<request[t].user, slug>>] = @ - 1]
    <3>1. PICK slug \in Slug :
            environments' = [environments EXCEPT ![<<request[t].user, slug>>] = @ - 1]
      BY <2>3
    <3>2. ASSUME NEW e \in Name \X Slug, environments'[e] < environments[e]
          PROVE  DeletedBy(e[1])
      <4>1. e = <<request[t].user, slug>>
        BY <1>1, <3>1, <3>2
      <4>2. e[1] = request[t].user
        BY <4>1
      <4> QED BY <2>1, <4>2 DEF DeletedBy
    <3> QED BY <1>1, <2>1, <3>2
  <2> QED BY <1>4, <2>2, <2>3 DEF DeleteEnvironment
<1>5. ASSUME NEW t \in Tab, NewToken(t) PROVE Goal
  <2>1. PICK u : tokens' = [tokens EXCEPT ![u] = @ + 1]
    BY <1>5 DEF NewToken
  <2>2. \A owner \in Name : tokens[owner] \in Nat /\
          (tokens'[owner] = tokens[owner] \/ tokens'[owner] = tokens[owner] + 1)
    BY <1>1, <2>1
  <2>3. environments' = environments
    BY <1>5 DEF NewToken
  <2> QED BY <1>1, <2>2, <2>3
<1>6. ASSUME NEW t \in Tab, RevokeToken(t) PROVE Goal
  <2>1. environments' = environments /\ request'[t] = Idle
    BY <1>6, PutTab DEF RevokeToken, Finish
  <2>2. CASE UNCHANGED tokens
    BY <1>1, <2>1, <2>2
  <2>3. CASE tokens' = [tokens EXCEPT ![request[t].user] = @ - 1]
    <3>1. ASSUME NEW owner \in Name, tokens'[owner] < tokens[owner] PROVE DeletedBy(owner)
      <4>1. owner = request[t].user
        BY <1>1, <2>3, <3>1
      <4> QED BY <2>1, <4>1 DEF DeletedBy
    <3> QED BY <1>1, <2>1, <3>1
  <2> QED BY <1>6, <2>2, <2>3 DEF RevokeToken
<1>7. CASE StartupStep
  BY <1>2, <1>7 DEF StartupStep, accountVars, rows
<1>8. ASSUME NEW t \in Tab, Visit(t) \/ Follow(t) PROVE Goal
  BY <1>2, <1>8 DEF Visit, Follow, Arrive, rows
<1>9. ASSUME NEW t \in Tab,
             Fail(t) \/ SecretHtmxRoute(t) \/ FindSetupSession(t) \/ NewAdminUser(t)
               \/ UpdateUserId(t) \/ LoginHtmxRoute(t) \/ SignOut(t) \/ SignedOut(t)
               \/ CheckSlug(t) \/ Answer(t)
      PROVE  Goal
  BY <1>2, <1>9 DEF Fail, SecretHtmxRoute, FindSetupSession, NewAdminUser, UpdateUserId,
     LoginHtmxRoute, SignOut, SignedOut, CheckSlug, Answer, rows
<1>10. CASE UNCHANGED vars
  BY <1>2, <1>10 DEF vars, accountVars, rows
<1> QED BY <1>3, <1>4, <1>5, <1>6, <1>7, <1>8, <1>9, <1>10 DEF Next, Handler

(* DeleteEnvironment and RevokeToken only take away what belongs to the user*)
(* of the request, which is answered in the same step.                      *)
THEOREM OwnersDelete == Spec => OnlyOwnersDelete
<1>1. AccountsInv /\ [Next]_vars =>
        [/\ \A e \in Name \X Slug : environments'[e] < environments[e] => DeletedBy(e[1])
         /\ \A owner \in Name : tokens'[owner] < tokens[owner] => DeletedBy(owner)]_vars
  BY OwnersStep
<1> QED BY <1>1, AlwaysAccounts, PTL DEF Spec, OnlyOwnersDelete

(* Wherever a request is redirected to, and whatever cookie comes with it,  *)
(* at most three more redirects lead to a page.                             *)
THEOREM RedirectsFinish == Spec => []RedirectsEnd
<1>1. AccountsInv => RedirectsEnd
  BY RedirectsEndThere DEF AccountsInv
<1> QED BY <1>1, AlwaysAccounts, PTL
=============================================================================
