------------------------------- MODULE Router -------------------------------
(***************************************************************************)
(* The router and the routes that main registers with it.  A path is the   *)
(* sequence of what its slashes separate, so "/login" is <<"", "login">>.  *)
(***************************************************************************)
EXTENDS Integers, Sequences, FiniteSets, FiniteSetsExt, SequencesExt

Params == {":slug", ":id"}

NewRouter == [path |-> <<"">>, middlewares |-> <<>>]

Use(r, m) == [r EXCEPT !.middlewares = Append(@, m)]

Route(r, path) == [r EXCEPT !.path = @ \o path]

(* The path "/" of a router is the router's own path.                       *)
Handle(r, method, path, handler) ==
  [method |-> method, pattern |-> r.path \o path, chain |-> Append(r.middlewares, handler)]

Match(pattern, path) ==
  /\ Len(pattern) = Len(path)
  /\ \A i \in 2..Len(pattern) : pattern[i] \in Params \/ pattern[i] = path[i]

----------------------------------------------------------------------------
Api == Route(NewRouter, <<"api", "v1">>)
Htmx == Route(NewRouter, <<"htmx">>)
Protected(r) == Use(r, "userProtected")

Routes == <<
  Handle(Use(Api, "apiMiddleware"), "GET", <<"ping">>, "ping"),
  Handle(Use(Api, "apiMiddleware"), "POST", <<"image">>, "imagePush"),
  Handle(Use(Route(Api, <<"environment", ":slug">>), "apiMiddleware"),
         "POST", <<"deployment">>, "createDeployment"),
  Handle(Use(Htmx, "secretMiddleware"), "POST", <<"secret">>, "secretHtmxRoute"),
  Handle(Use(Htmx, "userMiddleware"), "POST", <<"user">>, "userHtmxRoute"),
  Handle(Use(Htmx, "loginMiddleware"), "POST", <<"login">>, "loginHtmxRoute"),
  Handle(Protected(Htmx), "POST", <<"signout">>, "signOut"),
  Handle(Protected(Route(Htmx, <<"environment">>)), "POST", <<>>, "createEnvironmentHtmxRoute"),
  Handle(Protected(Route(Htmx, <<"environment">>)), "DELETE", <<>>, "deleteEnvironmentHtmxRoute"),
  Handle(Protected(Route(Htmx, <<"deployment">>)), "GET", <<>>, "deploymentHtmxRoute"),
  Handle(Protected(Route(Htmx, <<"deployment">>)), "GET", <<":id", "status">>,
         "deploymentStatusHtmxRoute"),
  Handle(Protected(Route(Htmx, <<"deployment">>)), "POST", <<":id", "config">>,
         "updateDeploymentConfigHtmxRoute"),
  Handle(Protected(Route(Htmx, <<"token">>)), "POST", <<>>, "tokenHtmxRoute"),
  Handle(Protected(Route(Htmx, <<"token">>)), "POST", <<"revoke">>, "revokeTokenHtmxRoute"),
  Handle(NewRouter, "GET", <<>>, "root"),
  Handle(Use(NewRouter, "loginMiddleware"), "GET", <<"login">>, "loginPage"),
  Handle(Protected(NewRouter), "GET", <<"dashboard">>, "dashboardPage"),
  Handle(Protected(NewRouter), "GET", <<"deployment", ":id">>, "deploymentPage"),
  Handle(Protected(NewRouter), "GET", <<"environment">>, "environmentPage"),
  Handle(Protected(NewRouter), "GET", <<"tokens">>, "tokenPage"),
  Handle(Use(Route(NewRouter, <<"setup">>), "secretMiddleware"), "GET", <<"secret">>, "secretPage"),
  Handle(Use(Route(NewRouter, <<"setup">>), "userMiddleware"), "GET", <<"user">>, "userPage") >>

(* ServeHTTP: the first route of the method that matches.                   *)
Dispatch(method, path) ==
  LET hits == {i \in DOMAIN Routes :
                 Routes[i].method = method /\ Match(Routes[i].pattern, path)} IN
  IF hits = {} THEN <<"NotFound">> ELSE Routes[Min(hits)].chain
=============================================================================
