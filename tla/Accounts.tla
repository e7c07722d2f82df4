------------------------------ MODULE Accounts ------------------------------
(***************************************************************************)
(* What replicas serve once they have started: setting the server up,      *)
(* logging in and out, environments and tokens.  A request is routed, goes *)
(* through its middleware and then its handler, one step per statement on  *)
(* the database that others can come between.  A tab of a browser makes one*)
(* request at a time and follows redirects; tabs may share their cookies.  *)
(***************************************************************************)
EXTENDS Startup, Router

CONSTANTS
  Browser,
  Tab,
  Serves,       \* the replica that a tab's requests go to
  Name,         \* of users
  Slug,         \* of environments, in lower case
  Visits,       \* the requests that a user makes: <<method, path>>
  MaxSessions,  \* bound on the rows of sessions
  MaxOwned      \* bound on the environments and tokens together

ASSUME AccountsAssumption ==
  /\ Serves \in [Tab -> Replica]
  /\ None \notin Name \cup Slug
  /\ \A r \in Visits : Len(r[2]) # 1  \* a path has a slash in it
  /\ MaxSessions \in Nat /\ MaxOwned \in Nat

VARIABLES
  sessions,      \* rows, in the order of their insertion; the index is the key
  environments,  \* how many there are of each owner and slug
  tokens,        \* how many of each owner are not revoked
  jar,           \* the browser that a tab is of, which never changes
  cookie,        \* the cookie session_id of each browser, 0 if it has none
  request        \* what each tab waits for

rows == <<sessions, environments, tokens>>
accountVars == <<rows, jar, cookie, request>>
vars == <<startupVars, accountVars>>

(* proof (history) is what was posted to open the session, and names        *)
(* (history) whom it has made or logged in.                                 *)
Session == [user : Name \cup {None}, live : BOOLEAN,
            proof : Replica \cup {None, "credentials"}, names : SUBSET Name]
Deleted == [user |-> None, live |-> FALSE, proof |-> "credentials", names |-> {}]

(* next is the statement or the handler to come, "visit" or "follow" when a *)
(* request to path is to be made; session and user are the context that     *)
(* middleware has set.  overtaken (history): another request has inserted   *)
(* what this one has checked is not there.                                  *)
Idle == [next |-> "visit", path |-> <<>>, session |-> 0, user |-> None,
         slug |-> None, overtaken |-> FALSE]

AccountsInit ==
  /\ sessions = <<>>
  /\ environments = [e \in Name \X Slug |-> 0]
  /\ tokens = [owner \in Name |-> 0]
  /\ jar \in [Tab -> Browser]
  /\ cookie = [b \in Browser |-> 0]
  /\ request = [t \in Tab |-> Idle]

At(t, name) == request[t].next = name
Put(t, r) == request' = [request EXCEPT ![t] = r]

Held(t) == cookie[jar[t]]
SetCookie(t, s) == cookie' = [cookie EXCEPT ![jar[t]] = s]

(* The response is a page or an error, or sends the tab on.                 *)
Finish(t) == Put(t, Idle) /\ UNCHANGED cookie
GoTo(t, path) == Put(t, [Idle EXCEPT !.next = "follow", !.path = path])
Redirect(t, path) == GoTo(t, path) /\ UNCHANGED cookie
RedirectWith(t, path, s) == GoTo(t, path) /\ SetCookie(t, s)

(* GetSession: deleted sessions are not found.                              *)
Found(s) == s # 0 /\ sessions[s].live

----------------------------------------------------------------------------
(***************************************************************************)
(* Middleware.  With the cookie s it sends the request elsewhere, answers  *)
(* it or passes it on; what it says comes with what the cookie is then.    *)
(***************************************************************************)

SendTo(path, s) ==
  [next |-> "follow", path |-> path, cookie |-> s, session |-> 0, user |-> None]
PassOn(s, session, user) ==
  [next |-> "pass", path |-> <<>>, cookie |-> s, session |-> session, user |-> user]

(* Variant: the cookie is all that is looked at. *)
SecretMiddleware_CookieOnly(s) ==
  IF s # 0 THEN SendTo(<<"", "setup", "user">>, s) ELSE PassOn(s, 0, None)

SecretMiddleware(s) ==
  IF UsersExist THEN SendTo(<<"", "login">>, s)
  ELSE IF s # 0 THEN SendTo(<<"", "setup", "user">>, s)
  ELSE PassOn(s, 0, None)

LoginMiddleware(s) ==
  IF s # 0 THEN SendTo(IF UsersExist THEN <<"", "dashboard">> ELSE <<"", "setup", "user">>, s)
  ELSE IF UsersExist THEN PassOn(s, 0, None)
  ELSE SendTo(<<"", "setup", "secret">>, s)

(* Variant: whether there are users already is not looked at. *)
UserMiddleware_Unchecked(s) ==
  IF s = 0 THEN SendTo(<<"", "setup", "secret">>, s) ELSE PassOn(s, s, None)

(* Up to the statement that reads the session.                              *)
UserMiddleware(s) ==
  IF UsersExist THEN SendTo(<<"", "login">>, s)
  ELSE IF s = 0 THEN SendTo(<<"", "setup", "secret">>, s)
  ELSE PassOn(s, s, None)

(* What it does with the session s that it has found in the cookie c.       *)
SetupSession(s, c) ==
  IF ~Found(s) THEN SendTo(<<"", "setup", "secret">>, 0)
  ELSE IF sessions[s].user # None THEN SendTo(<<"", "dashboard">>, c)
  ELSE PassOn(c, s, None)

(* Variant: an invalid cookie is left where it is. *)
UserProtected_KeepsCookie(s) ==
  IF ~Found(s) \/ sessions[s].user = None THEN SendTo(<<"", "login">>, s)
  ELSE PassOn(s, s, sessions[s].user)

(* Variant: that the session is still open for set-up is not looked at. *)
UserProtected_AnySession(s) ==
  IF ~Found(s) THEN SendTo(<<"", "login">>, 0) ELSE PassOn(s, s, sessions[s].user)

(* The user of a session is read in the same step: users are never deleted. *)
UserProtected(s) ==
  IF ~Found(s) \/ sessions[s].user = None THEN SendTo(<<"", "login">>, 0)
  ELSE PassOn(s, s, sessions[s].user)

(* A session that cannot be read is taken for an invalid one.               *)
Unreadable(s) == IF s = 0 THEN {} ELSE {SendTo(<<"", "login">>, 0)}

(* Whatever token the client names; one that is revoked or made up is 401.  *)
ApiMiddleware(s) ==
  {[PassOn(s, 0, None) EXCEPT !.next = "visit"]}
    \cup {PassOn(s, 0, owner) : owner \in {o \in Name : tokens[o] > 0}}

Middleware(m, s) ==
  CASE m = "secretMiddleware" -> {SecretMiddleware(s)}
    [] m = "loginMiddleware"  -> {LoginMiddleware(s)}
    [] m = "userMiddleware"   -> {UserMiddleware(s)}
    [] m = "userProtected"    -> {UserProtected(s)} \cup Unreadable(s)
    [] m = "apiMiddleware"    -> ApiMiddleware(s)
    [] OTHER                  -> {}

Redirects == {"GET"} \X
  {<<"", "setup", "secret">>, <<"", "setup", "user">>, <<"", "login">>, <<"", "dashboard">>}

Chain == [r \in Visits \cup Redirects |-> Dispatch(r[1], r[2])]

(* Pages and the handlers of other modules change nothing here and answer at*)
(* once.  "root" would redirect, but its pattern is empty and no path       *)
(* matches it.                                                              *)
Elsewhere == {"NotFound", "deploymentHtmxRoute", "deploymentStatusHtmxRoute",
  "updateDeploymentConfigHtmxRoute", "loginPage", "dashboardPage", "deploymentPage",
  "environmentPage", "tokenPage", "secretPage"}

(* No route has more than one middleware.                                   *)
Admitted(chain, s) ==
  IF Len(chain) = 1 THEN {PassOn(s, 0, None)} ELSE Middleware(chain[1], s)

Arrive(t, r) ==
  LET handler == Last(Chain[r]) IN
  /\ phase[Serves[t]] = "serving"
  /\ \E v \in Admitted(Chain[r], Held(t)) :
       /\ SetCookie(t, v.cookie)
       /\ Put(t, IF v.next = "pass" /\ handler \in Elsewhere THEN Idle
                 ELSE [Idle EXCEPT !.next = IF v.next = "pass" THEN handler ELSE v.next,
                                   !.path = v.path, !.session = v.session, !.user = v.user])
  /\ UNCHANGED <<startupVars, rows, jar>>

Visit(t) == At(t, "visit") /\ \E r \in Visits : Arrive(t, r)

Follow(t) == At(t, "follow") /\ Arrive(t, <<"GET", request[t].path>>)

----------------------------------------------------------------------------
(***************************************************************************)
(* Set-up                                                                  *)
(***************************************************************************)

NewSession(t, user, proof, names) ==
  /\ Len(sessions) < MaxSessions
  /\ sessions' = Append(sessions, [user |-> user, live |-> TRUE, proof |-> proof, names |-> names])
  /\ SetCookie(t, Len(sessions'))

(* What is posted is compared with the replica's secret, be it empty.       *)
SecretHtmxRoute(t) ==
  /\ At(t, "secretHtmxRoute")
  /\ \E posted \in Replica \cup {None} :
       IF posted # secret[Serves[t]] THEN Finish(t) /\ UNCHANGED sessions
       ELSE NewSession(t, None, posted, {}) /\ GoTo(t, <<"", "setup", "user">>)
  /\ UNCHANGED <<startupVars, environments, tokens, jar>>

PastUsersCheck(p) == request[p].next \in {"userPage", "userHtmxRoute", "newAdminUser"}

(* The second half of userMiddleware, in front of the page and the form.    *)
FindSetupSession(t) ==
  LET v == SetupSession(request[t].session, Held(t)) IN
  /\ request[t].next \in {"userPage", "userHtmxRoute"}
  /\ SetCookie(t, v.cookie)
  /\ Put(t, IF v.next = "follow" THEN [Idle EXCEPT !.next = "follow", !.path = v.path]
            ELSE IF At(t, "userPage") THEN Idle
            ELSE [request[t] EXCEPT !.next = "newAdminUser"])
  /\ UNCHANGED <<startupVars, rows, jar>>

(* The name is unique, that there be only one user is not.                  *)
NewAdminUser(t) ==
  /\ At(t, "newAdminUser")
  /\ \E name \in Name :
       IF name \in users THEN Finish(t) /\ UNCHANGED <<users, sessions>>
       ELSE /\ users' = users \cup {name}
            /\ sessions' = IF Found(request[t].session)
                 THEN [sessions EXCEPT ![request[t].session].names = @ \cup {name}]
                 ELSE sessions
            /\ request' = [p \in Tab |->
                 IF p = t THEN [request[t] EXCEPT !.next = "updateUserId", !.user = name]
                 ELSE [request[p] EXCEPT !.overtaken = @ \/ PastUsersCheck(p)]]
  /\ UNCHANGED <<schema, kv, lock, replica, crashes, environments, tokens, cookie, jar>>

(* Variant: every session that is still open for set-up is updated. *)
UpdateUserId_AllOpen(t) ==
  /\ At(t, "updateUserId")
  /\ sessions' = [s \in DOMAIN sessions |->
       IF sessions[s].user = None THEN [sessions[s] EXCEPT !.user = request[t].user]
       ELSE sessions[s]]
  /\ Redirect(t, <<"", "dashboard">>)
  /\ UNCHANGED <<startupVars, environments, tokens, jar>>

(* Whether the session has been bound since is not looked at; when it has   *)
(* been deleted, nothing finds it any more.                                 *)
UpdateUserId(t) ==
  /\ At(t, "updateUserId")
  /\ sessions' = IF Found(request[t].session)
       THEN [sessions EXCEPT ![request[t].session].user = request[t].user]
       ELSE sessions
  /\ Redirect(t, <<"", "dashboard">>)
  /\ UNCHANGED <<startupVars, environments, tokens, jar>>

----------------------------------------------------------------------------
(***************************************************************************)
(* Logging in and out                                                      *)
(***************************************************************************)

LoginHtmxRoute(t) ==
  /\ At(t, "loginHtmxRoute")
  /\ \/ Finish(t) /\ UNCHANGED sessions
     \/ \E name \in users :
          NewSession(t, name, "credentials", {name}) /\ GoTo(t, <<"", "dashboard">>)
  /\ UNCHANGED <<startupVars, environments, tokens, jar>>

SignOut(t) ==
  /\ At(t, "signOut")
  /\ sessions' = [sessions EXCEPT ![request[t].session] = Deleted]
  /\ Put(t, [request[t] EXCEPT !.next = "signedOut"])
  /\ UNCHANGED <<startupVars, environments, tokens, cookie, jar>>

(* The session is gone before the browser hears of it.                      *)
SignedOut(t) ==
  /\ At(t, "signedOut")
  /\ RedirectWith(t, <<"", "login">>, 0)
  /\ UNCHANGED <<startupVars, rows, jar>>

----------------------------------------------------------------------------
(***************************************************************************)
(* Environments and tokens                                                 *)
(***************************************************************************)

Plus(m, n) == m + n
Total(f) == FoldFunction(Plus, 0, f)

MayInsert == Total(environments) + Total(tokens) < MaxOwned

Taken(owner, slug) == environments[<<owner, slug>>] > 0

CheckSlug(t) ==
  /\ At(t, "createEnvironmentHtmxRoute")
  /\ \E slug \in Slug :
       IF Taken(request[t].user, slug) THEN Finish(t)
       ELSE Put(t, [request[t] EXCEPT !.next = "newEnvironment", !.slug = slug])
  /\ UNCHANGED <<startupVars, rows, cookie, jar>>

NewEnvironment(t) ==
  LET same(p) == /\ At(p, "newEnvironment")
                 /\ request[p].user = request[t].user
                 /\ request[p].slug = request[t].slug IN
  /\ At(t, "newEnvironment")
  /\ MayInsert
  /\ environments' = [environments EXCEPT ![<<request[t].user, request[t].slug>>] = @ + 1]
  /\ request' = [p \in Tab |->
       IF p = t THEN Idle ELSE [request[p] EXCEPT !.overtaken = @ \/ same(p)]]
  /\ UNCHANGED <<startupVars, sessions, tokens, cookie, jar>>

(* Variant: neither whether it is there nor whose it is is looked at. *)
DeleteEnvironment_AnyOwner(t) ==
  /\ At(t, "deleteEnvironmentHtmxRoute")
  /\ \E e \in Name \X Slug : environments' = [environments EXCEPT ![e] = @ - 1]
  /\ Finish(t)
  /\ UNCHANGED <<startupVars, sessions, tokens, cookie, jar>>

(* The row is read, then deleted; its owner does not change in between.     *)
DeleteEnvironment(t) ==
  /\ At(t, "deleteEnvironmentHtmxRoute")
  /\ \/ UNCHANGED environments
     \/ \E slug \in Slug :
          /\ Taken(request[t].user, slug)
          /\ environments' = [environments EXCEPT ![<<request[t].user, slug>>] = @ - 1]
  /\ Finish(t)
  /\ UNCHANGED <<startupVars, sessions, tokens, cookie, jar>>

NewToken(t) ==
  /\ At(t, "tokenHtmxRoute")
  /\ MayInsert
  /\ tokens' = [tokens EXCEPT ![request[t].user] = @ + 1]
  /\ Finish(t)
  /\ UNCHANGED <<startupVars, sessions, environments, cookie, jar>>

(* A token that is revoked already may be revoked again, to no effect.      *)
RevokeToken(t) ==
  /\ At(t, "revokeTokenHtmxRoute")
  /\ \/ UNCHANGED tokens
     \/ /\ tokens[request[t].user] > 0
        /\ tokens' = [tokens EXCEPT ![request[t].user] = @ - 1]
  /\ Finish(t)
  /\ UNCHANGED <<startupVars, sessions, environments, cookie, jar>>

(* Deployments has what becomes of them.                                    *)
Answer(t) ==
  /\ request[t].next \in {"ping", "imagePush", "createDeployment"}
  /\ Finish(t)
  /\ UNCHANGED <<startupVars, rows, cookie, jar>>

(* An error of the database ends a request at any point, with a 500.        *)
Fail(t) ==
  /\ ~At(t, "visit") /\ ~At(t, "follow")
  /\ Finish(t)
  /\ UNCHANGED <<startupVars, rows, cookie, jar>>

----------------------------------------------------------------------------
(* A replica that ends takes with it the requests it serves; a tab that is  *)
(* yet to follow a redirect does so when there is a replica again.          *)
StartupStep ==
  \/ \E r \in Replica : NewApp(r) /\ UNCHANGED accountVars
  \/ \E r \in Replica : CloseConnection(r) /\ UNCHANGED accountVars
  \/ \E r \in Replica :
       /\ Crash(r)
       /\ request' = [t \in Tab |->
            IF Serves[t] = r /\ ~At(t, "follow") THEN Idle ELSE request[t]]
       /\ UNCHANGED <<rows, cookie, jar>>

Handler(t) ==
  \/ SecretHtmxRoute(t) \/ FindSetupSession(t) \/ NewAdminUser(t) \/ UpdateUserId(t)
  \/ LoginHtmxRoute(t) \/ SignOut(t) \/ SignedOut(t)
  \/ CheckSlug(t) \/ NewEnvironment(t) \/ DeleteEnvironment(t)
  \/ NewToken(t) \/ RevokeToken(t) \/ Answer(t)

Init == StartupInit /\ AccountsInit

Next ==
  \/ StartupStep
  \/ \E t \in Tab : Visit(t) \/ Follow(t) \/ Handler(t) \/ Fail(t)

Spec == Init /\ [][Next]_vars

----------------------------------------------------------------------------
Waits == {"visit", "follow", "secretHtmxRoute", "userPage", "userHtmxRoute", "newAdminUser",
  "updateUserId", "loginHtmxRoute", "signOut", "signedOut", "createEnvironmentHtmxRoute",
  "newEnvironment", "deleteEnvironmentHtmxRoute", "tokenHtmxRoute", "revokeTokenHtmxRoute",
  "ping", "imagePush", "createDeployment"}

TypeOK ==
  /\ StartupTypeOK
  /\ users \subseteq Name
  /\ sessions \in Seq(Session)
  /\ environments \in [Name \X Slug -> Nat]
  /\ tokens \in [Name -> Nat]
  /\ jar \in [Tab -> Browser]
  /\ cookie \in [Browser -> 0..Len(sessions)]
  /\ request \in [Tab ->
       [next : Waits, path : {<<>>} \cup {r[2] : r \in Redirects},
        session : 0..Len(sessions), user : Name \cup {None}, slug : Slug \cup {None},
        overtaken : BOOLEAN]]

(* Whoever sets the server up has posted the secret in the database: not the*)
(* empty one of a replica that found users when it started, nor one that a  *)
(* replica has made and not stored.                                         *)
SetupIsProven ==
  \A s \in DOMAIN sessions :
    sessions[s].proof # "credentials" => sessions[s].proof # None /\ sessions[s].proof = kv

(* A session is that of a user who was made, or logged in, in this session. *)
SessionsAreOwn ==
  \A s \in DOMAIN sessions : sessions[s].user # None => sessions[s].user \in sessions[s].names

(* What was checked not to be there can only be there if it was inserted    *)
(* since: a second administrator, or a second environment of the same owner *)
(* and slug, needs two requests that overlap.                               *)
DuplicatesOverlap ==
  \A t \in Tab : ~request[t].overtaken =>
    /\ PastUsersCheck(t) => ~UsersExist
    /\ At(t, "newEnvironment") => ~Taken(request[t].user, request[t].slug)

UsesUser == {"createDeployment", "imagePush", "createEnvironmentHtmxRoute", "newEnvironment",
  "deleteEnvironmentHtmxRoute", "deploymentHtmxRoute", "deploymentStatusHtmxRoute",
  "updateDeploymentConfigHtmxRoute", "tokenHtmxRoute", "revokeTokenHtmxRoute",
  "dashboardPage", "deploymentPage", "tokenPage"}
UsesSession == {"userHtmxRoute", "newAdminUser", "updateUserId", "signOut"}

(* A handler that takes its user or session from the context, without asking*)
(* whether there is one, is only reached through middleware that put one    *)
(* there, be the session deleted since; so are, by whatever route and with  *)
(* whatever cookie, the handlers that answer at once.                       *)
HandlersHaveTheirUser ==
  /\ \A t \in Tab :
       /\ request[t].next \in UsesUser => request[t].user \in users
       /\ request[t].next \in UsesSession => request[t].session \in DOMAIN sessions
  /\ \A i \in DOMAIN Routes, b \in Browser :
       Last(Routes[i].chain) \in UsesUser =>
         \A v \in Admitted(Routes[i].chain, cookie[b]) :
           v.next = "pass" => v.user \in users

DeletedBy(owner) == \E t \in Tab : request[t].user = owner /\ request'[t] = Idle

(* Only a request of its owner deletes an environment or revokes a token.   *)
OnlyOwnersDelete ==
  [][/\ \A e \in Name \X Slug : environments'[e] < environments[e] => DeletedBy(e[1])
     /\ \A owner \in Name : tokens'[owner] < tokens[owner] => DeletedBy(owner)]_vars

(* A tab with cookie s is at path, and is sent on or not.  The page of a    *)
(* set-up user is behind both halves of its middleware.                     *)
Hop(at) ==
  IF at.path = <<>> THEN {at}
  ELSE LET m == Chain[<<"GET", at.path>>][1]
           seen(v) == IF m = "userMiddleware" /\ v.next = "pass"
                      THEN SetupSession(v.session, v.cookie) ELSE v
       IN  {[path |-> seen(v).path, cookie |-> seen(v).cookie] : v \in Middleware(m, at.cookie)}

Hops(places) == UNION {Hop(at) : at \in places}

(* Redirects end: whatever cookie a browser holds, and wherever it is sent, *)
(* it is at a page after at most three of them if nothing happens meanwhile.*)
RedirectsEnd ==
  \A b \in Browser, r \in Redirects :
    \A at \in Hops(Hops(Hops(Hop([path |-> r[2], cookie |-> cookie[b]])))) : at.path = <<>>
=============================================================================
