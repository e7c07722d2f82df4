# The mora manager in TLA+

mora manager runs on a Kubernetes cluster, takes a configuration of modules and
services over HTTP, and deploys the services into one namespace per environment.
What a deployment cannot know by itself (an API key, say) it asks for on a web page,
and goes on when the form is posted. The state that matters is spread over a database,
the cluster, and goroutines that outlive the requests that start them; this
directory holds models of that state, the TLC runs that check them, and proofs.

Run TLC with `tlc -config X.cfg M` and the proofs with `tlapm M.tla` in this directory.
Source positions are `file:line` below `src/`.

## 1. Inventory

| Component | State | Operations | Interacts with | Hard behaviours |
|---|---|---|---|---|
| Deployment lifecycle (`deployment.go`, `deploy.go`, `cancel.go`, `model/deployment.go`, `model/transaction.go`, `model/lock.go`) | `deployments` rows: status, state (service index, answered configs), previous deployment, `created_at`; advisory locks; one goroutine and one poller per accepted request | create, answer the form, deploy, poll for cancellation, delete the environment, crash | evaluation and cluster (calls), its own other goroutines (row, lock) | statements of one handler outside a transaction; rows read before a lock; cancellation by polling; panics swallowed by `Transact`; crashes |
| Service evaluation (`config/`, `expr/`, `function/`, `point.go`, `state/`) | none of its own; reads answered configs, declared points, running wingmen | evaluate wingman, evaluate service, find open points | wingmen, lifecycle | the page and the goroutine evaluate at different times from different data |
| Service ordering (`config/service.go`, `api/`) | local graph and queue | sort services by what they require | lifecycle (the list it works through) | Go's map order, cycles, undeclared and repeated requirements |
| Cluster reconciliation (`kube/`, `config/definition.go`) | the resources of a namespace | ensure the namespace; get, validate, delete, wait, create, poll each resource | the cluster, other deployers | overlapping deployers, deletions that linger, one-minute time-outs |
| Startup (`model/migrations.go`, `model/secret.go`, `model/lock.go`, `main.go`) | schema version, set-up secret, session lock; each replica's copy of the secret | migrate, agree on a secret | replicas through the database; accounts (whether users exist) | crash between a script and its version; replicas together; a lock that outlives its use |
| Accounts (`user.go`, `secret.go`, `session.go`, `token.go`, `environment.go`, `model/`) | users, sessions, tokens, environments; the browsers' cookies | set up, log in, sign out, create and delete | database, startup (the secret), routing | check, then insert; one cookie in several tabs; stale cookies |
| Routing (`router/`, `main.go`) | the table of routes | match patterns, run middleware | every handler | which middleware stands in front of which handler |
| Wingman protocol (`wingman/`) | the state sent along and returned | points, functions, retries | wingmen, evaluation | ten retries against a cancelled context; configs that come back changed |
| Values (`value/`), command splitting (`util/shlex/`) | none | JSON round trips; a text into words | the wingman protocol, evaluation | pure functions with edge cases |
| Pages, image push, logging, cluster access | none | | | input and output only |

What makes each correct:

- *Lifecycle*: a row never claims progress that did not happen; success means every
  service is up; services come up in their order, across goroutines and crashes; a
  deployment that waits has a question to show; nothing answered is lost; a
  deployment ends or asks; a cancelled one stays cancelled; two do not work at once.
- *Evaluation*: total, and what is missing is asked for.
- *Ordering*: a service is after what it requires, once, and dropped only for a reason.
- *Reconciliation*: success means the cluster is as wanted; a resource exists only after
  those it depends on were ready; every deployer ends.
- *Startup*: a script runs once, all replicas have the one secret in the database, and
  not all of them wait for it, whatever crashes.
- *Accounts*: who sets the server up knows the secret; a session is of a user who was made
  or logged in through it; what is checked not to be there is inserted twice only by
  requests that overlap; nobody deletes what is another's; redirects end.
- *Routing*: a handler that needs a user is behind middleware that finds one.
- *Wingmen*: the first that knows a function answers, only the function that is taken
  changes the user's answers, and the deployment gets over a wingman that never comes up.
- *Values, commands*: a kind survives the round trip or is refused; the words are those
  that were meant.

## 2. Modules

    Rollout                     what a deployment promises
      ^ refinement (Promise == INSTANCE Rollout WITH ...)
    Deployments  --EXTENDS-->  ServiceEvaluation
      uses the order of         ServiceOrder   (ServiceList is its result)
      takes as one step         Kube           (DeployWingman, DeployService)
                                Wingman        (Evaluate, where a wingman is asked)
    Wingman      --EXTENDS-->  ServiceEvaluation, Values, Shlex
    Accounts     --EXTENDS-->  Startup, Router

| Module | What it models |
|---|---|
| `ServiceEvaluation` | operators: what a service evaluates to, and which points are open |
| `Deployments` | one environment's rows, requests, goroutines, pollers, cluster |
| `Rollout` | the abstract specification that `Deployments` implements |
| `ServiceOrder` | `ServiceConfigFromModules` |
| `Kube` | `EnsureNamespace`, `MaterializedService.Deploy` and `kube.Deploy` by several goroutines |
| `Startup` | `NewApp` of several replicas on one database: `SetupMigrations`, `GetOrCreateSecret`, crashes |
| `Router` | operators: patterns, middleware, the routes of `main` |
| `Accounts` | the requests that the replicas serve: middleware and handlers, sessions, environments, tokens |
| `Wingman` | one evaluation of a command that a wingman computes: `WingmanClient`, `Manager.EvaluateFunction`, the wingman's two handlers |
| `Values` | operators: a value through JSON and back |
| `Shlex` | operators: `shlex.Split`, and the reference it is checked against |
| `MCDeployments`, `MCServiceOrder`, `MCKube`, `MCAccounts`, `MCWingman` | constants for TLC |
| `DeploymentsProofs`, `ServiceOrderProofs`, `KubeProofs`, `StartupProofs`, `AccountsProofs`, `WingmanProofs`, `ShlexProofs` | lemmas and theorems |

Definitions named `X_Something` beside an `X` are mutated forms of `X` ("Variant"): the
bug a property is there to catch. Nothing refers to them.

### Deployments and the code

A thread is named by the request that starts it. `d \in Deployment` is the POST that
creates deployment `d`; `f \in Form` is one POST of a form. Each becomes, as its last act,
the goroutine `go a.deploy(d)`; `pc` says where the thread is, `target` which deployment
it works on, `local` is the state it holds in memory and `ctx` its context.

| Variable | Code |
|---|---|
| `status`, `state`, `previous` | columns of the row (`state.ServiceIndex`, `state.Configs`) |
| `created` | the order of `created_at` |
| `wingmen` | the wingman Services on the cluster that `FindWingman` lists |
| `applied` | history: what has come up for each deployment |
| `LockFree` | `pg_advisory_xact_lock`: held by a thread inside its transaction |

| Actions | Code |
|---|---|
| `CancelInProgressDeployments`, `RefuseModules`, `GetLastDeployment`, `NewDeployment` | `createDeployment`: four separate database accesses, so four steps |
| `ReadForm`, `LockForm`, `AcceptEntry`, `RefuseEntry`, `FailEntry`, `CommitForm` | `updateDeploymentConfigHtmxRoute`: the row is read *before* the lock; one step per posted entry |
| `Lock`, `Refresh`, `MarkInProgress`, `BeginService`, `DeployWingman`, `Evaluate`, `DeployService`, `Succeed`, `MarkErrored` | `deploy`, one step per statement or call that others can see; `MarkInProgress` is on another connection |
| `IsCancelled`, `CancelContext` | `handleDeployCancel`: the read, and later the cancel |
| `StopCancelled` | after the cancel every statement and call of the goroutine fails |
| `CallFails`, `DeleteEnvironment`, `Crash` | the surroundings |

`UpdateStateAndStatus` runs inside the transaction and is the last thing before its commit,
so it is one step with the release of the lock. A panic inside `Transact` rolls back and
returns nil: `Return` without a status.

Abstractions: a value is its kind; service lists are constants, already sorted;
bringing a service up is one step that succeeds or fails (`Kube` opens it up), and so are
a form's call that stores a secret in the cluster, which shows only when it fails, and a
wingman's answer, which `Wingman` opens up. The form's reads of its own and of the previous
row are one step. A wingman returns the configs it was sent, so `NothingIsLost` is about what
the server does; `wingman/client.go:136` lets a function change them, and in `Wingman` it
adds and drops what it likes. The database refuses no statement while the server runs.

### ServiceOrder and the code

`declarations` is the flattened list of modules; `Edge` is one pair per *written*
requirement, as `graph` and `inDegree` count them. `Orders` is Go's unordered map
range. `Take` pops the queue and `Follow` is one turn of the inner loop; here the turns of
one service may come in any order, which contains the order of the code's slice.
`AppliedInOrder` of `Deployments` (service *i* is up only after 1..*i*) with
`RequirementsFirst` gives what a user cares for: a service is started after everything it
requires.

### Kube and the code

A deployer is a goroutine that calls `EnsureNamespace` and deploys one materialized
service. `Get` includes validity and readiness of what was found, since both look at the
fetched copy only; `PollReady` is one re-fetch. `IsValid` compares all that is in a
resource except a command that is not wanted, as `kube/deployment.go:76` does.
`TimeOut` is the minute, in either loop. The cluster makes resources ready, unready and,
when terminating, gone, in its own time. The creation of a resource of a kind in `Instant`
(everything but a Deployment) returns it ready.

### Startup, Router, Accounts and the code

`Startup` has the rows that starting depends on (`users`, `recorded`, `kv`), the schema
itself (`applied`), the advisory lock and, for each replica, `phase`: the next statement
of `NewApp`, `serving`, or `down`. An error panics, and so does a script on a database
that has its tables already; both are `Die`. A session's advisory lock belongs to the
connection that took it, so it is free when the holder ends and when the pool drops the
connection (`CloseConnection`). A secret is random, so it is named after the replica that
generated it.

`Router` builds `Routes` as `main` does, with `Use`, `Route` and `Handle`, and `Dispatch`
gives the middleware and the handler of the first route that matches. The empty pattern
of `r.Get("/", ...)` splits into one part and the path `/` into two, so that route is
never found; the comment at `router/router.go:27` has it that the empty root only makes
paths start with `/`. The models have the route as it is.

In `Accounts` a *tab* makes one request at a time to the replica that `Serves` it. Tabs of
one browser share its cookie. `Arrive` is routing and middleware up to the last read of the
database that others cannot come between; then comes one step per statement:

| Actions | Code |
|---|---|
| `Arrive` with `SecretMiddleware`, `LoginMiddleware`, `UserProtected`, `ApiMiddleware` | the middleware of that name; it passes the request on with a session and a user, or sends the tab elsewhere |
| `Arrive` with `UserMiddleware`, then `FindSetupSession` | `userMiddleware`, whose two reads others can come between |
| `SecretHtmxRoute` | the comparison with `App.secret`, and the set-up session |
| `NewAdminUser`, `UpdateUserId` | `userHtmxRoute`: two statements without a transaction |
| `LoginHtmxRoute`; `SignOut`, `SignedOut` | the row is deleted before the browser's cookie is |
| `CheckSlug`, `NewEnvironment`; `DeleteEnvironment`; `NewToken`, `RevokeToken` | the handlers of environments and tokens |
| `Fail` | any error of the database: 500 |

`proof`, `names` and `overtaken` are history variables: what was posted to open a session,
whom it has made or logged in, and whether somebody has inserted what this request checked
is not there. Environments and tokens are counted by owner (and slug). Users are never
deleted, as in the code.

### Wingman, Values, Shlex and the code

One goroutine evaluates one service whose command is a function call. `FindWingman` and the
points come first (`deploy.go:115`), then `Manager.EvaluateFunction` lists the wingmen, in
any order, and asks each (`order`, `at`). `Ask`, `Refuse` and `Pause` are one turn of the
retry loop, whose `select` may take the timer though the context is cancelled too.
`Handle` is the wingman's handler; its points and what its functions compute are constants.
A function has a pointer to the state (`wingman/function.go:38`), so what comes back with its
points or its value may hold more or fewer configs than it was sent: any subset of those and
of `Additions`.
`DecodeFunction` takes over the configs (`client.go:137`), then the points, then the
value, which has been through `Marshal` and `Unmarshal`. `SplitCommand` is the end of
`ServiceConfig.Evaluate`. Points that a function returns are not filled with a module as
those of the config-point call are (`client.go:89` and `139`), so one that has none
can never be answered: `AgreesWithEvaluation` says where the protocol and
`ServiceEvaluation` differ, and that this is the only place.

`Shlex` has the lexer's seven states, and a step per rune. Its reference works from the
other end: a *phrase* is what a person means, words made of parts that are bare, escaped or
quoted, with gaps and remarks between, and at its end perhaps an *open* item, whose last part
is never closed; `Write` puts it down and `Split` has to find the words again, or fail for an
open one. `IsPhrase` says which phrases are well formed: a part holds what can be
quoted in its way, a word does not begin with a bare `#`, a gap follows every word. It is what
one has to mind who writes a command, and the assumption of `Wingman` about its constant
`Phrase`. Texts that no phrase is written as (a remark that ends without a newline, a letter
escaped within double quotes) are left to the lexer's definition.

## 3. Runs

| Run | Checks | Bounds |
|---|---|---|
| `deployments` | `TypeOK`, `ProgressIsReal`, `SuccessIsComplete`, `AppliedInOrder`, `WaitingIsJustified`, `PreviousIsComplete`, `AnswersKeepUp`, `NothingIsLost`, `ImplementsRollout` | 2 create requests, 2 forms, 2 services (one with a wingman), all faults, 1 crash; 1.15 million states |
| `settles` | `Settles` | 2 create requests and a form that overlap as they like, 1 service whose wingman asks once, deletion of the environment, 1 crash; 59,800 states |
| `service_order` | `TypeOK`, `RequirementsFirst`, `DeployedOnce`, `DroppedForAReason` | all 18,522 requests of 3 declarations with at most 2 requirements over 4 paths, in every map order |
| `kube` | `TypeOK`, `ReadyInOrder`, `SuccessIsReal`, `Ends` | 3 deployers, overlapping or in turn, 3 resources, all faults |
| `server` | `TypeOK`, `SecretAgreement`, `RecordedHasRun`, `SomeoneInserts`, `SetupIsProven`, `SessionsAreOwn`, `DuplicatesOverlap`, `HandlersHaveTheirUser`, `RedirectsEnd`, `OnlyOwnersDelete` | 2 replicas, 1 migration, 1 crash, 2 tabs of one browser or two, 2 user names, 2 sessions, 1 environment or token; 529,000 states |
| `command` | `TypeOK`, `OnlyTheFunctionChanges`, `TheFirstAnswers`, `AgreesWithEvaluation`, `KindsSurvive`, `CommandIsMeant`, `Ends` | 2 wingmen in any order, ten attempts each, 156 commands, configs added and dropped; 136,000 states |

Two properties of `deployments` divide what a stale form can and cannot do. The handler reads
its row before it takes the lock (`deployment.go:155`), so the commit of a form that overlaps
takes back answers and counts: `NothingIsLost` says that nothing else does, and
`AnswersKeepUp` that even then the row stays one to go on from, since it is stored as
a whole: a service that is counted has its answers. `HandlersHaveTheirUser` covers the
handlers that are steps of their own and, through what the middleware of every route admits
with the cookies that there are, those that answer at once (`Elsewhere`). `DuplicatesOverlap`
and the second half of `RecordedHasRun` bound a hazard rather than exclude it: they allow two
overlapping requests, and a crash, what the code allows them.

Why the bounds are enough. Two deployments are what it takes for one to cancel, outlive,
inherit from or race another. Two forms make a double post and a post against a running
goroutine. The two services have a wingman that asks for a secret, a service that asks for
a string and for a value only the wingman computes: each way of waiting occurs, and so does
waiting twice in one deployment. Module `web` exists only so that a form can name a
module that is not the current service's. One crash can fall between any two steps. For
the sort, three declarations hold a chain, a diamond, a two- and three-cycle, a
self-requirement, a path nobody declares, a service declared twice and a requirement
written twice. Three deployers that want three different things let one delete what a
second polls while a third waits. Deployments, and forms, are interchangeable in their
run, which has no fairness, so symmetry is sound there.

For the server, two replicas are what it takes to race for the lock and to migrate
together, and a crash can fall on either while the other waits for it; each tab has a
replica of its own, so a late replica's empty secret is met by a tab, too. Two
tabs that share their cookie make a session that is bound twice or deleted
under a request; two that do not make two administrators. Two sessions hold a stale one
beside a live one; with two names there are two owners, one of whom may try what is the
other's. Replicas with their tabs, browsers and names are interchangeable. For commands,
each of the seven kinds and nil is returned, and the phrases put every way of
quoting beside every gap, every remark and everything that can be left open.

Deadlock is checked in every run but `command`: all requests served is a `Quiet` (or
`Done`) step. `command` is one evaluation and ends.

### Fairness

`Settles` is checked under weak fairness of the goroutine, of the form's handler once it
has read its row, of the create handler once it has begun, and of the poller: Go
schedules them, and every call they make ends, the cluster's within a minute
(`kube/kube.go:45`). Nobody has to post anything, and nothing has to fail. It speaks of a
goroutine that is at an unfinished row, and says that the row comes to `Waiting`, `Cancelled`,
`Errored` or `Success`, with four exceptions, all of which the code has:

- the server goes down: nothing resumes a deployment (`main.go:87`) and nothing says that it does;
- the context of this goroutine is cancelled: it ends without a status (`deploy.go:171`), which
  leaves the row in progress if `deploy.go:56` has been written over the cancellation (the
  trace of `CancelledStuck.cfg`, which goes on from that of `cancelled_revived`);
- the environment is deleted: the goroutine panics at `deploy.go:41` (`DeletedStuck.cfg`);
- an image without a value panics (run `never_updates`): the services of the run have none.

Other goroutines of the same deployment, cancelled ones too, forms that are posted beside it,
and the other deployment are all there, and make no further exception. `PageUpdates` is
the plain form, without exceptions: `never_updates` violates it by the panic, and the two
other configurations, kept beside the runs for `tlc -config CancelledStuck.cfg MCDeployments`
and `DeletedStuck.cfg`, by the cancelled context and the deleted environment.

`Ends` is checked under weak fairness of the deployers' steps
and of their timers; the cluster is assumed to do nothing. `Ends` of `Wingman` is
checked under weak fairness of the goroutine, taken together with the answer it waits for:
a request is answered or its connection fails. The HTTP client has no time-out
(`wingman/client.go:39`), so a wingman that takes a request and never answers is outside
of this assumption; only cancelling the deployment ends the wait. The `server` run has no
fairness: a replica may be as slow as it likes.

### Disagreements

Six runs are expected to find a violation: each states what a comment or a page says, and
TLC shows what the code does.

| Run | Said | Done |
|---|---|---|
| `contention` | `cancel.go:14`: contention only until the previous deployment notices that it is cancelled | two create requests that both cancel before either inserts leave two live deployments, neither cancelled |
| `cancelled_for_nothing` | page: "cancelled to start a new deployment" | the running deployments are cancelled before the new modules are validated; a refused request starts nothing |
| `cancelled_revived` | `model/deployment.go:59`: a cancellation is not meant to be undone | the goroutine's unconditional `InProgress` (`deploy.go:56`) overwrites it |
| `never_updates` | page: updates "when the deployment finishes or when you need to provide input" | an image that is an unanswered config panics (`config/service.go:182`), `Transact` swallows it, and the row stays in progress |
| `errored_success` | page: "contained an error" | a form answered with 400 still starts a goroutine, which finds the deployment finished and marks it errored |
| `stale_command` | page: "this deployment's changes will be active" | a command that was dropped is not compared, so the old Deployment passes for valid |

A service on a cycle, or behind one that nobody declares, is left out of the list without an
error (`config/service.go:131`), and its deployment succeeds without it:
`DroppedForAReason` says which services these are, and permits them. Nothing in the
repository says that they are reported.

## 4. Proofs

The theorems hold for every value of the constants that satisfies the named assumptions
(`ConstantsAssumption`, `ServicesAssumption`, `InputAssumption`, `KubeAssumption`, `StartupAssumption`,
`AccountsAssumption`, `WingmanAssumption`), which TLC evaluates in the
runs. That of `Wingman` asks for finitely many services, as a cluster has, and for
well-formed commands; `ServicesAssumption` says that an expression has one of the forms that
`EvaluateExpression` distinguishes. No theorem has a hypothesis of its own.

**Deployments.** `TypeCorrect` is proved with `TargetOK` added: a thread that is under way
has a deployment. `ProgressIsReal` is not inductive: a goroutine writes the index it holds in
memory, a form the one it read before its lock, and neither appears in the property.
`ProgressInv` adds that what every thread holds (`LocalReal`) and every row says
(`RowsReal`) is a prefix that is up and no longer than the list, and that what is up is itself a
prefix (`AppliedReal`). Every writer then stores a true count, however stale. From
it: `ProgressReal`, `SuccessComplete`, `AppliedOrdered`, and `RolloutImplemented`: each
step is `BringUp`, `Record` or a stutter of `Rollout`. The abstract specification
lets a count go back and a success be withdrawn, since stale forms do the one and
the `errored_success` run shows the other; it never lets a count exceed what is up.

`PreviousComplete` needs to know, beside the columns it speaks of, that what a create request
holds between reading the last deployment and inserting its own has a row and that all its
services are up (`PreviousKnown`), and that a request which has not inserted its deployment has
no row (`NotYetCreated`): what is inherited from is successful and, by `ProgressInv`, all of it
is up. It stays so whatever forms and goroutines do to that row later, because `applied` only grows.

`WaitingJustified` is about a row that was written some time ago: since then wingmen have come
up, and a function that had nobody to compute it may have somebody now. The lemmas
`ExpressionMonotone`, `WingmanMonotone`, `ServiceMonotone` and `FindMonotone` say that with more
wingmen evaluation still gives the value it gave and still finds the points missing that it
found, and `WaitingInv` adds that a goroutine which brings up a wingman or evaluates its service
has found the wingman's image to evaluate to a value (`WingmanIsKnown`), so that the page gets
past the wingman to the points the goroutine is about to write the row for.

`NothingLost` is an action property: only the commit of a form can take back an answer or
a count, and only where forms may be posted while another thread is at the deployment. It takes
two invariants. `LockInv` holds whatever overlaps: of the threads of one deployment
whose context is not cancelled only one is past the lock (`LockIsOne`; a cancelled one no longer
writes), and what a goroutine holds there is no older than the row it refreshed from
(`LockKeepsUp`), so a goroutine writes over nothing newer (`OnlyFormsLose`). For a form nothing
of the kind is true, as its row was read before. Where forms do not overlap `SerialInv` gives it
for them, too: at most one thread works on a deployment at a time (`OneAtATime`), no form is at
a deployment that is not inserted yet (`AbsentIsUnknown`), and what a thread holds is no
older than its row (`KeepsUp`).

`AnswersKeptUp` says what even a stale form cannot do. Index and configs are always written as
a pair: `AnswersInv` says of every row and of what every thread holds that the configs answer
each service below the index (`RowsComplete`, `LocalComplete`), and of a goroutine past the
wingman or the evaluation of its service that this one has its answers
(`ServiceComplete`). Configs only grow, by answers to open points (`PointsAreOpen`), which
changes no answer that is there, and a service that evaluates still does with more
of them and with more wingmen (`ServiceAnswered`, `StillAnswered`).

**ServiceOrder.** `OrderInv` says that `inDegree[p]` is the cardinality of `Open(p)`, the
requirements of `p` that are not taken or taken and still in `rest`, and that a path is at zero
exactly when it is in the queue or the result, once. Taking a service changes no `Open`,
following a requirement removes one element: `OrderTypeCorrect`, `OrderSound`,
`OrderInjective` and, when nothing is left, `OrderDropsForAReason`. The finiteness
of `Edge` comes from the library's theorems on finite sets.

**Kube.** `ReadyInOrder` speaks of the cluster only; what a deployer creates next depends
on what it saw earlier. `OrderInv` adds that a deployer past resource *j* knows *j* to have been
ready (`PlacedInOrder`, `FirstIsFirst`) and that what is ready now has been
(`ReadyIsUp`). `KubeTypeCorrect` and `KubeOrdered` follow for any number of deployers.
`SuccessInv` adds what `KubeSuccessIsReal` takes: while a deployer is the latest nobody else is
busy (`Alone`), a resource that is terminating was deleted by one that waits for it or
has failed (`DeletedBySomeone`), so what the latest deployer has passed is still as it
wants it or somebody failed (`PastIsKept`), and who is done has seen everything up
(`DoneIsUp`).

**Startup and Accounts.** `StartupProofs` has what the steps of a replica keep
(`StartupInv`), and that requests keep it too, provided that users are only added once
there is a secret. `SecretAgreement` and `SomeoneInserts` need to know who may hold the lock
(`LockIsUsed`), that nobody serves before there is a secret (`SecretFirst`), and that
a replica serves without one only where there are users (`EmptyIsLate`);
`RecordedHasRun` that a script which has run and is not recorded is in a replica's hands
(`ScriptHasRun`).

`AccountsProofs` has the theorems of the whole server, for any number of replicas,
browsers, tabs, users and visits. It comes in three parts. *Routing:* of every route of `main`
it is worked out which middleware its handler is behind (`RouteChains`), so whatever
`Dispatch` returns for a path with a slash is a handler behind its own middleware
(`DispatchChain`), and what a middleware lets through has what the handler takes
(`Verdicts`, `ArrivePasses`). *One request:* every handler has its `Effect`: rows only grow or end
(`RowsGrow`), the rows stay sound (`RowInv`) and so does what the request holds
(`TabInv`: a set-up form has a secret to be compared with, a request that is about to
bind a session has a user that the session names, unless the session has ended).
*The others:* since rows only grow or end, what the other tabs hold stays true
(`OtherTabs`), and what they have checked stays so or they are marked overtaken
(`NothingInserted` and the two handlers that do insert). `AccountsInv` is the conjunction, and
`SetupProven`, `SessionsOwned`, `DuplicatesNeedOverlap`, `HandlersFindTheirUser`, `SecretAgrees`,
`RecordedRuns`, `SomeoneRemains`, `TypeCorrect` and `OwnersDelete` follow from it.
`RedirectsFinish` needs only `RowInv`: with the routes worked out, where the browser is sent
from each of the four paths depends on whether there are users and whether its session has one
(`Gates`, `GateOf`), and every hop leads to a path that is nearer to an answer
(`Distance`, `HopNearer`, `HopCloser`).

**Wingman.** The protocol's parts are checked against each other at its end, so `WingmanInv`
has to say in the middle what has been asked and by whom: the list of wingmen is one order
of the services and the place in it is within it (`Bounded`), those before the place do not
provide the function (`InOrder`), `State.Configs` and the outcome are untouched before an
answer was decoded, the reply in hand is one that the wingman asked would
give to what it was sent (`InReply`), the configs are the form's, or those of the reply of the
wingman whose function was taken (`Unchanged`, `InReply`), and a command that has come out is that of the phrase in the reply (`Ended`).
`TypeCorrect`, `FunctionChanges`, `FirstThatKnows`, `ProtocolEvaluates` (by what `Fill` and
`Unanswered` make of a function's points), `KindsKept` (by `ReadBackIs`: what JSON makes
of each kind) and `CommandMeant` follow; the last takes `SplitsAsMeant`.

**Shlex.** `SplitsAsMeant` says for every well-formed phrase, however long, that
`Split(Write(phrase)) = Meant(phrase)`. `Split` is a recursive function over the
text, so `Reads(l, text, m)` says that there is a path of lexer states, one `ScanRune` per
rune, and `SplitReads` that `Split` takes it. Paths are put together as texts are
(`ReadMore`, and `ReadPieces` for a text that is flattened from pieces). The rest goes from the
inside out: what a single rune does in each state (`Openings`, `Takings`, `Closings`,
`SpaceEnds`, ...), a sequence of runes quoted in one way (`ReadBare`, `ReadGuarded`,
`ReadSingle`, `ReadInDouble`), a part, a word, an item, the phrase. Between two items the lexer
is where a word may begin, or in the word that the next gap ends. Induction over the
length is `UpTo`, a lemma about a set of numbers proved from the library's least-element
theorem `WFMin`, since the induction theorems that take a predicate cannot be used.

Only model-checked: the liveness properties `Settles` and `Ends` (of `Kube` and of `Wingman`),
since liveness under fairness needs ENABLED, which the prover does not handle. Every
invariant and every action property of a passing run, and the refinement, is proved.

## 5. Not modelled, and what is left

- *Pages* (`templates/`, `dashboard.go`), *image push, logging, cluster access*: no state
  of their own. Static files (`Prefix`) and the values of path parameters are left
  out of `Router`.
- *Resource names*: module and service names are joined by a hyphen and sanitized
  (`kube/deployment.go:49`), so two services may share a resource; in `Kube` a name is
  whatever identifies the resource.
- *The database* refuses statements in `Accounts` (`Fail`) but not in `Deployments`, where
  `CallFails` stands for the cluster and the wingmen only.
- *Restarts of deployments*: nothing resumes one (`main.go:87`); `Deployments` has the crash
  and no liveness after it.
- *Time*: sessions expire with the browser's cookie (`session.go:29`); time-outs are
  modelled as steps that may happen.

What could come next: the database's refusals in `Deployments`; the names of resources as
operators; a text that is not written from a phrase, so that `Split` is characterised on
every text.
