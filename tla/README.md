# HAWEE Tool Hub: specifications

TLA+ specifications of the Tool Hub in this repository: a Git server, a build
system and a private PyPI registry for one organisation. The modules are
translated from the code under `src/`; line references below are to that code.

* [The system](#the-system)
* [What is modelled](#what-is-modelled)
* [The build pipeline](#the-build-pipeline)
* [Package publishing](#package-publishing)
* [From a push to its builds](#from-a-push-to-its-builds)
* [A push, from the key to the refs](#a-push-from-the-key-to-the-refs)
* [One build: container, log and page](#one-build-container-log-and-page)
* [Projects and their repositories](#projects-and-their-repositories)
* [Members and levels](#members-and-levels)
* [Sessions](#sessions)
* [The cache of PyPI](#the-cache-of-pypi)
* [Runs](#runs)
* [Where the code and its documents disagree](#where-the-code-and-its-documents-disagree)
* [Proofs](#proofs)
* [Not modelled](#not-modelled)
* [Plan](#plan)

## The system

| Component | State | Operations | Talks to |
|---|---|---|---|
| Backend API (`backend/app`) | PostgreSQL rows; one transaction per request | routers in `api/`, logic in `services/` | Redis, MinIO, repositories on disk |
| Build pipeline (`build_service`, `token_service`, `queue_service`, `worker/app`) | `builds`, `access_tokens` of a build, Redis key `build:{id}:cancel`, Celery list `builds`, local state of `execute()` | create, start, publish or store, finish, cancel, requeue_stale | worker by Celery message, backend by HTTP |
| Package publishing (`package_service`) | `package_versions`, `package_files`, `projects.latest_release_*`, objects in MinIO | publish, yank | worker, MinIO |
| Registry reads (`api/registry.py`, `packages.py`) | none of its own, but download counts | simple index, file download | MinIO, upstream cache |
| Upstream cache (`pypi_proxy_service`) | `upstream_packages`, `upstream_files`, objects | refresh index, serve and cache a file, clean up | PyPI, MinIO |
| Build creation and Git events (`build_service`) | `projects.build_counter`, `last_build_status`, `git_push_events` | handle_git_event, manual build | Git service, queue |
| Git service (`git-service`) | bare repositories, spool directory | authorise, pre-receive, post-receive, spool flush | backend by HTTP |
| Sessions (`auth_service`) | `refresh_tokens` | login, refresh, logout, change password | browser |
| Access (`access_service`, `core/permissions.py`, `core/deps.py`) | memberships, tokens | level of a principal, permission checks | every router |
| Groups, projects (`groups.py`, `projects.py`, `project_service`) | `groups`, `group_members`, `projects`, repository directories | create, archive, delete, members | Git on disk |
| Runner fleet (`internal.py`, `worker/app/tasks`) | `runner_nodes`, build containers | heartbeat, mark offline, set by admin, remove orphans | Docker |
| Build script (`worker/builder/run_build.py`) | files in a container | the steps of a build | registry |
| Live log (`append_log`, `read_log`, `BuildLog`) | Redis list, object in MinIO | append, flush, read from an offset | browser |

What makes each of them correct, and what is hard about it:

* Build pipeline: a build is executed once, ends once and for good, its token
  dies with it, a SUCCESS is backed by output, and nothing is stuck. Messages
  are lost, duplicated and delivered again; calls are retried, late, and lose
  their answers; workers die; cancel and maintenance work on rows they read
  earlier.
* Publishing: a version is published by one build, its files are the ones the
  row describes, the latest release is the highest. Objects are outside the
  transaction.
* Build creation, Git service: every push of a branch or release tag gives
  exactly one build for each; numbers are consecutive; a published tag does not
  move.
  The event is sent by a hook, spooled, sent again, out of order.
* Registry reads and upstream cache: an index lists only what can be
  downloaded; internal names never reach PyPI; a row says `cached` only while
  the object is there.
* Sessions: a refresh token is used once, reuse ends every session.
* Groups and projects: a group keeps an owner; a package name has one live
  project; the row and the repository directory appear and disappear together.
* Runner fleet: a runner out of service takes no builds; no container outlives
  its build for good.
* Build script: a failing step stops the build and is reported as such.
* Live log: a reader sees a prefix of what was written.

Common to all of them: the SQLAlchemy session (`backend/app/db/session.py`) has
`autoflush=False` and `expire_on_commit=False`, and no query refreshes an object
the session already holds. `SELECT ... FOR UPDATE` locks the row but does not
renew an object that was loaded before. Wherever a request reads a row twice,
the second read is of no use; the models split such a request at its first read.

The complete list of components with their status is in `PROJECT.json`, and so
is the list of hazards, each at the line where it bites.

## What is modelled

| Module | Models | Checked by | Proofs |
|---|---|---|---|
| `BuildLifecycle` | the promise about a build: waits, runs, is over; delivers its package at most once, while it runs | refinement | refined by `BuildPipeline` |
| `BuildPipeline` | backend, queue, workers, cancel, maintenance, runner status | `MCBuildPipeline`, `Pipeline*.cfg` | `BuildPipelineProofs` |
| `PackagePublish` | several publishes of one project at once | `MCPackagePublish`, `Publish.cfg` | `PackagePublishProofs` |
| `BuildLedger` | the promise about the builds of a project: numbered from 1, each source served once and in a row | refinement | refined by `PushEvents` |
| `PushEvents` | post-receive, spool, `toolhub-spool-flush`, the requests that create builds | `MCPushEvents`, `Events.cfg` | `PushProofs` |
| `AccessRules` | `core/permissions.py`: levels, roles, permissions, the rules for pushes | used by `Members`, `GitPush` | |
| `GitPush` | key lookup, authorisation, pre-receive, the refs, and everything that changes meanwhile | `MCGitPush`, `Push.cfg`, `PushTagMoved.cfg` | `PushProofs` |
| `BuildScript` | the checks and steps of a build, in order, and how each may end | used by `BuildRun` | |
| `BuildRun` | one build: worker loop, container, log, stored log, page, cleanup of containers | `MCBuildRun`, `BuildRun.cfg` | `BuildRunProofs` |
| `ProjectLife` | creation, default branch, archive, deletion, repository on disk, package names | `MCProjectLife`, `Projects.cfg` | `ProjectLifeProofs` |
| `Members` | members, roles, visibility, lists, concurrent requests about them | `MCMembers`, `Members.cfg` | `MembersProofs` |
| `Sessions` | login, rotation, reuse, logout, password changes, the cookies of browsers | `MCSessions`, `Sessions.cfg` | `SessionsProofs` |
| `UpstreamCache` | index refresh, cached files, cleanup | `MCUpstreamCache`, `Upstream.cfg` | `UpstreamCacheProofs` |

`BuildPipeline` takes a publish as one step, which is right for what it says of
the build (the row lock of the build is held to the commit).
`PackagePublish` opens that step for the state publishes of *different* builds
share: the version, the objects, the project row. `PushEvents` ends where
`BuildPipeline` begins: its `Create` commits the rows that `CreateBuild` lets
appear, and the message to the queue is sent after that commit. `GitPush` is
what happens before: it ends when the refs move, where the post-receive hook of
`PushEvents` begins, and it takes the build of a tag as one that publishes
whenever it likes, which is more than `BuildPipeline` lets it do. `BuildRun` opens the worker's
step of `BuildPipeline` between an accepted start and the finish call:
`BuildPipeline` has many builds and lets the container do anything, `BuildRun` has
one build and opens the container, its log and the page that shows it. `Members`
decides who has which level, by the operators `GitPush` uses too; `ProjectLife`
takes every request as permitted.

The modules have no variable in common. Each composes the actors that write the
same rows, keys, objects or files; what other components do to them is an
action that may happen whenever their own module lets it (`Publish` in `GitPush`,
`Release` in `ProjectLife`, `RequestCancel` in `BuildRun`).

## The build pipeline

State and code:

| Variable | Code |
|---|---|
| `status`, `token`, `output` | columns of `builds`, its row in `access_tokens`, its row in `package_versions` or its `artifacts_json` |
| `cancelKey` | Redis `build:{id}:cancel` |
| `queue` | number of messages for a build on the Celery list |
| `wpc`, `wbuild`, `verdict` | where `execute()` (`python_runner.py:301`) is, the message it holds, its local `status` |
| `calls` | HTTP calls of `ApiClient` under way |
| `cancel` | a cancel request between its read, its Redis SET and its commit |
| `overdue` | objects `requeue_stale` loaded and has not yet finished |
| `runnerStatus` | `runner_nodes.status` |
| `runs` | history: accepted starts |
| `faults` | how many faults have been used |

Granularity. A handler that locks the row it decides on is one step:
`start_build`, `publish`, `finish_build`. These are split:

* the cancel endpoint (`builds.py:90`, `build_service.py:247`): `CancelRead`,
  `CancelSetKey`, `CancelCommit`; the commit uses the status of the read;
* maintenance (`build_service.py:295`): `LoadOverdue`, then `FailOverdue` for
  each build; `Requeue` is a step by itself, as `enqueue_build` changes no row;
* the artifacts endpoint (`internal.py:179`): `StoreChecked`, later
  `ArtifactsAppended`.

Calls. A call is a record put into `calls` by the worker and served at any later
moment. `Answered` decides whether the worker gets the answer: only if it still
waits for this call and the answer is not lost. `Resend` is the retry loop of
`ApiClient._request` without its count: `start`, `store` and `finish` may be sent
again once nothing is under way, `publish` (`retries=1`) may not. `GiveUp` is the
end of the attempts and may come while a call is still under way, which is the
time-out. A call of a worker that died is still served.

Faults, each costing one of `MaxFaults`: a send to the queue that fails, a crash
of a worker (the message is redelivered, `acks_late`), a lost call or answer, a
time-out, Redis failing for the cancel key, a commit that fails after the key was
set, a maintenance run cut short.

Left out: time (a QUEUED build may be old enough, and a RUNNING one overdue, at
any moment, so every order the clock can produce is included), error codes,
messages, log text, steps, the number of attempts. A redelivery after the
visibility time-out of an hour is covered by duplicates from `Requeue` and by
`WorkerCrash`.

Properties:

* `ExecutedOnce`: handed out once, executed by one worker.
* `SuccessHasOutput`: a SUCCESS is backed by a package or artifacts.
* `ResultRevokesToken`: SUCCESS and FAILED leave no active token. It holds even
  when maintenance works on stale rows. For CANCELLED it does not hold, see
  [below](#where-the-code-and-its-documents-disagree).
* `LifecycleSpec`: refinement of `BuildLifecycle`. A version is delivered by one
  build, by a running one, and a build that is over stays over.
* `EveryBuildEnds`: liveness.

Fairness (`Fairness`): a live worker goes on, a call under way is served, a cancel
request is carried out, maintenance comes up again (beat, every ten minutes) for
a build that stays as it is, and Redis expires the key it was told to expire.
Taking a message is strongly fair, since a worker takes messages in the order of
a Redis list but is busy in between. No fairness is given to users, heartbeats,
administrators, or faults. Because runners may be out of service for ever,
`EveryBuildEnds` assumes that every runner is in the end ONLINE for good. The
maintenance task shares the queue with the builds and is dropped when it waits
longer than five minutes (`celery_app.py:30`); its fairness therefore rests on
backlogs that end, and here there are finitely many builds.

## Package publishing

One action for each stretch of `package_service.publish` in which nothing shared
changes in between: `Load` (the row lock and the project), `Checked` or `Refused`
(lines 70 to 128), `Upload` per file, `Insert` (the flush at line 147, which waits
while another transaction has the same key and fails once that one is committed),
`Commit` (lines 157 to 168), `Clean` per key and `Cleaned` for the clean-up.
`Crash` covers both the death of the process and a commit that fails. A version
is its rank. `objects` records whose bytes are stored; what a row recorded
(the hashes) is identified with the build that wrote it.

Faults, limited by `MaxFaults`: `put_object` failing (stored or not), a removal
that fails in the clean-up, a crash.

Properties: `UnracedIntact` (a release whose version no two publishes were
uploading at once is intact, whatever failed or was refused before and after),
`LatestReleased`, `HighestUnlessOvertaken` (the latest release is the highest one,
except for versions that a publish overtook which was under way while they were
released: it compares with the project as it read it, and locks no row of it),
`EveryPublishEnds`. `raced`, `below` and `passed` are history variables for these. Deadlock is not checked: a
build publishes once and then the model has nothing left to do.

## From a push to its builds

State and code:

| Variable | Code |
|---|---|
| `hook` | where `main()` of `hooks/post-receive` is, for each push |
| `spool` | `*.json` in `TOOLHUB_SPOOL_DIR`, one file per event |
| `flusher` | `flush_once`: whether it waits for an answer, the files it listed and has not dealt with |
| `serving` | requests of `/internal/git/events` and of a manual build being served: source, who waits for the answer, the `build_counter` the session loaded |
| `recorded` | `git_push_events` |
| `builds`, `counter`, `latest` | rows of `builds` of the project, `projects.build_counter`, `projects.latest_commit_sha` |
| `tip` | the default branch in the bare repository |
| `manual` | what became of each manual request |

An event is its `event_id`. The ids are ordered because the flusher sorts file
names; nothing relates this order to that of the pushes. `Size` says how many
builds an event asks for: updates of branches and of tags that are releases.

A request is two steps. `Load` is everything up to the point where the project
has been read (`build_service.py:51-64`); `Create` is the rest to the commit,
during which the row lock of `create_build` keeps others out. Between them other
requests commit, and `SELECT ... FOR UPDATE` does not bring `build_counter` up to
date, so `Create` counts from the value of `Load`. What then keeps the numbers
apart is the unique constraint: `Insertable` is the constraints of the tables,
`CreateFails` the 500 when one is violated. An event whose id is known is answered
200 without builds (`Known`).

An answer reaches a caller that still waits. `HookFails` (four seconds, or no
connection) and `FlushFails` (ten seconds) make the caller go on while its
request is still being served, which is how two deliveries of one event meet.
The flusher removes a file after 200 and ends its pass otherwise.

Faults, each costing one of `MaxFaults`: a time-out or refused connection, a hook
that is killed or cannot write the spool, a flusher that restarts, a request that
dies. `Poison` is the events whose rows the database refuses every time they
come.

Left out: projects that are archived or deleted (404 makes the flusher drop the
event), files of the spool that cannot be read (the hook renames whole files into
place), `last_build_status`, `repository_size_bytes`, the audit log.

Properties:

* `SpooledUntilRecorded`: once a hook came to its end, its event is recorded or in
  the spool.
* `LedgerSpec`: refinement of `BuildLedger`. Builds are numbered without a gap,
  never renumbered, and every source gets its builds in a row and once.
* `EveryPushSettles`: an event leaves the spool, if it is ahead of all events the
  database refuses.

Fairness (`FairSpec`): hook and flusher go on, and their requests come to be
served although the API is busy at times (strong fairness), and a request that is
served goes on. Users who ask for builds, and faults, have none.

## A push, from the key to the refs

State and code:

| Variable | Code |
|---|---|
| `keys`, `active`, `level` | `ssh_keys`, `users.is_active`, `user_project_level` for this project |
| `project`, `head`, `moving` | `is_archived`, `protect_default_branch`, `default_branch`; HEAD on disk; `update_project` between HEAD and its commit |
| `refs` | the refs of the bare repository |
| `built`, `release` | commits a tag was pushed at, `package_versions.git_tag` and its commit |
| `conn` | a connection: the row `toolhub-keys` found, the user `toolhub-git-auth` authorised, the updates `pre-receive` asks about |
| `loosened`; `early`, `opened`, `rank` in `conn` | history |

A push asks three times: `Connect` (`lookup_ssh_key`), `Authorize`
(`git_authorize`) and `Judge` (`git_authorize_push`); then `Land` moves the refs
one by one, and git itself tests the old value and HEAD (`Accepts`, external).
Between any two of these keys are removed and added, users disabled, roles
changed, the project archived or its protection or default branch changed, and a
build may publish. `Unanswered` is the API not answering: both scripts refuse.

Properties:

* `ActsAsHolder`: when a push is authorised, the user it is made for holds the
  fingerprint at that moment, although the row was looked up earlier.
* `ReleaseTagKept`: the tag of a published version stays at its commit, unless a
  push that was cleared before the publication moves it, or it was elsewhere at
  the publication (`loosened`).
* `GuardedRefsKept`: the protected default branch, a default branch that would be
  deleted, and anything in an archived repository change only by a push that was
  let through before they were guarded. Nothing is asked again when the refs
  move, so that exception is real, and the property says it is the only one.

The level of a user on the project is one value here; `Members` is about where it
comes from.

## One build: container, log and page

`BuildScript` gives, for each check of `validate_source` and each step of
`run_build.py`, the set of its outcomes: a pass, or the error code the build ends
with. `BuildRun` runs them.

| Variable | Code |
|---|---|
| `worker` | `execute()` and `run_container`: where they are, why the container was killed, the code so far, which files `_extract_out` took |
| `box` | the container: running or exited, the code of the script, what it has written to `OUT` |
| `lines` | `BuildLog`: lines written, flushed, and in the report |
| `live`, `late` | the list in Redis; a chunk whose request was given up and is served later |
| `build`, `object`, `overdue` | the row and the cancel key, the log in MinIO, what `requeue_stale` has loaded |
| `page` | `useLiveLog`: the text shown, the answer it waits for |
| `clock` | 0, past `timeout_seconds`, or overdue for maintenance (600 s more) and old enough for `cleanup_orphans` (7200 s), in either order |

The log is its lines, numbered; an offset is a number of lines, as the server
counts and returns it. `Flush` sends a chunk once, `Appended` takes nothing once the
list is longer than `LIVE_LOG_MAX_BYTES`, `Finish` stores the full log of the report
or, from maintenance, the list in Redis; storing may fail, and the row is then
written without it. The container's steps are its own: `RunSteps`, `CopyDist` (not
atomic), `WriteResult`, `Exits` after it, and `Breaks` at any point before. The worker
looks at the status (`Look`), asks the backend for a cancel (`Control`) and kills
(`Kill`) in steps of their own, so the script may go on or end between them. Docker
refuses to kill a container that has ended, and any of its calls may fail: that
leaves `run_container` as an exception (`Raises`), and the build ends with
RUNNER_ERROR once the container is removed (`RemoveBox`). The worker may itself be
killed at any point (`Crash`).

Properties:

* `PageShowsLog`: the page shows a beginning of the log, from whichever mix of the
  live and the stored log it read, as long as chunks arrived in turn; and all of
  it once it was told that the log is complete, if the worker's own report was
  stored and read.
* `VerdictHonest`: SUCCESS only with all files delivered, out of a container
  nobody killed; nothing is delivered of a container that was to be killed, even if it
  had written its result; CANCELLED only on request and BUILD_TIMEOUT only past the
  time, and then nothing was delivered.
* `ContainerGoes`, `PageEnds`: liveness.

Fairness (`Fairness`): time passes, a worker that lives goes on, maintenance comes
up again (beat), the page keeps its timers. Nothing makes a container end; it is
the time limit, or `cleanup_orphans`, that does.

Left out: masking of secrets, the text of the log, steps and their times, and the
retries of calls (`BuildPipeline` has those).

## Projects and their repositories

| Variable | Code |
|---|---|
| `row` | `projects`, as committed: path, package name, default branch, archived |
| `disk` | the repository at each path: the project id in its configuration, HEAD |
| `building`, `released` | release builds under way, `package_versions` |
| `req` | requests, between any two steps on disk and in the database |
| `shared`, `stale`, `stray` | history |

Creation is five steps: the lookups of the name (`Create`), the flush under the
unique constraints (`Insert`, which waits for an uncommitted row of the same key),
the repository (`MakeRepository`, or `MakeFails`), the commit, or a rollback and
then the removal of the repository. A change of the default branch is three: `Update`
reads the row, `MoveHead` moves HEAD of whatever repository is at the path by then, and
`CommitUpdate` writes the row. It writes it only if the branch differs from the one
that was read, as SQLAlchemy sends changed columns only, and not at all if the row
is gone; a PATCH with the branch the row has moves HEAD all the same.
Deletion moves the repository to the trash before the row goes, and the foreign key
of a version released meanwhile may refuse it. `Die` is a process that dies between
two steps.

* `RepositoriesMatch`: no project ever gets the repository of another; between
  requests, rows and repositories correspond, and HEAD is the default branch,
  except where a step between the two failed, two updates of a project overlapped,
  or an update moved HEAD at a path that had got a new project since it read its own
  (`stale`).
* `OneProjectUnlessShared`: the permission a package page asks (`project_for_package`)
  is that of one project, the one that releases it, unless a second was created beside
  an archived project of the name that had not released yet.

## Members and levels

`AccessRules` is `core/permissions.py`; `Members` adds the tables, and requests that
authorise and read first and write later, without locks. `Caller` and `ServiceToken`
are the principals of a session, a personal token (an administrator's only with the
`admin` scope) and a token bound to a project.

* `OwnersKept`: a group keeps an owner unless two requests that change or remove
  its members overlapped.
* `ShownAsGranted`: the WHERE of the lists and the level of the pages are two
  codings of one rule, the merge of roles on the members page a third; they agree
  in every state the requests can reach, for every kind of principal.
* `NoSelfPromotion`: no request lifts its caller above the level it was authorised
  with, or has anyway, however old the decision is when it commits.

Creating, renaming and deleting groups is left out, as is the creation of tokens.

## Sessions

| Variable | Code |
|---|---|
| `account` | `users`: active, which password, whether its hash has older parameters |
| `token` | `refresh_tokens`: live, rotated, or ended otherwise; the login it descends from |
| `jar` | the refresh cookie of a browser, which its tabs share |
| `req` | the request of each tab and of the administrator; `held` is the rows its transaction has locked |
| `chosen`, `overtaken`, `disturbed` | history |

`Verify` is `authenticate()`, of a disabled account too: `RefuseLogin` refuses that one
with a commit, which writes the hash anew as the commit of `IssueLogin` does. `Lock` and
`Rotate` are `refresh()` around the row lock. `revoke_all_refresh` is one UPDATE: it
will write the rows that were committed and not revoked when it began, takes them one
by one in any order (`TakeRow`), each once nobody holds it, keeps them, and ends with
the commit (`Sweep`). Requests may so come to wait for each other's rows; PostgreSQL
rolls one of them back (`Abort`, external), which ends as a 500. An answer writes the
cookies when it arrives (`Deliver`), if it does (`Lose`). A refusal leaves the cookies,
since the error handler answers with a response of its own. Tokens may expire at any
moment.

* `OneLivePerLogin`: whatever overlaps or repeats, a login has one live token.
* `SignedOut`: a change or reset of the password, or disabling, ends every session
  but one issued by a handler that ran beside it.
* `CookieFresh`: a browser whose tabs take turns and whose answers arrive is never
  taken for a thief.
* `PasswordAsChosen`: the password in force is the one chosen last, unless at the
  change or reset a login was under way that had verified an older hash and writes it
  anew when it commits.
* `ReuseSignsOut`: a reuse that is not aborted leaves no token but those issued
  beside a revocation, although tokens rotate and logins commit while it waits for
  rows.

`SignedOut`, `CookieFresh` and `PasswordAsChosen` say by their exceptions what the code
leaves open: two tabs that refresh at once may end every session, a login beside a change of the password
may survive it, or undo it.

## The cache of PyPI

`UpstreamCache` is `pypi_proxy_service` for one package: `Refresh`, `Fetch`, `Confirm` or
`Store` are `get_index`, `Look`, `Put` and `CommitCached` are `serve_file`,
`StartCleanup`, `Remove` and `CommitCleanup` are `cleanup_cache`. Upserts of two
refreshes are serial, since the second waits for the rows of the first. Objects are
outside the transaction: a put comes before its commit, a removal too, and MinIO may
have done what it answers with an error or a time-out (`PutUnanswered`, `RemoveFails`):
the code goes on as if nothing had happened. Two cleanups overlap when the maintenance
task is delivered again. `spoiled` is history: the files on which a step failed in one
of these ways, or which two overlapping cleanups took.

* `EtagMeansLinks`: the stored ETag never vouches for another list of links.
* `CacheAgrees`: a file is marked cached exactly when its object is stored, unless a
  step is between the two, failed there, was done although its call raised, or two
  cleanups overlapped.

## Runs

| Run | Bounds | Shows |
|---|---|---|
| `pipeline_mixed` | 1 release and 1 validation, 1 worker, 1 cancel, 2 faults | `TypeOK`, `SuccessHasOutput`, `ResultRevokesToken` |
| `pipeline_two_releases` | 2 releases of one version, 2 workers, 1 fault | `ExecutedOnce`, `LifecycleSpec` |
| `pipeline_live` | 1 release, 1 worker, 1 cancel, 2 faults, fairness | `EveryBuildEnds` |
| `publish` | 2 builds of version 2, 1 of version 1 and 1 of version 3, 2 files, 1 fault, fairness | `TypeOK`, `UnracedIntact`, `LatestReleased`, `HighestUnlessOvertaken`, `EveryPublishEnds` |
| `events` | 3 pushes, the last one refused by the database, 1 manual request, 2 requests served at once, 1 fault, fairness | `EventsTypeOK`, `SpooledUntilRecorded`, `LedgerSpec`, `EveryPushSettles` |
| `push` | 2 users, 1 fingerprint in 2 rows, 2 pushes of up to 2 refs of 1 tag and 2 branches, 2 commits, 2 changes of anything else | `TypeOK`, `ReleaseTagKept`, `ActsAsHolder`, `GuardedRefsKept` |
| `push_tag_moved` | 3 pushes one after the other, no other change | a counterexample to `PublishedTagNeverMoves` |
| `build_run` | a log of 2 lines, 1 chunk in Redis, 1 way to fail, 1 fault, fairness | `TypeOK`, `PageShowsLog`, `VerdictHonest`, `ContainerGoes`, `PageEnds` |
| `projects` | 2 paths, 1 package name, 2 branches, 2 projects, 2 requests at once, 2 faults | `TypeOK`, `RepositoriesMatch`, `OneProjectUnlessShared` |
| `members` | 2 users (1 administrator), 2 groups, 2 projects, 2 sets of scopes, 2 requests at once | `TypeOK`, `OwnersKept`, `ShownAsGranted`, `NoSelfPromotion` |
| `sessions` | 1 browser, 2 tabs and an administrator, 2 requests at once, 3 refresh tokens, 2 new passwords, 1 lost answer | `TypeOK`, `OneLivePerLogin`, `SignedOut`, `CookieFresh`, `PasswordAsChosen`, `ReuseSignsOut` |
| `upstream` | 2 versions of a page, 2 files, 2 requests and 2 cleanups at once, 1 fault | `TypeOK`, `EtagMeansLinks`, `CacheAgrees` |

Why these bounds. Builds meet only at a version and at a worker, so two of them
show every interaction, and one is enough where the property is about one. Two
workers give the second delivery; one cancel request meets every other actor.
Two faults allow a lost answer followed by a crash, or a crash whose message is
lost again. `MaxMessages` stops maintenance from filling the queue: with 1, and
the message of a crash on top, a duplicate is already there.
The publishing bound has a rival of the same version, one of a lower and one of a
higher one, since it takes three versions for a publish to settle between the
other two, and two files so that a publish fails between them; a fault at any
step of any publish needs one.
Pushes meet at the counter, in the spool and at the API: two requests at once
race for a number, the third push waits behind, and a fault gives the duplicate
delivery (a 500 spools an event without one). One push asks for two builds, so
that a number may be taken in the middle of a row.

In `push`, two pushes meet at the same refs, one of them may be cleared while the
other lands, and two changes are enough for a key to change hands (removed, added)
or for HEAD and row to differ and the branch to be pushed. In `build_run` the log
is as long as needed to lose, delay or refuse a chunk in the middle; a wrong version,
which both the worker and the script look for, stands for the ways to fail, since
nothing after them tells the codes apart; validation builds differ from releases only in what may be
refused, which `pipeline_mixed` has. In `projects` one name and two paths give
every conflict two projects can have. In `members` requests change one of the two
groups; the other is there for the lists. In `sessions` three tokens are two
rotations of one login, or one of it beside another login; the tokens of a second
browser are those of a login before, and two new passwords let a login that verified
the first one meet another change. In `upstream` the two
versions add a file and yank another, and the limit of one file makes cleanup
choose.

Symmetry is used where it is sound: over requests, users, commits, paths
or tabs that no definition tells apart, in runs without liveness. The action
properties of `members`, `push` and `sessions` are tested on each transition, and a
transition's image under a permutation is a transition.

Each property has a mutant: a definition next to the original, marked
`Mutant` in a comment, that makes a plausible mistake in the same lines of code
(`PROJECT.json` says which definition it replaces). With it the run finds the
property violated.

## Where the code and its documents disagree

* `push_tag_moved`, `PublishedTagNeverMoves`. `hooks/pre-receive` says of itself that
  a published tag is immutable. `git_authorize_push` (`internal.py:110`) looks for a
  published version only when the update has an old commit. A tag that was deleted
  while the build of its commit ran has none: once the build has published, the
  tag is created again at another commit, judged after the publication and let
  through.

Other behaviours that were met while modelling, which the properties above name as
their exceptions or leave out:

* A cancel that read QUEUED, with the start committed before it commits, writes
  CANCELLED over RUNNING; the token made by the start is not revoked
  (`build_service.py:254`), while `docs/SECURITY.md` 4.3 says it is however the build
  ends. `ResultRevokesToken` is therefore about SUCCESS and FAILED.
* `requeue_stale` finishes builds it loaded earlier; one that reported meanwhile is
  overwritten with FAILED (`build_service.py:305`). `LifecycleSpec` lets the phase
  advance only once, but does not tell results apart.
* Two builds of one tag (removed and pushed again before it was published) may both
  upload under the same keys; the one that loses at the unique constraint has written
  over the files of the released one, and removes them (`package_service.py:136-150`),
  while `docs/SECURITY.md` 5.2 says that nothing writes over the files of a version.
  `UnracedIntact` and `ReleaseImmutable` except that race, and only it.
* Of two publishes at once the lower version may become the latest release
  (`package_service.py:158`), and what is published next is compared with that one:
  after 3 was passed by 1, a publish of 2 makes 2 the latest, although 3 was released
  before it began. `tests/test_builds_registry.py:291` says that the latest release
  tracks the highest version; `HighestUnlessOvertaken` says when it does not.
* A manual build asked for while a push is handled may take the same number, and gets
  500 (`build_service.py:37`).
* An event that always gets 500 keeps those behind it in the spool
  (`toolhub-spool-flush:33`). `EveryPushSettles` is about the events before it.
* A spooled event handled late sets `latest_commit_sha` back (`build_service.py:78`).
* A change of the password and a reuse of a rotated token may deadlock: the change holds
  a row it has revoked and comes to one that was rotated since it began, which the
  reuse holds while its UPDATE waits for the other (`auth_service.py:120-122` and `135`).
  So may two revocations, as nothing orders their rows. PostgreSQL aborts one, and that
  request is answered 500: a reuse is then not punished, a password not changed.
* A login of a disabled account writes the hash of the password it verified
  (`auth_service.py:49-50`, `106-110`), also over one the administrator has reset meanwhile.
* A cancel or the time limit that meets a container which ended since its status was
  read is refused by Docker, and the build is FAILED with RUNNER_ERROR rather than
  CANCELLED or BUILD_TIMEOUT (`python_runner.py:270-283`, `368-370`).
* Two updates of the default branch that overlap may leave HEAD and row apart for
  good: one moves HEAD back to the branch it has read and writes nothing
  (`projects.py:95-106`). An update that read a project which is then deleted moves
  HEAD of the project created at its path.
* A put or removal that MinIO has done and not answered leaves an object nobody counts,
  or a row `cached` without its object, which is served as an error until a cleanup
  takes it (`pypi_proxy_service.py:302-310`, `337-342`).

## Proofs

Checked by TLAPS for all values of the constants that satisfy the assumption named
in each module (`PipelineAssumption`, `PublishAssumption`, `BuildRunAssumption`,
`PushAssumption`, `GitPushAssumption`, `ProjectLifeAssumption`, `MembersAssumption`,
`SessionsAssumption`, `UpstreamAssumption`): any number of builds, workers, messages, lines
of a log, pushes, keys, users, projects, tokens, requests and faults. The assumptions give
each constant its type, keep the markers (`NoBuild`, `NoUser`) out of the sets they
stand outside of, and make a set finite where requests, files or owners are counted.
The bounds of a run (`MaxFaults`, `MaxTokens`, ...) are any natural numbers.

Each module proves `Init => IInv`, that every action keeps `IInv`, and that `IInv`
implies the properties. What `IInv` adds to them, and why:

**Build pipeline** (`BuildPipelineProofs`)

* `TypeCorrect`: `TypeOK` is inductive. The proof splits it into the state of the
  rows, of the workers and of the rest (`RowTypes`, `WorkerTypes`, `OtherTypes`),
  which few actions disturb together.
* `ExecutedAtMostOnce`: `ExecutedOnce` is strengthened to `HandedOut`, which says
  where a build can be in relation to `runs`: before the first accepted start nobody
  executes it and it has not been RUNNING, after it the status is never QUEUED
  again, so no start is accepted, and the worker whose start was accepted is the
  only one that can execute it.
* `TokenRevokedByResult`: `ResultRevokesToken` is inductive once `RowSteps` has
  named the five ways a row can change: only `Finish` writes SUCCESS or FAILED, and
  it revokes; only a start makes a token, and it leaves the build RUNNING.
* `SuccessIsBacked`: `SuccessHasOutput` is strengthened by `SuccessBacked`: a worker
  that reports SUCCESS, and a finish call that carries it, already have their
  output, and output is never taken back.
* `RefinesLifecycle`: `Spec => LifecycleSpec`. Every step maps to a step of
  `BuildLifecycle` or to a stutter. It needs invariants for the two actors that
  write from a stale read: a cancel under way that read QUEUED still finds a build
  that has been created (`RightCancels`), a publish call belongs to a release build
  (`RightCalls`).

**Package publishing** (`PackagePublishProofs`)

* `ReleaseStaysIntact` (`UnracedIntact`): `Held` ties a row that is not committed
  to the one build past its insert, which has put all its files. `Unraced` says that
  on a version nobody raced for one publish at most is past its check, and only
  before the release, and that what it has put is still its own; so no clean-up of
  another build can remove it.
* `ReleaseIsImmutable` (`ReleaseImmutable`, stated beside its proof and part of no run):
  no step replaces the row of a released version, raced for or not, nor its files
  without a race. By `Held`, the version of a row that is about to be committed has no
  release yet, and `raced` only grows.
* `LatestIsHighest` (`HighestUnlessOvertaken`): `SawHighest` says that the latest
  release a publish has seen was above all that was released then, `passed` apart.
* `LatestIsReleased` (`LatestReleased`) and `TypesHold`.

**One build** (`BuildRunProofs`), where the invariant has a part for the verdict (`VInv`)
and one for the log (`LInv`).

* `VerdictIsHonest` (`VerdictHonest`): `VerdictKnown` says what the worker knows at each
  stage: nothing failed and nothing is delivered before its turn, a kill has the reason
  it names, and a code that is about to be reported fits what was delivered.
  `ScriptInTurn` keeps the result of the container behind the files it speaks of, whether
  it runs on or has ended, and
  `CodesDiffer` the codes of the script apart from those only the worker gives.
  `Reported` says that the worker alone makes a build more than FAILED, by its last
  step, so what maintenance writes over it cannot be a wrong success.
* `PageFollowsLog` (`PageShowsLog`): `InTurn` says that while no chunk was missed the list
  in Redis, the stored log and the text of the page are each a beginning of the log,
  and that the list ends where the worker last flushed unless it takes no more or the
  worker is over. `ReportStored`: nothing is written after the log was reported, and
  the stored log is that one. `Told`: what the page was told of the build still
  holds when the answer comes. `FlushesOn` and `ReadsOn` are the two facts about
  sequences: a chunk appended where the list ended, and a text read on from its
  own offset, are beginnings again.
* `RunTypesHold`, for any length of the log, any limit of Redis and any set of failures.

**A push** (`PushProofs`, first part). The two modules of a push are proved about together,
until the refs move and from there on; `PushEvents` names its specification
`EventsSpec` for that reason.

* `PublishedTagStays` (`ReleaseTagKept`) and `GuardsHold` (`GuardedRefsKept`):
  `ClearedKnown` says of each update that was cleared that every rule it would break
  at this moment began to hold after it was cleared, and the connection is marked
  `early` for it; `OpenedBefore` says the same of archived projects. With them,
  what `Land` does is what `Judge` has allowed, or is one of the exceptions named.
* `PushActsAsHolder` (`ActsAsHolder`): `KeysHeld` (a live row has a user) and that
  live rows differ in their fingerprint.
* `PushTypesHold`.

**Events** (`PushProofs`, second part)

* `EventsTypeCorrect` and `NoEventLost` (`SpooledUntilRecorded`): `EventsInv` adds
  `CallerFits`, that a request somebody waits for belongs to that caller; then a
  positive answer, the only reason for a file to be removed or a hook to be done
  without spooling, is about an event that is recorded (`ReplyLosesNothing`).
* `RefinesLedger`: `EventsSpec => LedgerSpec`. `LInv` says the numbers in use are those up
  to the counter (`Numbered`), a request has seen a counter that is not ahead
  (`SeenBehind`), and a manual request that has builds is over (`ManualOnce`). Then
  a row that passes the constraints was counted from the present counter
  (`CreateContinues`), so what it inserts continues the ledger, and its source has
  none so far (`CreateOnce`).

**Projects** (`ProjectLifeProofs`)

* `RepositoriesStayMatched` (`RepositoriesMatch`): `KeysDiffer` says that rows differ
  in path, and active ones in name, the uncommitted rows of requests included;
  `MadeOwn`, that a request removes on failure only what it has made; `Orderly`, what may be on disk at a path while somebody creates, deletes or
  does nothing there; `HeadsFit`, that a project outside `stale` has one update under way at most,
  which knows the branch of the row, and that HEAD is that branch, or the one that
  update brings once it has moved it.
* `OneProjectAPackage` (`OneProjectUnlessShared`): `NamesSingle` extends it to
  rows that are not committed, and to creations that have checked the name and
  have not inserted yet.
* `TypesHold`.

**Members** (`MembersProofs`)

* `LastOwnerStays` (`OwnersKept`): `OneAtATime`, that in a group outside `overlapped`
  one request at a time is between its check and its commit, and `OtherOwner`, that
  it leaves another owner. The check counts owners; `AnotherOwner` turns the count
  into a member.
* `NobodyPromotesThemselves` (`NoSelfPromotion`): `RequestsFit` keeps, in a request
  that was authorised, that the role it grants is within its level.
* `ShownIsGranted` (`ShownAsGranted`): follows from the types. It is a theorem about
  the three codings of the rule, over all tables and principals.
* `TypesHold`.

**Sessions** (`SessionsProofs`), where `IInv` has thirteen parts. `StagesFit`,
`Numbered` and `Room` (what requests under way may still issue is within the bound)
are needed by all.

* `OneLiveTokenPerLogin` (`OneLivePerLogin`): `OneLock`, a row is locked by one
  request; the token a refresh issues takes the place of the one it ends.
* `RevocationSignsOut` (`SignedOut`): `SweepCovers`, what an UPDATE that is waiting will
  not reach was issued beside it.
* `PasswordIsAsChosen` (`PasswordAsChosen`): `WeakIsFirst`, only the first password has
  a hash of old parameters, and `LateRehash`, a login that is to write that one
  verified it while it was in force or is named by `overtaken`.
* `CookieStaysFresh` (`CookieFresh`): `OneHolder`, a token is in one browser, and
  `Undisturbed`, what its jar and its one request hold.
* `ReuseEndsSessions` (`ReuseSignsOut`): `SweepCovers` again; when a reuse commits it
  holds every row it set out for.
* `TypesHold`.

**The cache of PyPI** (`UpstreamCacheProofs`)

* `CacheFollowsStore` (`CacheAgrees`): `IdleUntouched` and `HeldByCleanup`, a file that
  a cleanup took is one nobody downloads until it is done, unless another cleanup
  took it too; `PutStored`, an object that was put is there until its row is
  written. `Agree` is the property with `Busy` spelled out.
* `EtagVouchesForLinks` (`EtagMeansLinks`): inductive with the types of requests.
* `TypesHold`.

What the proofs found. That the latest release is never moved below a version
released before the publish began, a stronger property than
`HighestUnlessOvertaken`, passes every run with two versions. Its step would not
go through, and with three versions TLC finds the publish that settles between
two others; hence the third version in the bound of `publish`. Orders of `\cup` and
`\` that are read in two ways were written with parentheses, and exceptions that
no proof needed were taken out of the properties.

Only model-checked:

* `EveryBuildEnds`, `EveryPublishEnds`, `EveryPushSettles`, `ContainerGoes` and
  `PageEnds`: liveness under fairness and ENABLED are out of the prover's reach.

## Not modelled

* What the simple index and the pages of packages list, and the pages of the
  frontend: reads of committed rows in one request (who may see them is in
  `Members`). Yank and download counts are the only writes.
* Creation, expiry and revocation of access tokens (`Members` takes any token with
  any of its sets of scopes); the rate limit, one atomic counter of Redis.
* `builds.steps`, durations, `projects.last_build_status`, `repository_size_bytes`: shown
  and never decided on.
* Version, name and metadata rules: functions over strings, mostly of the
  `packaging` library. The models use ranks and names.
* Audit log, schemas, metrics, migrations, seed, command line, deployment, for the
  reasons in `PROJECT.json`.

## Plan

1. `RegistryIndex`: publish, yank and the index, over `PackagePublish`.
2. `RunnerFleet`: heartbeats against the administrator, the backlog that drops the
   maintenance task, the count of running builds.
3. `last_build_status` in `PushEvents` and `BuildPipeline` together.
