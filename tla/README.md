# Porty in TLA+

Porty manages Docker Compose stacks that live in one Git repository: one Go
process with an HTTP API, a SQLite database, the Compose SDK and go-git. This
directory holds TLA+ models of the parts of Porty in which several goroutines,
the database, Docker and restarts meet, the TLC configurations that check them
on small instances, and TLAPS proofs for every size of instance.

Run a check with `tlc -workers 2 -config OnDemandSingle.cfg MCOnDemand`, a proof
with `tlapm OnDemandProofs.tla`. Source paths below are relative to
`src/internal/` unless they start with `docs/`.

## 1. The system

| Component | State | Operations | Hard behaviour |
|---|---|---|---|
| Operation coordinator (`operation/deployment.go`) | one repository flag, one entry per locked stack, in memory | `Try`, the release closure | nobody waits; a release clears a flag without checking who set it |
| Operation service (`operation/operation.go`, `sqlite/operation_store.go`) | operation rows; running jobs; the last 128 results | `StartTracked`, `run`, `Wait`, `FailInterrupted`, `Shutdown` | any write may fail; `Wait` gives up while the job goes on; restart in the middle |
| On-demand activation (`ondemand/`, `control/on_demand*.go`, `sqlite/on_demand_*.go`, `compose/on_demand_lifecycle.go`) | a row per group; a worker goroutine per group with listener, revision and suspension | supervisor, sampling, sleep and wake transitions, policy requests, the interlock of manual actions, recovery | decisions on stale rows; partly started groups; ports shared with the containers; crash in a transition |
| Automatic updates (`autoupdate/`, `control/auto_update*.go`, `control/update_recovery.go`, `sqlite/auto_update_store.go`, `sqlite/update_execution_store.go`) | policies, runs, executions; queue and workers; `updatesBlocked` | `Admit`, `CheckAndUpdate` and its job, `ReconcileUpdates`, policy edits, `ResumeAutoUpdate` | minutes of image checks without the lock; lock handed from worker to job; crash while containers are recreated; outcome that cannot be saved |
| Manual actions (`control/control.go`, `control/containers.go`) | none of their own | deploy, start, stop, restart, pull, remove | interlock with both kinds of automation |
| Git client (`git/operations.go`, `git/remote.go`) | index, branch, worktree | stack commit, pull, push, fetch | a commit is seven calls on an index and a HEAD that all stacks share |
| Image selections (`deployment_images`, `control/auto_update.go`, `compose/client.go`) | a row per service: reference, platform, verified image | select, override a deployment, prune, invalidate, Resume | local tags, running images and selections move apart |
| Workspace (`stack/`, `filesystem/`) | files, stack rows | edit, create, archive, purge | roll-back of half-made stacks |
| Repository setup (`repository/setup.go`, `git/setup_*.go`) | the repository row, the worktree and Git configuration, the client in use | initialise, clone, adopt, configure and remove a remote, reconcile at start | worktree first, row second, client last; clean-up of an attempt; crash in between |
| Alerts (`alert/`, `sqlite/alert_store.go`) | an alert row per key with a revision; occurrences | raise, recover, acknowledge, resolve, raise for interrupted operations | recoveries that were observed before a newer failure |
| Event hub (`websocket/`), alerts page (`web/src/features/alerts`) | sequence, ring of events, subscribers; cursor and page of a browser | publish, subscribe from a cursor, replay, forward, reload | slow subscribers, reconnects, restarts that count from 0 |
| Authentication (`auth/`, `sqlite/auth_store.go`) | the user, refresh tokens in families, the signing key, cookies | register, log in, refresh, log out, change and reset the password | exchanges that overlap, a lost answer, a key that rotates between read and use |
| Traffic listener (`traffic/listener.go`) | sockets, a window of attempts, a channel | reserve, read, latch a wake, fail, close | several ports, one of which fails; a send under the mutex; Close against failing readers |
| Lifecycle (`app/`, `cmd/porty`) | order of start and stop | start, shutdown | jobs that end while the database closes |
| Monitoring, configuration, routing, audit, migrations, web interface | no protocol state | | |

How they interact: HTTP handlers, the update workers and the on-demand workers
call the control plane concurrently. Whatever changes a stack first asks the
coordinator (`Try` grants or reports a conflict). Long work runs as a *tracked
job* of the operation service, in a goroutine that inherits the lock and
releases it when it ends. An operation's row, and the on-demand row or update
execution that belongs to it, are written in one SQLite transaction. Manual
actions interlock with on-demand groups: creating the operation row of a stop
pauses and holds the affected groups in the same transaction, and
`SuspendStack` then tells the workers. After a restart `app.New` reconciles
update executions and fails interrupted operations, before HTTP is served and
the scheduler and the controller start.

What makes each part correct:

* coordinator: two actors never work on conflicting scopes; every lock is
  released on every path;
* on-demand: automation touches containers only for a row that is armed,
  unchanged since the decision and marked; a wake never meets Porty's own
  listener; an unpaused phase is true; a pause ends only by Resume; an inactive
  group gives its ports back;
* updates: what is applied is what was prepared; a mutation whose result is not
  proven leaves a pause, whatever fails; nothing is built on it; recorded
  outcomes are true; every admitted run ends;
* commits: a commit holds its own stack's change only, stays in the history,
  and leaves what others have staged;
* image selections: a deployment keeps the image that was verified last, and
  only a verified image is ever selected;
* repository setup: the client in use is the one of the saved row, a ready
  repository opens at the next start, a failed attempt removes its own files
  only, and a retry finds a state it accepts;
* operations and alerts: every failure has its alert, also the one a restart
  made; a recovery hides no newer failure; Wait finds recent results; after
  Shutdown nothing runs;
* events: without a gap nothing is lost on the way, and an open page converges
  to the database;
* sessions: one usable token per family, none after the family has ended;
* listener: ports are free when Listen has failed or Close has returned, which
  it always does.

`PROJECT.json` lists the components with their status, the hazards with their
lines, and the line-by-line map from definitions to code.

## 2. Modules

    Exclusion            what the coordinator promises (abstract)
    Coordinator          the coordinator's data structure
      OnDemandStore      on-demand rows: one operator per SQL statement
        OnDemand         controller, transitions, requests, recovery  -> implements Exclusion
          MCOnDemand     instances for TLC
          OnDemandProofs
      AutoUpdateStore    policies, runs, executions, baselines
        AutoUpdate       scheduler, check, job, recovery, requests    -> implements Exclusion
          MCAutoUpdate
          AutoUpdateProofs
      StackCommit        sdkCommit call by call on the shared repository
        MCStackCommit                                           [RepositoryProofs]
    ImageSelection       the images that updates select for later deployments
      MCImageSelection                                          [ImageSelectionProofs]
    RepositorySetup      setup, remote and start of the stack repository
      MCRepositorySetup                                         [RepositoryProofs]
    OperationAlerts      operation service, operations, alerts  [OperationProofs]
    EventHub             hub, WebSocket handler, and the page that follows alerts [EventHubProofs]
    Sessions             refresh tokens, keys and cookies       [ControlProofs]
    TrafficListener      one listener with its readers          [ProgressProofs]

    MCProgress           EventHub, TrafficListener, AutoUpdate, with their fairness; ImageSelection
      ProgressProofs     <- EventHubProofs, ImageSelectionProofs
    MCControl            RepositorySetup, OperationAlerts, StackCommit, Sessions
      ControlProofs      <- RepositoryProofs, OperationProofs

`MCProgress` and `MCControl` put modules that share no state into one run. A
behaviour moves one of them, chosen in the initial state by `part`, so their state
graphs add up and every property is checked on all of its own module's behaviours.

### OnDemand

| Variable | Code |
|---|---|
| `row[g]` | row of `on_demand_groups` (state, revision, enabled, hold, paused, phase, evidence, `operation_id` as `claimed`) |
| `wk[g]` | `Controller.workers[g]` (mapped, rev, suspended, listener) and the locals of `runGroup`, `ExecuteOnDemand` and its job |
| `req[u]` | a request goroutine of the API, or a job of the update scheduler seen from here |
| `coord`, `ctl` | `Coordinator`, the life of `Controller.Run` |
| `up[g]`, `gen[g]` | Docker: which members run, the identity of the containers |

`Loop` is one turn of `runGroup` (read the row, apply it, sample, reserve the
ports, decide), `Execute` is `ExecuteOnDemand` up to `StartTracked`, `Job` the
job it starts, member by member. `Arrive` and `Serve` are the policy service and
the manual actions with the interlock; `Manage` is recovery, the supervisor and
the end of `Run`; `Environment` is traffic, containers that change by themselves,
and the death of the process. Every call that may fail has a failing action.

Abstractions. Idle times, counters and the wake threshold are nondeterministic:
a worker may decide to sleep or wake whenever the sampled phase allows it
(`Traffic` clears `quiet`, `Attempt` latches a wake). `Spawn` is atomic with
`ListGroups`, and `releaseOnDemandHolds` is one step. Group membership is fixed. An expected
revision that is already stale when the request arrives is a failing request
(`PolicyFails`). An archived stack is a deleted row. A snapshot that fails and
leads to a pause is `DecidePause`. Requests may be served before `Recover`, as
`Controller.Run` starts concurrently with the server. After `Run` has returned
only a new process starts it again. Docker calls end with the process
that made them: what the daemon still does for a dead client is covered only by `External` changes.

### AutoUpdate

| Variable | Code |
|---|---|
| `pol[s]`, `run[r]`, `exec[r]`, `op[r]`, `base[s]` | policy row, run row, execution row, operation state, the latest and latest successful deployment |
| `files[s]`, `git` | the stack's Compose files and environment; HEAD and the dirty flag, which all stacks share |
| `gen[s]`, `fit[s]`, `gone[s]` | containers' identity, all running and healthy, stack archived |
| `unproven[s]` | history: an update recreated containers that nobody has verified or redeployed since |
| `wk[w]`, `job[r]`, `queue` | `Scheduler.execute` and `CheckAndUpdate`, the tracked job, the channel |
| `sched`, `blocked` | start-up and the scheduler's life, `updatesBlocked` |
| `cl[c]`, `coord`, `crashes` | requests, the coordinator, bound |

`Check` is a worker: mark, lock and look, release, prepare images, lock and
look again, hand the lock to the job, wait. `Update` is the job: record the
intent, admit, recreate, record, verify, complete. `Reconcile` is start-up.

Abstractions. Versions replace digests and only grow, so a value that changes
back is not confused with one that never changed: `SameEvidence` compares what
the code's digests compare. Time is a `due` flag per policy; two runs of one
occurrence (the `ON CONFLICT` clause) would need a clock that steps back.
`Admit` is atomic with `ListDue`: its compare-and-set makes a stale list
harmless. The queue's capacity of 200 is not reached. The fetch and push of the
repository do not touch what updates read and end like `ClientFails`.
`Discard` covers a conflict and an error of `SavePrepared` and `MarkApplying`.
A failed deployment of recovery is the latest one only if nothing was deployed
since (`Recovered`), as both are ordered by start time. A failing
`FailInterrupted` ends the process, which is a `Crash`. Cancellation by
shutdown appears as failing calls.

An observation that is not a defect: HEAD and the dirty flag are part of the
source that a deployment records, so a commit or an edit of any stack makes the
automatic updates of all others ineligible until they are deployed again.

### StackCommit

`work`, `index`, `commits`, `head` and `remote` are the repository; `req[c]`
holds the locals of `sdkCommit` (`originalIndex`, `head`, the new hash,
`committedIndex`). `acked` are the commits whose hash a request has returned.
The calls of go-git are atomic and external. A mixed reset moves the branch and
the index, as `ResetOptions` says; one that fails leaves both. A commit without a
change is refused. `Restore` is the deferred `SetIndex`, whose error is ignored: it
may leave the index as it is. The process may die at any step, any number of
times. Commit 0 is the unborn HEAD. The operator stages only while no commit
is under way. A pull is fetch and fast-forward under the repository lock.

Two history variables say what may be expected. `met` are the commits that another
commit has overlapped, which nothing in the code prevents. `staged[s]` is what was
staged for a stack last and its fate: *kept*; *reset*, after a commit of another
stack ended between the reset of the index and its restoration (a crash, or a
restore that failed); or *open*, for the stack of such a commit, and for all stacks
once commits have overlapped. Staging, a commit of the stack or a pull makes it
*kept* again. `StagedWorkSurvives` does not excuse the crash: the index must then
still hold a committed version of every other stack.

### ImageSelection

| Variable | Code |
|---|---|
| `source[s]` | the service in the saved Compose file: image reference, platform, build |
| `registry`, `local`, `running[s]` | Docker: what a tag names in the registry, in the local store, and what the containers run |
| `selected[s]` | row of `deployment_images` |
| `record`, `policy` | latest deployment and the source of the last successful one; schedule open, paused, or blocked by a lost outcome |
| `holder`, `check` | the job under the stack's lock; the update that has captured its evidence and runs without it |
| `latest`, `superseded` | history: what was verified last; a pull or a deployment of another source has made it void since |

`BeginDeploy`, `DeployUp` and `Prune` are a manual deployment (`startDeployment`
with `manualImageOverrides`, `DeployLocked`, `PruneImages`), `PullImages` and
`Invalidate` the pull; both may fail at any step with part of the services done.
`Capture` to `CompleteUpdate` is an update, `FailUpdate` and `LoseUpdate` its two
failures, `Resume` is `ResumeAutoUpdate`. An image is a reference, a platform and
how often the tag had moved. Scheduling, locks and recovery are `AutoUpdate`'s
and appear here only as who holds the stack.

### RepositorySetup

`row` is `app_state` with `repository_auth`, `path` the directory with its Git
metadata, `live` the client that serves Git requests, `job` the request under
the repository lock with what its attempt has recorded as its own (`made`). Every
Git call that changes the directory is a step, and so are the making of the client
(`Activate`), the save and `Replace`. `Start` is `Open`/`reconcileRegistered`. A
commit is named by the remote its history comes from.

The checked-out tree is a directory with a file in it. `PublishDir` and `LinkFile`
are the walk of `publishWorktree`; `AttemptFails` starts `repositoryAttempt.cleanup`,
which goes from the file (`UndoFile`) to the directory (`UndoDir`) to `.git`
(`UndoGit`), compares each with what was recorded (`Removable`, `os.SameFile`) and
passes over a removal that fails. `Outsider` is anybody else who makes such an entry,
or replaces one, between any two of these steps; `path.alien` are their entries. The
paths on which the code leaves something behind are there too: `.git` published and
not recorded (`ReserveFails`), a directory made and not recorded (`AttemptFails`), a
staging directory, a part of `.git` (`GitRemains`), the remote `porty-candidate`.
`StepFails` is an error outside of an attempt: what was written stays.

Abstractions. The comparison with `os.SameFile` and the removal that follows it are
one step. Others touch only the entries of the checked-out tree, not `.git`. Whether
the attempt has made the root directory itself (`rootCreated`) is left out: an empty
root and a missing one are both an empty path. `resume` is the request that has
failed and taken back all it had to; `torn` is set when a change of the worktree
misses its save, and cleared by the next successful setup or adoption.

### OperationAlerts

`opRows`, `alerts` are the tables, `jobs`, `tracked`, `completed` the service in
memory (`Keep` stands for 128), `page` what people look at. An operation observes
the alert revisions before it runs; `Complete` commits the outcome and the alerts
in one transaction, as `CompleteOperation` does, with the recoveries whose
revision is still current. Redaction and the history reads are left out.

### EventHub

`hubSeq`, `hubReplay`, `conn` are the hub and the handler with its queue and
buffer; `sock`, `cursor`, `reload`, `outdated`, `shown` are `useTopicStream` and
`useAlerts`; `truth` is the database. A change is committed first and published
later, or never if the process ends in between. The capacities 512, 64 and 32
are constants, 2, 2 and 1 in the run, which keeps their order. `AlertsAfter` is what
the loop of `Subscribe` collects from the replay.

### Sessions

`refresh` is `refresh_tokens`, `jars` the cookies of a browser, `calls` the
requests under way. A call reads the key, and checks a password, before its
transaction; transactions do not overlap as the database has one connection. The
answer of every call, logout and password change included, reaches the browser in a
later step (`SetAuthCookies`) or is lost. Passwords are right: a wrong one changes nothing here.
Cryptography, the rate limiter and the CSRF comparison are left out.

### TrafficListener

One action per critical section of `Listen`, `record`, `readTCP`/`readUDP`,
`fail`, `release` and `Close`. A send on the channel happens with the mutex held,
as in the code (`lockedBy`). The window of attempts is a count that may be reset.

## 3. Runs

| Run | Instance | Shows |
|---|---|---|
| `ondemand_single` | 1 group of 2 members, 1 request, all kinds but update and removal, 1 crash | ownership, ports, true phases and durable pauses through partial starts and stops, failed saves and recovery |
| `ondemand_live` | 1 group, 2 stacks, 1 request, containers that change by themselves | locks are released; an inactive group frees its ports |
| `ondemand_rearm` | 1 group, 1 request | finding: re-armed ports |
| `ondemand_stop_hold` | 1 group, 1 request | finding: a stop without a hold |
| `update_crash` | 1 stack, 2 runs, 2 crashes, outside changes | recovery, honest outcomes, no update on an unproven stack |
| `update_race` | 2 stacks of one repository, 2 workers, 2 runs; edits, commits, pulls, stops, removal | what is applied is what was prepared; blocking, exclusion |
| `progress` | hub: 2 changes, 1 foreign event, 1 lost connection, 1 restart; listener: 3 ports, threshold 2; updates: 1 run, 1 client; images: 1 service with 3 sources, 2 tags, 2 platforms, 3 deployments, any number of crashes | pages converge, streams catch up, listeners end, runs end and locks are released; no rollback to a cached tag, only verified selections |
| `control` | setup: 1 branch, 1 author, 2 remotes, 2 faults, 1 crash; operations: 2 with 2 keys, 1 fault, 1 crash; commits: 2 stacks, 2 committers, 2 commits, any number of crashes and failures; sessions: 1 browser, 2 calls, 3 tokens, 1 rotation | see the properties of these modules |
| `commit_lost` | 2 stacks, both requests commit | finding: a commit that disappears |
| `setup_half` | 1 branch, 1 crash | finding: ready without its files |
| `hub_collision` | as `progress`, 3 changes | finding: a gap that is not announced |
| `image_resume` | images as in `progress`, 4 deployments | finding: a selection of another reference's image |

Why the bounds are enough. Members only matter as none, some or all: two give
all three, and an order. A policy needs a revision to be created, one to be
paused or edited while something holds the old one, and one to be edited after
that: `MaxRev = 3` where edits after a pause are the question
(`ondemand_single`, `progress`), less elsewhere. Versions reach 2: a thing
is as it was read, or it has changed since. `MaxGen = 1` replaces the containers once
under a row that describes the old ones. One crash falls between any two steps;
the second one of `update_crash` falls into the recovery from the first.
`Managed` names the stacks that clients give a policy and deploy; the others of
the repository are only edited and committed, which is all that reaches a
neighbour. A tag that moves once is older or newer than what runs; three
deployments are one before an update, the update and one after it. Two faults
let a retry fail as well, or a clean-up that others disturb. With the one branch and
author of `control` HEAD can still differ from the row by being detached, and an
identity by being absent; the same part alone has been checked with two authors, and
the theorems are about any branches and authors. Two commits of two stacks overlap in every way that two requests can. With `Keep = 1` the table of completed operations
overflows with the second one; three refresh tokens are a login, its exchange and
an exchange or login that overlaps. Two calls suffice for the races between an
exchange and whatever ends its family.

Symmetry is used for run ids, workers, stacks, requests, operations and calls, in runs of safety
properties only. The deadlock check is off in the runs whose parts stop by
themselves: `control`, `hub_collision` and `image_resume` reach their bounds, and
in `progress` a listener that has closed does nothing more. Two on-demand groups
of one stack are left to the proofs, which cover any number of groups for all
safety properties. The same holds of more runs, workers
and clients than the updates' instances have, of more deployments, operations and
faults, and of more requests, commits and branches in one repository (section 4).

Each property is also run against a plausible bug in the definition it depends
on (`mutants` in `PROJECT.json`, definitions marked "Mutant" in the modules).

Fairness. Weak fairness of each worker, job, request already under way, of
start-up and of draining (`FairSpec`): goroutines are scheduled by Go's runtime,
their waits have deadlines and their Docker and database calls return or time out. In
`AutoUpdate` also the scheduler's reaction to a worker that has died, as its
`select` sees the error. `HubFairness`: the handler's goroutines, the browser's
reconnects and its requests; strong fairness of an answer, as a request that is
replaced by a newer one again and again needs connections that close again and
again, which the back-off of reconnecting slows down. `ListenerFairness`: a
listener's goroutines. No fairness for clients, the schedule, traffic, failing
calls or crashes. `AdmittedRunEnds` excepts blocked updates: when `FinishRun`
fails inside the job, the run stays live until the next start. `PageConverges`
excepts the cursor of the finding, `StreamCatchesUp` a replay that is longer than
the queue of its connection: such a browser is cut off each time, and its page
is kept current by the reload that every reconnect makes.

## 4. Proofs

Assumptions: the named `ASSUME` of each module. `ConstantsOK` of `OnDemand` (a
group has one stack, names do not coincide, bounds are naturals),
`UpdateConstants`, `OperationConstants`, `ImageConstants`, `SetupConstants`,
`CommitConstants`, `HubConstants`, `ListenerConstants` and `SessionConstants` say the
same of their modules: names do not coincide, bounds are naturals, what the code always
has (a port, a branch, a browser) exists. `NoneIsNoRequest` says that the absent
value is no record. TLC evaluates all of them. The theorems hold for any
sets of groups, stacks, runs, workers, requests, operations, keys, services and
browsers, any finite set of ports, and any bounds and capacities.

The theorems about `StackCommit` hold for any number of requests that commit at the
same time. `CommitIsStackScoped` and `StagedWorkSurvives` speak of the commits that
no other one has overlapped and of what they leave; overlapping commits are where the
code goes wrong (`commit_lost`), and `CommitsAreLostByOverlap` says that nothing else
takes a commit away.

`HealthyPhases` has the hypothesis `Undisturbed`: nobody changes containers outside
Porty, and no update and no removal of the stack takes place. The first is what the
property excludes; the other two change containers without looking at the groups, and
the rows learn of it when a worker samples the containers or a job fails. The instance
of `ondemand_single`, which checks the same property, satisfies it; every other kind of
request, crashes and failing calls are included in both.

| Theorem | Module | Statement |
|---|---|---|
| `TypeCorrect` | OnDemandProofs | `Spec => []TypeOK` |
| `SpecImplementsExclusion` | OnDemandProofs | `Spec => MutualExclusion`, the refinement of `Exclusion` |
| `OwnedMutation` | OnDemandProofs | `Spec => []AutomaticMutationIsOwned` |
| `WakeOwnership` | OnDemandProofs | `Spec => []WakeOwnsPorts` |
| `PauseIsDurable` | OnDemandProofs | `Spec => PauseEndsByResume` |
| `HealthyPhases` | OnDemandProofs | `Spec => []HealthyPhaseIsTrue`, under `Undisturbed` |
| `StopsAreHeld` | OnDemandProofs | `Spec => []StopIsHeldOrUnfinished` |
| `TypeCorrect` | AutoUpdateProofs | `Spec => []TypeOK` |
| `ImplementsExclusion` | AutoUpdateProofs | `Spec => MutualExclusion`, the refinement of `Exclusion` |
| `AmbiguityPauses` | AutoUpdateProofs | `Spec => []AmbiguousUpdatePauses` |
| `NoRetryOnUnproven` | AutoUpdateProofs | `Spec => []NoUpdateOnUnproven` |
| `AppliesPrepared` | AutoUpdateProofs | `Spec => []AppliesWhatItPrepared` |
| `OrphanBlocks` | AutoUpdateProofs | `Spec => []OrphanBlocksUpdates` |
| `PauseNeedsResume` | AutoUpdateProofs | `Spec => PauseEndsByResume` |
| `HonestOutcome` | AutoUpdateProofs | `Spec => OutcomeIsHonest` |
| `SelectionsAreVerified` | ImageSelectionProofs | `ImageSpec => []SelectionIsVerified` |
| `NoRollback` | ImageSelectionProofs | `ImageSpec => NoCachedRollback` |
| `ImageTypes` | ImageSelectionProofs | `ImageSpec => []ImageTypeOK` |
| `OnlyResumeMismatches` | ImageSelectionProofs | `ImageSpec => ResumeAloneMismatches`, the boundary of the finding |
| `RepositoryTypeCorrect` | RepositoryProofs | `Spec => []TypeOK` of `RepositorySetup` |
| `ClientIsSaved` | RepositoryProofs | `Spec => []LiveClientIsSaved` |
| `ReadyIsOpenable` | RepositoryProofs | `Spec => []ReadyReopens` |
| `RetriesResume` | RepositoryProofs | `Spec => []RetryResumes` |
| `CleanupSparesOthers` | RepositoryProofs | `Spec => CleanupIsOwn` |
| `GitTypeCorrect` | RepositoryProofs | `GitSpec => []GitTypeOK` |
| `ScopedCommits` | RepositoryProofs | `GitSpec => []CommitIsStackScoped` |
| `StagedSurvives` | RepositoryProofs | `GitSpec => []StagedWorkSurvives` |
| `CommitsAreLostByOverlap` | RepositoryProofs | `GitSpec => LossNeedsOverlap`, the boundary of the finding |
| `OpsTypeCorrect` | OperationProofs | `OpsSpec => []OpsTypeOK` |
| `FailuresAreAlerted` | OperationProofs | `OpsSpec => []FailureIsAlerted` |
| `WaitFinds` | OperationProofs | `OpsSpec => []WaitFindsRecent` |
| `ShutdownDrains` | OperationProofs | `OpsSpec => []DrainedIsQuiet` |
| `RecoveriesAreFresh` | OperationProofs | `OpsSpec => RecoveryIsFresh` |
| `HubTypes` | EventHubProofs | `HubSpec => []HubTypeOK` |
| `NothingIsLostSilently` | EventHubProofs | `HubSpec => []NoSilentLoss` |
| `PortsComeFree` | ProgressProofs | `ListenerSpec => []PortsAreFree` |
| `WakesOnce` | ProgressProofs | `ListenerSpec => []OneWakeBeforeClose` |
| `OneActiveToken` | ControlProofs | `AuthSpec => []OneActivePerFamily` |
| `EndedFamilies` | ControlProofs | `AuthSpec => []OverIsOver` |
| `ExchangesAreCurrent` | ControlProofs | `AuthSpec => ExchangeSignsWithCurrentKey` |
| `ProgressImplements` | ProgressProofs | `ProgressSpec => HubSpec /\ ListenerSpec /\ ImageSpec` |
| `ProgressTypes` | ProgressProofs | `ProgressSpec => []ProgressTypeOK` |
| `ControlImplements` | ControlProofs | `ControlSpec => Spec /\ OpsSpec /\ GitSpec /\ AuthSpec` |
| `ControlTypes` | ControlProofs | `ControlSpec => []ControlTypeOK` |

*Exclusion.* The refinement maps the owner of a scope: a worker from `Try` to
its release owns its stack, a request owns its scope while it is served. As the
coordinator does not know owners, the invariant has to connect them: `LockInv`
says every owner's flag is set and no two owners conflict. A release then clears
the flag of its own scope, and no other owner relied on it. Every step keeps the
owners, gives one a scope that `Try` granted, takes it back, hands it over, or
is a crash; each of these is a step of `Exclusion` or a stutter. `AutoUpdate`
refines the same module, with the hand-over from the scheduler's worker to the
tracked job.

*Safety of transitions.* `AutomaticMutationIsOwned` is not inductive: at
`BeginTransition` it needs what `Fresh` read a few steps before, and that nobody
has changed the row since. `Inv` adds `GroupInv(wk[g], row[g])`, what a worker
may rely on about its row at each control point, `RequestInv`, what a request may
rely on while it holds its scope, and `BootInv` (recovery runs before any worker).
The key lemma is `RequestIsAlone`: by `LockInv`, a request that writes a row
excludes a job of that group, so the write meets a worker only outside its
critical section, where `GroupInv` promises little. The clause that a
suspension at the row's own revision implies that the row is not armed makes
`WakeOwnership` true: `Controller.Release` cannot refuse a job under the lock.
`PauseIsDurable` then goes through the actions that write a row. `StopsAreHeld` says
what remains of the promise that the finding `ondemand_stop_hold` refutes: every group
that an accepted stop touches has its hold, or an unfinished transition instead; the
locks keep everybody else from taking the hold back while the stop runs.

*True phases.* `HealthyPhaseIsTrue` says nothing of a row whose transition has begun,
and a transition may be cut off at any step and finished by a save. `TruthInv`
therefore follows the containers. `ProgressInv` says which members a job has started or
stopped when it has counted up to a member, so that the phase it completes with is
true; `ClaimedInv` that a row which a transition owns shows only "starting" or
"stopping", so that a failed save and a crash leave nothing that automation trusts; and
`SnapshotInv` that the snapshot which a policy request is about to save is still that of
the containers, and that an action changes containers only behind a pause or an
unfinished transition. Each of the last two rests on the locks: nobody else moves the
containers of a group meanwhile.

*Updates.* Type correctness already needs the control invariant, as a step
writes to the stack of its run: `ControlInv` says where a run, its worker, its
job and its execution row are relative to each other (`RunInv`, `QueueInv`,
`WorkerInv`, `JobInv`, `ExecInv`, `StartInv`), that a run has one worker and a
stack one live run. On top of it and of the locks, `SafeInv` is inductive:
`AmbiguousUpdatePauses` together with `ReadyInv` (from the second look until
`ApplyUpdate` the files, the baseline and the containers are as they were looked
at, and the stack is not unproven) and `VerifiedInv` (an update about to be recorded
as a success has been verified). Each needs the others: the look finds the stack
proven because an unproven one is paused, and the pause is lifted only by what
was verified. `AppliesPrepared` and `NoRetryOnUnproven` follow. `HonestOutcome`
goes through the actions that end a run. `OrphanInv` is separate: unless updates are
blocked, a pending execution has a job that somebody waits for, or a worker that
is about to see that job's error.

*Image selections.* `NoCachedRollback` compares what a deployment starts with
what was verified last. `VersionInv` says no image is newer than its tag in the
registry, `DeployInv` that the overrides of a deployment are still the selections
when it starts its containers, and `TagInv` that a verification which counts is either
selected or its local tag has caught up with it. With these, a deployment that
follows the tag cannot go back. The bound on records in `ImageTypeOK` needs
`RecordInv`, which counts the records still due: an update begins only under an open
policy, so at most one lost outcome waits for a restart. `OnlyResumeMismatches` is about
the same specification as the runs: `OwnInv` says that whatever an update has prepared
or applies is an image of the reference in the source it was prepared from, and that a
row has the platform of its image. So a deployment runs the saved configuration of every service
without a mismatched row, and only the step of Resume makes such a row.

*Setup.* `OpenInv` is the centre: outside of a request's writes a ready row
describes the directory. `OwnInv` says that an attempt which has made `.git` is a
setup before the row is ready. `SetupInv`, `ConfigureInv` and `RemoveInv` say for each
kind of request what it has written at each control point; the save then establishes
`OpenInv` for the new row. `CleanInv` follows the clean-up: as long as nothing has
stayed behind and nobody else has written, whatever it has passed is gone, which is
what a retry needs (`RetryInv`). `PathInv` keeps the entries of others in place, and
`CleanupSparesOthers` goes through the steps that remove something: each compares
with `made` and `alien`, and a directory is removed only when it is empty.

*Commits.* `GitLockInv` ties requests to the coordinator's flags. `MetInv` says that
two requests which use the index at the same time have met and that nothing is then
known of the index, so everything else may be said of requests that have met nobody.
`IndexOf` follows the shared index through the calls of `sdkCommit` for such a
request, from the index it read to the one it restores, and `StagedWorkSurvives`
itself carries the fates of the stacks from one commit to the next. `PastInv` says
that the past of a commit is closed, so that a pull and a commit only add to the
local history; a reset goes back only if the head has moved since it was read, and
that takes another commit.

*Operations.* `TableInv` says the table that `Wait` consults holds the last
`Keep` ended operations, each once, so the eviction of the oldest hits none of
the recent ones. `FreshInv` says a revision an operation has observed is not
ahead of its alert, and an equal one means that the alert has not failed since:
hence a recovery hides no newer failure. `RowInv` keeps the targets of a job and of its row
the same, which recovery after a crash relies on.

*Events.* `NoSilentLoss` says nothing about the stream of a browser whose cursor
comes from an earlier process, but the first message makes that cursor a current one.
`StreamInv` says that such a stream, too, has no hole after its first message
(`NoHole`), that messages ascend and none is above the latest event (`InSequence`),
that the replay is the unbroken end of all events (`ReplayInv`), and that the buffer
is read only after the replay (`PhaseInv`). Every step then is one of a few changes of
the stream: its first message leaves, an event joins at the end, a message moves from
one queue to the next, which changes nothing, a subscription starts it anew from the
replay, or it is cut.

*The listener.* `ListenerInv` adds to the two properties that nobody opens a
socket once a release can begin (`BindInv`), that whoever runs `releaseOnce` is
still waiting for its end and that `Close` has passed it before it waits for the
readers (`ReleaseInv`), and that the mutex is held over a send only, by the one
reader that has set the latch (`WakeInv`).

*Sessions.* Every transaction changes the table in one of three ways: it adds the
first token of a family, it exchanges an active token, or it sets marks. `Sound`
is what holds of any table, and a lemma shows that each of the three keeps it.
`ExchangesAreCurrent` needs `CallInv`: an exchange that has read a key which is no
longer in force holds a token that is revoked, so it cannot commit.

*Compositions.* A step of `MCProgress` or `MCControl` is a step or a stutter of each
part, and the initial states are initial states of the parts. So the two
specifications that TLC runs implement those of their parts, and every theorem about
a part is one about the run. Automatic updates in `MCProgress` are the exception:
when another part moves they begin in a server that has stopped, which is no initial
state of `AutoUpdate`.

What the proofs changed. The replay of a subscription was written with `SelectSeq`,
about which the library has no facts; `AlertsAfter` now lists the positions it takes
in ascending order. TLC has compared the two on every reachable state of the instance.
The attempt at `NoRollback` showed that the history
variables of `ImageSelection` did not record a deployment that drops a selection, so
`NoCachedRollback` failed 25 steps deep, with more deployments than the run has;
`Prune` and `Resume` now keep them, and the property was checked again with 7
deployments before it was proved. Two `CASE` expressions had overlapping guards, which TLC takes the first and the prover none; their guards are now disjoint. The
attempt to prove that deployments run the source showed that a built image had the platform of the host
even where the service names another; `BuiltImage` is now made for the service's own.

Only model-checked:

* liveness (`LocksAreReleased`, `InactiveGroupDisarms`, `AdmittedRunEnds`,
  `PageConverges`, `StreamCatchesUp`, `ListenerEnds`, `WorkEnds`): fairness and
  `ENABLED` are outside what the prover supports. `ProgressImplements` carries the
  fairness of the parts, but does not use it;
* the properties of the runs that end in a violation, which are false of the code. For
  `commit_lost`, `image_resume` and `ondemand_stop_hold` a theorem above says what
  holds in their place.

Every other property of a passing run is a theorem. What a recursive definition
computes is nowhere needed. The one fact that takes an induction over data, that a set
of positions can be listed in ascending order (`OrderExists`), is proved as the absence
of a least counterexample, since the induction theorems of the library cannot be
instantiated by the provers.

## 5. Findings

* `ondemand_rearm` (`ondemand/controller.go:215`): a worker that read its row
  before a manual action's interlock takes the older revision for news, forgets
  the suspension and reserves the ports again while the action runs. The comment
  at `ondemand/controller.go:83` rules this out. `InactiveGroupDisarms` shows that
  the ports of a group that stays inactive are given back in the end.
* `ondemand_stop_hold` (`sqlite/on_demand_interlock.go:27`): a group whose last
  transition could not be completed keeps its operation id, and the interlock of
  an accepted stop passes it by; `docs/on-demand.md` promises a hold for every
  affected group. By `StopsAreHeld` only such groups go without a hold.
* `commit_lost` (`git/operations.go:130`): commits of two stacks run under two
  locks on one HEAD and one index. The mixed reset of the one, to the HEAD it
  read earlier, moves the branch back over the commit that the other has just
  returned. The same interleaving mixes what the two have added to the index, so an
  overlapped commit is not scoped to its stack either, which is why
  `CommitIsStackScoped` speaks of commits that were alone. By
  `CommitsAreLostByOverlap` no other step takes a commit away.
* `setup_half` (`repository/setup.go:265`): the branch is attached before the
  checked-out files are published (`git/setup_provision.go:236-247`). A crash in
  between leaves a worktree that the next start adopts: ready, with files missing.
* `hub_collision` (`websocket/hub.go:126`): "Reconnect gaps are explicit"
  (`docs/superpowers/specs/2026-09-19-porty-design.md:36`). After a restart the
  sequence starts at 0, and a cursor of the earlier process which the new sequence
  has reached when the subscription is handled is told of no gap. The page does
  reload when its connection opens (`web/src/hooks/useTopicStream.ts:48`), which
  usually covers what it missed. But that request and the subscription are handled
  independently: a change that is committed and published after the reload has read
  the database and before the subscription is handled is in neither, and the page
  stays behind, connected and without a gap, until another event comes. The test
  `websocket/hub_test.go:51` has a cursor that is still ahead.
* `image_resume` (`control/auto_update_policy.go:153`): Resume records the image
  that runs as the selection of the configured reference. After an edit to
  another image, a start or a failed deployment, and an edit back, that is the
  other image, and later deployments run it and report success. By the theorem
  `OnlyResumeMismatches` no other step leads there.

## 6. Not modelled, and the plan

Out of scope: HTTP decoding and routing, configuration, migrations and generated
queries, metric readers of `/proc` and `/sys`, the adapters around the Compose
SDK, the web interface but for the alerts page, cryptography and transport (I/O or pure
functions without protocol state). SQLite transactions are taken to be atomic
and durable. The eligibility rules of Compose projects and the cron arithmetic
are pure validation and are represented by their results.

Observed while reading and not covered by a property:

* Workspace inventory (`stack/stack.go`, `stack/workspace.go`): `Discover` runs
  without a lock. Between the rename of a directory and that of its row, or
  between the new directory and its row, it inserts a row that makes the request
  fail on the unique directory name and roll back. A deletion whose row could not
  be archived cannot be repeated. Each is one file system call around one row.
* A crash inside `ConfigureRemote`, or a failing deferred `DeleteRemote`
  (`git/setup_remote.go:69`), leaves the remote `porty-candidate`, and later
  requests are refused until somebody deletes it (`git/setup_remote.go:60`). The
  model has this state; the documents promise retries only before `ready`.
* An `Lstat` that fails right after the rename of `.git` or a `Mkdir`
  (`git/setup_attempt.go:121`, `179`) leaves an entry that the attempt has not
  recorded, so clean-up passes it by and a retry is refused as "not empty". The model
  has these states and `RetryResumes` excepts them, like removals that fail.
* A commit that is cut off between the reset of the index and its restoration, by a
  crash or a failing `SetIndex` (`git/operations.go:143`), un-stages what the
  operator had staged for other stacks. The files are untouched.
* A pull between an update's image check and its second look is not part of the
  evidence: the older digest is selected over the tag just pulled, until the
  next check.
* The stack action "start" runs `up` without the selections and may bring an
  older local tag back; the documents promise otherwise for deployments only.
* A login that has checked the old password may create its session after a
  password change.

Next, in this order: a module of the workspace inventory, which would cover the first
observation above; the order of `app/lifecycle.go` at shutdown; and an abstract
specification of the alert stream (an ordered queue that may announce a gap) that
`EventHub` implements, for which `StreamInv` is most of the proof.
