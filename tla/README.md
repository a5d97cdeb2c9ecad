# QVAC Atlas: specifications, model checking and proofs

QVAC Atlas runs a fixed workload of a project's own `@qvac/sdk` in a contained
child process, turns what it observes into a V1 report, lets the contributor
preview and submit it, queues submissions as pull requests through a relay, and
aggregates accepted reports into a catalog of claims. These modules say what the
parts that decide something promise, and check and prove it. Paths below are
relative to the repository.

1. [The system](#1-the-system)
2. [How the parts interact, and what is hard](#2-how-the-parts-interact-and-what-is-hard)
3. [The modules](#3-the-modules)
4. [The runs](#4-the-runs)
5. [Where the documents and the code disagree](#5-where-the-documents-and-the-code-disagree)
6. [Fairness](#6-fairness)
7. [Proofs](#7-proofs)
8. [What is only model-checked, and what is not modelled](#8-what-is-only-model-checked-and-what-is-not-modelled)
9. [Plan](#9-plan)

## 1. The system

| Part | Source | State | Operations | What makes it correct | Modelled in |
|---|---|---|---|---|---|
| Supervisor of the executor child | `packages/qvac-executor/src/supervisor.ts`, `protocol.ts` | grammar position, first failure, override, four timers, finalisation | attach, abort, dispose, message, timeout, kill, settle, exit, sweep | one verdict, admitted by the contract, that names the first cause; it always settles | `ExecutorSupervisor` |
| One execution | `qvac-executor/src/{executor,child-runner,parent-disconnect,artifact-bootstrap,model-grant}.ts`, `qvac-resolver/src/{launch,bootstrap}.ts` | cwd, process group, IPC channel, abort signal | execute, launch, bootstrap, the child's lifecycle, crash, disconnect | no process outlives the run; what is claimed of it is what happened in the child | `ExecutorRun`, `ContainedRun` |
| Runner adapter and contract | `probe/src/runner.ts`, `schema/src/{evidence,validate,claims}.js` | none | adapt, validate, evaluate, derive a claim | contradictions are refused, rejected events are inconclusive, a run elsewhere than asked claims nothing | `ReportContract` |
| Model artifact store | `model-artifact/src/{service,contained,contained-internal,acquisition-child,recovery,recovery-child}.ts` | the cache directory (blob, staging files), two child processes of an attempt | verify, acquire with consent, publish, recover, answer | a blob is used only after it was verified; a crash leaves a state that recovery can repair | `ArtifactAcquisition`, `VerifiedCache` |
| Real probe: CLI, pipeline, coordinator | `cli/src/real-*.ts`, `probe/src/{real-pipeline,real-state-machine}.ts` | what is awaited, consents, the signal, the last word | dispatch, preflight, the stages, consent, write, submit, cancel | no step without its consent; what is said last is true; SDK, Doctor, model and workload are those of one run | `RealProbe`, `Continuity` |
| Exclusive report output | `cli/src/real-output.ts` | the path, a staging name, an inode | preflight, writeExclusive with its undo | nothing is overwritten or half written; "write-failed" leaves nothing | `RealOutput`, `ExclusiveReport` |
| Relay: queue of pull requests | `apps/submission-relay/src/{github-queue,handler,server}.ts` | admission chain, refs and pull requests on GitHub | submit, enqueue, every GitHub call, timeout | the same report is queued once; the queue is bounded; a receipt is exact | `SubmissionQueue`, `DurableIntake` |
| Relay: credentials | `apps/submission-relay/src/github-app.ts` | token cache, a shared mint | token | a token in use has not expired | not modelled |
| Submission client and protocol | `packages/submission/src/*` | none between calls | admit, submit, read receipt | the answer belongs to the report that was sent | outcomes in `RealProbe` |
| Doctor | `probe/src/{doctor,platform}.ts` | the Doctor's process group, two timers | run, terminate, sweep | what it says is real, the group is gone when it answers, and it always answers | `DoctorRun`, `ContainedRun`, `Continuity`; outcome in `RealProbe` |
| SDK resolver | `qvac-resolver/src/{resolver,manifest,handle,filesystem}.ts` | none but the handle | resolve, revalidate | the package that was audited is the one imported | `Continuity` |
| Artifact capabilities and bridge | `model-artifact/src/{executor-bridge,capabilities,candidate}.ts` | one-use tokens, snapshots | approve, consume, validate twice | a token is used once, the model does not change during a run | `Continuity` |
| Fixture probe | `probe/src/{pipeline,writer}.ts` | the report | preview, write | nothing is written that was not previewed | not modelled |
| History of the reports | `packages/catalog/src/append-only.js`, `scripts/{validate-contribution,verify-host-protection}.mjs` | the commits of main and of topic branches, the checks that passed | author, merge, check, squash, rebase | what main has shown stays as it is, in every commit | `ReportHistory`, `ReportLedger` |
| Registry and catalog | `catalog/src/{catalog,audit,filesystem}.js`, `schema/src/claims.js`, `scripts/validate-site-release-catalog.mjs` | the sources with their lifecycle, the generated catalog | audit, build, aggregate, release gate | every report is accounted for; a reproduction is independent | `Catalog`, `Registry` |
| Site, packaging, spikes, docs | `apps/site`, `scripts/package-*.mjs`, `spikes`, `docs` | | | | not modelled |

## 2. How the parts interact, and what is hard

```
contributor ── questions, signals ──> RealProbe ── writeExclusive ──> RealOutput ── link/unlink ──> output path
                                        │   │                                                      (other runs, the outside)
             acquire (consented) ───────┘   ├── execute ──> ExecutorRun ── IPC, TERM/KILL ──> child, worker
                  │                         │                   └ ExecutorSupervisor ── events ──> ReportContract
                  v                         │
       ArtifactAcquisition ── IPC ──> acquisition / recovery child ──> cache directory
                                            └── submit ──> handler, SubmissionQueue ── REST ──> GitHub <── maintainers
                                                                                                  │
           main of the public repository <── check, land ── ReportHistory, Registry <── pull requests
```

Between the command and its stages stands the coordinator, `Continuity`, which
carries an SDK handle past the project's Doctor and a model past its acquisition
into the child.

* **Calls.** The command calls the pipeline, the pipeline the coordinator, and
  the coordinator the resolver, the Doctor, the artifact store and the executor,
  each behind an `await`. One `AbortSignal` reaches all of them.
* **Messages.** Executor child and acquisition child talk to their supervisors
  over Node's IPC, which may deliver the exit of a child before or after the
  messages it sent.
* **Shared state.** The output path (any two runs, and anyone with the
  directory), the cache directory (any two attempts), and the branches and pull
  requests on GitHub (relays, late calls, and maintainers). The SDK's
  installation (the project's code may write it), and the head of main, which may
  move between a check and the landing of what was checked.
* **Failure.** Children crash, hang, ignore `SIGTERM`, cannot be killed, lose
  their parent. File operations fail half-way. GitHub's calls fail, are lost,
  or take effect after the caller gave up.
* **Time.** A deadline per phase, a wall deadline, a kill timer and a settle
  timer in the executor; the same scheme in the acquisition; one timer of 12 s
  around a relay request. A timer may be handled just after what it guards has
  happened.

`PROJECT.json` lists every hazard we see at its line, with the properties that
would catch it; the few that nothing covers have a note that says why.

## 3. The modules

| Module | What it is |
|---|---|
| `ReportContract` | constants of the V1 contract: phases, failures, terminations; `runner.ts`'s adapter, the semantic rules of `validate.js` and the claim of one report (`claims.js`) as operators |
| `ExecutorSupervisor` | the supervisor against a child that may send anything |
| `ExecutorRun` | `EXTENDS ExecutorSupervisor`: the same supervisor with the real child, its worker, the launcher, `execute()` and the coordinator around it |
| `DoctorRun` | the project's own Doctor: its processes, the timers that bound it, the sweeps that end it |
| `ContainedRun` | abstract: one run, of the workload or of the Doctor, one answer, no process left |
| `ArtifactAcquisition` | attempts over one cache directory |
| `VerifiedCache` | abstract: the pinned name holds nothing, the pinned bytes, or a foreign file that stays; a lease only of the pinned bytes |
| `SubmissionQueue` | relays, their admission chains, GitHub, maintainers |
| `DurableIntake` | abstract: a report is taken in once, and is acknowledged only then |
| `RealOutput`, `RealProbe` | the report output, and `EXTENDS RealOutput` one contribution from command to last word |
| `ExclusiveReport` | abstract: a report appears whole, once, and only where nothing was |
| `Continuity` | the coordinator, with `DoctorRun` and `ArtifactAcquisition` as instances, the project's SDK, the cache after the grant, and what the executor's child reads |
| `ReportHistory` | commits, the append-only audit, and how main moves |
| `ReportLedger` | abstract: reports are only added, and every state is admitted |
| `Catalog` | sources, lifecycle, claims of groups, the audit of a tree, the gate of the site, as operators |
| `Registry` | `ReportHistory` with the registry and the generated catalog of `Catalog` as the rest of the tree |
| `ExecutorSupervisorProofs`, `ExecutorRunProofs`, `ArtifactAcquisitionProofs`, `SubmissionQueueProofs`, `RealProbeProofs`, `ReportHistoryProofs`, `RegistryProofs`, `ContinuityProofs` | theorems |
| `MC*` | values for TLC |

Operators whose name ends in an underscored remark (`Undo_...`,
`KeepPrivate_SignalFirst`) are plausible mistakes: variants of the operator they
stand beside. Nothing uses them; they record which mistake each property would
catch (`PROJECT.json`, `mutants`).

### 3.1 Executor: `ExecutorSupervisor`, `ExecutorRun`

The state of `ExecutorSupervisor` is that of the class, field by field: the
position in the phase grammar, `firstFailure`, `override`, the four timers, and
how far `#finalize` has come; its events are reduced to what the adapter reads. Each callback
of the class is an action: attach, each kind of message, each timer, exit,
abort, and the steps of the sweep of the process group. `ExecutorRun` closes
the system: what the child sends is what `child-runner.ts` sends, through a
channel; the exit may be seen with messages in flight (`DrainFirst`).

* `ClaimIsReal` reads the report as the catalog will: what passed in the report
  passed in the child, and `ReportClaim` is an observed failure only if something
  did fail, or was not over in time: a child that completes just after its
  deadline is reported as a timeout, which is what happened.
* Bytes, tails of output and durations are left out. Whatever makes a message
  unreadable (size, depth, JSON, an unknown field) is one message `"invalid"`.
* `nextSequence` equals `#eventCount` until the first failure, so that one
  variable stands for both.
* A signal that the contract does not name (`SIGHUP` stands for them) ends as
  `UNKNOWN`.
* `completionObserved` is assigned and never read; `onError` without a pid
  cannot happen since attach refuses such a child. Neither has a counterpart.
* A timer may fire at any moment while it is armed. The wall deadline and the
  escalation timers fire eventually; a phase timer need not, because each
  message re-arms it.
* An exit that is reported neither as code nor as signal occurs only after an
  abort, where the coordinator discards the verdict.
* `docs/architecture/qvac-executor.md:80` speaks of an explicit unknown terminal
  phase; after a terminal message or a failure `supervisor.ts:494` ignores what
  comes instead, and the model does what the code does.

### 3.2 Artifact: `ArtifactAcquisition`

Each attempt (`Session`) has a parent and up to two children: the acquisition
child, which verifies or downloads, links and unlinks, and the one-shot
recovery child that cleans up after a dead one. The cache directory is `blob`
(none, an old file, or the file of some attempt) and one staging file per
attempt, each with the bytes it holds. Every system call of the child that
changes the directory is an action, and between any two of them the child may be
killed, the parent lost, the deadline passed, the signal fired.

* The HTTPS source with its redirects is one choice: the right bytes, wrong
  bytes, or a failure. Ownership, modes and symbolic links of paths are checked
  by the code and are not modelled; nobody with the same uid tampers.
* The parent handles messages that precede `close`; what a child sends to a
  lost parent is as if unsent; a spawn that fails is a child killed at once.
* A staging file whose announcement never arrived stays: the documents accept
  this, and `SettledClean` therefore speaks of announced ones.
* The child's own cleanup is best-effort. `unlinkIfSame` swallows a failed `lstat`
  or `unlink`, so that `Unpublish` and `Unstage` have an alternative in which the
  name stays and the attempt is `stuck`; the child then reports its first failure
  all the same, and for an error that a child reported its parent recovers
  nothing. `SettledClean` says that this is the only way in which an answer other
  than cleanup-failed leaves an announced partial or a blob with two links; that
  it exists is a disagreement with two work packets (section 5).
* The signal is looked at until the child is reaped (`CallerAborts`), and what a
  parent remembers is lost with it (`ParentLost`).
* `Quiescent = TRUE` is the documented use (one attempt at a time over a
  directory), `FALSE` lets attempts overlap.
* `HonestChildAccepted`: an attempt ends as a protocol violation only if its
  child died before it took its request, never because an honest child's tokens
  were refused.

### 3.3 Relay: `SubmissionQueue`

A request is a slot that carries one report (`DigestOf`) to one relay process
(`ProcessOf`) and may be used again: a client that retries. Its position is the
GitHub call it waits for, in the order of `enqueue`; `#admission` is a chain
of promises, modelled by what each slot waits for. GitHub is `base` (what the base branch holds for a report), `ref` (which commit
its branch names) and `pull` (its pull requests: how many, whether one is open,
and the head of the last).

* A commit never changes, so that the several reads that verify one are one action.
  A branch and a pull request do change: reading a pull request (`FindPull`,
  `Recheck`, `Confirm`) and verifying the commit that was its head (`VerifyPull`,
  about what was read into `head`) are two actions, and the pull request is opened
  of whatever the branch names by then (`OpenPull`). `ReadRef` reads a branch and
  verifies its commit in one: a push after it finds the request at `recheck`,
  which is as well after the read as it is after the verification. Every exception is `Fail`, which is always possible and so
  also stands for lost answers, a closed connection, and — for all requests of a
  process — its crash. A call whose answer is lost may have been carried out, and
  with `LateEffects` may be carried out after its caller has gone (`late`,
  `Land`; at most `MaxLate` at a time).
* `assertCapacity` makes two reads, so it is two actions.
* Maintainers merge, close, delete branches and push to them (`Amend`), to a branch
  that has no pull request yet as to one under review. `amended` marks the requests
  under way on a report whose branch was pushed to after they had read it; only
  `ReceiptIsExact` looks at it. The reports in
  `Patient` they leave alone while a relay works on them. `OnePull` and the
  refinement are stated of the `Careful` reports: all of them in the deployment
  of the document (`Alone`: one process, nothing late), and the patient ones in
  any other, as a branch that a maintainer deletes between two calls of one
  relay may be made again by another, or by a call that lands late.
  Reopening a pull request is not modelled.
* `server.ts`'s limit on concurrent requests is the guard of `Arrive`.

### 3.4 The real command: `RealOutput`, `RealProbe`

The shipped build has this path closed (`realModeEnabled` is the literal
`false`) and no relay origin; the modules describe it with the gate open,
with and without an origin (`Submitting`). An action of `RealProbe` runs from
one `await` that leaves the microtask queue to the next; disclosures, previews
and decisions that were already taken do not leave it, so that no signal is seen
between them. One answer serves for project code and workload (decision D-020).

`RealOutput` has one action per file operation of `writeExclusive` that another
party can tell apart, any of which may fail, and those of the undo. The last
`close`, whose failure changes nothing, is part of `Commit`. A crash is
`SIGKILL` or a loss of power; before the signal handlers are installed an
ordinary signal is one too.

* The outside changes the public path only: staging names are random.
* `RacesUnlink = FALSE` is an assumption: nobody replaces the path between the
  `lstat` and the `unlink` of `unlinkOwned` (two consecutive calls). With
  `TRUE` the refinement fails, as any check by name must.
* What the coordinator waits for settles; that is what `Decides` of `ExecutorRun`
  and `Ends` of `Continuity` say.
* A cleanup that failed is one of the outcomes of a stage here (`CleanupFails`); how
  it is told from a cancellation that came with it is decided inside the
  coordinator and modelled there (`CancelledIsClean`, section 3.6).

### 3.5 Doctor: `DoctorRun`

The model is one call of `ProjectLocalDoctorAdapter.run`: the location, the
spawn, and the local variables of `NodeDoctorExecutor.execute` (`stops` is
`timedOut`, `overflowed` and `aborted`; `heard` the once-listeners that have
fired; `sweeps` the calls of `settleTerminatedTree` in progress, of which up to
three may race). The processes are the root and one descendant in its group:
they write, fork, exit and survive as they like.

* A chunk of output is read as a whole: `kept` follows `wrote`. `"cut"` is
  output beyond the limit, from which on nothing is kept.
* `close` fires once the root is gone and its pipe was read to the end; nothing
  makes it fire, as somebody may hold the pipe.
* The checks that locate the Doctor, and those of its report, are one choice
  each. Windows' `taskkill` is left out: the real command refuses such a host.
* A descendant that leaves the process group is not followed.
* It is checked inside `Continuity`, where the project's code goes on writing for
  as long as a process of the group lives.

### 3.6 The coordinator: `Continuity`

`stage` is the coordinator's `#stage`; `Resolve`, `RunDoctor` and `Acquire` are
its three calls, the latter two around the steps of `DoctorRun` and
`ArtifactAcquisition` (one session, `Quiescent`). After the grant the module has
the child of the executor as far as it reads the disk: the audit of the SDK and
its import, the two validations of the model await by await (`OpenRoot`,
`OpenFile`, `Hash`, comparison), and between them a loaded model that is read
whenever the SDK likes. Everything else that a workload may do is `Otherwise`;
it is in `ExecutorRun`.

* The user of the cache changes the file in place, or moves the private
  directory away, puts another in its place, and moves it back. Each change has
  a time of its own, on the file or on the directory that was moved. That a
  directory above is moved would leave no time that the code looks at; the model
  assumes that this does not happen. Nor does it have two changes within
  one tick of the clock.
* Another directory holds other bytes: were it another copy of the pinned ones,
  reading it would be harmless.
* The SDK is its declared version: the code does not look into the entry file.
  Only the Doctor's group writes it; a package manager that runs between the
  child's audit and its import is not modelled.
* The coordinator tells a cleanup that failed from a cancellation in the order of its
  `catch` (`DoctorVerdict`), and by the code of the acquisition's error.
  `CancelledIsClean` relates that order to the processes and files of the two
  parts: a run that is called cancelled has no process of the Doctor, no child of
  the acquisition and no announced partial left. Looking at the signal first
  breaks it, by a Doctor whose descendant outlives its sweep.
* A token is issued by the acquisition and consumed by the grant, once, in this
  order; nothing keeps it.
* The loss of Atlas's own process belongs to the runs of the parts.

### 3.7 The public repository: `ReportHistory`, `Catalog`, `Registry`

A commit is what the audit reads of it: its reports, its parents and its
history. Authors commit on, and merge, whatever there is. `CheckPull` is the
workflow's job (`validate-contribution.mjs` with base and target; the target is
the merge commit that GitHub makes of the pull request, `MergeRef`), and main
moves as `verify-host-protection.mjs` asks of the host: by branches that contain
the head of main and passed a check, squashed or rebased. The rest of a tree is
the registry's sources and the generated catalog; the audit reads it only at the
target, so that it is chosen when a pull request lands, among what the audit
admits.

* A report's path is its ID, hence its content: what it observed and the
  configuration it belongs to are functions of the path. Schema, privacy and
  profiles are one predicate of the entry, `Publishable`.
* The merge commit that is audited is itself an introduced commit and counts
  against `MAX_INTRODUCED_COMMITS`: an up-to-date branch passes with fewer
  commits than the limit, and one of exactly that many is refused
  (`AdditiveForkAccepted`). Of a branch that contains the head of main its tree is
  the branch's own. A branch that does not is never landed, and its checks are
  left out.
* A pull request writes or removes one source, or, as the correction that
  `docs/contributing/maintainer-admission.md` describes, writes one and marks another of the
  same origin as superseded by it (`Rewritten`). One that registers two new
  reports at once is not landed.
* Changes reach main through pull requests. The owner-operated mode of
  `verify-host-protection.mjs` also allows the owner to push; then nothing but the
  owner's care keeps the promise, and the model does not have it.
* A rebase puts commits on main that no check looked at as heads: `HeadsAreKept`
  says that they, too, keep what was shown before, and nothing of reports that
  only they contain.
* The audit reads a clean checkout (`git status`, tracked and untracked paths),
  so that the tree of the commit is what is read. The bounds on Git's output and
  on parents (a commit here has at most two) are not reached.
* A path that is registered twice, and fixtures, are refused or separated by
  checks of one step and not exercised.

## 4. The runs

Deadlock is checked in the queue's runs, where a slot can always submit again,
and in `Contribute`, where the outside can always act; an execution, an
artifact attempt and the coordinator's calls end, and a bounded history does, so
their configurations say `CHECK_DEADLOCK FALSE`.

| Run | Instance | What it shows |
|---|---|---|
| `Supervisor` | the code's `maxEvents = 16`; any message, exit and timer at any moment | each verdict is one the V1 contract admits (`ContractHonoured`); a pass consumed all ten phase messages (`PassIsEarned`); the first cause is reported (`FirstFailureReported`); it settles (`Settles`) |
| `RunSafety` | two messages in flight, all crash exits, both backends, the exit seen before or after the messages in the channel | an honest runner is never a protocol failure; passes and claimed failures are real (`ClaimIsReal`); what is handed on was not aborted; the cwd is removed after its child is gone; a failure names the phase the child is in; the run implements `ContainedRun` |
| `RunLiveness` | one message in flight, a crash that looks like an exit with 0, one backend | `runWorkload` answers (`Decides`); a runner that loses its parent ends, in whatever phase it is, a hung one of the SDK included, and also if its listener is not there yet (`OrphanEnds`) |
| `RunOrphanWorker` | as above, with every accepted `SIGKILL` effective | **violated**, see section 5 |
| `ArtifactQuiescent` | two attempts one after the other | the directory is a `VerifiedCache`: leases are of the pinned bytes and outlast what later attempts do |
| `ArtifactOverlapping` | two attempts in every interleaving | nothing unverified is published (`BlobIsVerified`), nothing overwritten (`NoClobber`), answers other than cleanup-failed leave nothing that the child did not fail to remove itself (`SettledClean`), an honest child is accepted (`HonestChildAccepted`) |
| `QueueSerial` | one process, three slots, two reports, a limit of 1, maintainers at any moment | one call at a time (`OneAdmitted`), the limit (`QueueBounded`), receipts of exact bytes (`ReceiptIsExact`), nobody waits for admission forever (`WaitersAreServed`) |
| `QueueRaces` | two processes of one slot each at a time, late effects; maintainers patient with the raced report, at any moment on the other | one pull request per report (`OnePull`); the queue implements `DurableIntake` |
| `QueueLateRef` | one process, late effects | **violated**, see section 5 |
| `Contribute` | two runs, one of them with a relay, and an outside, over one path | a `write-failed` left nothing (`WriteFailedLeavesNothing`); what is said last is true (`SaysWhatHappened`); a cancelled run ends (`CancelEnds`); the path is an `ExclusiveReport` |
| `Registry` | two reports, two known origins and the anonymous one; four topic commits, four commits of main | what a head showed stays (`HeadsAreKept`); the audit of edges holds for whole histories (`CheckedHistoryKeeps`) and refuses no branch that only adds (`AdditiveForkAccepted`); each report is shown, withdrawn or replaced by one that is shown (`EveryReportIsAccounted`); reproductions are independent (`ReproducedIsIndependent`); the gate of the site agrees with the audit (`ReleaseGateAgrees`); main is a `ReportLedger` |
| `Continuity` | one run: a Doctor with a descendant, one acquisition, a workload, three changes of the cache | the Doctor's evidence is real (`EvidenceIsReal`) and its run a `ContainedRun`; the SDK of the report is the one imported (`ReportedSdkIsImported`); a pass has read the pinned model only (`PassUsedPinned`); a cancelled run has left nothing (`CancelledIsClean`); the three calls return (`Ends`) |

Bounds, and why they are enough:

* `MaxEvents = 16` is the code's own number; a full lifecycle has eleven
  messages, so that both ends of the budget are reached.
* `MaxInFlight` (messages a child has sent and the parent has not handled): with
  two, an exit can overtake a message and leave another unread; the parent
  handles messages one at a time, so that more only lengthen the channel.
  `RunLiveness` needs one.
* `CrashExits`, `SdkBackends`: which kinds of crash and which backends the child
  shows. `RunSafety` has all; nothing in the liveness properties depends on them.
* Two attempts over a cache: an attempt sees another only through the blob and
  its link count, and a third could only repeat what the second did. Symmetry is
  sound: no definition orders the attempts or chooses among them, and it is not
  used with liveness.
* Two reports against a limit of one make the limit bite; three slots make a
  waiter behind a waiter, the case the admission chain is for (`QueueRaces` is
  about GitHub, and lets each relay take one request at a time). `MaxPulls = 2`
  lets a second pull request of one branch be seen, which `OnePull` denies.
  `MaxLate = 2`: the two calls of one request that do something, or one of each
  relay, may be outstanding together.
* `DoctorRun` has no parameter and no bound: the run that contains it covers all
  of it. `MaxChanges = 3` allows a change, a change back and one more, around and
  between the validations; `PassesUsedPinned` is proved for any number.
* Four topic commits are a fork from before a report, a removal, a restoration
  and a merge: a history whose ends agree although a report was missing. Main of
  four commits lets a second and a third landing follow one that made their
  check stale. `MaxIntroduced = 4` admits a branch of three commits and its merge, and
  refuses one of four. Two reports are
  one of each kind that a lifecycle relates, and two origins are what
  reproduction asks for. Both reports are successes of one configuration;
  failures and mixed groups change no more than the text of a claim. Symmetry of
  paths and of origins is sound: nothing orders them, the choice of `EntryOf` is
  of the only entry with an ID, and the run has no liveness.
* Two runs at one path, with the outside as everyone else.

## 5. Where the documents and the code disagree

* **Descendants after the loss of the supervisor.**
  `docs/architecture/qvac-executor.md:57` says that an unexpected loss of the
  supervisor kills the whole group. The kill is made by the root's disconnect
  listener (`parent-disconnect.ts`), and the root disarms it before its own
  disconnect (`child-runner.ts:184`). If the root has crashed, or is past that line, and
  the parent is then lost before its sweep, nobody signals the worker
  (`RunOrphanWorker`, `DescendantsEndWithOwner`).
* **The limit of the queue.** `docs/operations/anonymous-relay.md:11` says that
  serialised admission makes the limit fail closed across concurrent requests.
  The slot is released when the signal aborts the `fetch` of `POST /git/refs`;
  GitHub may create that ref after the next request has counted
  (`QueueLateRef`, `CapFailsClosed`). Without such late effects the limit holds
  (`QueueStaysBounded`).

Two more are stated by the exceptions of properties that hold:

* **Partial files of a handled failure.** `docs/work-packets/ATLAS-019.md:33` asks
  that recognized partial files are cleaned on every failure, and
  `docs/work-packets/ATLAS-021.md:77` has a handled failure or cancellation remove the
  attempt's staging file and only a crash or a hard kill leave one.
  `unlinkIfSame` (`filesystem.ts:226`) swallows what goes wrong, the child reports
  its first error and exits with 1, and its parent passes that error on without a
  recovery (`contained-internal.ts:565`). So a staging file that could not be
  removed stays behind an answer that does not speak of it: `SettledClean` is
  violated without its exception of such attempts.
* **The commit that a receipt is for.** `docs/operations/anonymous-relay.md:104` has
  a replay verify the existing commit and then reconcile a missing pull request.
  The pull request is opened for the name of the branch (`github-queue.ts:609`)
  and its head is not read back: after a push in between, the receipt is for a
  pull request of a commit that nobody verified. `ReceiptIsExact` is violated
  without its exception of such requests.

## 6. Fairness

* **Executor.** Weak fairness of Node's own steps in the parent: the wall
  deadline, the two escalation timers, the bounded sweep, and the continuation of
  each settled promise of `execute`. In the child only the start of the runner and the
  disconnect event are fair. Nothing is assumed of the SDK, of signals
  taking effect, of the delivery of messages, of phase timers or of the caller.
  `RunOrphanWorker` adds that an accepted `SIGKILL` takes effect: without it the
  counterexample could be an unkillable process.
* **Coordinator** (`Ends`). Of the Doctor, its two timers, the polls of a sweep
  and the calls that locate it; of the acquisition, its beginning and the parent's
  observation of its timers and children's ends; the audit of the SDK; and that a
  workload decides, which is `Decides`. Nothing of any process or child, not even
  that `KILL` ends them or `close` fires, nothing of the source or the disk.
* **Registry.** None: nothing has to be landed.
* **Queue.** The continuation of a resolved promise (`Admit`), and that the handler's
  timer ends a call that is past admission (`Timeout`, per request): every `fetch`
  is given its signal. GitHub need not answer. The waiters' own timers are not
  assumed, so that `WaitersAreServed` is about the chain: whoever is ahead gives
  its slot back on every way out.
* **Real command.** Each call a run waits for settles; for the stages this is what
  `Decides` and `Ends` show. The contributor need not answer, and only
  a prompt that was cancelled by the signal is fair (`PromptCancelled`).

## 7. Proofs

`tlapm` proves the following for all values of the constants that satisfy the
`ASSUME`s of the modules (types of the constants, finiteness of the queue's sets
and of the history's, distinctness of the special names). Every safety invariant,
action property and refinement that a passing run checks is among them; each section
below gives the inductive invariant, and why the property alone is not one.

**`ExecutorSupervisorProofs`** — any budget, any child (`SupervisorInv`).
* `TypeCorrect`; `CausesAreKept` (`FirstCauseStands`: no cause is replaced).
* `WatchdogNeverSleeps`: while the supervisor is attached and has not been
  finalised, the wall deadline or the escalation is armed (`WatchdogArmed`), the
  safety half of `Settles`. `WatchInv` says that timers are armed only while it
  listens, that termination keeps the escalation armed, and that the deadline is
  cleared only by termination.
* `PassedVerdictsAreEarned` (`PassIsEarned`): `GrammarInv` counts the messages of
  the grammar position (two for each passed phase, one for a phase that is open,
  one for the backend) as long as nothing has failed; a passed verdict needs the
  last phase passed and hence all ten.
* `VerdictsAreAdmitted` (`ContractHonoured`), `FirstFailureIsKept`
  (`FirstFailureReported`). `FailureInv` is the counterpart of `GrammarInv`: after
  the first failure the record is the passed phases, that failure, and at most
  clean-shutdown. `CauseInv` ties the override to them. From these,
  `#ensureTerminalPhase` can only close the record in one of four ways, and for each of
  them and each way a root ends, the adapter and the semantic rules
  are evaluated. The adapter filters the events by type; `KeepPrefix`,
  `KeepOne` and `KeepNone` say what its filter yields.

**`ExecutorRunProofs`** — any number of messages in flight, any set of crashes and
backends, the exit before or after the messages (`RunInv`, which contains
`SupervisorInv`).
* `RunTypes`, `ExecutedEvidenceAdmitted`, `CwdIsNotPulledAway` from `GroupInv` (when the group is
  known to be empty) and `ExecutorInv` (what `execute()` returns is what the
  supervisor settled with).
* `ClaimsAreReal`, `FailuresNameFrontier`: `ChildInv` says that the child has
  passed exactly the phases before one of them; `TruthInv`, that every
  message in the channel and every record of the supervisor is true of the child.
* `RunnerKeepsProtocol` (`HonestRunnerAccepted`), for `MaxEvents >= 11`; the code
  has 16. The child and the supervisor are at two places of one grammar, and the
  channel leads from one to the other (`ChannelInv`: there are places, one between any two messages, such
  that each message is legal at its place and goes to the next). The first
  message that is handled is then legal for the supervisor, and the budget
  is the number of places.
* `RunImplementsContained`: the refinement of `ContainedRun`.

**`ArtifactAcquisitionProofs`** — any number of attempts.
* `ArtifactTypeCorrect` needs a budget of messages for each position of a child.
* `PublishedIsPinned`, `AnswersLeaveNothing` (`SettledClean`), `PublishedIsNotClobbered` follow from
  `AttemptInv`, which says where a child can be while its names exist (`FilesInv`)
  and what its parent knows when it answers (`AnswerInv`): the announcement that
  the parent acts upon is in `sent` before the name can be linked. Names that
  could not be removed are allowed for: a child that has complained has removed
  its names or is `stuck`, and a parent that answers otherwise than with the
  child's own error has had the directory recovered.
* `HonestChildrenPass` (`HonestChildAccepted`), overlapping or not: `TalkInv` says
  at each position of the child which beginning of one of the parent's two
  sequences, possibly with a complaint at its end, has been sent.
* `CacheImplemented`: if attempts do not overlap (`Quiescent`), the refinement of
  `VerifiedCache`. `SerialInv` says that two attempts are never both
  unsettled, and that what a child secured is at the pinned name and belongs to
  no attempt that could still withdraw it. Without the hypothesis the refinement is
  false, as one attempt may be granted a blob that another withdraws.

**`SubmissionQueueProofs`** — any numbers of requests, reports and relays.
* `QueueTypeCorrect`. `AdmissionIsSerial`: by `ChainInv`, of two slots of one
  process that are in use one is ahead of the other; hence two are never both
  admitted, and no slot that was released is waited for.
* `QueueStaysBounded`: without late effects the refs exceed the limit by less than
  the number of processes; `CapInv` counts a request that has passed the check as
  a ref, since it may still create one.
* `OnePullEach` (`OnePull`), in every deployment. A request that may still make a
  pull request has seen that there is none, and this may have become stale. With one process
  and nothing late (`Alone`) nobody else could have made one (`FreshInv`).
  Otherwise one that was made meanwhile is still open, since patient maintainers
  do not close it while a request for the report is under way (`PatientInv`), and GitHub refuses
  a second for one branch.
* `IntakeImplemented`: the refinement of `DurableIntake`, in every deployment.
* `ReceiptsAreExact` (`ReceiptIsExact`), in every deployment and with maintainers who
  amend at any moment: `RelianceInv` says what a request may rely on between what
  it read of a branch or a pull request and its answer, as long as the branch was not
  changed after that. `ReceiptsAreHeld`
  (`ReceiptIsHeld`) in all: GitHub forgets no pull request, and a
  receipt is given in the step that sees, or makes, one.

**`RealProbeProofs`** — any number of runs, with or without a relay.
`ProbeTypeCorrect`, `FailedWritesLeaveNothing`, `LastWordIsTrue`,
`ConsentPrecedesEffects`, `CancelledRunsBeginNothing`
from `RunInv`, which ties the await of a run to the step of its write, to its answer,
and to its consents; a step of one run leaves that of another as it was, except that
it may take the path from it. `ReportsAreExclusive`: with
`~RacesUnlink`, each step is one of `ExclusiveReport`; `UnlinksItsOwn` says that
a run that is about to unlink the path still holds it.

**`ReportHistoryProofs`** — any sets of paths and entries, any commit graph, any
audit of the rest of a tree.
* `HistoryTypeCorrect`; `CheckedKeeps` (`CheckedHistoryKeeps`), `HeadsStay`
  (`HeadsAreKept`), `LedgerImplemented`. What the code looks at is an edge, what is
  promised is a history. The bridge is `AllGrown`: the history of a commit is the
  commit and the histories of its parents. A check that passed then carries the base's
  reports from a commit that descends from the base to each of its children, so that
  there is no first commit that lacks one (`HasFirst` is the induction), and a new commit
  cannot enter the history of one that was checked. `ChecksAreOfHead` says
  that a check was made against a position that main has pointed to, and `Landable`
  that a branch contains the head it lands on: with these, what is appended to
  `line` keeps what every head has shown.
* `AdditionsPass` (`AdditiveForkAccepted`): the audit refuses no branch that
  only ever adds and has fewer commits than the limit, the merge being one more.
  `ParsedInv` is what that needs besides: no
  commit of a topic is a root, and main's trees are ones the audit can read.

**`RegistryProofs`** — any reports, origins and registries. `HeadAudited`:
the registry and the catalog at the head passed the audit of the head's own reports, however
old the check of the branch is. What follows is a lemma about the operators
of `Catalog` each: `ReportsAreAccounted` (a chain of replacements ends, in the audit,
at the first step), `ReproductionsAreIndependent`, `ReleasesFollowAudits` (the gate counts by reports
what the catalog counts by groups; a report is in one group, since its configuration
is a function of its path). `RestAssumption` says that the audit which is a parameter of
`ReportHistory` is `Catalog`'s; TLC evaluates it on the instance of the run.

**`ContinuityProofs`** — any number of changes by the user.
* `PassesUsedPinned`: times never exceed `now`, and each change takes a new one. So
  if the times that the first validation recorded are still those of the directory
  and the file, neither has been touched since; what was hashed is then what has
  been read (`PriorInv`), and the second validation compares with exactly
  these times (`SecondInv`). It depends on neither the Doctor nor the acquisition.
* `ImportsAreReported`: when the Doctor's call has returned with anything but a failed
  cleanup, no process of its group is left (`DoctorInv`), so that the SDK is not
  written after the second audit (`SdkInv`).
* `DoctorEvidence` (`EvidenceIsReal`), `DoctorIsContained`: the exit code is passed
  on only after `close`, from which moment what was kept is what was written
  (`JudgedInv`); so the one of several racing sweeps that answers first
  cannot answer with another's evidence.
* `CancelledRunsAreClean` (`CancelledIsClean`): the coordinator's steps are steps of the
  acquisition or leave it alone (`RunsAcquisition`), so that its inductive
  invariant, from `ArtifactAcquisitionProofs` by `INSTANCE`, holds inside the
  coordinator. An acquisition that answers *aborted* has then had its child reaped
  and its announced partial recovered; a Doctor that answers at all without a
  failed cleanup has an empty group; and the verdict keeps what was so when it
  was given, as nothing of the two parts starts again.

## 8. What is only model-checked, and what is not modelled

Only model-checked: the liveness properties `Settles`, `Decides`, `OrphanEnds`,
`WaitersAreServed`, `CancelEnds` and `Ends`. They rest on weak fairness, hence on `ENABLED`,
which the prover does not reason about. What a proof of them would use as its safety part is proved
where it is a statement of its own: `WatchdogArmed` for `Settles` and
`Decides`, `NoDeadSlot` for `WaitersAreServed`. The two violated runs are
counterexamples of TLC.

Only proved, and for every instance: the types of the supervisor, of an
execution, of the artifact, of the queue, of the real command and of the history;
`FirstCauseStands`, `WatchdogArmed`, `ReceiptIsHeld`, `NoDeadSlot`,
`EffectsAreConsented` and `CancelBeginsNothing`.

Not modelled:

* Bytes and strings: parsers, canonical JSON, privacy patterns, rendering, the
  JSON schema, labels and facets. The models have what a parser decides as a choice.
* Durations; only the order in which timers can fire matters to the models.
* The fixture command (`probe/src/{pipeline,writer}.ts`): a straight sequence of
  questions and one write, without signals, children or a network. To the real command
  it is a part of the outside that may put something at the path.
* That a signal ends the `fetch` it was given, and that Node's timers fire: the
  runtime's. Where a liveness property needs it, section 6 says so.
* The relay's token cache (`github-app.ts`): its callers hold the admission slot,
  and a failed or expired token is a failed call.
* `secure-file.js`: reads of a checkout that only the build changes.
* The site, packaging, spikes and workflows: no state that outlives a build, or
  read by a person.

## 9. Plan

Done: executor, artifact store, queue, real command, Doctor, coordinator, the
public repository, with their abstract specifications; and a theorem for each
safety property, action property and refinement of the passing runs. What is left, in this order:

1. What the compositions owe the parts: the pipeline's awaits of `RealProbe` as
   steps of `ContainedRun` and `VerifiedCache`, so that its assumption on the
   stages is a refinement.
2. The safety halves of `OrphanEnds`, `CancelEnds` and `Ends` as theorems, as
   `WatchdogArmed` is of `Settles`.
3. An instance of `ReportHistory` in the owner-operated mode, to say what exactly
   a push by the owner can break.
