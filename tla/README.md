# A verification of ovtest

`ovtest` is the test harness and release gate of OpenViking: test cases are
small DAG workflows of operators that drive agents, command lines and HTTP
APIs, an LLM judge gives each case its verdict, and a release gate runs the
cases against a frozen server and says whom a failure accuses. The modules here
model the parts of it in which concurrency, failure and ordering decide the
result, from a scheduler of goroutines up to the registered cases and the agents
they drive. TLC checks them on small instances; for all nine state machines TLAPS proves
every safety property for every value of the constants. Paths below are relative
to `src/`.

## 1. The system

| Component | State | Operations | Talks to | What makes it hard | Correct when |
|---|---|---|---|---|---|
| **Workflow and builder** (`dag/builder.go`, `ir.go`) | nodes with inputs, conditions and outputs, in insertion order | `Add`, `If`/`Else`, `Select`, `Merge`, `Build` | executor | conditions nest and add reads that are not inputs | every read is a dependency |
| **Executor** (`dag/executor.go`) | ready queue, indegrees, results, trace, in-flight count, first error, `doneCh`, child context | `NewExecutor`, `buildDependencies`, `detectCycle`, `Run`, `safeProcess`, `resolveRef` | one goroutine per node over an unbuffered channel; caller's context | any order of endings, cancellation, draining after an error | data and verdict do not depend on timing; the right node is blamed; no goroutine is left; it ends |
| **Case runner** (`runner/runner.go`) | the `CaseResult` | `RunCaseContext`, `checkTerminalJudge`, classification, claims, soft failures | executor, operators, fixtures | context may end after the run and before its classification; evidence of a run that failed | a status hides nothing and names the real cause; claims survive |
| **Gate policy and errors** (`ops/base.go`, `errors.go`) | operator configuration | `ProcessContext`, `gateMode` | executor | a softened failure looks like a success | a configuration error or a critical gate is never softened |
| **Operators** (`ops/ops.go`, `ops/*.go`) | none of their own; sessions, tasks and files on the server | session new/commit, add, find, rm, uri checks, HTTP probes | `ov` command, OpenViking HTTP API | polls of two endpoints that change in between | a commit is accepted only when all of its tasks completed |
| **Judge** (`ops/judge.go`) | none | request, retries, parse | LLM API | retries, transient errors | a verdict or a judge error, never a pass by default |
| **Fixtures** (`ops/fixture*.go`) | list of servers behind a mutex | add, close | case runner | none in practice | closed at the end of the case |
| **Command driver** (`internal/cli`) | user configuration files | `RunContext`, preflight, bootstrap of the test user, configuration update, cleanup with conflict retries | `ov` binary | timeout against a late exit, partial update | a result is what it was; a preflight keeps its word |
| **Release workflow** (`cmd/ovtest/release.go`) | outcome, classification, attempt results, run directories | `executeRelease`, `executeReleaseAttempt`, comparison, `Finalize`, summary | everything below | failure of every step, of deferred functions too; interrupts; crashes | it accuses only on evidence, passes only clean runs, keeps evidence of failures |
| **Managed service** (`internal/releasegate/target.go`) | process, port, `done`, `stopping`, `waitErr` | `StartLocalOpenViking`, `StartManagedService`, `waitForTarget`, `Stop`, `UnexpectedExit` | OS process group, loopback port, HTTP | port race, crash at any time, server that ignores SIGTERM, context that ends | cases run on their own server; no false alarm; no orphan |
| **Ownership registry** (`internal/releasegate/cleanup.go`) | claimed URIs and sessions | claim, delete, verify | case runner, server | partial failure of deletions | deletes what was claimed and nothing else |
| **Artifacts and source cache** (`artifacts.go`, `source.go`, `lock_unix.go`) | run directories, mirror, protected refs, worktrees, manifests, lock file | prepare, freeze, `Finalize`, prune | git, other processes | crash between two git commands, prune of a run that is active | a frozen revision stays reachable while its run exists |
| **Builds, environment, provenance, redaction** (`internal/releasegate`) | files | build, install, hash, redact | package managers | none that a state machine shows | - |
| **Local reset** (`internal/localstate`) | state directories, the server's workspace | probe, choice of targets, removal | server | the server can be started after the probe | a server that the probe can see keeps its workspace |
| **Adapters** (`adapters/*`) | an isolated home and configuration per agent | `Exec`/`Chat`, evidence, hook trust, gateway, RPC | the agent's command line, OpenViking plugin | parallel calls, hangs, helpers, each transcript its own format | the evidence is what the agent did, on the server it was meant to use, and nothing keeps running |
| **Cases** (`cases/*`) | none: 25 workflows of operators | `Build` | executor, operators, adapters | what is ordered is only what the references order; the server extracts and indexes at its own pace; leftovers of earlier runs | a pass is earned, claims are exact, a good run passes |
| **Command line** (`cmd/ovtest/main.go`) | `runs.jsonl` | `run`, `bootstrap-openviking-user`, `reset-local-state`, `report` | all | a server that comes and goes, writes that fail half way | exit code 0 is earned |
| **Report, scripts** | none | arithmetic over rows, provisioning | - | - | - |

The layers call downward: the release workflow starts a managed service and
runs cases one after the other; the case runner runs one executor per case;
the executor runs operators side by side. What goes up is a result (the verdict
of `Run`, the status of a case, the error and class of an attempt), and what
goes down is a context that can end at any moment. The modules are cut along
those calls, and each describes the layer below it by what that layer's own
module establishes.

Section 7 says what is not modelled; `PROJECT.json` lists every component, and
each hazard at its line with the properties that would catch it.

## 2. The modules

| Module | Models | State and actions, and the code they stand for |
|---|---|---|
| `Workflow` | `ir.go`, `builder.go`, `buildDependencies`, `detectCycle`, `resolveRef` | constants: nodes, insertion order, refs with their producers, condition literals; `Dependencies`, `Successors`, `Resolve`, `Truthy`, `Acyclic` |
| `DagExecutor` | `Executor.Run` | below |
| `DagRun` | the doc comment of `Run`, as an abstract specification: no queue, channel or goroutine | `Start`, `Skip`, `End`, `Expire`, `Deliver` |
| `CaseRunner` (extends `DagExecutor`) | `RunCaseContext`, `ProcessContext`, classification | `how`: the cause of each operator's ending; `ended`: why the context ended; `OpStarts`, `OpReturns`, `RunStep`, `ContextEnds`, `Classify` |
| `ManagedService` | `target.go` from the choice of a port to the end of `Stop` | below |
| `ServerView`, `AttemptServer` | what a release attempt sees of its server, as operators, and as the abstract specification that `ManagedService` implements and `ReleaseRun` is written with | `ComesUp`, `StaysDown`, `Goes`, `IsReaped`, `Look`, `Leaves`, `Stops` |
| `ReleaseRun` (extends `ServerView`) | `executeRelease`, `executeReleaseAttempt`, classification, `Finalize`, `writeReleaseSummary` | below |
| `SessionCommit` | `sessionCommitOp`, `sessionCommittedOp` and `pollPluginSessionCommit` in `ops/ops.go`, `base.poll` | below |
| `SourceCache` | `source.go`, `lock_unix.go`, `NewRunArtifacts` and `PruneExpiredRuns` in `artifacts.go` | below |
| `FrozenSources` | what releases rely on when they share the cache, as the abstract specification that `SourceCache` implements | `Freeze`, `Restock`, `Expires`, `Forget`, `Advance` |
| `AgentTarget` | which server, key and plugin an agent is given: `releaseEnvironment`, `applySanitizedHarnessEnvironment`, and the resolution in each adapter | operators over an environment; a value is `own` (this run's), `asked` (the operator's shell, in a manual run) or `foreign` (the shell, in a release); no state |
| `AgentTurn` (extends `AgentTarget`) | the exec/chat operator and the evidence operator of the six adapters, `RunContext`, `HasBusinessError` | below |
| `CaseGraphs` | the `Build` functions of the 25 cases | one operator per case, a function from node names to nodes; no state |
| `CaseCatalog` (extends `CaseGraphs`) | the operators of `ops/ops.go` that the cases use, `cleanupCaseClaims`, `deleteReleaseURI` | below |
| `CaseRules` (extends `CaseCatalogProps`) | what makes a case a good one, read off its graph | operators over a graph and what each node comes after; no state |
| `LocalRun` | `cmd/ovtest/main.go`, preflight, bootstrap and API cleanup of `cli.go`, `localstate/reset.go` | below |
| `*Props` | the properties of a module | - |
| `*Proofs` | the theorems | - |
| `MC*` | instances for TLC | - |

**`DagExecutor`.** `pc` is the scheduler goroutine: `launch` (the inner loop),
`wait` (the receive on `doneCh`), `exit` and `returned`. `SkipHead`,
`LaunchHead` and `LeaveLaunchLoop` are the three ways one iteration of the
inner loop goes, `Receive(n)` is the rendezvous on the unbuffered channel
together with what the loop body does with the message, and `Return` computes
the verdict. `proc[n]` is the goroutine of a node: `Enter(n)` is the look at the
context in `safeProcess`, `Finish(n)` the return of the operator. `CallerEnds`
is the caller's deadline or cancellation, at any moment; `cancelled` is the
`cancel()` of `Run` itself. `AddSuccessors` queues the freed successors in
insertion order, as the code's iteration over `workflow.nodes` does.

**`ManagedService`.** `ctl` is the goroutine of the attempt; the server, the
goroutine in `cmd.Wait` (`Reap`) and the kill of `exec.CommandContext`
(`CommandCancel`) take their own steps. Every timer is a disjunct that may fire
at any moment. Between the probe that finds the port and the server's bind,
`TakePort` lets another program take it; that program answers health and
readiness probes, and fails only the bootstrap with the random root key. While a
case runs it makes any number of requests (`Request`), to whatever has the port by then;
`met` collects who answered, and `known` is whether the server had been reaped when the case
began. `Stop` is split where the process can act in between: the look at `done`, the setting
of `stopping` with SIGTERM, the two waits, SIGKILL.

**`ReleaseRun`.** One goroutine: `stage` is the place in `executeRelease`, `at`
the place in `executeReleaseAttempt`, `role` what the attempt is for (candidate,
base comparison, retry). Error values are BOOLEANs, since the code asks only
whether they are nil, and the cases of an attempt are a set that is run in any order,
since nothing that is decided depends on the order they are given in. `Teardown` runs the deferred functions in their order and
`Finish` does worktrees, redaction, `Finalize` and summary, each of which may
fail. `Building` says where commands without a time limit run. `seen`, `leaked` and `clean` are history variables: what really happened,
against which results and classifications are compared. `PROJECT.json` maps
every definition to its lines.

**`SessionCommit`.** One operator (`op`) against a server that commits in two
phases: `Archive` counts a commit in the session, `StartTask` makes its task
appear, `FinishTask` ends it with a number of memories. `at` is the request the
operator makes next, so that the server may move between any two of them:
`Discover`, `Status`, `List`, `Each`, `Get`, `Judge` and `Diff` for the plugin's
commit, `Commit` and `Follow` for the operator's own. Each way through an attempt
ends in a decision or in `TryAgain`, which decides when the attempt is the last.

**`SourceCache`.** Each process is a whole release as the cache sees it:
`PruneOpens` to `PruneEnds`, `NewRunArtifacts`, `ReadReplay`, `PrepareOpens` to
`WriteManifest`, `Used`, `Close`. Each git command is one step, and `Crash(p)`,
`ContextEnds(p)` and a failure (`PruneFails`, `PrepareFails`) can come before,
after or, where git leaves something half done, during it. `Undo` is the deferred cleanup of a
preparation that failed, under a context that never ends. `Unlimited` says which steps wait for
a command without a time limit, `MayHang` when nothing but that command can end the wait. `Push` rewrites the
upstream branch and `Gc` drops what nothing refers to.

**`AgentTurn`.** `harness` and `plan` say which adapter runs and how its node is
configured, `stage` where its operator is: `PrepareStep` goes through what each
adapter sets up in its own order (`CodexAfter` and so on), failing or not;
`TrustStarts` to `TrustEnds` are codex's app-server and its three requests,
`GatewayStarts` to `GatewayStops` openclaw's gateway for a compaction; `Launch`,
`Exits`, `Expire`, `ExpireKills` and `RunReturns` are the agent's process under
`RunContext`; `PiAsks` closes pi's standard input once it has what it waited for.
The agent is free: `CallStarts`, `CallEnds`, `Says`, `Appears` put events of that
harness's format into `log`, in any order, several calls at a time; `did` is
what really happened. `Check` is the evidence operator with any policy, over
`XCompleted` and `XObserved` of the harness.

**`CaseCatalog`.** `case` picks one of the graphs, and a node starts once all it
comes after are done, as `DagRun` has it: `OneNode` starts or ends one,
`TurnStarts` and `TurnEnds` an agent's turn, `PollEnds`, `CommandEnds`,
`RequestSent` and the other `...Ends` actions an operator. The server extracts memories (`Extract`) and indexes them
(`Index`) whenever it likes; `present` is what can be found, `ever` what could be
at some time, and `leftovers` what earlier runs left that this case's searches can see. With
`faults` an agent leaves jobs undone, calls tools nobody asked for (one of OpenViking's, or
another, a shell say, with which it goes there all the same) or answers
from elsewhere, the server extracts or indexes nothing or still finds what it removed (`Gone`), any
operator fails. A check of evidence forbids nothing, OpenViking's tools (`NoOpenViking`) or every
tool (`NoTools`), as that case's adapter does.
`claimed` is what the nodes give to the cleanup, and `Cleanup` then deletes it one by
one, where each deletion may fail.

**`LocalRun`.** One command after the other on a developer's machine: `Invoke`
gives it, `Ends` is its exit or its end by a signal between any two steps,
`ServerStarts` and `ServerBreaks` are the developer's server. `pc` is the place in
the command: `OpenRecord`, `Preflight`, `CreateAccount`, `RegenerateKey`, `ReadConf`
(with the truncation of what is written next), `WriteConf`, `RunCase` with
the row it appends, `WaitForQueue`, `DeleteTarget`; `ProbeServer`, `RemoveTarget`. Where the
code judges an answer by a word in its text ("401", "404", "not found") the model lets any failing
answer have it: `preflight = "misread"` is a status taken for a rejected key, `skipped` and
`misread` are targets whose wait or delete was taken for "not found". The endpoint of a reset is none, a loopback or
elsewhere, as the code tells them apart by text. A configuration file is absent, torn or whole with a key; the record ends after a
line, cut, or bare of its newline.

## 3. The runs

| Run | Instance | Question |
|---|---|---|
| `dag_executor` | 7 nodes, cap 2 | Does `Run` keep its promises under every interleaving, failure and cancellation, and implement `DagRun`? |
| `case_runner` | 5 nodes, cap 3 | Does the status of a case say what happened, under soft, hard and critical gates and a context that ends? |
| `managed_service` | 3 starts, 2 cases | Are the cases on their own server, alarms true, and no process left? |
| `release_run` | 2 cases, 2 attempts, local, with base | Is every classification justified, success clean and failure kept? |
| `session_commit` | 3 operators, 3 attempts, 2 commits, 2 memories each | Is what a case takes for committed really committed, and all of it? |
| `source_cache` | 2 releases, 1 push | Does a manifest stay replayable, whatever other releases do and wherever they die? |
| `agent_turn` | each of 6 harnesses, 2 calls, transcripts of 5 events | Is the evidence what the agent did, is a good turn good, does it end and leave nothing running? |
| `case_catalog` | all 25 cases | Is a pass earned, are claims exact, do the cases pass when nothing fails? |
| `local_run` | 2 commands, 2 runs, 2 URIs, 3 attempts | Is exit code 0 earned, a preflight right, a key lost only for a reason? |
| `source_cache_cancelled` | as above | Does a cancelled preparation leave no worktree? (No: section 6.) |
| `release_external` | as `release_run`, 1 attempt, external target | Are cleanup failures of an external target reported? (No: section 6.) |
| `agent_plugin` | opencode, 1 call | Does a release test the plugin it froze, whatever its shell holds? (No: section 6.) |

**Properties of `dag_executor`.** `InputsFinal` and `DecisionsFinal`: what a
node was given, and whether it ran, is what the results recorded at any later
time would still give, so timing never shows in the data. `ConcurrencyBound`.
`RootCause`: a failure caused by the run's own `cancel()` is never blamed.
`NothingLeftBehind`: no goroutine outlives `Run`, and the trace is exact.
`VerdictJustified`: success means that all settled, a failed node is never
hidden by a context error, and the "deadlock" error cannot occur. `Termination`,
`EveryNodeSettles`, and `ImplementsDagRun`, under which nothing starts after an
error or the end of the context (`FailFast`, which is proved).

**`case_runner`.** `NothingHidden`, `EvidenceKept` (claims and soft failures of
nodes drained after the first error included), `JudgeOnlyAfterSuccess`.

**`managed_service`.** `OwnServer`: while cases run and the attempt's server lives, it alone is
at the address; another program can have answered a case only if the server went during that case, or
before it but not yet reaped. `NoFalseAlarm`, `NoOrphan`, `CrashNoticed`, `ServiceGone`.

**`release_run`.** `ClassificationJustified`, `QualifiedMeansClean`,
`SummaryHonest`, `DiskMatchesOutcome`, `FreshServer`. `RunEnds`: a release ends, unless a command
of its preparation, or of the build of the base, hangs and nobody interrupts it.

**`session_commit`.** `CommitAccounted`: what is accepted rests on completed tasks
of the session with enough memories, and those are claimed. `NoCommitMissed` (action
property): the plugin's operator never accepts while a commit that the session
counts is missing from what it will claim. `NoHastyRefusal` (action property): it
gives up before the last attempt only for what time does not heal. `PollEnds`.

**`source_cache`.** `Replayable`: a manifest that has not expired names a commit
that the mirror has, under the run's own ref. `NoOrphanRef`: a ref belongs to a run
a later prune finds. `EveryReleaseEnds`: the lock is given up on every path, so a release ends unless a
command without a time limit hangs, in it or in the holder of the lock; a release whose
context ends does not even wait for the holder.

**`agent_turn`.** `EvidenceExact`: what the evidence operator takes for completed or
attempted is what the agent did, as far as that harness's transcript can show
it, for parallel calls, error results, retried and compacted conversations.
`OkIsEarned`: a turn reported as good ended by itself and in time, with its configuration in force
and the reply or the compaction its node asks for, and was given the server and the user
of its run, or those the operator's shell asked for: in a manual run any address or key
of its harness, in a release only an `..._ENDPOINT` of codex, claude or opencode, which is a
redirection nobody asked for (section 6, remarks). `NothingLeftRunning`: no way out leaves the
agent, codex's app-server or openclaw's gateway. `TurnEnds`.

**`case_catalog`.** `PassIsEarned`: for each case a `Reference` says, as data, what a
pass stands for (captured by the plugin and not by a tool, a reply that rests on
what was recalled, tools that succeeded, things found, a memory forgotten, what was removed
gone, no call of a banned tool); no order of events and no erring agent or server gets a case to pass
without it. What the code cannot tell is part of the formula: an agent that goes around a ban of
OpenViking's tools only (`WentAround`), and a leftover where the fact searched for carries no
mark of the run (section 6, remarks). `ClaimsExact`: no case claims another run's data, and a
passed one has claimed all that is left of it but `KnownLeft` (section 6) and what an agent
that went around wrote.
`GoodRunPasses`: without faults no case fails, whatever the pace of the server; that it comes to
its end is the check for deadlocks, as its state graph has no cycles.

**`local_run`.** `ExitEarned`: exit code 0 means that every selected run passed, its
row can be read (but for a first one that joined a cut row), and every target of the cleanup is gone
but those whose wait or delete printed "not found" or "404", with at least one target whose wait was
answered. `PreflightRight`: cases that begin after an accepted or repaired key have a
whole configuration with the key the server accepts. `KeyLostForReason` (action
property): a key of the server is replaced or removed only by a developer's bootstrap, by a run whose
key was rejected or whose status failed with a text that reads like it, or by a reset:
of a loopback endpoint that was stopped when it was probed (it may be up again when the workspace goes), or of
another endpoint or none, which is never probed.

**Bounds and why they suffice.** The seven-node workflow has each shape the
Builder makes: more roots than slots, an `If` with both branches, a `Select`
over the branches, a condition on a `Merge`, a node that is skipped past a
reached cap, a node that waits at the head of the queue. Outputs are one true
and one false value. The case has two retrievals side by side, one of them soft,
a conditional retrieval, and a node that no edge orders before the judge, so
that it can fail while the judge runs. Three starts are those of the code: the
first can collide, the next can be retried again, the last cannot. Two cases let
a crash fall before, between and after them, and let the base fail a part of
what the candidate failed; two attempts let the second fail after the first
passed. Two commits are the fewest with one finished and one not; three attempts
are a first, a middle and a last one; two memories are enough to be too few. Two
releases and one push let one of them replay, prune or overtake the other, and
make the commit of the other unreachable upstream. Two tool calls are the fewest that
run side by side, one of an expected and one of a forbidden tool; five events
hold two calls with their results and a reply. The 25 cases are whole: what is small is what a
case has of each thing, which is one, as in the code. Two commands let the second
meet what the first left; two runs let a cut row meet another one. The only caps are these constants; no state constraint and no
symmetry is used.

**Every property can fail.** For each one, `PROJECT.json` names a slip of the
code (the operators called "the slip" in the comments: a forgotten guard, an
off-by-one, a swapped order) under which TLC finds it violated.

## 4. Fairness

- `DagExecutor`: weak fairness of the scheduler and of each node's goroutine.
  The Go runtime runs each goroutine that can run, and each operator of the
  library bounds its own work by a timeout or by the context, so calls return.
  `CallerEnds` is not fair: the caller need not cancel.
- `CaseRunner`: the same, with `Classify`, which is straight-line code.
- `ManagedService`: the attempt (`Attempt`) goes on because each wait has a
  timer, a process that got SIGKILL dies (`Killed`), os/exec kills when the context
  ends (`CommandCancel`), and `cmd.Wait` returns for a dead process (`Reap`). The
  server is not assumed to bind, answer, exit on SIGTERM or crash.
- `ReleaseRun`: the one goroutine goes on except where `Building` holds and the context has not
  ended. Cases, probes, deletions and the removal of worktrees run under timeouts; git
  (`source.go:403`, timeout 0), builds (`build.go:73`) and installations run under the
  signal context only, so one that hangs hangs the release, and its end kills the
  command's process group. (`build.go` sets no `WaitDelay`: a helper that leaves the group and keeps the
  output open is assumed away.) Interrupts and crashes are not fair.
- `SessionCommit`: the operator goes on, because its requests have timeouts.
  Nothing is assumed of the server: it need not archive, start or finish anything.
- `SourceCache`: each step of a release is weakly fair except while it may hang (`MayHang`): a
  git command or a build (in `Used`, which is all that a release does with its sources) has no limit
  of its own and ends only with the context, and
  the undo of a failed preparation runs under a context that never ends. `Close` has five
  minutes. The lock is tried every 50 ms; weak fairness is enough because each release takes
  it a bounded number of times.
- `AgentTurn`: the operator goes on (`RunContext` has a timer, a group that got
  SIGKILL dies, helpers are read under a timeout). Nothing is assumed of the agent.
- `CaseCatalog` and `LocalRun` state no fairness: their properties are safety.

Runs that end loop in a terminal step (`Terminated`, `CaseDone` and the like), so
deadlock is checked everywhere and would mean a process that cannot go on.

## 5. What is proved

The provers check the following for every value of the constants that satisfies
the named assumptions.

| Module | Theorem | Says |
|---|---|---|
| `CaseRunnerProofs`, on the executor | `Inductive`, `TypeCorrect` | the inductive invariant `IInv`, and `TypeOK` |
| | `CapRespected`, `NoLeak`, `Justified`, `FailsFast` | `ConcurrencyBound`, `NothingLeftBehind`, `VerdictJustified`, `FailFast` |
| | `InputsAreFinal`, `DecisionsAreFinal` | `InputsFinal`, `DecisionsFinal` |
| | `BlameIsRootCause` | `RootCause` |
| | `RunRefinesSafely` | every behaviour of `Spec` is one of `DInit /\ [][DNext]` under the mapping of `DagExecutorProps` |
| `CaseRunnerProofs`, on the case | `CaseInvariant`, `NothingIsHidden` | `CaseInv`, `NothingHidden` |
| | `EvidenceIsKept`, `JudgesOnlySuccess` | `EvidenceKept`, `JudgeOnlyAfterSuccess` |
| `ManagedServiceProofs` | `ServiceInvariant`, `RunsOnOwnServer`, `AlarmsAreTrue`, `NoneLeftAlive` | `SvcInv`, `OwnServer`, `NoFalseAlarm`, `NoOrphan` |
| | `CrashesAreNoticed` | `CrashNoticed` |
| | `ServiceIsTheAttemptsServer` | every behaviour of `SvcSpec` is one of `AttemptServer` under the mapping given there |
| `ReleaseRunProofs` | `ReleaseInvariant`, `ServersAreFresh`, `SummariesAreHonest`, `DiskIsRight` | `RelInv`, `FreshServer`, `SummaryHonest`, `DiskMatchesOutcome` |
| | `PassesAreClean`, `AccusationsAreJustified` | `QualifiedMeansClean`, `ClassificationJustified`, on a local target |
| `SessionCommitProofs` | `SessionInvariant`, `NoneIsMissed`, `AcceptedIsCommitted` | `ScInv`, `NoCommitMissed`, `CommitAccounted` |
| | `NoRefusalIsHasty` | `NoHastyRefusal`, when at most one commit is asked for |
| `SourceCacheProofs` | `CacheInvariant`, `ManifestsReplay`, `NoRefIsOrphaned` | `CacheInv`, `Replayable`, `NoOrphanRef` |
| | `SourcesStayFrozen` | every behaviour of `CacheSpec` is one of `FrozenSources` under the mapping given there |
| `CaseCatalogProofs` | `CatalogInvariant`, `PassesAreEarned`, `ClaimsAreExact`, `GoodRunsPass` | `CatInv`, `PassIsEarned`, `ClaimsExact`, `GoodRunPasses` |
| `LocalRunProofs` | `LocalInvariant`, `ExitsAreEarned`, `PreflightsAreRight`, `KeysAreLostForReason` | `LocalInv`, `ExitEarned`, `PreflightRight`, `KeyLostForReason` |
| `AgentTurnProofs` | `TurnInvariant`, `NothingIsLeftRunning`, `EvidenceIsExact` | `TurnInv`, `NothingLeftRunning`, `EvidenceExact` |
| | `GoodTurnsAreEarned` | `OkIsEarned` |

**Assumptions.** `WorkflowAssumption`: finitely many nodes, distinct positions,
references to existing nodes, no node that reads itself, and `Acyclic`, which is
what `detectCycle` establishes for each Executor that `NewExecutor` returns.
`ExecutorAssumption`: a positive cap and distinct markers. `CaseAssumption`: the
`Gate` is the one terminal node and critical, which `checkTerminalJudge`
establishes, and markers are distinct. `ServiceAssumption`: at least one start.
`ReleaseAssumption`: a selection that is not empty and 1 to 20 attempts, which is what
the flags accept. `SessionAssumption`, `CacheAssumption` and `LocalAssumption` type the constants and keep
`None` apart. `TurnAssumption` names the six harnesses, types the gate policies and keeps
the marker `none` out of the tools. `CasesAssumption`: the cases are among the 25.
`CasesAreDisciplined`: each of them keeps the rules of `CaseRules`, which is a fact about
graphs that are data of the code, not a condition on its environment. TLC evaluates each of
these in the runs, the last one for all 25 graphs. Three theorems
assume more, in their statement: `PassesAreClean` and `AccusationsAreJustified` need a local target,
because an external one loses cleanup failures (section 6), and `NoRefusalIsHasty`
needs `MinCommits <= 1`, which all cases use: an operator that asks for two commits gives
up as soon as it sees one that is extracted.

**The executor.** None of its properties is inductive. `IInv` says what the
scheduler's variables mean in terms of what has settled: the queue holds exactly
the idle nodes whose dependencies are settled, each once (`QueueInv`); an
indegree counts the unsettled dependencies (`DegreeInv`); the life of one node
(`NodeInv`); the trace (`TraceInv`); the counters are cardinalities
(`CountInv`); what holds at each place of the scheduler (`ControlInv`).
`SettleStep` is the main lemma: when a node settles, `AddSuccessors` re-establishes
`QueueInv` and `DegreeInv`, which needs that the freed nodes are new to the queue.
That "deadlock" cannot be returned uses `NothingStuck`: with an empty queue and
nothing in flight, the unsettled node of least rank (`Acyclic`) would be in the
queue. `FinalInv` rests on `SettledStable` (a settled output never changes) and
on dependencies covering everything that is read. `CauseInv` says that an aborted
node under an uncancelled caller implies that the first error is already recorded.

**The refinement** has one step per action: `SkipHead` is `Skip`, `LaunchHead`
is `Start`, `Receive` is `End`, `CallerEnds` is `Expire` or a stutter, `Return`
is `Deliver`, the others stutter. It needs `IInv` for the guards of the abstract actions.

**The case runner.** A step of a case is a step of its executor or a stutter, so
`IInv` carries over; `HowInv` ties the cause of an ending to what the executor
was handed by the gate policy.

For the evidence, `TraceComplete` says that once `Run` has returned the trace holds
the result of every operator that ended, those drained after an error too; `JudgeInv`
says of a judge that runs, or gave a verdict, that whatever it was wired to has settled
without a hard error.

**The managed service.** `SvcInv` adds facts to the properties:
`SignalExplained` (every signal comes from `Stop`, after it set `stopping`, or from
the end of the context), `ProcessKnown` (a new start never happens over a living
process, and what follows the timeout of `Stop` has sent SIGKILL),
`AlarmFinal` (an alarm is raised for a process that was reaped without a
signal, and nothing signals it later), `CaseInTime` (no case begins over a server that was reaped, unless the context has ended) and `StoppingExplained`: `stopping` is set only by a
`Stop` or by an end of the context, so a crash that is reaped before the look after a case
cannot be taken for a wanted end.

It implements `AttemptServer`, in which the start with its ports, probes and retries is one
step and so is `Stop`. The mapping shows the server while cases may use it, and afterwards as
long as it may still run: as `up` or `crashed` after a `Stop` that failed, as `stray` after a
start that failed, whose server was killed and is held by nobody. An exit counts as `reaped`,
the only state that raises the alarm, when `done` is closed and `stopping` is not set. Each
action of the service is one of the abstract ones or a stutter; `ReleaseRun` is written with
the same operators (`ServerView`), so what it assumes of its server is what the service does.

**The release.** What is decided at the end is decided from results, while the properties
speak of what happened. `ResInv` is the bridge: the class of a result is `environment`
exactly when the cases are not all there was, and otherwise `seen` and the result agree,
case by case. `PastInv` carries that over to the attempts that are past: a base is compared only after
failures of cases alone, a retry only of cases that the base passed. With that,
`RetryReturned` finds, for a regression, a case that failed, passed and failed.

**The session commit.** `HeldInv` says that the tasks an operator has read are completed
ones of its session, and `CountInv` that the server counts before it lists; so if they
are as many as are counted, they are all (`CoveringIsAll`, by cardinalities). For
`CommitAccounted` the memories of the tasks are summed up over a set; the lemmas about that
sum (it is a number, one more task adds its own part, equal parts give equal sums) argue by a
least counterexample, from the well-foundedness of `<` on the naturals.

**The source cache.** `LockInv` excludes any two steps on the mirror, `PruneInv` says that
a prune touches only what expired, `RunInv` that a run has its directory before its
ref and its ref before its manifest, and `MirrorInv` that no fetch can delete refs and no clone
replaces a mirror in which something was protected. `HeadInv` says that the mirror has
commits of upstream only, and `ReadInv` that what a replay has read, before it had the
lock, is still what the replayed run's manifest says, unless that run expired meanwhile.
With those two, `SourcesStayFrozen` takes each step of the cache to one of `FrozenSources`, where
a run has frozen what its manifest says and the available commits are the mirror's:
`WriteManifest` is `Freeze`; a clone, a fetch and `Gc` are `Restock`, which may drop what
it likes except a promised commit; `RemoveFiles` and `RemoveDir` are `Forget`, `Push` is
`Advance`, `Expire` is `Expires`; every other step changes nothing there.

**The local commands.** `TallyInv` ties rows, passes and runs, with the ways in which an
earlier cut row can spoil the first (`RowsOK`); `FilesInv` says which configuration
files are written and which are still to be; `CleanupInv` that what is present is still to be deleted,
was skipped or was misread; `ReasonInv` why a bootstrap of a run, and a removal, was begun.

**The agent's turn.** An evidence operator decides from `log`, the property speaks of
`did`. `Told` and `Complete` are the bridge: each line of the transcript says of its call what
`did` says, and no call or result is without a line, the call's first (opencode
tells results only). An agent that ended by itself with code 0 has no call open (`Ended`).
From those, `VerdictEarned` shows for each of the six formats that what the adapter reads is
what happened, wherever it is not blind. `Places` and `Running` say where the operator of each
harness can be and which process may run there, through the deadlines and the failures of each
helper; `Configured` which parts of codex's configuration are in force. `Resolved` says
that the target of a turn whose environment was accepted is one that its harness may be served by
(`TargetsAreServed`, from `FirstOf` over the variables each adapter reads).

**The cases.** The argument is split between the graph and what happens in it. `CaseRules`
says what a reviewer of a case has to look for, about its edges alone: each session, memory and
resource comes from one node (`OneGiver`, which a tool's memory alone is exempt from); a check comes after
the turn it checks (`Refers`); turns that share a directory are ordered (`TurnsInTurn`); a
turn that forgets comes after the search that found its URI, and after whatever may write
such a memory (`ForgetsOnce`); what is removed was found before (`RemovesItsOwn`); a search
comes after a node that provides what it looks for, and before one that takes it away
(`Due`, `Kept`); what a pass stands for has a node that sees to it (`DemandMet`); and what may be left has
a node that claims it (`AllClaimed`). A case that lacks an edge it needs fails them, as would
`OpenCodeAutomatic` if its recall did not wait for the searches. The proofs never
expand a graph, so they hold as they are for a case that is changed or added, as long as
TLC finds that it keeps the rules.

`CatInv` is the dynamic half. `OrderInv` and `SentInv`: what runs or is over comes after what
ended well. `WorldInv` and `SessionInv`: all that is on the server comes from a node that has
begun, each thing once. `SeenInv`: what a check or a search that ended well saw, which is
what `PassIsEarned` needs, given that in a passed case all nodes ended well (`AllPassed`: a node of
least rank that did not would have been started). `GoneInv`: what was forgotten, or removed and no longer
found, is neither on the server nor on its way, so it cannot be indexed late, and what a passed check of its
absence saw stays so. `ClaimInv`: claims are
things that nodes of this case give, and include what each finished node claims. `GoodInv`
speaks of runs without faults: what a finished node provides is on the server or on its
way, unless a later node took it (`GoodThings`); every captured session will be committed by
the event it waits for (`GoodSessions`); every turn does its jobs and recalls what was
findable when it began (`GoodTurns`). With that, a poll that runs out while the server is quiet
would have been answered, so no node fails.

**Only model-checked.** Liveness, which is out of reach of the provers
(`Termination`, `EveryNodeSettles`, `ServiceGone`, `RunEnds`, `PollEnds`,
`EveryReleaseEnds`, `TurnEnds`, and the fairness part of `ImplementsDagRun`). That a case of
`CaseCatalog` comes to its end is TLC's check for deadlocks.

## 6. Disagreements found

`release_external` violates `CleanupReported`. For an external target the
deferred cleanup of `executeReleaseAttempt` (`cmd/ovtest/release.go:590`) assigns
`result.Outcome` from a registry in which no claim was ever entered, and so loses
the cleanup error that was recorded for a case (line 724). The release then ends
without an error although resources were left on the shared server.
`README.md:52-53` says that the gate reports "primary and cleanup failures
separately", and `README.md:198-199` that cleanup failures "remain environment
failures". `release_run`, whose target is local, shows that the error is kept
there (`QualifiedMeansClean`).

`source_cache_cancelled` violates `FailureLeavesNoWorktree`. A context that ends
while `git worktree add` runs kills git with SIGKILL
(`internal/cli/process_unix.go:19`), and the worktree is recorded only after the
command has succeeded (`internal/releasegate/source.go:201-204`), so the deferred
`closeUnlocked` does not remove what is there. The test
`TestPrepareCancellationLeavesNoWorktree` (`source_test.go:152-163`, "worktree
remains after cancellation") says that a cancelled preparation leaves none, but
cancels before it begins only. The remains go when the run expires.

`agent_plugin` violates `PluginUnderTest`. The opencode adapter takes
`OV_TEST_OPENCODE_PLUGIN_ROOT` before `OV_TEST_OPENVIKING_REPO`
(`adapters/opencode/exec.go:639`); `releaseEnvironment` sets only the latter and the
scrubbing of the shell keeps the former. A release started from a shell that holds the
variable, which `README.md:265` documents, tests the developer's plugin, while its manifest
records the hash of the frozen one; `README.md:37` says that a release freezes the
exact SHA of what it tests. The codex, claude and openclaw adapters have the same order
for variables that no document names.

### Remarks

Met while modelling. No run rules on them: the properties name them as exceptions, and what a
comment or a Reference says otherwise is quoted.

- *Transcripts.* The codex, claude, opencode and pi adapters scan lines of at most 64 KiB,
  so a long tool output hides the calls of its line from the evidence
  (`Blind` in `AgentTurn`). hermes forbids `clarify` in `sync_turn.go`, but its
  evidence only ever observes its own tools (`adapters/hermes/chat.go:333-353`), so the ban
  cannot be violated.
- *Targets.* `releaseEnvironment` sets the `..._URL` variables only; codex, claude and opencode, which take
  an `..._ENDPOINT` first, are redirected by one in the shell of a release. In a manual run any
  per-harness address or key (`README.md:257-275`) sends the agent away from the server and the
  user of the ov commands of the same case, which then look for its memories elsewhere.
- *Bans.* The evidence of codex, opencode, openclaw and hermes forbids the OpenViking tools it
  lists, not every tool as claude and pi do in their automatic cases, so a shell
  call passes, with which an agent may write or read what the plugin should have
  brought: a pass of codex's or opencode's automatic case does not
  exclude it ("through automatic OpenViking context", `cases/agents/codex/cases.go:38`), nor does one of openclaw's compaction case, whose Reference asks for "a
  subsequent tool-free turn" (`cases/agents/openclaw/release_gate.go:173`).
- *Leftovers that satisfy a search.* The facts of `ExperienceLearning`, `MemoryFromSession`,
  `MemoryDirect` and `SearchCompare`, and the colour of opencode's and openclaw's automatic cases, carry
  no mark of the run, so a memory of an earlier run
  satisfies them on a server that stays. Nor does the resource of pi's tools case:
  `cases/agents/pi/cases.go:96` says that the case covers resource retrieval, but its search
  (`:165-167`) asks for no mark of the run and takes any earlier run's resource.
- *Resources left behind.* `KnownLeft` in `CaseCatalogProps` names what passed cases leave on a shared
  server: the sessions hermes records and their memories, the parent's
  memory in the subagent case, pi's resource without a URI of the run. The `find` of the
  subagent case accepts the parent's memory, that of `HermesTools` may take the workflow
  session's. `cleanupCaseClaims` (`cmd/ovtest/release.go:780-788`) stops at the first claim the
  registry refuses; a session whose creation answers without a `uri` is never claimed.
- *Local runs.* Three decisions rest on a word in the output of the ov command. A `delete` whose
  output has "404" or "not found" anywhere (`internal/cli/cli.go:317`, `:329-332`), be it in the
  URI that a CONFLICT repeats or in a connection error, counts as done, with exit code 0 and the target
  still there; a `wait` with such a text skips its target; a `status` with "401" or
  "unauthorized" anywhere (`:417-426`) makes the run replace a key that may be good.
  A torn `ovcli.conf` is not repaired, although `README.md:313-327` promises
  an automatic repair of its key; the cases take their server from
  `ovcli.conf.root` when that exists, the preflight does not; a bootstrap without
  an `ovcli.conf` fails after it has replaced the key; the row after a cut row is lost with exit code
  0; two commands at the same time are not locked against each other.
- *Reset.* The comment of `Reset` says that it "refuses to run if the configured local OpenViking
  endpoint is reachable, because deleting an active workspace can corrupt the process using it"
  (`internal/localstate/reset.go:18-21`). A workspace in use can be deleted all the same, in the
  two ways that `KeyLostForReason` names: the server is started between the probe and the removal, or
  it listens on an address that is not a loopback by its text (0.0.0.0, a host name,
  `:244-246`) or that `ov.conf` does not give, which is not probed. The developers' `README.md:309-310` repeats the comment.

## 7. What is abstracted and what is left out

In the modelled parts:

- **Data of a workflow.** Field paths, input keys, default values and several
  outputs of one node do not change which node is read or when. Edge conditions on
  producers are never set by the Builder. A node that refers to itself is assumed
  away: the Builder cannot make one.
- **Rejected workflows** (cycles, missing producers, no terminal judge) never run;
  what the rejection establishes is an assumption.
- **Conditions.** A condition is a conjunction of literals over one ref each, which is what `If` and `Else`
  nest to; `Or`, `Not` over several and the comparison of two refs in `cond.go` are left out. All
  of their refs are dependencies too (`Cond.refNodes`).
- **`If` and `Select`.** The cases of the repository use only `Merge`; the instances
  have all three, because the executor supports them and its tests use them.
- **Operators** are their endings. What one polls or writes on the server is not in
  the executor's modules.
- **A release that cannot create its directories** returns before there is anything
  to tear down. Pruning, builds and installations are the one step `Prepare` of
  `ReleaseRun`; pruning and the sources are in `SourceCache`.
- **One session** in `SessionCommit`, whose commits the server handles one after
  the other; claims of added memories are on, as in the cases that use them.
- **One source per run** in `SourceCache`, and no separate run for the base. A clone
  that is killed before git has configured its remote, a git command that outlives a
  crashed `ovtest`, pull-request refs, and a release that outlasts its own
  retention (30 days by default) are left out.
- **A crash not yet reaped** when the attempt looks for it counts as a case
  failure. The model has it, but no documentation says how it has to be
  classified, so no property rules on it.
- **`DiskMatchesOutcome`** speaks of the primary error where evidence must be kept:
  a failure of redaction, of `Finalize` or of the summary comes after a successful
  run's evidence was removed.
- **One turn** in `AgentTurn`: one call of an adapter and one evidence check of its
  transcript. Sessions of several turns are `CaseCatalog`'s, whose agents do their jobs or
  fail to, without processes.
- **Prompts and contents** in `CaseCatalog`: a memory is its kind and the conversation it comes
  from, so whether a text matches is decided by its origin; the alias and the colour that opencode and openclaw are told in one conversation are
  one memory of it, although the server may keep two. The toolset of hermes, which offers its
  automatic turns `clarify` alone, is not relied on: its agent may call other tools too. The opt-in experiment cases and the
  formatting of `ls` and `read` are left out.
- **One command at a time** in `LocalRun`, with a local target; symbolic links and the
  directories of a Hermes home are left out.
- **Wording, formats, hashes and redaction patterns** are left out everywhere.

Not modelled yet: the judge's retries, whose growing pause does not look at the context
(`ops/judge.go:138`; the executor's properties hold for operators of any length); the
report's arithmetic. Not planned: fixtures, builds and harness installation, environment
parsing, provenance, redaction, scripts: they are sequential, fail or succeed as a whole,
and the modules above let them.

## 8. Plan

Done, in this order: the executor with its abstract specification, the case runner,
the managed service, the release workflow, the session commit, the source cache, the
agent turn with the environment it runs in, the catalog of cases over the operators they
use, the local commands; and the proofs of section 5. What is left:

1. The judge (`ops/judge.go`): retries, backoff and the parse of the verdict line.
2. `Report` (`runner/report.go`): percentile and attribution against reference
   definitions over bounded records.
3. Harness installation with its caches (`harnesses.go`), two releases at a time.
4. `AgentTurn` as the implementation of a turn of `CaseCatalog`, by a refinement mapping.

## 9. Running it

    tlc -config MCDagExecutor.cfg MCDagExecutor
    tlapm CaseRunnerProofs.tla

The largest runs take two to three minutes, the largest proofs about four.
