# ilXyr: specifications, checks and proofs

ilXyr is a research control plane, and this project models its two halves.

The *core* (`crates/ilxyr-core`) turns typed contributions into frozen experiments, collects forecasts
and funding, admits and executes experiments, and settles what they show. Every handler follows one
pattern: read the hash-chained ledger (`.ilxyr/events.jsonl`), check, store an immutable object, append
one event. Handlers are separate processes (one per CLI command), a few append several events, and any
of them may die between two appends.

The *studies* (`scripts/`) are the experiments the control plane pays for: scripts that package a study,
launch one cloud machine for it, run it there under nested supervisors and deadlines, archive and upload
what it left, collect that elsewhere and replay it. Here too every step is a process of its own that can
be killed at any line, and the only thing that joins them is files: receipts, requests, archives, records.

What is hard is therefore rarely a single handler or script; it is what a long interleaving of them,
with crashes, lost answers, signals and retries, leaves on the ledger, in the bucket or on the bill.

## Inventory

| Part | State it keeps | Operations | Talks to | Hard behaviour | What makes it correct |
|---|---|---|---|---|---|
| Promoted lane (`workflow.rs`) | contributions, compiled experiments, forecasts, funding, decisions, runs, evidence, settlements | submit, compile, forecast, fund, decide, run, finalize | executor, calibration, registration, seals | crash between any two appends, retry, concurrent finalization | gates hold when something runs; acceptance freezes its inputs; one terminal run; evidence, settlements and calibrations agree; finalization completes |
| Intents and seals (`lifecycle.rs`) | intent, sealed and released digests | declare, seal, release | admission, run | seal against a late decision | prospective only; nothing runs while sealed |
| Registration (`registration.rs`) | packages and receipts | prepare, record | admission | two experiments, one registration | one registration backs one experiment |
| Contingent branches (`lifecycle.rs`, `conditions.rs`) | branch plans, branch records | register, activate | evidence of every lane | interrupted activation, replaced plan, three-valued logic | evaluated once, fails closed, reports are on the ledger |
| Epoch budgets (`autonomy.rs`, `validation.rs`) | trusted keys, signed budgets, allocations | trust, register, reserve | clock, allocator, sandbox | overlapping lifetimes, rounding, three lanes on one total, retry | lanes and reserves never exceeded, one active budget |
| Allocator, unattended runs, sandbox (`autonomy.rs`, `onboarding.rs`) | allocations, sandbox plans and runs, promotions | allocate, authorize, run | promoted lane, budgets | several appends per candidate or probe, dead calls, repetition under another budget, people acting meanwhile | only admitted and funded work is charged; one paid unattended start; promotions rest on charged probes; repetition completes |
| Remote execution, report intake (`remote*.rs`, `report_intake.rs`) | authorizations, reservations, launches, credentials, reports | authorize, launch, observe, collect, accept, intake | a cloud provider, a worker, an HTTP intake | lost answers, retries after expiry, crashes between appends, rival reports | at most one machine and one result per experiment; every machine is on the ledger; a lost launch is found again |
| Cloud preflight and launch scripts (`*_cloud_preflight.py`, `*_cloud_launch.py`) | preflight receipts, output directories with request and receipt | preflight, render, dry run, launch | EC2, the account, an operator | killed at any line, lost answers, repeated with another epoch, two processes on one directory | one machine per run, none unapproved, every machine named by a directory |
| Cloud packages (`package_*_cloud.py`) | archive, its recorded digest, the plan | build, inspect, record, fetch, unpack | host scripts | killed half way, archive changed afterwards | only what was compared runs; the plan's sums add up |
| Cloud hosts and runtimes (`aws/*.sh`, `*_cloud_runtime.py`) | deadlines, container, RUNTIME.json, disk | setup, run, collect, shut down | packages, collection, studies | steps that fail late, signals at any line, a full disk | everyone keeps the time they were promised; no ceiling is crossed |
| Cloud collection (`*_cloud_collect.py`) | archive parts, receipt, terminal object | archive, upload, seal; wait, fetch, rebuild | a bucket, the host's shutdown | stored without an answer, refused, cut off, one file over a ceiling | what is called complete is whole at both ends |
| Supervised processes (`feral_process.py`) | receipt of a process: signals, reason, status | start, poll, TERM, KILL, reap | studies, endpoint | deaf or forking children, floods, a kill from outside | nothing outlives its call; the call ends |
| Supervised studies and checkers (`research_*_study.py`, `check_*_study.py`) | attempt, run and terminal record, collection | supervise, run, check | run_process twice nested | a kill at any line of the accounting, faults just before a clean exit | the accounting is a bound; verified means whole |
| ZERO.4 endpoint (`zero4_endpoint.py`) | shards, worker records, merged rows | deal, supervise, cancel, merge | run_process above and below | a worker's grace against its parent's | no worker outlives an endpoint that was not struck; complete is whole |
| ZERO.4 study and replay (`zero4_study.py`, `check_zero4_study.py`) | process journal, training, seal, endpoints, result, check | train, select, seal, evaluate, score, replay | run_process, guard, records anybody may edit | late candidates, records altered later, every process may fail | the seal follows the rule; complete passes; a passed replay saw a whole study whose records agree |
| Store (`store.rs`) | objects, ledger file | put, append, verify | the file system | torn writes | not modelled |
| Proposals, mechanisms, claims, papers, replication graph, families, retro plans, OCI jobs | documents and their receipts | register, revise, settle | promoted lane, evidence | interrupted compile, staleness | not modelled |
| Weight and opened studies, data preparation, statistics, corpus, imports, CLI, portal, permaweb | files, documents, projections | parse, compute, publish | - | - | not modelled, see below |

## Modules

| Module | Models | Notes |
|---|---|---|
| `Ledger` | the ids that the events of the core are about | extended by `Workflow` and `Conditions` |
| `Workflow` | promoted lane, intents and seals, registration | one action per append |
| `ExperimentLifecycle` | what the promoted lane promises | the abstract specification `Workflow` implements |
| `WorkflowLifecycle` | how far each experiment has come on the ledger | the refinement mapping |
| `MCWorkflow` | the instance | `Workflow.cfg` |
| `WorkflowProofs` | theorems about `Workflow`, the refinement and `ContingentBranches` | |
| `EpochBudget`, `MCEpochBudget` | epoch budgets and credit lanes | `EpochBudget.cfg` |
| `Allocator`, `MCAllocator`, `AllocatorProofs` | allocation, unattended runs, sandbox lane; extends `EpochBudget`, which the proofs cover too | `Allocator.cfg` |
| `Conditions` | condition trees and their three-valued evaluation | a tree is the sequence of its nodes, evaluated by a recursive function over their places |
| `ContingentBranches`, `MCContingentBranches` | branch plans and their activation | `Branches.cfg`, `BranchReplay.cfg` |
| `RemoteExecution`, `MCRemoteExecution`, `RemoteExecutionProofs` | remote authorization, launch, report and intake | `Remote.cfg` |
| `OneShot`, `RemoteOneShot` | what remote execution promises, and the mapping to it | an experiment runs at most once, with at most one result |
| `CloudLaunch`, `MCCloudLaunch`, `CloudLaunchProofs` | nine launch scripts, seven preflights, EC2 | `CloudLaunch.cfg` |
| `CloudPackage` | building, inspecting and unpacking a study's archive; the plan's arithmetic | |
| `CloudHost`, `MCCloudHost`, `CloudHostProofs` | the machine's deadlines, runtimes, signals, disk; extends `CloudPackage` | `CloudHost.cfg` |
| `CloudCollect`, `MCCloudCollect`, `CloudCollectProofs` | both ends of a collection | `CloudCollect.cfg` |
| `Supervisor` | `run_process`, nested twice | |
| `StudyRun`, `MCStudyRun`, `StudyRunProofs` | three supervised studies and their checkers; extends `Supervisor` | `StudyRun.cfg` |
| `Zero4Endpoint`, `MCZero4Endpoint` | one endpoint and its workers | `Zero4Endpoint.cfg` |
| `Zero4Study`, `Zero4Check`, `MCZero4Study` | training, selection, seal and evaluation; the replay over altered and refitted records | `Zero4Study.cfg` |
| `Zero4Proofs` | theorems about the endpoint, and about the study and its replay | |

### How a model of the core corresponds to the code

A variable is a projection of the ledger: "what the latest (or only) event of a kind says about an
aggregate". `decision[e]` is the latest `AdmissionDecided` of experiment `e`, `receipt[e]` its
`ExternalRegistrationRecorded`, and so on; the comment at each VARIABLE names the event. Frozen
content (a specification's thresholds, a forecast's stake, a budget's percentages) is a CONSTANT
function of the id, because the code stores objects immutably under their digest. A handler that
appends one event is one action: its guards are the handler's conditions and early returns.
Idempotent returns that append nothing change no state and are stuttering steps.

`run_experiment` appends many events. In `Workflow` it is a process per experiment (`phase`), with
one action per append (`StartRun`, `CompleteRun`, `RecordEvidence`, `SettleForecast`,
`RefreshCalibration`) and `AbortRun` for a death, a failed append or an executor that does not
start. `ResumeRun` is the retry that finds a completed run. Other handlers interleave freely with
it. That is more than the documented single-writer rule (`docs/ARCHITECTURE.md`,
`docs/V1_REVIEW.md`) asks for, because nothing in the code locks the ledger; only the append with
the reads it rests on is atomic. Two simultaneous runs of the *same* experiment are outside the
model: they break the single-writer rule itself.

`activate_branches` reads the plan, the earlier records and the facts once; `call` keeps those
copies, and `EvaluateBranch` / `SkipBranch` walk the branches in order, one append each.
`AbortActivation` is the death between two of them. A condition tree is the sequence of its nodes, root
first, each with the places of its arms, which lie behind its own; a comparison with a threshold is the set
of values that pass it, whichever of the five operators made it.

In `EpochBudget` an allocation call finds its budget active once (`BeginCall`) and reserves later,
while the clock runs on. The code recomputes sums from the allocation records each time; the model
keeps running totals.

`Allocator` extends `EpochBudget` with what spends a budget. One allocation or sandbox call runs at a
time (`call`, `step`, `at`, `todo`), as the single-writer rule has it, but with one action per append
and `AbortCall` between any two, while commands typed by people (`CommitFunding`, `DecideAdmission`,
`SealTestDigest`, `RunByHand`, ...) and the clock go on. `allocate_epoch` reads its candidates once
(`todo`), then funds (`FundCandidate`), admits (`EnsureAdmitted`) and charges (`ReserveCandidate`) each
in the order of priority; `allocate_replication` does the same for one request of its own lane.
`run_sandbox` freezes (`RunSandbox`), charges (`ChargeProbe`), executes (`ExecuteProbe`), files evidence
(`RecordProbe`) and evaluates the promotion (`EvaluatePromotion`); repeated, it continues at the record
it finds. `RunUnattended` is `run_experiment_unattended` up to the start; its later half is the
finalization that `Workflow` models in full and `RecordEvidence` stands for. Forecasts are complete
before a budget looks at an experiment, one commitment of either origin is enough for the funding gate,
and argument lists, network policies and role checks are properties of the frozen experiment, so that
of `allocation_candidate` only the earlier start and the per-run cap can differ between two calls.

In `RemoteExecution` three actors write to one ledger. `launch_remote_execution` is a process per
authorization (`launcher`): the checks and the reservation (`ReserveLaunch`, or `RetryLaunch` when
there is one), the provider call (`CallProvider`), the record (`RecordLaunch`, or `RefuseReceipt`),
and the upload of the receipt by the command line (`PublishReceipt`). `AbortLaunch` loses the
process or the answer at any point. The provider is external: asked twice with one client token in
one account and region it returns the machine it started first, which is what the code relies on
(`ec2_client_token`). The intake serves one request at a time (its workspace lock): `ReceiveReport`
authenticates, `IntakeAccepts` and `UseCredential` are its two appends, `IntakeRejects` and
`RejectBody` the counted refusals. `AcceptRemoteReport` is the operator's own command. Digest and
provenance verification is one Boolean of a report. `CloseBudget` stands for what can close an
epoch under a running launch: a registered successor or the spending line.

### How a model of the studies corresponds to the code

The scripts come in families: nine launch scripts, six collectors, eight packages, four runtimes, three
supervised studies are variations of one text. A module models the family once, with a variable `study`
(or `input`) that is drawn at the beginning and never changes, and a record or a disjunct wherever the
scripts differ (`Settings`, `PartStudies`, `FeralLaunch`, `RoleLaunch`, `CoverageRuntime`, ...).

In `CloudLaunch` a process (`att[a]`) has a `pc`, one value for each point at which being killed makes a
difference; `disk[d]` is an output directory with the rendered request, the submitted one and the
receipt; `wire` holds calls that EC2 has not handled, and `Handle` is EC2: a token it knows returns its
instance if the parameters are the same and an error otherwise. The client token is the run id alone,
as `render` computes it, so two launch epochs of one run are one token with different parameters.
`feral` makes its directory before it checks, and `reasoner4` tests two paths and writes them later,
each with actions of its own. The account is the set of requirements a preflight saw.

`CloudPackage` treats an archive as the set of what is wrong with it: `build` writes it, compares some of
that (`Inspect`), records a digest (`Record`) and is killed anywhere; `Fetch` and `Unpack` compare the rest
on the machine.
The plan is a record of numbers, and `PlanAccepted` the checks made of them. `CloudHost` goes on from
there: each command the host script runs under `bounded` is one phase that ends by itself, by failing or
at its deadline, `Slack` is what lies between two of them, and the runtime process takes a `Signal` at
each of its steps, where the Python handler raises or forwards it. Disk and bill grow with the steps.

`CloudCollect` walks the host through archive (one step per file), parts, receipt and terminal object. Every put is refused,
stored, or stored and the answer lost; `left` is the time to the cut-offs, each of which the script
compares for itself before a step. Two receivers then list, fetch and rebuild as the collector script
does, from what the last object says. An output is a file of some size; contents never matter, lengths,
order and completeness do.

`Supervisor` is `run_process`: `Popen`, then rounds of `PollLog`, `PollWait`, `PollTerm` and `PollKill`
in the order of the loop, each with what it reads and signals, and the receipt of how it ended. A process that has exited stays a zombie of its group until it is waited for. `StudyRun` nests
it twice: `supervise` runs the controller, the controller runs one job at a time, and each step of either
is one write or one call. `TermSup` and `Struck` are signals from outside at any of them; jobs fork,
flood, ignore TERM, exit wrong or hang. The checker reads what was collected, possibly damaged.

`Zero4Endpoint` has the endpoint's main thread (`Main`), a supervising thread per worker (`Thread`) whose
inner `run_process` is `work[i]`, and the study's own `run_process` around it (`Study`, which ends it by TERM
and KILL, and `Interrupts`: `OuterStrikes` is the KILL without a TERM, for the size of the log or on the way
out of an exception, `StudyDies` the end of the study itself). Workers score
their shard one case at a time and may stop anywhere. `Zero4Study` is the study's single thread with a
row per process in `rows`, as PROCESSES.json has it, and a digest that was true when it was written.
`Zero4Check` changes records between the end of the study and the replay, in two ways. `Altering` changes
something that was done where a second record still has what it was: an input, the order or the seal, a training's
cost, a choice, a case, the roster or the result, with the digests that name the altered record made to fit.
`Refitting` changes figures wherever they are repeated: the values of a family's cases, in the workers' and
the merged rows and in the `rows_sha256` of WORKERS.json, which no receipt binds, or in the windows of
retention; and the cost of an endpoint's process, which nothing sums up. `Replay` is the script's comparisons in its order.

Some definitions state what a guard or step would be without one of its parts (`Unrestricted`, `RecentEpoch`, `EpochToken`, `StudyGrace`, ...). They carry the word "Mutant" or are
building blocks of the real guard, are otherwise not used by `Next`, and serve to check that each
property notices when the code loses that part.

## What the runs check

| Run | Question | Properties |
|---|---|---|
| `workflow` | Can anything run, or stay accepted, against its gates, and do interrupted and repeated finalizations always end in the same consistent settlement? Two preregistered experiments of one proposer share a lineage, a forecaster and two registrations; the proposer forecasts its own experiment with a stake that overflows the total; a crash, a retry. | `AdmissionSound`, `RecordsAgree`, `DecisionsFinal`, `ImplementsLifecycle`, `FinalizationCompletes` |
| `epoch_budget` | Can three lanes, overlapping epochs and retried calls draw more than was signed? | `SharesKept`, `OneActiveBudget`, `SupersededFrozen` |
| `allocator` | Can deaths, repetitions under another budget, seals and manual runs charge, start, record or promote what they should not? Does repeating a call charge what it funded and record the probe it ran? | `ChargesSound`, `PromotionGrounded`, `FiledOnce`, `RepetitionCompletes` |
| `branches` | Is a branch evaluated once, on evidence, and truthfully recorded, across crashes and replaced plans? | `ActivationSound`, `VerdictsStable` |
| `branch_replay` (violated) | Does a replay report what happened? | `ReplayReportsTruth` |
| `remote` | Can lost answers, expiry, retries with another configuration or a second authorization produce a second or an unknown machine? Which of two rival reports and a forged one ends on the ledger? Is a lost launch found again, a signed report concluded? | `LaunchesSound`, `ReportsSound`, `WrittenOnce`, `ImplementsOneShot`, `LaunchesRecorded`, `ReportsDelivered` |
| `cloud_launch` | Can two processes of a launch script, killed anywhere and repeated at other epochs, start two machines for a run, one that nobody approved, or one that no directory admits to? | `MachinesAccounted`, `LaunchedNamesMachine`, `LaunchAuthorised` |
| `cloud_collect` | Can a collection be called complete that is not, around every cut-off, ceiling, refused put and lost answer? Do both ends agree? | `TerminalTruthful`, `UploadsNamed`, `CollectedIsWhole`, `Collectable` |
| `cloud_host` | Can anything run that was not compared, or a step eat the time, disk or money of another? | `RunsWhatWasChecked`, `AllowancesHold` |
| `study_run` | Can a job, child or controller outlive its supervisor, the accounting understate paid calls, or a study be verified that did not run whole? Does the supervisor end? | `NothingOutlives`, `WorkAccounted`, `VerifiedMeansWhole`, `RunEnds` |
| `zero4_endpoint` | The same for one endpoint and its worker threads, under two nested graces. | `NoWorkerOutlives`, `CompleteIsWhole`, `PeersStopped`, `EndpointEnds` |
| `zero4_study` | Is what is evaluated decided before any evaluation; does a study that says complete pass its replay, refitted figures or not; does a passed replay mean a whole study in which none of the modelled alterations of what was done was made? | `SealedByRule`, `CompletePasses`, `CheckMeansWhole` |

Several properties are conjunctions of named parts, each stated and commented on its own in the module:
`AdmissionSound` of `AdmissionStands`, `NoUngatedRun` and `RegistrationBound`; `RecordsAgree` of
`EvidenceTracesToRun`, `SettlementsAgree` and `CalibrationGrounded`; `DecisionsFinal` of `FrozenOnceAdmitted`
and `RunIsTerminal`; `SharesKept` of `LanesBounded` and `ReservesKept`; `ChargesSound` of
`ChargedIsAdmitted` and `UnattendedIsPaid`; `LaunchesSound` of `OneMachine`, `MachinesReserved` and
`ReceiptsGrounded`; `ReportsSound` of `ReportsGrounded` and `RejectionsBounded`; `ActivationSound` of
`EvaluatedOnce`, `ActivationHasEvidence` and `ReportsRecorded`; `MachinesAccounted` of `OneMachinePerRun`
and `MachineTraceable`; `NothingOutlives` of `GroupsEnd` and `JobsEnd`; `AllowancesHold` of `TimelineFits`
and `CeilingsHold`.

### Disagreements found

One has a run of its own:

- **Replay** (`lifecycle.rs`, `activate_branches`): every evaluation is recorded, activated or not,
  and every recorded branch counts as "already activated". The second call reports a branch whose
  condition was never satisfied as activated and never looks at it again (`branch_replay`).

The others were met while modelling and are only described. Where a property would fail because of one,
its statement names the exception.

- **Probe facts** (`conditions.rs`, `from_workspace`): facts are read from evidence of any lane, so a
  sandbox probe decides a branch although the parent has not settled.
- **One key space for two lanes** (`autonomy.rs`, `finalize_sandbox`): sandbox evidence is filed under
  the sandbox id, and nothing refuses a sandbox id that is an experiment id. The experiment's own
  resolved run then finds foreign evidence and fails on every retry. The instance keeps the ids apart.
- **Seal after launch** (`lifecycle.rs`, `seal_test_digest`): the seal looks for local execution
  events, which a remote execution never appends, so a digest can be sealed while its machine runs.
- **Empty conditions** (`conditions.rs`): validation stops at a negation, so `not(any_of [])` is registered.
- **Probe reserve** (`autonomy.rs:966`): the acknowledgement line counts all lanes, so other lanes can
  starve the probe reserve that ADR 0008 calls a floor.
- **Late remote launch** (`remote_execution.rs`): the approval is checked before the preflight and the
  provider call only, so a machine can start just after it has ended.
- **Two processes, two paths** (`reasoner4_cloud_launch.py:241`): the receipt and request paths are tested,
  and written some lines later. Two processes with the same paths overwrite each other, and the machine of
  the first is then named by no file. `MachineTraceable` excludes this script; the eight others
  create their directory with `exist_ok=False`.
- **One approval, many runs** (`reasoner_cloud_launch.py:72`): an approval names a package, a plan and two
  ceilings, not a run id, so it covers a launch of every run id.
- **Lost runtime record** (`zero4_cloud_runtime.py:41`, `:77`): while the `finally` block reads the memory
  counters the handler is still installed and has no child to forward to; a TERM there raises inside it and
  RUNTIME.json is never written. `CloudHost!Signal` has the step.
- **Unjoined workers** (`feral_process.py:60`, `:94` against `experiments/research-step-44/REPORT.md:33`, "Its
  supervisor owns cancellation and joins every worker"): when the study's poll of an endpoint ends in an
  exception, such as a SIGINT of the study, or the endpoint's log is too large, `run_process` KILLs the endpoint's
  group without a TERM. The handlers that cancel the workers never run, and the workers, in sessions of their own,
  go on until their shard is done. `NoWorkerOutlives` and `EndpointEnds` name this exception
  (`Struck`), as `NothingOutlives` does for the supervised studies.
- **Failed arms** (`check_zero4_study.py:160` against `experiments/research-step-44/PLAN.json:98`): the plan
  says that failed arms keep partial records and make the comparison incomplete; an arm whose chunk ended
  but whose samples were refused has no checkpoint for it, and the replay raises instead of saying
  "incomplete".
- **Figures nobody compares** (`zero4_endpoint.py:126`, `zero4_study_scores.py:37`, `check_zero4_study.py:121`):
  receipts bind the standard output and error of a process, not the rows it wrote. Case values that are changed in
  every file that repeats them, and an endpoint's cost that is bound again, replay as complete. `CheckMeansWhole`
  claims nothing of them, and `CompletePasses` holds with them.

### Bounds, and why they are enough

Every bound is a CONSTANT with a value in the `.cfg` or an `MC` definition.

- `workflow`: `MaxAttempts = 2` and `MaxAborts = 1` allow every single crash point and one repeated
  execution. Two experiments with a shared forecaster are what it takes for two finalizations to disagree
  about a calibration; two registrations are one too many and one too few for them. `Outcome = {go}`, which a
  run meets or not. `CreditLimit = 6` stands for `u64::MAX`: one declared stake crosses it. The reviewer is
  never the author here, so the reviewer-separation gate is exercised by the proof only.
- `epoch_budget`: `MaxTime = 3` covers before, during and after each lifetime, with a successor that expires
  first, shares that round up, two budgets of one epoch, one whose reserves do not fit and one forged.
- `allocator`: one experiment, its replication and its probe, two epochs of which the second supersedes the
  first, one death, a seal, one hand-made commitment, decision and run, `MaxStarts = 2`.
- `branches`: `MaxEvidence = 2` lets a verdict be unresolvable, resolve, and be overwritten; two plans share
  branch ids.
- `remote`: two authorizations of one experiment, one of which expires before the epoch does, two
  configurations, `MaxFailures = 2` so that a retry can fail as well, an instant before, in and after each
  expiry, two rival signed reports and a forged one, a limit of two refusals.
- `cloud_launch`: two processes, two directories, two runs. The instants 0, 60 and 3661 lie on both sides of
  the minute after a launch epoch and of the hour after a preflight. One preflight and one package version:
  a receipt is matched by equality only. Processes, directories and runs are symmetric.
- `cloud_collect`: nine readings of the clock, one between any two cut-offs of any script; seven outputs, at
  and beyond each ceiling (one byte over, an exact part boundary, an empty file behind a full archive, a
  link, one member too many). Receivers are symmetric.
- `cloud_host`: one plan that passes every check at its edges and four with one thing wrong; one defect at a
  time, since comparisons are independent of each other; `Slack = 1`.
- `study_run`: two arms in two passes, so that the order rotates and rows must repeat; `Grace = 1`,
  `Extra = 2` (the outer grace is the study's own plus two seconds); one fault of any kind at any step beside a TERM at any
  step; six inputs, two of them out of order.
- `zero4_endpoint`: three cases on two workers, so that shards are uneven; both graces as in the code; two
  faults, so that a recovery can fail as well. A KILL without a TERM, a flood of a log and the study's death are
  faults among them.
- `zero4_study`: three arms (the fallback, the pairing, the guard) for one seed, two chunks, costs on both
  sides of the allowance, two faults (an altered or a refitted record is one of them). With one seed the rotation of arms between seeds is not exercised.

Symmetry is used only where the ids have no content of their own and no liveness is checked.

Deadlock is not checked where the system may legitimately stop (all inputs collected, every bound
reached, the machine off); `ContingentBranches` never stops and is checked for deadlock.

### Fairness

`FinalizationCompletes`, `RepetitionCompletes`, `LaunchesRecorded`, `ReportsDelivered`, `RunEnds` and
`EndpointEnds` need it. `Workflow!FairSpec` assumes weak fairness of a finalizing process
(a live process goes on) and of `ResumeRun` (the operator repeats `ilxyr run`, which
`docs/PROTOCOL.md` prescribes: retrying "appends only missing finalization records"). Nobody is obliged
to submit, fund, admit or start anything, nor is a crashed execution ever obliged to be repeated.

`FairAllocatorSpec` assumes that a running call goes on (weak), that a loop cycle for one experiment and
a sandbox command are repeated (strong, because calls of other subjects compete for the one writer; the
loop is "safe to call repeatedly with the same cycle", `docs/PROTOCOL.md`), and that the finalization of
a completed run is repeated (weak). Nobody has to fund, admit, seal, start or allocate a batch. The
deaths are bounded by `MaxAborts`: a call that always dies completes nothing.

`RemoteExecution!FairSpec` assumes that an operator repeats a launch command until it is recorded or
refused, with the configuration it was reserved for (`docs/REMOTE_EXECUTION.md` asks for that), and
that the intake goes on with the request it serves. Sending a *verifying* report again is strongly
fair, because senders compete for one request at a time; nothing is assumed of forged ones.
Authorizing, publishing, sealing and the clock are under no obligation.

`StudyRun` assumes weak fairness of the supervisor, of the controller and of time, and nothing of a job:
it may hang, ignore TERM or never be scheduled. `Zero4Endpoint` assumes the same of the main thread, the
supervising threads, the study's poll loop and time, and nothing of a worker. These processes are loops
that sleep ten milliseconds and never wait for anything but their children. Time passes only when no poll
is due, as a poll interval is far shorter than any limit. The launch, collection and host scripts and
`zero4_study` have safety properties only.

## What is proved

Eight modules hold theorems, and together they state every invariant and every action property that a
passing run checks: the runs show them on small instances, the theorems for every number of experiments,
processes, directories, receivers, files, arms, seeds, workers, cases or faults. They rest on the named
assumptions about the constants and on nothing else:

- values that stand for "nothing" are none of the values they stand beside (`NoneAssumption` of `Workflow`,
  `RemoteExecution` and `CloudCollect`, `RequestAssumption`, `NothingAssumption`), and bounds are natural
  numbers (`BoundAssumption`);
- what is frozen before anything runs has its type: contents, policies, plans, requests and subjects
  (`ContentAssumption`, `PolicyAssumption`, `SubjectAssumption`, `PlansAssumption`, `StudiesAssumption`,
  `CloudLaunchAssumption`, `CloudCollectAssumption`, `StudyAssumption`, `Zero4EndpointAssumption`,
  `Zero4StudyAssumption`); `PlanAssumption` adds that a condition is a tree, as the JSON it is read from is,
  and that branch ids are distinct, which `register` demands;
- the two `GraceAssumption`s are literals of the code: an inner grace is shorter than the outer one;
- `HostAssumption` is the one about timing: the untimed commands between two bounded steps of a host
  (`Slack`) are over when a plan's collection begins.

| Module | Theorems |
|---|---|
| `WorkflowProofs` | `TypeCorrect`; `AdmissionCorrect` (`AdmissionStands`), `AdmissionFreezes` (`FrozenOnceAdmitted`), `RunsAreGated` (`NoUngatedRun`), `CompletedIsTerminal` (`RunIsTerminal`), `EvidenceCorrect` (`EvidenceTracesToRun`); together `AdmissionIsSound`, `DecisionsAreFinal`, `RecordsCorrect`; `WorkflowRefinesLifecycle` (`ImplementsLifecycle`); of branches `ActivationCorrect` (`ActivationSound`), `VerdictsCorrect` (`VerdictsStable`) |
| `AllocatorProofs` | `AllocatorTypeCorrect`; `ChargedCorrect`, `UnattendedCorrect`, together `ChargesCorrect`; `PromotionCorrect`; `FiledOnceCorrect`; `AllocatorRefinesBudget` (`AllocatorSpec` implies `Spec` of `EpochBudget`); `AllocatorKeepsLanes`; of `EpochBudget` alone `TypeCorrect`; `LanesCorrect`, `ReservesCorrect`, together `SharesCorrect`; `OneActiveCorrect`; `SupersessionCorrect` |
| `RemoteExecutionProofs` | `TypeCorrect`; `OneMachineCorrect`; `LaunchesCorrect`; `ReportsCorrect`; `WrittenOnceCorrect`; `RemoteRefinesOneShot` |
| `CloudLaunchProofs` | `LaunchTypeCorrect`; `MachinesCorrect`; `LaunchedCorrect`; `AuthorisedCorrect` |
| `CloudCollectProofs` | `CollectionInductive`; `TerminalCorrect`; `NamedCorrect` (`UploadsNamed`); `CollectedCorrect`; `CollectableCorrect` |
| `CloudHostProofs` | `HostInductive`; `RunsCheckedCorrect` (`RunsWhatWasChecked`); `AllowancesCorrect` (`AllowancesHold`) |
| `StudyRunProofs` | `InductiveInvariant`; `NothingOutlivesCorrect`; `WorkInductive`; `WorkAccountedCorrect` (`WorkAccounted`), `VerifiedCorrect` (`VerifiedMeansWhole`) |
| `Zero4Proofs` | of the endpoint `EndpointTypeCorrect`; `WorkersEnd` (`NoWorkerOutlives`); `CompleteCorrect`; `PeersCorrect`; of the study `StudyInductive`; `SealedByRuleCorrect`; `CompletePassesCorrect`; `CheckMeansWholeCorrect` |

The admission argument: once a decision is accepted `ensure_inputs_open` refuses every forecast and
commitment, a receipt is never replaced, and the lineage is frozen, so the sets over which the gates
are evaluated do not change (`GatesFrozen`). Runs: only `StartRun` increments `attempts`, its guard
is the gates, and from then on neither the inputs nor the seal can change (`GatedStep`). Evidence
needs a strengthening, `ProcessInv`: a process is finalizing only over a resolved run, an executing
process has no completed run, and a completed run belongs to a started experiment; with it no
completed run is replaced (`TerminalStep`), and evidence, written once from it, never diverges.

The lifecycle argument: every step leaves the stage of an experiment or moves it to the next one
(`StageStep`). It cannot fall back, because an admission stays (`FrozenOnceAdmitted`), a start stays
(`StartedStays`), a run is terminal, evidence is kept, and a forecast once counted stays counted
(`CountedStays`): a calibration is rewritten from all settlements of a forecaster, and it counted only
settled ones (`CalibrationGrounded`) that agree with the evidence. It cannot skip "resolved", because the
participation gate holds of what runs, so there is a forecast left to settle when evidence is written
(`Participated`).

The budget argument: `RegistryInv` says that registered budgets are well formed, that epochs are
distinct, and that nothing has been charged to an unregistered budget. `LanesBounded` is inductive
relative to it, and `ReservesKept` is arithmetic over `LanesBounded` and the check of the rounded
reserves at registration.

The allocator argument: `ChargedIsAdmitted` is inductive only with `CallInv`, which says what a call has
already appended at each of its steps: at "reserve" the experiment is accepted and funded under this
budget, at "execute" the probe is charged and not yet recorded, at "promote" its evidence is filed.
That survives whatever people do in between because the ledger only grows (`LedgerGrows`).
`UnattendedIsPaid` needs that every counted unattended start is a start (`StartsCounted`), so the check
for an earlier start excludes a second one of any lane or budget. Every step is one of `EpochBudget` or
leaves it alone (`BudgetStep`), which carries the theorems about lanes and reserves over.

The remote argument: `OneMachine` is not inductive. `LaunchInv` adds that an experiment has one
authorization, that a reservation lies between its authorization and now, that a running command has
a reservation with its own configuration and no recorded launch, and that a machine's client token is its
authorization; together the provider's answer can only be the one earlier machine. `ReportInv`
follows a report: published receipt, signature, served request, acceptance. The served request must
have attempts left, or `RejectionsBounded` would not be inductive. The refinement maps a provider
call that starts a machine to `OneShot!Run`, a fresh acceptance to `OneShot!Conclude` and every other
step to a stutter.

The launch argument: `TokenInv` (the token of every request is its run id) makes one machine per run
inductive, since EC2 creates none under a token it knows. `MachineTraceable` is not: a receipt is written by
a process that may know less than EC2. `DirectoryInv` says that apart from `reasoner4` a directory belongs to
at most one live process, which wrote what is in it; `WireInv` that a call on its way has a request
that was saved first. `TraceInv` then claims the stronger thing: some directory admits the request *and*
every process that still holds the directory is waiting for the answer, so what it writes next can only be
"launched" or "outcome unknown". `ClearInv` carries approval and freshness from the check to the machine
(`Allowed` can only become true, because preflights are never taken away and epochs do not change);
`LaunchedNamesMachine` needs that an answer comes from the process's own request. The steps that nine
scripts take are first reduced to a few shapes (`Work`: `Begins`, `Saves`, `Send`, `Ends`, ...), and each
invariant is proved over the shapes.

The collection argument follows the bytes. While the archive is written it holds a whole file for each file
reached, unless it already says otherwise (`Sound`), so a finished archive that says complete has every file
(`Written`). Each part in the receipt is the one the loop sends and is stored (`Sent`); when the loop ends,
every part but the last is full and the last is the rest (`FullPart`, `LastPart`), which is what
`validate_parts` demands. The verdict is only final with the receipt's own upload: `Describes` says what a
final terminal may claim of the bucket, and holds from then on because only a host that has not written its
terminal object writes anything. A receiver copies that object once (`Consistent`). An upload whose answer
was lost is either the pending part or one the receipt already has, whatever else went wrong (`FailedInv`).

The endpoint argument: `GraceInv` is the heart. Between the study's TERM and its KILL, the endpoint's
remaining grace is at least a worker's remaining grace plus the difference of the two constants, for a worker
that was told to stop; polls that are due come before time passes, so when the outer grace reaches zero every
worker has been killed and waited for (`GraceOver`). `WorkerInv` says that a failed worker has set the
cancellation; `PoolInv` what the main thread knows of its threads at each line; `CompleteInv` that a record
that says complete was merged from whole shards, which cover the cases because each ordinal has one residue
(`ShardsCover`). `GraceAssumption` is what the code fixes by two literals: one second for a worker
(`zero4_endpoint.py:78`), two for the study's own processes. All of it is about endpoints that were not struck:
`PoolInv` excludes those, since a KILL at once leaves no grace to compare.

The study argument is the same hazard one level up, with a Python controller between the two calls.
`OuterInv` and `InnerInv` say who can run at each point of either call: a job only while the controller
waits in its call, nothing of a group after its KILL. `GraceInv` covers the time between the supervisor's
TERM and its KILL: a controller that still runs was told, starts no further job, and is either in a call
that has sent KILL, or has as much time left as the outer grace began with, or has a shorter grace running
(`Shorter`; it needs `Extra` > 0, the `+ 2` of `research_solomon_study.py:253`). Since time passes only when
no poll is due, no job runs when the outer KILL comes, and `OrphanInv` follows: a job is left behind only by a
controller that somebody else struck, or when the supervisor's own poll raised. `JobsEnd` names both
exceptions, because the code handles neither.

The accounting argument of a study (`WorkInv`) is about the order of its writes. In memory, paid calls are
booked as an upper bound before the job that makes them is started and confirmed after it (`BookedInv`);
the attempt on disk is one the controller had before, and Solomon's, which is saved before each job, the
present one (`SavedInv`); so a kill at any line leaves a record that bounds what was spent. `ReceiptInv` and
`ProgressInv` say that a job that exits 0 has left its mark exactly when its receipt says complete and nothing
was sent to it, hence that every item before the present one ended clean. `TerminalInv` joins the two levels: a
terminal record says complete only over a controller that exited 0, which nothing struck, and which had closed
its attempt after the last item. What the checker accepts (`VerdictInv`) is then whole.

The host argument: a package on its way has no defect its build compares, an unpacked one none its inspection
compares (`PackageInv`), and nothing but an unpacked one gets beyond the package step (`RunInv`). A bounded
step ends at its deadline and the next one is started at most `Slack` later (`TimeInv`), which with the sums
that the package's inspection compares gives every party the time it was promised; what is written stays
within the plan's own numbers and the disk was measured for their sum (`DiskInv`).

The branches argument: a verdict is a function of the facts its tree reads. `VerdictsExist` shows that the
recursive evaluation has a solution and `VerdictsAre` that it is that solution; `NothingFromNothing` that a
tree which is nowhere hollow and none of whose facts is known stays unresolvable; `ResolvedStays` that facts
learnt later turn no verdict that is resolved. `CallInv` says of an activation under way which branches
are recorded by it or by an earlier one that was interrupted, so no branch is evaluated twice.

The study-and-replay argument has two halves. While no alteration of what was done was made (`Honest`), each
record is what its controller wrote: the rows of the journal end before the next begins (`RowsInv`), binaries precede training
and training the seal (`OrderInv`), each checkpoint names the process it came out of and what all processes up
to that one cost (`TrainInv`), the five processes of each model lie side by side under the seal (`EvaluatedTo`
counts them), an error left a failed row (`Broken`), and a result that says complete is of a whole study
(`ResultInv`). Refitted figures are none of this: `RefittedRows` and `RefittedEnds` say what they leave as it was,
which is all that the replay compares, so a study stays honest (`RefitsStep`) and its replay says what it said
(`ReplayRefitted`). From the first alteration of `Altering` on there is damage (`Damaged`): an input differs, the seal no longer
fits its rows, or the study has ended and its replay does not pass. Each of them does damage
(`AlteringHurts`; `CostTells` for a receipt's cost: what was charged up to a checkpoint changes with it), no
step undoes it (`DamagedStep`), and damaged records do not pass (`DamagedFails`), so a replay that passes saw
none of them; it may have seen refitted figures. Conversely an honest complete study meets every requirement of the replay
(`CompleteFits`), for which an evaluator that exits 0 is taken to have left a row for every case (`EndpointOf`). The invariant
was checked by TLC over all states of `zero4_study` before it was proved.

Induction over data is done with least elements: the library's induction rules take an operator and cannot be
instantiated, but every non-empty set of natural numbers has a least element (`LeastOf`, from
`NatLessThanWellFounded` and `WFMin`), and the least counterexample to a property of a recursive *function*
contradicts its own equation. This is how the evaluation of condition trees and the sums of `Charged` are
reasoned about, and how `CHOOSE` of a furthest checkpoint is shown to find one (`GreatestOf`).

Only model-checked: `FinalizationCompletes`, `RepetitionCompletes`, `LaunchesRecorded`, `ReportsDelivered`,
`RunEnds` and `EndpointEnds`, which are liveness under fairness; and `ReplayReportsTruth`, which the run
`branch_replay` refutes.

## Not modelled

- The store: an object file is created before its bytes (`store.rs:120`) and an event line is written apart
  from its newline (`store.rs:259`); a crash in between leaves a torn record. The models append atomically.
- Proposals, mechanisms and tournaments, claims and papers, the evidence graph, families and retro plans:
  documents with a digest each, registered and settled once; what they settle on is the evidence that
  `Workflow` writes. OCI jobs are a second execution path of the promoted lane with an attestation gate; the
  remote path is modelled instead.
- Of modelled core files: a candidate that fails a whole batch (`autonomy.rs:213`), a second execution of a
  charged probe after a death inside it (`autonomy.rs:431`), a credential printed and lost
  (`report_intake.rs:122`), and two intake processes without a common lock (`report_intake.rs:240`).
- The local executor and preflight: a child process with limits, digest checks over files. Its result
  is an arbitrary run record in `Workflow`.
- The weight studies' own controllers, the opened local harness and the earlier feral controllers: a second
  family of supervisors; their launch, packages and collection are modelled with the others.
- In `zero4_study`: the score decisions (`zero4_study_scores.py`, lines 107 to 147), the guard's log, evaluators
  that exit 0 over half their rows, and records of what was done that were altered wherever they are repeated (a
  training's cost with its candidates and the seal): a comparison of records with one another cannot find those.
- Data, roster and window preparation, statistics, tensor code: single processes over fixed files.
- Corpus, Hugging Face, NSRL, interop and registry code: validation and projection of documents.
- CLI, MCP server, HTTP plumbing, AWS argument building, portal, permaweb: dispatch, input and output.
- Floating-point scores (Brier, Murphy decomposition): a calibration is the set of forecasts it counts.
