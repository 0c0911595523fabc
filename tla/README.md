# Verification of the MaOps Docker platform

TLA+ modules, TLC runs and TLAPS proofs about the three-service platform of this
repository (`gateway`, `app`, `state`) and about the harness that exercises it.
Source paths are relative to the repository root. Run everything from this
directory, e.g. `tlc -config MCStateStore.cfg MCStateStore` and
`tlapm StateStoreProofs.tla`.

## 1. Inventory

| Component | State it keeps | Operations | Talks to |
|---|---|---|---|
| **state: store and service** (`state/storage.py`, `state/server.py`) | the counter file on a volume, its temporary file, one lock | `GET /readyz`, `GET /state`, `POST /state/increment`; start, SIGTERM | file system; called by app |
| **app: forwarding** (`app/server.py`) | nothing between requests | the same routes forwarded by `_call_state`; any failure of state becomes a 503 | state |
| **gateway: forwarding** (`gateway/server.py`) | nothing between requests | the same routes forwarded by `_call_upstream`; any failure of app becomes a 503 | app |
| **platform config** (`*/platform_config.py`, `config/platform.json`) | per process, what the mounted file said at start-up | load, validate, check the timeout hierarchy | read by each service when it starts |
| **environment config** (`*/config.py`) | ports, hosts, timeouts from the environment | parsing and range checks at start-up | Compose file |
| **healthchecks** (`*/healthcheck.py`) | nothing; loads the configuration anew each time | one bounded `GET /healthz`, role compared | its own service |
| **compose stack** (`compose.yaml`) | containers: running, paused, exited; health; restart counts | gated start, `on-failure:3`, stop with grace period, limits | Docker |
| **Compose file check** (`scripts/compose/check_compose.py`) | nothing | accepts or refuses a rendered Compose file | what is deployed |
| **reliability harness** (`scripts/reliability/reliability_check.py`) | what it changed: paused container, shrunk limit, running stack | scenarios, verified resource updates, teardown; SIGTERM | Docker, gateway |
| **compose integration harness** (`scripts/compose/compose_integration.py`) | the same, smaller | polls and asserts, teardown | Docker, gateway |
| **release** (`scripts/release`, `.github/workflows/release.yml`) | runs, their evidence, the releases | context check, dry run, gates, publication, re-runs | GitHub |
| **supply chain gates** (`Makefile`, `scripts/security`, `scripts/release`) | the image tag, the archive of a scan, SBOM, report, bundle, pins | build, audit, save by tag, scan, policy, patch lifecycle, bundle | Docker, Syft, Trivy |
| **Debian versions** (`scripts/security/debian_version.py`) | nothing | splitting and comparing versions | patch lifecycle |
| **image checks** (`scripts/smoke`, `scripts/build`, `scripts/verify`, `patch_lifecycle_check.py`) and **`make clean`** | throw-away containers, a network, images | create, probe, compare, remove in `finally`; sweep by name | Docker |
| **static checkers, CI workflow** (`scripts/lint`, `scripts/ci`, `.github/workflows/ci.yml`) | none | predicates over files | - |

### What is hard, and what makes each part correct

*state.* Handler threads run concurrently; one lock covers load, write, fsync,
rename and directory fsync. Each system call may raise, the process may die
between any two (SIGTERM does not join handler threads: they are daemons), and
the host may lose power. Correct means: an increment answered 200 is never lost,
no two get the same number, no torn file is ever read, a file that cannot be
loaded is neither served nor overwritten, and no error path keeps the lock.

*app and gateway.* Three processes fail independently. A timeout tells the
caller nothing about what happened below. Correct means: nothing is counted
twice, a 200 tells the truth, and no client hangs on a stalled dependency.

*Timeouts.* Two nested calls, each with a timeout that `http.client` arms anew
for every socket operation. Correct means: the inner one fires first, so that the
client sees app's controlled 503 and not gateway's own timeout.

*Harness.* Docker reports and what Docker does are different things: `docker
update` may exit 0 with a limit unchanged, or fail with it changed. Correct means:
no clean end while a container keeps a limit the harness gave it, no lost
diagnostic, bounded retries. A check that passes on a broken platform is worth
nothing: no pass over a counter that was lost or a stopped container that was
restarted, none after a SIGTERM, and the stack is taken down however the run ends.

*Release.* Tags and main move while a run is under way, a run is run again in whole
or in part days later, jobs break off over a half-made release, and API calls fail.
Correct means: what is published passed the gates and belongs to its tag, is never
changed, and never comes from a dry run.

*Image checks.* Each owns Docker resources under a name nobody else has, and its
`finally` clause is the only one to remove them. Docker calls fail after their
effect, time out while the daemon goes on, and are cut short by Ctrl-C; removals are
not looked at. Correct means: a check that passed has left nothing, one that failed
leaves only what Docker itself kept, and `make clean` knows the rest by name.

*Compose stack.* The Compose file is only text until Docker acts on it: the check is
right if what it accepts behaves. Health is liveness, readiness is another endpoint,
and only the first start is gated. Restart counts accumulate; each process keeps its
own copy of the mounted config, while its probe loads the config anew; SIGTERM may
come before the handlers or meet a process that cannot start a thread. Correct means:
what is healthy at the end of `up` is ready, a stop is graceful and final, app and
gateway break the timeout hierarchy only over a file edited between their starts, and
after any crashes the chain comes back or there is a nameable reason.

*Supply chain.* The gates of one `make release-check` share no object: each finds the
image by a tag that anybody may move, evidence lies in files with fixed names, pins
are read at different times, and a scanner outlives its timed-out client. Correct
means: green is about one image, the bundle holds what was checked, the overlay never
takes a library back behind its base - by Debian's order of versions, where `~`
sorts before the end of a string.

`PROJECT.json` lists every hazard at its line with the properties that cover it.

## 2. Modules

| Module | What it is |
|---|---|
| `AtomicCounter` | what the state service promises its callers: each call happens at one instant between its arrival and its answer, or not at all; crashes and power losses |
| `StateStore` | the state service: threads, lock, files, disk; implements `AtomicCounter` |
| `StateStoreProofs` | its theorems |
| `AmbiguousCounter` | what gateway promises a client: at most once, a 200 is true, a failure says nothing |
| `RequestChain` | client, gateway, app and state, with an `AtomicCounter` as the store; implements `AmbiguousCounter` |
| `TimeoutBudget` | the two nested calls with clocks and a mounted config |
| `RequestChainProofs` | the theorems of both: what a request does, and what it costs in time |
| `ShrinkPromise` | what `with_memory_shrink_restored` promises its caller: the action runs under the shrunk limit or not at all, and the end tells of a limit that may not be back and of the action's failure |
| `ResourceUpdate` | `with_memory_shrink_restored` and `update_container_resources_verified`; implements `ShrinkPromise` |
| `ResourceUpdateProofs` | its theorems |
| `Harness` | `main` of the reliability check and of the Compose integration check, with the containers they act on |
| `HarnessProofs` | its theorems |
| `ReleasePromise` | what the workflow promises who installs a release: a tag is released once, from evidence that passed for a commit of that version on main |
| `ReleasePipeline` | the release workflow with its context check, evidence and re-runs; implements `ReleasePromise` |
| `ReleaseProofs` | its theorems |
| `DisposableChecks` | the five checks that own throw-away Docker resources, and `make clean` |
| `DisposableChecksProofs` | its theorems |
| `ComposeFile` | a rendered Compose file, the checks on it, and what it means at run time |
| `ContainerLifecycle` | the containers of a Compose file from `docker compose up` on |
| `ContainerLifecycleProofs` | its theorems |
| `DebianVersion` | the order of versions as the code computes it, and as Debian Policy defines it |
| `SupplyChain` | the gates of `make release-check` over one tag and its evidence files |
| `SupplyChainProofs` | the theorems of both |
| `MC*` | one per checked module: symmetry, and bounds on what the module leaves unbounded |

The composition is by layers. `ContainerLifecycle` extends `ComposeFile` and deploys
only what its checks accept; `SupplyChain` extends `DebianVersion` and asks it for the
lifecycle of a patch. `StateStore` is shown to implement `AtomicCounter`;
`RequestChain` uses `AtomicCounter` in the place of the state service and is shown
to implement `AmbiguousCounter`. `ResourceUpdate` is shown to implement `ShrinkPromise`,
which says in one step each what the steps `shrink` and `restore` of `Harness` stand for,
and `ReleasePipeline` to implement `ReleasePromise`. `TimeoutBudget` refines the part `RequestChain`
leaves abstract (there a timeout may expire at any moment of a call); its
specification is called `BudgetSpec`, so that one module can prove about both.

Definitions whose comment begins with "Mutant" are plausible bugs of the
definition that follows them; each property fails when one of them takes that
definition's place, which is how we know that it depends on the code. They are no
part of the specifications.

### StateStore (`state/storage.py`, `state/server.py`)

A thread's `pc` walks through the critical section one system call at a time:
`acquire`, `load` (`_read_locked`), `open` (`os.open` with `O_TRUNC`), `write`,
`fsync`, `replace`, `dirsync` (`_fsync_dir`), and `reply` (`_send_json`, outside
the lock). `unlink` is the `except BaseException` clause. Each step has a failing
twin where the code lets an `OSError` through: `LoadFails`, `OpenTmpFails` (outside
the `try`, so nothing to unlink), `WriteFails`, and an `Unlink` that itself raises.
`_fsync_dir` swallows its `OSError`; the increment then succeeds all the same.

*Files.* A file is absent, valid with a value, malformed (valid UTF-8 that fails a
check), undecodable (not UTF-8), or torn. `target` and `tmp` are what a process
sees; `disk` is the set of contents the target may have after a power loss. A
rename adds the new content to that set, and a torn one too if the content was not
synced; a directory fsync that works reduces the set to the target.
`dirWorks` says whether the volume keeps what it syncs. It is chosen once and
hypothesis of the durability properties, because `_fsync_dir` deliberately
answers 200 on a file system that cannot sync a directory.

*Ends.* `ProcessDies` stands for SIGTERM (`serve_forever` returns, daemon threads
are killed wherever they are) and for an OOM kill: both leave the page cache.
`PowerLoss` does not. `Start` makes a new `StateStore` over the same volume.

*Reads.* A read promises nothing durable: a value read after a process died
between the rename and the directory fsync may be undone by a power loss. Only
acknowledged increments are durable, and that is all `AckedDurable` says.

### RequestChain (`gateway/server.py`, `app/server.py`, `state/server.py`)

`at[hop][request]` is where the hop's handler is: `arrived`, `calling` the next
hop, `sent` its answer, or `reset` (its process died). `Ask` opens the connection
(refused when the callee is down, accepted by the kernel when it is paused).
`Receive` forwards a 200 and turns any other status into the hop's own 503.
`GiveUp` is the socket timeout: nothing tells the other end, so its handler goes
on and the request may still happen. The store's step `Answer` is app's last word:
the counter is held to its answer only while app still waits. What a client that
gives up sees is what it sees when gateway dies, hence no `GiveUp` of its own.

### TimeoutBudget (`gateway/platform_config.py`, `app/platform_config.py`, both `_call_*`)

`conf` is any mounted file up to the bounds, good or bad; `Boot` accepts it or
refuses to start, by `_validate_timeout` and `_validate_timeout_hierarchy`. Each
call goes through `connect`, `head` and `body`, and each operation restarts `wait`.
`Tick` cannot pass an operation's limit: a timeout is noticed when it expires.
`stalls` counts the operations of the inner call that state made app wait for,
`work` the outer call's time in which app itself was not waiting for state. The
name lookup before `connect` is not covered by the socket timeout and is not
modelled.

### ResourceUpdate (`scripts/reliability/reliability_check.py`, lines 537-807)

`phase` is where `with_memory_shrink_restored` is, `at` where the update loop under
way is. Docker is the environment: `Update` may apply any part of the update and
report anything, with the classifier of stderr (`IsTransientRace`) choosing between
the recheck and the failure. `Escapes` is what no `except ReliabilityError` takes:
`subprocess.TimeoutExpired` and the `_TerminatedError` of SIGTERM. Only the action
is inside `except BaseException`. An update that lands after its command timed out
is folded into what `Update` applied. A failed shrink raises before the `try`
(line 772), so a container whose shrink landed without being verified stays shrunk:
the function reports the failure, and `NeverQuietlyStarved` says no more than that.

`ShrinkPromise` is the function as its caller sees it: `EnterAction`, `LeaveAction`, and three
ends. `Restored` is the only one after which the limit is known to be back; `Unverified`
(a `ReliabilityError` of the shrink, or of the restore with the action's exception as its
cause) and `Escaped` leave it open. The mapping (`Stage`, `Starved`) takes a whole retry loop
as a part of the stage it belongs to: while it is under way, `starved` is what it was when
the stage began.

### Harness (`scripts/reliability/reliability_check.py`, `scripts/compose/compose_integration.py`)

Both scripts are sequences of steps on the same three containers, so the scripts
are data: `Scripts[script]` lists what each `main` does, in its order, and one
action performs the next step. A step asks Docker for something (`Effect`), sees
something (`Sees`), records a result (`Records`) and goes on (`Proceed`), or raises
(`Cut`), with what it asked of Docker done or not. `read`, `add` and `check` are the
requests for the counter: `check` is the comparison of an answer with the value
remembered before, `ready` the readiness of app and gateway in one, `count`,
`restarted` and `once` the looks at `RestartCount`, `halt` the `docker stop` that
is watched afterwards (`settle`), `note` and `inspect` the checks that only add a
result. `After` names the nested `finally` around a step: unpause after the probes of
the pause scenario, restore after the exhausted retries (`ResourceUpdate` has
the steps of that restore, and of `shrink`).

*Exceptions.* `exc` is the exception under way: `failed` (the script's own error),
`terminated` (SIGTERM), `other` (`TimeoutExpired`, a broken connection: no `except`
clause names it). It leaves through `unpause` or `restore`, then `teardown` and
`down`; an exception raised there replaces it. SIGTERM raises wherever the main
thread is: in a step, in a nested `finally`, in an `except` clause that prints
results, in the teardown - and in a helper that takes every `Exception` (`Swallow`).
The flag `state_is_paused` is set by the step after `docker pause` returned, so a
signal between the two leaves it unset, as in the code.

*Containers.* `Fails` and `Restart` are `on-failure:3`, with a RestartCount that a
manual start may or may not reset. A starved container fails again as often as it
likes; any other one up to `MaxCrashes` times. `keeps` and `obeys` choose the
platform once: one that loses the volume's content when state is restarted, one
that restarts what was stopped on purpose. `lost` and `revived` are history, and
count only what happened while the script still had a look to take.
The counter is 0 on a new volume, hence a loss before the first `add` is none.

### ReleasePipeline (`.github/workflows/release.yml`, `scripts/release`)

`at[r]` is the step run `r` is at; its jobs run one after the other, so one variable
serves both. `event`, `ref` and `sha` are fixed when a run is triggered, as in
GitHub, and every checkout of the run is of `sha`. `checked` is what `make
release-check` said in this attempt, `valid` whether the job validate succeeded:
"Re-run failed jobs" keeps it, "Re-run all jobs" does not. `evidence[r]` is the run's
artifact, uploaded after a failed gate too, kept across attempts and replaced by the
next upload. `View` reads every failure of `gh release view` as "no existing
release", as the shell `if` does, and leaves open whether a draft is found. `Create`
is refused by GitHub when the tag has a published release; on a tag that is gone
GitHub makes one of a commit of main. Not in the model: a tag with a published
release that is deleted (GitHub then turns the release into a draft by hand of
someone with write access), the order of commits on main, the contents of the bundle
(`Bundle` succeeds or fails as a whole: what it stages is what it hashed).

`ReleasePromise` knows no runs. Its state is what a reader of the releases can see: main's
commits, the tags somebody moved, and the releases; a run's way from the push to the
publication is one step, `Publish`, or `Draft` where it breaks off over its draft.

### DisposableChecks (`scripts/smoke`, `scripts/build`, `scripts/verify`, `patch_lifecycle_check.py`, `Makefile`)

The scripts are data again: `Plan[check]` is a sequence of blocks, a `try` with its
steps and a `finally` with what it removes, in order. `Run` is `docker run -d`, which
may create its container and then fail to start it; `Make` is `docker create`,
`docker load` (with the build before it) or `docker network create`; `Demand` is a
call that raises when it fails, `Check` one that records a result. Every script but
`reproducibility_check` chooses its names before the `try` and removes them all
(`Own`); `reproducibility_check` removes what it has appended to its lists
(`Keep`, `kept`). `broom` is what the `finally` under way has left of that: each step
removes the first of its list still in it. A call that times out, or is hit by Ctrl-C, kills the docker CLI
and not what the daemon does with the request: `late` and `lateRemoval` are
requests that may still have their effect, or never. A removal that times out leaves
the `finally` clause, since nothing takes `TimeoutExpired` there, and what was to be
removed after it stays. `RemovalRefused` is a return code nobody looks at; it is
blamed on Docker (`unremoved`) only when the resource was not in use. `Killed` is an
end without `finally`. `make clean` is four lines, each of which lists names by
prefix and removes what it finds; the first that fails ends it. It may be run at
any time, under a running check too. Its Compose lines and the caches are left out.

### ComposeFile (`scripts/compose/check_compose.py`, `compose.yaml`, `*/config.py`)

A file is a record with the fields the checks look at; `Shipped` is `compose.yaml`.
Each check function of the script is an operator of its own that says when it
reports nothing, and `Accepts` is their conjunction, as in `main`. The
hardening flags of a service are one Boolean, its resource limits one value: the properties cannot tell their fields apart. The second half of the module
is the meaning of a file: the port a process binds or calls (`Port`: the default when
undeclared), whether a call reaches its callee (`Reaches`: name, network and port),
whether the host reaches gateway (`Published`).

### ContainerLifecycle (`compose.yaml`, the three `server.py`, `config.py`, `platform_config.py`, `healthcheck.py`)

`Init` takes any file and any mounted config; `Deploy` is `up` after `compose-check`.
A container is launched (`loading`), loads environment and mounted file (`Load`,
which ends the process on a `ValueError`), installs its handlers (`Arm`) and serves.
`HandleSigterm` starts the thread that calls `shutdown()`; with no thread left,
`Thread.start` raises inside the handler, and the exception leaves the loop or is
taken by the `except Exception` of `socketserver`. `Close` ends within the poll interval of
`serve_forever`. `Probe` stands for a verdict of Docker's, not for each single probe:
a process of its own that validates the config *as it is now*, and then asks for
`/healthz`. So a bad edit of the config turns a container unhealthy that serves
on with its old copy.

Docker is the environment and does what the file says: `UpStarts` waits for the
conditions of `depends_on`, `DockerRestarts` follows the policy with its budget (each
container's own, reset by `StartByHand` only), `Escalate` is the SIGKILL after the
grace period. Time is in the guards: SIGKILL needs a lost signal, or a grace period
no longer than `Poll`. `held` says that the container was stopped by hand; `early`
is history (the signal came before `Arm`); `full` is `pids_limit` exhausted by idle
connections, for the services in `Crowded`. `Excused` names everything that may keep
the chain down for good. Two of its parts are gaps a reader should know: the check
compares ports only where both sides declare one, and never compares `GATEWAY_PORT` with the
published target (`PortsSeen`); and nothing ever gives back a used-up restart budget.

### DebianVersion (`scripts/security/debian_version.py`)

The one module about characters: a version is the sequence of the ASCII codes of its
characters, without the white space that `strip()` takes away. `Comparison` is the
code's loops as one recursive function over the two positions (`Positions`): where
either side goes on with text (`InText`) the `Key` is the `_order` of a character, else
the number of a run of digits; keys that differ decide, and otherwise both go on
`Behind` them. `Order` is `_order`, `Split` is `_split_version`. `OlderByPolicy` is
written from Debian Policy in another way, as the reference: the ranks of a string are
two numbers for each character and for each number, and the first difference between
the ranks decides. Two things are left out: letters and digits beyond ASCII, which
Python's `isalpha` and `isdigit` also take, and the limit of some thousand digits that
Python sets to `int`.

### SupplyChain (`Makefile`, `scripts/security`, `scripts/release/prepare_release_bundle.py`)

`goal` is what is made, `gate` the prerequisite under way; `Gates` lists them in
make's order, the audit as its reading of the pins, its look at the base and its look at
the library, the two scans as save, scan and check. An image is its number, its base
and its library. Every gate reads only what the script reads: the tag (`AuditBase`,
`AuditLibssl` and `Containers`, each of which resolves it anew (`Looks`); `Save`), the archive (`SbomScan`, `VulnScan`), the files with fixed names (`SbomCheck`,
`VulnPolicy`, `ReleaseBundle`), the pins (`Quality`, `AuditPins`,
which keeps them in `pinned` for the rest of the audit, `SbomCheck`, `PatchLifecycle`).
Every gate may also fail for a reason outside the model. `SilentScan` is an exit 0
without a file, which `is_file()` cannot tell from success when an earlier run left one;
`ScanTimesOut` leaves a scanner behind (`late`) that writes later (`LateWrite`).
`Retag`, `Edit` and `Disclose` happen at any moment. `disturbed` is history: which of
these happened to the make under way; each property names the ones it excuses.
`audited` is the images that the two looks of the audit, smoke and security-check were
at; of the several looks of a smoke or a security check one stands for all, and of
`inspect`, which changes nothing and may only fail, there is no gate. `database` is what Trivy knows of the
images as a whole: the properties are about the policy, not about which image has what.

## 3. Runs

| Run | What it asks | Bounds |
|---|---|---|
| `state_store` | the store's safety, the release of its lock, and that it implements `AtomicCounter` | 2 threads, 3 increments and any number of reads, any I/O error, any number of kills, restarts and power losses, every initial file |
| `state_store_readyz` | *violation*: the documented 503 for every unusable file | 1 thread |
| `request_chain` | at most once, true and ordered answers, and that the chain implements `AmbiguousCounter` | 2 requests, 2 faults (kill, power loss); no pauses: a pause only disables steps, and any interleaving it causes is there without it |
| `request_chain_live` | every call ends, whatever becomes of app and state | 1 request, 3 faults, app and state may be paused |
| `timeout_budget` | the inner timeout fires first; the caller's wait is bounded | inner up to 3, outer up to 7, margin up to 2, every config in these ranges |
| `resource_update` | clean ends, bounded retries, implements `ShrinkPromise` (so failures are reported) | deadline 5, interval 2, commands up to 3, oversleep 1 |
| `harness` | honest passes, teardown, unpause, every run ends | both scripts, good and bad platforms, on-failure:3, 1 crash nobody asked for, 1 SIGTERM, each at any step |
| `harness_sigterm_swallowed` | *violation*: SIGTERM is a controlled termination | no crash, 1 SIGTERM |
| `release_pipeline` | what a published release is worth, and that the workflow implements `ReleasePromise` | 2 runs, 3 commits (two of one version, one of another without notes), both tags, 2 moves of tags or main, 2 re-runs |
| `disposable_checks` | what a check leaves behind | all five scripts whole, any failing call, one `make clean` |
| `container_lifecycle` | graceful and final stops, the hierarchy of what was really loaded, healthy means ready, the chain settles | `compose.yaml`, 2 other accepted files, 13 refused ones; 3 configs; restart limit 1; 2 crashes or edits, 1 command by hand; app may be crowded |
| `supply_chain` | one image per green, a checked bundle, no downgrade, Debian's order | 3 images, 2 makes of any goal, 2 outside events; 5 sets of pins, 3 vulnerabilities; all strings up to 3 over 7 characters, and real versions of the lock |

Why the bounds are enough. *state_store*: every interference is between a writer in
the critical section and one other thread, so two threads exhibit it; the third
increment lets an acknowledged value, an unacknowledged one and a new one meet
across a power loss. The proofs cover every other number of threads and calls.
*request_chain*: the properties relate at most two requests (an increment and a
request after it, or two increments); two faults allow the loss of an answer and a
power loss after it; proved for any number of either. *timeout_budget*: 7 is above 3 + 2 by more than one, so there
are configs that are refused, barely accepted and generous; proved for all values.
*resource_update*: two intervals fit in the deadline and a third is cut short by it;
proved for all values. *harness*: a crash and a signal at every pair of steps of
both scripts; what the properties forbid needs one of each at most, and the control
part is proved for any number of either. *release_pipeline*: what goes wrong goes
wrong between two runs of one tag, with a move between them; proved for any number.
*disposable_checks*: no bound at all, the scripts are finite; two checks that run
at once share no resource, so one at a time is enough. *container_lifecycle*: with a
limit of 1, the two faults use up one budget and also hit two different services (the
real limit of 3 only needs more of the same); the refused files have one change each, one for every
check that a property depends on; safety is proved for any files, configs and bounds.
*supply_chain*: the second make meets the files, images and scanners of the first; two
events let a scanner time out in the first and a tag move or an edit happen in the
second; or an edit between the makes gives two images of different bases, and the tag,
moved between the audit's two looks, shows it one of each; three characters are enough
for `~`, the end of a string, a letter and a leading zero to meet on either side.

Deadlock checking is off where the modelled thing ends: a chain whose requests are
all answered, a request that was answered or expired, a function that returned, a
script that ended, a release workflow whose runs are over, a check that is done, a
stack whose file was refused, a tree whose makes are spent.
The state service never ends: `MCStateStore` is checked for deadlock.

### Fairness

*StateStore*: weak fairness of `ThreadStep(t)` for each thread - a thread inside the
critical section is scheduled by the interpreter and its system calls return. No
fairness of `Acquire`, of requests, of restarts. `LockReleased` needs no more: a
process that dies takes its lock with it.

*RequestChain*: a running gateway or app thread goes on (`Ask`), its socket timeout
expires (`GiveUp`), and a client whose connection was answered or broken notices
(`Receive`, `Broken`). Nothing is assumed of the state service, of restarts
or of unpausing, and none of these is needed. `EveryCallEnds` is stated with gateway not
paused (it is not in `Pausable`): a paused gateway keeps its clients waiting, and
nothing in the code could change that.

*Harness*: weak fairness of `Progress`, one step of the script or of its `finally`
clauses. It may be the failing one: every docker command and request has a timeout
and every poll a deadline, so no step waits for ever, whatever Docker does. Nothing
is assumed of Docker. `EveryRunEnds` fails as soon as one wait has no deadline.

*ContainerLifecycle*: weak fairness of each process's own steps (`Process`), of Docker's
verdicts, restarts and kills (`Probe`, `DockerRestarts`, `Escalate`) and of `UpFails`; strong
fairness of `UpStarts`, since `up` looks at the health again and again and a container that is
healthy infinitely often is seen healthy. Nothing is assumed of crashes, of the
operator or of clients: they may stop at any point, or never have begun.

`TimeoutBudget`, `ResourceUpdate`, `ReleasePipeline`, `DisposableChecks` and `SupplyChain`
have no liveness property: a request, an update and a make end by bounds that are
safety properties here, and a workflow may wait for a person.

## 4. Findings

Disagreements between the code and its own documentation, each with a run:

1. `docs/persistence.md` says that any violation of the file's shape raises
   `CorruptedStateError` and that `/readyz` then answers 503. A file that is not
   UTF-8 raises `UnicodeDecodeError` in `_read_locked`, which neither clause
   takes: the answer is the generic 500.
2. `compose_integration.py` says that SIGTERM is a controlled termination with
   exit code 143, distinct from a FAIL(1). One of the probes it calls
   (`check_kernel_readonly_write_fails`) takes every `Exception`, the signal's
   included: the run goes on to its end and reports FAIL(1). It never reports a pass
   (`SignalNeverPasses`, proved).

Noted without a run of their own:

* `gateway/config.py` (lines 44-46) says that one timeout value covers the whole
  request. It is armed per socket operation, and a request may take several times as
  long. The documented effect that matters, app's 503 before gateway's timeout,
  holds for one stall (`InnerFiresFirst`), and state alone can never make the caller
  wait beyond the outer budget (`CallerWaitBounded`).
* `with_memory_shrink_restored` (lines 755-756) says that no exception is ever
  swallowed. A docker command that times out during the restore, or SIGTERM there,
  leaves the function instead of the action's exception: the end `Escaped` of
  `ShrinkPromise` has no cause.
* `check_compose.py` accepts files whose processes do not meet: ports are compared only
  where both are declared, and `GATEWAY_PORT` never with the published target (`PortsSeen`).
* A tag that is moved between the audit and the scans gives a green `release-check`
  about two images, and a scanner left over by a timed-out client may replace checked
  evidence; `GreenIsOneImage` and `BundleIsChecked` name these exceptions. `make
  release-bundle` on its own stages whatever evidence lies there, checked or not.
* The patch lifecycle is judged against the base that the Dockerfile names when the
  check runs, not against the image; `NeverDowngrades` excuses an edit in between.
* `image_audit.py` resolves the tag for its look at the base (line 435) and again for the
  container whose library it checks (660), and the scans resolve it after that. If the tag
  is moved on the way, a green `release-check` may bundle evidence of an image whose base
  nobody compared, and whose own base may be newer than its library. `NeverDowngrades`
  says what holds all the same, and of the bundled image's own base only if all the looks
  were at that image.

* `release.yml` (its comment on concurrency) takes a second push of a tag for
  impossible. Nothing in the workflow prevents it before the release is published, and
  a publish job that is run again then gives the release of the moved tag the
  evidence of its old commit; `EvidenceOfTag` names this exception.
* `reproducibility_check.py` (line 59) says that it removes everything it created, on
  success or failure: not a container that `docker run` created and could not start,
  which is not in its list yet, nor the image that this container keeps in use
  (`FailureIsClean`).
* `make clean` removes the known project-owned resources but does not know the name of
  `patch_lifecycle_check`'s container (`CleanTakesTheRest`).
* `docs/reliability.md` says that teardown runs on every exit path. It does
  (`TornDown`), unless the teardown is itself interrupted by a signal or by a
  command of it that times out; `TornDown` names this exception.

## 5. Proofs

`StateStoreProofs`, for any set of threads, any number of calls, with or without
I/O errors (assumptions: `NoThread` is no thread, the initial value is a natural
number, `IOErrors` is a Boolean):

* `TypeCorrect`: `Spec => []TypeOK`.
* `Invariance`: `Spec => []Inv`. The properties are not inductive: nothing in
  them says what a thread between its load and its rename may rely on. `Inv` adds
  `LockOwner` (a thread is in the critical section exactly when it holds the
  lock), `WriterInv` (the writer holds the successor of what the file still
  says, and from its write on the temporary file is it; it is synced
  before the rename), `DiskInv` (a power loss brings back an older good file,
  or the one bad file) and `AnswerInv` (an increment whose directory was synced is in
  every content the disk may bring back).
* `Safety`: `NeverTorn`, `UniqueResults`, `AckedDurable`, `CorruptNeverServed`.
* `CorruptStays`: the action property `CorruptPreserved`.
* `Implements`: `Spec => Linearizable`, that is `Abstract!Spec`. A call takes
  effect at its `Replace`, a read at its `Load`; each other step maps to a step
  of the caller's phase or to a stutter.

`RequestChainProofs`, for any requests and any number of kills, pauses and power losses
(assumptions: only roles are paused, the initial value is a natural number):

* `ChainInvariance`: `Spec => [](TypeOK /\ ChainInv)`. That a request is counted once is
  no property of the counter alone: `ReachInv` says that a hop is asked only after its
  caller, so state sees each request once, and `StoreInv` ties the store's call to that
  one handler. `TruthInv` follows a 200 from hop to hop. `AckedInv` says which answers the
  store is held to: those that still find their caller (`Held`), at whatever hop; it also
  bounds them, without which the highest answer that `Ask` looks for need not exist.
  On a durable volume, `CounterAhead`, `PendingIsNew` and `HeldOnce` make every number that
  is under way a new one, and `AboveFloor` puts it behind what was answered before.
* `CountedOnce`, `TrueAnswers`, `LaterSeesEarlier`: the run's three invariants.
* `PromiseKept`: `Spec => KeepsPromise`, that is `Promise!Spec`. A request happens at its
  `Execute`; the client's `Ask` is a send or a refusal, its `Receive` or `Broken` a success
  or a failure, a power loss is one; every other step of a hop is a stutter.

Together with `Implements` this is the whole way from the file to the client:
`RequestChain` uses `AtomicCounter`, and `StateStore` implements it.

The same module, about `TimeoutBudget` for every bound: `TimeInvariance`, with `TimeInv` (the outer
call's time is app's own work plus the inner call's), `StallInv` (each stall adds
at most the inner timeout) and `HeadInv` (without work of app's own all waiting is
for one head); from it `InnerFirst` and `WaitBounded`.

`ResourceUpdateProofs`, for every deadline, interval and command duration:
`UpdateInvariance`, with `PhaseInv` (which limits hold in which phase) and `TimeInv`
(each wait but the last cost one interval); from it `RestoreGuarantees` and
`RetryBounds`. `ShrinkKept` is the refinement: `StepKeeps` takes every step of the loops to a
step of `ShrinkPromise` or to none, `EndsWell` those that verified a match, `EndsBroken`
those that raise. It needs `UpdateInvariance`: only the invariant says that a loop which
raises is in the shrink or in the restore, and that the shrink has no action to blame yet.

`HarnessProofs`, for both scripts, every restart limit and any number of crashes and
signals: `TypeCorrect`, and four invariants of its own for what the properties, which
speak only of the end, cannot say on the way there:

* `ControlInv` (`ControlInvariance`; from it `SignalsAreFelt` and `AlwaysTornDown`): no
  exception in the try block, no verdict before the end, and a signal leaves an
  exception under way or a failed result behind, through every `finally` clause. It holds
  whatever the steps of the scripts are.
* `PauseInv` (`NeverLeftPaused`): behind the pause step, a paused container is one the
  script knows of.
* `HonestInv` (`NoPassOverLoss`): as long as a check is due, the value it will compare is
  the expected one exactly when none was lost (`Tally`); after the last check nothing
  lost is left to find. Before `read` the counter must be untouched (`ReadFresh`): a
  `read` would take a lost value for the expected one.
* `StayedInv` (`NoPassOverRevival`): from `count` to the end of the window the
  `RestartCount` only grows, and a revival the script watched has made it grow.

The last three rest on the order of the scripts, as `Shape` has it: nothing is paused
twice or read after an `add`, nothing but state is stopped before the window, and
`count`, `halt`, `settle` follow each other without a break. `ScriptsShape` shows it of
both scripts, joining their parts (`JoinNever`, `JoinAfter`); a step added to a script at
the wrong place breaks it there.

`ReleaseProofs`, for any commits, tags and runs, and any number of moves and re-runs
(assumptions: `VersionTag` gives every commit a tag, `None` is no commit and no
evidence): `ReleaseInvariance`, with `PushInv` (an unmoved tag is at its run's
commit), `StepInv` (a run past the context check has an admitted commit; the publish
job belongs to a push that was validated), `ValidInv` (validate's success goes with
evidence that passed, across re-runs) and `ReleaseInv`. From it `ReleaseSafety` (all
the run's invariants) and `ReleasesStay`. `PromiseKept` is the refinement: `CreatePublishes`
takes `gh release create` to `Publish` (what a run may rely on at that step is `ValidInv` and
`Admitted`, whatever happened between validate and publish), `CreateFailsDrafts` the one that
dies to `Draft`, and `RunsUnseen` every other step of a run to none.

`ContainerLifecycleProofs`, for any Compose files, configs, limits and any number of
crashes, edits and commands (assumptions: `ComposeAssumption`, the grace period is longer
than the poll interval; `LifecycleAssumption`, the timeouts of a config are natural
numbers): `Invariance`, with `IInv`:

* `DeployedInv`: nothing runs but an accepted file. All that the properties need of the
  file - its grace period, its restart policy, its health gates, its networks - comes
  from here, by expanding the check that demands it.
* `StopInv`: a signal under way belongs to a held container, and a lost one came early
  or met a crowded service. `GracefulStop` speaks of killed processes only, after the fact.
* `CopyInv`: a process past `Load` holds a config that its own check accepted.
* `QuietInv`: before the first fault or command, what is healthy serves, and each
  service stands on one that serves: a start can only rely on the health it waited for if
  nothing has ended since.

From it `Graceful`, `Stale`, `Gated` and `StoppedForGood` (the run's four safety
properties). The step of `Escalate` needs `GraceIsEnough` (an accepted file gives every
process time to notice the signal), the step of `UpStarts` `StartIsGated`.

`DisposableChecksProofs`, for any of the scripts and a `make clean` at any time (assumption:
only scripts that exist are run): `TypeCorrect` and `Invariance`. The properties speak of
the end of a script; `KeptInv` says what it owes on the way: inside the `try`, whatever
exists is kept, in hand (created and not appended yet) or used by what a removal failed
on; inside the `finally` it is still under the broom or excused. The step
that matters removes a resource that may be in use: `Tidy` says of a script's lists that
what uses a resource is removed before it, so that a removal Docker refuses has its
excuse in an earlier one (`RefusedKept`). `PlanTidy` shows it of all five scripts. `CleanInv` says that what `make clean` has swept stays away as
long as nothing is under way. From it `GreenLeavesNothing`, `FailureLeavesExcused` and
`CleanTakes`, the run's three invariants.

`SupplyChainProofs`, first about `DebianVersion`: `CompareOrders` says that
`compare_debian_versions` orders any two texts as Debian Policy does, of any length. The
functions are recursive, and induction theorems with an operator for a parameter are out
of the prover's reach; what takes their place are two lemmas about functions as data.
`Recursion`: a recursion along `next` that comes closer to where it stops with each step
(`Descends`) is solved by a function; `Descent`: what holds where it stops, and is
handed on against its steps, holds everywhere. Both follow from the well-foundedness of
the natural numbers (`NatSets`). With them `Number`, `RanksFrom` and `Comparison` are
unfolded (`NumberIsNat`, `RanksUnfold`, `ComparisonUnfold`). The rest is the argument a
reader would make: a key and a token say the same (`KeysAreTokens`), the first token
decides or what follows it does (`RanksCompare`), so the loop agrees with the ranks from
any two positions on (`ComparisonIsPolicy`).

Then about `SupplyChain`, for any pins and disclosures and any number of images, makes and
events (assumptions: the versions of the pins and the ones that are compared are strings
of printable characters, the empty one included): `SupplyInvariance`. What a
green `release-check` says is no invariant of the gates in between, so `Went(n)` counts
how far it has come, and each part of the invariant says what the gates behind it leave:

* `ImageInv`: the tag names the newest image, the audit's and the archive's image is
  the tag's, the SBOM's and the report's is the archive's. That the tag names an
  image at all is what keeps `up` from building another one.
* `CheckedInv`, `BundleInv`: the file that was checked is still the file that is there,
  and then the one in the bundle.
* `OverlayInv`: the audit works with the pins that the lifecycle gate compares; and if all
  looks were at one image, it has the base and the library of these pins. It says nothing
  of an image that only some of the looks were at.

From it `OneImage`, `EvidenceChecked` and, with `CompareOrders`, `NoDowngrade`; and
`OrderIsPolicy` for the versions that the run compares.

Each inductive invariant was also checked by TLC over the bounds of its run.

The type invariants of these modules are proved and no longer among their runs'
invariants; so are `FailuresReported` and `Immutable`, which `RestoresAsPromised` and
`ReleasesAsPromised` imply.

Only model-checked: liveness (`LockReleased`, `EveryCallEnds`, `EveryRunEnds`, `Settles`),
which the prover does not do. Every other property of a passing run is proved. The two
findings are TLC's counterexamples.

## 6. Not modelled, and why

* `/`, `/healthz`, 404 and 405 of each service: no state, no call (`/healthz` is part of
  `Probe`).
* Parsing of JSON, environment variables, headers, lock files and image references, and
  the maxima of the config: the properties see only valid, malformed or undecodable.
* Name resolution: outside any timeout of the code; noted as a hazard.
* The static checkers (`check_source.py`, `check_workflows.py`, `check_dockerfile.py` but
  for its rule on the overlay, which is the gate `Quality`): each of their rules
  forbids a spelling in a text file and keeps no state, so a model would restate the
  rule and no behaviour could tell right from wrong.
* The CI workflow: two jobs in sequence that keep nothing and publish nothing.
* The single assertions of the image checks and harnesses (limits, policies, timing
  bands): one step that may record a failure.
* Docker's, Syft's, Trivy's and GitHub's own behaviour: environment.

## 7. Plan

1. Done: every module of section 2, each with its proofs.
2. Left: a formal link between `Harness` and `ShrinkPromise`. `Harness` does not record how
   `with_memory_shrink_restored` ended, only the exception that is under way afterwards, and
   a later one replaces it; a mapping needs that history. What is there to see by reading:
   each end of the promise is a disjunct of `Restore`, `Cut` of the step `shrink`, or
   `TerminateFinally`.
3. Left: promises for the two remaining components whose safety is stated property by
   property: what a stop, a crash and an edit mean to who calls the containers
   (`ContainerLifecycle`), and what a green `release-check` says of one image
   (`SupplyChain`).
