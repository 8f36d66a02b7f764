# cargo-cage in TLA+

Specifications, model-checking instances and machine-checked proofs for
cargo-cage: a wrapper that runs Cargo builds inside a Bubblewrap namespace with
Landlock, a private cgroup v2 group and lowered resource limits.

## 1. Inventory

| Part | State it keeps | Operations | Works with |
|---|---|---|---|
| Sandbox backend, `cage-linux/src/backend.rs` | `RESOURCE_RUN_LOCK`, process-global; the plan of one call | `LinuxSandbox::run`, `run_inner`, `SandboxPlan::from_request` | calls everything below; is called by the cargo flow |
| Resource group, `resources.rs` | a cgroup directory, `restore`, `entered`, `finished`, event counters; the rlimits and the cgroup membership of the supervisor process | `prepare`, `apply_inherited_limits`, `enter_current_process`, `restore_current_process`, `kill_all`, `finish`, `Drop` | the kernel; owned by one `run_inner` |
| Child supervision, `backend/process.rs` | deadline, `killed_for_output`, `wall_time_expired`, two over-limit flags shared with reader threads | `wait_for_child`, `capture_child_output`, `read_capped`, `LauncherContext` | the child, `ResourceGroup::kill_all` |
| Mount preparation, `backend/mounts.rs` | open descriptors, the Bubblewrap argument list | `PreparedMounts::open`, `build_bwrap_args_with_mounts` | the plan, the file system |
| Tree validation, `tree.rs` | inode link counts, seen entries | `validate_tree`, `validate_hardlink_aliases`, `validate_no_nested_mounts` | the plan |
| Landlock launcher, `landlock.rs` | a parsed launcher plan, a ruleset | `LauncherPlan::parse`, `apply_landlock` | runs inside the sandbox, before the program |
| Policy, limits, paths, `cage-core` | none (values) | `ResourceLimits::validate`, environment predicates, canonical paths | all crates |
| Errors and the backend trait, `cage-core` | none | `SandboxBackend::run`, `CageError` | the contract between backend and cargo flow |
| Cargo flow, `cage-cargo/src/{lib,workspace,policy,environment}.rs` | the workspace location, the writable paths | `run_cargo`, `locate_workspace`, `run_doctor`, toolchain discovery | several sandboxed runs in a row |
| Arguments and target directory, `cage-cargo/src/{args,paths}.rs` | directories and a lockfile it creates | `parse_invocation`, `target_dir_arg`, `rewrite_relative_cargo_paths`, `prepare_target_dir`, `prepare_fresh_target_dir`, `prepare_lockfile` | the file system, Cargo's own parser |
| Child environment, `policy.rs`, `environment.rs`, `merged_environment` | none; it is passed through six layers | `cargo_policy`, `cargo_environment`, `merged_environment`, Bubblewrap's arguments, the launcher's filter | the caller's environment |
| Toolchain selection, `cage-cargo/src/lib.rs` | the chosen programs, PATH, mounts | `resolve_program`, `resolve_rustup_rustc`, `query_sysroot`, `sandbox_path`, `toolchain_mount_paths` | Rustup and rustc, outside the sandbox |
| Entry point, `cargo-cage/src/main.rs` | - | parses, makes the backend, runs, exits | the cargo flow |
| Test kit, red-team harness, release checks | - | - | not part of the logic |

How they interact: `cargo-cage` parses its arguments, `run_cargo` locates the
workspace with sandboxed discovery commands, prepares target directory and
lockfile, and calls the backend for the build. Every call of the backend takes
one process-global lock and performs `run_inner` twice, first for a namespace
preflight, then for the requested program. `run_inner` owns one `ResourceGroup`
and watches one child.

What is hard in it:

* moving a process to another cgroup moves all its threads, so the whole
  program passes through each build's cgroup;
* the supervisor can fail, panic or die while it is inside a group that it, or
  the kernel, may kill;
* cleanup has two paths, `finish` and `Drop`, and each system call in both can
  fail;
* the result of a run is assembled from the child's status, two watchdogs, two
  reader threads and the kernel's counters, which change concurrently;
* killed processes may outlive the time cleanup allows them;
* path, mount and argument handling consists of validations whose order and
  whose agreement with other programs (Bubblewrap, Cargo) matters.

`PROJECT.json` lists these at their lines under "hazards".

What makes each part correct: for the backend, group and supervision, the
properties of section 3. Mount preparation: what is visible in the sandbox is
what the plan says, whatever the nesting of its paths. Tree validation: a file
is accepted only if all its links lie inside. Landlock: a path's rights are the
union of the rules above it, and no rule widens another's. Arguments: the
directories mounted are those Cargo will use. Cargo flow: every run's policy is
built from paths validated after the run before it. Budgets: the effective
limit never exceeds any of its sources.

## 2. Plan

Order of the modules, most important behaviour first; all of these are done.

1. `SandboxRun` with its abstract promise `CagedRun`: locks, cgroup, child,
   watchdogs, cleanup, failures; its inductive invariant and theorems.
2. `SandboxView`: path validation, the mounts in the order of
   `build_bwrap_args_with_mounts`, the Landlock rules, and what the program
   sees in the end; its invariant and theorems.
3. `TargetPrep`: the target directory and lockfile step by step, with other
   processes in the same workspace.
4. `TreeValidation`: links and mounts below the validated paths, against a
   reference; it discharges the assumption `SandboxView` makes about trees.
5. `ResourceBudget`: the effective limits, the limits a call leaves behind, and
   the names of cgroups.
6. `CargoArgs` and `CargoFlow`: the command line, and discovery, preparation and
   build over an abstract backend.
7. `EnvFilter` and `Toolchain`: the environment and the programs of a sandbox.

8. The theorems of section 5, and the refinement of `CagedRun` among them.

Every invariant and every action property a run checks has its theorem;
liveness is left to TLC.

## 3. What is modelled

### Modules

| Module | What it is |
|---|---|
| `CagedRun` | what `SandboxBackend::run` promises: calls are serialised, the probe is over before the build starts, a result is delivered only when nothing of the call is left and no limit was hit |
| `SandboxRun` | `LinuxSandbox::run`, `run_inner`, `ResourceGroup`, both watchdogs, and the kernel objects they act on |
| `SandboxRunInv` | the inductive invariant |
| `SandboxRunProofs` | its theorems: about the supervisor, from the first half of the invariant; about what is delivered, from all of it; and that `SandboxRun` implements `CagedRun` |
| `MCSandboxRun` | symmetry for the TLC instances |
| `SandboxView` | `SandboxPlan::from_request`, `PreparedMounts::open`, `build_bwrap_args_with_mounts` and the launcher: from a policy's paths to what the program sees |
| `SandboxViewInv` | the inductive invariant of `SandboxView` |
| `SandboxViewProofs` | its theorems |
| `MCSandboxView` | a small host and the requests over it |
| `TargetPrep`, `MCTargetPrep` | `prepare_target_dir`, `prepare_fresh_target_dir`, `prepare_lockfile` and what the backend then validates and opens, by several processes in one workspace |
| `TargetPrepInv`, `TargetPrepProofs` | its inductive invariants and theorems |
| `TreeValidation`, `MCTreeValidation` | `validate_tree` with links, hard links and nested mounts, and its callers in `from_request` |
| `TreeValidationInv`, `TreeValidationProofs` | its inductive invariant and theorems |
| `ResourceBudget`, `MCResourceBudget` | the search for the delegated parent, the budget, the names and control files of a cgroup, and the limits of the supervisor itself, over repeated calls |
| `ResourceBudgetInv`, `ResourceBudgetProofs` | its inductive invariant and theorems |
| `CargoArgs` | the three loops that read and rewrite the command line, and Cargo's reading of the result |
| `CargoFlow`, `MCCargoFlow` | `main`, `run_cargo` and `run_doctor` with discovery, preparation and the sandboxed runs |
| `CargoFlowInv`, `CargoFlowProofs` | its inductive invariant and theorems |
| `EnvFilter`, `MCEnvFilter` | the environment from the caller to the program |
| `EnvFilterInv`, `EnvFilterProofs` | its inductive invariants and theorems |
| `Toolchain`, `MCToolchain` | `resolve_cargo` and `resolve_toolchain` |
| `ToolchainInv`, `ToolchainProofs` | its inductive invariant and theorems |

`SandboxView` is the inside of three steps that `SandboxRun` takes as a whole:
`PlanRun` (`FromRequest`), `OpenMounts` (`OpenSources`) and the start of the
child (the mounts and `Launch`). `TreeValidation`, `EnvFilter` and the last steps of
`TargetPrep` look into `FromRequest` and `OpenSources`, `ResourceBudget` into
`ResourceGroup::prepare` and `apply_inherited_limits`. `CargoFlow` is above all of
these: its backend refuses what is not real and otherwise does what it likes.

A few operators, such as `KillForgotten` or `WritableBeforeReadOnly`, stand
before the definition of the code they vary. No behaviour uses them: each is a
plausible mistake in that place, and a property fails when it is put there.
`PROJECT.json` says which.

### State

`SandboxRun`:

* The supervisor process: `sup` (alive, or how it died), `supAt` (its cgroup),
  `rlimits`, `lock` (`RESOURCE_RUN_LOCK` with its poisoned state).
* Each calling thread: `pc`, the place in `run`/`run_inner`; `phase`, preflight
  or requested program; the fields `entered` and `restore` of its
  `ResourceGroup`; the locals `killed` and `wall` of the capture watchdog
  (`wall` is also the Boolean that `wait_for_child` returns); `cont`, which of
  its seven call sites has called `kill_all`; `verdict`, the result `run_inner`
  is about to return, and `outcome`, what `run` has returned.
* Each run's kernel state: `dir` (the cgroup directory), `events` (which of its
  counters have moved), `home` (the cgroup its processes were born in), `live`
  and `dying` (SIGKILL pending) processes, `status` (the child's wait status),
  `piped`, `flood` and `over` (write ends open, more written than a capture
  holds, the readers' flag).

`expired` is the clock as a watchdog sees it. `abandoned` is a history
variable, written by `Drop` when it cannot restore the supervisor or `kill_all`
fails under it; it is used in properties only.

`SandboxView`: `request`, the policy, program, working directory and
CARGO_HOME of one call; `phase`; `todo`, the mounts of each kind that Bubblewrap
has yet to make; `view`, what is at each path of the sandbox: nothing, an empty
directory or tmpfs, something Bubblewrap or the kernel made, or a path of the
host, read-only or read-write. A path is the sequence of its components.

`TargetPrep`: `tree`, the entries of one workspace with their kind, link target and
number of names; each process's place, the path it is at and what it has
prepared. `by`, the process that made an entry, is a history variable.
`TreeValidation`: one host and one request; the verdict. `ResourceBudget`: the
cgroups by name with their controls, each supervisor's process id, rlimits and
`NEXT_CGROUP_ID`, and each call's budget and the name it tries. `CargoFlow`: the
tree, the parsed invocation, what has been found, the policy that comes next
and the sandboxed runs so far. `EnvFilter`: the environment of the process
that comes next, as a function from names to the layer a value comes from.
`Toolchain`: the programs chosen so far.

### Actions

Every system call that can fail is one action with a success and a failure
branch, so other threads, the kernel and the sandboxed processes can move
between any two. `?` inside `run_inner` is `Bail`: the error is remembered and
control goes to `DropGroup`. `kill_all` is one pair of actions (`WriteKill`,
`ReapGroup`) that continues where its caller does (`KillSucceeded`,
`KillFailed`): `?` leaves `run_inner` from the inherit watchdog and from
`finish`; from the capture watchdog it leaves only `capture_child_output`, so
`finish` still runs; the other callers ignore it.

`Faults` is the set of failures a configuration admits: `setup` (any step before
the spawn), `restore`, `kill`, `scan` (the tree or its counters cannot be read
or removed), `late` (processes outlive CLEANUP_TIMEOUT), `monitor` (`try_wait`,
`wait` or a pipe read fails), `panic` (`thread::spawn`), `oom`, `crash`,
`memory`, `pids`, `flood`.

In `SandboxView` one action makes one mount. `Rank` is the order of the kinds in
the argument list; within a kind the order is the policy's, so any, except that
`private_mount_order` puts outer paths before inner ones. A mount replaces what
is at and below its destination (`Place`), and Bubblewrap makes the directories
above it, as `push_parent_directories` also asks it to. `Valid` is the
conjunction of `from_request`'s checks; which of several failing checks is
reported is left out. `FromRequest` may refuse a valid request, since the trees
below its paths are validated too, and `OpenSources` may fail, since a source
can have been exchanged. `Launch` is the launcher: every path of a rule has to
exist, the context file has to be there, and the program has to be visible and
executable.

In `TargetPrep` each system call is an action, and a validation, which reads the
path once from end to end, another; processes and a disturbing program
interleave between them. In `CargoFlow` one action is one call of `run_cargo`,
`run_doctor` or `locate_workspace`, with its early return; `BackendRuns` is one
sandboxed run with every outcome, and `Disturb` is another program that removes
something between two calls, or puts a file or a link in its place.
`ValidTarget` is `validate_target_dir`: the target's canonical path, `Landed`,
must be below the canonical workspace; a link on the way to it is accepted if it
neither lies in the workspace nor leads into it, such as `/home` for `/var/home`.
What is created and mounted is the canonical path; what Cargo is told is a
matter of `rewrite_relative_cargo_paths`. `EnvFilter` has one action per layer,
and `OtherThread` sets a variable of the caller between them. In `Toolchain` one
action finds one program.

### What is abstracted

Names, limits, output and policies carry no data. Validation of the request and
opening of the mounts are steps that succeed or fail. Bubblewrap's status is its
program's: success, another code, or SIGXFSZ. The two pipes and readers of a
capture are one. A sandbox sees no cgroup file system, so a resource group has
no descendant groups and `remove_descendant_cgroups` has nothing to do. A
cgroup the supervisor is stranded in enables no controllers for children, so
`find_delegated_parent` goes past it and the next group is its sibling.

In `SandboxView` trees are what tree validation leaves of them: no symbolic
links and no file with a link outside. The host keeps still. A policy names no
path below `/proc`, `/dev` or the sandbox's own names under `/run`, and runtime
mounts are not near those (`TreeAssumption`); these are the directories of
`runtime_mounts`, which lie in the root, each once, and stand for themselves or for
what a link among them leads to (`HostAssumption`). Of Landlock's rights only those
are kept that tell two rules apart. A file of the host can be changed when its
mount is read-write and a rule above it grants `WriteFile`.

`TargetPrep`: a validation is atomic, so a link exchanged while one walk is under
way is not seen; the code says that its checks are not race-free against that.
Links lead to canonical paths, and no entry of a directory is called `..`
(`SceneAssumption`, which also says that the processes are finitely many). The number of
names of a file counts to two. A
hundred attempts at a run's name are as many as `RunNames` has.
`TreeValidation`: the octal escapes of `mountinfo` are left out. `ResourceBudget`:
memory is in quarters of a GiB, 32 tried names are two, and a word is small
enough for its overflow to happen. A cgroup whose metadata cannot be read after
it was made is never removed by the code; `FailureLeavesNoGroup` excepts it.
`CargoFlow`: links lead to canonical paths, which may be missing, and a change by
others keeps it so (`LinksAreFinal`); values of options are valid UTF-8 (Cargo
refuses others), a new run's name is taken by nobody (`FlowAssumption` keeps the last
component `run` out of the trees; `TargetPrep` is about taken names), the root
directory is not in a tree, and `locate-project` is a function of the
directories it can see. An empty `--target-dir=` is passed on as it is, and
`CargoSeesWhatWasMeant` excepts it. `EnvFilter`: the two lists of names have one or two
of each kind, a value is the layer it comes from. Bubblewrap sets PWD after
everything else and Bash counts SHLVL, so `RemovalsWin` excepts the two names.
`Toolchain`: the answers of Rustup and rustc belong to the host, and a sysroot
holds no proxies.

### Properties

| Property | What would break it |
|---|---|
| `BornInOwnCgroup` | a second thread inside the window between entering and spawning |
| `SupervisorComesHome` | an early return that skips `Drop` after entering |
| `SupervisorSparesItself` | `kill_all` from a `Drop` that could not restore |
| `NoMaskedLimitEvent` | counters read before the group is empty |
| `DeliveredStatusIsGenuine` | a deadline kill the watchdog forgets |
| `NoTruncatedCapture` | flags consulted before the readers are joined |
| `ErrorLeavesNothing` | `Drop` without `kill_all` |
| `ImplementsPromise` | refinement of `CagedRun`: a result returned without a successful `finish`, a build started without its preflight's success, a second call inside the lock |
| `EveryCallReturns` | a watchdog that never fires, a wait nothing ends |
| `OrphansDie` | no `--die-with-parent` |
| `HiddenStaysHidden` | a bind after a mask, a writable path accepted around a hidden one |
| `WritableExactly` | writable mounts before read-only ones, a Landlock rule of the wrong kind |
| `PrivateShowsOnlyTheChosen` | a writable path accepted in or around a private one |
| `OnlyCachesOfCargoHome` | a workspace accepted around CARGO_HOME |
| `ReadOnlyStaysVisible` | a mask accepted in a workspace, private mounts after read-only ones |
| `AcceptedMeansStartable` | an outer private path mounted over an inner one |
| `CreatesOnlyInside` | containment not checked after links are resolved |
| `AloneSucceedsIffAcceptable` | symbolic links among the components not looked at |
| `IsolatedRunIsOwn` | a run directory that may exist already |
| `PreparedServesAll` | a process that gives up because another one has its run's name |
| `KeepsWhatExists` | a lockfile created over one that has appeared meanwhile |
| `MountsStayInside` | a source opened by its name, through whatever is there now |
| `AccessStaysInside` | links counted per root, or not at all |
| `RefusedForCause` | a link counted twice |
| `StartsWithinBudget` | three quarters of a memory so large that the product wraps |
| `InheritedAsReported` | a soft limit raised to the request |
| `FailureLeavesNoGroup` | an early return between `mkdir` and the guard |
| `HardLimitsNeverRise` | a later call that asks for more than an earlier one, by a privileged supervisor |
| `GroupsAreFresh` | an existing cgroup that is used |
| `CargoSeesWhatWasMeant` | a relative path that keeps its form when the directory changes, two parsers that disagree, or a target that is mounted where the argument does not lead |
| `BuildWritesOnlyItsOwn` | a fresh run that is not fresh |
| `SuccessIsEarned` | a killed Cargo counted as success, a doctor that forgets a failure |
| `CreatesInOwnWorkspace` | an answer of discovery that is not checked |
| `RemovalsWin` | a setting that outlives its removal |
| `SecretsStayOut` | a filter that is particular about upper case |
| `OnlyWhatWasGiven` | one list of names used for both questions |
| `RunsOnlyTrusted` | Rustup's answer run before it is checked |
| `ProxiesAreResolved` | a proxy taken into the sandbox |
| `ToolsAreMounted` | a program outside its sysroot |
| `NothingPrivateBesides` | PATH mounted as it is |

`CargoSeesWhatWasMeant` distinguishes what Cargo is told from where it leads. An
isolated target, and a relative one, are told to Cargo as they are mounted. An
absolute target of a build with `--reuse-target` is passed on as it was written:
the property says just that, and that the argument leads to what is mounted as
long as others have not changed the tree. It does not say that the argument is
the mounted path, which is wrong where links lead to it (see the list in section 4).
`CreatesInOwnWorkspace` judges what is created by the place to which the workspace
leads at that time; it is the workspace that was found unless others have
changed the tree.

`AcceptedMeansStartable` names what `from_request` does not look at and what
can therefore fail inside the sandbox: the policy takes away the shell, the
program or the working directory; it hides a directory that has a private one
in it, whose Landlock rule then has no path; it makes the root private, which
the launcher refuses; or its program is a writable file, which no rule lets the
sandbox execute. The host, too, may have no shell where the sandbox starts it
(`/bin/bash`), which `from_request` does not look for. Nothing is shown by
mistake in these cases: the call fails.

## 4. Runs

| Run | Instance | Shows |
|---|---|---|
| `one` | one caller, Bubblewrap and one more process, all twelve faults, under `FairSpec` | the supervisor spares itself, delivered results are genuine and complete, errors leave nothing; the refinement of `CagedRun`; every call returns and orphans die |
| `two` | two callers (symmetric), `restore` and `panic` | the two properties that need two threads |
| `policies` | 22,680 requests over a host with merged `/usr` | the six properties of the view |
| `target` | scene `Alone`: one process over trees with links, files and other users' directories; `Together`: two processes with the same run names and one change; `Isolated`: two isolated builds with the same or their own run names while others remove, replace and redirect the target or the directory of the runs; `Disturbed`: one process among programs that remove, create, link and name | success exactly where the tree allows it, everything made and mounted is inside, runs are separate, nothing is replaced |
| `trees` | 720 hosts and 6 requests over them | acceptance is exactly that no link leads out |
| `resources` | scene `OnAnyHost`: two calls of one supervisor, all parents' limits and requests, failures at each step; `AmongOthers`: two supervisors, equal or different process ids, stale cgroups, a crash | the five properties of budgets, limits and groups |
| `flow` | three directories, nine trees, eight more with a link on the way to the target, variables, missing tools, wrong answers of discovery, killed programs, one change by another program; and all command lines of up to three arguments that name a target or manifest, and some of five | the four properties of the flow |
| `environment` | environments over eight names, requests with up to two settings, removals and inheritance, one change by another thread | the three properties of the environment |
| `programs` | 17,000 hosts: system programs, whole and partial toolchains, PATHs of two directories, variables | the four properties of the toolchain |
| `caller_limits` | violated | see finding 1 |
| `doctor_ready` | violated | see finding 2 |
| `member_workspace` | violated | see finding 3 |

Bounds. Because of the lock two callers are enough to have one inside and one
that waits, has finished or has poisoned the lock; one caller already runs two
sandboxes in a row. One process besides Bubblewrap is enough for a descendant
that outlives it, and `BoxFork` lets it be forked again. Nothing else is
bounded: the state space is finite because every counter is reduced to whether
it has moved.

The host of `policies` has what the validation can tell apart: a home with a
workspace, target directory, lockfile, Cargo home, cache, credentials and a
protected directory in it, a merged `/usr`, and a directory in `/etc`. Each
path of a policy is drawn from sets that nest it in, around and beside the
others, so a path can be read-only inside private inside hidden, and the
reverse. Three levels are the deepest nesting a check relates (a writable path
in a read-only one in a private one), and `/home/ws/target` in `/home/ws` in
`/home` has them. The system stops when the program runs or the call fails, so
deadlock is not checked there.

Two processes are the fewest that can meet in `Together`, `Isolated` and `AmongOthers`, and
every hazard listed there is between two; the theorems are for any number. Two
changes in `Isolated` remove a directory and put another one, or a link, in its
place. Four
changes in `Disturbed` are enough to remove and replace both what is mounted and
what is above it. In `flow` one change is enough to make any
one earlier answer stale; the steps after it see only one of them. The tree has
a workspace, a member, their parent and another project, so a directory can be
inside, outside and above the workspace. The link of `AliasCases` is above
everything or beside the workspace, and leads to the workspace's parent, to the
workspace, into it, or beside it; the target is named by it, below it and through
the workspace below it, by a relative or an absolute argument or by the variable.
What other programs put is a file, a link to the other project or one to the
parent. Three arguments are an option, its
value and one that is taken for either; five are the same after a manifest. In
`environment` two settings are enough for one to come after the other. None of
these systems goes on for ever: each ends with its call or with the process, and
so deadlock is not checked.

Fairness. Threads are scheduled (`WF` of each caller's step); time passes, so a
watchdog that still waits expires; a process with a pending SIGKILL exits; the
kernel kills a namespace whose init is gone, and Bubblewrap when its parent
died; a reader drains its pipe; a pipe no one holds reports end of file. No
fairness is assumed of sandboxed programs: they may run for ever, fork for ever
and write for ever. The fault `late` says that processes outlive a timeout, not
that they are immortal. After a failed `try_wait` the code ignores a failing
`kill_all` and then waits for the child without a deadline, so with both faults a
call can hang (`process.rs:37`); `EveryCallReturns` names that one state
(`Wedged`) as the only exception.

The other modules have no liveness property and assume no fairness: they have
no loops that wait.

Findings (documentation and code disagree), each with its run:

1. `backend.rs:224` says mount validation runs at the caller's limits. That
   holds for the first `run_inner` of the process: the limits it lowers are the
   supervisor's own and are never raised, so the build's mounts are validated
   under the lowered ones.
2. `lib.rs:381`: doctor says ready where `target/.cargo-cage` is a file and every
   build fails.
3. `README.md:225` says that arguments keep their meaning. From a member of a
   workspace discovery cannot see the root, and takes the member for the
   workspace, also for `--workspace`.

The properties take the following, which the documents say otherwise, as the
code does it; no run is about them.

* `THREAT_MODEL.md:81` says the cgroup is removed after every run. When
  processes outlive the cleanup time, `run` returns an error and the cgroup
  stays (`abandoned` in `ErrorLeavesNothing`).
* `error.rs:52` says a `SetupFailure` happens before the child may run. Output
  beyond the capture limit is reported as one, after the child has run.
* `policy.rs:159` says hidden paths must not be visible to the child.
  `make_mask` masks the canonical path only; a runtime mount of another name
  (`/bin` for `/usr/bin`) still shows it. `HiddenStaysHidden` is the property
  without such names.
* `backend.rs:224` says that soft and hard limits are lowered; `resources.rs:742`
  sets both to the lesser of the request and the present hard limit, which can
  be above the present soft limit.
* `SECURITY.md:43` says a budget below 1 GiB is rejected; a limit further up than
  the delegated parent is not looked at.
* `THREAT_MODEL.md:57` says that only the fresh run and Cargo.lock are writable;
  the sandbox of discovery can write to the target directory that is there.
* `README.md:225`, again: `--target-dir --release`, which Cargo refuses, makes a
  directory `--release` and builds without it; `CargoSeesWhatWasMeant` speaks of
  the command lines that Cargo accepts.
* `README.md:226` says that `--target-dir` works as normal, subject to the path
  policy. With `--reuse-target` an absolute one that leads into the workspace over
  a link outside it is accepted by that policy, and its canonical path is mounted
  and set as CARGO_TARGET_DIR; but `workspace.rs:203` and `220` leave the
  argument, which Cargo prefers, as it was written. Cargo is told another path
  than the mounted one, and the link on the way to it has not been mounted.
  `CargoSeesWhatWasMeant` speaks of the argument as written and of where it leads.
* `lib.rs:848` says proxies are resolved before the sandbox starts; one that is a
  hard link is not recognised.

## 5. Proofs

The theorems of `SandboxRun` are for any set of callers, any set of process
names and any subset of the faults, under `CageAssumption` (the names of processes, cgroups
and lock states are distinct).

| Theorem | Property |
|---|---|
| `TypeCorrect` | `TypeOK` |
| `SandboxesBornInTheirCgroup` | `BornInOwnCgroup` |
| `SupervisorNeverKillsItself` | `SupervisorSparesItself` |
| `SupervisorReturns` | `SupervisorComesHome` |
| `InvariantHolds` | `IInv` |
| `DeliveryMeansGone` | `DeliveredMeansGone` |
| `PreflightComesFirst` | `PreflightFirst` |
| `NoLimitEventIsMasked` | `NoMaskedLimitEvent` |
| `StatusIsTheProgramsOwn` | `DeliveredStatusIsGenuine` |
| `CaptureIsComplete` | `NoTruncatedCapture` |
| `ErrorsLeaveNothing` | `ErrorLeavesNothing` |

The argument has two layers. `CoreInv` says who holds the lock (`LockInv`:
exactly the thread that is inside `run`), where children are born
(`BirthInv`, `UnbornInv`), where the supervisor can be (`PlaceInv`: in a
group only while its call is between entering and restoring, or stranded after
a `Drop` that gave up) and which places carry an error (`ErrorInv`). None of
the properties is inductive without them: that the supervisor spares itself,
for instance, needs to know at every write of `cgroup.kill` that it has left
the group, which rests on the lock and on `entered`. It is inductive alone and
proved with one step per action in `SandboxRunProofs`.

`IInv` adds what has become of the child: `ContInv` (which watchdog can have
called `kill_all`), `QuietInv` (once the tree was seen empty it stays empty and
the counters are final), `ExitInv`, `DoomInv` (a child that did not end on its
own accord has left a trace that keeps its status from being delivered) and
`PipeInv`. These speak of one call at a time. The second half of `SandboxRunProofs` first
proves that a step of one call, or of one sandbox, leaves the others' state
alone (`StepsTouchTheirOwn`, `BoxesTouchTheirOwn`, `SettledBoxStays`), then
each conjunct for the acting call and for its own sandbox, and joins them.

The theorems of `SandboxView` are for any host, any runtime mounts and any
requests, under `TreeAssumption`, `HostAssumption` and `RequestAssumption`.

| Theorem | Property |
|---|---|
| `ViewTypeCorrect` | `TypeOK` |
| `ViewInvariant` | `ViewInv` |
| `HiddenPathsStayHidden` | `HiddenStaysHidden` |
| `PrivatePathsStayPrivate` | `PrivateShowsOnlyTheChosen` |
| `ReadOnlyPathsStayVisible` | `ReadOnlyStaysVisible` |
| `CargoHomeShowsCachesOnly` | `OnlyCachesOfCargoHome` |
| `ExactlyWritable` | `WritableExactly` |
| `StartInvariant` | `StartInv` |
| `AcceptedIsStartable` | `AcceptedMeansStartable` |

What is true of the finished view is not inductive: a mask that is still to be
made masks nothing. `ViewInv` therefore says what each finished mount
guarantees from then on (`MaskInv`, `PrivateInv`, `ReadOnlyInv`, `WritableInv`),
which kinds are finished (`OrderInv`), and under which names a host path can
appear at all (`NameInv`, `ReadWriteInv`). Each conjunct is kept by a later mount
because of a validation check (`Valid`, part of `OrderInv`): a writable path,
for instance, is mounted after the masks, but does not overlap any. The proofs
go through `StepsAreMounts`, which reduces the eleven mount actions to what
they place where.

`AcceptedIsStartable` needs the opposite of what `ViewInv` says: not what is kept
out of the view, but that what the launcher looks for is still in it when all
mounts are made. `StartInv` says it of each finished mount: a private directory,
a cache and a kernel file system stay where they were put (`PlaceInv`), because
private paths are mounted from the outside to the inside (`PrivateOrderInv`), and
what a runtime mount shows stays where no path of the policy is above it
(`RuntimeInv`). The two exceptions the property names are what makes this
inductive (`PrivatePathsStay`): a mask above a private path, and a private root. The
proof added one more: a host without the shell that the sandbox starts to close
inherited descriptors, which TLC's instance always had.

`RunImplementsPromise` (`ImplementsPromise`): every step of `SandboxRun` is a
step of `CagedRun` or a stutter. A thread's step moves its own stage at most,
apart from `SpawnChild`, where a process comes to be; a step inside a sandbox
changes only whether anything of it is left (`StepsTouchTheirOwn` and
`BoxesTouchTheirOwn` say so for both). The three steps that need the invariant
are the beginning of a call, where `LockInv` says that nobody else is inside,
and the two that let the build start and deliver a result, where `QuietInv`
says that the group is empty and its counters have been read. `CagedRun` states no
fairness, so this is a refinement of safety; what must happen is run `one`'s.

The theorems of `ResourceBudget` are for any number of supervisors and of calls,
any host and any word width, under `BudgetAssumption`.

| Theorem | Property |
|---|---|
| `BudgetInvariant` | `Inv` |
| `RunsHaveFreshGroups` | `GroupsAreFresh` |
| `FailuresCleanUp` | `FailureLeavesNoGroup` |
| `RunsStayInBudget` | `StartsWithinBudget` |
| `LimitsAreReported` | `InheritedAsReported` |
| `HardLimitsOnlyFall` | `HardLimitsNeverRise` |

`Inv` is a conjunction over the supervisors: `HoldInv` (a group is held by the
one call that made it), `BudgetInv` (the budget is within all three sources and
is one of them), `GroupInv` (which controls the group has been told) and
`LimitInv` (which limits are lowered already). A supervisor's step keeps the
others' parts because it only touches its own group and limits (`OtherKeeps`);
what remains is one lemma per action.

The theorems of `CargoFlow` are for any trees, command lines, answers and
statuses of the backend and any number of changes by other programs, under
`FlowAssumption` (command lines are sequences of arguments; `NoPath` stands for
no path, so no argument is written like that; every directory above an entry is
in the tree; links lead to canonical paths).

| Theorem | Property |
|---|---|
| `FlowInvariant` | `FlowInv` |
| `SuccessMustBeEarned` | `SuccessIsEarned` |
| `BuildsWriteTheirOwn` | `BuildWritesOnlyItsOwn` |
| `CreatesOwn` | `CreatesInOwnWorkspace` |
| `MeaningInvariant` | `MeaningInv` |
| `CargoSeesTheSame` | `CargoSeesWhatWasMeant` |

The first three properties look back from the end of a command. `FlowInv` says for each
place on the way which programs have run and how they ended (`RunsInv`,
`RequestInv`), that the workspace is the caller's and, until others change the tree,
leads to itself (`WorkspaceInv`), that an isolated target was not there at the start
(`TargetInv`), and what the policy that comes next may write (`PolicyInv`). A changed
tree disturbs none of it: it speaks of the tree at the start, of paths, and of an
undisturbed tree, and what is there now is asked again by each step. `Walk`, which
follows a path, is a recursive function; `Walks` proves that it exists and gives
its steps, `PlainWalk` that a path without links and `..` leads to itself. An
accepted target is created below the workspace because what is created are the
missing directories on its canonical path, and the workspace is there
(`ValidTargetLeads`). cargo-cage itself makes directories and a file where nothing
was, so its own steps leave all links, and therefore where every path leads, as
they are (`CreatedLinks`, `SameLinks`).

`CargoSeesTheSame` is about command lines of any length. How a loop meets an
argument (`Roles`) is a recursive function; `RolesAre` proves that the function exists
and `RoleOf` is its step from one argument to the next. If Cargo accepts the
arguments, a loop that knows one option and Cargo's, which knows both, meet every
argument alike but for the other option's value, which is a plain word then
(`LoopsAgree`, by the first argument where they would differ), so they find the same
value (`SameValue`). The rewriting keeps the kind of every argument, and the kinds are
all a loop looks at (`SameKinds`, `PassedReads`). `MeaningInv` carries the result from
the request to the end of the run (`SameMeaning`). It also says that a build
without isolation has the target its caller's argument leads to while nobody else
has changed the tree: the validation returns that path, and the steps after it
keep the links (`TargetStillLeads`). With isolation the argument is always
replaced, by a run that was not there.

The theorems of `TargetPrep` are for any number of processes, any trees with
symbolic links anywhere, any run names and any number of changes between any two
steps, under `PrepAssumption`, `WorkspaceAssumption`, `SceneAssumption` and
`RunNameAssumption`.

| Theorem | Property |
|---|---|
| `PrepInvariant` | `PrepInv` |
| `MountsAreInside` | `MountsStayInside` |
| `NothingIsReplaced` | `KeepsWhatExists` |
| `CalmInvariant` | `CalmInv` |
| `CreatesInside` | `CreatesOnlyInside` |
| `IsolationInvariant` | `IsolationInv` |
| `IsolatedRunsAreOwn` | `IsolatedRunIsOwn` |
| `ServeInvariant` | `ServeInv` |
| `PreparedBuildsSucceed` | `PreparedServesAll` |
| `AloneInvariant` | `AloneInv` |
| `AloneIsExact` | `AloneSucceedsIffAcceptable` |

`PrepInv` says that the directory a process is creating, and its run, are inside
the workspace by name, from the validation on. `RealIsPlain` and `PlainFollows`
do the rest: what `openat2` opens without following a link is at that very path,
so what is inside by name is inside; the tree can have changed since the
validation. `NothingIsReplaced` has one case per creating step, each of which is
exclusive (`create_dir`, `create_new`).

What is made by name is where the name says only if no link is on the way.
`CalmInv` says how far each process has come without passing one (`WayInv`), and
that the way to the workspace stays (`WorkspaceInv`). A link that is there before the
validation is refused by it or met by `symlink_metadata`; one that is made
after it is not, so `CreatesOnlyInside` is about trees whose links were there
before. `WorkspaceAssumption` says that everything lies in a directory, and that nobody
removes the workspace itself or what is above it.

`IsolationInv` keeps apart what belongs to different processes. `NameInv`: a
process works below names that no run has, and from its claim on below names of
its own runs. `ApartInv`: so are the names of all it makes, links lead nowhere
among runs, and below a claimed run there is nothing of other programs', because
`create_dir` found nothing there and nothing is below what does not exist
(`ClosedInv`). With different keys that is enough, whatever others do elsewhere:
they can remove the directory of the runs and put another one in its place, and
what the process then makes or opens under its run's name is still its own. With
equal keys the names are shared, and `RunInv` and `TrunkInv` say that a run and what
is below it are one process's, which holds until somebody else changes the tree.
`PrepAssumption` says that a key and an attempt determine a name, since the clock, the
process id and the sequence number are in it, and `RunNameAssumption` that nobody
asks for such a name or links to it before it is there.

`PreparedBuildsSucceed` says of any number of isolated builds that none fails
because of the others. `Ready` is `Prepared` reduced to what is not cargo-cage's
own in the tree, and so no step of a process makes it true or false
(`ReadyBefore`). While all are ready and nobody else moves, `ServeInv` keeps each
process on a track (`OnTrack`): it finds its directories (`RequestAccepted`,
`Grounded`: the validation accepts them and gives the path they go by), makes a run
and the build directory in it and opens both, and in the whole tree it makes
nothing else (`MadeOnly`). The one place where processes meet is `claim`: a name
can be taken by another one that has the same key. Each of the others has made
one run at most, so the names of a key, of which there are as many as processes
and taken names together, do not run out (`OneIsFree` counts them).

`AloneIsExact` is about trees of every kind, also those in which a build has to
fail: a process that is alone gets to the sandbox exactly when its request, the
target and the lockfile are acceptable. `RequestFits` says which requests are in
terms of where the tree's links lead, while `validate_target_dir` looks at one
component after another and appends what is missing; `CanonicalFollows`,
`FitsAccepted` and `AcceptedIsPlain` show that the two agree, by following a path
name by name through links and on past the first name that is not there. After
that `AloneInv` has one case per stage. Each knows what the ones before have found
or made: the directories on its way (`Reached`), the target (`HasTarget`), that the
run names tried so far are taken by others (`AtRuns`), that the run is plain and
the lockfile a file of one name (`AtBuild`). A process gives up only where one of
these does not hold, and since what it has made itself are directories and a plain
lockfile (`MadePlain`), and no run before its claim (`NoRunYet`), its own steps do
not change what is acceptable.

The proof showed two things about the statement of `IsolatedRunIsOwn`. A link into the runs of another
process, or to one's own, spoils them as a change there does, so the property
excludes both; and what is mounted as the lockfile can have become
a directory meanwhile, so the property speaks of the run and not of every
directory that is mounted.

The theorems of `TreeValidation` are for any host, any trees, any mount points and any
order in which `read_dir` returns its entries, under `HostAssumption` (a host is
a file system: whatever exists lies in directories).

| Theorem | Property |
|---|---|
| `ValidationInvariant` | `ValidationInv` |
| `AccessAlwaysInside` | `AccessStaysInside` |
| `RefusalsHaveCause` | `RefusedForCause` |

`WalkInv` is the invariant of one walk: everything below its root has been
looked at and was in order, or lies below a directory or an entry that is still
to come; the files found so far are files of the tree. At the end of a walk
nothing is to come, the numbers of names of all files agree with what was found,
and the tree is `Clean`: everything in it is `Harmless`, the reference
definition. What the properties say follows from all trees being clean
(`CleanWrites`, `CleanReads`): a file that can be written through one name has no other
outside, also when a read-only tree and a writable one overlap.

The theorems of `EnvFilter` are for any environment, any request and any changes
by other threads, under `EnvAssumption` (an embedding program's settings are a
sequence of names and values).

| Theorem | Property |
|---|---|
| `FilterInvariant` | `FilterInv` |
| `RemovalsAlwaysWin` | `RemovalsWin` |
| `SecretsAlwaysStayOut` | `SecretsStayOut`, for secrets with recognisable names |
| `SourceInvariant` | `SourceInv` |
| `OnlyGivenValues` | `OnlyWhatWasGiven` |

`FilterInv` follows a name through the layers: the plan carries every removal and
sets nothing removed or sensitive (`PlanInv`), and each environment after it has
nothing removed, and of the secrets only inherited ones (`EnvInv`).
`SecretsAlwaysStayOut` has the hypothesis `Recognised`: `is_sensitive_environment_name`
knows the secret's name, and it is none of the three names that the programs on
the way set. That the names in use are recognised is what run `environment` checks.

`SourceInv` follows the values: what `cargo_environment` puts into a request
(`RequestInv`), that the plan is the request without what is removed or sensitive
(`MergedInv`), and that from the spawn on each name has the value of the layer that sets
it last (`ValueInv`), apart from the layers that are still to come.

The theorems of `Toolchain` are for any host, under `ToolchainAssumption`.

| Theorem | Property |
|---|---|
| `ToolchainInvariant` | `ToolchainInv` |
| `OnlyTrustedRuns` | `RunsOnlyTrusted` |
| `NoProxyIsLeft` | `ProxiesAreResolved` |
| `EveryToolIsMounted` | `ToolsAreMounted` |
| `NothingElsePrivate` | `NothingPrivateBesides` |

`ToolchainInv` says for each place what has been found so far is worth: a program is
`Genuine` or still a proxy that is going to be resolved, the compiler that
`query_sysroot` runs is `Trusted`, and each directory of PATH is a program's, the
system's, or one of the caller's that is the system's and not private (`Listed`).
`ToolchainAssumption` says of the host that files go by their canonical names and lie in
directories, that Rustup's own program is called `rustup` and a sysroot's
programs do not lead to it, that no runtime directory leads to the root, and that
following the links of a runtime or PATH directory comes to an end.

Each inductive invariant was checked by TLC on its run's instance before it was
proved.

Only model-checked is liveness, since fairness and `ENABLED` are outside the
prover.

## 6. What is not modelled

Of the sandbox itself the network and namespace options, the script of the
namespace preflight, the probe of the kernel's Landlock version, the parsing of
the launcher's arguments (which `landlock_launcher_args` writes), the search
for Bubblewrap and the probe of what the kernel supports (`check_support`). The
test kit with its fixtures, the red-team harness and the release checks hold no
logic of the product and stay out. The second descriptor
table, signals to the supervisor and the contents of pipes are not part of any
property.
