# TLA+ models of agola's Docker pod driver and configstore user actions

This directory holds TLA+ models of two source files:

- `src/internal/services/executor/driver/docker.go`: the executor's Docker pod driver, plus the `util` error helpers that share the file;
- `src/internal/services/configstore/action/user.go`: the configstore's user actions.

The models are checked with TLC. `PROJECT.json` lists:

- the components;
- the runs and their expected outcome;
- the mutants that show each checked property can fail;
- the map from every TLA+ definition to the source lines it models;
- the findings and the hazards.

## 1. Inventory of the system

### Docker pod driver (`docker.go`)

The driver talks to a single Docker daemon. It has no state of its own apart from its configuration: `executorID`, `initImage`, `toolboxPath` and `arch`. All state lives in the daemon, as containers and volumes that carry `agola.io/...` labels.

| Operation | Code | What it does |
|---|---|---|
| `NewPod` | 182-290 | Sequence of RPCs:<br>• `createToolboxVolume` (114-175): fetch the init image, create a labelled volume, create an *unlabelled* `cat` helper container that binds the volume, start it, copy `agola-toolbox` in, then remove the helper, ignoring the error.<br>• `createProjectVolume` (99-112).<br>• For each configured container, `createContainer` (336-411), then `ContainerStart`. `createContainer` fetches the image with alwaysFetch, sets the labels and `containerIndex`, makes sidecars join the network namespace of container 0, mounts the two volumes into named containers, and rejects non-tmpfs volumes.<br>• Finally `ContainerList` (running only) by pod/task labels, the index checks, a sort, and `containersMap[""]`.<br>Any error returns at once. Nothing created so far is removed. |
| `GetPods(all)` | 422-550 | One `ContainerList(All: all)` and one `VolumeList`. Groups this executor's containers by podID and attaches the labelled volumes. A container with a missing or bad `containerIndex` deletes its pod from the map, and the next line dereferences that pod. |
| `DockerPod.Stop` | 586-598 | `ContainerStop` of each container, with errors collected. |
| `DockerPod.Remove` | 600-623 | `ContainerRemove(force)` of each container, then `VolumeRemove(force)` of the toolbox and project volumes when their names are set. Errors are collected. |
| `DockerPod.Exec`, `Wait`, `Stdin` | 649-751 | `ExecCreate` and attach. A copy goroutine sends its result on the unbuffered `endCh`. `Wait` selects on ctx, `endCh` and a 500 ms inspect poll. |
| Getters, `makeEnvSlice`, `MountSlice` | | Pure functions. |
| `util` errors | 769-1024 | Error aggregation, wrapping and classification. |

The parts interact in three ways:

- Pods of one executor are built concurrently, one goroutine per task, against the same daemon.
- Upstream, the executor reconciles. It calls `GetPods` and `Remove`s the pods whose `TaskID()` is not a running task (spec §4.10). This is what is meant to clean up after a failed `NewPod`. `GetPods` copies a pod's labels, and so its `TaskID()`, from its container with index 0 only (496-509).
- The executor process can die and be restarted. The driver keeps no pod registry, so after a restart the pods it left are found again only through labels (spec §1, §7: discovery across executor restarts).
- Other executors share the daemon. They are told apart only by the `executorID` label.

### User actions (`user.go`)

These are transactional handlers over the configstore DB:

- create, update and delete user;
- linked accounts and tokens;
- organisation queries.

Each handler is a read-check-write inside `h.d.Do(tx)`.

### Hard behaviours

- Any RPC can fail, with no rollback.
- The executor process can restart between any two RPCs.
- Containers can exit on their own.
- Stray containers can appear, from older executors or operators.
- Concurrent `NewPod`s run alongside the reconciler.
- Remove has ordering constraints: a volume that a container still mounts cannot be removed.
- Exec/Wait involves a goroutine and channel handshake with context cancellation.
- In user.go, check-then-insert runs under transaction isolation.

## 2. Modules

### `DockerDriver.tla`

This module models `NewPod`, `GetPods`, `Stop` and `Remove`, the task that owns each pod, and the reconciler.

**State:**

| Variable | Models |
|---|---|
| `ctrs`, `vols` | The daemon's objects by id. A container records its state, pod, executor, whether it has labels, `containerIndex`, whether it is named, which netns it joins, and its mounts. |
| `np[p]` | The program counter and locals of pod p's `NewPod` call (`cfg`, `i` = cindex+1, `tb`, `pv`, `helper`, `main` = mainContainerID, `cur`), and afterwards the task's phase. |
| `pods[p]` | The `DockerPod` returned. |
| `lc[a]` | The Stop/Remove loop of actor a, with loop index and accumulated error. |
| `rec` | The reconciler's state. |
| `faults` | The number of faults so far: failed RPCs, container exits, tainted containers and restarts. |
| `archKnown` | Whether `toolboxExecPath` succeeds. |

**Actions.** Each daemon RPC is one action, named after the code step:

- `FetchInitImage`
- `CreateToolboxVolume`
- `CreateToolboxHelper`
- `StartToolboxHelper`
- `CopyToolbox`
- `RemoveToolboxHelper`
- `CreateProjectVolume`
- `FetchTaskImage`
- `CreateContainer`
- `StartContainer`
- `ListPodContainers`

Every action except `RemoveToolboxHelper` has an `Abort` disjunct, in which the RPC fails and `NewPod` returns. `RemoveToolboxHelper` ignores its error, as the code does.

`StopContainer`, `RemoveContainer` and `RemoveVolume` are single iterations of the Stop and Remove loops. `GetPods(all)` is an operator that computes the returned pods from the daemon state. `GetPodsPanics(all)` is the nil-dereference condition. In the code that panic ends the whole executor process. In the model it stops only the reconciler (`rec = "panicked"`), and the other actors go on. For the safety properties of `core` that only adds behaviours. The `tainted` run stops at the panic, and `live` has no tainted container.

**Environment:**

- `TaskEnd`, `TaskStopped` and `TaskRemoved` model the caller of the Pod. The caller is not under `src/`, so these are taken from spec §4.10.
- `Reconcile` and `ReconcilerRemoved` model the upstream reconciler, also from spec §4.10.
- `ContainerExits` and `TaintedAppears` model daemon events.
- `ExecutorRestart` models the executor process dying and starting again, in the style of a Raft server restart. The daemon keeps its containers and volumes. Everything in the process is lost:
  - every `NewPod`, task or loop in flight ends, and its task is no longer live (`np[p].pc` becomes `failed`);
  - every Stop/Remove loop, including the reconciler's, is abandoned (`lc` is `Idle`, `rec` is `idle`).

  A restart counts against the fault budget. It is enabled by the constant `ExecutorMayRestart`.
- A listed pod's `task` field is what `TaskID()` returns: its id when a listed container has index 0, otherwise `None` (""). `NewPod`'s own `DockerPod` never sets its labels (235-243), so its `task` is `None` too. The reconciler decides liveness by this field, so a pod without a listed container 0 belongs to no running task.

**Daemon semantics assumed:**

- A volume mounted by an existing container cannot be removed, even with force.
- A forced `VolumeRemove` of a missing volume succeeds.
- Stopping a container that is not running succeeds.
- Stop or remove of a missing container is an error.
- A sidecar cannot start unless its netns container is running.

### `PodLifecycle.tla`: the abstract pod

This is what the driver promises about a pod of this executor (spec §3, §4.8-§4.10), with no daemon RPC in it. Its variables are:
- `phase`: absent → building → running → (stopping →) removing → removed, or failed;
- `owned`: the daemon objects each pod holds;
- `members`: the task containers of the Pod its caller received.

Its actions are:
- `Acquire`: add an object no pod holds, only while building;
- `Build`: hand out a non-empty set of the pod's task containers;
- `Dispose`: give up an object, only in the pod's own Remove, after the pod has ended (reconciliation), or the toolbox helper during its build;
- `Abandon`: the executor dies, and every pod that has started and not ended becomes failed, keeping its objects. `ExecutorRestart` refines it.

Weak fairness of each pod's phase steps says every pod ends.

`DockerDriver` instantiates it as `LC` with a refinement mapping:
- `PhaseOf` reads the phase off `np[p].pc`;
- `ObjectsOf` is the existing containers and present volumes labelled with the pod's id. A container without labels is the `helper`.
- `MembersOf` is the containers of the returned Pod.

`PodLifecycleRefined == LC!Spec` is checked as a PROPERTY in the `live` run. The `core` run does not check it: evaluating the mapping on each of its 2.2M transitions takes TLC over six minutes.

### `MCDockerDriver.tla`

This module instantiates the model for TLC.

- Pod model values `p1`, `p2`, and the foreign pods `f1`, `f2`.
- Container configs:
  - `Plain`: unnamed sidecar;
  - `Named`;
  - `BadVolume`: a non-tmpfs volume.
- `p1` runs the 3-container config `<<Plain, Plain, Named>>`. Container 0 is always named "main".
- `p2` tries the empty config, the bad-volume config and a single named container.
- One container of another executor is present at start. It must never be touched.

### `ExecSession.tla`

This module models `DockerPod.Exec`, `Stdin().Close` and `DockerContainerExec.Wait` (docker.go 625-751). It runs two concurrent sessions on one pod.

Each session has three actors.

**Caller.** Each action is one step of `Exec` or `Wait`:

- `ExecLookup`: the `containersMap` lookup, which returns NotFound on a miss.
- `ExecCreate` and `ExecAttach`: the two RPCs. They fail on an RPC error or a done ctx. A successful attach starts the goroutine.
- `CloseStdin`: `CloseWrite`, the write half only.
- `CallWait`.
- `WaitCancelled` and `WaitReceive`: the two arms of Wait's `select`. The receive is a rendezvous with the goroutine's send on the unbuffered `endCh`.
- `Inspect`: the poll loop. It returns an error with -1, polls again while the command runs, or closes hresp and returns the code.

**Copy goroutine.** `CopyEOF` or `CopyReadError`, then it waits in "sending" until a `WaitReceive`.

**Command.** `ProcExit`. A command that reads stdin exits only after the write half has been closed.

`Cancel(s)` closes the caller's ctx at any time.

**Fairness.** Weak fairness applies to each caller, each goroutine and each command. The command is assumed to terminate once its stdin is at EOF. Cancellation gets no fairness.

### `MCExecSession.tla`

- Sessions `s1`, `s2`. There is no symmetry, because the run also checks liveness.
- Targets `""`, `"main"` and the unknown `"db"`.
- Exit codes `{0, 1}`.
- The `containersMap` key sets of a Pod from NewPod (`{"", "main"}`) and of a Pod from GetPods (`{"main"}`).

### `UserStore.tla`

It models the writing handlers of `user.go`. Each is one `h.d.Do(tx)` transaction and is split into two operators:

- `XxxAllowed(r, q)` is the conjunction of the handler's checks and early returns, evaluated on the state `r` the transaction reads;
- `XxxEffect(q)` is the handler's writes, applied to the current `db`.

`Commit(r, q)` writes the effect when every check passes and otherwise leaves `db` as it was (rollback). `last` records the user the transaction acted for.

The handlers and what they read:

| Handler | Checks (lines) | Writes |
|---|---|---|
| `CreateUser` | name non-empty and `ValidateName` (80-85); `GetUserByName` (92-98); remote source and linked remote user (100-116) | user, root project group, optional linked account |
| `DeleteUser` | user exists (169-175) | memberships, invitations, linked accounts, tokens, user (177-196) |
| `UpdateUser` | user exists; a non-empty name free, its own included (218-234); no `ValidateName` | name |
| `CreateUserLA` | user; remote source; remote user not linked (303-325) | linked account |
| `DeleteUserLA` / `UpdateUserLA` | user; account; `user.ID != la.UserID` (379, 432); `UpdateUserLA` also the account's remote source | delete / new remote user id, with no uniqueness check |
| `CreateUserToken` / `DeleteUserToken` | user; token absent / present | insert / delete |

The tables are:

- `user`: per id, `none`, `live` or `deleted`, and a name;
- `pg`: the users with a root project group;
- `la`: linked accounts with owner, remote source and remote user id;
- `tok`, `mem`, `inv`: tokens, org memberships and invitations as (user, x) pairs.

Ids are never reused: they are uuids.

The isolation level of `db.Do` is chosen in the db layer, which is not in this repository, so it is a constant:

- `Begin(c)` takes client `c`'s snapshot and request, and `End(c)` checks against the snapshot and writes to the current `db`;
- `serializable`: `Serial` lets a transaction (or an org step) begin only when none is open, so transactions run one at a time;
- `snapshot`: other clients commit between a client's `Begin` and `End`. Read committed, Postgres' default, permits the same interleavings for these handlers: every check is a read before the write.

`AddMember` stands for the org handlers that add a live user to an org or invite it.

`Page(list, limit)` is the pagination of `GetUsers`/`GetUserOrgs`: fetch `limit+1` rows, report `hasMore`, truncate. `Walk` is a client that pages through a list.

### `MCUserStore.tla`

- The serializable runs use:
  - two user ids and two linked account ids;
  - names `"a"` and `"b"`, which pass validation, and `"x"`, which does not;
  - an existing remote source `gh` and a missing one, `gone`;
  - two remote user ids, one token name and one org.
- The serializable runs use one client.
- The snapshot runs use two clients (with symmetry), one name, one remote user, one linked account id and no orgs. Each client's snapshot is a whole database, so that is what fits.

## 3. Runs

| Run | cfg | Result | What it shows |
|---|---|---|---|
| `core` | `DockerDriver.cfg` | pass (~2.1M states, ~2 min) | Two pods are built concurrently with one fault. The fault can be a failed RPC, an exit, a tainted container or an executor restart. The reconciler runs with `all = TRUE`. It checks:<br>• `TypeOK`;<br>• `SidecarsWiredToOwnPod`: each container of a returned Pod is that pod's, sidecars join that pod's container 0, and mounts are exactly that pod's volumes;<br>• `ToolboxSeededBeforeUse`: no named task container runs with an unseeded toolbox;<br>• `ReconcilerNeverTouchesPodsInUse`, an action property: a reconciler step only changes objects of this executor whose pod is not building, running or stopping. |
| `live` | `DockerDriverLive.cfg` | pass (~61k states, ~1.5 min) | Two one-container pods, one fault: a failed RPC, an exit or an executor restart. It checks:<br>• `OwnContainersEventuallyRemoved`: every labelled container of ours, including those of failed NewPods and those a restart left behind, is eventually removed;<br>• `PodLifecycleRefined`: the driver implements `PodLifecycle`. That covers the reconciler's Remove of an ended pod racing the other pod's build and the task's Stop/Remove, and it says every pod ends. |
| `exit_during_build` | `DockerDriverExitDuringBuild.cfg` | violation | `NewPodReturnsAllContainers` (spec §8). A container exits between its start and the `ContainerList`. `NewPod` then returns a Pod without it, because the count check at line 280 compares the list with itself. |
| `tainted` | `DockerDriverTainted.cfg` | violation | `GetPodsNeverPanics` (spec §4.6). A labelled container with no `containerIndex` crashes GetPods at line 486. |
| `orphans` | `DockerDriverOrphans.cfg` | violation | `AllPodObjectsEventuallyRemoved` (spec §4.10). The helper is unlabelled and keeps the toolbox volume mounted. If toolbox creation fails after the helper exists, neither is ever reclaimed. |

| `exec` | `ExecSession.cfg` | pass (~28k states) | Two sessions, with cancellation and one failed RPC or read. It checks:<br>• `TypeOK`;<br>• `WaitCodeIsCommandExit`: an ok Wait reports the exited command's code, and only after the goroutine has handed over its result;<br>• `ConnectionOutlivesCopy`: hresp is never fully closed while the goroutine reads it;<br>• `WaitEventuallyReturns`, which relies on the half-close of stdin. |
| `exec_cancel` | `ExecSessionCancel.cfg` | violation | `SessionEventuallyReleased` (spec §8). A cancelled Wait leaves hresp open, and the goroutine blocks on `endCh` for ever (lines 726, 707). |
| `exec_copy_error` | `ExecSessionCopyError.cfg` | violation | `CopyErrorSurfaced` (spec §7). Wait discards the copy error (line 728), so truncated output is reported as success. |

| `users` | `UserStore.cfg` | pass (~2.1M states, ~2 min) | Serializable transactions: one client, so transactions run one at a time. It checks:<br>• `TypeOK`;<br>• `UserNamesUnique`;<br>• `NoOrphanedUserObjects`: no linked account, token, membership or invitation of a deleted user;<br>• `PaginationMatchesReference`: a page matches its reference, and walking the pages of the live users returns each of them once;<br>• `OwnerOnlyChangesOwnObjects`, an action property: an existing linked account or token changes only in a transaction acting for its owner. |
| `users_snapshot_orphans` | `UserStoreSnapshotOrphans.cfg` | violation | `NoOrphanedUserObjects`, with two clients under snapshot isolation. `CreateUserLA` read the user before a concurrent `DeleteUser` committed, and inserts an account of a deleted user (line 303). The two transactions write disjoint rows, so snapshot isolation commits both. |
| `users_snapshot_names` | `UserStoreSnapshotNames.cfg` | violation | `UserNamesUnique`, with two clients under snapshot isolation. Two `CreateUser` transactions for one name (or a `CreateUser` and an `UpdateUser` rename) both run `GetUserByName` (line 92) on their snapshots, find the name free, and both commit: a 4-step trace. Nothing in this repository adds a unique constraint, so the outcome depends on the db layer's isolation level or schema. |
| `users_la_key` | `UserStoreLAKey.cfg` | violation | `LinkedAccountKeyUnique`. `UpdateUserLA` (line 444) links a remote user that another account already links, which `CreateUser` and `CreateUserLA` refuse. |

### Bounds and why they are enough

- `MaxFaults = 1`. One failure is enough to reach every early return, each container exit and the tainted container. Every `Abort` disjunct fires in `core`. Two faults only multiply the interleavings: the properties are about a single missing step.
- `ExecutorMayRestart` is TRUE in `core` and `live`. The restart shares the one-fault budget, so it can happen between any two steps of either pod, the tasks or the reconciler. A second restart would only repeat what the first leaves behind. The violation runs switch it off to keep their traces short.
- `MaxCtrs` is 10 in `core`. That fits the foreign container, two helpers, four task containers and a tainted one. `MaxVols = 4` is two volumes per pod.
- ExecSession uses two sessions and at most one fault. That is enough for a read error to end the copy while the command still runs, and for one session to be cancelled while the other completes.
- UserStore uses two users and two linked accounts. That is enough for two users to collide on a name or a remote user, and for one user to act on another's account. The snapshot runs need only two clients and one name: each race involves two transactions.
- `MaxPage = 5` bounds the lists on which `Page` is compared with its reference, for limits 0 to 3. That covers the empty list, a list shorter than, equal to and longer than the limit, and several pages.
- The 3-container config of `p1` has a named container at index 2. This exercises sidecar netns wiring and mounts on both sides of the name test.

### A race the core run shows

`ReconcilerNeverTouchesPodsInUse` is weaker than the first version of this property, which said the reconciler only touches pods whose task has ended. TLC refutes that version in 23 steps:
1. `p1` builds its three containers and its task starts `Remove`.
2. The first `ContainerRemove` deletes container 0.
3. `GetPods(all)` now lists `p1`'s two sidecars with no index-0 container. The pod has no labels, so `TaskID()` is "" (lines 501-509 and 582-584).
4. The reconciler removes `p1` concurrently with its task.

The two Removes then race on the same containers and volumes. One of them reports "no such container" errors for objects the other removed. No pod that is still in use is affected, and that is what the run checks.

### Fairness

Each task and the reconciler are weakly fair (`WF_vars(TaskStep(p))`, `WF_vars(ReconcilerStep)`):

- every RPC returns, with a result or an error;
- the executor keeps calling its reconciliation loop.

Environment events (exits, tainted containers, restarts) get no fairness. A restart abandons in-flight work, and the weak fairness of the reconciler is what brings its leftovers back.

The UserStore runs check safety only, so they assume no fairness.

## 4. Plan and what is not modelled yet

`ExecSession`, `UserStore`, the `PodLifecycle` refinement and executor restarts are done. What is left, in order:

1. The executor cleaner's use of `GetExecutors`: removing pods of executors that are gone. This needs a second executor in `DockerDriver`.

Not modelled, with reasons:

- The `fetchImage` pull decision (`alwaysFetch || tag == "latest" || !exists`, line 322) is one guard over image presence and tags. No property distinguishes those, so a model of it would only restate the guard. Only the success or failure of its RPCs is modelled. The pull stream, which is never closed (line 329), is recorded as a hazard.
- Registry auth encoding, env slices, mount sorting and error text: data formatting that no property distinguishes.
- `util.APIError` classification: pure functions.
- Log output streams.
- In `ExecSession`:
  - a second `Wait` on the same session;
  - the toolbox command path, with its env and workdir arguments (lines 656-661). Only the Pod that NewPod returns is modelled, whose `containersMap` has the `""` alias and whose `initVolumeDir` is set. A Pod rebuilt by `GetPods` has neither (lines 458, 493), so Exec on it fails with NotFound for Container `""` and runs a bare `agola-toolbox` for a named one. No caller in this repository execs in such a Pod. A run would only restate the missing assignments, so these are recorded as hazards without a property.
- In `UserStore`:
  - the read-only handlers (`GetUserLinkedAccounts`, `GetUserTokens`, `GetUserOrg`, `GetUserOrgInvitations`) change no state;
  - secrets, token values and OAuth fields are opaque data;
  - whether `db.DeleteUser` also removes the user's root project group is decided in the db layer, which is not in the repository, so the model keeps the group;
  - a rename to the user's own name fails, because `GetUserByName` finds the user itself. That is an error reply and changes no state;
  - `UpdateUser` (line 226) stores a name without `util.ValidateName`, which `CreateUser` requires (line 83). A single call shows it, so it needs no model checking. The model lets renames reach the invalid name `"x"`.
