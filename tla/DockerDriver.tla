---------------------------- MODULE DockerDriver ----------------------------
(***************************************************************************)
(* The executor's Docker pod driver (src/internal/services/executor/       *)
(* driver/docker.go) running against one Docker daemon.                    *)
(*                                                                         *)
(* The daemon's containers and volumes are the shared state.  Every pod    *)
(* this executor builds is one concurrent NewPod call, a sequence of       *)
(* daemon RPCs each of which is one atomic step and each of which may fail *)
(* (at most MaxFaults failures in a behaviour).  After a successful NewPod *)
(* the pod's owner (the task) calls Stop and/or Remove on the returned     *)
(* Pod; an upstream reconciler repeatedly calls GetPods(all) and Removes   *)
(* every listed pod whose task is no longer live, which is the             *)
(* "GetPods/Remove reconciliation" failed NewPods rely on.                 *)
(*                                                                         *)
(* Data is abstracted: a container config is reduced to whether it is      *)
(* named and whether all its volumes are tmpfs; images, env, labels other  *)
(* than the ones the driver reads, and output streams are left out.        *)
(***************************************************************************)
EXTENDS Integers, Sequences, SequencesExt, FiniteSets

CONSTANTS
  PodIDs,            \* pods this executor builds, one NewPod call each
  ForeignPods,       \* pod ids of objects already in the daemon at start
  Ours, Other,       \* this driver's executorID, and another executor's
  None,              \* "no pod"/"no executor" label value
  NoIdx,             \* a containerIndex label that is missing or not an int
  Rec,               \* the upstream reconciler (an actor)
  Configs,           \* PodConfig.Containers values the caller of each pod may pass
  InitialContainers, \* containers already in the daemon at start
  MaxCtrs, MaxVols,  \* bounds on container and volume ids
  MaxFaults,         \* bound on failed daemon RPCs and container exits
  ArchChoices,       \* whether toolboxExecPath knows d.arch (runtime.GOARCH)
  ContainersMayExit, \* a started container's entrypoint may terminate
  TaintedMayAppear,  \* a container of ours without containerIndex may appear
  ReconcileAll,      \* the `all` argument the reconciler passes to GetPods
  ExecutorMayRestart \* the executor process may die and be started again

CtrIds == 1..MaxCtrs
VolIds == 1..MaxVols
Actors == PodIDs \cup {Rec}
AllPods == PodIDs \cup ForeignPods

ASSUME /\ PodIDs \cap ForeignPods = {}
       /\ Rec \notin PodIDs
       /\ Len(InitialContainers) <= MaxCtrs
       /\ MaxFaults \in Nat
       /\ ArchChoices \subseteq BOOLEAN /\ ArchChoices # {}
       /\ ContainersMayExit \in BOOLEAN /\ TaintedMayAppear \in BOOLEAN
       /\ ReconcileAll \in BOOLEAN
       /\ ExecutorMayRestart \in BOOLEAN

VARIABLES
  ctrs,    \* the daemon's containers, by id
  vols,    \* the daemon's volumes, by id
  np,      \* local state of each pod's NewPod call, then of its task
  pods,    \* the Pod value NewPod returned to each task
  lc,      \* the Stop/Remove loop (DockerPod.Stop/Remove) each actor runs
  rec,     \* the reconciler's control state
  faults,  \* daemon RPC failures so far
  archKnown \* toolboxExecPath(d.toolboxPath, d.arch) succeeds; fixed

vars == <<ctrs, vols, np, pods, lc, rec, faults, archKnown>>

(***************************************************************************)
(* Daemon objects.  `pod` is the pod a container was created for (for the *)
(* toolbox helper, which carries no labels, it is kept only for the        *)
(* properties); `lab` says whether it carries the agola label set, `idx`   *)
(* is its containerIndex label, `net` the container whose network          *)
(* namespace it joins (0 = its own), `mounts` the volumes it mounts.       *)
(***************************************************************************)
Existing == {"created", "running", "exited"}
CtrStates == Existing \cup {"none", "gone"}
Ctr == [state: CtrStates, pod: AllPods \cup {None}, exec: {Ours, Other, None},
        lab: BOOLEAN, idx: Nat \cup {NoIdx}, named: BOOLEAN,
        net: CtrIds \cup {0}, mounts: SUBSET VolIds]
NoCtr == [state |-> "none", pod |-> None, exec |-> None, lab |-> FALSE,
          idx |-> NoIdx, named |-> FALSE, net |-> 0, mounts |-> {}]
Vol == [state: {"none", "present", "gone"}, pod: AllPods \cup {None},
        exec: {Ours, Other, None}, vname: {"toolbox", "project", "none"},
        seeded: BOOLEAN]
NoVol == [state |-> "none", pod |-> None, exec |-> None, vname |-> "none",
          seeded |-> FALSE]

\* A Pod value (DockerPod): its containers in index order, the
\* containersMap[""] entry, its two volume names (0 = "") and what TaskID()
\* returns, the taskID of its labels (None = ""; a task's id is its pod's).
Handle == [id: AllPods, ctrs: Seq(CtrIds), main: CtrIds \cup {0},
           tb: VolIds \cup {0}, pv: VolIds \cup {0}, task: AllPods \cup {None}]
NoHandle == [id |-> None, ctrs |-> <<>>, main |-> 0, tb |-> 0, pv |-> 0,
             task |-> None]

CtrConfig == [named: BOOLEAN, tmpfs: BOOLEAN]

NPStates == {"idle", "fetchInit", "tbVol", "helperCreate", "helperStart",
             "copy", "helperRemove", "pvCreate", "fetch", "create", "start",
             "list", "failed", "built", "stopping", "removing", "done"}

\* The daemon allocates fresh ids; ids are never reused.
FreeCtr == CHOOSE c \in CtrIds : ctrs[c].state = "none"
FreeVol == CHOOSE v \in VolIds : vols[v].state = "none"
CanAllocCtr == \E c \in CtrIds : ctrs[c].state = "none"
CanAllocVol == \E v \in VolIds : vols[v].state = "none"

\* A daemon RPC that returns an error.
Fault == faults < MaxFaults /\ faults' = faults + 1

\* A volume referenced by an existing container cannot be removed, even
\* with force.
InUse(v) == \E c \in CtrIds : ctrs[c].state \in Existing /\ v \in ctrs[c].mounts

\* Containers in index order (ContainersByIndexSortFunc).
SortByIndex(S) == SetToSortSeq(S, LAMBDA a, b : ctrs[a].idx < ctrs[b].idx)

\* A task is live from before NewPod until its Remove has returned; the
\* reconciler leaves the pods of live tasks alone.
Live(id) == id \in PodIDs /\ np[id].pc \notin {"failed", "done"}

Init ==
  /\ ctrs = [c \in CtrIds |-> IF c <= Len(InitialContainers)
                                THEN InitialContainers[c] ELSE NoCtr]
  /\ vols = [v \in VolIds |-> NoVol]
  /\ np = [p \in PodIDs |-> [pc |-> "idle", cfg |-> <<>>, i |-> 1, tb |-> 0,
                             pv |-> 0, helper |-> 0, main |-> 0, cur |-> 0]]
  /\ pods = [p \in PodIDs |-> NoHandle]
  /\ lc = [a \in Actors |-> [kind |-> "none", h |-> NoHandle, j |-> 1,
                             err |-> FALSE]]
  /\ rec = "idle"
  /\ faults = 0
  /\ archKnown \in ArchChoices

(***************************************************************************)
(* NewPod (docker.go 182-290) and the helpers it calls, one daemon RPC per *)
(* step.  An error return leaves every object created so far in place.     *)
(***************************************************************************)
SetNP(p, r) == np' = [np EXCEPT ![p] = r]

\* An RPC of this step fails and NewPod returns the error.
Abort(p) ==
  /\ Fault
  /\ SetNP(p, [np[p] EXCEPT !.pc = "failed"])
  /\ UNCHANGED <<archKnown, ctrs, vols, pods, lc, rec>>

\* len(podConfig.Containers) == 0 is rejected before any RPC.
NewPodStart(p) ==
  /\ np[p].pc = "idle"
  /\ \E cfg \in Configs[p] :
       SetNP(p, [np[p] EXCEPT !.cfg = cfg,
                              !.pc = IF cfg = <<>> THEN "failed" ELSE "fetchInit"])
  /\ UNCHANGED <<archKnown, ctrs, vols, pods, lc, rec, faults>>

\* fetchImage(initImage, alwaysFetch = FALSE): ImageList, then ImagePull
\* when the image is missing or tagged latest; either call may fail.
FetchInitImage(p) ==
  /\ np[p].pc = "fetchInit"
  /\ \/ /\ SetNP(p, [np[p] EXCEPT !.pc = "tbVol"])
        /\ UNCHANGED <<archKnown, ctrs, vols, pods, lc, rec, faults>>
     \/ Abort(p)

\* createToolboxVolume: VolumeCreate with the pod's labels.
CreateToolboxVolume(p) ==
  /\ np[p].pc = "tbVol"
  /\ \/ /\ CanAllocVol
        /\ vols' = [vols EXCEPT ![FreeVol] = [state |-> "present", pod |-> p,
                      exec |-> Ours, vname |-> "toolbox", seeded |-> FALSE]]
        /\ SetNP(p, [np[p] EXCEPT !.tb = FreeVol, !.pc = "helperCreate"])
        /\ UNCHANGED <<archKnown, ctrs, pods, lc, rec, faults>>
     \/ Abort(p)

\* createToolboxVolume: ContainerCreate of the "cat" helper that binds the
\* toolbox volume; the helper has no labels.
CreateToolboxHelper(p) ==
  /\ np[p].pc = "helperCreate"
  /\ \/ /\ CanAllocCtr
        /\ ctrs' = [ctrs EXCEPT ![FreeCtr] = [NoCtr EXCEPT !.state = "created",
                      !.pod = p, !.mounts = {np[p].tb}]]
        /\ SetNP(p, [np[p] EXCEPT !.helper = FreeCtr, !.pc = "helperStart"])
        /\ UNCHANGED <<archKnown, vols, pods, lc, rec, faults>>
     \/ Abort(p)

StartToolboxHelper(p) ==
  /\ np[p].pc = "helperStart"
  /\ \/ /\ ctrs' = [ctrs EXCEPT ![np[p].helper].state = "running"]
        /\ SetNP(p, [np[p] EXCEPT !.pc = "copy"])
        /\ UNCHANGED <<archKnown, vols, pods, lc, rec, faults>>
     \/ Abort(p)

(* mutant: the CopyToContainer error ignored like the helper's removal *)
CopyToolboxErrorIgnored(p) ==
  /\ np[p].pc = "copy"
  /\ \/ /\ ~archKnown
        /\ SetNP(p, [np[p] EXCEPT !.pc = "failed"])
        /\ UNCHANGED <<archKnown, ctrs, vols, pods, lc, rec, faults>>
     \/ /\ archKnown
        /\ vols' = [vols EXCEPT ![np[p].tb].seeded = TRUE]
        /\ SetNP(p, [np[p] EXCEPT !.pc = "helperRemove"])
        /\ UNCHANGED <<archKnown, ctrs, pods, lc, rec, faults>>
     \/ /\ archKnown /\ Fault
        /\ SetNP(p, [np[p] EXCEPT !.pc = "helperRemove"])
        /\ UNCHANGED <<archKnown, ctrs, vols, pods, lc, rec>>

\* toolboxExecPath fails for an unknown arch; otherwise CopyToContainer
\* writes agola-toolbox into the toolbox volume, or fails.
CopyToolbox(p) ==
  /\ np[p].pc = "copy"
  /\ \/ /\ ~archKnown
        /\ SetNP(p, [np[p] EXCEPT !.pc = "failed"])
        /\ UNCHANGED <<archKnown, ctrs, vols, pods, lc, rec, faults>>
     \/ /\ archKnown
        /\ vols' = [vols EXCEPT ![np[p].tb].seeded = TRUE]
        /\ SetNP(p, [np[p] EXCEPT !.pc = "helperRemove"])
        /\ UNCHANGED <<archKnown, ctrs, pods, lc, rec, faults>>
     \/ archKnown /\ Abort(p)

\* ContainerRemove(helper, force); its error is ignored.
RemoveToolboxHelper(p) ==
  /\ np[p].pc = "helperRemove"
  /\ SetNP(p, [np[p] EXCEPT !.pc = "pvCreate"])
  /\ \/ /\ ctrs' = [ctrs EXCEPT ![np[p].helper].state = "gone"]
        /\ UNCHANGED faults
     \/ Fault /\ UNCHANGED ctrs
  /\ UNCHANGED <<archKnown, vols, pods, lc, rec>>

\* createProjectVolume: VolumeCreate with the pod's labels.
CreateProjectVolume(p) ==
  /\ np[p].pc = "pvCreate"
  /\ \/ /\ CanAllocVol
        /\ vols' = [vols EXCEPT ![FreeVol] = [state |-> "present", pod |-> p,
                      exec |-> Ours, vname |-> "project", seeded |-> FALSE]]
        /\ SetNP(p, [np[p] EXCEPT !.pv = FreeVol, !.pc = "fetch", !.i = 1])
        /\ UNCHANGED <<archKnown, ctrs, pods, lc, rec, faults>>
     \/ Abort(p)

\* createContainer up to ContainerCreate: fetchImage(image, alwaysFetch =
\* TRUE), then a volume entry that is not tmpfs is rejected.
FetchTaskImage(p) ==
  /\ np[p].pc = "fetch"
  /\ \/ /\ SetNP(p, [np[p] EXCEPT !.pc = IF np[p].cfg[np[p].i].tmpfs
                                          THEN "create" ELSE "failed"])
        /\ UNCHANGED <<archKnown, ctrs, vols, pods, lc, rec, faults>>
     \/ Abort(p)

\* The container createContainer asks the daemon for: the full label set
\* with containerIndex = cindex; an unnamed container 0 is named "main";
\* container i > 0 joins the network namespace of mainContainerID; named
\* containers mount the toolbox and project volumes.
(* mutant: containerIndex off by one *)
TaskContainerIndexOffByOne(p, r) ==
  LET named == r.cfg[r.i].named \/ r.i = 1 IN
  [state |-> "created", pod |-> p, exec |-> Ours, lab |-> TRUE,
   idx |-> r.i - 2, named |-> named, net |-> IF r.i = 1 THEN 0 ELSE r.main,
   mounts |-> IF named THEN {r.tb, r.pv} ELSE {}]
TaskContainer(p, r) ==
  LET named == r.cfg[r.i].named \/ r.i = 1 IN
  [state |-> "created", pod |-> p, exec |-> Ours, lab |-> TRUE,
   idx |-> r.i - 1, named |-> named, net |-> IF r.i = 1 THEN 0 ELSE r.main,
   mounts |-> IF named THEN {r.tb, r.pv} ELSE {}]

\* NewPod saves the created id as mainContainerID when cindex == 0.
(* mutant: the cindex == 0 test dropped *)
MainContainerIDEveryIndex(r, id) == id
MainContainerID(r, id) == IF r.i = 1 THEN id ELSE r.main

\* createContainer's ContainerCreate, as called by NewPod's loop.
CreateContainer(p) ==
  LET r == np[p] IN
  /\ r.pc = "create"
  /\ \/ /\ CanAllocCtr
        /\ ctrs' = [ctrs EXCEPT ![FreeCtr] = TaskContainer(p, r)]
        /\ SetNP(p, [r EXCEPT !.cur = FreeCtr, !.pc = "start",
                              !.main = MainContainerID(r, FreeCtr)])
        /\ UNCHANGED <<archKnown, vols, pods, lc, rec, faults>>
     \/ Abort(p)

\* ContainerStart.  The daemon refuses to start a container whose network
\* namespace container is not running.
StartContainer(p) ==
  LET r == np[p]
      c == r.cur
      joinable == IF ctrs[c].net = 0 THEN TRUE ELSE ctrs[ctrs[c].net].state = "running"
  IN /\ r.pc = "start"
     /\ \/ /\ joinable
           /\ ctrs' = [ctrs EXCEPT ![c].state = "running"]
           /\ SetNP(p, [r EXCEPT !.i = @ + 1,
                                 !.pc = IF r.i = Len(r.cfg) THEN "list" ELSE "fetch"])
           /\ UNCHANGED <<archKnown, vols, pods, lc, rec, faults>>
        \/ /\ ~joinable
           /\ SetNP(p, [r EXCEPT !.pc = "failed"])
           /\ UNCHANGED <<archKnown, ctrs, vols, pods, lc, rec, faults>>
        \/ Abort(p)

\* ContainerList (running containers only) filtered by agola, executorID,
\* podID and taskID, then the checks and the assembly of the Pod.
Listed(p) == {c \in CtrIds : /\ ctrs[c].state = "running" /\ ctrs[c].lab
                             /\ ctrs[c].exec = Ours /\ ctrs[c].pod = p}
Indexed(S) == {c \in S : ctrs[c].idx # NoIdx}
HasDuplicateIndex(S) == \E c, d \in Indexed(S) : c # d /\ ctrs[c].idx = ctrs[d].idx
ListPodContainers(p) ==
  LET r == np[p]
      L == Listed(p)
      ok == L # {} /\ ~HasDuplicateIndex(L) /\ Indexed(L) = L
      sorted == SortByIndex(L)
  IN /\ r.pc = "list"
     /\ \/ /\ ok
           /\ pods' = [pods EXCEPT ![p] = [id |-> p, ctrs |-> sorted,
                         main |-> sorted[1], tb |-> r.tb, pv |-> r.pv,
                         task |-> None]]
           /\ SetNP(p, [r EXCEPT !.pc = "built"])
           /\ UNCHANGED <<archKnown, ctrs, vols, lc, rec, faults>>
        \/ /\ ~ok
           /\ SetNP(p, [r EXCEPT !.pc = "failed"])
           /\ UNCHANGED <<archKnown, ctrs, vols, pods, lc, rec, faults>>
        \/ Abort(p)

NewPodStep(p) ==
  \/ NewPodStart(p) \/ FetchInitImage(p) \/ CreateToolboxVolume(p)
  \/ CreateToolboxHelper(p) \/ StartToolboxHelper(p) \/ CopyToolbox(p)
  \/ RemoveToolboxHelper(p) \/ CreateProjectVolume(p) \/ FetchTaskImage(p)
  \/ CreateContainer(p) \/ StartContainer(p) \/ ListPodContainers(p)

(***************************************************************************)
(* DockerPod.Stop and DockerPod.Remove (docker.go 586-623): loops over the *)
(* Pod's containers, then its two volumes, one RPC per step, collecting    *)
(* errors instead of returning on the first.                               *)
(***************************************************************************)
Call(kind, h) == [kind |-> kind, h |-> h, j |-> 1, err |-> FALSE]
Idle == [kind |-> "none", h |-> NoHandle, j |-> 1, err |-> FALSE]

\* Advance actor a's loop, recording whether this iteration's RPC failed.
Next_j(a, failed) ==
  lc' = [lc EXCEPT ![a].j = @ + 1, ![a].err = @ \/ failed]

\* ContainerStop(c, timeout 1s): a running container exits; stopping a
\* container that is not running succeeds; a missing one is an error.
StopContainer(a) ==
  LET l == lc[a]
      c == l.h.ctrs[l.j]
  IN /\ l.kind = "stop" /\ l.j <= Len(l.h.ctrs)
     /\ \/ /\ ctrs[c].state \in Existing
           /\ ctrs' = [ctrs EXCEPT ![c].state =
                         IF @ = "running" THEN "exited" ELSE @]
           /\ Next_j(a, FALSE) /\ UNCHANGED faults
        \/ ctrs[c].state \notin Existing /\ Next_j(a, TRUE)
           /\ UNCHANGED <<archKnown, ctrs, faults>>
        \/ Fault /\ Next_j(a, TRUE) /\ UNCHANGED ctrs
     /\ UNCHANGED <<archKnown, vols, np, pods, rec>>

\* ContainerRemove(c, force): an existing container is removed; a missing
\* one is an error.
RemoveContainer(a) ==
  LET l == lc[a]
      c == l.h.ctrs[l.j]
  IN /\ l.kind = "remove" /\ l.j <= Len(l.h.ctrs)
     /\ \/ /\ ctrs[c].state \in Existing
           /\ ctrs' = [ctrs EXCEPT ![c].state = "gone"]
           /\ Next_j(a, FALSE) /\ UNCHANGED faults
        \/ ctrs[c].state \notin Existing /\ Next_j(a, TRUE)
           /\ UNCHANGED <<archKnown, ctrs, faults>>
        \/ Fault /\ Next_j(a, TRUE) /\ UNCHANGED ctrs
     /\ UNCHANGED <<archKnown, vols, np, pods, rec>>

\* VolumeRemove(name, force) of the toolbox (j = n+1) then project (j = n+2)
\* volume, skipped when the name is "".  Force ignores a missing volume but
\* not one that an existing container still mounts.
RemoveVolume(a) ==
  LET l == lc[a]
      n == Len(l.h.ctrs)
      v == IF l.j = n + 1 THEN l.h.tb ELSE l.h.pv
  IN /\ l.kind = "remove" /\ l.j \in {n + 1, n + 2}
     /\ \/ v = 0 /\ Next_j(a, FALSE) /\ UNCHANGED <<archKnown, vols, faults>>
        \/ /\ v # 0 /\ vols[v].state = "gone"
           /\ Next_j(a, FALSE) /\ UNCHANGED <<archKnown, vols, faults>>
        \/ /\ v # 0 /\ vols[v].state = "present" /\ ~InUse(v)
           /\ vols' = [vols EXCEPT ![v].state = "gone"]
           /\ Next_j(a, FALSE) /\ UNCHANGED faults
        \/ /\ v # 0 /\ vols[v].state = "present" /\ InUse(v)
           /\ Next_j(a, TRUE) /\ UNCHANGED <<archKnown, vols, faults>>
        \/ v # 0 /\ Fault /\ Next_j(a, TRUE) /\ UNCHANGED vols
     /\ UNCHANGED <<archKnown, ctrs, np, pods, rec>>

LoopStep(a) == StopContainer(a) \/ RemoveContainer(a) \/ RemoveVolume(a)

(* mutant: the loop bound counts one volume too many *)
RemoveDoneOffByOne(a) == lc[a].kind = "remove" /\ lc[a].j > Len(lc[a].h.ctrs) + 3
StopDone(a) == lc[a].kind = "stop" /\ lc[a].j > Len(lc[a].h.ctrs)
RemoveDone(a) == lc[a].kind = "remove" /\ lc[a].j > Len(lc[a].h.ctrs) + 2

(***************************************************************************)
(* The task that owns a built pod: it stops the pod, or not, and removes   *)
(* it when it ends.                                                        *)
(***************************************************************************)
TaskEnd(p) ==
  /\ np[p].pc = "built"
  /\ \E k \in {"stop", "remove"} :
       /\ lc' = [lc EXCEPT ![p] = Call(k, pods[p])]
       /\ SetNP(p, [np[p] EXCEPT !.pc = IF k = "stop" THEN "stopping" ELSE "removing"])
  /\ UNCHANGED <<archKnown, ctrs, vols, pods, rec, faults>>

TaskStopped(p) ==
  /\ np[p].pc = "stopping" /\ StopDone(p)
  /\ lc' = [lc EXCEPT ![p] = Call("remove", pods[p])]
  /\ SetNP(p, [np[p] EXCEPT !.pc = "removing"])
  /\ UNCHANGED <<archKnown, ctrs, vols, pods, rec, faults>>

TaskRemoved(p) ==
  /\ np[p].pc = "removing" /\ RemoveDone(p)
  /\ lc' = [lc EXCEPT ![p] = Idle]
  /\ SetNP(p, [np[p] EXCEPT !.pc = "done"])
  /\ UNCHANGED <<archKnown, ctrs, vols, pods, rec, faults>>

TaskStep(p) == NewPodStep(p) \/ TaskEnd(p) \/ TaskStopped(p) \/ TaskRemoved(p)
               \/ LoopStep(p)

(***************************************************************************)
(* GetPods(all) (docker.go 422-550), a function of one ContainerList and   *)
(* one VolumeList.  A listed container of this executor with a podID      *)
(* label but no parseable containerIndex makes the code delete the pod    *)
(* from podsMap and then dereference the nil entry: the call panics.       *)
(***************************************************************************)
(* mutant: the executorID filter dropped *)
OwnListedAnyExecutor(all) ==
  {c \in CtrIds : /\ ctrs[c].state \in (IF all THEN Existing ELSE {"running"})
                  /\ ctrs[c].lab}
(* mutant: ListOptions.All not passed *)
OwnListedRunningOnly(all) ==
  {c \in CtrIds : /\ ctrs[c].state = "running"
                  /\ ctrs[c].lab /\ ctrs[c].exec = Ours}
OwnListed(all) ==
  {c \in CtrIds : /\ ctrs[c].state \in (IF all THEN Existing ELSE {"running"})
                  /\ ctrs[c].lab /\ ctrs[c].exec = Ours}
GetPodsPanics(all) == \E c \in OwnListed(all) : ctrs[c].idx = NoIdx

\* The volume of pod q labelled volumeName = name, or "" when none.
PodVolume(q, name) ==
  LET V == {v \in VolIds : /\ vols[v].state = "present" /\ vols[v].exec = Ours
                           /\ vols[v].pod = q /\ vols[v].vname = name}
  IN IF V = {} THEN 0 ELSE CHOOSE v \in V : TRUE

\* pod.labels, hence TaskID(), are copied from the listed container with
\* containerIndex 0 only; a pod without one has no labels.
PodTaskID(q, S) == IF \E c \in S : ctrs[c].pod = q /\ ctrs[c].idx = 0
                   THEN q ELSE None

(* mutant: containers grouped into one pod regardless of their podID *)
GetPodsNoPodGrouping(all) ==
  { [id |-> q,
     ctrs |-> SortByIndex(OwnListed(all)),
     main |-> 0,
     tb |-> PodVolume(q, "toolbox"),
     pv |-> PodVolume(q, "project"),
     task |-> PodTaskID(q, OwnListed(all))] : q \in {ctrs[c].pod : c \in OwnListed(all)} }
\* GetPods never fills containersMap[""], so main is 0.
GetPods(all) ==
  { [id |-> q,
     ctrs |-> SortByIndex({c \in OwnListed(all) : ctrs[c].pod = q}),
     main |-> 0,
     tb |-> PodVolume(q, "toolbox"),
     pv |-> PodVolume(q, "project"),
     task |-> PodTaskID(q, OwnListed(all))] : q \in {ctrs[c].pod : c \in OwnListed(all)} }

(***************************************************************************)
(* The reconciler: GetPods(ReconcileAll), then Remove of one listed pod    *)
(* whose TaskID() is not a live task.  A panic ends the executor process. *)
(***************************************************************************)
Reconcile ==
  /\ rec = "idle"
  /\ \/ Fault /\ UNCHANGED <<archKnown, rec, lc>>
     \/ GetPodsPanics(ReconcileAll) /\ rec' = "panicked" /\ UNCHANGED <<archKnown, lc, faults>>
     \/ /\ ~GetPodsPanics(ReconcileAll)
        /\ \E h \in GetPods(ReconcileAll) :
             /\ ~Live(h.task)
             /\ lc' = [lc EXCEPT ![Rec] = Call("remove", h)]
             /\ rec' = "removing"
        /\ UNCHANGED faults
  /\ UNCHANGED <<archKnown, ctrs, vols, np, pods>>

ReconcilerRemoved ==
  /\ rec = "removing" /\ RemoveDone(Rec)
  /\ lc' = [lc EXCEPT ![Rec] = Idle]
  /\ rec' = "idle"
  /\ UNCHANGED <<archKnown, ctrs, vols, np, pods, faults>>

ReconcilerStep == Reconcile \/ ReconcilerRemoved \/ LoopStep(Rec)

\* The entrypoint of a started task container terminates (counted against
\* the same budget as failed RPCs).
ContainerExits(c) ==
  /\ ContainersMayExit
  /\ ctrs[c].lab /\ ctrs[c].state = "running"
  /\ Fault
  /\ ctrs' = [ctrs EXCEPT ![c].state = "exited"]
  /\ UNCHANGED <<archKnown, vols, np, pods, lc, rec>>

\* A container labelled with this executor's id and a podID but no
\* containerIndex is created outside this driver (an older executor, an
\* operator); counted against the fault budget.
TaintedAppears ==
  /\ TaintedMayAppear
  /\ CanAllocCtr
  /\ Fault
  /\ \E q \in ForeignPods :
       ctrs' = [ctrs EXCEPT ![FreeCtr] = [NoCtr EXCEPT !.state = "running",
                  !.pod = q, !.exec = Ours, !.lab = TRUE]]
  /\ UNCHANGED <<archKnown, vols, np, pods, lc, rec>>

(***************************************************************************)
(* The executor process dies (a crash, the GetPods panic, a redeploy) and  *)
(* is started again.  The daemon and its objects survive; a DockerDriver  *)
(* keeps no pod registry (its fields are the client, ids, paths and        *)
(* arch), so everything in flight is lost: each NewPod, Stop or Remove     *)
(* stops wherever it was and its task is no longer live (`pods` keeps the *)
(* value NewPod returned, for the properties).  The new process finds its  *)
(* pods again only through GetPods' labels.  A restart is counted         *)
(* against the fault budget.                                               *)
(***************************************************************************)
Settled == {"idle", "failed", "done"}
ExecutorRestart ==
  /\ ExecutorMayRestart
  /\ Fault
  /\ np' = [p \in PodIDs |-> IF np[p].pc \in Settled THEN np[p]
                             ELSE [np[p] EXCEPT !.pc = "failed"]]
  /\ lc' = [a \in Actors |-> Idle]
  /\ rec' = "idle"
  /\ UNCHANGED <<archKnown, ctrs, vols, pods>>

\* Nothing left to do: every task has ended and the reconciler has
\* panicked or GetPods lists no pod it would remove.
Quiescent ==
  /\ \A p \in PodIDs : np[p].pc \in {"failed", "done"}
  /\ \/ rec = "panicked"
     \/ /\ rec = "idle"
        /\ ~GetPodsPanics(ReconcileAll)
        /\ \A h \in GetPods(ReconcileAll) : Live(h.task)
  /\ UNCHANGED vars

Next ==
  \/ \E p \in PodIDs : TaskStep(p)
  \/ ReconcilerStep
  \/ \E c \in CtrIds : ContainerExits(c)
  \/ TaintedAppears
  \/ ExecutorRestart
  \/ Quiescent

\* Every RPC returns (with a result or an error) and every goroutine is
\* scheduled: each task and the reconciler are weakly fair.
Fairness ==
  /\ \A p \in PodIDs : WF_vars(TaskStep(p))
  /\ WF_vars(ReconcilerStep)

Spec == Init /\ [][Next]_vars /\ Fairness

(***************************************************************************)
(* Refinement of PodLifecycle.  A pod's phase is read off its NewPod/task  *)
(* control state; the objects it holds are the existing containers and    *)
(* present volumes carrying its pod id (a container without labels is the *)
(* toolbox helper); the Pod's members are the containers NewPod returned. *)
(***************************************************************************)
PhaseOf(p) ==
  CASE np[p].pc = "idle" -> "absent"
    [] np[p].pc = "built" -> "running"
    [] np[p].pc = "stopping" -> "stopping"
    [] np[p].pc = "removing" -> "removing"
    [] np[p].pc = "done" -> "removed"
    [] np[p].pc = "failed" -> "failed"
    [] OTHER -> "building"
ObjectsOf(p) ==
  {<<IF ctrs[c].lab THEN "task" ELSE "helper", c>> :
      c \in {c \in CtrIds : ctrs[c].pod = p /\ ctrs[c].state \in Existing}}
  \cup {<<"vol", v>> : v \in {v \in VolIds : vols[v].pod = p /\ vols[v].state = "present"}}
MembersOf(p) == {<<"task", c>> : c \in ToSet(pods[p].ctrs)}

LC == INSTANCE PodLifecycle WITH
        Pods <- PodIDs,
        Objects <- ({"task", "helper"} \X CtrIds) \cup ({"vol"} \X VolIds),
        phase <- [p \in PodIDs |-> PhaseOf(p)],
        owned <- [p \in PodIDs |-> ObjectsOf(p)],
        members <- [p \in PodIDs |-> MembersOf(p)]

(***************************************************************************)
(* Properties                                                              *)
(***************************************************************************)
TypeOK ==
  /\ ctrs \in [CtrIds -> Ctr]
  /\ vols \in [VolIds -> Vol]
  /\ \A p \in PodIDs : np[p].pc \in NPStates /\ np[p].cfg \in Seq(CtrConfig)
  /\ pods \in [PodIDs -> Handle \cup {NoHandle}]
  /\ \A a \in Actors : lc[a].kind \in {"none", "stop", "remove"}
                       /\ lc[a].err \in BOOLEAN
  /\ rec \in {"idle", "removing", "panicked"}
  /\ faults \in 0..MaxFaults
  /\ archKnown \in BOOLEAN

\* Every container of a Pod returned by NewPod belongs to that pod; each
\* sidecar joins the network namespace of the pod's container 0; named
\* containers mount exactly the Pod's toolbox and project volumes, unnamed
\* sidecars neither (NewPod's podID filter, mainContainerID, and
\* createContainer's network and mount wiring).
SidecarsWiredToOwnPod ==
  \A p \in PodIDs : pods[p] # NoHandle =>
    LET h == pods[p] IN
    \A k \in 1..Len(h.ctrs) :
      LET c == ctrs[h.ctrs[k]] IN
      /\ c.pod = p
      /\ c.idx # 0 => ctrs[c.net].idx = 0 /\ ctrs[c.net].pod = p
      /\ c.mounts = IF c.named THEN {h.tb, h.pv} ELSE {}

\* Spec 8: a Pod returned by NewPod for N configured containers has exactly
\* N containers with indices 0..N-1 in ascending order and containersMap[""]
\* is container 0 (NewPod's discovery by ContainerList).
NewPodReturnsAllContainers ==
  \A p \in PodIDs : pods[p] # NoHandle =>
    LET h == pods[p] IN
    /\ Len(h.ctrs) = Len(np[p].cfg)
    /\ \A k \in 1..Len(h.ctrs) : ctrs[h.ctrs[k]].idx = k - 1
    /\ ctrs[h.main].idx = 0

\* No task container ever runs with a toolbox volume that was not seeded
\* with agola-toolbox for its own pod (createToolboxVolume's copy must
\* complete before NewPod creates any container).
ToolboxSeededBeforeUse ==
  \A c \in CtrIds :
    (ctrs[c].pod \in PodIDs /\ ctrs[c].lab /\ ctrs[c].named
     /\ ctrs[c].state = "running") =>
      \E v \in ctrs[c].mounts : /\ vols[v].vname = "toolbox"
                                /\ vols[v].pod = ctrs[c].pod
                                /\ vols[v].seeded

\* The reconciler's Stop/Remove calls only ever change objects labelled with
\* this executor's id whose pod is not in use: its task has ended, or is
\* itself removing the pod (GetPods' executorID filter and the TaskID() it
\* copies from container 0; operations on different pods must not
\* interfere).  The second case is real: once the task's own Remove has
\* deleted container 0, GetPods reports the rest of the pod with TaskID ""
\* and the reconciler removes it concurrently with the task.
ReconcilerNeverTouchesPodsInUse ==
  [][LET InUseBy(q) == Live(q) /\ np[q].pc # "removing" IN
     LoopStep(Rec) =>
       /\ \A c \in CtrIds : ctrs'[c] # ctrs[c] =>
            ctrs[c].exec = Ours /\ ~InUseBy(ctrs[c].pod)
       /\ \A v \in VolIds : vols'[v] # vols[v] =>
            vols[v].exec = Ours /\ ~InUseBy(vols[v].pod)]_vars

\* Every labelled container of this executor, whether of a built pod or
\* left behind by a failed NewPod, is eventually removed by its task or by
\* the reconciler (GetPods(all) lists created and exited containers too).
OwnContainersEventuallyRemoved ==
  \A c \in CtrIds :
    (ctrs[c].lab /\ ctrs[c].exec = Ours /\ ctrs[c].state \in Existing)
      ~> ctrs[c].state = "gone"

\* Spec 4.10: everything a failed NewPod leaves behind is reclaimed by
\* GetPods/Remove, including its volumes and the toolbox helper container.
AllPodObjectsEventuallyRemoved ==
  /\ \A c \in CtrIds :
       (ctrs[c].pod \in PodIDs /\ ctrs[c].state \in Existing) ~> ctrs[c].state = "gone"
  /\ \A v \in VolIds :
       (vols[v].pod \in PodIDs /\ vols[v].state = "present") ~> vols[v].state = "gone"

\* Spec 4.6: GetPods drops a pod with a container lacking a parseable
\* containerIndex label instead of failing.
GetPodsNeverPanics == rec # "panicked"

\* The driver implements the pod lifecycle of spec 4.9: phases advance in
\* order, a pod acquires daemon objects only while NewPod runs, the Pod it
\* returns names only its own task containers, no step (the task's Stop,
\* GetPods/Remove reconciliation, another pod's build) takes an object from
\* a pod that is running or stopping, and, under the fairness of tasks and
\* reconciler, every NewPod ends and every task that received a pod gets
\* through its Remove loop; an executor restart only abandons pods, whose
\* objects stay theirs until reconciliation disposes of them.
PodLifecycleRefined == LC!Spec
=============================================================================
