---------------------------- MODULE PodLifecycle ----------------------------
(***************************************************************************)
(* What the pod driver promises about one executor's pods, independent of *)
(* the daemon RPCs that implement it (spec sections 3, 4.8-4.10).          *)
(*                                                                         *)
(* A pod goes absent -> building -> running -> (stopping ->) removing ->  *)
(* removed; a build that fails, or an input rejected before any RPC, ends *)
(* in failed.  While building it acquires daemon objects (its task        *)
(* containers, the toolbox helper and its volumes), each held by one pod  *)
(* only.  The caller receives a Pod naming some of its task containers.   *)
(* Objects are given up only by the pod's own Remove, by reconciliation   *)
(* of a pod that has ended (failed or removed), and, for the toolbox       *)
(* helper, by the build itself; a running or stopping pod keeps them.      *)
(* The executor may die at any time, abandoning every pod not yet ended.  *)
(***************************************************************************)
EXTENDS FiniteSets

CONSTANTS
  Pods,     \* the pods of this executor
  Objects   \* daemon objects: <<kind, id>>, kind "task", "helper" or "vol"

VARIABLES
  phase,    \* each pod's lifecycle phase
  owned,    \* the daemon objects each pod holds
  members   \* the task containers of the Pod returned to the caller

vars == <<phase, owned, members>>

Phases == {"absent", "building", "running", "stopping", "removing",
           "removed", "failed"}
Ended == {"removed", "failed"}

Kind(o) == o[1]
Held == UNION {owned[p] : p \in Pods}

TypeOK ==
  /\ phase \in [Pods -> Phases]
  /\ owned \in [Pods -> SUBSET Objects]
  /\ members \in [Pods -> SUBSET Objects]

Init ==
  /\ phase = [p \in Pods |-> "absent"]
  /\ owned = [p \in Pods |-> {}]
  /\ members = [p \in Pods |-> {}]

Move(p, from, to) ==
  /\ phase[p] \in from
  /\ phase' = [phase EXCEPT ![p] = to]

Start(p) == Move(p, {"absent"}, "building") /\ UNCHANGED <<owned, members>>
\* Bad input (no containers) is refused before any object exists.
Reject(p) == Move(p, {"absent"}, "failed") /\ UNCHANGED <<owned, members>>
\* One object no pod holds joins the pod's objects.
Acquire(p) ==
  /\ phase[p] = "building"
  /\ \E o \in Objects \ Held : owned' = [owned EXCEPT ![p] = @ \cup {o}]
  /\ UNCHANGED <<phase, members>>
\* The returned Pod names only task containers the pod holds, at least one.
Build(p) ==
  /\ Move(p, {"building"}, "running")
  /\ \E M \in SUBSET {o \in owned[p] : Kind(o) = "task"} :
       M # {} /\ members' = [members EXCEPT ![p] = M]
  /\ UNCHANGED owned
Fail(p) == Move(p, {"building"}, "failed") /\ UNCHANGED <<owned, members>>
Stop(p) == Move(p, {"running"}, "stopping") /\ UNCHANGED <<owned, members>>
Remove(p) ==
  Move(p, {"running", "stopping"}, "removing") /\ UNCHANGED <<owned, members>>
Removed(p) == Move(p, {"removing"}, "removed") /\ UNCHANGED <<owned, members>>
Dispose(p) ==
  /\ \E o \in owned[p] :
       /\ \/ phase[p] \in {"removing"} \cup Ended
          \/ phase[p] = "building" /\ Kind(o) = "helper"
       /\ owned' = [owned EXCEPT ![p] = @ \ {o}]
  /\ UNCHANGED <<phase, members>>

\* The executor process ends: every pod it was building, running, stopping
\* or removing is abandoned and keeps its objects until they are disposed of.
Abandon ==
  /\ phase' = [p \in Pods |-> IF phase[p] \in Ended \cup {"absent"}
                               THEN phase[p] ELSE "failed"]
  /\ UNCHANGED <<owned, members>>

Advance(p) ==
  Start(p) \/ Reject(p) \/ Build(p) \/ Fail(p) \/ Stop(p) \/ Remove(p)
  \/ Removed(p)

Next == Abandon \/ \E p \in Pods : Advance(p) \/ Acquire(p) \/ Dispose(p)

SafetySpec == Init /\ [][Next]_vars

\* Every NewPod returns and every task that got a pod removes it.
Fairness == \A p \in Pods : WF_vars(Advance(p))

Spec == SafetySpec /\ Fairness

====
