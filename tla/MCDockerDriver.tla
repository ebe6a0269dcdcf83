--------------------------- MODULE MCDockerDriver ---------------------------
(***************************************************************************)
(* Model-checking instances of DockerDriver.                               *)
(***************************************************************************)
EXTENDS DockerDriver

\* Pods of objects already in the daemon: another executor's, and a tainted one.
CONSTANTS f1, f2, p1
MCForeignPods == {f1, f2}

\* Container configs: an unnamed container whose volumes are all tmpfs, a
\* named one, and one with a non-tmpfs volume entry.
Plain == [named |-> FALSE, tmpfs |-> TRUE]
Named == [named |-> TRUE, tmpfs |-> TRUE]
BadVolume == [named |-> FALSE, tmpfs |-> FALSE]

\* p1 runs main, an unnamed sidecar and a named sidecar (three containers
\* are the fewest for which "joins container 0" and "joins the previous
\* container" differ); p2 passes the empty config, a container with a bad
\* volume, or a single named container.
MCConfigs == [p \in PodIDs |-> IF p = p1 THEN { <<Plain, Plain, Named>> }
                                ELSE { <<>>, <<BadVolume>>, <<Named>> }]

\* For liveness: two one-container pods; a fault at any step of either
\* build leaves a created, running or exited task container, a volume or
\* the helper behind.
MCLiveConfigs == [p \in PodIDs |-> { <<Plain>> }]

\* A running container of another executor sharing the daemon.
ForeignContainer ==
  [state |-> "running", pod |-> f1, exec |-> Other, lab |-> TRUE, idx |-> 0,
   named |-> TRUE, net |-> 0, mounts |-> {}]

MCForeignOnly == <<ForeignContainer>>
==============================================================================
