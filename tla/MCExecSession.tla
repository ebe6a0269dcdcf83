--------------------------- MODULE MCExecSession ---------------------------
(* Two concurrent Exec sessions on one pod.                                *)
EXTENDS ExecSession, TLC

CONSTANTS s1, s2

MCSessions == {s1, s2}
\* The containersMap keys of a Pod built by NewPod (an unnamed container 0
\* is named "main", and "" aliases it).
NewPodKeys == {"", "main"}
\* "", the main container's name, and a name the pod does not have.
MCTargets == {"", "main", "db"}
MCCodes == {0, 1}
====
