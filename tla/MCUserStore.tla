---------------------------- MODULE MCUserStore ----------------------------
(* Small instance: two user ids, two linked account ids, one valid remote  *)
(* source and one that does not exist, two remote user ids, names "a" and  *)
(* "b" that pass validation and "x" that does not.                         *)
EXTENDS UserStore, TLC

CONSTANTS c1, c2

MCClients == {c1, c2}
OneClient == {c1}
MCNames == {"", "a", "b", "x"}
MCValidNames == {"a", "b"}
MCRSNames == {"gh", "gone"}
MCRemoteSources == {"gh"}
(* The snapshot runs keep one name, one remote user, one linked account id *)
(* and no orgs: the snapshots each client holds multiply the state space.  *)
SmallNames == {"", "a"}
SmallValidNames == {"a"}
SmallRSNames == {"gh"}
MCClientSymmetry == Permutations(MCClients)
====
