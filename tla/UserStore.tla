----------------------------- MODULE UserStore -----------------------------
(***************************************************************************)
(* The configstore's user actions (src/internal/services/configstore/      *)
(* action/user.go).  Every handler is one h.d.Do(tx) transaction: it reads *)
(* the rows it checks (the user by ref, a user by name, a linked account,  *)
(* a token), returns an error at the first failed check, and otherwise     *)
(* writes.  A handler is modelled by two operators: XxxAllowed(r, q), the  *)
(* conjunction of its checks evaluated on the state r its transaction     *)
(* reads, and XxxEffect(q), its writes applied to the current database.    *)
(*                                                                         *)
(* Under Isolation = "serializable" transactions run one at a time.       *)
(* Under "snapshot" a client's transaction reads a snapshot taken at       *)
(* Begin and writes at Commit, with other commits in between; no row the   *)
(* handlers insert conflicts with another's (fresh ids), so snapshot       *)
(* isolation commits both.  The sqlg layer that chooses the isolation is   *)
(* not part of this repository.                                            *)
(*                                                                         *)
(* Org memberships and invitations are created by the org handlers; they   *)
(* are modelled as environment steps on live users.                        *)
(***************************************************************************)
EXTENDS Integers, Sequences, FiniteSets

CONSTANTS
  Clients,        \* concurrent callers (used under snapshot isolation)
  Names,          \* user names callers may request ("" = none)
  ValidNames,     \* the names util.ValidateName accepts
  RemoteSources,  \* remote source names that exist
  RSNames,        \* remote source names callers may pass
  RUIDs,          \* remote user ids
  TokenNames,     \* token names
  Orgs,           \* organizations
  MaxUsers,       \* bound on user ids (uuids, never reused)
  MaxLAs,         \* bound on linked account ids
  Isolation,      \* "serializable" or "snapshot"
  MaxPage         \* bound on the lists the pagination check enumerates

ASSUME /\ "" \in Names /\ ValidNames \subseteq Names \ {""}
       /\ RemoteSources \subseteq RSNames
       /\ Isolation \in {"serializable", "snapshot"}

UserIds == 1..MaxUsers
LAIds == 1..MaxLAs
NoLA == <<>>

VARIABLES
  db,    \* the configstore tables
  pc,    \* each client: "idle" or inside a transaction
  snap,  \* the state a client's open transaction reads
  req,   \* the request of a client's open transaction
  last   \* the user the last committed transaction acted for

vars == <<db, pc, snap, req, last>>

(***************************************************************************)
(* Tables.  A user id is "none" before NewUser, "live", then "deleted".    *)
(* pg: users with a root project group; la: linked accounts keyed by       *)
(* (remote source, remote user id); tok: tokens (user, name); mem, inv:    *)
(* org memberships and invitations (user, org).                            *)
(***************************************************************************)
UserRow == [state: {"none", "live", "deleted"}, name: Names]
LARow == [state: {"none", "live", "deleted"}, user: UserIds \cup {0},
          rs: RSNames, ruid: RUIDs]
DB == [user: [UserIds -> UserRow], pg: SUBSET UserIds, la: [LAIds -> LARow],
       tok: SUBSET (UserIds \X TokenNames), mem: SUBSET (UserIds \X Orgs),
       inv: SUBSET (UserIds \X Orgs)]

EmptyDB ==
  [user |-> [u \in UserIds |-> [state |-> "none", name |-> ""]],
   pg |-> {},
   la |-> [l \in LAIds |-> [state |-> "none", user |-> 0,
                            rs |-> CHOOSE s \in RSNames : TRUE,
                            ruid |-> CHOOSE i \in RUIDs : TRUE]],
   tok |-> {}, mem |-> {}, inv |-> {}]

Live(r, u) == u \in UserIds /\ r.user[u].state = "live"
\* db.GetUserByName: a live user with that name, whoever it is.
NameTaken(r, n) == \E u \in UserIds : Live(r, u) /\ r.user[u].name = n
\* db.GetLinkedAccountByRemoteUserIDandSource
LALinked(r, key) ==
  \E l \in LAIds : r.la[l].state = "live" /\ <<r.la[l].rs, r.la[l].ruid>> = key
LiveLA(r, l) == r.la[l].state = "live"

\* types.NewUser / NewLinkedAccount: fresh uuids.
FreeUser == CHOOSE u \in UserIds : db.user[u].state = "none"
FreeLA == CHOOSE l \in LAIds : db.la[l].state = "none"

(***************************************************************************)
(* Requests.  User refs are ids.                                           *)
(***************************************************************************)
Requests ==
  [op: {"CreateUser"}, name: Names, la: {NoLA} \cup (RSNames \X RUIDs)]
  \cup [op: {"DeleteUser"}, user: UserIds]
  \cup [op: {"UpdateUser"}, user: UserIds, name: Names]
  \cup [op: {"CreateUserLA"}, user: UserIds, key: RSNames \X RUIDs]
  \cup [op: {"DeleteUserLA"}, user: UserIds, la: LAIds]
  \cup [op: {"UpdateUserLA"}, user: UserIds, la: LAIds, ruid: RUIDs]
  \cup [op: {"CreateUserToken"}, user: UserIds, tok: TokenNames]
  \cup [op: {"DeleteUserToken"}, user: UserIds, tok: TokenNames]

\* The request slot of a client with no open transaction.
NoReq == [op |-> "none"]

\* The user a request acts for (CreateUser: the user it creates).
Actor(q) == IF q.op = "CreateUser" THEN 0 ELSE q.user

(***************************************************************************)
(* Handlers                                                                *)
(***************************************************************************)
\* CreateUser: a name is required and must pass ValidateName; no live user
\* may have it; an optional linked account needs an existing remote source
\* and an unlinked remote user.  Inserts the user, its root project group
\* and the linked account.
CreateUserAllowed(r, q) ==
  /\ q.name # "" /\ q.name \in ValidNames
  /\ ~NameTaken(r, q.name)
  /\ q.la # NoLA => q.la[1] \in RemoteSources /\ ~LALinked(r, q.la)
(* mutant: the linked account built before the user's id was assigned *)
CreateUserEffectLAUnset(q) ==
  LET u == FreeUser IN
  [db EXCEPT !.user[u] = [state |-> "live", name |-> q.name],
             !.pg = @ \cup {u},
             !.la = IF q.la = NoLA THEN @
                    ELSE [@ EXCEPT ![FreeLA] = [state |-> "live", user |-> 0,
                                                rs |-> q.la[1], ruid |-> q.la[2]]]]
CreateUserEffect(q) ==
  LET u == FreeUser IN
  [db EXCEPT !.user[u] = [state |-> "live", name |-> q.name],
             !.pg = @ \cup {u},
             !.la = IF q.la = NoLA THEN @
                    ELSE [@ EXCEPT ![FreeLA] = [state |-> "live", user |-> u,
                                                rs |-> q.la[1], ruid |-> q.la[2]]]]

\* DeleteUser: the user must exist; deletes its org memberships,
\* invitations, linked accounts, tokens and the user row.
(* mutant: DeleteUserTokensByUserID left out *)
DeleteUserEffectKeepsTokens(q) ==
  [db EXCEPT !.user[q.user].state = "deleted",
             !.mem = {m \in @ : m[1] # q.user},
             !.inv = {i \in @ : i[1] # q.user},
             !.la = [l \in LAIds |-> IF @[l].state = "live" /\ @[l].user = q.user
                                       THEN [@[l] EXCEPT !.state = "deleted"] ELSE @[l]]]
DeleteUserAllowed(r, q) == Live(r, q.user)
DeleteUserEffect(q) ==
  [db EXCEPT !.user[q.user].state = "deleted",
             !.mem = {m \in @ : m[1] # q.user},
             !.inv = {i \in @ : i[1] # q.user},
             !.la = [l \in LAIds |-> IF @[l].state = "live" /\ @[l].user = q.user
                                       THEN [@[l] EXCEPT !.state = "deleted"] ELSE @[l]],
             !.tok = {t \in @ : t[1] # q.user}]

\* UpdateUser: the user must exist; a non-empty name must not be any live
\* user's name (its own included); the name is not validated.
(* mutant: the duplicate name check dropped *)
UpdateUserAllowedNoDupCheck(r, q) == Live(r, q.user)
UpdateUserAllowed(r, q) ==
  /\ Live(r, q.user)
  /\ q.name # "" => ~NameTaken(r, q.name)
UpdateUserEffect(q) ==
  IF q.name = "" THEN db ELSE [db EXCEPT !.user[q.user].name = q.name]

\* CreateUserLA: the user and the remote source must exist and the remote
\* user must not be linked yet.
CreateUserLAAllowed(r, q) ==
  /\ Live(r, q.user)
  /\ q.key[1] \in RemoteSources
  /\ ~LALinked(r, q.key)
CreateUserLAEffect(q) ==
  [db EXCEPT !.la[FreeLA] = [state |-> "live", user |-> q.user,
                             rs |-> q.key[1], ruid |-> q.key[2]]]

\* DeleteUserLA: the user and the linked account must exist and the
\* account must belong to the user.
(* mutant: the ownership check dropped *)
DeleteUserLAAllowedNoOwnerCheck(r, q) == Live(r, q.user) /\ LiveLA(r, q.la)
DeleteUserLAAllowed(r, q) ==
  /\ Live(r, q.user) /\ LiveLA(r, q.la)
  /\ r.la[q.la].user = q.user
DeleteUserLAEffect(q) == [db EXCEPT !.la[q.la].state = "deleted"]

\* UpdateUserLA: the same checks plus the account's remote source must
\* exist; the remote user id is overwritten without a uniqueness check.
UpdateUserLAAllowed(r, q) ==
  /\ Live(r, q.user) /\ LiveLA(r, q.la)
  /\ r.la[q.la].user = q.user
  /\ r.la[q.la].rs \in RemoteSources
UpdateUserLAEffect(q) == [db EXCEPT !.la[q.la].ruid = q.ruid]

\* CreateUserToken / DeleteUserToken: the user must exist and the token
\* must not exist / must exist.
CreateUserTokenAllowed(r, q) ==
  Live(r, q.user) /\ <<q.user, q.tok>> \notin r.tok
CreateUserTokenEffect(q) == [db EXCEPT !.tok = @ \cup {<<q.user, q.tok>>}]
DeleteUserTokenAllowed(r, q) ==
  Live(r, q.user) /\ <<q.user, q.tok>> \in r.tok
DeleteUserTokenEffect(q) == [db EXCEPT !.tok = @ \ {<<q.user, q.tok>>}]

Allowed(r, q) ==
  CASE q.op = "CreateUser" -> CreateUserAllowed(r, q)
    [] q.op = "DeleteUser" -> DeleteUserAllowed(r, q)
    [] q.op = "UpdateUser" -> UpdateUserAllowed(r, q)
    [] q.op = "CreateUserLA" -> CreateUserLAAllowed(r, q)
    [] q.op = "DeleteUserLA" -> DeleteUserLAAllowed(r, q)
    [] q.op = "UpdateUserLA" -> UpdateUserLAAllowed(r, q)
    [] q.op = "CreateUserToken" -> CreateUserTokenAllowed(r, q)
    [] q.op = "DeleteUserToken" -> DeleteUserTokenAllowed(r, q)
Effect(q) ==
  CASE q.op = "CreateUser" -> CreateUserEffect(q)
    [] q.op = "DeleteUser" -> DeleteUserEffect(q)
    [] q.op = "UpdateUser" -> UpdateUserEffect(q)
    [] q.op = "CreateUserLA" -> CreateUserLAEffect(q)
    [] q.op = "DeleteUserLA" -> DeleteUserLAEffect(q)
    [] q.op = "UpdateUserLA" -> UpdateUserLAEffect(q)
    [] q.op = "CreateUserToken" -> CreateUserTokenEffect(q)
    [] q.op = "DeleteUserToken" -> DeleteUserTokenEffect(q)

\* Fresh ids within the model's bounds (MaxUsers, MaxLAs): a request that
\* inserts a row starts only while an id is left for it and for every open
\* transaction that may insert one.
NeedsUser(q) == q.op = "CreateUser"
NeedsLA(q) == q.op = "CreateUserLA" \/ (q.op = "CreateUser" /\ q.la # NoLA)
Open(need(_)) == Cardinality({c \in Clients : pc[c] = "inTx" /\ need(req[c])})
Fits(q) ==
  /\ NeedsUser(q) =>
       Open(NeedsUser) < Cardinality({u \in UserIds : db.user[u].state = "none"})
  /\ NeedsLA(q) =>
       Open(NeedsLA) < Cardinality({l \in LAIds : db.la[l].state = "none"})

(***************************************************************************)
(* Transactions                                                            *)
(***************************************************************************)
\* The handler's transaction commits its writes, or rolls back on the first
\* failed check (nothing is written).
Commit(r, q) ==
  /\ db' = IF Allowed(r, q) THEN Effect(q) ELSE db
  /\ last' = Actor(q)

\* Under serializable isolation transactions behave as if run one at a
\* time: a transaction begins only when none is open.  Under snapshot
\* isolation the reads see the state at Begin while others commit.
Serial == Isolation = "serializable" => \A d \in Clients : pc[d] = "idle"

Begin(c) ==
  /\ pc[c] = "idle" /\ Serial
  /\ \E q \in Requests : Fits(q) /\ req' = [req EXCEPT ![c] = q]
  /\ snap' = [snap EXCEPT ![c] = db]
  /\ pc' = [pc EXCEPT ![c] = "inTx"]
  /\ UNCHANGED <<db, last>>
End(c) ==
  /\ pc[c] = "inTx"
  /\ Commit(snap[c], req[c])
  /\ pc' = [pc EXCEPT ![c] = "idle"]
  /\ snap' = [snap EXCEPT ![c] = EmptyDB]
  /\ req' = [req EXCEPT ![c] = NoReq]

\* The org handlers add a live user to an org or invite it.
AddMember ==
  /\ Serial
  /\ \E u \in UserIds, o \in Orgs :
       /\ Live(db, u)
       /\ \/ db' = [db EXCEPT !.mem = @ \cup {<<u, o>>}]
          \/ db' = [db EXCEPT !.inv = @ \cup {<<u, o>>}]
  /\ UNCHANGED <<pc, snap, req, last>>

Init ==
  /\ db = EmptyDB
  /\ pc = [c \in Clients |-> "idle"]
  /\ snap = [c \in Clients |-> EmptyDB]
  /\ req = [c \in Clients |-> NoReq]
  /\ last = 0

Next == AddMember \/ \E c \in Clients : Begin(c) \/ End(c)

Spec == Init /\ [][Next]_vars

(***************************************************************************)
(* Pagination (GetUsers, GetUserOrgs): ask the db for limit+1 rows when a  *)
(* limit is set, report hasMore when more than limit came back and        *)
(* truncate to limit.  list is what db.GetUsers would return unlimited    *)
(* after the start name.                                                   *)
(***************************************************************************)
MinOf(a, b) == IF a < b THEN a ELSE b
DbFetch(list, lim) == IF lim > 0 THEN SubSeq(list, 1, MinOf(lim, Len(list))) ELSE list
(* mutant: the limit is passed to the db unincremented *)
PageNoExtraRow(list, limit) ==
  LET rows == DbFetch(list, limit)
      more == limit > 0 /\ Len(rows) > limit
  IN [items |-> IF more THEN SubSeq(rows, 1, limit) ELSE rows, hasMore |-> more]
Page(list, limit) ==
  LET rows == DbFetch(list, IF limit > 0 THEN limit + 1 ELSE limit)
      more == limit > 0 /\ Len(rows) > limit
  IN [items |-> IF more THEN SubSeq(rows, 1, limit) ELSE rows, hasMore |-> more]

\* A client walking the pages: each request starts after the last item it
\* received and it stops when hasMore is false.
RECURSIVE Walk(_, _)
Walk(list, limit) ==
  LET p == Page(list, limit) IN
  IF p.hasMore /\ Len(p.items) > 0
  THEN p.items \o Walk(SubSeq(list, Len(p.items) + 1, Len(list)), limit)
  ELSE p.items

(***************************************************************************)
(* Properties                                                              *)
(***************************************************************************)
TypeOK ==
  /\ db \in DB
  /\ pc \in [Clients -> {"idle", "inTx"}]
  /\ \A u \in UserIds : db.user[u].state = "none" => u \notin db.pg
  /\ \A l \in LAIds : db.la[l].state # "none" => db.la[l].user \in UserIds

\* No two live users have the same name: CreateUser and UpdateUser look the
\* name up with GetUserByName before writing it.
UserNamesUnique ==
  \A u, v \in UserIds :
    Live(db, u) /\ Live(db, v) /\ u # v => db.user[u].name # db.user[v].name

\* Every linked account, token, membership and invitation belongs to a live
\* user: DeleteUser removes them all in the transaction that deletes the
\* user, and every creating handler checks that the user exists.
NoOrphanedUserObjects ==
  /\ \A l \in LAIds : LiveLA(db, l) => Live(db, db.la[l].user)
  /\ \A t \in db.tok \cup db.mem \cup db.inv : Live(db, t[1])

\* A remote user is linked to at most one account: CreateUser and
\* CreateUserLA check GetLinkedAccountByRemoteUserIDandSource.
LinkedAccountKeyUnique ==
  \A l, m \in LAIds :
    LiveLA(db, l) /\ LiveLA(db, m) /\ l # m =>
      <<db.la[l].rs, db.la[l].ruid>> # <<db.la[m].rs, db.la[m].ruid>>

\* A step changes or removes an existing linked account or token only for a
\* request made for its owner (DeleteUserLA/UpdateUserLA compare
\* user.ID with la.UserID; token handlers look tokens up under the user).
OwnerOnlyChangesOwnObjects ==
  [][ /\ \A l \in LAIds :
           LiveLA(db, l) /\ db'.la[l] # db.la[l] =>
             last' = db.la[l].user
      /\ \A t \in db.tok \ db'.tok : last' = t[1] ]_vars

\* GetUsers' page matches its reference (the first limit rows, hasMore
\* exactly when rows remain) on every list up to MaxPage rows, and a client
\* paging through the current live users with any limit receives every one
\* of them, in order, each once.
PaginationMatchesReference ==
  \A lim \in 0..3 :
    LET users == SelectSeq([u \in UserIds |-> u], LAMBDA u : Live(db, u)) IN
    /\ \A n \in 0..MaxPage :
         LET list == [i \in 1..n |-> i] IN
         Page(list, lim) = [items |-> IF lim = 0 THEN list ELSE SubSeq(list, 1, MinOf(lim, n)),
                            hasMore |-> lim > 0 /\ n > lim]
    /\ Walk(users, lim) = users

====
