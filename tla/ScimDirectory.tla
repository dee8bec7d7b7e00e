---------------------------- MODULE ScimDirectory -----------------------------
(****************************************************************************)
(* SCIM provisioning (api/scim.py, the /scim/v2 routes of api/app.py) and   *)
(* the authority an approver gets from it (_resolve_oidc_approver,          *)
(* ScimStore.resolve_identity).  Several workers share the tables, so a     *)
(* request is two steps: what it reads and checks, then its commit, which   *)
(* the constraints of db/models.py may refuse.                              *)
(*                                                                          *)
(* A user row is [name, active], a group row [name]; a resource without a   *)
(* row is NoResource.  Ids are uuids: never drawn twice.  External ids, the *)
(* display names of users and the error bodies are left out.                *)
(****************************************************************************)
EXTENDS Integers, Sequences, FiniteSets, SequencesExt

CONSTANTS
  UserIds, GroupIds,
  UserNames, GroupNames,
  NoResource,
  Provisioners,        \* requests of the identity provider in flight
  NoRequest,
  ApproverRoles,       \* approvers: name -> roles
  TokenGroups,         \* name -> groups its verified token claims
  GroupRoleMap,        \* oidc_group_role_map: group name -> roles
  MaxPatchOps          \* operations of one group PATCH


ASSUME DirectoryAssumption ==
  /\ UserIds \cap GroupIds = {}
  /\ MaxPatchOps \in Nat \ {0}

VARIABLES
  directory,       \* foundry_scim_users, foundry_scim_groups
  members,    \* foundry_scim_group_members
  drawn,      \* ids drawn so far
  request     \* provisioner -> its transaction

directoryVars == <<directory, members, drawn, request>>

Resources == UserIds \cup GroupIds
Edges == GroupIds \X UserIds
UserRows == [name : UserNames, active : BOOLEAN]
GroupRows == [name : GroupNames]

\* was and row are the row before and after (NoResource: created, deleted); cut
\* are the membership rows it deletes, put the ones it inserts; exact says that
\* it replaces the whole list and no other commit came since it read (history).
Transactions ==
  [id : Resources, was : UserRows \cup GroupRows \cup {NoResource},
   row : UserRows \cup GroupRows \cup {NoResource},
   cut : SUBSET Edges, put : SUBSET Edges, exact : BOOLEAN]

InitDirectory ==
  /\ directory = [r \in Resources |-> NoResource]
  /\ members = {}
  /\ drawn = {}
  /\ request = [p \in Provisioners |-> NoRequest]

Users == {u \in UserIds : directory[u] # NoResource}
Groups == {g \in GroupIds : directory[g] # NoResource}
Named(ids, name) == {r \in ids : directory[r] # NoResource /\ directory[r].name = name}
Of(g) == {e \in members : e[1] = g}

Open(p, id, row, cut, put, exact) ==
  /\ request[p] = NoRequest
  /\ request' = [request EXCEPT ![p] =
       [id |-> id, was |-> directory[id], row |-> row,
        cut |-> cut, put |-> put, exact |-> exact]]
  /\ UNCHANGED <<directory, members>>

\* _validate_user_ids: members that are not users refuse the request.
ValidMembers(ids) == ids \subseteq Users

Drawn(ids) == CHOOSE id \in ids \ drawn : TRUE

----------------------------------------------------------------------------
\* What a request reads and checks; a refused one leaves no transaction.
CreateUser(p, name, active) ==
  /\ UserIds \ drawn # {}
  /\ Named(UserIds, name) = {}
  /\ Open(p, Drawn(UserIds), [name |-> name, active |-> active], {}, {}, FALSE)
  /\ drawn' = drawn \cup {Drawn(UserIds)}

ReplaceUser(p, u, name, active) ==
  /\ u \in Users
  /\ Named(UserIds \ {u}, name) = {}
  /\ Open(p, u, [name |-> name, active |-> active], {}, {}, FALSE)
  /\ UNCHANGED drawn

\* patch_user checks no name: the constraint does, at commit.
PatchUser(p, u, row) ==
  /\ u \in Users
  /\ Open(p, u, row, {}, {}, FALSE)
  /\ UNCHANGED drawn

DeleteUser(p, u) ==
  /\ u \in Users
  /\ Open(p, u, NoResource, {e \in members : e[2] = u}, {}, FALSE)
  /\ UNCHANGED drawn

CreateGroup(p, name, wanted) ==
  /\ GroupIds \ drawn # {}
  /\ Named(GroupIds, name) = {}
  /\ ValidMembers(wanted)
  /\ Open(p, Drawn(GroupIds), [name |-> name], {}, {Drawn(GroupIds)} \X wanted, TRUE)
  /\ drawn' = drawn \cup {Drawn(GroupIds)}

ReplaceGroup(p, g, name, wanted) ==
  /\ g \in Groups
  /\ Named(GroupIds \ {g}, name) = {}
  /\ ValidMembers(wanted)
  /\ Open(p, g, [name |-> name], Of(g), {g} \X wanted, TRUE)
  /\ UNCHANGED drawn

PatchOps ==
  [op : {"add", "replace", "remove"}, ids : SUBSET UserIds] \cup
  [op : {"remove all"}, ids : {{}}]

\* _apply_group_op on the members: add inserts who is not there yet, replace
\* deletes every row first, remove deletes the rows of those it names.
Applied(g, draft, op) ==
  LET named == {g} \X op.ids
      there == (Of(g) \ draft.cut) \cup draft.put
  IN CASE op.op = "add" -> [draft EXCEPT !.put = @ \cup (named \ there)]
       [] op.op = "replace" -> [cut |-> Of(g), put |-> named]
       [] op.op = "remove" -> [cut |-> draft.cut \cup (Of(g) \cap named),
                               put |-> draft.put \ named]
       [] op.op = "remove all" -> [cut |-> Of(g), put |-> {}]

PatchGroup(p, g, name, ops) ==
  /\ g \in Groups
  /\ \A i \in DOMAIN ops : ops[i].op \in {"add", "replace"} => ValidMembers(ops[i].ids)
  /\ LET draft == FoldLeft(LAMBDA d, op : Applied(g, d, op),
                           [cut |-> {}, put |-> {}], ops)
     IN Open(p, g, [name |-> name], draft.cut, draft.put, FALSE)
  /\ UNCHANGED drawn

DeleteGroup(p, g) ==
  /\ g \in Groups
  /\ Open(p, g, NoResource, Of(g), {}, FALSE)
  /\ UNCHANGED drawn

----------------------------------------------------------------------------
\* Slip: an UPDATE that writes every column back.
WholeRow(now, was, row) == row

\* The session's UPDATE writes only the columns the request changed.
Merged(now, was, row) ==
  [column \in DOMAIN row |-> IF row[column] = was[column] THEN now[column]
                                                          ELSE row[column]]

Written(t) ==
  IF t.was = NoResource \/ t.row = NoResource THEN t.row
  ELSE IF directory[t.id] = NoResource THEN NoResource
  ELSE Merged(directory[t.id], t.was, t.row)

RowsAfter(t) == [directory EXCEPT ![t.id] = Written(t)]

\* The membership rows that the foreign keys allow: a group that is there and
\* a user that is.  Deleting either deletes its membership rows.
Keyed(t) ==
  {e \in Edges : RowsAfter(t)[e[1]] # NoResource /\ RowsAfter(t)[e[2]] # NoResource}

EdgesAfter(t) == ((members \ t.cut) \cup t.put) \cap Keyed(t)

UniqueNames(table) ==
  \A ids \in {UserIds, GroupIds} : \A r, s \in ids :
    (table[r] # NoResource /\ table[s] # NoResource /\ table[r].name = table[s].name) => r = s

\* The unique and foreign keys, and the updated row still being there.
Accepted(t) ==
  /\ t.row # NoResource => Written(t) # NoResource
  /\ UniqueNames(RowsAfter(t))
  /\ t.put \cap (members \ t.cut) = {}
  /\ t.put \subseteq Keyed(t)

\* A membership row another request put in since was not there to be cut.
CommitDirectory(p) ==
  /\ request[p] # NoRequest
  /\ LET t == request[p]
     IN /\ Accepted(t)
        /\ directory' = RowsAfter(t)
        /\ members' = EdgesAfter(t)
        /\ request' = [q \in Provisioners |->
             IF q = p \/ request[q] = NoRequest THEN NoRequest
             ELSE [request[q] EXCEPT !.cut = @ \ t.put, !.exact = FALSE]]
  /\ UNCHANGED drawn

\* A refused commit, or a worker that died, rolls back.
RollBackDirectory(p) ==
  /\ request[p] # NoRequest
  /\ request' = [request EXCEPT ![p] = NoRequest]
  /\ UNCHANGED <<directory, members, drawn>>

NextDirectory ==
  \E p \in Provisioners :
    \/ \E n \in UserNames, a \in BOOLEAN : CreateUser(p, n, a)
    \/ \E u \in UserIds, n \in UserNames, a \in BOOLEAN : ReplaceUser(p, u, n, a)
    \/ \E u \in UserIds, row \in UserRows : PatchUser(p, u, row)
    \/ \E u \in UserIds : DeleteUser(p, u)
    \/ \E n \in GroupNames, w \in SUBSET UserIds : CreateGroup(p, n, w)
    \/ \E g \in GroupIds, n \in GroupNames, w \in SUBSET UserIds : ReplaceGroup(p, g, n, w)
    \/ \E g \in GroupIds, n \in GroupNames, k \in 0..MaxPatchOps :
         \E ops \in [1..k -> PatchOps] : PatchGroup(p, g, n, ops)
    \/ \E g \in GroupIds : DeleteGroup(p, g)
    \/ CommitDirectory(p)
    \/ RollBackDirectory(p)

----------------------------------------------------------------------------
\* resolve_identity: the roles of the groups an active user is in.
DirectoryRoles(name) ==
  UNION {GroupRoleMap[directory[e[1]].name] :
           e \in {m \in members : m[2] \in Named(UserIds, name)}}

\* The roles the approval endpoint grants a verified name: its configured ones,
\* those of its token's groups and the directory's; none once deactivated.
Authority(name) ==
  IF \E u \in Named(UserIds, name) : ~directory[u].active THEN {}
  ELSE ApproverRoles[name]
         \cup UNION {GroupRoleMap[g] : g \in TokenGroups[name]}
         \cup DirectoryRoles(name)

DirectoryTypeOK ==
  /\ directory \in [Resources -> UserRows \cup GroupRows \cup {NoResource}]
  /\ members \subseteq Edges
  /\ drawn \subseteq Resources
  /\ request \in [Provisioners -> Transactions \cup {NoRequest}]

\* Names are unique and every membership joins a user and a group that exist.
DirectoryIntact ==
  /\ UniqueNames(directory)
  /\ \A e \in members : directory[e[1]] # NoResource /\ directory[e[2]] # NoResource

Commits(p) ==
  /\ CommitDirectory(p)
  /\ <<directory, members>>' # <<directory, members>>

\* A PUT that no other commit overlapped leaves exactly the members it names.
PutsAreExact ==
  \A p \in Provisioners :
    (Commits(p) /\ request[p].exact) =>
      {e \in members' : e[1] = request[p].id} = request[p].put

\* What only takes away: members cut, a group or an active user deleted, a user
\* deactivated under its own name.
Retracts(t) ==
  /\ t.put = {}
  /\ \/ t.id \in GroupIds /\ t.row \in {t.was, NoResource}
     \/ t.id \in UserIds /\ t.was # NoResource /\ directory[t.id] # NoResource /\
        (IF t.row = NoResource THEN directory[t.id].active
         ELSE t.row.name = t.was.name /\ ~t.row.active)

\* A retraction leaves no identity with more authority than it had.
RetractionsNarrow ==
  \A p \in Provisioners : (Commits(p) /\ Retracts(request[p])) =>
    \A name \in UserNames : Authority(name)' \subseteq Authority(name)

\* A deactivated user is made active only by a request that read it inactive:
\* one that was under way when the user was deactivated does not undo it.
DeactivationStands ==
  \A p \in Provisioners, u \in UserIds :
    (Commits(p) /\ u \in Users /\ ~directory[u].active
       /\ directory'[u] # NoResource /\ directory'[u].active) =>
      request[p].id = u /\ ~request[p].was.active
===============================================================================
