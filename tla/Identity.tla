------------------------------ MODULE Identity ------------------------------
(***************************************************************************)
(* Accounts, families, memberships and invitations.                        *)
(*                                                                         *)
(* A request resolves its principal, is authorised by an unlocked read,    *)
(* and then runs one transaction.  Every statement sees what is committed  *)
(* when it runs, and the writes become visible at the commit.  So a        *)
(* transaction is its lock statements (RowLocks) and a last step that      *)
(* writes and commits.                                                     *)
(***************************************************************************)
EXTENDS RowLocks

CONSTANTS
    Subjects,      \* (issuer, subject) pairs the identity provider vouches for
    Users,         \* user ids, used once each
    NumFamilies,   \* family ids are 1..NumFamilies, used once each, in their order
    Invitations,   \* invitation ids, each with its token, used once each
    NoUser,
    NoInv

Families == 1..NumFamilies
NoFamily == 0

ASSUME IdentityAssumption ==
    /\ NoUser \notin Users
    /\ NoInv \notin Invitations
    /\ NumFamilies \in Nat
    /\ IsFiniteSet(Users)
    /\ Subjects \cap {"unused", "deleted"} = {}

VARIABLES
    account,   \* UserRow: the subject of a user id, or "unused" or "deleted"
    family,    \* FamilyRow: "unused", "live" or "deleted"
    creator,   \* FamilyRow.created_by_user_id
    role,      \* FamilyMembershipRow.role of a user in a family, or "none"
    inv,       \* FamilyInvitationRow
    late,      \* the invitations whose expires_at has passed
    req        \* the request a thread serves

rowVars == <<account, family, creator, role, inv>>
vars    == <<account, family, creator, role, inv, late, req, held, want>>

Roles == {"owner", "editor", "viewer"}

\* FamilyRole and CAPABILITIES_BY_ROLE, for the capabilities these routes ask for.
CapabilitiesFor(r) ==
    CASE r = "viewer" -> {"read_family", "read_members"}
      [] r = "editor" -> {"read_family", "read_members"}
      [] r = "owner"  -> {"read_family", "read_members", "manage_members", "delete_family"}
      [] OTHER        -> {}

InvitationStatus == {"pending", "accepted", "revoked", "expired"}

InvitationRow ==
    [status     : InvitationStatus \cup {"unused", "deleted"},
     family     : Families \cup {NoFamily},
     role       : Roles \cup {"none"},
     createdBy  : Users \cup {NoUser},
     acceptedBy : Users \cup {NoUser},
     revokedBy  : Users \cup {NoUser}]

NoInvitation ==
    [status |-> "unused", family |-> NoFamily, role |-> "none",
     createdBy |-> NoUser, acceptedBy |-> NoUser, revokedBy |-> NoUser]

Ops == {"create_family", "change_member_role", "remove_member", "delete_family",
        "delete_account", "create_invitation", "list_invitations",
        "revoke_invitation", "preview", "accept_invitation"}

Stages == {"idle", "insert_user", "route", "family", "requester", "owners", "member",
           "inv", "reference", "user", "families", "memberships", "creators", "commit"}

\* The locals of a request.  seen holds the membership entities a session has loaded.
Request ==
    [op : Ops \cup {"none"}, at : Stages, subject : Subjects \cup {"none"},
     user : Users \cup {NoUser}, family : Families \cup {NoFamily},
     target : Users \cup {NoUser}, role : Roles \cup {"none"},
     inv : Invitations \cup {NoInv}, owners : 0..Cardinality(Users),
     seen : [Families -> Roles \cup {"none"}]]

NoRequest ==
    [op |-> "none", at |-> "idle", subject |-> "none", user |-> NoUser,
     family |-> NoFamily, target |-> NoUser, role |-> "none", inv |-> NoInv,
     owners |-> 0, seen |-> [f \in Families |-> "none"]]

UserRow(u)      == <<"user", u>>
FamilyRow(f)    == <<"family", f>>
MemberRow(f, u) == <<"member", f, u>>
InvRow(i)       == <<"invitation", i>>

LiveUsers    == {u \in Users : account[u] \in Subjects}
LiveFamilies == {f \in Families : family[f] = "live"}
Rows(f)      == {i \in Invitations : inv[i].status \in InvitationStatus /\ inv[i].family = f}
Owners(f)    == {u \in Users : role[f][u] = "owner"}
OwnerRows(f) == {MemberRow(f, u) : u \in Owners(f)}
Memberships(u) == {f \in Families : role[f][u] # "none"}

TypeOK ==
    /\ account \in [Users -> Subjects \cup {"unused", "deleted"}]
    /\ family \in [Families -> {"unused", "live", "deleted"}]
    /\ creator \in [Families -> Users \cup {NoUser}]
    /\ role \in [Families -> [Users -> Roles \cup {"none"}]]
    /\ inv \in [Invitations -> InvitationRow]
    /\ late \subseteq Invitations
    /\ req \in [Threads -> Request]
    /\ \A s, t \in Threads : s # t => held[s] \cap held[t] = {}

Init ==
    /\ account = [u \in Users |-> "unused"]
    /\ family = [f \in Families |-> "unused"]
    /\ creator = [f \in Families |-> NoUser]
    /\ role = [f \in Families |-> [u \in Users |-> "none"]]
    /\ inv = [i \in Invitations |-> NoInvitation]
    /\ late = {}
    /\ req = [t \in Threads |-> NoRequest]
    /\ InitLocks

-----------------------------------------------------------------------------
(* Steps of a transaction.                                                 *)

LockNext(t) == LockRow(t) /\ UNCHANGED <<rowVars, late, req>>

\* Thread t has all the rows of the statement at stage s.
Runs(t, s) == req[t].at = s /\ Granted(t)

\* Go on to the statement at stage s, which locks rows.
Proceed(t, r, s, rows) ==
    /\ req' = [req EXCEPT ![t] = [r EXCEPT !.at = s]]
    /\ Statement(t, AnyOrder(t, rows))

\* Commit or roll back, and answer.
Finish(t) == ReleaseAll(t) /\ req' = [req EXCEPT ![t] = NoRequest]

\* A refusal raises inside the transaction: nothing it wrote is kept.
Refuse(t) == Finish(t) /\ UNCHANGED <<rowVars, late>>

DeadlockAbort(t) == (\E s \in Threads \ {t} : InCycle(s, t)) /\ Refuse(t)

-----------------------------------------------------------------------------
(* Signing in, routing and authorisation.                                  *)

\* Bound: a subject without an account signs in while there is an id left for it.
RoomForUser ==
    Cardinality({t \in Threads : req[t].at = "insert_user"})
      < Cardinality({u \in Users : account[u] = "unused"})

\* The first read of resolve_principal: an account of the subject is the principal.
ResolvePrincipal(t, s) ==
    /\ req[t].at = "idle"
    /\ LET known == {u \in Users : account[u] = s}
       IN  /\ known = {} => RoomForUser
           /\ req' = [req EXCEPT ![t] = [@ EXCEPT
                     !.subject = s,
                     !.at      = IF known = {} THEN "insert_user" ELSE "route",
                     !.user    = IF known = {} THEN NoUser ELSE CHOOSE u \in known : TRUE]]
    /\ UNCHANGED <<rowVars, late, held, want>>

\* Its insert: the unique constraint refuses a second account of the subject, and
\* the request adopts the one that won.
InsertUser(t) ==
    LET s     == req[t].subject
        known == {u \in Users : account[u] = s}
        fresh == {u \in Users : account[u] = "unused"}
        becomes(u) == req' = [req EXCEPT ![t] = [@ EXCEPT !.at = "route", !.user = u]]
    IN  /\ req[t].at = "insert_user"
        /\ \/ \E u \in known : becomes(u) /\ UNCHANGED account
           \/ /\ known = {}
              /\ \E u \in fresh : becomes(u) /\ account' = [account EXCEPT ![u] = s]
        /\ UNCHANGED <<family, creator, role, inv, late, held, want>>

\* FamilyAuthorizationService.authorize and the route's capability: one unlocked join.
Authorized(u, f, capability) ==
    f \in LiveFamilies /\ capability \in CapabilitiesFor(role[f][u])

\* A routed request enters its transaction with its first statement.
Enter(t, r, s, rows) ==
    /\ Proceed(t, [r EXCEPT !.user = req[t].user], s, rows)
    /\ UNCHANGED <<rowVars, late>>

\* The route refuses, or answers without a change.
RouteEnds(t) == Refuse(t)

RouteChangeRole(t, f, u, r) ==
    /\ Authorized(req[t].user, f, "manage_members")
    /\ Enter(t, [NoRequest EXCEPT !.op = "change_member_role", !.family = f,
                                  !.target = u, !.role = r],
             "family", {FamilyRow(f)})

RouteRemoveMember(t, f, u) ==
    /\ Authorized(req[t].user, f, "manage_members")
    /\ Enter(t, [NoRequest EXCEPT !.op = "remove_member", !.family = f, !.target = u],
             "family", {FamilyRow(f)})

RouteDeleteFamily(t, f) ==
    /\ Authorized(req[t].user, f, "delete_family")
    /\ Enter(t, [NoRequest EXCEPT !.op = "delete_family", !.family = f],
             "family", {FamilyRow(f)})

\* create_invitation refuses the owner role before it opens its transaction.
RouteCreateInvitation(t, f, r) ==
    /\ Authorized(req[t].user, f, "manage_members")
    /\ r \in {"editor", "viewer"}
    /\ Enter(t, [NoRequest EXCEPT !.op = "create_invitation", !.family = f, !.role = r],
             "family", {FamilyRow(f)})

RouteRevokeInvitation_AnyOrder(t, f, i) ==
    /\ Authorized(req[t].user, f, "manage_members")
    /\ Enter(t, [NoRequest EXCEPT !.op = "revoke_invitation", !.family = f, !.inv = i],
             "family", {FamilyRow(f), InvRow(i)})

RouteRevokeInvitation(t, f, i) ==
    /\ Authorized(req[t].user, f, "manage_members")
    /\ Enter(t, [NoRequest EXCEPT !.op = "revoke_invitation", !.family = f, !.inv = i],
             "family", {FamilyRow(f)})

\* list_invitations expires what it lists with one conditional UPDATE.
RouteListInvitations(t, f) ==
    /\ Authorized(req[t].user, f, "manage_members")
    /\ Enter(t, [NoRequest EXCEPT !.op = "list_invitations", !.family = f],
             "commit",
             {InvRow(i) : i \in {j \in Rows(f) : inv[j].status = "pending" /\ j \in late}})

RouteDeleteAccount(t) ==
    Enter(t, [NoRequest EXCEPT !.op = "delete_account"], "user", {UserRow(req[t].user)})

RouteAcceptInvitation(t, i) ==
    /\ inv[i].status # "unused"
    /\ Enter(t, [NoRequest EXCEPT !.op = "accept_invitation", !.inv = i],
             "inv", {InvRow(i)})

-----------------------------------------------------------------------------
(* Families and memberships.                                               *)

\* create_family: the family and its owner in one transaction.
CreateFamily(t, f) ==
    LET u == req[t].user
    IN  /\ Free(t, UserRow(u))
        /\ IF u \in LiveUsers
           THEN /\ family[f] = "unused"
                /\ family' = [family EXCEPT ![f] = "live"]
                /\ creator' = [creator EXCEPT ![f] = u]
                /\ role' = [role EXCEPT ![f][u] = "owner"]
                /\ Finish(t)
                /\ UNCHANGED <<account, inv, late>>
           ELSE Refuse(t)

\* _lock_family: the row is locked; the family may have gone while it was awaited.
LockedFamily(t) ==
    LET r == req[t]
        f == r.family
    IN  /\ Runs(t, "family")
        /\ UNCHANGED <<rowVars, late>>
        /\ IF f \notin LiveFamilies
           THEN Finish(t)
           ELSE CASE r.op \in {"change_member_role", "remove_member"} ->
                       Proceed(t, r, "owners", OwnerRows(f))
                  [] r.op = "delete_family" ->
                       Proceed(t, r, "requester", {MemberRow(f, r.user)})
                  [] r.op = "create_invitation" ->
                       Proceed(t, r, "commit", {UserRow(r.user)})
                  [] r.op = "revoke_invitation" ->
                       Proceed(t, r, "reference", {InvRow(r.inv)})
                  [] r.op = "accept_invitation" ->
                       Proceed(t, r, "reference", {MemberRow(f, r.user)})

\* _lock_owners counts the owners whose rows it holds.
LockedOwners(t) ==
    LET r == [req[t] EXCEPT !.owners = Cardinality(Owners(req[t].family))]
    IN  /\ Runs(t, "owners")
        /\ UNCHANGED <<rowVars, late>>
        /\ IF r.op = "delete_family"
           THEN IF r.owners # 1
                THEN Finish(t)
                ELSE Proceed(t, r, "commit",
                       {MemberRow(r.family, u) : u \in {v \in Users : role[r.family][v] # "none"}}
                         \cup {InvRow(i) : i \in Rows(r.family)})
           ELSE Proceed(t, r, "commit", {MemberRow(r.family, r.target)})

ChangeMemberRole_NoSoleOwner(t) ==
    LET r == req[t]
    IN  /\ Runs(t, "commit") /\ r.op = "change_member_role"
        /\ IF role[r.family][r.target] = "none"
           THEN Refuse(t)
           ELSE /\ role' = [role EXCEPT ![r.family][r.target] = r.role]
                /\ Finish(t)
                /\ UNCHANGED <<account, family, creator, inv, late>>

\* change_member_role: the last owner is not demoted.
ChangeMemberRole(t) ==
    LET r == req[t]
        old == role[r.family][r.target]
    IN  /\ Runs(t, "commit") /\ r.op = "change_member_role"
        /\ IF old = "none" \/ (old = "owner" /\ r.role # "owner" /\ r.owners <= 1)
           THEN Refuse(t)
           ELSE /\ role' = [role EXCEPT ![r.family][r.target] = r.role]
                /\ Finish(t)
                /\ UNCHANGED <<account, family, creator, inv, late>>

\* remove_member: nor removed.
RemoveMember(t) ==
    LET r == req[t]
        old == role[r.family][r.target]
    IN  /\ Runs(t, "commit") /\ r.op = "remove_member"
        /\ IF old = "none" \/ (old = "owner" /\ r.owners <= 1)
           THEN Refuse(t)
           ELSE /\ role' = [role EXCEPT ![r.family][r.target] = "none"]
                /\ Finish(t)
                /\ UNCHANGED <<account, family, creator, inv, late>>

\* delete_family looks the requester up again under the family's lock.
DeleteFamilyRequester(t) ==
    LET r == req[t]
    IN  /\ Runs(t, "requester")
        /\ UNCHANGED <<rowVars, late>>
        /\ IF role[r.family][r.user] # "owner"
           THEN Finish(t)
           ELSE Proceed(t, r, "owners", OwnerRows(r.family))

\* Its deletes, in one commit.
DeleteFamily(t) ==
    LET r == req[t]
        f == r.family
    IN  /\ Runs(t, "commit") /\ r.op = "delete_family"
        /\ family' = [family EXCEPT ![f] = "deleted"]
        /\ creator' = [creator EXCEPT ![f] = NoUser]
        /\ role' = [role EXCEPT ![f] = [u \in Users |-> "none"]]
        /\ inv' = [i \in Invitations |->
                     IF i \in Rows(f) THEN [NoInvitation EXCEPT !.status = "deleted"] ELSE inv[i]]
        /\ Finish(t)
        /\ UNCHANGED <<account, late>>

-----------------------------------------------------------------------------
(* delete_account.                                                         *)

\* The account's row is locked; its memberships are read without a lock.
DeleteAccountUser(t) ==
    LET r == req[t]
        u == r.user
        seen == [f \in Families |-> role[f][u]]
    IN  /\ Runs(t, "user")
        /\ UNCHANGED <<rowVars, late>>
        /\ IF u \notin LiveUsers
           THEN Finish(t)
           ELSE IF Memberships(u) = {}
           THEN Proceed(t, r, "creators", {FamilyRow(f) : f \in {g \in Families : creator[g] = u}})
           ELSE /\ req' = [req EXCEPT ![t] = [r EXCEPT !.at = "families", !.seen = seen]]
                /\ Statement(t, ByKey(Memberships(u), FamilyRow))

\* Its families are locked: one that has gone refuses the deletion.
DeleteAccountFamilies(t) ==
    LET r == req[t]
        known == {f \in Families : r.seen[f] # "none"}
    IN  /\ Runs(t, "families")
        /\ UNCHANGED <<rowVars, late>>
        /\ IF known \subseteq LiveFamilies
           THEN Proceed(t, r, "memberships", {MemberRow(f, r.user) : f \in Memberships(r.user)})
           ELSE Finish(t)

\* The re-read returns the rows that still exist.  A session keeps the attributes of
\* an entity it has loaded unless the query asks to refresh them, and this one does
\* not: the roles stay those of the first read.
DeleteAccountMemberships(t) ==
    LET r == req[t]
        reread == [f \in Families |-> IF f \in Memberships(r.user) THEN r.seen[f] ELSE "none"]
        owned  == {f \in Families : reread[f] = "owner"}
    IN  /\ Runs(t, "memberships")
        /\ Proceed(t, [r EXCEPT !.seen = reread], "member", UNION {OwnerRows(f) : f \in owned})
        /\ UNCHANGED <<rowVars, late>>

\* Each owned family needs a second owner.
DeleteAccountOwners(t) ==
    LET r == req[t]
        u == r.user
        owned == {f \in Families : r.seen[f] = "owner"}
    IN  /\ Runs(t, "member")
        /\ UNCHANGED <<rowVars, late>>
        /\ IF \E f \in owned : Cardinality(Owners(f)) <= 1
           THEN Finish(t)
           ELSE Proceed(t, r, "creators", {FamilyRow(f) : f \in {g \in Families : creator[g] = u}})

\* UPDATE families, then the three UPDATEs of family_invitations.
DeleteAccountCreators(t) ==
    LET r == req[t]
    IN  /\ Runs(t, "creators")
        /\ Proceed(t, r, "commit",
             {InvRow(i) : i \in {j \in Invitations :
                 r.user \in {inv[j].createdBy, inv[j].acceptedBy, inv[j].revokedBy}}})
        /\ UNCHANGED <<rowVars, late>>

\* A reference to the deleted account becomes NULL.
Forget(u, x) == IF x = u THEN NoUser ELSE x

DeleteAccount(t) ==
    LET u == req[t].user
    IN  /\ Runs(t, "commit") /\ req[t].op = "delete_account"
        /\ creator' = [f \in Families |-> Forget(u, creator[f])]
        /\ inv' = [i \in Invitations |-> [inv[i] EXCEPT
                     !.createdBy = Forget(u, @), !.acceptedBy = Forget(u, @),
                     !.revokedBy = Forget(u, @)]]
        /\ role' = [f \in Families |-> [role[f] EXCEPT ![u] = "none"]]
        /\ account' = [account EXCEPT ![u] = "deleted"]
        /\ Finish(t)
        /\ UNCHANGED <<family, late>>

-----------------------------------------------------------------------------
(* Invitations.                                                            *)

\* expires_at passes.
Expire(i) ==
    /\ inv[i].status \in InvitationStatus \ {"expired"}
    /\ late' = late \cup {i}
    /\ UNCHANGED <<rowVars, req, held, want>>

CreateInvitation(t, i) ==
    LET r == req[t]
    IN  /\ Runs(t, "commit") /\ r.op = "create_invitation"
        /\ IF r.user \in LiveUsers
           THEN /\ inv[i].status = "unused"
                /\ inv' = [inv EXCEPT ![i] = [NoInvitation EXCEPT !.status = "pending",
                             !.family = r.family, !.role = r.role, !.createdBy = r.user]]
                /\ Finish(t)
                /\ UNCHANGED <<account, family, creator, role, late>>
           ELSE Refuse(t)

\* The WHERE clause is evaluated on each row once it is locked.
ListInvitations(t) ==
    LET r == req[t]
    IN  /\ Runs(t, "commit") /\ r.op = "list_invitations"
        /\ inv' = [i \in Invitations |->
                     IF /\ InvRow(i) \in held[t] /\ i \in Rows(r.family)
                        /\ inv[i].status = "pending"
                     THEN [inv[i] EXCEPT !.status = "expired"] ELSE inv[i]]
        /\ Finish(t)
        /\ UNCHANGED <<account, family, creator, role, late>>

\* An accepted or revoked invitation is left alone.
RevokeChecks(t) ==
    LET r == req[t]
    IN  /\ Runs(t, "reference") /\ r.op = "revoke_invitation"
        /\ UNCHANGED <<rowVars, late>>
        /\ IF r.inv \notin Rows(r.family) \/ inv[r.inv].status \in {"accepted", "revoked"}
           THEN Finish(t)
           ELSE Proceed(t, r, "commit", {UserRow(r.user)})

RevokeInvitation(t) ==
    LET r == req[t]
    IN  /\ Runs(t, "commit") /\ r.op = "revoke_invitation"
        /\ IF r.user \in LiveUsers
           THEN /\ inv' = [inv EXCEPT ![r.inv] = [@ EXCEPT !.status = "revoked",
                                                           !.revokedBy = r.user]]
                /\ Finish(t)
                /\ UNCHANGED <<account, family, creator, role, late>>
           ELSE Refuse(t)

\* get_invitation_preview, a public route, reads the row without a lock ...
PreviewRead(t, i) ==
    /\ req[t].at = "idle"
    /\ inv[i].status = "pending" /\ i \in late
    /\ Proceed(t, [NoRequest EXCEPT !.op = "preview", !.inv = i], "commit", {InvRow(i)})
    /\ UNCHANGED <<rowVars, late>>

\* ... and writes the status it decided on by primary key.
PreviewExpire(t) ==
    LET i == req[t].inv
    IN  /\ Runs(t, "commit") /\ req[t].op = "preview"
        /\ IF inv[i].status = "deleted"
           THEN Refuse(t)
           ELSE /\ inv' = [inv EXCEPT ![i].status = "expired"]
                /\ Finish(t)
                /\ UNCHANGED <<account, family, creator, role, late>>

AcceptChecks_AnyStatus(t) ==
    LET r == req[t]
        row == inv[r.inv]
    IN  /\ Runs(t, "inv")
        /\ UNCHANGED <<rowVars, late>>
        /\ IF row.status \in {"deleted", "revoked"} \/ r.inv \in late
           THEN Finish(t)
           ELSE Proceed(t, [r EXCEPT !.family = row.family], "family",
                        {FamilyRow(row.family)})

\* accept_invitation, under the invitation's lock: only a pending invitation whose
\* time has not passed goes on.  The EXPIRED it writes is rolled back with the raise.
AcceptChecks(t) ==
    LET r == req[t]
        row == inv[r.inv]
    IN  /\ Runs(t, "inv")
        /\ UNCHANGED <<rowVars, late>>
        /\ IF row.status # "pending" \/ r.inv \in late
           THEN Finish(t)
           ELSE Proceed(t, [r EXCEPT !.family = row.family], "family",
                        {FamilyRow(row.family)})

AcceptReference(t) ==
    /\ Runs(t, "reference") /\ req[t].op = "accept_invitation"
    /\ Proceed(t, req[t], "commit", {UserRow(req[t].user)})
    /\ UNCHANGED <<rowVars, late>>

\* A member keeps the role it has; anyone else gets the intended one.
AcceptInvitation(t) ==
    LET r == req[t]
        f == r.family
        joins == role[f][r.user] = "none"
    IN  /\ Runs(t, "commit") /\ r.op = "accept_invitation"
        /\ IF r.user \in LiveUsers
           THEN /\ inv' = [inv EXCEPT ![r.inv] = [@ EXCEPT !.status = "accepted",
                                                           !.acceptedBy = r.user]]
                /\ role' = IF joins THEN [role EXCEPT ![f][r.user] = inv[r.inv].role] ELSE role
                /\ Finish(t)
                /\ UNCHANGED <<account, family, creator, late>>
           ELSE Refuse(t)

-----------------------------------------------------------------------------

Route(t) == req[t].at = "route" /\
   (\/ RouteEnds(t)
    \/ \E f \in Families : \/ CreateFamily(t, f)
                           \/ RouteDeleteFamily(t, f)
                           \/ RouteListInvitations(t, f)
    \/ \E f \in Families, u \in Users : RouteRemoveMember(t, f, u)
    \/ \E f \in Families, u \in Users, r \in Roles : RouteChangeRole(t, f, u, r)
    \/ \E f \in Families, r \in Roles : RouteCreateInvitation(t, f, r)
    \/ \E f \in Families, i \in Invitations : RouteRevokeInvitation(t, f, i)
    \/ RouteDeleteAccount(t)
    \/ \E i \in Invitations : RouteAcceptInvitation(t, i))

Transact(t) ==
    \/ LockNext(t)
    \/ LockedFamily(t)
    \/ LockedOwners(t)
    \/ ChangeMemberRole(t)
    \/ RemoveMember(t)
    \/ DeleteFamilyRequester(t)
    \/ DeleteFamily(t)
    \/ DeleteAccountUser(t)
    \/ DeleteAccountFamilies(t)
    \/ DeleteAccountMemberships(t)
    \/ DeleteAccountOwners(t)
    \/ DeleteAccountCreators(t)
    \/ DeleteAccount(t)
    \/ \E i \in Invitations : CreateInvitation(t, i)
    \/ ListInvitations(t)
    \/ RevokeChecks(t)
    \/ RevokeInvitation(t)
    \/ PreviewExpire(t)
    \/ AcceptChecks(t)
    \/ AcceptReference(t)
    \/ AcceptInvitation(t)
    \/ DeadlockAbort(t)

Next ==
    \/ \E t \in Threads : \/ \E s \in Subjects : ResolvePrincipal(t, s)
                          \/ InsertUser(t)
                          \/ Route(t)
                          \/ \E i \in Invitations : PreviewRead(t, i)
                          \/ Transact(t)
    \/ \E i \in Invitations : Expire(i)

Spec == Init /\ [][Next]_vars

-----------------------------------------------------------------------------
(* Properties.                                                             *)

\* Two first requests of one person leave one account (resolve_principal).
OneAccountPerSubject ==
    \A u, v \in LiveUsers : account[u] = account[v] => u = v

\* Every row that names a user names one that exists, and members and invitations
\* belong to families that exist, whatever delete_account and delete_family race with.
ReferencesLive ==
    /\ \A f \in Families, u \in Users : role[f][u] # "none" => f \in LiveFamilies /\ u \in LiveUsers
    /\ \A f \in Families : creator[f] \in LiveUsers \cup {NoUser}
    /\ \A i \in Invitations :
          /\ {inv[i].createdBy, inv[i].acceptedBy, inv[i].revokedBy} \subseteq LiveUsers \cup {NoUser}
          /\ inv[i].status \in InvitationStatus => inv[i].family \in LiveFamilies

\* A family has an owner (SoleOwnerError: "a family must always retain at least one
\* owner"), for as long as it exists.
FamilyHasOwner == \A f \in LiveFamilies : Owners(f) # {}

\* A role change of u in f came after t, which deletes u's account, read it.
StaleRead(t, f) == req[t].op = "delete_account" /\ req[t].seen[f] # role[f][req[t].user]

\* The only step that takes a family's last owner is an account deletion that
\* decided on a role it read before it locked the family.
LastOwnerKept ==
    [][\A f \in LiveFamilies :
          Owners(f) # {} /\ Owners(f)' = {} /\ family'[f] = "live"
            => \E t \in Threads : DeleteAccount(t) /\ StaleRead(t, f)]_vars

\* A family is deleted by a request of its only owner, though the route authorised
\* the request before the family was locked.
DeletedBySoleOwner ==
    [][\A f \in LiveFamilies :
          family'[f] # "live"
            => \E t \in Threads : req[t].op = "delete_family" /\ Owners(f) = {req[t].user}]_vars

\* A user joins an existing family only with the role of a pending invitation to it,
\* which the same step uses up: no invitation admits two people, and none admits
\* anyone once it is revoked.
JoinsByInvitation ==
    [][\A f \in LiveFamilies, u \in Users :
          role[f][u] = "none" /\ role'[f][u] # "none"
            => \E i \in Rows(f) : /\ inv[i].status = "pending" /\ inv[i].role = role'[f][u]
                                  /\ inv'[i].status = "accepted" /\ inv'[i].acceptedBy = u]_vars

\* An accepted invitation keeps that status, unless a preview that read it pending
\* writes EXPIRED over it.
AcceptedIsFinal ==
    [][\A i \in Invitations :
          inv[i].status = "accepted" /\ inv'[i].status \notin {"accepted", "deleted"}
            => \E t \in Threads : PreviewExpire(t) /\ req[t].inv = i]_vars

\* The requests that lock the family before any other row.
FamilyFirst == {"change_member_role", "remove_member", "delete_family",
                "create_invitation", "revoke_invitation"}

\* Requests that lock the family's row before any other never wait for each other in
\* a circle, whatever they lock next.  (accept_invitation, delete_account and
\* list_invitations lock other rows first, and do deadlock.)
FamilyFirstNeverDeadlocks ==
    \A s, t \in Threads :
       s # t /\ InCycle(s, t) => ~ {req[s].op, req[t].op} \subseteq FamilyFirst

\* Accounts, families and invitations in every state: one account for a person although two
\* first requests race, no row that refers to a deleted one, and no circle among requests
\* that lock the family first (resolve_principal, delete_account, revoke_invitation).
IdentityInv == TypeOK /\ OneAccountPerSubject /\ ReferencesLive /\ FamilyFirstNeverDeadlocks

\* What no request does to a family: take its last owner (but for the stale read of
\* delete_account), or delete it for anyone but its only owner (change_member_role,
\* remove_member, delete_account, delete_family).
OwnersAreKept == LastOwnerKept /\ DeletedBySoleOwner

\* What no request does with an invitation: admit a second person, admit anyone after it was
\* revoked, or take back an acceptance (accept_invitation, revoke_invitation).
InvitationsAdmitOnce == JoinsByInvitation /\ AcceptedIsFinal

=============================================================================
