------------------------------ MODULE Accounts ------------------------------
(***************************************************************************)
(* How one person comes into an organisation, and what he may do there: an *)
(* invitation he accepts, or an account a manager makes for him with       *)
(* compensation when a step of it fails; deactivation and a new role.      *)
(* src/invitations/invitations.service.ts, src/users/users.service.ts.     *)
(*                                                                         *)
(* A transaction goes statement by statement: what it has written is in    *)
(* its own record until it commits, and the row of an invitation it has    *)
(* written is locked for the others.                                       *)
(***************************************************************************)
EXTENDS Integers

CONSTANTS
  Offers,          \* [role, grants]: what is offered, never two of them alike
  CallerGrants,    \* what the managers hold themselves
  AllGrants,       \* app_permission
  NoOne, NoRole,
  Inviters,        \* calls of createInvitation
  Accepters,       \* calls of accept
  Creators         \* calls of createUser

ASSUME AccountsAssumption ==
  /\ Offers \subseteq [role : {o.role : o \in Offers}, grants : SUBSET AllGrants]
  /\ \A o \in Offers : o.role # NoRole
  /\ NoOne \notin Inviters \cup Accepters \cup Creators
  /\ Inviters \cap Accepters = {} /\ Accepters \cap Creators = {}

InvitationIds == Inviters   \* an invitation goes by the call that inserted it

VARIABLES
  invitation,      \* organisation_invitations with its permission rows
  rowLock,
  member,          \* team_members and user_permission of the person
  memberLock,      \* his primary key, inserted and not committed
  user,            \* auth.users: his account
  inviter, accepter, creator

accountVars == <<invitation, rowLock, member, memberLock, user, inviter, accepter, creator>>

NoOffer == [role |-> NoRole, grants |-> {}]
NoInvitation == [status |-> "none", offer |-> NoOffer]
NoMember == [role |-> NoRole, grants |-> {}, driver |-> FALSE]
NoUser == [exists |-> FALSE, confirmed |-> FALSE, phone |-> FALSE, banned |-> FALSE]
NoCallYet == [at |-> "idle", offer |-> NoOffer, row |-> NoOne]

AccountsInit ==
  /\ invitation = [i \in InvitationIds |-> NoInvitation]
  /\ rowLock = [i \in InvitationIds |-> NoOne]
  /\ member = NoMember
  /\ memberLock = NoOne
  /\ user \in {NoUser, [NoUser EXCEPT !.exists = TRUE]}
  /\ inviter = [i \in Inviters |-> NoCallYet]
  /\ accepter = [a \in Accepters |-> NoCallYet]
  /\ creator = [n \in Creators |-> NoCallYet]

(* Nobody grants what he does not hold; unknown roles and permissions are  *)
(* refused before.                                                         *)
MayOffer == {o \in Offers : o.grants \subseteq CallerGrants}

Pending(i) == invitation[i].status = "pending"

-----------------------------------------------------------------------------
(* createInvitation.                                                       *)

Inviting(i, at) == inviter[i].at = at
InviterAt(i, at) == inviter' = [inviter EXCEPT ![i].at = at]
OthersOfInviting == <<member, memberLock, user, accepter, creator>>

(* The member check comes before the transaction.                          *)
AskToInvite(i) ==
  /\ Inviting(i, "idle")
  /\ \E o \in MayOffer :
       inviter' = [inviter EXCEPT ![i] = [at |-> IF member.role = NoRole THEN "find" ELSE "409",
                                          offer |-> o, row |-> NoOne]]
  /\ UNCHANGED <<invitation, rowLock, OthersOfInviting>>

FindPending(i) ==
  /\ Inviting(i, "find")
  /\ \/ \E j \in InvitationIds : Pending(j) /\ inviter' = [inviter EXCEPT ![i].at = "update", ![i].row = j]
     \/ (\A j \in InvitationIds : ~Pending(j)) /\ InviterAt(i, "insert")
  /\ UNCHANGED <<invitation, rowLock, OthersOfInviting>>

(* The row is updated by its id, whatever has become of it.                *)
UpdateInvitation(i) ==
  /\ Inviting(i, "update") /\ rowLock[inviter[i].row] = NoOne
  /\ rowLock' = [rowLock EXCEPT ![inviter[i].row] = i]
  /\ InviterAt(i, "permissions")
  /\ UNCHANGED <<invitation, OthersOfInviting>>

(* The partial unique index lets one pending invitation in, and makes a    *)
(* second insert wait for the first to commit: the comment on it says that *)
(* the row found then is updated, but the call fails.                      *)
InsertInvitation(i) ==
  /\ Inviting(i, "insert")
  /\ \A j \in Inviters \ {i} : inviter[j].at \in {"permissions", "commit"} => inviter[j].row # j
  /\ IF \E j \in InvitationIds : Pending(j)
     THEN InviterAt(i, "500") /\ UNCHANGED rowLock
     ELSE /\ rowLock' = [rowLock EXCEPT ![i] = i]
          /\ inviter' = [inviter EXCEPT ![i].at = "permissions", ![i].row = i]
  /\ UNCHANGED <<invitation, OthersOfInviting>>

(* Mutant: the permissions are rewritten on a connection of their own.     *)
RewritePermissionsAtOnce(i) ==
  /\ Inviting(i, "permissions")
  /\ invitation' = [invitation EXCEPT ![inviter[i].row].offer =
                      [role |-> @.role, grants |-> inviter[i].offer.grants]]
  /\ InviterAt(i, "commit")
  /\ UNCHANGED <<rowLock, OthersOfInviting>>

(* The permission rows are deleted and inserted again: seen by the others  *)
(* at the commit.                                                          *)
RewritePermissions(i) ==
  /\ Inviting(i, "permissions")
  /\ InviterAt(i, "commit")
  /\ UNCHANGED <<invitation, rowLock, OthersOfInviting>>

(* And the mail, which may fail.  The answer is 'pending'.                 *)
CommitInvitation(i) ==
  LET row == inviter[i].row IN
  /\ Inviting(i, "commit")
  /\ invitation' = [invitation EXCEPT
       ![row] = [status |-> IF row = i THEN "pending" ELSE @.status, offer |-> inviter[i].offer]]
  /\ rowLock' = [rowLock EXCEPT ![row] = NoOne]
  /\ InviterAt(i, "done")
  /\ UNCHANGED OthersOfInviting

InvitingFails(i) ==
  /\ inviter[i].at \in {"find", "update", "insert", "permissions", "commit"}
  /\ rowLock' = [r \in InvitationIds |-> IF rowLock[r] = i THEN NoOne ELSE rowLock[r]]
  /\ InviterAt(i, "500")
  /\ UNCHANGED <<invitation, OthersOfInviting>>

-----------------------------------------------------------------------------
(* accept and decline, by the person himself.                              *)

Accepting(a, at) == accepter[a].at = at
AccepterAt(a, at) == accepter' = [accepter EXCEPT ![a].at = at]
OthersOfAccepting == <<user, inviter, creator>>

(* The claim: the UPDATE waits for the row, and reads the role it then has.*)
Claim(a, i) ==
  /\ Accepting(a, "idle") /\ user.confirmed /\ Pending(i) /\ rowLock[i] = NoOne
  /\ rowLock' = [rowLock EXCEPT ![i] = a]
  /\ accepter' = [accepter EXCEPT ![a] = [at |-> "join", row |-> i,
                    offer |-> [NoOffer EXCEPT !.role = invitation[i].offer.role]]]
  /\ UNCHANGED <<invitation, member, memberLock, OthersOfAccepting>>

(* team_members, ON CONFLICT DO NOTHING, and the copy of the permissions,  *)
(* which keeps his account until the commit.                               *)
JoinTeam(a) ==
  /\ Accepting(a, "join") /\ memberLock = NoOne
  /\ memberLock' = IF member.role = NoRole THEN a ELSE NoOne
  /\ AccepterAt(a, "copy")
  /\ UNCHANGED <<invitation, rowLock, member, OthersOfAccepting>>

CopyPermissions(a) ==
  /\ Accepting(a, "copy")
  /\ accepter' = [accepter EXCEPT ![a].at = "commit",
                                  ![a].offer = [@ EXCEPT !.grants = invitation[accepter[a].row].offer.grants]]
  /\ UNCHANGED <<invitation, rowLock, member, memberLock, OthersOfAccepting>>

(* A member keeps the role he had, and is granted the rest.                *)
CommitAccept(a) ==
  /\ Accepting(a, "commit")
  /\ invitation' = [invitation EXCEPT ![accepter[a].row].status = "accepted"]
  /\ member' = [member EXCEPT !.role = IF memberLock = a THEN accepter[a].offer.role ELSE @,
                              !.grants = @ \cup accepter[a].offer.grants]
  /\ rowLock' = [rowLock EXCEPT ![accepter[a].row] = NoOne]
  /\ memberLock' = IF memberLock = a THEN NoOne ELSE memberLock
  /\ AccepterAt(a, "done")
  /\ UNCHANGED OthersOfAccepting

AcceptFails(a) ==
  /\ accepter[a].at \in {"join", "copy", "commit", "gone"}
  /\ rowLock' = [rowLock EXCEPT ![accepter[a].row] = NoOne]
  /\ memberLock' = IF memberLock = a THEN NoOne ELSE memberLock
  /\ AccepterAt(a, "500")
  /\ UNCHANGED <<invitation, member, OthersOfAccepting>>

Decline(i) ==
  /\ user.exists /\ Pending(i) /\ rowLock[i] = NoOne
  /\ invitation' = [invitation EXCEPT ![i].status = "declined"]
  /\ UNCHANGED <<rowLock, member, memberLock, accepter, OthersOfAccepting>>

-----------------------------------------------------------------------------
(* createUser.                                                             *)

Creating(n, at) == creator[n].at = at
CreatorAt(n, at) == creator' = [creator EXCEPT ![n].at = at]
TablesOfInviting == <<invitation, rowLock, inviter>>
OthersOfCreating == <<TablesOfInviting, accepter>>

AskToCreate(n) ==
  /\ Creating(n, "idle")
  /\ \E o \in MayOffer :
       creator' = [creator EXCEPT ![n] = [at |-> IF user.phone THEN "400" ELSE "invite", offer |-> o, row |-> NoOne]]
  /\ UNCHANGED <<member, memberLock, user, OthersOfCreating>>

(* auth.admin.inviteUserByEmail: who has not confirmed is invited again.   *)
InviteUser(n) ==
  /\ Creating(n, "invite")
  /\ IF user.confirmed THEN CreatorAt(n, "400") /\ UNCHANGED user
     ELSE /\ user' = [user EXCEPT !.exists = TRUE]
          /\ CreatorAt(n, "phone")
  /\ UNCHANGED <<member, memberLock, OthersOfCreating>>

SetPhone(n) ==
  /\ Creating(n, "phone")
  /\ \/ user' = [user EXCEPT !.phone = TRUE] /\ CreatorAt(n, "insert")
     \/ UNCHANGED user /\ CreatorAt(n, "orphan")
  /\ UNCHANGED <<member, memberLock, OthersOfCreating>>

(* team_members and, of a driver, drivers: here the conflict is an error.  *)
InsertMember(n) ==
  /\ Creating(n, "insert") /\ memberLock = NoOne
  /\ \/ member.role = NoRole /\ memberLock' = n /\ CreatorAt(n, "commit")
     \/ CreatorAt(n, "orphan") /\ UNCHANGED memberLock
  /\ UNCHANGED <<member, user, OthersOfCreating>>

CommitMember(n) ==
  /\ Creating(n, "commit")
  /\ memberLock' = NoOne
  /\ \/ /\ member' = [role |-> creator[n].offer.role, grants |-> creator[n].offer.grants,
                      driver |-> creator[n].offer.role = "Driver"]
        /\ CreatorAt(n, "done")
     \/ CreatorAt(n, "orphan") /\ UNCHANGED member
  /\ UNCHANGED <<user, OthersOfCreating>>

(* deleteOrphanedAuthUser.  The memberships of an account go with it, and  *)
(* a call of accept under way for it can only fail, also when the person   *)
(* signs up again: that account is another one.  An account that cannot be *)
(* deleted stays.                                                          *)
DeleteOrphan(n) ==
  /\ Creating(n, "orphan")
  /\ \/ /\ memberLock = NoOne /\ \A a \in Accepters : ~Accepting(a, "commit")
        /\ user' = NoUser
        /\ member' = NoMember
        /\ accepter' = [a \in Accepters |-> IF accepter[a].at \in {"join", "copy"}
                                            THEN [accepter[a] EXCEPT !.at = "gone"] ELSE accepter[a]]
     \/ UNCHANGED <<user, member, accepter>>
  /\ CreatorAt(n, "500")
  /\ UNCHANGED <<memberLock, TablesOfInviting>>

CreatingDies(n) ==
  /\ creator[n].at \in {"invite", "phone", "insert", "commit", "orphan"}
  /\ memberLock' = IF memberLock = n THEN NoOne ELSE memberLock
  /\ CreatorAt(n, "dead")
  /\ UNCHANGED <<member, user, OthersOfCreating>>

(* The person signs up himself, or follows the link in his mail.           *)
ConfirmEmail ==
  /\ user' = [user EXCEPT !.exists = TRUE, !.confirmed = TRUE]
  /\ UNCHANGED <<member, memberLock, creator, OthersOfCreating>>

-----------------------------------------------------------------------------
(* deactivateUsers, of anybody who has not every permission; reactivateUsers*)
(* and updateUserRole.  Each user of a batch fails alone.                  *)
OthersOfManaging == <<memberLock, inviter, accepter, creator, invitation, rowLock>>

Deactivate ==
  /\ user.exists /\ member.grants # AllGrants
  /\ user' = [user EXCEPT !.banned = TRUE]
  /\ UNCHANGED <<member, OthersOfManaging>>

Reactivate ==
  /\ user.exists
  /\ user' = [user EXCEPT !.banned = FALSE]
  /\ UNCHANGED <<member, OthersOfManaging>>

UpdateUserRole ==
  /\ member.role # NoRole
  /\ \E o \in Offers : member' = [member EXCEPT !.role = o.role]
  /\ UNCHANGED <<user, OthersOfManaging>>

AccountsNext ==
  \/ \E i \in Inviters : \/ AskToInvite(i) \/ FindPending(i) \/ UpdateInvitation(i) \/ InsertInvitation(i)
                         \/ RewritePermissions(i) \/ CommitInvitation(i) \/ InvitingFails(i) \/ Decline(i)
  \/ \E a \in Accepters : \/ JoinTeam(a) \/ CopyPermissions(a) \/ CommitAccept(a) \/ AcceptFails(a)
                          \/ \E i \in InvitationIds : Claim(a, i)
  \/ \E n \in Creators : \/ AskToCreate(n) \/ InviteUser(n) \/ SetPhone(n) \/ InsertMember(n) \/ CommitMember(n)
                         \/ DeleteOrphan(n) \/ CreatingDies(n)
  \/ ConfirmEmail \/ Deactivate \/ Reactivate \/ UpdateUserRole

AccountsSpec == AccountsInit /\ [][AccountsNext]_accountVars

-----------------------------------------------------------------------------
(* Whoever becomes a member does so with the role and the permissions of   *)
(* one and the same offer, while managers invite him again with another    *)
(* one, and transactions are given up half way.                            *)
GrantsAreOneOffer ==
  [][member.role = NoRole /\ member'.role # NoRole =>
       \E o \in Offers : member'.role = o.role /\ member'.grants = o.grants]_accountVars
=============================================================================
