------------------------------- MODULE Members -------------------------------
(***************************************************************************)
(* Who belongs to a company: owners sign up and open one, members of the   *)
(* staff are let in by invite codes and removed again, and an admin purges *)
(* a company with the accounts that belonged to it alone.                  *)
(*                                                                         *)
(* A person has a sign-in account, kept by the identity provider; a users  *)
(* row, of the one company they work in; and membership rows, which go     *)
(* with the account or the company but not with the users row.  The codes  *)
(* are drawn from 32^8 and are taken to be distinct; who an invite was     *)
(* made by is a foreign key, as removeStaffMember expects.                 *)
(***************************************************************************)
EXTENDS Licences, Functions

CONSTANTS People, Invites, InviteDays

Rights == {"invite", "manage"}
User   == [co : Companies, role : {"owner", "staff"}, may : SUBSET Rights]

ASSUME MembersAssumption == InviteDays \in Nat \ {0} /\ None \notin People \cup User

VARIABLES
  account,     \* the accounts of the identity provider
  user,        \* users: [co, role, perms] or None
  membership,  \* company_memberships, as <<company, person>>
  invite       \* company_invites

people == <<account, user, membership, invite>>
memberVars == <<licenceVars, people>>

NoInvite == [co |-> None]
Deleted  == [co |-> None, used |-> None]   \* its row is gone, and its code is not drawn again
May(role) == IF role = "owner" THEN Rights ELSE {}
Member(c, role) == [co |-> c, role |-> role, may |-> May(role)]

MembersInit ==
  /\ LicencesInit
  /\ account = People
  /\ \E owner \in Injection(Open, People) :
       /\ user = [u \in People |-> IF \E c \in Open : owner[c] = u
                                   THEN Member(CHOOSE c \in Open : owner[c] = u, "owner") ELSE None]
       /\ membership = {<<c, owner[c]>> : c \in Open}
  /\ invite = [i \in Invites |-> NoInvite]

Staff(c) == {u \in People : user[u] # None /\ user[u].co = c}
Made == {i \in Invites : invite[i] \notin {NoInvite, Deleted}}

----------------------------------------------------------------------------

\* setup of an owner: company, users row and membership are one transaction.
\* The trial is a call of its own, and may be lost.
SetupOwner(d, u, c) ==
  /\ Idle(d) /\ u \in account /\ user[u] = None /\ company[c].stage = "new"
  /\ company' = [company EXCEPT ![c].stage = "open"]
  /\ user' = [user EXCEPT ![u] = Member(c, "owner")]
  /\ membership' = membership \cup {<<c, u>>}
  /\ Hold(d, [op |-> "trial", co |-> c])
  /\ UNCHANGED <<day, plan, cache, bills, notes, account, invite>>

EnsureTrial(d, pl) ==
  /\ desk[d].op = "trial"
  /\ sub' = IF desk[d].co \in Open
            THEN [sub EXCEPT ![desk[d].co] = IF sub[desk[d].co] = NoSub THEN [TrialSub EXCEPT !.chosen = pl] ELSE @] ELSE sub
  /\ Hold(d, AtRest)
  /\ UNCHANGED <<day, company, grant, tiers, cache, bills, notes, people>>

CreateInvite(i, u) ==
  /\ invite[i] = NoInvite /\ user[u] # None /\ "invite" \in user[u].may
  /\ invite' = [invite EXCEPT ![i] = [co |-> user[u].co, by |-> u, ends |-> day + InviteDays, used |-> None]]
  /\ UNCHANGED <<licenceVars, account, user, membership>>

\* A code is taken back whether or not it was used.
RevokeInvite(i) ==
  /\ i \in Made
  /\ invite' = [invite EXCEPT ![i] = Deleted]
  /\ UNCHANGED <<licenceVars, account, user, membership>>

\* setup of a member of the staff, up to its transaction.  Somebody who has a
\* users row is only told of it, and so is a member who was removed.
ReadInvite(d, u, i) ==
  /\ Idle(d) /\ u \in account /\ user[u] = None
  /\ i \in Made /\ invite[i].used = None /\ invite[i].ends > day
  /\ <<invite[i].co, u>> \notin membership
  /\ Hold(d, [op |-> "join", who |-> u, invite |-> i, co |-> invite[i].co])
  /\ UNCHANGED <<day, company, plan, cache, bills, notes, people>>

Join(d, claims) ==
  LET u == desk[d].who  i == desk[d].invite  c == desk[d].co IN
  /\ desk[d].op = "join"
  /\ IF claims /\ user[u] = None /\ u \in account /\ c \in Open
     THEN /\ user' = [user EXCEPT ![u] = Member(c, "staff")]
          /\ invite' = [invite EXCEPT ![i].used = u]
          /\ membership' = membership \cup {<<c, u>>}
     ELSE UNCHANGED <<user, invite, membership>>
  /\ Hold(d, AtRest)
  /\ UNCHANGED <<day, company, plan, cache, bills, notes, account>>

\* Mutant: the claim does not compare used_at.
JoinTxClaiming(d) == desk[d].op = "join" /\ Join(d, desk[d].invite \in Made)

\* Its transaction: the row of a user goes in, then the code is claimed if
\* nobody has; it fails as a whole.
JoinTx(d) == desk[d].op = "join" /\ Join(d, desk[d].invite \in Made /\ invite[desk[d].invite].used = None)

\* updatePermissions; only an owner hands on the right to manage.
UpdatePermissions(by, u, may) ==
  /\ user[by] # None /\ "manage" \in user[by].may
  /\ u \in Staff(user[by].co) /\ user[u].role # "owner"
  /\ "manage" \in may => user[by].role = "owner"
  /\ user' = [user EXCEPT ![u].may = may]
  /\ UNCHANGED <<licenceVars, account, membership, invite>>

\* removeStaffMember: with them go the codes they made that nobody used.
RemoveStaffMember(by, u) ==
  /\ user[by] # None /\ "manage" \in user[by].may /\ u # by
  /\ u \in Staff(user[by].co) /\ user[u].role # "owner"
  /\ user' = [user EXCEPT ![u] = None]
  /\ invite' = [i \in Invites |-> IF i \in Made /\ invite[i].by = u
                                  THEN IF invite[i].used = None THEN Deleted ELSE [invite[i] EXCEPT !.by = None]
                                  ELSE invite[i]]
  /\ UNCHANGED <<licenceVars, account, membership>>

\* purge reads the members, deletes the company and all that is its own, reads
\* who of them belongs elsewhere, and deletes the other accounts.  Deleting
\* waits for a grant of the company that is locked.
PurgeRead(d, c) ==
  /\ Idle(d) /\ c \in Open
  /\ Hold(d, [op |-> "purge", co |-> c, who |-> {u \in People : <<c, u>> \in membership}])
  /\ UNCHANGED <<day, company, plan, cache, bills, notes, people>>

PurgeDelete(d) ==
  /\ desk[d].op = "purge"
  /\ LET c == desk[d].co IN
       /\ \A g \in Grants : Locked(g) => grant[g].by # c
       /\ company' = [company EXCEPT ![c].stage = "gone"]
       /\ sub' = [sub EXCEPT ![c] = NoSub]
       /\ grant' = [g \in Grants |-> IF grant[g] # NoGrant /\ grant[g].by = c THEN [grant[g] EXCEPT !.by = None] ELSE grant[g]]
       /\ invoices' = [n \in DOMAIN invoices |-> IF invoices[n].co = c THEN NoInvoice ELSE invoices[n]]
       /\ redeemed' = {x \in redeemed : x[2] # c} /\ settled' = {x \in settled : x[1] # c}
       /\ user' = [u \in People |-> IF u \in Staff(c) THEN None ELSE user[u]]
       /\ membership' = {x \in membership : x[1] # c}
       /\ invite' = [i \in Invites |-> IF i \in Made /\ invite[i].co = c THEN Deleted ELSE invite[i]]
       /\ Hold(d, [desk[d] EXCEPT !.op = "orphans"])
  /\ UNCHANGED <<day, tiers, cache, minted, discount, sweep, mailed, blotted, account>>

PurgeCheck(d) ==
  /\ desk[d].op = "orphans"
  /\ Hold(d, [desk[d] EXCEPT !.op = "accounts", !.who = {u \in @ : \A c \in Companies : <<c, u>> \notin membership}])
  /\ UNCHANGED <<day, company, plan, cache, bills, notes, people>>

\* The accounts that could not be deleted stay, and their owner is told.
PurgeAccounts(d, failed) ==
  /\ desk[d].op = "accounts"
  /\ account' = account \ (desk[d].who \ failed)
  /\ membership' = {x \in membership : x[2] \in account'}
  /\ Decided(d, {desk[d].co}, AtRest)
  /\ UNCHANGED <<day, company, plan, bills, notes, user, invite>>

MembersNext ==
  \/ \E d \in Desks, u \in People : (\E i \in Invites : ReadInvite(d, u, i)) \/ (\E c \in Companies : SetupOwner(d, u, c))
  \/ \E d \in Desks : JoinTx(d) \/ \E pl \in Priced \cup {None} : EnsureTrial(d, pl)
  \/ \E i \in Invites : RevokeInvite(i) \/ \E u \in People : CreateInvite(i, u)
  \/ \E by, u \in People : RemoveStaffMember(by, u) \/ \E may \in SUBSET Rights : UpdatePermissions(by, u, may)

PurgeNext ==
  \/ \E d \in Desks : PurgeDelete(d) \/ PurgeCheck(d) \/ (\E c \in Companies : PurgeRead(d, c))
  \/ \E d \in Desks, failed \in SUBSET People : PurgeAccounts(d, failed)

TenancyNext == (LicencesNext /\ UNCHANGED people) \/ MembersNext \/ PurgeNext

TenancySpec == MembersInit /\ [][TenancyNext]_memberVars

----------------------------------------------------------------------------
(* Properties.                                                             *)

\* Whoever joins the staff is let in by a code that admitted nobody before,
\* made by somebody who works in that company at that moment: not by one of
\* somebody removed, nor twice, however the requests meet (setup,
\* removeStaffMember).
InvitesAdmitOnce ==
  [][\A u \in People : (user[u] = None /\ user'[u] # None /\ user'[u].role = "staff") =>
       \E i \in Made : /\ invite[i].used = None /\ invite'[i].used = u
                       /\ user[invite[i].by] # None /\ user[invite[i].by].co = user'[u].co]_memberVars
=============================================================================
