-------------------------------- MODULE Team --------------------------------
(***************************************************************************)
(* The people of a workspace: local accounts and their lockout, the        *)
(* workspace's creation, and the requests that invite, promote, demote and *)
(* remove members.                                                         *)
(*                                                                         *)
(* A membership request is one transaction at READ COMMITTED.  Its guard   *)
(* reads the caller's membership (Enter); it reads the membership it is    *)
(* about and counts the admins, without a lock and as far as row-level     *)
(* security lets the caller see, and decides (Decide); its statement is    *)
(* checked by row-level security, on what is committed then (Send); and it *)
(* commits, which is what a request that waits for the row does after the  *)
(* one it waited for (Commit).                                             *)
(***************************************************************************)
EXTENDS Naturals

CONSTANTS
    Person,    \* people, by the normalised address they sign up with
    Client,    \* concurrent membership requests
    MaxFailed  \* MAX_FAILED_ATTEMPTS

VARIABLES
    profiles,   \* the people with a profile, and a login
    login,      \* the lockout state of a login
    workspace,  \* is there a workspace, has it its spend cap, and who has created it?
    roles,      \* Person -> role in workspace_memberships, or "none"
    tx,         \* the membership request each client is in
    raced       \* history: an admin was lost to a request that another had overtaken

teamVars == <<profiles, login, workspace, roles, tx, raced>>

WorkspaceRole == {"admin", "editor", "reviewer"}
Membership == [Person -> WorkspaceRole \cup {"none"}]
Profile == Person
Login == [failed : Nat, locked : BOOLEAN]
Workspace == [created : BOOLEAN, capped : BOOLEAN, by : SUBSET Person]

NoRequest == [op |-> "idle"]
\* was: the caller's role as the guard has read it, which the session keeps.  allowed: the
\* answer, once the statement has been checked.  stale and lost are history: a membership,
\* or the row this request is about, has been changed, or deleted, since it entered.
MembershipRequest ==
    [op : {"invite", "update", "remove"}, caller : Person, target : Person,
     role : WorkspaceRole \cup {"none"}, was : WorkspaceRole \cup {"none"},
     pc : {"entered", "decided", "sent"}, allowed : BOOLEAN, stale : BOOLEAN, lost : BOOLEAN]

TeamTypeOK ==
    /\ profiles \subseteq Profile
    /\ login \in [Person -> Login]
    /\ workspace \in Workspace
    /\ roles \in Membership
    /\ tx \in [Client -> MembershipRequest \cup {NoRequest}]
    /\ raced \in BOOLEAN

TeamInit ==
    /\ profiles = {}
    /\ login = [p \in Person |-> [failed |-> 0, locked |-> FALSE]]
    /\ workspace = [created |-> FALSE, capped |-> FALSE, by |-> {}]
    /\ roles = [p \in Person |-> "none"]
    /\ tx = [s \in Client |-> NoRequest]
    /\ raced = FALSE

-----------------------------------------------------------------------------
(* Accounts.                                                               *)

\* The address is free; of two who sign up with it at once, the unique index refuses one.
SignUp(p) ==
    /\ p \notin profiles
    /\ profiles' = profiles \cup {p}
    /\ UNCHANGED <<login, workspace, roles, tx, raced>>

\* One more failure; the last one locks the login.
Failed(l) == [failed |-> l.failed + 1, locked |-> l.failed + 1 >= MaxFailed]

\* Guesses at one login queue for its row.  A locked login refuses the right password too,
\* and a failure is committed although the request is refused.
LogIn(p, right) ==
    /\ p \in profiles /\ ~login[p].locked
    /\ login' = [login EXCEPT ![p] = IF right THEN [failed |-> 0, locked |-> FALSE] ELSE Failed(@)]
    /\ UNCHANGED <<profiles, workspace, roles, tx, raced>>

\* The lock and the window of its last failure end together; the row says so at the next
\* attempt, which is the first of a new count.
WindowEnds(p) ==
    /\ login[p].failed > 0
    /\ login' = [login EXCEPT ![p] = [failed |-> 0, locked |-> FALSE]]
    /\ UNCHANGED <<profiles, workspace, roles, tx, raced>>

-----------------------------------------------------------------------------
(* The workspace and its members.                                          *)

Member(p) == roles[p] # "none"
IsAdmin(p) == roles[p] = "admin"
Admins == {p \in Person : IsAdmin(p)}
\* _admin_count exceeds one.
SeveralAdmins == \E p, q \in Admins : p # q

\* ensure_default_spend_cap: once more it finds the cap that is there.
WithDefaultCap(w) == [w EXCEPT !.capped = TRUE]

\* The workspace, its creator's membership and its spend cap are one transaction.
CreateWorkspace(p) ==
    /\ p \in profiles /\ ~workspace.created
    /\ workspace' = WithDefaultCap([workspace EXCEPT !.created = TRUE, !.by = {p}])
    /\ roles' = [roles EXCEPT ![p] = "admin"]
    /\ UNCHANGED <<profiles, login, tx, raced>>

Enter(s, op, c, u, r) ==
    /\ tx[s] = NoRequest
    /\ tx' = [tx EXCEPT ![s] =
            [op |-> op, caller |-> c, target |-> u, role |-> r, was |-> roles[c],
             pc |-> "entered", allowed |-> FALSE, stale |-> FALSE, lost |-> FALSE]]
    /\ UNCHANGED <<profiles, login, workspace, roles, raced>>

\* The guards: an admin invites, promotes, demotes and removes anyone, and anyone leaves.
Invite(s, c, u, r) == IsAdmin(c) /\ Enter(s, "invite", c, u, r)
UpdateRole(s, c, u, r) == IsAdmin(c) /\ Enter(s, "update", c, u, r)
Remove(s, c, u) == Member(c) /\ (c # u => IsAdmin(c)) /\ Enter(s, "remove", c, u, "none")

\* The role of the target as the session has it: a caller's own row is not read anew.
SeenRole(t) == IF t.target = t.caller THEN t.was ELSE roles[t.target]
\* Who is no member any more sees nobody, and finds no target to change, but one to invite.
InviteStands(t) == ~(Member(t.caller) /\ Member(t.target))
ChangeStands(t) ==
    /\ Member(t.caller) /\ Member(t.target)
    /\ SeenRole(t) # t.role   \* a role that is the member's already is not written
    /\ SeenRole(t) = "admin" => SeveralAdmins

Decide(s) ==
    /\ tx[s] # NoRequest /\ tx[s].pc = "entered"
    /\ tx' = [tx EXCEPT ![s] =
            IF IF @.op = "invite" THEN InviteStands(@) ELSE ChangeStands(@)
            THEN [@ EXCEPT !.pc = "decided"] ELSE NoRequest]
    /\ UNCHANGED <<profiles, login, workspace, roles, raced>>

\* An invitation by which the workspace's creator makes himself its admin.
Reclaims(t) ==
    t.op = "invite" /\ t.role = "admin" /\ t.target = t.caller /\ t.caller \in workspace.by
\* The policies memberships_insert, memberships_update and memberships_delete.  The first
\* lets the creator in where he sees no membership, and sees none unless he is a member.
Insertable(t) == IsAdmin(t.caller) \/ (Reclaims(t) /\ ~Member(t.caller))
Updatable(t) == IsAdmin(t.caller)
Deletable(t) == IsAdmin(t.caller) \/ t.caller = t.target
Permitted(t) ==
    CASE t.op = "invite" -> Insertable(t)
      [] t.op = "update" -> Updatable(t)
      [] OTHER -> Deletable(t)

Send(s) ==
    /\ tx[s] # NoRequest /\ tx[s].pc = "decided"
    /\ tx' = [tx EXCEPT ![s].pc = "sent", ![s].allowed = Permitted(tx[s])]
    /\ UNCHANGED <<profiles, login, workspace, roles, raced>>

\* An insert needs a profile, and no membership of that person; an update and a delete
\* need the row they have read.
Effective(t) ==
    /\ t.allowed
    /\ t.op = "invite" => t.target \in profiles /\ ~Member(t.target)
    /\ t.op # "invite" => ~t.lost

\* What the commit of t is for another request that has read memberships already.
Overtaken(other, t) ==
    IF other = NoRequest THEN NoRequest
    ELSE [other EXCEPT !.stale = TRUE, !.lost = @ \/ (other.target = t.target /\ t.op = "remove")]

Commit(s) ==
    LET t == tx[s]
    IN /\ t # NoRequest /\ t.pc = "sent" /\ Effective(t)
       /\ roles' = [roles EXCEPT ![t.target] = t.role]
       /\ tx' = [r \in Client |-> IF r = s THEN NoRequest ELSE Overtaken(tx[r], t)]
       /\ raced' = (raced \/ (t.stale /\ IsAdmin(t.target) /\ t.role # "admin"))
       /\ UNCHANGED <<profiles, login, workspace>>

\* A statement that may not be, or finds no row, changes nothing: an insert or an update
\* then fails; a delete is not counted, and its request is answered as if it had deleted.
End(s) ==
    /\ tx[s] # NoRequest /\ tx[s].pc = "sent" /\ ~Effective(tx[s])
    /\ tx' = [tx EXCEPT ![s] = NoRequest]
    /\ UNCHANGED <<profiles, login, workspace, roles, raced>>

AccountRequests ==
    \E p \in Person : SignUp(p) \/ LogIn(p, TRUE) \/ LogIn(p, FALSE) \/ WindowEnds(p)
MembershipRequests ==
    \E s \in Client, c, u \in Person :
        \/ \E r \in WorkspaceRole : Invite(s, c, u, r) \/ UpdateRole(s, c, u, r)
        \/ Remove(s, c, u)
TeamNext ==
    \/ AccountRequests
    \/ \E p \in Person : CreateWorkspace(p)
    \/ MembershipRequests
    \/ \E s \in Client : Decide(s) \/ Send(s) \/ Commit(s) \/ End(s)

TeamSpec == TeamInit /\ [][TeamNext]_teamVars

-----------------------------------------------------------------------------
(* What the team can rely on.                                              *)

\* What the documentation says of a workspace: it is never without an admin.
AdminRemains == workspace.created => Admins # {}

\* A workspace loses its last admin only to a request that another one overtook between its
\* guard and its commit: one request after another never does.
EmptiedOnlyByRace == raced \/ AdminRemains

\* A workspace without admins stays without, once no request is left from before that makes
\* one: neither a checked one, nor one by which the creator takes it back.  Nobody can be
\* invited, promoted or removed there any more, by anybody.
Orphaned ==
    /\ workspace.created /\ Admins = {}
    /\ \A s \in Client : tx[s] # NoRequest =>
          /\ tx[s].allowed => tx[s].role # "admin"
          /\ Reclaims(tx[s]) => tx[s].pc = "sent"
OrphanedForGood == [][Orphaned => Orphaned']_teamVars

\* However many guesses at a password run at once, no more than the limit fail between
\* two ends of its window.
GuessesAreBounded == \A p \in Person : login[p].failed <= MaxFailed
=============================================================================
