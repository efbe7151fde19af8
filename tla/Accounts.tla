------------------------------ MODULE Accounts ------------------------------
(***************************************************************************)
(* People on one installation: users and their passwords, one-time links   *)
(* (invitations and sign-in links), browser sessions, workspace            *)
(* memberships and the project tokens that members issue                   *)
(* (store/accounts.go, store.go and the handlers of httpapi/accounts.go).  *)
(*                                                                         *)
(* A handler is a sequence of statements and transactions: it reads the    *)
(* session, then the membership, and then runs an operation of the store,  *)
(* which may itself read before it writes.  Each statement outside a       *)
(* transaction and each transaction is one action, and between two of them *)
(* the handler keeps what it has read in `call`.                           *)
(*                                                                         *)
(* A user is identified by the normalized email address, a membership by   *)
(* its workspace and user; both are unique in the tables.  Rate limits are *)
(* left out, and so are the 'local' user that an installation token makes  *)
(* for itself and the project tokens it issues.                            *)
(***************************************************************************)
EXTENDS Integers, FiniteSets

CONSTANTS
    User,         \* email addresses
    Workspace,
    Home,         \* the workspace of the bootstrap principal
    Link,         \* identifiers of one-time links, drawn at random
    Session,      \* identifiers of sessions
    Token,        \* identifiers of project tokens
    Password,
    Caller,       \* requests that may be in progress at once
    None

ASSUME HomeAssumption == Home \in Workspace
ASSUME NoneAssumption == None \notin User \cup Link \cup Password \cup (Workspace \X User)

VARIABLES
    workspace,    \* workspace[w]: status of the row and the user who created it
    user,         \* user[u]: status and password of the row
    member,       \* member[<<w, u>>]: role and status
    link,         \* workspace_invites and login_challenges
    session,      \* browser_sessions
    token,        \* api_tokens of project agents
    call          \* call[c]: what the request c has read so far

vars == <<workspace, user, member, link, session, token, call>>

-----------------------------------------------------------------------------
(* Rows *)

Role == {"owner", "member"}
Status == {"active", "suspended"}
Membership == Workspace \X User

WorkspaceRow == [status: Status \cup {"none"}, creator: User \cup {None}]

UserRow == [status: Status \cup {"none"}, password: Password \cup {None}]
NoUser == [status |-> "none", password |-> None]

MemberRow == [role: Role, status: Status]
NoMember == [role |-> "none", status |-> "none"]
Joined(m) == member[m] # NoMember

NewMember(role) == [role |-> role, status |-> "active"]

LinkRow == [state: {"pending", "used", "revoked", "expired"}, kind: {"invite", "login"},
            email: User, workspace: Workspace, role: Role]
NoLink == [state |-> "none"]
Invite(w, u, role) ==
    [state |-> "pending", kind |-> "invite", email |-> u, workspace |-> w, role |-> role]
Login(u) ==
    [state |-> "pending", kind |-> "login", email |-> u, workspace |-> Home, role |-> "member"]

\* Ended: revoked, or past its expiry.
\* from: the link that the session was given for; None after a password login.
SessionRow == [state: {"live", "ended"}, user: User, from: Link \cup {None}]
NoSession == [state |-> "none"]
NewSession(u, from) == [state |-> "live", user |-> u, from |-> from]

\* by: the member whose request it was (events.principal_id).
TokenRow == [state: {"live", "revoked"}, by: Membership, issuer: Membership \cup {None}]
NoToken == [state |-> "none"]

Idle == [op |-> "idle"]
Call ==
    {Idle}
    \cup [op: {"login", "magic", "session", "suspend"}, user: User]
    \cup [op: {"accept"}, link: Link, password: Password]
    \cup [op: {"member", "admin", "claimed"}, user: User, workspace: Workspace, role: Role, status: Status]
    \cup [op: {"count", "write"}, target: Membership, role: Role, status: Status]

TypeOK ==
    /\ workspace \in [Workspace -> WorkspaceRow]
    /\ user \in [User -> UserRow]
    /\ member \in [Membership -> MemberRow \cup {NoMember}]
    /\ link \in [Link -> LinkRow \cup {NoLink}]
    /\ session \in [Session -> SessionRow \cup {NoSession}]
    /\ token \in [Token -> TokenRow \cup {NoToken}]
    /\ call \in [Caller -> Call]

-----------------------------------------------------------------------------
(* Requests *)

At(c, op) == call[c].op = op
Continue(c, record) == call' = [call EXCEPT ![c] = record]
Return(c) == Continue(c, Idle)

\* A membership as the request has read it.
Found(op, w, u, row) ==
    [op |-> op, user |-> u, workspace |-> w, role |-> row.role, status |-> row.status]

\* The client goes away, the context of the request is cancelled, or the
\* process stops.
Abandon(c) ==
    /\ call[c] # Idle
    /\ Return(c)
    /\ UNCHANGED <<workspace, user, member, link, session, token>>

-----------------------------------------------------------------------------
(* The bootstrap owner *)

ClaimBootstrapOwner(c, u) ==
    /\ At(c, "idle")
    /\ IF workspace[Home].creator = None
       THEN /\ user[u].status = "none"
            /\ user' = [user EXCEPT ![u].status = "active"]
            /\ workspace' = [workspace EXCEPT ![Home].creator = u]
            /\ member' = [member EXCEPT ![<<Home, u>>] = NewMember("owner")]
       ELSE UNCHANGED <<user, workspace, member>>
    /\ LET owner == workspace'[Home].creator
       IN  Continue(c, Found("claimed", Home, owner, member'[<<Home, owner>>]))
    /\ UNCHANGED <<link, session, token>>

SetUserPassword(c, p) ==
    /\ At(c, "claimed")
    /\ user[call[c].user].status = "active"
    /\ user' = [user EXCEPT ![call[c].user].password = p]
    /\ Return(c)
    /\ UNCHANGED <<workspace, member, link, session, token>>

-----------------------------------------------------------------------------
(* Signing in *)

\* AuthenticatePassword reads the user and compares the hash ...
ReadPassword(c, u, p) ==
    /\ At(c, "idle")
    /\ user[u] = [status |-> "active", password |-> p]
    /\ Continue(c, [op |-> "login", user |-> u])
    /\ UNCHANGED <<workspace, user, member, link, session, token>>

\* ... and inserts the session in a transaction of its own.
AuthenticatePassword(c, s) ==
    /\ At(c, "login")
    /\ session[s] = NoSession
    /\ session' = [session EXCEPT ![s] = NewSession(call[c].user, None)]
    /\ Return(c)
    /\ UNCHANGED <<workspace, user, member, link, token>>

ReadEligible(c, u) ==
    /\ At(c, "idle")
    /\ user[u].status = "active"
    /\ Continue(c, [op |-> "magic", user |-> u])
    /\ UNCHANGED <<workspace, user, member, link, session, token>>

RequestMagicLink(c, l) ==
    /\ At(c, "magic")
    /\ link[l] = NoLink
    /\ link' = [link EXCEPT ![l] = Login(call[c].user)]
    /\ Return(c)
    /\ UNCHANGED <<workspace, user, member, session, token>>

\* ConsumeInviteWithPassword looks at the invitation before it hashes the password.
WorkspaceInvitePreview(c, l, p) ==
    /\ At(c, "idle")
    /\ link[l].state = "pending" /\ link[l].kind = "invite"
    /\ workspace[link[l].workspace].status = "active"
    /\ Continue(c, [op |-> "accept", link |-> l, password |-> p])
    /\ UNCHANGED <<workspace, user, member, link, session, token>>

\* Seeded fault: the preview has checked the invitation.
PreviewIsEnough(l) == link[l].state # "none"

Usable(l) == link[l].state = "pending"

\* Seeded fault: the password of an invitation is always stored.
StorePassword(u, p) == [user EXCEPT ![u] = [status |-> "active", password |-> p]]

\* The row of the user after the link: p is None for a link without a password.
SignedIn(u, p) ==
    [user EXCEPT ![u] = [status |-> "active",
                         password |-> IF @.password = None THEN p ELSE @.password]]

\* Seeded fault: the role of the invitation replaces the membership there is.
Upserted(m, role) == [member EXCEPT ![m] = NewMember(role)]

Admitted(m, role) == IF Joined(m) THEN member ELSE [member EXCEPT ![m] = NewMember(role)]

\* A sign-in link admits to no workspace.
Admits(row) == row.kind = "invite"

MarkedUsed(l) == [link EXCEPT ![l].state = "used"]

\* consumeAuthToken, after the kinds of link have been told apart.
Consume(l, s, p) ==
    LET row == link[l]  u == link[l].email
    IN  /\ Usable(l)
        /\ user[u].status # "suspended"
        /\ user[u].status = "none" => Admits(row)
        /\ session[s] = NoSession
        /\ user' = SignedIn(u, p)
        /\ member' = IF Admits(row) THEN Admitted(<<row.workspace, u>>, row.role) ELSE member
        /\ link' = MarkedUsed(l)
        /\ session' = [session EXCEPT ![s] = NewSession(u, l)]
        /\ UNCHANGED <<workspace, token>>

\* An account that has a password must be given that password.
PasswordFits(u, p) == user[u].password \in {None, p}

ConsumeInviteWithPassword(c, s) ==
    /\ At(c, "accept")
    /\ PasswordFits(link[call[c].link].email, call[c].password)
    /\ Consume(call[c].link, s, call[c].password)
    /\ Return(c)

ConsumeAuthToken(l, s) ==
    /\ link[l] # NoLink
    /\ Consume(l, s, None)
    /\ UNCHANGED call

RevokeSession(s) ==
    /\ session[s].state = "live"
    /\ session' = [session EXCEPT ![s].state = "ended"]
    /\ UNCHANGED <<workspace, user, member, link, token, call>>

ExpireLink(l) ==
    /\ link[l].state = "pending"
    /\ link' = [link EXCEPT ![l].state = "expired"]
    /\ UNCHANGED <<workspace, user, member, session, token, call>>

-----------------------------------------------------------------------------
(* Requests of signed-in users *)

AuthenticateSession(c, s) ==
    /\ At(c, "idle")
    /\ session[s].state = "live"
    /\ user[session[s].user].status = "active"
    /\ Continue(c, [op |-> "session", user |-> session[s].user])
    /\ UNCHANGED <<workspace, user, member, link, session, token>>

AccountMembership(c, w) ==
    /\ At(c, "session")
    /\ workspace[w].status = "active"
    /\ member[<<w, call[c].user>>].status = "active"
    /\ Continue(c, Found("member", w, call[c].user, member[<<w, call[c].user>>]))
    /\ UNCHANGED <<workspace, user, member, link, session, token>>

\* For the user of a session, or for the bootstrap owner with the installation's token.
CreateWorkspaceForUser(c, u, w) ==
    /\ \/ At(c, "session") /\ u = call[c].user
       \/ At(c, "idle") /\ u = workspace[Home].creator
    /\ user[u].status = "active"
    /\ workspace[w].status = "none"
    /\ workspace' = [workspace EXCEPT ![w] = [status |-> "active", creator |-> u]]
    /\ member' = [member EXCEPT ![<<w, u>>] = NewMember("owner")]
    /\ Return(c)
    /\ UNCHANGED <<user, link, session, token>>

\* createInviteLink: the installation's token stands for the bootstrap owner.
AdminMembership(c, u) ==
    /\ At(c, "idle")
    /\ u = workspace[Home].creator
    /\ workspace[Home].status = "active"
    /\ member[<<Home, u>>].status = "active"
    /\ Continue(c, Found("admin", Home, u, member[<<Home, u>>]))
    /\ UNCHANGED <<workspace, user, member, link, session, token>>

\* An owner invites anyone; the claim of the bootstrap owner invites that owner.
CreateWorkspaceInvite(c, l, u, role) ==
    /\ \/ At(c, "member") \/ At(c, "admin")
       \/ At(c, "claimed") /\ u = call[c].user /\ role = "owner"
    /\ call[c].role = "owner" /\ call[c].status = "active"
    /\ link[l] = NoLink
    /\ link' = [link EXCEPT ![l] = Invite(call[c].workspace, u, role)]
    /\ Return(c)
    /\ UNCHANGED <<workspace, user, member, session, token>>

RevokeInvite(c, l) ==
    /\ At(c, "member") /\ call[c].role = "owner"
    /\ link[l].state \in {"pending", "expired"}
    /\ link[l].kind = "invite" /\ link[l].workspace = call[c].workspace
    /\ link' = [link EXCEPT ![l].state = "revoked"]
    /\ Return(c)
    /\ UNCHANGED <<workspace, user, member, session, token>>

ActiveOwners(w) == {u \in User : member[<<w, u>>] = [role |-> "owner", status |-> "active"]}

\* UpdateMembership reads the target; only the end of an active owner is counted.
ReadTarget(c, u, role, status) ==
    /\ At(c, "member") /\ call[c].role = "owner"
    /\ LET m == <<call[c].workspace, u>>
           ends == u \in ActiveOwners(call[c].workspace) /\ ~(role = "owner" /\ status = "active")
       IN  /\ Joined(m)
           /\ Continue(c, [op |-> IF ends THEN "count" ELSE "write",
                           target |-> m, role |-> role, status |-> status])
    /\ UNCHANGED <<workspace, user, member, link, session, token>>

OwnersLeft(w) == Cardinality(ActiveOwners(w)) > 1

CountOwners(c) ==
    /\ At(c, "count")
    /\ OwnersLeft(call[c].target[1])
    /\ Continue(c, [call[c] EXCEPT !.op = "write"])
    /\ UNCHANGED <<workspace, user, member, link, session, token>>

UpdateMembership(c) ==
    /\ At(c, "write")
    /\ member' = [member EXCEPT ![call[c].target] =
                      [role |-> call[c].role, status |-> call[c].status]]
    /\ Return(c)
    /\ UNCHANGED <<workspace, user, link, session, token>>

-----------------------------------------------------------------------------
(* Project tokens *)

\* The active membership of the principal that asks, if there is one.
IssuerOf(m) == IF member[m].status = "active" THEN m ELSE None

IssueProjectToken(c, t) ==
    /\ At(c, "member")
    /\ token[t] = NoToken
    /\ LET m == <<call[c].workspace, call[c].user>>
       IN  token' = [token EXCEPT ![t] = [state |-> "live", by |-> m, issuer |-> IssuerOf(m)]]
    /\ Return(c)
    /\ UNCHANGED <<workspace, user, member, link, session>>

RevokeProjectToken(c, t) ==
    /\ At(c, "member")
    /\ token[t].state = "live"
    /\ token[t].by[1] = call[c].workspace
    /\ \/ call[c].role = "owner"
       \/ token[t].issuer = <<call[c].workspace, call[c].user>>
    /\ token' = [token EXCEPT ![t].state = "revoked"]
    /\ Return(c)
    /\ UNCHANGED <<workspace, user, member, link, session>>

-----------------------------------------------------------------------------
(* The operator *)

\* SetUserStatus suspends the user ...
SetUserStatus(c, u, status) ==
    /\ At(c, "idle")
    /\ user[u].status # "none"
    /\ user' = [user EXCEPT ![u].status = status]
    /\ IF status = "suspended" THEN Continue(c, [op |-> "suspend", user |-> u])
                               ELSE UNCHANGED call
    /\ UNCHANGED <<workspace, member, link, session, token>>

\* ... and ends the sessions in a second statement.
EndSessions(c) ==
    /\ At(c, "suspend")
    /\ session' = [s \in Session |->
                      IF session[s].state = "live" /\ session[s].user = call[c].user
                      THEN [session[s] EXCEPT !.state = "ended"] ELSE session[s]]
    /\ Return(c)
    /\ UNCHANGED <<workspace, user, member, link, token>>

SetWorkspaceStatus(w, status) ==
    /\ workspace[w].status # "none"
    /\ workspace' = [workspace EXCEPT ![w].status = status]
    /\ UNCHANGED <<user, member, link, session, token, call>>

-----------------------------------------------------------------------------
Init ==
    /\ workspace = [w \in Workspace |->
                        [status |-> IF w = Home THEN "active" ELSE "none", creator |-> None]]
    /\ user = [u \in User |-> NoUser]
    /\ member = [m \in Membership |-> NoMember]
    /\ link = [l \in Link |-> NoLink]
    /\ session = [s \in Session |-> NoSession]
    /\ token = [t \in Token |-> NoToken]
    /\ call = [c \in Caller |-> Idle]

SignIn ==
    \/ \E c \in Caller, u \in User, p \in Password : ReadPassword(c, u, p)
    \/ \E c \in Caller, u \in User : ReadEligible(c, u)
    \/ \E c \in Caller, l \in Link : RequestMagicLink(c, l)
    \/ \E c \in Caller, l \in Link, p \in Password : WorkspaceInvitePreview(c, l, p)
    \/ \E c \in Caller, s \in Session : AuthenticatePassword(c, s) \/ ConsumeInviteWithPassword(c, s)
    \/ \E l \in Link, s \in Session : ConsumeAuthToken(l, s)
    \/ \E s \in Session : RevokeSession(s)
    \/ \E l \in Link : ExpireLink(l)

Manage ==
    \/ \E c \in Caller, s \in Session : AuthenticateSession(c, s)
    \/ \E c \in Caller, w \in Workspace : AccountMembership(c, w)
    \/ \E c \in Caller, u \in User, w \in Workspace : CreateWorkspaceForUser(c, u, w)
    \/ \E c \in Caller, l \in Link, u \in User, role \in Role : CreateWorkspaceInvite(c, l, u, role)
    \/ \E c \in Caller, l \in Link : RevokeInvite(c, l)
    \/ \E c \in Caller, u \in User, role \in Role, status \in Status : ReadTarget(c, u, role, status)
    \/ \E c \in Caller : CountOwners(c) \/ UpdateMembership(c)
    \/ \E c \in Caller, t \in Token : IssueProjectToken(c, t) \/ RevokeProjectToken(c, t)

Operate ==
    \/ \E c \in Caller, u \in User : ClaimBootstrapOwner(c, u) \/ AdminMembership(c, u)
    \/ \E c \in Caller, p \in Password : SetUserPassword(c, p)
    \/ \E c \in Caller, u \in User, status \in Status : SetUserStatus(c, u, status)
    \/ \E c \in Caller : EndSessions(c) \/ Abandon(c)
    \/ \E w \in Workspace, status \in Status : SetWorkspaceStatus(w, status)

Next == SignIn \/ Manage \/ Operate

Spec == Init /\ [][Next]_vars

-----------------------------------------------------------------------------
(* Properties *)

(* A one-time link gives at most one session, and to the address it names,   *)
(* however many requests have looked at it before one of them uses it.       *)
LinkUsedOnce ==
    \A s \in Session : LET l == session[s].from IN
        session[s] # NoSession /\ l # None =>
            /\ link[l].state = "used" /\ link[l].email = session[s].user
            /\ \A r \in Session \ {s} : session[r] # NoSession => session[r].from # l

(* A link that is used or revoked never becomes anything else, an expired    *)
(* one is at most revoked, and ended sessions and revoked tokens do not come *)
(* back.                                                                     *)
SettledStaysSettled ==
    [][/\ \A l \in Link :
              /\ link[l].state \in {"used", "revoked"} => link'[l] = link[l]
              /\ link[l].state = "expired" => link'[l].state \in {"expired", "revoked"}
       /\ \A s \in Session : session[s].state = "ended" => session'[s] = session[s]
       /\ \A t \in Token : token[t].state = "revoked" => token'[t] = token[t]]_vars

(* Whoever is a member of a workspace has used an invitation to it, has      *)
(* claimed it or has created it; an invitation to one workspace gives no     *)
(* access to another.                                                        *)
MembersInvited ==
    \A m \in Membership : Joined(m) =>
        \/ workspace[m[1]].creator = m[2]
        \/ \E l \in Link : /\ link[l].state = "used" /\ link[l].kind = "invite"
                           /\ link[l].workspace = m[1] /\ link[l].email = m[2]

(* Using an invitation does not change a membership that exists: a suspended *)
(* member does not come back, and nobody is promoted, by an older link.      *)
OnlyOwnersChangeMembers ==
    [][\A m \in Membership : Joined(m) /\ member'[m] # member[m] =>
           \E c \in Caller : At(c, "write") /\ call[c].target = m]_vars

(* A password that is set is only replaced through the installation's own    *)
(* claim, whichever of several invitations is accepted first.                *)
PasswordKept ==
    [][\A u \in User : user[u].password # None /\ user'[u].password # user[u].password =>
           \E c \in Caller : At(c, "claimed") /\ call[c].user = u]_vars

(* UpdateMembership's error message: a workspace must retain at least one    *)
(* active owner.                                                             *)
OwnerRemains ==
    \A w \in Workspace : (\E u \in User : Joined(<<w, u>>)) => ActiveOwners(w) # {}

-----------------------------------------------------------------------------
(* The inductive invariant                                                   *)

\* Rows and requests refer to rows that are there.
MembersKnown ==
    \A m \in Membership : Joined(m) =>
        user[m[2]].status # "none" /\ workspace[m[1]].status # "none"
LinksKnown == \A l \in Link : link[l] # NoLink => workspace[link[l].workspace].status # "none"
CallsKnown ==
    \A c \in Caller :
        /\ call[c].op \in {"member", "admin", "claimed"} => Joined(<<call[c].workspace, call[c].user>>)
        /\ call[c].op \in {"count", "write"} => Joined(call[c].target)
CreatorsJoined ==
    /\ workspace[Home].status # "none"
    /\ \A w \in Workspace :
           workspace[w].creator # None => Joined(<<w, workspace[w].creator>>)

(* Inductive: that a new workspace or a new owner overwrites no membership   *)
(* needs that members, links and requests name workspaces that exist.        *)
AccountsInv ==
    /\ TypeOK
    /\ LinkUsedOnce
    /\ MembersInvited
    /\ MembersKnown /\ LinksKnown /\ CallsKnown /\ CreatorsJoined
=============================================================================
