--------------------------- MODULE AccountsProofs ---------------------------
(***************************************************************************)
(* Proofs about module Accounts, for any users, workspaces, links and      *)
(* numbers of requests.                                                    *)
(***************************************************************************)
EXTENDS Accounts, TLAPS

\* What a request carries at each point.
LEMMA CallShapes ==
    ASSUME TypeOK, NEW c \in Caller
    PROVE  /\ call[c].op \in {"login", "magic", "session", "suspend", "member", "admin", "claimed"} =>
                  call[c].user \in User
           /\ call[c].op = "accept" => call[c].link \in Link /\ call[c].password \in Password
           /\ call[c].op \in {"member", "admin", "claimed"} =>
                  call[c].workspace \in Workspace /\ call[c].role \in Role
                      /\ call[c].status \in Status
           /\ call[c].op \in {"count", "write"} =>
                  call[c].target \in Membership /\ call[c].role \in Role
                      /\ call[c].status \in Status
  BY DEF TypeOK, Call, Idle

LEMMA InitInv == Init => AccountsInv
  BY HomeAssumption DEF Init, AccountsInv, TypeOK, LinkUsedOnce, MembersInvited, MembersKnown,
     LinksKnown, CallsKnown, CreatorsJoined, WorkspaceRow, UserRow, NoUser, NoLink, NoSession,
     NoToken, NoMember, Joined, Idle, Call, Status

\* A step that only moves a request on.
LEMMA OnlyCallInv ==
    ASSUME AccountsInv, UNCHANGED <<workspace, user, member, link, session, token>>,
           call' \in [Caller -> Call],
           \A c \in Caller :
               /\ call'[c].op \in {"member", "admin", "claimed"} =>
                      Joined(<<call'[c].workspace, call'[c].user>>)
               /\ call'[c].op \in {"count", "write"} => Joined(call'[c].target)
    PROVE  AccountsInv'
  <1>1. TypeOK'
    BY DEF AccountsInv, TypeOK
  <1>2. LinkUsedOnce' /\ MembersInvited' /\ MembersKnown' /\ LinksKnown' /\ CreatorsJoined'
    BY DEF AccountsInv, LinkUsedOnce, MembersInvited, MembersKnown, LinksKnown, CreatorsJoined, Joined
  <1>3. CallsKnown'
    BY DEF CallsKnown, Joined
  <1> QED
    BY <1>1, <1>2, <1>3 DEF AccountsInv

LEMMA IdleCall == Idle \in Call /\ Idle.op = "idle"
  BY DEF Idle, Call

LEMMA QuietInv ==
    ASSUME AccountsInv, UNCHANGED <<workspace, user, member, link, session, token>>,
           NEW c \in Caller, NEW record \in Call, Continue(c, record),
           record.op \in {"member", "admin", "claimed"} =>
               Joined(<<record.workspace, record.user>>),
           record.op \in {"count", "write"} => Joined(record.target)
    PROVE  AccountsInv'
  <1>1. call' \in [Caller -> Call] /\ \A d \in Caller : call'[d] = call[d] \/ call'[d] = record
    BY DEF AccountsInv, TypeOK, Continue
  <1>2. CallsKnown
    BY DEF AccountsInv
  <1> QED
    BY <1>1, <1>2, OnlyCallInv DEF CallsKnown

-----------------------------------------------------------------------------
(* Requests that only read *)

LEMMA ReadingInv ==
    ASSUME AccountsInv, NEW c \in Caller,
           \/ Abandon(c)
           \/ \E u \in User, p \in Password : ReadPassword(c, u, p)
           \/ \E u \in User : ReadEligible(c, u)
           \/ \E l \in Link, p \in Password : WorkspaceInvitePreview(c, l, p)
           \/ \E s \in Session : AuthenticateSession(c, s)
           \/ \E w \in Workspace : AccountMembership(c, w)
           \/ \E u \in User, role \in Role, status \in Status : ReadTarget(c, u, role, status)
           \/ CountOwners(c)
           \/ \E u \in User : AdminMembership(c, u)
    PROVE  AccountsInv'
  <1>1. TypeOK /\ CallsKnown
    BY DEF AccountsInv
  <1>2. CASE Abandon(c)
    BY <1>2, IdleCall, QuietInv DEF Abandon, Return
  <1>3. ASSUME NEW u \in User, NEW p \in Password, ReadPassword(c, u, p)
        PROVE  AccountsInv'
    <2>1. [op |-> "login", user |-> u] \in Call
      BY DEF Call
    <2> QED
      BY <1>3, <2>1, QuietInv DEF ReadPassword
  <1>4. ASSUME NEW u \in User, ReadEligible(c, u)
        PROVE  AccountsInv'
    <2>1. [op |-> "magic", user |-> u] \in Call
      BY DEF Call
    <2> QED
      BY <1>4, <2>1, QuietInv DEF ReadEligible
  <1>5. ASSUME NEW l \in Link, NEW p \in Password, WorkspaceInvitePreview(c, l, p)
        PROVE  AccountsInv'
    <2>1. [op |-> "accept", link |-> l, password |-> p] \in Call
      BY DEF Call
    <2> QED
      BY <1>5, <2>1, QuietInv DEF WorkspaceInvitePreview
  <1>6. ASSUME NEW s \in Session, AuthenticateSession(c, s)
        PROVE  AccountsInv'
    <2>1. session[s].user \in User
      BY <1>1, <1>6 DEF AuthenticateSession, TypeOK, SessionRow, NoSession
    <2>2. [op |-> "session", user |-> session[s].user] \in Call
      BY <2>1 DEF Call
    <2> QED
      BY <1>6, <2>2, QuietInv DEF AuthenticateSession
  <1>7. ASSUME NEW w \in Workspace, AccountMembership(c, w)
        PROVE  AccountsInv'
    <2> DEFINE u == call[c].user
               record == Found("member", w, u, member[<<w, u>>])
    <2>1. u \in User
      BY <1>1, <1>7, CallShapes DEF AccountMembership, At
    <2>2. <<w, u>> \in Membership
      BY <2>1 DEF Membership
    <2>3. Joined(<<w, u>>) /\ member[<<w, u>>] \in MemberRow
      BY <1>1, <1>7, <2>2 DEF AccountMembership, TypeOK, NoMember, Joined
    <2>4. record \in Call
      BY <2>1, <2>3 DEF Call, Found, MemberRow
    <2> QED
      BY <1>7, <2>3, <2>4, QuietInv DEF AccountMembership, Found
  <1>8. ASSUME NEW u \in User, NEW role \in Role, NEW status \in Status,
               ReadTarget(c, u, role, status)
        PROVE  AccountsInv'
    <2>1. PICK step \in {"count", "write"} :
              Continue(c, [op |-> step, target |-> <<call[c].workspace, u>>,
                           role |-> role, status |-> status])
      BY <1>8 DEF ReadTarget
    <2> DEFINE record == [op |-> step, target |-> <<call[c].workspace, u>>,
                          role |-> role, status |-> status]
    <2>2. <<call[c].workspace, u>> \in Membership
      BY <1>1, <1>8, CallShapes DEF ReadTarget, At, Membership
    <2>3. record \in Call
      BY <2>2 DEF Call
    <2> QED
      BY <1>8, <2>1, <2>3, QuietInv DEF ReadTarget
  <1>9. CASE CountOwners(c)
    <2>1. call[c] \in [op: {"count", "write"}, target: Membership, role: Role, status: Status]
      BY <1>1, <1>9 DEF CountOwners, At, TypeOK, Call, Idle
    <2> DEFINE record == [call[c] EXCEPT !.op = "write"]
    <2>2. record \in Call /\ record.op = "write" /\ record.target = call[c].target
      BY <2>1 DEF Call
    <2>3. Joined(call[c].target)
      BY <1>1, <1>9 DEF CountOwners, At, CallsKnown
    <2> QED
      BY <1>9, <2>2, <2>3, QuietInv DEF CountOwners
  <1>10. ASSUME NEW u \in User, AdminMembership(c, u)
         PROVE  AccountsInv'
    <2> DEFINE record == Found("admin", Home, u, member[<<Home, u>>])
    <2>1. <<Home, u>> \in Membership
      BY HomeAssumption DEF Membership
    <2>2. Joined(<<Home, u>>) /\ member[<<Home, u>>] \in MemberRow
      BY <1>1, <1>10, <2>1 DEF AdminMembership, TypeOK, NoMember, Joined
    <2>3. record \in Call
      BY <2>2, HomeAssumption DEF Call, Found, MemberRow
    <2> QED
      BY <1>10, <2>2, <2>3, QuietInv DEF AdminMembership, Found
  <1> QED
    BY <1>2, <1>3, <1>4, <1>5, <1>6, <1>7, <1>8, <1>9, <1>10

-----------------------------------------------------------------------------
(* Requests that write *)

\* Users, sessions and tokens: no membership, link or workspace changes.
LEMMA PeopleInv ==
    ASSUME AccountsInv, UNCHANGED <<workspace, member, link>>,
           user' \in [User -> UserRow], session' \in [Session -> SessionRow \cup {NoSession}],
           token' \in [Token -> TokenRow \cup {NoToken}],
           \A u \in User : user[u].status # "none" => user'[u].status # "none",
           LinkUsedOnce',
           call' \in [Caller -> Call],
           \A c \in Caller : call'[c] = call[c] \/ call'[c].op \in {"idle", "suspend"}
    PROVE  AccountsInv'
  <1>1. TypeOK'
    BY DEF AccountsInv, TypeOK
  <1>2. MembersInvited' /\ LinksKnown' /\ CreatorsJoined'
    BY DEF AccountsInv, MembersInvited, LinksKnown, CreatorsJoined, Joined
  <1>3. MembersKnown'
    BY DEF AccountsInv, MembersKnown, Joined, Membership
  <1>4. CallsKnown'
    BY DEF AccountsInv, CallsKnown, Joined
  <1> QED
    BY <1>1, <1>2, <1>3, <1>4 DEF AccountsInv

LEMMA ReturnedCall ==
    ASSUME TypeOK, NEW c \in Caller, Return(c)
    PROVE  call' \in [Caller -> Call] /\ \A d \in Caller : call'[d] = call[d] \/ call'[d].op = "idle"
  BY IdleCall DEF TypeOK, Return, Continue

LEMMA UserInv ==
    ASSUME AccountsInv, NEW c \in Caller,
           \/ \E p \in Password : SetUserPassword(c, p)
           \/ \E u \in User, status \in Status : SetUserStatus(c, u, status)
    PROVE  AccountsInv'
  <1>1. TypeOK /\ LinkUsedOnce
    BY DEF AccountsInv
  <1>2. ASSUME NEW p \in Password, SetUserPassword(c, p)
        PROVE  AccountsInv'
    <2>1. call[c].user \in User
      BY <1>1, <1>2, CallShapes DEF SetUserPassword, At
    <2>2. user' \in [User -> UserRow] /\ \A u \in User : user'[u].status = user[u].status
      BY <1>1, <1>2, <2>1 DEF SetUserPassword, TypeOK, UserRow
    <2>3. LinkUsedOnce'
      BY <1>1, <1>2 DEF SetUserPassword, LinkUsedOnce
    <2> QED
      BY <1>1, <1>2, <2>2, <2>3, PeopleInv, ReturnedCall DEF SetUserPassword, TypeOK
  <1>3. ASSUME NEW u \in User, NEW status \in Status, SetUserStatus(c, u, status)
        PROVE  AccountsInv'
    <2>1. user' \in [User -> UserRow] /\ \A v \in User : user[v].status # "none" => user'[v].status # "none"
      BY <1>1, <1>3 DEF SetUserStatus, TypeOK, UserRow, Status
    <2>2. LinkUsedOnce'
      BY <1>1, <1>3 DEF SetUserStatus, LinkUsedOnce
    <2>3. [op |-> "suspend", user |-> u] \in Call
      BY DEF Call
    <2>4. /\ call' \in [Caller -> Call]
          /\ \A d \in Caller : call'[d] = call[d] \/ call'[d].op \in {"idle", "suspend"}
      BY <1>1, <1>3, <2>3 DEF SetUserStatus, TypeOK, Continue
    <2> QED
      BY <1>1, <1>3, <2>1, <2>2, <2>4, PeopleInv DEF SetUserStatus, TypeOK
  <1> QED
    BY <1>2, <1>3

LEMMA SessionInv ==
    ASSUME AccountsInv,
           \/ \E c \in Caller, s \in Session : AuthenticatePassword(c, s)
           \/ \E s \in Session : RevokeSession(s)
           \/ \E c \in Caller : EndSessions(c)
    PROVE  AccountsInv'
  <1>1. TypeOK /\ LinkUsedOnce
    BY DEF AccountsInv
  <1>2. ASSUME NEW c \in Caller, NEW s \in Session, AuthenticatePassword(c, s)
        PROVE  AccountsInv'
    <2>1. call[c].user \in User
      BY <1>1, <1>2, CallShapes DEF AuthenticatePassword, At
    <2>2. NewSession(call[c].user, None) \in SessionRow
      BY <2>1 DEF NewSession, SessionRow
    <2>3. session' \in [Session -> SessionRow \cup {NoSession}]
      BY <1>1, <1>2, <2>2 DEF AuthenticatePassword, TypeOK
    <2>4. \A r \in Session : session'[r] = IF r = s THEN NewSession(call[c].user, None) ELSE session[r]
      BY <1>1, <1>2 DEF AuthenticatePassword, TypeOK
    <2>5. LinkUsedOnce'
      BY <1>1, <1>2, <2>4 DEF AuthenticatePassword, LinkUsedOnce, NewSession, NoSession
    <2> QED
      BY <1>1, <1>2, <2>3, <2>5, PeopleInv, ReturnedCall DEF AuthenticatePassword, TypeOK
  <1>3. ASSUME NEW E \in SUBSET Session, \A s \in E : session[s].state = "live",
               session' = [s \in Session |-> IF s \in E THEN [session[s] EXCEPT !.state = "ended"]
                                             ELSE session[s]],
               UNCHANGED <<workspace, user, member, link, token>>
        PROVE  session' \in [Session -> SessionRow \cup {NoSession}] /\ LinkUsedOnce'
    <2>1. \A s \in E : session[s] \in SessionRow
      BY <1>1, <1>3 DEF TypeOK, NoSession
    <2>2. \A s \in E : /\ session'[s] \in SessionRow /\ session'[s] # NoSession
                       /\ session'[s].user = session[s].user /\ session'[s].from = session[s].from
      BY <1>3, <2>1 DEF SessionRow, NoSession
    <2>3. \A s \in Session \ E : session'[s] = session[s]
      BY <1>3
    <2>4. session' \in [Session -> SessionRow \cup {NoSession}]
      BY <1>1, <1>3, <2>2, <2>3 DEF TypeOK
    <2>5. \A s \in E : session[s] # NoSession
      BY <1>3 DEF NoSession
    <2>6. LinkUsedOnce'
      BY <1>1, <1>3, <2>2, <2>3, <2>5 DEF LinkUsedOnce
    <2> QED
      BY <2>4, <2>6
  <1>4. ASSUME NEW s \in Session, RevokeSession(s)
        PROVE  AccountsInv'
    <2>1. session' = [r \in Session |-> IF r \in {s} THEN [session[r] EXCEPT !.state = "ended"]
                                                   ELSE session[r]]
      BY <1>1, <1>4 DEF RevokeSession, TypeOK
    <2>2. session' \in [Session -> SessionRow \cup {NoSession}] /\ LinkUsedOnce'
      <3>1. {s} \in SUBSET Session /\ \A r \in {s} : session[r].state = "live"
        BY <1>4 DEF RevokeSession
      <3> QED
        BY <1>3, <1>4, <2>1, <3>1 DEF RevokeSession
    <2> QED
      BY <1>1, <1>4, <2>2, PeopleInv DEF RevokeSession, TypeOK
  <1>5. ASSUME NEW c \in Caller, EndSessions(c)
        PROVE  AccountsInv'
    <2> DEFINE E == {s \in Session : session[s].state = "live" /\ session[s].user = call[c].user}
    <2>1. session' = [s \in Session |-> IF s \in E THEN [session[s] EXCEPT !.state = "ended"]
                                                  ELSE session[s]]
      BY <1>5 DEF EndSessions
    <2>2. session' \in [Session -> SessionRow \cup {NoSession}] /\ LinkUsedOnce'
      <3>1. E \in SUBSET Session /\ \A r \in E : session[r].state = "live"
        OBVIOUS
      <3> HIDE DEF E
      <3> QED
        BY <1>3, <1>5, <2>1, <3>1 DEF EndSessions
    <2> QED
      BY <1>1, <1>5, <2>2, PeopleInv, ReturnedCall DEF EndSessions, TypeOK
  <1> QED
    BY <1>2, <1>4, <1>5

LEMMA TokenInv ==
    ASSUME AccountsInv, NEW c \in Caller, NEW t \in Token,
           IssueProjectToken(c, t) \/ RevokeProjectToken(c, t)
    PROVE  AccountsInv'
  <1>1. TypeOK /\ LinkUsedOnce
    BY DEF AccountsInv
  <1>2. <<call[c].workspace, call[c].user>> \in Membership
    BY <1>1, CallShapes DEF IssueProjectToken, RevokeProjectToken, At, Membership
  <1>3. token' \in [Token -> TokenRow \cup {NoToken}]
    <2>1. CASE IssueProjectToken(c, t)
      BY <1>1, <1>2, <2>1 DEF IssueProjectToken, TypeOK, TokenRow, IssuerOf
    <2>2. CASE RevokeProjectToken(c, t)
      <3>1. token[t] \in TokenRow
        BY <1>1, <2>2 DEF RevokeProjectToken, TypeOK, NoToken
      <3>2. [token[t] EXCEPT !.state = "revoked"] \in TokenRow
        BY <3>1 DEF TokenRow
      <3> QED
        BY <1>1, <2>2, <3>2 DEF RevokeProjectToken, TypeOK
    <2> QED
      BY <2>1, <2>2
  <1>4. LinkUsedOnce' /\ Return(c) /\ UNCHANGED <<workspace, user, member, link, session>>
    BY <1>1 DEF IssueProjectToken, RevokeProjectToken, LinkUsedOnce
  <1> QED
    BY <1>1, <1>3, <1>4, PeopleInv, ReturnedCall DEF TypeOK

\* Links: none goes back to a state from which a session could not stem, and
\* no invitation that admitted a member changes.
LEMMA LinksInv ==
    ASSUME AccountsInv, UNCHANGED <<workspace, user, member, session, token>>,
           link' \in [Link -> LinkRow \cup {NoLink}],
           \A l \in Link : link[l].state = "used" => link'[l] = link[l],
           \A l \in Link : link'[l] = NoLink \/ workspace[link'[l].workspace].status # "none",
           call' \in [Caller -> Call],
           \A c \in Caller : call'[c] = call[c] \/ call'[c].op = "idle"
    PROVE  AccountsInv'
  <1>1. TypeOK'
    BY DEF AccountsInv, TypeOK
  <1>2. LinkUsedOnce'
    BY DEF AccountsInv, TypeOK, LinkUsedOnce, SessionRow, NoSession
  <1>3. MembersInvited'
    BY DEF AccountsInv, MembersInvited, Joined
  <1>4. MembersKnown' /\ LinksKnown' /\ CreatorsJoined'
    BY DEF AccountsInv, MembersKnown, LinksKnown, CreatorsJoined, Joined
  <1>5. CallsKnown'
    BY DEF AccountsInv, CallsKnown, Joined
  <1> QED
    BY <1>1, <1>2, <1>3, <1>4, <1>5 DEF AccountsInv

LEMMA NewLinkInv ==
    ASSUME AccountsInv, NEW c \in Caller, NEW l \in Link,
           \/ RequestMagicLink(c, l)
           \/ \E u \in User, role \in Role : CreateWorkspaceInvite(c, l, u, role)
    PROVE  AccountsInv'
  <1>1. TypeOK /\ LinksKnown /\ CallsKnown /\ MembersKnown /\ CreatorsJoined
    BY DEF AccountsInv
  <1>2. PICK row \in LinkRow : /\ link' = [link EXCEPT ![l] = row]
                               /\ workspace[row.workspace].status # "none"
    <2>1. CASE RequestMagicLink(c, l)
      <3>1. call[c].user \in User
        BY <1>1, <2>1, CallShapes DEF RequestMagicLink, At
      <3>2. Login(call[c].user) \in LinkRow /\ Login(call[c].user).workspace = Home
        BY <3>1, HomeAssumption DEF Login, LinkRow, Role
      <3> QED
        BY <1>1, <2>1, <3>2 DEF RequestMagicLink, CreatorsJoined
    <2>2. ASSUME NEW u \in User, NEW role \in Role, CreateWorkspaceInvite(c, l, u, role)
          PROVE  \E row \in LinkRow : /\ link' = [link EXCEPT ![l] = row]
                                      /\ workspace[row.workspace].status # "none"
      <3> DEFINE w == call[c].workspace
      <3>1. call[c].op \in {"member", "admin", "claimed"}
        BY <2>2 DEF CreateWorkspaceInvite, At
      <3>2. w \in Workspace /\ call[c].user \in User /\ Joined(<<w, call[c].user>>)
        BY <1>1, <3>1, CallShapes DEF CallsKnown
      <3>3. workspace[w].status # "none"
        <4>1. <<w, call[c].user>> \in Membership
          BY <3>2 DEF Membership
        <4> QED
          BY <1>1, <3>2, <4>1 DEF MembersKnown
      <3>4. Invite(w, u, role) \in LinkRow /\ Invite(w, u, role).workspace = w
        BY <3>2 DEF Invite, LinkRow
      <3> QED
        BY <2>2, <3>3, <3>4 DEF CreateWorkspaceInvite
    <2> QED
      BY <2>1, <2>2
  <1>3. /\ UNCHANGED <<workspace, user, member, session, token>>
        /\ link[l] = NoLink /\ Return(c)
    BY DEF RequestMagicLink, CreateWorkspaceInvite
  <1>4. link' \in [Link -> LinkRow \cup {NoLink}] /\ \A k \in Link : link'[k] = IF k = l THEN row ELSE link[k]
    BY <1>1, <1>2 DEF TypeOK
  <1>5. \A k \in Link : link[k].state = "used" => link'[k] = link[k]
    BY <1>3, <1>4 DEF NoLink
  <1>6. \A k \in Link : link'[k] = NoLink \/ workspace[link'[k].workspace].status # "none"
    BY <1>1, <1>2, <1>4 DEF LinksKnown
  <1> QED
    BY <1>1, <1>3, <1>4, <1>5, <1>6, LinksInv, ReturnedCall

LEMMA OldLinkInv ==
    ASSUME AccountsInv, NEW l \in Link,
           ExpireLink(l) \/ \E c \in Caller : RevokeInvite(c, l)
    PROVE  AccountsInv'
  <1>1. TypeOK /\ LinksKnown
    BY DEF AccountsInv
  <1>2. PICK state \in {"revoked", "expired"} : link' = [link EXCEPT ![l].state = state]
    BY DEF ExpireLink, RevokeInvite
  <1>3. /\ UNCHANGED <<workspace, user, member, session, token>>
        /\ link[l].state \in {"pending", "expired"}
    BY DEF ExpireLink, RevokeInvite
  <1>4. link[l] \in LinkRow /\ link[l] # NoLink
    BY <1>1, <1>3 DEF TypeOK, NoLink
  <1>5. /\ link'[l] \in LinkRow /\ link'[l].workspace = link[l].workspace
        /\ link' \in [Link -> LinkRow \cup {NoLink}]
        /\ \A k \in Link \ {l} : link'[k] = link[k]
    BY <1>1, <1>2, <1>4 DEF TypeOK, LinkRow
  <1>6. \A k \in Link : link[k].state = "used" => link'[k] = link[k]
    BY <1>3, <1>5
  <1>7. \A k \in Link : link'[k] = NoLink \/ workspace[link'[k].workspace].status # "none"
    BY <1>1, <1>4, <1>5 DEF LinksKnown
  <1>8. call' \in [Caller -> Call] /\ \A c \in Caller : call'[c] = call[c] \/ call'[c].op = "idle"
    <2>1. CASE ExpireLink(l)
      BY <1>1, <2>1 DEF ExpireLink, TypeOK
    <2>2. CASE \E c \in Caller : RevokeInvite(c, l)
      BY <1>1, <2>2, ReturnedCall DEF RevokeInvite
    <2> QED
      BY <2>1, <2>2
  <1> QED
    BY <1>3, <1>5, <1>6, <1>7, <1>8, LinksInv

LEMMA UpdateInv ==
    ASSUME AccountsInv, NEW c \in Caller, UpdateMembership(c)
    PROVE  AccountsInv'
  <1>1. TypeOK /\ CallsKnown
    BY DEF AccountsInv
  <1> DEFINE m == call[c].target
             row == [role |-> call[c].role, status |-> call[c].status]
  <1>2. m \in Membership /\ row \in MemberRow /\ Joined(m)
    BY <1>1, CallShapes DEF UpdateMembership, At, MemberRow, CallsKnown
  <1>3. row # NoMember
    BY <1>2 DEF MemberRow, NoMember, Role
  <1>4. /\ member' \in [Membership -> MemberRow \cup {NoMember}]
        /\ \A n \in Membership : Joined(n)' <=> Joined(n)
    BY <1>1, <1>2, <1>3 DEF UpdateMembership, TypeOK, Joined
  <1>5. call' \in [Caller -> Call] /\ \A d \in Caller : call'[d] = call[d] \/ call'[d].op = "idle"
    BY <1>1, ReturnedCall DEF UpdateMembership
  <1>6. TypeOK'
    BY <1>1, <1>4, <1>5 DEF UpdateMembership, TypeOK
  <1>7. LinkUsedOnce' /\ LinksKnown'
    BY DEF UpdateMembership, AccountsInv, LinkUsedOnce, LinksKnown
  <1>8. MembersInvited' /\ MembersKnown'
    BY <1>4 DEF UpdateMembership, AccountsInv, MembersInvited, MembersKnown
  <1>9. CreatorsJoined'
    <2>1. \A w \in Workspace : workspace[w].creator # None => <<w, workspace[w].creator>> \in Membership
      BY <1>1 DEF TypeOK, WorkspaceRow, Membership
    <2> QED
      BY <1>4, <2>1 DEF UpdateMembership, AccountsInv, CreatorsJoined
  <1>10. CallsKnown'
    <2>1. \A d \in Caller :
              /\ call[d].op \in {"member", "admin", "claimed"} =>
                     <<call[d].workspace, call[d].user>> \in Membership
              /\ call[d].op \in {"count", "write"} => call[d].target \in Membership
      BY <1>1, CallShapes DEF Membership
    <2> QED
      BY <1>1, <1>4, <1>5, <2>1 DEF CallsKnown
  <1> QED
    BY <1>6, <1>7, <1>8, <1>9, <1>10 DEF AccountsInv

LEMMA WorkspaceStatusInv ==
    ASSUME AccountsInv, NEW w \in Workspace, NEW status \in Status, SetWorkspaceStatus(w, status)
    PROVE  AccountsInv'
  <1>1. TypeOK
    BY DEF AccountsInv
  <1>2. /\ workspace' \in [Workspace -> WorkspaceRow]
        /\ \A v \in Workspace : /\ workspace'[v].creator = workspace[v].creator
                                /\ workspace[v].status # "none" => workspace'[v].status # "none"
    BY <1>1 DEF SetWorkspaceStatus, TypeOK, WorkspaceRow, Status
  <1>3. TypeOK'
    BY <1>1, <1>2 DEF SetWorkspaceStatus, TypeOK
  <1>4. LinkUsedOnce' /\ CallsKnown'
    BY DEF SetWorkspaceStatus, AccountsInv, LinkUsedOnce, CallsKnown, Joined
  <1>5. MembersInvited' /\ MembersKnown'
    BY <1>2 DEF SetWorkspaceStatus, AccountsInv, MembersInvited, MembersKnown, Joined, Membership
  <1>6. LinksKnown'
    BY <1>1, <1>2 DEF SetWorkspaceStatus, AccountsInv, LinksKnown, TypeOK, LinkRow
  <1>7. CreatorsJoined'
    BY <1>2, HomeAssumption DEF SetWorkspaceStatus, AccountsInv, CreatorsJoined, Joined
  <1> QED
    BY <1>3, <1>4, <1>5, <1>6, <1>7 DEF AccountsInv

\* A step that adds one membership, for the creator of the workspace or for
\* someone whose invitation is used in the same step.
LEMMA AdmittingInv ==
    ASSUME AccountsInv, TypeOK', LinkUsedOnce', LinksKnown', CallsKnown',
           NEW w \in Workspace, NEW u \in User, NEW row \in MemberRow,
           member' = [member EXCEPT ![<<w, u>>] = row],
           \A v \in User : user[v].status # "none" => user'[v].status # "none",
           \A v \in Workspace : workspace[v].status # "none" => workspace'[v].status # "none",
           \A v \in Workspace : workspace'[v].creator = workspace[v].creator
               \/ (v = w /\ workspace[w].creator = None /\ workspace'[w].creator = u),
           \A l \in Link : link[l].state = "used" => link'[l] = link[l],
           user'[u].status # "none", workspace'[w].status # "none",
           \/ workspace'[w].creator = u
           \/ \E l \in Link : /\ link'[l].state = "used" /\ link'[l].kind = "invite"
                              /\ link'[l].workspace = w /\ link'[l].email = u
    PROVE  AccountsInv'
  <1>1. TypeOK
    BY DEF AccountsInv
  <1>2. <<w, u>> \in Membership /\ row # NoMember
    BY DEF Membership, MemberRow, NoMember, Role
  <1>3. \A m \in Membership : Joined(m)' <=> (Joined(m) \/ m = <<w, u>>)
    BY <1>1, <1>2 DEF TypeOK, Joined
  <1>4. MembersInvited'
    <2>1. ASSUME NEW m \in Membership, Joined(m)'
          PROVE  \/ workspace'[m[1]].creator = m[2]
                 \/ \E l \in Link : /\ link'[l].state = "used" /\ link'[l].kind = "invite"
                                    /\ link'[l].workspace = m[1] /\ link'[l].email = m[2]
      <3>1. CASE m = <<w, u>>
        BY <3>1
      <3>2. CASE Joined(m)
        <4>1. m[1] \in Workspace /\ m[2] \in User
          BY DEF Membership
        <4>2. CASE workspace[m[1]].creator = m[2]
          BY <4>1, <4>2, NoneAssumption
        <4>3. CASE \E l \in Link : /\ link[l].state = "used" /\ link[l].kind = "invite"
                                   /\ link[l].workspace = m[1] /\ link[l].email = m[2]
          BY <4>3
        <4> QED
          BY <3>2, <4>2, <4>3 DEF AccountsInv, MembersInvited
      <3> QED
        BY <1>3, <2>1, <3>1, <3>2
    <2> QED
      BY <2>1 DEF MembersInvited
  <1>5. MembersKnown'
    BY <1>3 DEF AccountsInv, MembersKnown, Membership
  <1>6. CreatorsJoined'
    <2>1. \A v \in Workspace : workspace'[v].creator # None => member'[<<v, workspace'[v].creator>>] # NoMember
      <3>1. ASSUME NEW v \in Workspace, workspace'[v].creator # None
            PROVE  member'[<<v, workspace'[v].creator>>] # NoMember
        <4>1. <<v, workspace'[v].creator>> \in Membership
          BY <3>1 DEF TypeOK, WorkspaceRow, Membership
        <4> QED
          BY <1>3, <3>1, <4>1 DEF AccountsInv, CreatorsJoined, Joined
      <3> QED
        BY <3>1
    <2> QED
      BY <2>1, HomeAssumption DEF AccountsInv, CreatorsJoined, Joined
  <1> QED
    BY <1>4, <1>5, <1>6 DEF AccountsInv

LEMMA OwnedInv ==
    ASSUME AccountsInv, NEW c \in Caller, NEW u \in User, NEW w \in Workspace,
           CreateWorkspaceForUser(c, u, w)
    PROVE  AccountsInv'
  <1>1. TypeOK /\ MembersKnown /\ CallsKnown
    BY DEF AccountsInv
  <1>2. NewMember("owner") \in MemberRow /\ NewMember("owner") # NoMember
    BY DEF NewMember, MemberRow, NoMember, Role, Status
  <1>3. workspace[w].creator = None
    <2>1. workspace[w].creator # None => <<w, workspace[w].creator>> \in Membership
      BY <1>1 DEF TypeOK, WorkspaceRow, Membership
    <2> QED
      BY <2>1 DEF CreateWorkspaceForUser, AccountsInv, CreatorsJoined, MembersKnown
  <1>4. /\ workspace' \in [Workspace -> WorkspaceRow]
        /\ workspace'[w].status # "none" /\ workspace'[w].creator = u
        /\ \A v \in Workspace \ {w} : workspace'[v] = workspace[v]
    BY <1>1 DEF CreateWorkspaceForUser, TypeOK, WorkspaceRow, Status
  <1>5. /\ member' \in [Membership -> MemberRow \cup {NoMember}]
        /\ \A m \in Membership : Joined(m) => Joined(m)'
    BY <1>1, <1>2 DEF CreateWorkspaceForUser, TypeOK, Joined
  <1>6. call' \in [Caller -> Call] /\ \A d \in Caller : call'[d] = call[d] \/ call'[d].op = "idle"
    BY <1>1, ReturnedCall DEF CreateWorkspaceForUser
  <1>7. TypeOK'
    BY <1>1, <1>4, <1>5, <1>6 DEF CreateWorkspaceForUser, TypeOK
  <1>8. LinkUsedOnce'
    BY DEF CreateWorkspaceForUser, AccountsInv, LinkUsedOnce
  <1>9. LinksKnown'
    <2>1. \A l \in Link : link[l] # NoLink => link[l].workspace \in Workspace
      BY <1>1 DEF TypeOK, LinkRow
    <2> QED
      BY <1>4, <2>1 DEF CreateWorkspaceForUser, AccountsInv, LinksKnown
  <1>10. CallsKnown'
    <2>1. \A d \in Caller :
              /\ call[d].op \in {"member", "admin", "claimed"} =>
                     <<call[d].workspace, call[d].user>> \in Membership
              /\ call[d].op \in {"count", "write"} => call[d].target \in Membership
      BY <1>1, CallShapes DEF Membership
    <2> QED
      BY <1>1, <1>5, <1>6, <2>1 DEF CallsKnown, Joined
  <1>11. user[u].status # "none" /\ UNCHANGED <<user, link>>
    BY DEF CreateWorkspaceForUser
  <1> QED
    BY <1>2, <1>3, <1>4, <1>7, <1>8, <1>9, <1>10, <1>11, AdmittingInv DEF CreateWorkspaceForUser

LEMMA ClaimInv ==
    ASSUME AccountsInv, NEW c \in Caller, NEW u \in User, ClaimBootstrapOwner(c, u)
    PROVE  AccountsInv'
  <1> DEFINE owner == workspace'[Home].creator
             record == Found("claimed", Home, owner, member'[<<Home, owner>>])
  <1>1. TypeOK /\ MembersKnown /\ CallsKnown /\ CreatorsJoined
    BY DEF AccountsInv
  <1>2. CASE workspace[Home].creator # None
    <2>1. UNCHANGED <<workspace, user, member, link, session, token>> /\ Continue(c, record)
      BY <1>2 DEF ClaimBootstrapOwner
    <2>2. owner \in User /\ <<Home, owner>> \in Membership /\ Joined(<<Home, owner>>)
      BY <1>1, <1>2, <2>1, HomeAssumption DEF TypeOK, WorkspaceRow, CreatorsJoined, Membership
    <2>3. member'[<<Home, owner>>] \in MemberRow
      BY <1>1, <2>1, <2>2 DEF TypeOK, Joined
    <2>4. record \in Call
      BY <2>2, <2>3, HomeAssumption DEF Call, Found, MemberRow
    <2>5. record.op = "claimed" /\ record.workspace = Home /\ record.user = owner
      BY DEF Found
    <2> HIDE DEF record, owner
    <2> QED
      BY <2>1, <2>2, <2>4, <2>5, QuietInv
  <1>3. CASE workspace[Home].creator = None
    <2>1. /\ user' = [user EXCEPT ![u].status = "active"]
          /\ workspace' = [workspace EXCEPT ![Home].creator = u]
          /\ member' = [member EXCEPT ![<<Home, u>>] = NewMember("owner")]
          /\ user[u].status = "none" /\ UNCHANGED <<link, session, token>>
          /\ Continue(c, record)
      BY <1>3 DEF ClaimBootstrapOwner
    <2>2. /\ workspace' \in [Workspace -> WorkspaceRow] /\ workspace'[Home].creator = u
          /\ \A v \in Workspace : workspace'[v].status = workspace[v].status
          /\ \A v \in Workspace \ {Home} : workspace'[v] = workspace[v]
      BY <1>1, <2>1, HomeAssumption DEF TypeOK, WorkspaceRow
    <2>3. /\ user' \in [User -> UserRow] /\ user'[u].status # "none"
          /\ \A v \in User : user[v].status # "none" => user'[v].status # "none"
      BY <1>1, <2>1 DEF TypeOK, UserRow, Status
    <2>4. NewMember("owner") \in MemberRow /\ NewMember("owner") # NoMember
      BY DEF NewMember, MemberRow, NoMember, Role, Status
    <2>5. /\ member' \in [Membership -> MemberRow \cup {NoMember}]
          /\ <<Home, u>> \in Membership /\ member'[<<Home, u>>] = NewMember("owner")
          /\ \A m \in Membership : Joined(m) => member'[m] # NoMember
      BY <1>1, <2>1, <2>4, HomeAssumption DEF TypeOK, Joined, Membership
    <2>6. record = Found("claimed", Home, u, NewMember("owner"))
      BY <2>2, <2>5
    <2>7. record \in Call
      BY <2>4, <2>6, HomeAssumption DEF Call, Found, MemberRow
    <2>8. record.op = "claimed" /\ record.workspace = Home /\ record.user = u
      BY <2>6 DEF Found
    <2> HIDE DEF record, owner
    <2>9. call' \in [Caller -> Call] /\ \A d \in Caller : call'[d] = call[d] \/ call'[d] = record
      BY <1>1, <2>1, <2>7 DEF TypeOK, Continue
    <2>10. TypeOK'
      BY <1>1, <2>1, <2>2, <2>3, <2>5, <2>9 DEF TypeOK
    <2>11. LinkUsedOnce'
      BY <2>1 DEF AccountsInv, LinkUsedOnce
    <2>12. LinksKnown'
      <3>1. \A l \in Link : link[l] # NoLink => link[l].workspace \in Workspace
        BY <1>1 DEF TypeOK, LinkRow
      <3> QED
        BY <2>1, <2>2, <3>1 DEF AccountsInv, LinksKnown
    <2>13. CallsKnown'
      <3>1. \A d \in Caller :
                /\ call[d].op \in {"member", "admin", "claimed"} =>
                       <<call[d].workspace, call[d].user>> \in Membership
                /\ call[d].op \in {"count", "write"} => call[d].target \in Membership
        BY <1>1, CallShapes DEF Membership
      <3> QED
        BY <1>1, <2>4, <2>5, <2>8, <2>9, <3>1 DEF CallsKnown, Joined
    <2>14. workspace'[Home].status # "none"
      BY <1>1, <2>2, HomeAssumption DEF CreatorsJoined
    <2> QED
      BY <1>3, <2>1, <2>2, <2>3, <2>4, <2>10, <2>11, <2>12, <2>13, <2>14,
         AdmittingInv, HomeAssumption
  <1> QED
    BY <1>2, <1>3

\* The rows of the link and of the session that a consumed link leaves.
LEMMA ConsumedRows ==
    ASSUME AccountsInv, NEW l \in Link, NEW s \in Session, NEW p \in Password \cup {None},
           link[l] # NoLink, Consume(l, s, p)
    PROVE  /\ link' \in [Link -> LinkRow \cup {NoLink}]
           /\ link'[l].state = "used" /\ link[l].state = "pending"
           /\ link'[l].kind = link[l].kind /\ link'[l].email = link[l].email
           /\ link'[l].workspace = link[l].workspace /\ link'[l].role = link[l].role
           /\ \A k \in Link \ {l} : link'[k] = link[k]
           /\ session' \in [Session -> SessionRow \cup {NoSession}]
           /\ user' \in [User -> UserRow]
           /\ \A v \in User : user[v].status # "none" => user'[v].status # "none"
           /\ user'[link[l].email].status # "none"
           /\ LinkUsedOnce' /\ LinksKnown'
  <1>1. TypeOK /\ LinkUsedOnce /\ LinksKnown
    BY DEF AccountsInv
  <1>2. link[l] \in LinkRow
    BY <1>1 DEF TypeOK
  <1>3. /\ link' = [link EXCEPT ![l].state = "used"] /\ link[l].state = "pending"
        /\ session[s] = NoSession
        /\ session' = [session EXCEPT ![s] = NewSession(link[l].email, l)]
        /\ user' = SignedIn(link[l].email, p)
        /\ UNCHANGED <<workspace, token>>
    BY DEF Consume, Usable, MarkedUsed
  <1>4. /\ link' \in [Link -> LinkRow \cup {NoLink}]
        /\ link'[l].state = "used" /\ link'[l] \in LinkRow
        /\ link'[l].kind = link[l].kind /\ link'[l].email = link[l].email
        /\ link'[l].workspace = link[l].workspace /\ link'[l].role = link[l].role
        /\ \A k \in Link \ {l} : link'[k] = link[k]
    BY <1>1, <1>2, <1>3 DEF TypeOK, LinkRow
  <1>5. NewSession(link[l].email, l) \in SessionRow
    BY <1>2 DEF NewSession, SessionRow, LinkRow
  <1>6. /\ session' \in [Session -> SessionRow \cup {NoSession}]
        /\ \A r \in Session : session'[r] = IF r = s THEN NewSession(link[l].email, l) ELSE session[r]
    BY <1>1, <1>3, <1>5 DEF TypeOK
  <1>7. /\ user' \in [User -> UserRow]
        /\ \A v \in User : user[v].status # "none" => user'[v].status # "none"
        /\ user'[link[l].email].status # "none"
    <2>1. link[l].email \in User
      BY <1>2 DEF LinkRow
    <2> QED
      BY <1>1, <1>3, <2>1 DEF SignedIn, TypeOK, UserRow, Status
  <1>8. LinkUsedOnce'
    <2>1. \A r \in Session : session[r] # NoSession => session[r].from # l
      BY <1>1, <1>3, NoneAssumption DEF LinkUsedOnce
    <2>2. \A r \in Session : session[r] # NoSession => session[r].from \in Link \cup {None}
      BY <1>1 DEF TypeOK, SessionRow
    <2>3. NewSession(link[l].email, l).from = l /\ NewSession(link[l].email, l).user = link[l].email
      BY DEF NewSession
    <2> HIDE DEF NewSession
    <2>4. ASSUME NEW r \in Session, session'[r] # NoSession, session'[r].from # None
          PROVE  LET k == session'[r].from IN
                 /\ link'[k].state = "used" /\ link'[k].email = session'[r].user
                 /\ \A q \in Session \ {r} : session'[q] # NoSession => session'[q].from # k
      <3>1. CASE r = s
        BY <1>4, <1>6, <2>1, <2>3, <3>1
      <3>2. CASE r # s
        <4>1. session'[r] = session[r] /\ session[r].from \in Link \ {l}
          BY <1>6, <2>1, <2>2, <2>4, <3>2
        <4>2. link'[session[r].from] = link[session[r].from]
          BY <1>4, <4>1
        <4> QED
          BY <1>1, <1>6, <2>3, <2>4, <4>1, <4>2 DEF LinkUsedOnce
      <3> QED
        BY <3>1, <3>2
    <2> QED
      BY <2>4 DEF LinkUsedOnce
  <1>9. LinksKnown'
    BY <1>1, <1>3, <1>4 DEF LinksKnown, NoLink
  <1> QED
    BY <1>3, <1>4, <1>6, <1>7, <1>8, <1>9

LEMMA ConsumeInv ==
    ASSUME AccountsInv, NEW l \in Link, NEW s \in Session, NEW p \in Password \cup {None},
           link[l] # NoLink, Consume(l, s, p), call' \in [Caller -> Call],
           \A c \in Caller : call'[c] = call[c] \/ call'[c].op = "idle"
    PROVE  AccountsInv'
  <1> DEFINE w == link[l].workspace
             u == link[l].email
  <1>1. TypeOK /\ CallsKnown /\ LinksKnown
    BY DEF AccountsInv
  <1>2. link[l] \in LinkRow /\ w \in Workspace /\ u \in User /\ link[l].role \in Role
    BY <1>1 DEF TypeOK, LinkRow
  <1>3. NewMember(link[l].role) \in MemberRow /\ NewMember(link[l].role) # NoMember
    BY <1>2 DEF NewMember, MemberRow, NoMember, Role, Status
  <1>4. \/ member' = member
        \/ Admits(link[l]) /\ member' = [member EXCEPT ![<<w, u>>] = NewMember(link[l].role)]
    BY DEF Consume, Admitted
  <1>5. /\ member' \in [Membership -> MemberRow \cup {NoMember}]
        /\ \A m \in Membership : Joined(m) => member'[m] # NoMember
    BY <1>1, <1>3, <1>4 DEF TypeOK, Joined
  <1>6. UNCHANGED <<workspace, token>>
    BY DEF Consume
  <1>7. TypeOK'
    BY <1>1, <1>5, <1>6, ConsumedRows DEF TypeOK
  <1>8. CallsKnown'
    <2>1. \A d \in Caller :
              /\ call[d].op \in {"member", "admin", "claimed"} =>
                     <<call[d].workspace, call[d].user>> \in Membership
              /\ call[d].op \in {"count", "write"} => call[d].target \in Membership
      BY <1>1, CallShapes DEF Membership
    <2> QED
      BY <1>1, <1>5, <2>1 DEF CallsKnown, Joined
  <1>9. \A k \in Link : link[k].state = "used" => link'[k] = link[k]
    BY ConsumedRows
  <1>10. CASE member' = member
    <2>1. MembersInvited'
      BY <1>6, <1>9, <1>10 DEF AccountsInv, MembersInvited, Joined
    <2>2. MembersKnown' /\ CreatorsJoined'
      BY <1>6, <1>10, ConsumedRows DEF AccountsInv, MembersKnown, CreatorsJoined, Joined, Membership
    <2> QED
      BY <1>7, <1>8, <2>1, <2>2, ConsumedRows DEF AccountsInv
  <1>11. CASE Admits(link[l]) /\ member' = [member EXCEPT ![<<w, u>>] = NewMember(link[l].role)]
    <2>1. workspace[w].status # "none"
      BY <1>1 DEF LinksKnown
    <2>2. \E k \in Link : /\ link'[k].state = "used" /\ link'[k].kind = "invite"
                          /\ link'[k].workspace = w /\ link'[k].email = u
      BY <1>11, ConsumedRows DEF Admits
    <2>3. LinkUsedOnce' /\ LinksKnown' /\ user'[u].status # "none"
          /\ \A v \in User : user[v].status # "none" => user'[v].status # "none"
      BY ConsumedRows
    <2> HIDE DEF w, u
    <2> QED
      BY <1>2, <1>3, <1>6, <1>7, <1>8, <1>9, <1>11, <2>1, <2>2, <2>3, AdmittingInv
  <1> QED
    BY <1>4, <1>10, <1>11

\* The two requests that consume a link.
LEMMA ConsumesLink ==
    ASSUME TypeOK, NEW s \in Session,
           \/ \E c \in Caller : ConsumeInviteWithPassword(c, s)
           \/ \E l \in Link : ConsumeAuthToken(l, s)
    PROVE  \E l \in Link, p \in Password \cup {None} :
               /\ Consume(l, s, p) /\ link[l] # NoLink
               /\ call' \in [Caller -> Call]
               /\ \A c \in Caller : call'[c] = call[c] \/ call'[c].op = "idle"
  <1>1. ASSUME NEW c \in Caller, ConsumeInviteWithPassword(c, s)
        PROVE  /\ call[c].link \in Link /\ call[c].password \in Password
               /\ Consume(call[c].link, s, call[c].password) /\ link[call[c].link] # NoLink
    <2>1. call[c].link \in Link /\ call[c].password \in Password
      BY <1>1, CallShapes DEF ConsumeInviteWithPassword, At
    <2>2. Consume(call[c].link, s, call[c].password)
      BY <1>1 DEF ConsumeInviteWithPassword
    <2>3. link[call[c].link] # NoLink
      BY <2>2 DEF Consume, Usable, NoLink
    <2> QED
      BY <2>1, <2>2, <2>3
  <1>2. ASSUME NEW c \in Caller, ConsumeInviteWithPassword(c, s)
        PROVE  call' \in [Caller -> Call] /\ \A d \in Caller : call'[d] = call[d] \/ call'[d].op = "idle"
    BY <1>2, ReturnedCall DEF ConsumeInviteWithPassword
  <1>3. ASSUME NEW l \in Link, ConsumeAuthToken(l, s)
        PROVE  /\ Consume(l, s, None) /\ link[l] # NoLink
               /\ call' \in [Caller -> Call] /\ call' = call
    BY <1>3 DEF ConsumeAuthToken, TypeOK
  <1> QED
    BY <1>1, <1>2, <1>3

-----------------------------------------------------------------------------
(* Every step *)

LEMMA NextInv == AccountsInv /\ [Next]_vars => AccountsInv'
  <1> SUFFICES ASSUME AccountsInv, [Next]_vars PROVE AccountsInv'
    OBVIOUS
  <1>1. TypeOK
    BY DEF AccountsInv
  <1>2. CASE UNCHANGED vars
    BY <1>2 DEF vars, AccountsInv, TypeOK, LinkUsedOnce, MembersInvited, MembersKnown, LinksKnown,
       CallsKnown, CreatorsJoined, Joined
  <1>3. CASE SignIn
    <2>1. CASE \/ \E c \in Caller, u \in User, p \in Password : ReadPassword(c, u, p)
               \/ \E c \in Caller, u \in User : ReadEligible(c, u)
               \/ \E c \in Caller, l \in Link, p \in Password : WorkspaceInvitePreview(c, l, p)
      BY <2>1, ReadingInv
    <2>2. CASE \E c \in Caller, l \in Link : RequestMagicLink(c, l)
      BY <2>2, NewLinkInv
    <2>3. CASE \/ \E c \in Caller, s \in Session : AuthenticatePassword(c, s)
               \/ \E s \in Session : RevokeSession(s)
      BY <2>3, SessionInv
    <2>4. CASE \/ \E c \in Caller, s \in Session : ConsumeInviteWithPassword(c, s)
               \/ \E l \in Link, s \in Session : ConsumeAuthToken(l, s)
      BY <1>1, <2>4, ConsumesLink, ConsumeInv
    <2>5. CASE \E l \in Link : ExpireLink(l)
      BY <2>5, OldLinkInv
    <2> QED
      BY <1>3, <2>1, <2>2, <2>3, <2>4, <2>5 DEF SignIn
  <1>4. CASE Manage
    <2>1. CASE \/ \E c \in Caller, s \in Session : AuthenticateSession(c, s)
               \/ \E c \in Caller, w \in Workspace : AccountMembership(c, w)
               \/ \E c \in Caller, u \in User, role \in Role, status \in Status :
                      ReadTarget(c, u, role, status)
               \/ \E c \in Caller : CountOwners(c)
      BY <2>1, ReadingInv
    <2>2. CASE \E c \in Caller, u \in User, w \in Workspace : CreateWorkspaceForUser(c, u, w)
      BY <2>2, OwnedInv
    <2>3. CASE \E c \in Caller, l \in Link, u \in User, role \in Role : CreateWorkspaceInvite(c, l, u, role)
      BY <2>3, NewLinkInv
    <2>4. CASE \E c \in Caller, l \in Link : RevokeInvite(c, l)
      BY <2>4, OldLinkInv
    <2>5. CASE \E c \in Caller : UpdateMembership(c)
      BY <2>5, UpdateInv
    <2>6. CASE \E c \in Caller, t \in Token : IssueProjectToken(c, t) \/ RevokeProjectToken(c, t)
      BY <2>6, TokenInv
    <2> QED
      BY <1>4, <2>1, <2>2, <2>3, <2>4, <2>5, <2>6 DEF Manage
  <1>5. CASE Operate
    <2>1. CASE \E c \in Caller, u \in User : ClaimBootstrapOwner(c, u)
      BY <2>1, ClaimInv
    <2>2. CASE \/ \E c \in Caller, p \in Password : SetUserPassword(c, p)
               \/ \E c \in Caller, u \in User, status \in Status : SetUserStatus(c, u, status)
      BY <2>2, UserInv
    <2>3. CASE \E c \in Caller : EndSessions(c)
      BY <2>3, SessionInv
    <2>4. CASE (\E c \in Caller : Abandon(c)) \/ \E c \in Caller, u \in User : AdminMembership(c, u)
      BY <2>4, ReadingInv
    <2>5. CASE \E w \in Workspace, status \in Status : SetWorkspaceStatus(w, status)
      BY <2>5, WorkspaceStatusInv
    <2> QED
      BY <1>5, <2>1, <2>2, <2>3, <2>4, <2>5 DEF Operate
  <1> QED
    BY <1>2, <1>3, <1>4, <1>5 DEF Next

(* The invariant of the accounts: rows have their types, links were used at  *)
(* most once, members were invited, and rows and requests refer to rows that *)
(* exist.                                                                    *)
THEOREM AccountsInvariance == Spec => []AccountsInv
  BY InitInv, NextInv, PTL DEF Spec

(* A one-time link gave at most one session, to the address it names, in     *)
(* whatever order any number of requests look at it and use it.              *)
THEOREM LinksAreOneTime == Spec => []LinkUsedOnce
  <1>1. AccountsInv => LinkUsedOnce
    BY DEF AccountsInv
  <1> QED
    BY <1>1, AccountsInvariance, PTL

(* Nobody is a member without an invitation to that workspace, a claim or a  *)
(* workspace of their own.                                                   *)
THEOREM EveryMemberInvited == Spec => []MembersInvited
  <1>1. AccountsInv => MembersInvited
    BY DEF AccountsInv
  <1> QED
    BY <1>1, AccountsInvariance, PTL

-----------------------------------------------------------------------------
(* What a step may not do *)

\* What changes the memberships, and so on for the other tables.
LEMMA MemberChange ==
    ASSUME TypeOK, Next
    PROVE  \/ member' = member
           \/ \E c \in Caller, u \in User : ClaimBootstrapOwner(c, u)
           \/ \E c \in Caller, u \in User, w \in Workspace : CreateWorkspaceForUser(c, u, w)
           \/ \E c \in Caller : UpdateMembership(c)
           \/ \E l \in Link, s \in Session, p \in Password \cup {None} :
                   link[l] # NoLink /\ Consume(l, s, p)
  <1>1. CASE SignIn
    <2>1. CASE \/ \E c \in Caller, s \in Session : ConsumeInviteWithPassword(c, s)
               \/ \E l \in Link, s \in Session : ConsumeAuthToken(l, s)
      BY <2>1, ConsumesLink
    <2>2. CASE UNCHANGED member
      BY <2>2
    <2> QED
      BY <1>1, <2>1, <2>2 DEF SignIn, ReadPassword, ReadEligible, WorkspaceInvitePreview,
         RequestMagicLink, AuthenticatePassword, RevokeSession, ExpireLink
  <1>2. CASE Manage
    BY <1>2 DEF Manage, AuthenticateSession, AccountMembership, CreateWorkspaceInvite,
       RevokeInvite, ReadTarget, CountOwners, IssueProjectToken, RevokeProjectToken
  <1>3. CASE Operate
    BY <1>3 DEF Operate, AdminMembership, SetUserPassword, SetUserStatus, EndSessions, Abandon, SetWorkspaceStatus
  <1> QED
    BY <1>1, <1>2, <1>3 DEF Next

LEMMA MemberSteps ==
    ASSUME AccountsInv, Next, NEW m \in Membership, Joined(m), member'[m] # member[m]
    PROVE  \E c \in Caller : At(c, "write") /\ call[c].target = m
  <1>1. TypeOK /\ MembersKnown
    BY DEF AccountsInv
  <1>2. \/ member' = member
        \/ \E c \in Caller, u \in User : ClaimBootstrapOwner(c, u)
        \/ \E c \in Caller, u \in User, w \in Workspace : CreateWorkspaceForUser(c, u, w)
        \/ \E c \in Caller : UpdateMembership(c)
        \/ \E l \in Link, s \in Session, p \in Password \cup {None} :
               link[l] # NoLink /\ Consume(l, s, p)
    BY <1>1, MemberChange
  <1>3. CASE member' = member
    BY <1>3
  <1>4. ASSUME NEW c \in Caller, NEW u \in User, ClaimBootstrapOwner(c, u)
        PROVE  FALSE
    <2>1. m = <<Home, u>>
      BY <1>1, <1>4 DEF ClaimBootstrapOwner, TypeOK
    <2> QED
      BY <1>1, <1>4, <2>1 DEF ClaimBootstrapOwner, MembersKnown
  <1>5. ASSUME NEW c \in Caller, NEW u \in User, NEW w \in Workspace, CreateWorkspaceForUser(c, u, w)
        PROVE  FALSE
    <2>1. m = <<w, u>>
      BY <1>1, <1>5 DEF CreateWorkspaceForUser, TypeOK
    <2> QED
      BY <1>1, <1>5, <2>1 DEF CreateWorkspaceForUser, MembersKnown
  <1>6. ASSUME NEW c \in Caller, UpdateMembership(c)
        PROVE  At(c, "write") /\ call[c].target = m
    BY <1>1, <1>6 DEF UpdateMembership, TypeOK
  <1>7. ASSUME NEW l \in Link, NEW s \in Session, NEW p \in Password \cup {None}, Consume(l, s, p)
        PROVE  FALSE
    BY <1>1, <1>7 DEF Consume, Admitted, Joined, TypeOK
  <1> QED
    BY <1>2, <1>3, <1>4, <1>5, <1>6, <1>7

LEMMA UserSteps ==
    ASSUME AccountsInv, Next, NEW u \in User, user[u].password # None,
           user'[u].password # user[u].password
    PROVE  \E c \in Caller : At(c, "claimed") /\ call[c].user = u
  <1>1. TypeOK
    BY DEF AccountsInv
  <1>2. \/ user' = user
        \/ \E c \in Caller, v \in User : ClaimBootstrapOwner(c, v)
        \/ \E c \in Caller, p \in Password : SetUserPassword(c, p)
        \/ \E c \in Caller, v \in User, status \in Status : SetUserStatus(c, v, status)
        \/ \E l \in Link, s \in Session, p \in Password \cup {None} :
               link[l] # NoLink /\ Consume(l, s, p)
    <2>1. CASE SignIn
      <3>1. CASE \/ \E c \in Caller, s \in Session : ConsumeInviteWithPassword(c, s)
                 \/ \E l \in Link, s \in Session : ConsumeAuthToken(l, s)
        BY <1>1, <3>1, ConsumesLink
      <3>2. CASE UNCHANGED user
        BY <3>2
      <3> QED
        BY <2>1, <3>1, <3>2 DEF SignIn, ReadPassword, ReadEligible, WorkspaceInvitePreview,
           RequestMagicLink, AuthenticatePassword, RevokeSession, ExpireLink
    <2>2. CASE Manage
      BY <2>2 DEF Manage, AuthenticateSession, AccountMembership, CreateWorkspaceForUser,
         CreateWorkspaceInvite, RevokeInvite, ReadTarget, CountOwners, UpdateMembership,
         IssueProjectToken, RevokeProjectToken
    <2>3. CASE Operate
      BY <2>3 DEF Operate, AdminMembership, EndSessions, Abandon, SetWorkspaceStatus
    <2> QED
      BY <2>1, <2>2, <2>3 DEF Next
  <1>3. CASE user' = user
    BY <1>3
  <1>4. ASSUME NEW c \in Caller, NEW v \in User, ClaimBootstrapOwner(c, v)
        PROVE  FALSE
    BY <1>1, <1>4 DEF ClaimBootstrapOwner, TypeOK, UserRow
  <1>5. ASSUME NEW c \in Caller, NEW p \in Password, SetUserPassword(c, p)
        PROVE  At(c, "claimed") /\ call[c].user = u
    BY <1>1, <1>5 DEF SetUserPassword, TypeOK, UserRow
  <1>6. ASSUME NEW c \in Caller, NEW v \in User, NEW status \in Status, SetUserStatus(c, v, status)
        PROVE  FALSE
    BY <1>1, <1>6 DEF SetUserStatus, TypeOK, UserRow
  <1>7. ASSUME NEW l \in Link, NEW s \in Session, NEW p \in Password \cup {None}, Consume(l, s, p)
        PROVE  FALSE
    BY <1>1, <1>7 DEF Consume, SignedIn, TypeOK, UserRow
  <1> QED
    BY <1>2, <1>3, <1>4, <1>5, <1>6, <1>7

LEMMA LinkChange ==
    ASSUME TypeOK, Next
    PROVE  \/ link' = link
           \/ \E c \in Caller, l \in Link : RequestMagicLink(c, l)
           \/ \E c \in Caller, l \in Link, u \in User, role \in Role : CreateWorkspaceInvite(c, l, u, role)
           \/ \E c \in Caller, l \in Link : RevokeInvite(c, l)
           \/ \E l \in Link : ExpireLink(l)
           \/ \E l \in Link, s \in Session, p \in Password \cup {None} :
                   link[l] # NoLink /\ Consume(l, s, p)
  <1>1. CASE SignIn
    <2>1. CASE \/ \E c \in Caller, s \in Session : ConsumeInviteWithPassword(c, s)
               \/ \E l \in Link, s \in Session : ConsumeAuthToken(l, s)
      BY <2>1, ConsumesLink
    <2> QED
      BY <1>1, <2>1 DEF SignIn, ReadPassword, ReadEligible, WorkspaceInvitePreview,
         AuthenticatePassword, RevokeSession
  <1>2. CASE Manage
    BY <1>2 DEF Manage, AuthenticateSession, AccountMembership, CreateWorkspaceForUser,
       ReadTarget, CountOwners, UpdateMembership, IssueProjectToken, RevokeProjectToken
  <1>3. CASE Operate
    BY <1>3 DEF Operate, AdminMembership, ClaimBootstrapOwner, SetUserPassword, SetUserStatus, EndSessions,
       Abandon, SetWorkspaceStatus
  <1> QED
    BY <1>1, <1>2, <1>3 DEF Next

LEMMA LinkSteps ==
    ASSUME AccountsInv, Next, NEW k \in Link, link[k].state \in {"used", "revoked", "expired"}
    PROVE  \/ link'[k] = link[k]
           \/ link[k].state = "expired" /\ link'[k].state = "revoked"
  <1>1. TypeOK /\ link[k] # NoLink
    BY DEF AccountsInv, NoLink
  <1>2. link[k] \in LinkRow
    BY <1>1 DEF TypeOK
  <1>3. \/ link' = link
        \/ \E c \in Caller, l \in Link : RequestMagicLink(c, l)
        \/ \E c \in Caller, l \in Link, u \in User, role \in Role : CreateWorkspaceInvite(c, l, u, role)
        \/ \E c \in Caller, l \in Link : RevokeInvite(c, l)
        \/ \E l \in Link : ExpireLink(l)
        \/ \E l \in Link, s \in Session, p \in Password \cup {None} :
               link[l] # NoLink /\ Consume(l, s, p)
    BY <1>1, LinkChange
  <1>4. CASE link' = link
    BY <1>4
  <1>5. ASSUME NEW c \in Caller, NEW l \in Link,
               \/ RequestMagicLink(c, l)
               \/ \E u \in User, role \in Role : CreateWorkspaceInvite(c, l, u, role)
        PROVE  link'[k] = link[k]
    BY <1>1, <1>5 DEF RequestMagicLink, CreateWorkspaceInvite, TypeOK
  <1>6. ASSUME NEW c \in Caller, NEW l \in Link, RevokeInvite(c, l)
        PROVE  link'[k] = link[k] \/ (link[k].state = "expired" /\ link'[k].state = "revoked")
    BY <1>1, <1>2, <1>6 DEF RevokeInvite, TypeOK, LinkRow
  <1>7. ASSUME NEW l \in Link, ExpireLink(l)
        PROVE  link'[k] = link[k]
    BY <1>1, <1>7 DEF ExpireLink, TypeOK
  <1>8. ASSUME NEW l \in Link, NEW s \in Session, NEW p \in Password \cup {None},
               link[l] # NoLink, Consume(l, s, p)
        PROVE  link'[k] = link[k]
    BY <1>8, ConsumedRows
  <1> QED
    BY <1>3, <1>4, <1>5, <1>6, <1>7, <1>8

LEMMA SessionSteps ==
    ASSUME AccountsInv, Next, NEW r \in Session, session[r].state = "ended"
    PROVE  session'[r] = session[r]
  <1>1. TypeOK /\ session[r] # NoSession
    BY DEF AccountsInv, NoSession
  <1>2. \/ session' = session
        \/ \E c \in Caller, s \in Session : AuthenticatePassword(c, s)
        \/ \E s \in Session : RevokeSession(s)
        \/ \E c \in Caller : EndSessions(c)
        \/ \E l \in Link, s \in Session, p \in Password \cup {None} :
               link[l] # NoLink /\ Consume(l, s, p)
    <2>1. CASE SignIn
      <3>1. CASE \/ \E c \in Caller, s \in Session : ConsumeInviteWithPassword(c, s)
                 \/ \E l \in Link, s \in Session : ConsumeAuthToken(l, s)
        BY <1>1, <3>1, ConsumesLink
      <3> QED
        BY <2>1, <3>1 DEF SignIn, ReadPassword, ReadEligible, WorkspaceInvitePreview,
           RequestMagicLink, ExpireLink
    <2>2. CASE Manage
      BY <2>2 DEF Manage, AuthenticateSession, AccountMembership, CreateWorkspaceForUser,
         CreateWorkspaceInvite, RevokeInvite, ReadTarget, CountOwners, UpdateMembership,
         IssueProjectToken, RevokeProjectToken
    <2>3. CASE Operate
      BY <2>3 DEF Operate, AdminMembership, ClaimBootstrapOwner, SetUserPassword, SetUserStatus,
         Abandon, SetWorkspaceStatus
    <2> QED
      BY <2>1, <2>2, <2>3 DEF Next
  <1>3. CASE session' = session
    BY <1>3
  <1>4. ASSUME NEW c \in Caller, NEW s \in Session, AuthenticatePassword(c, s)
        PROVE  session'[r] = session[r]
    BY <1>1, <1>4 DEF AuthenticatePassword, TypeOK
  <1>5. ASSUME NEW s \in Session, RevokeSession(s)
        PROVE  session'[r] = session[r]
    BY <1>1, <1>5 DEF RevokeSession, TypeOK
  <1>6. ASSUME NEW c \in Caller, EndSessions(c)
        PROVE  session'[r] = session[r]
    BY <1>6 DEF EndSessions
  <1>7. ASSUME NEW l \in Link, NEW s \in Session, NEW p \in Password \cup {None}, Consume(l, s, p)
        PROVE  session'[r] = session[r]
    BY <1>1, <1>7 DEF Consume, TypeOK
  <1> QED
    BY <1>2, <1>3, <1>4, <1>5, <1>6, <1>7

LEMMA TokenChange ==
    ASSUME TypeOK, Next
    PROVE  \/ token' = token
           \/ \E c \in Caller, i \in Token : IssueProjectToken(c, i) \/ RevokeProjectToken(c, i)
  <1>1. CASE SignIn
    BY <1>1 DEF SignIn, ReadPassword, ReadEligible, WorkspaceInvitePreview, RequestMagicLink,
       AuthenticatePassword, RevokeSession, ExpireLink, ConsumeInviteWithPassword,
       ConsumeAuthToken, Consume
  <1>2. CASE Manage
    BY <1>2 DEF Manage, AuthenticateSession, AccountMembership, CreateWorkspaceForUser,
       CreateWorkspaceInvite, RevokeInvite, ReadTarget, CountOwners, UpdateMembership
  <1>3. CASE Operate
    BY <1>3 DEF Operate, AdminMembership, ClaimBootstrapOwner, SetUserPassword, SetUserStatus, EndSessions,
       Abandon, SetWorkspaceStatus
  <1> QED
    BY <1>1, <1>2, <1>3 DEF Next

LEMMA TokenSteps ==
    ASSUME AccountsInv, Next, NEW t \in Token, token[t].state = "revoked"
    PROVE  token'[t] = token[t]
  <1>1. TypeOK /\ token[t] # NoToken
    BY DEF AccountsInv, NoToken
  <1>2. \/ token' = token
        \/ \E c \in Caller, i \in Token : IssueProjectToken(c, i) \/ RevokeProjectToken(c, i)
    BY <1>1, TokenChange
  <1> QED
    BY <1>1, <1>2 DEF IssueProjectToken, RevokeProjectToken, TypeOK

(* Used and revoked links, ended sessions and revoked tokens never change    *)
(* again, and an expired link is at most revoked.                            *)
THEOREM NothingReturns == Spec => SettledStaysSettled
  <1>1. AccountsInv /\ [Next]_vars =>
            [/\ \A l \in Link :
                    /\ link[l].state \in {"used", "revoked"} => link'[l] = link[l]
                    /\ link[l].state = "expired" => link'[l].state \in {"expired", "revoked"}
             /\ \A s \in Session : session[s].state = "ended" => session'[s] = session[s]
             /\ \A t \in Token : token[t].state = "revoked" => token'[t] = token[t]]_vars
    <2> SUFFICES ASSUME AccountsInv, Next
                 PROVE  /\ \A l \in Link :
                               /\ link[l].state \in {"used", "revoked"} => link'[l] = link[l]
                               /\ link[l].state = "expired" => link'[l].state \in {"expired", "revoked"}
                        /\ \A s \in Session : session[s].state = "ended" => session'[s] = session[s]
                        /\ \A t \in Token : token[t].state = "revoked" => token'[t] = token[t]
      OBVIOUS
    <2> QED
      BY LinkSteps, SessionSteps, TokenSteps
  <1> QED
    BY <1>1, AccountsInvariance, PTL DEF Spec, SettledStaysSettled

(* A membership that exists changes only by the request of an owner that has *)
(* read it: no invitation replaces it.                                       *)
THEOREM OwnersDecide == Spec => OnlyOwnersChangeMembers
  <1>1. AccountsInv /\ [Next]_vars =>
            [\A m \in Membership : Joined(m) /\ member'[m] # member[m] =>
                 \E c \in Caller : At(c, "write") /\ call[c].target = m]_vars
    BY MemberSteps
  <1> QED
    BY <1>1, AccountsInvariance, PTL DEF Spec, OnlyOwnersChangeMembers

(* A password that is set changes only through the claim of the              *)
(* installation.                                                             *)
THEOREM PasswordsKept == Spec => PasswordKept
  <1>1. AccountsInv /\ [Next]_vars =>
            [\A u \in User : user[u].password # None /\ user'[u].password # user[u].password =>
                 \E c \in Caller : At(c, "claimed") /\ call[c].user = u]_vars
    BY UserSteps
  <1> QED
    BY <1>1, AccountsInvariance, PTL DEF Spec, PasswordKept
=============================================================================
