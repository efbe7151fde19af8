------------------------------- MODULE Setup -------------------------------
(***************************************************************************)
(* The setup device flow: `clank setup` on a machine, the approval by a    *)
(* signed-in person and the exchange of the approved request for a project *)
(* token (store/setup.go, httpapi/setup.go, cmd/clank/main.go,             *)
(* localconfig/localconfig.go).                                            *)
(*                                                                         *)
(* An approval is a handler that does one transaction after the other;     *)
(* handlers run at once, and the next step of one is refused, or never     *)
(* comes when the client goes away or the process stops.  An exchange is a *)
(* read and a conditional update, and its answer may be lost.              *)
(*                                                                         *)
(* All setups run on one machine for one service, so that they share the   *)
(* file of credentials.  Codes, digests and the verifier are the request   *)
(* they belong to: who cannot name a request takes no step here.  Left out *)
(* are the end of memberships and of tokens (Accounts), the linked         *)
(* repository, whose failure the approval ignores, and the signing         *)
(* authority of a new workspace.                                           *)
(***************************************************************************)
EXTENDS Integers, FiniteSets

CONSTANTS
    Request,      \* rows of setup_requests, one for each run of `clank setup`
    Person,       \* users who may approve
    Workspace,    \* workspaces that are there before
    Slug,         \* project slugs
    Handler,      \* approvals that may be under way at once
    Call,         \* exchanges that may be under way at once
    Token,        \* project tokens, drawn at random
    Members,      \* who is in which of the workspaces at the start
    None

\* A workspace made during an approval is named "<project slug>-workspace".
Place == Workspace \cup Slug

ASSUME NamesDiffer == Workspace \cap Slug = {}
ASSUME NoneIsNothing == None \notin Request \cup Person \cup Place \cup Token
ASSUME MembersArePairs == Members \subseteq Person \X Workspace

VARIABLES
    request,      \* setup_requests
    member,       \* active memberships
    project,      \* project[w, s]: the request that made it, and for whom
    token,        \* token[t]: the key that issued t, whose receipt keeps t
    handler,      \* handler[h]: an approval between two steps
    call,         \* call[c]: an exchange between two steps
    device,       \* device[r]: the process that waits for the request r
    file          \* credentials.json of the machine, by project slug

vars == <<request, member, project, token, handler, call, device, file>>

-----------------------------------------------------------------------------
(* Rows *)

\* The key "setup-project-<id>" or "setup-token-<id>" of the principal a
\* person has in a workspace.
Key == [request : Request, person : Person, place : Place]
KeyOf(x) == [request |-> x.request, person |-> x.person, place |-> x.place]

ASSUME NoneIsNoKey == None \notin Key

Grant == [person : Person, place : Place, slug : Slug]
NoGrant == [person |-> None]

\* sealed: the token in credential_ciphertext.
Row == [slug : Slug, grant : Grant \cup {NoGrant}, sealed : Token \cup {None},
        consumed : BOOLEAN, expired : BOOLEAN]
NoRow == [slug |-> None]

Idle == [step |-> "idle"]
Approval ==
    {Idle}
    \cup [step : {"workspace", "find", "project", "token"},
          request : Request, person : Person, place : Place]
    \cup [step : {"approve"}, request : Request, person : Person, place : Place, token : Token]

Exchange == {Idle} \cup [step : {"consume", "answer"}, request : Request, token : Token]

File == [Slug -> Token \cup {None}]
NoFile == [s \in Slug |-> None]

Device == [state : {"off", "waiting", "got", "storing", "ready", "over"},
           token : Token \cup {None}, copy : File]
Off == [state |-> "off", token |-> None, copy |-> NoFile]

TypeOK ==
    /\ request \in [Request -> Row \cup {NoRow}]
    /\ member \subseteq Person \X Place
    /\ project \in [Place \X Slug -> Key \cup {None}]
    /\ token \in [Token -> Key \cup {None}]
    /\ handler \in [Handler -> Approval]
    /\ call \in [Call -> Exchange]
    /\ device \in [Request -> Device]
    /\ file \in File

Init ==
    /\ request = [r \in Request |-> NoRow]
    /\ member = Members
    /\ project = [ws \in Place \X Slug |-> None]
    /\ token = [t \in Token |-> None]
    /\ handler = [h \in Handler |-> Idle]
    /\ call = [c \in Call |-> Idle]
    /\ device = [r \in Request |-> Off]
    /\ file = NoFile

-----------------------------------------------------------------------------
(* Requests *)

\* Found by SetupRequestByUserCode.
Known(r) == request[r] # NoRow
Live(r) == Known(r) /\ ~request[r].consumed /\ ~request[r].expired
Approved(r) == Known(r) /\ request[r].grant # NoGrant

\* setupStart, and the process that goes on to wait.
StartSetup(r, s) ==
    /\ ~Known(r)
    /\ request' = [request EXCEPT ![r] =
            [slug |-> s, grant |-> NoGrant, sealed |-> None, consumed |-> FALSE, expired |-> FALSE]]
    /\ device' = [device EXCEPT ![r].state = "waiting"]
    /\ UNCHANGED <<member, project, token, handler, call, file>>

\* Ten minutes are over; it makes no difference to a consumed request.
Expire(r) ==
    /\ Live(r)
    /\ request' = [request EXCEPT ![r].expired = TRUE]
    /\ UNCHANGED <<member, project, token, handler, call, device, file>>

-----------------------------------------------------------------------------
(* Approval *)

Goes(h, next) == handler' = [handler EXCEPT ![h] = next]

PlacesOf(p) == {w \in Place : <<p, w>> \in member}

\* The reads an approval starts with: the request, and with
\* ListWorkspacesForUser and Membership the workspace.  It is the one the
\* person names or the token belongs to, if the person is in it, or else the
\* only one there is; a person without any gets one.
LookUp(h, r, p, wanted) ==
    LET At(step, w) == [step |-> step, request |-> r, person |-> p, place |-> w]
        mine == PlacesOf(p)
    IN  /\ handler[h] = Idle
        /\ Live(r)
        /\ ~Approved(r)
        /\ \/ \E w \in mine :
                 /\ wanted = w \/ (wanted = None /\ mine = {w})
                 /\ Goes(h, At("find", w))
           \/ /\ wanted = None
              /\ mine = {}
              /\ Goes(h, At("workspace", request[r].slug))
        /\ UNCHANGED <<request, member, project, token, call, device, file>>

\* CreateWorkspaceForUser fails on a slug that is taken.
CreateWorkspace(h) ==
    LET x == handler[h]
    IN  /\ x.step = "workspace"
        /\ \A p \in Person : <<p, x.place>> \notin member
        /\ member' = member \cup {<<x.person, x.place>>}
        /\ Goes(h, [x EXCEPT !.step = "find"])
        /\ UNCHANGED <<request, project, token, call, device, file>>

ProjectOf(x) == <<x.place, request[x.request].slug>>

FindProject(h) ==
    LET x == handler[h]
    IN  /\ x.step = "find"
        /\ Goes(h, [x EXCEPT !.step = IF project[ProjectOf(x)] = None THEN "project" ELSE "token"])
        /\ UNCHANGED <<request, member, project, token, call, device, file>>

\* A project that has come up in between is only an answer to the same key.
CreateProject(h) ==
    LET x == handler[h]
    IN  /\ x.step = "project"
        /\ project[ProjectOf(x)] \in {None, KeyOf(x)}
        /\ project' = [project EXCEPT ![ProjectOf(x)] = KeyOf(x)]
        /\ Goes(h, [x EXCEPT !.step = "token"])
        /\ UNCHANGED <<request, member, token, call, device, file>>

\* Seeded fault: every approval issues a token of its own.
IssuedAnew(key, t) == token[t] = None

\* A repeated key is answered with the token it was issued: its receipt keeps
\* the answer of the first request as it was.
Issued(key, t) ==
    \/ token[t] = key
    \/ token[t] = None /\ \A u \in Token : token[u] # key

IssueToken(h) ==
    LET x == handler[h]
    IN  /\ x.step = "token"
        /\ \E t \in Token :
              /\ Issued(KeyOf(x), t)
              /\ token' = [token EXCEPT ![t] = KeyOf(x)]
              /\ Goes(h, [step |-> "approve", request |-> x.request, person |-> x.person,
                          place |-> x.place, token |-> t])
        /\ UNCHANGED <<request, member, project, call, device, file>>

\* Seeded fault: the update lacks `approved_at IS NULL`.
ApprovedAgain(r) == Live(r)

Approvable(r) == Live(r) /\ ~Approved(r)

\* One update stores membership, project and credential.
Seal(x) ==
    [request EXCEPT
        ![x.request].grant = [person |-> x.person, place |-> x.place,
                              slug |-> request[x.request].slug],
        ![x.request].sealed = x.token]

ApproveSetupRequest(h) ==
    LET x == handler[h]
    IN  /\ x.step = "approve"
        /\ Approvable(x.request)
        /\ request' = Seal(x)
        /\ Goes(h, Idle)
        /\ UNCHANGED <<member, project, token, call, device, file>>

\* A step is refused, the client goes away or the process stops.  What was
\* done stays.
Leave(h) ==
    /\ handler[h] # Idle
    /\ Goes(h, Idle)
    /\ UNCHANGED <<request, member, project, token, call, device, file>>

-----------------------------------------------------------------------------
(* Exchange *)

Turns(c, next) == call' = [call EXCEPT ![c] = next]

\* A poll that finds nothing is answered "pending" and is no step.
ReadCredential(c, r) ==
    /\ call[c] = Idle
    /\ device[r].state = "waiting"
    /\ Live(r)
    /\ Approved(r)
    /\ Turns(c, [step |-> "consume", request |-> r, token |-> request[r].sealed])
    /\ UNCHANGED <<request, member, project, token, handler, device, file>>

\* Seeded fault: the update lacks `consumed_at IS NULL`.
TakenTwice(r) == Known(r)

NotTaken(r) == ~request[r].consumed

\* The credential is erased with the update that takes it.
Take(r) == [request EXCEPT ![r].consumed = TRUE, ![r].sealed = None]

Consume(c) ==
    LET r == call[c].request
    IN  /\ call[c].step = "consume"
        /\ NotTaken(r)
        /\ request' = Take(r)
        /\ Turns(c, [call[c] EXCEPT !.step = "answer"])
        /\ UNCHANGED <<member, project, token, handler, device, file>>

\* The exchange is refused or abandoned, or its answer does not arrive.  The
\* process gives up or, where the connection broke, the transport asks again.
LoseExchange(c) ==
    /\ call[c] # Idle
    /\ Turns(c, Idle)
    /\ UNCHANGED <<request, member, project, token, handler, device, file>>

Receive(c) ==
    LET r == call[c].request
    IN  /\ call[c].step = "answer"
        /\ device[r].state = "waiting"
        /\ device' = [device EXCEPT ![r].state = "got", ![r].token = call[c].token]
        /\ Turns(c, Idle)
        /\ UNCHANGED <<request, member, project, token, handler, file>>

-----------------------------------------------------------------------------
(* The machine *)

\* StoreCredential reads the file; .clankspace.json is written before.
ReadFile(r) ==
    /\ device[r].state = "got"
    /\ device' = [device EXCEPT ![r].state = "storing", ![r].copy = file]
    /\ UNCHANGED <<request, member, project, token, handler, call, file>>

Stored(r) == [device[r].copy EXCEPT ![request[r].slug] = device[r].token]

\* It renames the changed copy over the file: what another setup stored in
\* between is gone.  The skill and the instruction in AGENTS.md follow.
WriteFile(r) ==
    /\ device[r].state = "storing"
    /\ file' = Stored(r)
    /\ device' = [device EXCEPT ![r].state = "ready", ![r].copy = NoFile]
    /\ UNCHANGED <<request, member, project, token, handler, call>>

\* The deadline, an error of the service or of the machine, or an interrupt
\* ends the process.
GiveUp(r) ==
    /\ device[r].state \in {"waiting", "got", "storing"}
    /\ device' = [device EXCEPT ![r].state = "over", ![r].copy = NoFile]
    /\ UNCHANGED <<request, member, project, token, handler, call, file>>

-----------------------------------------------------------------------------
ApprovalStep ==
    \E h \in Handler :
        \/ \E r \in Request, p \in Person, w \in Place \cup {None} : LookUp(h, r, p, w)
        \/ CreateWorkspace(h)
        \/ FindProject(h)
        \/ CreateProject(h)
        \/ IssueToken(h)
        \/ ApproveSetupRequest(h)
        \/ Leave(h)

ExchangeStep ==
    \E c \in Call :
        \/ \E r \in Request : ReadCredential(c, r)
        \/ Consume(c)
        \/ LoseExchange(c)
        \/ Receive(c)

MachineStep ==
    \E r \in Request :
        \/ \E s \in Slug : StartSetup(r, s)
        \/ Expire(r)
        \/ ReadFile(r)
        \/ WriteFile(r)
        \/ GiveUp(r)

Next == ApprovalStep \/ ExchangeStep \/ MachineStep

Spec == Init /\ [][Next]_vars

-----------------------------------------------------------------------------
(* Properties *)

\* The key of the token an approved request was granted.
GrantKey(r) ==
    [request |-> r, person |-> request[r].grant.person, place |-> request[r].grant.place]

\* The credential of r: the one token issued to the approver for it, held
\* sealed exactly until it is handed out.
Credential(r, t) ==
    /\ \A u \in Token : token[u] = GrantKey(r) <=> u = t
    /\ request[r].sealed = IF request[r].consumed THEN None ELSE t

\* However many people approve a request at once, stop in the middle and start
\* again: what the row says of the approval belongs together.  The approver is
\* in the workspace, the workspace has the project the request is for, and the
\* credential is the one token the approver was issued for it
\* (ApproveSetupRequest, setup.go:107).
GrantConsistent ==
    \A r \in Request : Approved(r) =>
        LET grant == request[r].grant
        IN  /\ <<grant.person, grant.place>> \in member
            /\ grant.slug = request[r].slug
            /\ project[<<grant.place, grant.slug>>] # None
            /\ \E t \in Token : Credential(r, t)

\* What the credentials file has under a slug is the token of the approval that
\* the row of a setup of that slug records: its person, in its workspace, was
\* issued it for that request, and the process of that setup was handed it.
\* This holds whatever approvals of one request race, whatever is asked again or
\* given up on the way, and whatever setups overwrite one another's entries; no
\* entry gets under the slug of another setup (StoreCredential,
\* localconfig.go:136).
FileHoldsHanded ==
    \A s \in Slug : file[s] # None =>
        LET key == token[file[s]]
        IN  /\ key # None
            /\ device[key.request].token = file[s]
            /\ request[key.request].grant =
                  [person |-> key.person, place |-> key.place, slug |-> s]
            /\ request[key.request].slug = s

\* A token is issued for one key, and a key has one token.
OneTokenPerKey == \A t, u \in Token : token[t] = token[u] /\ token[t] # None => t = u

\* What an approval has seen stays true until it uses it.
Knows(x) ==
    /\ Known(x.request)
    /\ x.step # "workspace" => <<x.person, x.place>> \in member
    /\ x.step \in {"token", "approve"} => project[ProjectOf(x)] # None
    /\ x.step = "approve" => token[x.token] = KeyOf(x)

ApprovalsKnow == \A h \in Handler : handler[h] # Idle => Knows(handler[h])

\* A row holds nothing before it is approved.
NothingBeforeApproval ==
    \A r \in Request :
        Known(r) /\ ~Approved(r) => request[r].sealed = None /\ ~request[r].consumed

\* t is the credential of a request that was approved.
Granted(r, t) == Approved(r) /\ token[t] = GrantKey(r)

\* An exchange is about the credential of its request; with an answer under
\* way it is consumed, there is no other answer, and the device has not got it.
ExchangesKnow ==
    \A c \in Call : call[c] # Idle =>
        /\ Granted(call[c].request, call[c].token)
        /\ call[c].step = "answer" =>
              request[call[c].request].consumed /\ device[call[c].request].token = None

Answers(c, r) == call[c].step = "answer" /\ call[c].request = r
OneAnswer == \A r \in Request : \A c, d \in Call : Answers(c, r) /\ Answers(d, r) => c = d

\* A device has the credential of its request, or none.
DevicesKnow ==
    \A r \in Request :
        /\ device[r].state \in {"off", "waiting"} => device[r].token = None
        /\ device[r].state \in {"got", "storing", "ready"} => device[r].token # None
        /\ device[r].state = "off" <=> ~Known(r)
        /\ device[r].token # None => Granted(r, device[r].token) /\ request[r].consumed

\* A file whose entries setups of their slugs were handed.
Handed(f) ==
    \A s \in Slug : f[s] # None =>
        \E r \in Request : Known(r) /\ request[r].slug = s /\ device[r].token = f[s]

\* The inductive invariant of the proofs.
SetupInv ==
    /\ TypeOK
    /\ OneTokenPerKey
    /\ ApprovalsKnow
    /\ NothingBeforeApproval
    /\ GrantConsistent
    /\ ExchangesKnow
    /\ OneAnswer
    /\ DevicesKnow
    /\ Handed(file)
    /\ \A r \in Request : Handed(device[r].copy)

\* Where the credential of a request is: sets of at most one token.
GrantedTo ==
    [r \in Request |-> IF Approved(r) THEN {t \in Token : token[t] = GrantKey(r)} ELSE {}]
Sealed == [r \in Request |-> IF Known(r) THEN {t \in Token : t = request[r].sealed} ELSE {}]
InTransit == [r \in Request |-> {t \in Token : \E c \in Call : Answers(c, r) /\ t = call[c].token}]
AtDevice == [r \in Request |-> {t \in Token : t = device[r].token}]

\* The device flow implements: one credential for a request, handed out once.
Handout == INSTANCE CredentialHandout WITH
    granted <- GrantedTo, vault <- Sealed, transit <- InTransit, device <- AtDevice

ImplementsHandout == Handout!Spec
=============================================================================
