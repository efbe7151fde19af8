----------------------------- MODULE SetupProofs -----------------------------
(***************************************************************************)
(* Proofs about module Setup, for any requests, people, workspaces, slugs, *)
(* handlers, exchanges and tokens.                                         *)
(***************************************************************************)
EXTENDS Setup, TLAPS

LEMMA Nones ==
    /\ None \notin Request /\ None \notin Person /\ None \notin Slug /\ None \notin Token
    /\ Slug \subseteq Place
  BY NoneIsNothing DEF Place

LEMMA RowShape ==
    ASSUME TypeOK, NEW r \in Request
    PROVE  /\ Known(r) => request[r] \in Row
           /\ Approved(r) => request[r].grant \in Grant
           /\ Known(r) /\ ~Approved(r) => request[r].grant = NoGrant
           /\ Live(r) => Known(r)
           /\ Approved(r) => Known(r)
  <1>1. request[r] \in Row \cup {NoRow}
    BY DEF TypeOK
  <1> QED
    BY <1>1 DEF Known, Approved, Live, Row

LEMMA KeysAreKeys ==
    /\ \A r \in Request : TypeOK /\ Approved(r) => GrantKey(r) \in Key
    /\ \A r \in Request : GrantKey(r).request = r
    /\ None \notin Key
  <1>1. None \notin Key
    BY NoneIsNoKey DEF Key
  <1> QED
    BY <1>1, RowShape DEF GrantKey, Key, Grant

\* A handler or exchange at work has the fields of its step.
LEMMA ApprovalShape ==
    ASSUME TypeOK, NEW h \in Handler, handler[h] # Idle \/ handler[h].step # "idle"
    PROVE  /\ handler[h] # Idle
           /\ handler[h].step \in {"workspace", "find", "project", "token", "approve"}
           /\ handler[h].request \in Request
           /\ handler[h].person \in Person
           /\ handler[h].place \in Place
           /\ KeyOf(handler[h]) \in Key
           /\ handler[h].step = "approve" => handler[h].token \in Token
           /\ handler[h].step # "approve" =>
                 handler[h] \in [step : {"workspace", "find", "project", "token"},
                                request : Request, person : Person, place : Place]
  <1>1. handler[h] \in Approval
    BY DEF TypeOK
  <1> QED
    BY <1>1 DEF Approval, Idle, KeyOf, Key

LEMMA NextStep ==
    ASSUME NEW x \in [step : {"workspace", "find", "project", "token"},
                      request : Request, person : Person, place : Place],
           NEW step \in {"find", "project", "token"}
    PROVE  /\ [x EXCEPT !.step = step] \in Approval
           /\ [x EXCEPT !.step = step] # Idle
           /\ [x EXCEPT !.step = step].step = step
           /\ [x EXCEPT !.step = step].request = x.request
           /\ [x EXCEPT !.step = step].person = x.person
           /\ [x EXCEPT !.step = step].place = x.place
  <1>1. /\ [x EXCEPT !.step = step].step = step
        /\ [x EXCEPT !.step = step].request = x.request
        /\ [x EXCEPT !.step = step].person = x.person
        /\ [x EXCEPT !.step = step].place = x.place
        /\ [x EXCEPT !.step = step] \in [step : {"workspace", "find", "project", "token"},
                                         request : Request, person : Person, place : Place]
    OBVIOUS
  <1> QED
    BY <1>1 DEF Approval, Idle

LEMMA ExchangeShape ==
    ASSUME TypeOK, NEW c \in Call, call[c] # Idle \/ call[c].step # "idle"
    PROVE  /\ call[c] # Idle
           /\ call[c].step \in {"consume", "answer"}
           /\ call[c].request \in Request
           /\ call[c].token \in Token
           /\ call[c] = [step |-> call[c].step, request |-> call[c].request,
                         token |-> call[c].token]
  <1>1. call[c] \in Exchange
    BY DEF TypeOK
  <1> QED
    BY <1>1 DEF Exchange, Idle

-----------------------------------------------------------------------------
(* What the parts of the invariant need of a step *)

\* Grants, once given, stay, and so do tokens and their keys.
GrantsStay ==
    /\ \A r \in Request : Known(r) => Known(r)' /\ request'[r].slug = request[r].slug
    /\ \A r \in Request : Approved(r) => Approved(r)' /\ request'[r].grant = request[r].grant
    /\ \A t \in Token : token[t] # None => token'[t] = token[t]
    /\ member \subseteq member'
    /\ \A ws \in Place \X Slug : project[ws] # None => project'[ws] # None

LEMMA GrantedStays ==
    ASSUME TypeOK, GrantsStay, NEW r \in Request, NEW t \in Token, Granted(r, t)
    PROVE  Granted(r, t)' /\ GrantKey(r)' = GrantKey(r)
  <1>1. GrantKey(r)' = GrantKey(r)
    BY DEF GrantsStay, Granted, GrantKey
  <1>2. token[t] # None
    BY KeysAreKeys DEF Granted
  <1> QED
    BY <1>1, <1>2 DEF GrantsStay, Granted

\* Nobody is issued a second token for a key that has one.
TokensStayUnique ==
    \A t \in Token : token[t] = None /\ token'[t] # None =>
        \A u \in Token : token[u] # token'[t] /\ (u # t => token'[u] # token'[t])

LEMMA UniqueStep ==
    ASSUME OneTokenPerKey, GrantsStay, TokensStayUnique
    PROVE  OneTokenPerKey'
  BY DEF OneTokenPerKey, GrantsStay, TokensStayUnique

\* A handler that did not move knows what it knew.
LEMMA ApprovalsStep ==
    ASSUME TypeOK, ApprovalsKnow, GrantsStay,
           NEW h \in Handler, handler'[h] = handler[h], handler[h] # Idle
    PROVE  Knows(handler[h])'
  <1> DEFINE x == handler[h]
  <1>1. /\ x.request \in Request /\ x.place \in Place /\ KeyOf(x) \in Key
        /\ x.step = "approve" => x.token \in Token
    BY ApprovalShape
  <1>2. /\ Known(x.request)
        /\ Known(x.request)'
        /\ request'[x.request].slug = request[x.request].slug
    BY <1>1 DEF ApprovalsKnow, Knows, GrantsStay, Known
  <1>3. ProjectOf(x)' = ProjectOf(x) /\ ProjectOf(x) \in Place \X Slug
    BY <1>1, <1>2, RowShape DEF ProjectOf, Row
  <1>4. x.step # "workspace" => <<x.person, x.place>> \in member'
    BY DEF ApprovalsKnow, Knows, GrantsStay
  <1>5. x.step \in {"token", "approve"} => project'[ProjectOf(x)] # None
    BY <1>3 DEF ApprovalsKnow, Knows, GrantsStay
  <1>6. x.step = "approve" => token'[x.token] = KeyOf(x)
    BY <1>1, KeysAreKeys DEF ApprovalsKnow, Knows, GrantsStay
  <1> QED
    BY <1>2, <1>3, <1>4, <1>5, <1>6 DEF Knows, KeyOf, Known


\* Where consumption and the sealed credential stay, so does the grant.
LEMMA GrantStep ==
    ASSUME TypeOK, GrantConsistent, GrantsStay, OneTokenPerKey',
           NEW r \in Request, Approved(r),
           request'[r].consumed = request[r].consumed, request'[r].sealed = request[r].sealed
    PROVE  LET grant == request'[r].grant
           IN  /\ <<grant.person, grant.place>> \in member'
               /\ grant.slug = request'[r].slug
               /\ project'[<<grant.place, grant.slug>>] # None
               /\ \E t \in Token : Credential(r, t)'
  <1>1. PICK t \in Token : Credential(r, t)
    BY DEF GrantConsistent
  <1>2. /\ request'[r].grant = request[r].grant
        /\ request'[r].slug = request[r].slug
    BY RowShape DEF GrantsStay
  <1>3. request[r].grant \in Grant
    BY RowShape
  <1>4. <<request[r].grant.place, request[r].grant.slug>> \in Place \X Slug
    BY <1>3 DEF Grant
  <1>5. token[t] = GrantKey(r)
    BY <1>1 DEF Credential
  <1>6. token'[t] = GrantKey(r)' /\ GrantKey(r)' # None
    BY <1>5, GrantedStays, KeysAreKeys DEF Granted
  <1>7. \A u \in Token : token'[u] = GrantKey(r)' <=> u = t
    BY <1>6 DEF OneTokenPerKey
  <1>8. Credential(r, t)'
    BY <1>1, <1>7 DEF Credential
  <1>9. /\ <<request[r].grant.person, request[r].grant.place>> \in member'
        /\ request[r].grant.slug = request[r].slug
        /\ project'[<<request[r].grant.place, request[r].grant.slug>>] # None
    BY <1>4 DEF GrantConsistent, GrantsStay
  <1> QED
    BY <1>2, <1>8, <1>9

\* An exchange that did not move knows what it knew, if its device still waits.
LEMMA ExchangeStep1 ==
    ASSUME TypeOK, ExchangesKnow, GrantsStay,
           NEW c \in Call, call'[c] = call[c], call[c] # Idle,
           request[call[c].request].consumed => request'[call[c].request].consumed,
           call[c].step = "answer" =>
               device'[call[c].request].token = device[call[c].request].token
    PROVE  (/\ Granted(call[c].request, call[c].token)
            /\ call[c].step = "answer" =>
                  request[call[c].request].consumed /\ device[call[c].request].token = None)'
  <1>1. call[c].request \in Request /\ call[c].token \in Token
    BY ExchangeShape
  <1>2. Granted(call[c].request, call[c].token)
    BY DEF ExchangesKnow
  <1>3. Granted(call[c].request, call[c].token)'
    BY <1>1, <1>2, GrantedStays DEF Granted, Approved, Known, GrantKey
  <1> QED
    BY <1>3 DEF ExchangesKnow

\* A device that did not move knows what it knew.
LEMMA DeviceStep ==
    ASSUME TypeOK, DevicesKnow, GrantsStay, NEW r \in Request, device'[r] = device[r],
           Known(r) <=> Known(r)', request[r].consumed => request'[r].consumed
    PROVE  (/\ device[r].state \in {"off", "waiting"} => device[r].token = None
            /\ device[r].state \in {"got", "storing", "ready"} => device[r].token # None
            /\ device[r].state = "off" <=> ~Known(r)
            /\ device[r].token # None => Granted(r, device[r].token) /\ request[r].consumed)'
  <1>1. device[r].token \in Token \cup {None}
    BY DEF TypeOK, Device
  <1>2. device[r].token # None => Granted(r, device[r].token)
    BY DEF DevicesKnow
  <1>3. device[r].token # None => Granted(r, device[r].token)'
    BY <1>1, <1>2, GrantedStays DEF Granted, Approved, Known, GrantKey
  <1> QED
    BY <1>3 DEF DevicesKnow

\* What was handed stays handed.
LEMMA HandedStep ==
    ASSUME TypeOK, GrantsStay, NEW f, Handed(f),
           \A r \in Request : device[r].token # None => device'[r].token = device[r].token
    PROVE  \A s \in Slug : f[s] # None =>
              \E r \in Request : Known(r)' /\ request'[r].slug = s /\ device'[r].token = f[s]
  BY DEF Handed, GrantsStay

-----------------------------------------------------------------------------
(* Steps *)

\* The parts of the invariant that are about handlers, tokens and rows.
ApprovalPart ==
    OneTokenPerKey /\ ApprovalsKnow /\ NothingBeforeApproval /\ GrantConsistent

\* The parts that are about exchanges and the machine.
ExchangePart == ExchangesKnow /\ OneAnswer /\ DevicesKnow

MachinePart == Handed(file) /\ \A r \in Request : Handed(device[r].copy)

LEMMA Parts == SetupInv <=> TypeOK /\ ApprovalPart /\ ExchangePart /\ MachinePart
  BY DEF SetupInv, ApprovalPart, ExchangePart, MachinePart

\* The exchange and the machine do not notice steps that leave them alone.
LEMMA ExchangePartStays ==
    ASSUME TypeOK, ExchangePart, GrantsStay, call' = call, device' = device,
           \A r \in Request : /\ Known(r) <=> Known(r)'
                              /\ Known(r) /\ request[r].consumed => request'[r].consumed
    PROVE  ExchangePart'
  <1>1. ASSUME NEW c \in Call, call'[c] # Idle
        PROVE  (/\ Granted(call[c].request, call[c].token)
                /\ call[c].step = "answer" =>
                      request[call[c].request].consumed /\ device[call[c].request].token = None)'
    <2>1. call[c].request \in Request /\ Granted(call[c].request, call[c].token)
      BY <1>1, ExchangeShape DEF ExchangePart, ExchangesKnow
    <2> QED
      BY <1>1, <2>1, ExchangeStep1 DEF ExchangePart, Granted, Approved
  <1>2. ASSUME NEW r \in Request
        PROVE  (/\ device[r].state \in {"off", "waiting"} => device[r].token = None
                /\ device[r].state \in {"got", "storing", "ready"} => device[r].token # None
                /\ device[r].state = "off" <=> ~Known(r)
                /\ device[r].token # None => Granted(r, device[r].token) /\ request[r].consumed)'
    <2>1. device[r].token \in Token \cup {None}
      BY DEF TypeOK, Device
    <2>2. device[r].token # None => Granted(r, device[r].token) /\ Known(r)
      BY DEF ExchangePart, DevicesKnow, Granted, Approved
    <2>3. device[r].token # None => Granted(r, device[r].token)'
      BY <2>1, <2>2, GrantedStays DEF Granted, Approved, Known, GrantKey
    <2> QED
      BY <2>2, <2>3 DEF ExchangePart, DevicesKnow
  <1>3. ExchangesKnow'
    BY <1>1 DEF ExchangesKnow
  <1>4. DevicesKnow'
    BY <1>2 DEF DevicesKnow
  <1>5. OneAnswer'
    BY DEF ExchangePart, OneAnswer, Answers
  <1> QED
    BY <1>3, <1>4, <1>5 DEF ExchangePart

LEMMA MachinePartStays ==
    ASSUME TypeOK, MachinePart, GrantsStay, file' = file,
           \A r \in Request : device'[r].copy \in {device[r].copy, NoFile, file},
           \A r \in Request : device[r].token # None => device'[r].token = device[r].token
    PROVE  MachinePart'
  <1>1. ASSUME NEW f, Handed(f)
        PROVE  \A s \in Slug : f[s] # None =>
                  \E r \in Request : Known(r)' /\ request'[r].slug = s /\ device'[r].token = f[s]
    BY <1>1, HandedStep
  <1>2. Handed(NoFile)
    BY DEF Handed, NoFile
  <1>3. \A r \in Request : Handed(device'[r].copy)
    BY <1>2 DEF MachinePart
  <1> QED
    BY <1>1, <1>3 DEF MachinePart, Handed


\* One handler moves, and rows stay as they are.
LEMMA ApprovalPartStep ==
    ASSUME TypeOK, ApprovalPart, GrantsStay, TokensStayUnique,
           NEW h \in Handler, \A g \in Handler : g # h => handler'[g] = handler[g],
           handler'[h] # Idle => Knows(handler[h])',
           request' = request
    PROVE  ApprovalPart'
  <1>1. OneTokenPerKey'
    BY UniqueStep DEF ApprovalPart
  <1>2. ASSUME NEW g \in Handler, handler'[g] # Idle
        PROVE  Knows(handler[g])'
    <2>1. CASE g = h
      BY <1>2, <2>1
    <2>2. CASE g # h
      BY <1>2, <2>2, ApprovalsStep DEF ApprovalPart
    <2> QED
      BY <2>1, <2>2
  <1>3. ApprovalsKnow'
    BY <1>2 DEF ApprovalsKnow
  <1>4. NothingBeforeApproval'
    BY DEF ApprovalPart, NothingBeforeApproval, Known, Approved
  <1>5. GrantConsistent'
    BY <1>1, GrantStep DEF ApprovalPart, GrantConsistent, Approved, Known
  <1> QED
    BY <1>1, <1>3, <1>4, <1>5 DEF ApprovalPart

\* A handler that writes no row and issues no token keeps the invariant if the
\* moved handler knows what it must.
LEMMA HandlerMoves ==
    ASSUME SetupInv, TypeOK', GrantsStay, TokensStayUnique,
           NEW h \in Handler, NEW next, handler' = [handler EXCEPT ![h] = next],
           next # Idle => Knows(handler[h])',
           UNCHANGED <<request, call, device, file>>
    PROVE  SetupInv'
  <1>1. TypeOK /\ ApprovalPart /\ ExchangePart /\ MachinePart
    BY Parts
  <1>2. handler'[h] = next /\ \A g \in Handler : g # h => handler'[g] = handler[g]
    BY <1>1 DEF TypeOK
  <1>3. ApprovalPart'
    BY <1>1, <1>2, ApprovalPartStep
  <1>4. ExchangePart'
    BY <1>1, ExchangePartStays DEF Known
  <1>5. MachinePart'
    BY <1>1, MachinePartStays
  <1> QED
    BY <1>3, <1>4, <1>5 DEF SetupInv, ApprovalPart, ExchangePart, MachinePart

\* Rows, tokens and projects that do not change are kept.
LEMMA NothingLost ==
    ASSUME TypeOK, request' = request, token' = token, member \subseteq member',
           project' = project
    PROVE  GrantsStay /\ TokensStayUnique
  BY DEF GrantsStay, TokensStayUnique, Known, Approved

LEMMA LookUpInv ==
    ASSUME SetupInv, NEW h \in Handler, NEW r \in Request, NEW p \in Person,
           NEW wanted \in Place \cup {None}, LookUp(h, r, p, wanted)
    PROVE  SetupInv'
  <1>0. TypeOK
    BY DEF SetupInv
  <1>1. PICK step \in {"find", "workspace"}, w \in Place :
            /\ Goes(h, [step |-> step, request |-> r, person |-> p, place |-> w])
            /\ step = "find" => <<p, w>> \in member
    <2>1. request[r] \in Row
      BY <1>0, RowShape DEF LookUp
    <2> QED
      BY <2>1, Nones DEF LookUp, PlacesOf, Row
  <1> DEFINE next == [step |-> step, request |-> r, person |-> p, place |-> w]
  <1>2. next \in Approval
    BY DEF Approval
  <1>3. TypeOK'
    BY <1>0, <1>1, <1>2 DEF TypeOK, LookUp, Goes
  <1>4. Known(r)
    BY <1>0, RowShape DEF LookUp
  <1>5. handler'[h] = next
    BY <1>0, <1>1 DEF TypeOK, Goes
  <1>6. Knows(handler[h])'
    BY <1>1, <1>4, <1>5 DEF Knows, Known, LookUp
  <1>7. GrantsStay /\ TokensStayUnique
    BY <1>0, NothingLost DEF LookUp
  <1> HIDE DEF next
  <1>8. handler' = [handler EXCEPT ![h] = next] /\ UNCHANGED <<request, call, device, file>>
    BY <1>1 DEF Goes, LookUp, next
  <1> QED
    BY <1>3, <1>6, <1>7, <1>8, HandlerMoves

LEMMA CreateWorkspaceInv ==
    ASSUME SetupInv, NEW h \in Handler, CreateWorkspace(h)
    PROVE  SetupInv'
  <1>0. TypeOK
    BY DEF SetupInv
  <1> DEFINE x == handler[h]
             next == [x EXCEPT !.step = "find"]
  <1>1. /\ x # Idle /\ x.request \in Request /\ x.person \in Person /\ x.place \in Place
        /\ x \in [step : {"workspace", "find", "project", "token"},
                  request : Request, person : Person, place : Place]
    BY <1>0, ApprovalShape DEF CreateWorkspace
  <1>2. /\ next \in Approval /\ next.step = "find"
        /\ next.request = x.request /\ next.person = x.person /\ next.place = x.place
    BY <1>1, NextStep
  <1>3. TypeOK'
    BY <1>0, <1>1, <1>2 DEF TypeOK, CreateWorkspace, Goes
  <1>4. Known(x.request)
    BY <1>1 DEF SetupInv, ApprovalsKnow, Knows
  <1>5. handler'[h] = next
    BY <1>0 DEF TypeOK, Goes, CreateWorkspace
  <1>6. Knows(handler[h])'
    BY <1>1, <1>2, <1>4, <1>5 DEF Knows, Known, CreateWorkspace
  <1>7. GrantsStay /\ TokensStayUnique
    BY <1>0, NothingLost DEF CreateWorkspace
  <1>8. handler' = [handler EXCEPT ![h] = next] /\ UNCHANGED <<request, call, device, file>>
    BY DEF Goes, CreateWorkspace
  <1> HIDE DEF x, next
  <1> QED
    BY <1>3, <1>6, <1>7, <1>8, HandlerMoves

LEMMA FindProjectInv ==
    ASSUME SetupInv, NEW h \in Handler, FindProject(h)
    PROVE  SetupInv'
  <1>0. TypeOK
    BY DEF SetupInv
  <1> DEFINE x == handler[h]
             step == IF project[ProjectOf(x)] = None THEN "project" ELSE "token"
             next == [x EXCEPT !.step = step]
  <1>1. /\ x # Idle /\ x.request \in Request /\ x.step = "find"
        /\ x \in [step : {"workspace", "find", "project", "token"},
                  request : Request, person : Person, place : Place]
    BY <1>0, ApprovalShape DEF FindProject
  <1>2. step \in {"project", "token"}
    OBVIOUS
  <1>3. /\ next \in Approval /\ next.step = step
        /\ next.request = x.request /\ next.person = x.person /\ next.place = x.place
    <2> HIDE DEF x, step
    <2> QED BY <1>1, <1>2, NextStep
  <1>4. Knows(x)
    BY <1>1 DEF SetupInv, ApprovalsKnow
  <1>5. handler'[h] = next
    BY <1>0 DEF TypeOK, Goes, FindProject
  <1>6. Knows(handler[h])'
    <2>1. step = "token" => project[ProjectOf(x)] # None
      OBVIOUS
    <2> QED
      BY <1>1, <1>2, <1>3, <1>4, <1>5, <2>1 DEF Knows, Known, FindProject, ProjectOf
  <1>7. GrantsStay /\ TokensStayUnique
    BY <1>0, NothingLost DEF FindProject
  <1>8. handler' = [handler EXCEPT ![h] = next] /\ UNCHANGED <<request, call, device, file>>
    BY DEF Goes, FindProject
  <1>9. TypeOK'
    BY <1>0, <1>3, <1>8 DEF TypeOK, FindProject
  <1> HIDE DEF x, step, next
  <1> QED
    BY <1>6, <1>7, <1>8, <1>9, HandlerMoves

LEMMA CreateProjectInv ==
    ASSUME SetupInv, NEW h \in Handler, CreateProject(h)
    PROVE  SetupInv'
  <1>0. TypeOK
    BY DEF SetupInv
  <1> DEFINE x == handler[h]
             next == [x EXCEPT !.step = "token"]
  <1>1. /\ x # Idle /\ x.request \in Request /\ x.place \in Place /\ x.step = "project"
        /\ KeyOf(x) \in Key
        /\ x \in [step : {"workspace", "find", "project", "token"},
                  request : Request, person : Person, place : Place]
    BY <1>0, ApprovalShape DEF CreateProject
  <1>2. /\ next \in Approval /\ next.step = "token"
        /\ next.request = x.request /\ next.person = x.person /\ next.place = x.place
    BY <1>1, NextStep
  <1>3. Knows(x)
    BY <1>1 DEF SetupInv, ApprovalsKnow
  <1>4. ProjectOf(x) \in Place \X Slug
    BY <1>0, <1>1, <1>3, RowShape DEF Knows, ProjectOf, Row
  <1>5. /\ handler' = [handler EXCEPT ![h] = next]
        /\ project' = [project EXCEPT ![ProjectOf(x)] = KeyOf(x)]
        /\ UNCHANGED <<request, member, token, call, device, file>>
    BY DEF Goes, CreateProject
  <1>6. TypeOK'
    BY <1>0, <1>1, <1>2, <1>5 DEF TypeOK
  <1>7. /\ handler'[h] = next
        /\ project'[ProjectOf(x)] = KeyOf(x)
        /\ \A ws \in Place \X Slug : project[ws] # None => project'[ws] # None
    BY <1>0, <1>1, <1>4, <1>5, KeysAreKeys DEF TypeOK
  <1>8. Knows(handler[h])'
    <2>1. ProjectOf(next)' = ProjectOf(x)
      BY <1>2, <1>5 DEF ProjectOf
    <2>2. project'[ProjectOf(next)'] # None
      BY <1>1, <1>7, <2>1, KeysAreKeys
    <2> QED
      BY <1>1, <1>2, <1>3, <1>5, <1>7, <2>2 DEF Knows, Known, ProjectOf
  <1>9. GrantsStay /\ TokensStayUnique
    BY <1>5, <1>7 DEF GrantsStay, TokensStayUnique, Known, Approved
  <1> HIDE DEF x, next
  <1> QED
    BY <1>5, <1>6, <1>8, <1>9, HandlerMoves

LEMMA IssueTokenInv ==
    ASSUME SetupInv, NEW h \in Handler, IssueToken(h)
    PROVE  SetupInv' /\ GrantsStay /\ TokensStayUnique
  <1>0. TypeOK
    BY DEF SetupInv
  <1> DEFINE x == handler[h]
  <1>1. /\ x # Idle /\ x.request \in Request /\ x.person \in Person /\ x.place \in Place
        /\ KeyOf(x) \in Key
    BY <1>0, ApprovalShape DEF IssueToken
  <1>2. PICK t \in Token :
            /\ Issued(KeyOf(x), t)
            /\ token' = [token EXCEPT ![t] = KeyOf(x)]
            /\ Goes(h, [step |-> "approve", request |-> x.request, person |-> x.person,
                        place |-> x.place, token |-> t])
    BY DEF IssueToken
  <1> DEFINE next == [step |-> "approve", request |-> x.request, person |-> x.person,
                      place |-> x.place, token |-> t]
  <1>3. next \in Approval
    BY <1>1 DEF Approval
  <1>4. /\ handler' = [handler EXCEPT ![h] = next]
        /\ handler'[h] = next
        /\ UNCHANGED <<request, member, project, call, device, file>>
    BY <1>0, <1>2 DEF TypeOK, Goes, IssueToken
  <1>5. TypeOK'
    BY <1>0, <1>1, <1>2, <1>3, <1>4 DEF TypeOK
  <1>6. token'[t] = KeyOf(x) /\ \A u \in Token : u # t => token'[u] = token[u]
    BY <1>0, <1>2 DEF TypeOK
  <1>7. GrantsStay /\ TokensStayUnique
    BY <1>1, <1>2, <1>4, <1>6, KeysAreKeys DEF GrantsStay, TokensStayUnique, Known, Approved, Issued
  <1>8. Knows(x) /\ x.step = "token"
    BY <1>1 DEF SetupInv, ApprovalsKnow, IssueToken
  <1>9. Knows(handler[h])'
    <2>1. KeyOf(next) = KeyOf(x)
      BY DEF KeyOf
    <2>2. ProjectOf(next)' = ProjectOf(x)
      BY <1>4 DEF ProjectOf
    <2> QED
      BY <1>4, <1>6, <1>8, <2>1, <2>2 DEF Knows, Known, ProjectOf
  <1> HIDE DEF x, next
  <1> QED
    BY <1>4, <1>5, <1>7, <1>9, HandlerMoves

LEMMA LeaveInv ==
    ASSUME SetupInv, NEW h \in Handler, Leave(h)
    PROVE  SetupInv'
  <1>0. TypeOK
    BY DEF SetupInv
  <1>1. handler' = [handler EXCEPT ![h] = Idle] /\ UNCHANGED <<request, call, device, file>>
    BY DEF Leave, Goes
  <1>2. TypeOK'
    BY <1>0, <1>1 DEF TypeOK, Leave, Approval
  <1>3. GrantsStay /\ TokensStayUnique
    BY <1>0, NothingLost DEF Leave
  <1> QED
    BY <1>1, <1>2, <1>3, HandlerMoves

\* How the row of an approved request changes.
LEMMA SealShape ==
    ASSUME SetupInv, NEW h \in Handler, ApproveSetupRequest(h)
    PROVE  LET x == handler[h]
               q == x.request
           IN  /\ x \in [step : {"approve"}, request : Request, person : Person,
                         place : Place, token : Token]
               /\ Knows(x)
               /\ request[q] \in Row
               /\ ~Approved(q)
               /\ ~request[q].consumed
               /\ request'[q] = [slug |-> request[q].slug,
                                 grant |-> [person |-> x.person, place |-> x.place,
                                            slug |-> request[q].slug],
                                 sealed |-> x.token, consumed |-> FALSE,
                                 expired |-> request[q].expired]
               /\ request'[q] \in Row
               /\ request'[q].grant # NoGrant
               /\ \A r \in Request : r # q => request'[r] = request[r]
  <1> DEFINE x == handler[h]
             q == x.request
  <1>0. TypeOK
    BY DEF SetupInv
  <1>1. x # Idle /\ x.step = "approve"
    BY <1>0, ApprovalShape DEF ApproveSetupRequest
  <1>2. x \in [step : {"approve"}, request : Request, person : Person,
               place : Place, token : Token]
    <2>1. x \in Approval
      BY <1>0 DEF TypeOK
    <2> HIDE DEF x
    <2> QED
      BY <1>1, <2>1 DEF Approval, Idle
  <1>3. Knows(x)
    BY <1>1 DEF SetupInv, ApprovalsKnow
  <1>4. request[q] \in Row
    BY <1>0, <1>2, <1>3, RowShape DEF Knows
  <1>5. ~Approved(q) /\ ~request[q].consumed
    BY DEF ApproveSetupRequest, Approvable, Live
  <1>6. /\ request'[q] = [request[q] EXCEPT
              !.grant = [person |-> x.person, place |-> x.place, slug |-> request[q].slug],
              !.sealed = x.token]
        /\ \A r \in Request : r # q => request'[r] = request[r]
    BY <1>0, <1>2 DEF ApproveSetupRequest, Seal, TypeOK
  <1>7. [person |-> x.person, place |-> x.place, slug |-> request[q].slug] \in Grant
    BY <1>2, <1>4 DEF Grant, Row
  <1>8. [person |-> x.person, place |-> x.place, slug |-> request[q].slug] # NoGrant
    BY <1>2, Nones DEF NoGrant
  <1>9. x.token \in Token
    BY <1>2
  <1>10. request'[q] = [slug |-> request[q].slug,
                        grant |-> [person |-> x.person, place |-> x.place,
                                   slug |-> request[q].slug],
                        sealed |-> x.token, consumed |-> FALSE,
                        expired |-> request[q].expired]
    <2> DEFINE g == [person |-> x.person, place |-> x.place, slug |-> request[q].slug]
               t == x.token
               old == request[q]
    <2>1. request'[q] = [old EXCEPT !.grant = g, !.sealed = t]
      BY <1>6
    <2>2. old \in Row /\ old.consumed = FALSE
      BY <1>4, <1>5 DEF Row
    <2> HIDE DEF g, t, old
    <2>3. [old EXCEPT !.grant = g, !.sealed = t] =
             [slug |-> old.slug, grant |-> g, sealed |-> t, consumed |-> old.consumed,
              expired |-> old.expired]
      <3> DEFINE mid == [old EXCEPT !.grant = g]
      <3>1. mid = [slug |-> old.slug, grant |-> g, sealed |-> old.sealed,
                   consumed |-> old.consumed, expired |-> old.expired]
        BY <2>2 DEF Row
      <3>2. [old EXCEPT !.grant = g, !.sealed = t] = [mid EXCEPT !.sealed = t]
        BY Zenon
      <3> HIDE DEF mid
      <3>3. [mid EXCEPT !.sealed = t] =
               [slug |-> old.slug, grant |-> g, sealed |-> t, consumed |-> old.consumed,
                expired |-> old.expired]
        BY <3>1
      <3> QED
        BY <3>2, <3>3
    <2> QED
      BY <2>1, <2>2, <2>3 DEF g, t, old
  <1>11. request'[q] \in Row
    BY <1>4, <1>7, <1>9, <1>10 DEF Row
  <1> QED
    BY <1>2, <1>3, <1>4, <1>5, <1>6, <1>8, <1>10, <1>11

LEMMA ApproveInv ==
    ASSUME SetupInv, NEW h \in Handler, ApproveSetupRequest(h)
    PROVE  SetupInv' /\ GrantsStay
  <1>x. PICK x : x = handler[h]
    OBVIOUS
  <1> DEFINE q == x.request
  <1>0. TypeOK /\ ApprovalPart /\ ExchangePart /\ MachinePart
    BY Parts
  <1>1. /\ x \in [step : {"approve"}, request : Request, person : Person,
                  place : Place, token : Token]
        /\ Knows(x)
        /\ request[q] \in Row
        /\ ~Approved(q)
        /\ ~request[q].consumed
        /\ request'[q] = [slug |-> request[q].slug,
                          grant |-> [person |-> x.person, place |-> x.place,
                                     slug |-> request[q].slug],
                          sealed |-> x.token, consumed |-> FALSE,
                          expired |-> request[q].expired]
        /\ request'[q] \in Row
        /\ request'[q].grant # NoGrant
        /\ \A r \in Request : r # q => request'[r] = request[r]
    BY <1>x, SealShape
  <1>2. /\ x.step = "approve" /\ q \in Request /\ x.person \in Person
        /\ x.place \in Place /\ x.token \in Token
    BY <1>1
  <1>3. /\ handler' = [handler EXCEPT ![h] = Idle]
        /\ UNCHANGED <<member, project, token, call, device, file>>
    BY DEF ApproveSetupRequest, Goes
  <1>4. \E r : request' = [request EXCEPT ![q] = r]
    BY <1>x, <1>0, <1>1, <1>2 DEF ApproveSetupRequest, Seal, TypeOK
  <1>5. TypeOK'
    BY <1>0, <1>1, <1>2, <1>3, <1>4 DEF TypeOK, Approval
  <1>6. Known(q) /\ Known(q)' /\ Approved(q)'
    <2>1. request'[q].slug # None /\ request[q].slug # None
      BY <1>1, Nones DEF Row
    <2> QED
      BY <1>1, <2>1 DEF Known, NoRow, Approved
  <1>7. /\ \A r \in Request : r # q => /\ Known(r)' <=> Known(r)
                                       /\ Approved(r)' <=> Approved(r)
                                       /\ GrantKey(r)' = GrantKey(r)
        /\ request'[q].slug = request[q].slug /\ request'[q].consumed = FALSE
        /\ request'[q].sealed = x.token
    BY <1>1 DEF Known, Approved, GrantKey
  <1> HIDE DEF q
  <1>8. GrantsStay /\ TokensStayUnique
    BY <1>1, <1>3, <1>6, <1>7 DEF GrantsStay, TokensStayUnique
  <1>9. OneTokenPerKey'
    BY <1>0, <1>8, UniqueStep DEF ApprovalPart
  <1>10. ApprovalsKnow'
    <2>1. handler'[h] = Idle /\ \A g \in Handler : g # h => handler'[g] = handler[g]
      BY <1>0, <1>3 DEF TypeOK
    <2> QED
      BY <1>0, <1>8, <2>1, ApprovalsStep DEF ApprovalsKnow, ApprovalPart
  <1>11. NothingBeforeApproval'
    BY <1>0, <1>1, <1>6, <1>7 DEF ApprovalPart, NothingBeforeApproval
  <1>12. GrantConsistent'
    <2>1. ASSUME NEW r \in Request, r # q, Approved(r)'
          PROVE  LET grant == request'[r].grant
                 IN  /\ <<grant.person, grant.place>> \in member'
                     /\ grant.slug = request'[r].slug
                     /\ project'[<<grant.place, grant.slug>>] # None
                     /\ \E t \in Token : Credential(r, t)'
      BY <1>0, <1>1, <1>7, <1>8, <1>9, <2>1, GrantStep DEF ApprovalPart
    <2>2. LET grant == request'[q].grant
          IN  /\ <<grant.person, grant.place>> \in member'
              /\ grant.slug = request'[q].slug
              /\ project'[<<grant.place, grant.slug>>] # None
              /\ \E t \in Token : Credential(q, t)'
      <3>1. request'[q].grant =
               [person |-> x.person, place |-> x.place, slug |-> request[q].slug]
        BY <1>1
      <3>2. <<x.person, x.place>> \in member' /\ project'[<<x.place, request[q].slug>>] # None
        BY <1>1, <1>2, <1>3 DEF Knows, ProjectOf, q
      <3>3. GrantKey(q)' = KeyOf(x)
        BY <1>2, <3>1 DEF GrantKey, KeyOf, q
      <3>4. token'[x.token] = GrantKey(q)' /\ GrantKey(q)' # None
        BY <1>1, <1>2, <1>3, <3>3, KeysAreKeys DEF Knows, KeyOf, Key, q
      <3>5. \A u \in Token : token'[u] = GrantKey(q)' <=> u = x.token
        BY <1>2, <1>9, <3>4 DEF OneTokenPerKey
      <3>6. Credential(q, x.token)'
        BY <1>7, <3>5, <1>3 DEF Credential
      <3> QED
        BY <1>2, <1>7, <3>1, <3>2, <3>6
    <2> QED
      BY <2>1, <2>2 DEF GrantConsistent
  <1>13. ExchangePart'
    BY <1>0, <1>1, <1>3, <1>6, <1>7, <1>8, ExchangePartStays
  <1>14. MachinePart'
    BY <1>0, <1>3, <1>8, MachinePartStays
  <1> QED
    BY <1>5, <1>8, <1>9, <1>10, <1>11, <1>12, <1>13, <1>14
       DEF SetupInv, ApprovalPart, ExchangePart, MachinePart

\* Steps after which every row is as it was, but for one that was not approved.
LEMMA ApprovalPartOthers ==
    ASSUME TypeOK, ApprovalPart, GrantsStay, UNCHANGED <<token, handler>>,
           \A r \in Request : Approved(r)' =>
               /\ Approved(r)
               /\ request'[r].consumed = request[r].consumed
               /\ request'[r].sealed = request[r].sealed,
           NothingBeforeApproval'
    PROVE  ApprovalPart'
  <1>1. OneTokenPerKey'
    BY DEF ApprovalPart, OneTokenPerKey
  <1>2. ApprovalsKnow'
    BY ApprovalsStep DEF ApprovalPart, ApprovalsKnow
  <1>3. GrantConsistent'
    BY <1>1, GrantStep DEF ApprovalPart, GrantConsistent
  <1> QED
    BY <1>1, <1>2, <1>3 DEF ApprovalPart

LEMMA StartSetupInv ==
    ASSUME SetupInv, NEW r \in Request, NEW s \in Slug, StartSetup(r, s)
    PROVE  SetupInv' /\ GrantsStay
  <1>0. TypeOK /\ ApprovalPart /\ ExchangePart /\ MachinePart
    BY Parts
  <1> DEFINE row == [slug |-> s, grant |-> NoGrant, sealed |-> None,
                     consumed |-> FALSE, expired |-> FALSE]
  <1>1. row \in Row
    BY DEF Row
  <1>2. /\ request' = [request EXCEPT ![r] = row]
        /\ device' = [device EXCEPT ![r].state = "waiting"]
        /\ UNCHANGED <<member, project, token, handler, call, file>>
        /\ ~Known(r)
    BY DEF StartSetup
  <1>3. TypeOK'
    BY <1>0, <1>1, <1>2 DEF TypeOK, Device
  <1>4. /\ request'[r] = row /\ \A q \in Request : q # r => request'[q] = request[q]
        /\ device'[r].state = "waiting" /\ device'[r].token = device[r].token
        /\ device'[r].copy = device[r].copy
        /\ \A q \in Request : q # r => device'[q] = device[q]
    BY <1>0, <1>2 DEF TypeOK, Device
  <1>5. Known(r)' /\ ~Approved(r)' /\ ~Approved(r)
    BY <1>2, <1>4, Nones DEF Known, NoRow, Approved
  <1>6. \A q \in Request : q # r => /\ Known(q)' <=> Known(q)
                                    /\ Approved(q)' <=> Approved(q)
                                    /\ GrantKey(q)' = GrantKey(q)
    BY <1>4 DEF Known, Approved, GrantKey
  <1>7. GrantsStay
    BY <1>2, <1>4, <1>5, <1>6 DEF GrantsStay
  <1>8. NothingBeforeApproval'
    BY <1>0, <1>4, <1>5, <1>6 DEF ApprovalPart, NothingBeforeApproval
  <1>9. ApprovalPart'
    BY <1>0, <1>2, <1>4, <1>5, <1>6, <1>7, <1>8, ApprovalPartOthers
  <1>10. ExchangePart'
    <2>1. ASSUME NEW c \in Call, call[c] # Idle
          PROVE  /\ call[c].request \in Request /\ call[c].request # r
                 /\ call[c].token \in Token
                 /\ Granted(call[c].request, call[c].token)
                 /\ Granted(call[c].request, call[c].token)'
                 /\ call[c].step = "answer" =>
                       (request[call[c].request].consumed /\ device[call[c].request].token = None)'
      <3>1. call[c].request \in Request /\ call[c].token \in Token
        BY <1>0, <2>1, ExchangeShape
      <3>2. Granted(call[c].request, call[c].token)
        BY <1>0, <2>1 DEF ExchangePart, ExchangesKnow
      <3>3. call[c].request # r
        BY <1>5, <3>2 DEF Granted
      <3>4. Granted(call[c].request, call[c].token)'
        BY <1>2, <1>6, <3>1, <3>2, <3>3 DEF Granted, Approved, Known, GrantKey
      <3> QED
        BY <1>0, <1>2, <1>4, <2>1, <3>1, <3>2, <3>3, <3>4 DEF ExchangePart, ExchangesKnow
    <2>2. ExchangesKnow'
      BY <1>2, <2>1 DEF ExchangesKnow
    <2>3. device'[r].token = None
      BY <1>0, <1>2, <1>4 DEF ExchangePart, DevicesKnow
    <2>4. ASSUME NEW q \in Request, q # r
          PROVE  (/\ device[q].state \in {"off", "waiting"} => device[q].token = None
                  /\ device[q].state \in {"got", "storing", "ready"} => device[q].token # None
                  /\ device[q].state = "off" <=> ~Known(q)
                  /\ device[q].token # None => Granted(q, device[q].token) /\ request[q].consumed)'
      BY <1>0, <1>4, <1>6, <1>7, <2>4, DeviceStep DEF ExchangePart
    <2>5. DevicesKnow'
      BY <1>4, <1>5, <2>3, <2>4 DEF DevicesKnow
    <2>6. OneAnswer'
      BY <1>0, <1>2 DEF ExchangePart, OneAnswer, Answers
    <2> QED
      BY <2>2, <2>5, <2>6 DEF ExchangePart
  <1>11. MachinePart'
    BY <1>0, <1>2, <1>4, <1>7, MachinePartStays
  <1> QED
    BY <1>3, <1>7, <1>9, <1>10, <1>11 DEF SetupInv, ApprovalPart, ExchangePart, MachinePart

LEMMA ExpireInv ==
    ASSUME SetupInv, NEW r \in Request, Expire(r)
    PROVE  SetupInv'
  <1>0. TypeOK /\ ApprovalPart /\ ExchangePart /\ MachinePart
    BY Parts
  <1>1. /\ request' = [request EXCEPT ![r].expired = TRUE]
        /\ UNCHANGED <<member, project, token, handler, call, device, file>>
        /\ request[r] \in Row
    BY <1>0, RowShape DEF Expire
  <1>2. /\ request'[r] \in Row
        /\ request'[r].slug = request[r].slug
        /\ request'[r].grant = request[r].grant
        /\ request'[r].sealed = request[r].sealed
        /\ request'[r].consumed = request[r].consumed
        /\ \A q \in Request : q # r => request'[q] = request[q]
    BY <1>0, <1>1 DEF TypeOK, Row
  <1>3. TypeOK'
    BY <1>0, <1>1, <1>2 DEF TypeOK
  <1>4. \A q \in Request : /\ Known(q)' <=> Known(q)
                           /\ Approved(q)' <=> Approved(q)
                           /\ GrantKey(q)' = GrantKey(q)
    <2>1. Known(r)' /\ Known(r)
      BY <1>1, <1>2, Nones DEF Known, NoRow, Row
    <2> QED
      BY <1>2, <2>1 DEF Known, Approved, GrantKey
  <1>5. GrantsStay
    BY <1>1, <1>2, <1>4 DEF GrantsStay
  <1>6. \A q \in Request : request'[q].consumed = request[q].consumed
                           /\ request'[q].sealed = request[q].sealed
    BY <1>2
  <1>7. NothingBeforeApproval'
    BY <1>0, <1>4, <1>6 DEF ApprovalPart, NothingBeforeApproval
  <1>8. ApprovalPart'
    BY <1>0, <1>1, <1>4, <1>5, <1>6, <1>7, ApprovalPartOthers
  <1>9. ExchangePart'
    BY <1>0, <1>1, <1>4, <1>5, <1>6, ExchangePartStays
  <1>10. MachinePart'
    BY <1>0, <1>1, <1>5, MachinePartStays
  <1> QED
    BY <1>3, <1>8, <1>9, <1>10 DEF SetupInv, ApprovalPart, ExchangePart, MachinePart

\* Handlers do not notice the exchanges and the machine.
LEMMA ApprovalPartSame ==
    ASSUME ApprovalPart, UNCHANGED <<request, member, project, token, handler>>
    PROVE  ApprovalPart'
  BY DEF ApprovalPart, OneTokenPerKey, ApprovalsKnow, Knows, NothingBeforeApproval,
         GrantConsistent, Credential, GrantKey, Approved, Known, ProjectOf

\* The credential of a live approved request is the sealed one.
LEMMA SealedIsGranted ==
    ASSUME SetupInv, NEW r \in Request, Approved(r), ~request[r].consumed
    PROVE  request[r].sealed \in Token /\ Granted(r, request[r].sealed)
  BY DEF SetupInv, GrantConsistent, Credential, Granted

\* The credential of an exchange is that of its request.
LEMMA OneCredential ==
    ASSUME SetupInv, NEW r \in Request, NEW t \in Token, NEW u \in Token,
           Granted(r, t), Granted(r, u)
    PROVE  t = u
  BY KeysAreKeys DEF SetupInv, OneTokenPerKey, Granted

LEMMA ReadCredentialInv ==
    ASSUME SetupInv, NEW c \in Call, NEW r \in Request, ReadCredential(c, r)
    PROVE  SetupInv'
  <1>0. TypeOK /\ ApprovalPart /\ ExchangePart /\ MachinePart
    BY Parts
  <1> DEFINE next == [step |-> "consume", request |-> r, token |-> request[r].sealed]
  <1>1. request[r].sealed \in Token /\ Granted(r, request[r].sealed)
    BY SealedIsGranted DEF ReadCredential, Live
  <1>2. /\ call' = [call EXCEPT ![c] = next]
        /\ UNCHANGED <<request, member, project, token, handler, device, file>>
    BY DEF ReadCredential, Turns
  <1>3. TypeOK'
    BY <1>0, <1>1, <1>2 DEF TypeOK, Exchange
  <1>4. call'[c] = next /\ \A d \in Call : d # c => call'[d] = call[d]
    BY <1>0, <1>2 DEF TypeOK
  <1>5. ApprovalPart'
    BY <1>0, <1>2, ApprovalPartSame
  <1>6. ExchangesKnow'
    BY <1>0, <1>1, <1>2, <1>4 DEF ExchangePart, ExchangesKnow, Granted, Approved, Known, GrantKey
  <1>7. OneAnswer' /\ DevicesKnow'
    BY <1>0, <1>2, <1>4 DEF ExchangePart, OneAnswer, Answers, DevicesKnow, Granted, Approved,
       Known, GrantKey
  <1>8. MachinePart'
    BY <1>0, <1>2 DEF MachinePart, Handed, Known
  <1> QED
    BY <1>3, <1>5, <1>6, <1>7, <1>8 DEF SetupInv, ApprovalPart, MachinePart

LEMMA LoseExchangeInv ==
    ASSUME SetupInv, NEW c \in Call, LoseExchange(c)
    PROVE  SetupInv'
  <1>0. TypeOK /\ ApprovalPart /\ ExchangePart /\ MachinePart
    BY Parts
  <1>1. /\ call' = [call EXCEPT ![c] = Idle]
        /\ UNCHANGED <<request, member, project, token, handler, device, file>>
    BY DEF LoseExchange, Turns
  <1>2. TypeOK'
    BY <1>0, <1>1 DEF TypeOK, Exchange
  <1>3. call'[c] = Idle /\ \A d \in Call : d # c => call'[d] = call[d]
    BY <1>0, <1>1 DEF TypeOK
  <1>4. ApprovalPart'
    BY <1>0, <1>1, ApprovalPartSame
  <1>5. ExchangesKnow'
    BY <1>0, <1>1, <1>3 DEF ExchangePart, ExchangesKnow, Granted, Approved, Known, GrantKey
  <1>6. OneAnswer' /\ DevicesKnow'
    BY <1>0, <1>1, <1>3 DEF ExchangePart, OneAnswer, Answers, DevicesKnow, Granted, Approved,
       Known, GrantKey, Idle
  <1>7. MachinePart'
    BY <1>0, <1>1 DEF MachinePart, Handed, Known
  <1> QED
    BY <1>2, <1>4, <1>5, <1>6, <1>7 DEF SetupInv, ApprovalPart, MachinePart

\* What taking the credential leaves in the row.
LEMMA TakeShape ==
    ASSUME SetupInv, NEW c \in Call, Consume(c), NEW r \in Request, r = call[c].request
    PROVE  /\ call[c].step = "consume" /\ call[c] # Idle
           /\ call[c].token \in Token
           /\ Granted(r, call[c].token)
           /\ request[r] \in Row /\ ~request[r].consumed
           /\ request[r].sealed = call[c].token
           /\ request'[r] \in Row
           /\ request'[r].slug = request[r].slug
           /\ Approved(r)' /\ GrantKey(r)' = GrantKey(r)
           /\ request[r].grant \in Grant /\ request'[r].grant = request[r].grant
           /\ request'[r].consumed
           /\ request'[r].sealed = None
           /\ call'[c].step = "answer" /\ call'[c].request = r /\ call'[c].token = call[c].token
           /\ call'[c] \in Exchange /\ call'[c] # Idle
  <1>0. TypeOK
    BY DEF SetupInv
  <1>1. /\ call[c] # Idle /\ call[c].step = "consume" /\ r \in Request
        /\ call[c].token \in Token
    BY <1>0, ExchangeShape DEF Consume
  <1>2. Granted(r, call[c].token)
    BY <1>1 DEF SetupInv, ExchangesKnow
  <1>3. request[r] \in Row /\ Approved(r) /\ ~request[r].consumed
    BY <1>0, <1>1, <1>2, RowShape DEF Granted, Consume, NotTaken
  <1>4. request[r].sealed = call[c].token
    BY <1>1, <1>2, <1>3, SealedIsGranted, OneCredential
  <1>5. request'[r] = [request[r] EXCEPT !.consumed = TRUE, !.sealed = None]
    BY <1>0, <1>1 DEF Consume, Take, TypeOK
  <1>6. /\ request'[r] \in Row
        /\ request'[r].slug = request[r].slug
        /\ request'[r].grant = request[r].grant
        /\ request'[r].consumed
        /\ request'[r].sealed = None
    <2> DEFINE old == request[r]
               mid == [old EXCEPT !.consumed = TRUE]
    <2>1. mid \in Row /\ mid.slug = old.slug /\ mid.grant = old.grant /\ mid.consumed
      <3> HIDE DEF old
      <3>1. old \in Row
        BY <1>3 DEF old
      <3> QED
        BY <3>1 DEF Row
    <2>2. request'[r] = [mid EXCEPT !.sealed = None]
      BY <1>5, Zenon
    <2> HIDE DEF mid
    <2> QED
      BY <2>1, <2>2 DEF Row
  <1>7. call'[c] = [call[c] EXCEPT !.step = "answer"]
    BY <1>0 DEF TypeOK, Consume, Turns
  <1>8. /\ call'[c].step = "answer" /\ call'[c].request = r /\ call'[c].token = call[c].token
        /\ call'[c] \in Exchange /\ call'[c] # Idle
    <2>1. call[c] \in [step : {"consume", "answer"}, request : Request, token : Token]
      BY <1>0, <1>1 DEF TypeOK, Exchange
    <2> QED
      BY <1>7, <2>1 DEF Exchange, Idle
  <1>9. Approved(r)' /\ GrantKey(r)' = GrantKey(r) /\ request[r].grant \in Grant
    <2>1. Known(r)'
      BY <1>6, Nones DEF Known, NoRow, Row
    <2> QED
      BY <1>0, <1>3, <1>6, <2>1, RowShape DEF Approved, GrantKey
  <1> QED
    BY <1>1, <1>2, <1>3, <1>4, <1>5, <1>6, <1>7, <1>8, <1>9

LEMMA ConsumeInv ==
    ASSUME SetupInv, NEW c \in Call, Consume(c)
    PROVE  SetupInv' /\ GrantsStay
  <1>0. TypeOK /\ ApprovalPart /\ ExchangePart /\ MachinePart
    BY Parts
  <1>r. PICK r \in Request : r = call[c].request
    BY <1>0, ExchangeShape DEF Consume
  <1>1. /\ call[c].step = "consume" /\ call[c] # Idle
        /\ call[c].token \in Token
        /\ Granted(r, call[c].token)
        /\ request[r] \in Row /\ ~request[r].consumed
        /\ request'[r] \in Row
        /\ request'[r].slug = request[r].slug
        /\ Approved(r)' /\ GrantKey(r)' = GrantKey(r)
        /\ request[r].grant \in Grant /\ request'[r].grant = request[r].grant
        /\ request'[r].consumed
        /\ request'[r].sealed = None
        /\ call'[c].step = "answer" /\ call'[c].request = r /\ call'[c].token = call[c].token
        /\ call'[c] \in Exchange /\ call'[c] # Idle
    BY <1>r, TakeShape
  <1>q. /\ \A q \in Request : q # r => request'[q] = request[q]
        /\ \A d \in Call : d # c => call'[d] = call[d]
    BY <1>0, <1>r DEF Consume, Take, Turns, TypeOK
  <1>2. /\ UNCHANGED <<member, project, token, handler, device, file>>
        /\ \E row : request' = [request EXCEPT ![r] = row]
        /\ \E next : call' = [call EXCEPT ![c] = next]
    <2>1. request' = [request EXCEPT ![r] = request'[r]]
      BY <1>0, <1>1, <1>r, <1>q DEF Consume, Take, TypeOK
    <2>2. call' = [call EXCEPT ![c] = call'[c]]
      BY <1>0, <1>1 DEF Consume, Turns, TypeOK
    <2> QED
      BY <2>1, <2>2 DEF Consume
  <1>3. TypeOK'
    BY <1>0, <1>1, <1>q, <1>2 DEF TypeOK
  <1>4. \A q \in Request : /\ Known(q)' <=> Known(q)
                           /\ Approved(q)' <=> Approved(q)
                           /\ GrantKey(q)' = GrantKey(q)
    <2>1. Known(r)' /\ Known(r)
      BY <1>1, <1>q, Nones DEF Known, NoRow, Row
    <2> QED
      BY <1>1, <1>q, <2>1 DEF Known, Approved, GrantKey
  <1>5. GrantsStay
    BY <1>1, <1>q, <1>2, <1>4 DEF GrantsStay
  <1>6. Approved(r)
    BY <1>1 DEF Granted
  <1>7. OneTokenPerKey'
    BY <1>0, <1>2 DEF ApprovalPart, OneTokenPerKey
  <1>8. ApprovalsKnow'
    BY <1>0, <1>2, <1>5, ApprovalsStep DEF ApprovalPart, ApprovalsKnow
  <1>9. NothingBeforeApproval'
    BY <1>0, <1>1, <1>q, <1>4, <1>6 DEF ApprovalPart, NothingBeforeApproval
  <1>10. GrantConsistent'
    <2>1. ASSUME NEW q \in Request, q # r, Approved(q)'
          PROVE  LET grant == request'[q].grant
                 IN  /\ <<grant.person, grant.place>> \in member'
                     /\ grant.slug = request'[q].slug
                     /\ project'[<<grant.place, grant.slug>>] # None
                     /\ \E t \in Token : Credential(q, t)'
      BY <1>0, <1>1, <1>q, <1>4, <1>5, <1>7, <2>1, GrantStep DEF ApprovalPart
    <2>2. LET grant == request'[r].grant
          IN  /\ <<grant.person, grant.place>> \in member'
              /\ grant.slug = request'[r].slug
              /\ project'[<<grant.place, grant.slug>>] # None
              /\ \E t \in Token : Credential(r, t)'
      <3>1. PICK t \in Token : Credential(r, t)
        BY <1>0, <1>1, <1>q, <1>6 DEF ApprovalPart, GrantConsistent
      <3>2. \A u \in Token : token'[u] = GrantKey(r)' <=> u = t
        BY <1>1, <1>q, <1>2, <1>4, <3>1 DEF Credential
      <3>3. Credential(r, t)'
        BY <1>1, <1>q, <3>2 DEF Credential
      <3>4. /\ <<request[r].grant.person, request[r].grant.place>> \in member
            /\ request[r].grant.slug = request[r].slug
            /\ project[<<request[r].grant.place, request[r].grant.slug>>] # None
        BY <1>0, <1>1, <1>q, <1>6 DEF ApprovalPart, GrantConsistent
      <3> QED
        BY <1>1, <1>q, <1>2, <3>3, <3>4
    <2> QED
      BY <2>1, <2>2 DEF GrantConsistent
  <1>11. ApprovalPart'
    BY <1>7, <1>8, <1>9, <1>10 DEF ApprovalPart
  <1>12. device[r].token = None
    BY <1>0, <1>1, <1>q DEF ExchangePart, DevicesKnow
  <1>13. ExchangesKnow'
    <2>1. ASSUME NEW d \in Call, d # c, call'[d] # Idle
          PROVE  (/\ Granted(call[d].request, call[d].token)
                  /\ call[d].step = "answer" =>
                        request[call[d].request].consumed
                        /\ device[call[d].request].token = None)'
      <3>1. call[d].request \in Request /\ call'[d] = call[d]
        BY <1>0, <1>1, <1>q, <2>1, ExchangeShape
      <3>2. request[call[d].request].consumed => request'[call[d].request].consumed
        BY <1>1, <1>q, <3>1
      <3> QED
        BY <1>0, <1>2, <1>5, <2>1, <3>1, <3>2, ExchangeStep1 DEF ExchangePart
    <2>2. Granted(r, call[c].token)'
      BY <1>1, <1>q, <1>2, <1>4 DEF Granted
    <2> QED
      BY <1>1, <1>q, <1>2, <1>12, <2>1, <2>2 DEF ExchangesKnow
  <1>14. OneAnswer'
    <2>1. ASSUME NEW d \in Call, d # c, Answers(d, r)'
          PROVE  FALSE
      <3>1. call[d].step = "answer" /\ call[d].request = r /\ call[d] # Idle
        BY <1>0, <1>1, <1>q, <2>1, ExchangeShape DEF Answers
      <3> QED
        BY <1>0, <1>1, <1>q, <2>1, <3>1 DEF ExchangePart, ExchangesKnow
    <2> QED
      BY <1>0, <1>1, <1>q, <2>1 DEF ExchangePart, OneAnswer, Answers
  <1>15. DevicesKnow'
    BY <1>0, <1>1, <1>q, <1>2, <1>4, <1>5, DeviceStep DEF ExchangePart, DevicesKnow
  <1>16. MachinePart'
    BY <1>0, <1>2, <1>5, MachinePartStays
  <1> QED
    BY <1>3, <1>5, <1>11, <1>13, <1>14, <1>15, <1>16
       DEF SetupInv, ApprovalPart, ExchangePart, MachinePart

\* A step of one device that keeps what devices know.
LEMMA DeviceMoves ==
    ASSUME SetupInv, NEW r \in Request, device' \in [Request -> Device],
           \A q \in Request : q # r => device'[q] = device[q],
           device'[r].token = device[r].token,
           device[r].state \notin {"off", "ready"},
           device'[r].state \in {"storing", "ready", "over"},
           device'[r].state # "over" => device[r].token # None,
           UNCHANGED <<request, member, project, token, handler, call>>
    PROVE  TypeOK /\ GrantsStay /\ ApprovalPart' /\ ExchangePart'
  <1>0. TypeOK /\ ApprovalPart /\ ExchangePart /\ MachinePart
    BY Parts
  <1>1. GrantsStay
    BY <1>0, NothingLost
  <1>2. ApprovalPart'
    BY <1>0, ApprovalPartSame
  <1>3. \A q \in Request : device'[q].token = device[q].token
    OBVIOUS
  <1>4. ExchangesKnow'
    <2>1. ASSUME NEW c \in Call, call[c] # Idle
          PROVE  (/\ Granted(call[c].request, call[c].token)
                  /\ call[c].step = "answer" =>
                        request[call[c].request].consumed
                        /\ device[call[c].request].token = None)'
      BY <1>0, <1>3, <2>1, ExchangeShape DEF ExchangePart, ExchangesKnow, Granted, Approved,
         Known, GrantKey
    <2> QED
      BY <2>1 DEF ExchangesKnow
  <1>5. OneAnswer'
    BY <1>0 DEF ExchangePart, OneAnswer, Answers
  <1>6. DevicesKnow'
    <2>1. ASSUME NEW q \in Request
          PROVE  (/\ device[q].state \in {"off", "waiting"} => device[q].token = None
                  /\ device[q].state \in {"got", "storing", "ready"} => device[q].token # None
                  /\ device[q].state = "off" <=> ~Known(q)
                  /\ device[q].token # None => Granted(q, device[q].token) /\ request[q].consumed)'
      <3>1. device[q].token # None => Granted(q, device[q].token) /\ request[q].consumed
        BY <1>0 DEF ExchangePart, DevicesKnow
      <3>2. (device[q].token # None => Granted(q, device[q].token) /\ request[q].consumed)'
        BY <1>3, <3>1 DEF Granted, Approved, Known, GrantKey
      <3> QED
        BY <1>0, <3>2 DEF ExchangePart, DevicesKnow, Known
    <2> QED
      BY <2>1 DEF DevicesKnow
  <1> QED
    BY <1>0, <1>1, <1>2, <1>4, <1>5, <1>6 DEF ExchangePart

LEMMA ReadFileInv ==
    ASSUME SetupInv, NEW r \in Request, ReadFile(r)
    PROVE  SetupInv'
  <1>0. TypeOK /\ MachinePart
    BY Parts
  <1>1. /\ device' = [device EXCEPT ![r].state = "storing", ![r].copy = file]
        /\ UNCHANGED <<request, member, project, token, handler, call, file>>
        /\ device[r].state = "got"
    BY DEF ReadFile
  <1>2. device[r].token # None
    BY <1>1 DEF SetupInv, DevicesKnow
  <1>3. /\ \A q \in Request : q # r => device'[q] = device[q]
        /\ device'[r].state = "storing" /\ device'[r].token = device[r].token
        /\ device'[r].copy = file
        /\ device' \in [Request -> Device]
    BY <1>0, <1>1 DEF TypeOK, Device
  <1>4. GrantsStay /\ ApprovalPart' /\ ExchangePart'
    BY <1>1, <1>2, <1>3, DeviceMoves
  <1>5. MachinePart'
    BY <1>0, <1>1, <1>3, <1>4, MachinePartStays
  <1>6. TypeOK'
    BY <1>0, <1>1, <1>3 DEF TypeOK
  <1> QED
    BY <1>4, <1>5, <1>6 DEF SetupInv, ApprovalPart, ExchangePart, MachinePart

LEMMA WriteFileInv ==
    ASSUME SetupInv, NEW r \in Request, WriteFile(r)
    PROVE  SetupInv'
  <1>0. TypeOK /\ ExchangePart /\ MachinePart
    BY Parts
  <1>1. /\ device' = [device EXCEPT ![r].state = "ready", ![r].copy = NoFile]
        /\ file' = Stored(r)
        /\ UNCHANGED <<request, member, project, token, handler, call>>
        /\ device[r].state = "storing"
    BY DEF WriteFile
  <1>2. device[r].token # None /\ Known(r)
    BY <1>0, <1>1 DEF ExchangePart, DevicesKnow
  <1>3. NoFile \in File
    BY DEF NoFile, File
  <1>4. /\ \A q \in Request : q # r => device'[q] = device[q]
        /\ device'[r].state = "ready" /\ device'[r].token = device[r].token
        /\ device'[r].copy = NoFile
        /\ device' \in [Request -> Device]
    BY <1>0, <1>1, <1>3 DEF TypeOK, Device
  <1>5. GrantsStay /\ ApprovalPart' /\ ExchangePart'
    BY <1>1, <1>2, <1>4, DeviceMoves
  <1>6. /\ device[r].copy \in File /\ device[r].token \in Token \cup {None}
        /\ request[r].slug \in Slug
    BY <1>0, <1>2, RowShape DEF TypeOK, Device, Row
  <1>7. /\ file' \in File
        /\ file'[request[r].slug] = device[r].token
        /\ \A s \in Slug : s # request[r].slug => file'[s] = device[r].copy[s]
    BY <1>1, <1>6 DEF Stored, File
  <1>8. TypeOK'
    BY <1>0, <1>1, <1>4, <1>7 DEF TypeOK
  <1>9. Handed(file)'
    BY <1>0, <1>1, <1>2, <1>4, <1>7 DEF MachinePart, Handed, Known
  <1>10. ASSUME NEW q \in Request
         PROVE  Handed(device[q].copy)'
    <2>1. CASE q = r
      BY <1>4, <2>1 DEF Handed, NoFile
    <2>2. CASE q # r
      BY <1>0, <1>1, <1>4, <2>2 DEF MachinePart, Handed, Known
    <2> QED
      BY <2>1, <2>2
  <1> QED
    BY <1>5, <1>8, <1>9, <1>10 DEF SetupInv, ApprovalPart, ExchangePart

LEMMA GiveUpInv ==
    ASSUME SetupInv, NEW r \in Request, GiveUp(r)
    PROVE  SetupInv'
  <1>0. TypeOK /\ MachinePart
    BY Parts
  <1>1. /\ device' = [device EXCEPT ![r].state = "over", ![r].copy = NoFile]
        /\ UNCHANGED <<request, member, project, token, handler, call, file>>
        /\ device[r].state \in {"waiting", "got", "storing"}
    BY DEF GiveUp
  <1>2. NoFile \in File
    BY DEF NoFile, File
  <1>3. /\ \A q \in Request : q # r => device'[q] = device[q]
        /\ device'[r].state = "over" /\ device'[r].token = device[r].token
        /\ device'[r].copy = NoFile
        /\ device' \in [Request -> Device]
    BY <1>0, <1>1, <1>2 DEF TypeOK, Device
  <1>4. GrantsStay /\ ApprovalPart' /\ ExchangePart'
    BY <1>1, <1>3, DeviceMoves
  <1>5. MachinePart'
    BY <1>0, <1>1, <1>3, <1>4, MachinePartStays
  <1>6. TypeOK'
    BY <1>0, <1>1, <1>3 DEF TypeOK
  <1> QED
    BY <1>4, <1>5, <1>6 DEF SetupInv, ApprovalPart, ExchangePart, MachinePart

\* How a device gets its answer.
LEMMA ReceiveShape ==
    ASSUME SetupInv, NEW c \in Call, Receive(c), NEW r \in Request, r = call[c].request
    PROVE  /\ call[c].step = "answer" /\ call[c] # Idle /\ call[c].token \in Token
           /\ Granted(r, call[c].token)
           /\ device[r].state = "waiting" /\ device[r].token = None
           /\ device'[r].state = "got" /\ device'[r].token = call[c].token
           /\ device'[r].copy = device[r].copy
           /\ device' \in [Request -> Device]
           /\ call' = [call EXCEPT ![c] = Idle]
           /\ call'[c] = Idle
  <1>0. TypeOK
    BY DEF SetupInv
  <1>1. call[c] # Idle /\ call[c].step = "answer" /\ call[c].token \in Token
    BY <1>0, ExchangeShape DEF Receive
  <1>2. Granted(r, call[c].token) /\ device[r].token = None
    BY <1>1 DEF SetupInv, ExchangesKnow
  <1>3. /\ device[r].state = "waiting"
        /\ device' = [device EXCEPT ![r].state = "got", ![r].token = call[c].token]
        /\ call' = [call EXCEPT ![c] = Idle]
    BY DEF Receive, Turns
  <1>4. /\ device'[r].state = "got" /\ device'[r].token = call[c].token
        /\ device'[r].copy = device[r].copy
        /\ device' \in [Request -> Device]
    BY <1>0, <1>1, <1>3 DEF TypeOK, Device
  <1>5. call'[c] = Idle
    BY <1>0, <1>3 DEF TypeOK
  <1> QED
    BY <1>1, <1>2, <1>3, <1>4, <1>5

LEMMA ReceiveInv ==
    ASSUME SetupInv, NEW c \in Call, Receive(c)
    PROVE  SetupInv'
  <1>0. TypeOK /\ ApprovalPart /\ ExchangePart /\ MachinePart
    BY Parts
  <1>r. PICK r \in Request : r = call[c].request
    BY <1>0, ExchangeShape DEF Receive
  <1>1. /\ call[c].step = "answer" /\ call[c] # Idle /\ call[c].token \in Token
        /\ Granted(r, call[c].token)
        /\ device[r].state = "waiting" /\ device[r].token = None
        /\ device'[r].state = "got" /\ device'[r].token = call[c].token
        /\ device'[r].copy = device[r].copy
        /\ device' \in [Request -> Device]
        /\ call' = [call EXCEPT ![c] = Idle]
        /\ call'[c] = Idle
    BY <1>r, ReceiveShape
  <1>2. /\ \A q \in Request : q # r => device'[q] = device[q]
        /\ \A d \in Call : d # c => call'[d] = call[d]
        /\ UNCHANGED <<request, member, project, token, handler, file>>
    BY <1>0, <1>r DEF TypeOK, Receive, Turns
  <1>3. TypeOK'
    BY <1>0, <1>1, <1>2 DEF TypeOK, Exchange
  <1>4. GrantsStay
    BY <1>0, <1>2, NothingLost
  <1>5. ApprovalPart'
    BY <1>0, <1>2, ApprovalPartSame
  <1>6. request[r].consumed
    BY <1>0, <1>1, <1>r DEF ExchangePart, ExchangesKnow
  <1>7. \A q \in Request, t \in Token : Granted(q, t)' <=> Granted(q, t)
    BY <1>2 DEF Granted, Approved, Known, GrantKey
  <1>8. ExchangesKnow'
    <2>1. ASSUME NEW d \in Call, call'[d] # Idle
          PROVE  (/\ Granted(call[d].request, call[d].token)
                  /\ call[d].step = "answer" =>
                        request[call[d].request].consumed
                        /\ device[call[d].request].token = None)'
      <3>1. d # c /\ call'[d] = call[d]
        BY <1>1, <1>2, <2>1
      <3>2. call[d].request \in Request /\ call[d].token \in Token
        BY <1>0, <2>1, <3>1, ExchangeShape
      <3>3. call[d].step = "answer" => call[d].request # r
        BY <1>0, <1>1, <1>r, <3>1 DEF ExchangePart, OneAnswer, Answers
      <3>4. Granted(call[d].request, call[d].token)
        BY <1>0, <2>1, <3>1 DEF ExchangePart, ExchangesKnow
      <3>5. Granted(call[d].request, call[d].token)'
        BY <1>2, <3>1, <3>4 DEF Granted, Approved, Known, GrantKey
      <3> QED
        BY <1>0, <1>2, <2>1, <3>1, <3>2, <3>3, <3>5 DEF ExchangePart, ExchangesKnow
    <2> QED
      BY <2>1 DEF ExchangesKnow
  <1>9. OneAnswer'
    BY <1>0, <1>1, <1>2 DEF ExchangePart, OneAnswer, Answers, Idle
  <1>10. DevicesKnow'
    <2>1. ASSUME NEW q \in Request, q # r
          PROVE  (/\ device[q].state \in {"off", "waiting"} => device[q].token = None
                  /\ device[q].state \in {"got", "storing", "ready"} => device[q].token # None
                  /\ device[q].state = "off" <=> ~Known(q)
                  /\ device[q].token # None => Granted(q, device[q].token) /\ request[q].consumed)'
      BY <1>0, <1>2, <1>4, <2>1, DeviceStep DEF ExchangePart, Known
    <2>2. /\ device'[r].token # None
          /\ Known(r)'
          /\ Granted(r, device[r].token)'
      BY <1>1, <1>2, Nones DEF Granted, Approved, Known, GrantKey
    <2> QED
      BY <1>1, <1>2, <1>6, <2>1, <2>2 DEF DevicesKnow
  <1>11. MachinePart'
    BY <1>0, <1>1, <1>2, <1>4, MachinePartStays
  <1> QED
    BY <1>3, <1>5, <1>8, <1>9, <1>10, <1>11
       DEF SetupInv, ApprovalPart, ExchangePart, MachinePart

-----------------------------------------------------------------------------
(* Theorems *)

LEMMA InitInv == Init => SetupInv
  <1> SUFFICES ASSUME Init PROVE SetupInv
    OBVIOUS
  <1>1. TypeOK
    BY MembersArePairs DEF Init, TypeOK, Place, Approval, Exchange, Device, Off, NoFile, File
  <1>2. \A r \in Request : ~Known(r) /\ ~Approved(r) /\ device[r] = Off
    BY DEF Init, Known, Approved
  <1> QED
    BY <1>1, <1>2 DEF Init, SetupInv, OneTokenPerKey, ApprovalsKnow, NothingBeforeApproval,
       GrantConsistent, ExchangesKnow, OneAnswer, Answers, Idle, DevicesKnow, Handed, Off, NoFile

LEMMA StepInv == SetupInv /\ [Next]_vars => SetupInv'
  <1> SUFFICES ASSUME SetupInv, [Next]_vars PROVE SetupInv'
    OBVIOUS
  <1>1. CASE ApprovalStep
    BY <1>1, LookUpInv, CreateWorkspaceInv, FindProjectInv, CreateProjectInv, IssueTokenInv,
       ApproveInv, LeaveInv DEF ApprovalStep
  <1>2. CASE ExchangeStep
    BY <1>2, ReadCredentialInv, ConsumeInv, LoseExchangeInv, ReceiveInv DEF ExchangeStep
  <1>3. CASE MachineStep
    BY <1>3, StartSetupInv, ExpireInv, ReadFileInv, WriteFileInv, GiveUpInv DEF MachineStep
  <1>4. CASE UNCHANGED vars
    BY <1>4 DEF vars, SetupInv, TypeOK, OneTokenPerKey, ApprovalsKnow, Knows,
       NothingBeforeApproval, GrantConsistent, Credential, GrantKey, Approved, Known,
       ProjectOf, ExchangesKnow, Granted, OneAnswer, Answers, DevicesKnow, Handed
  <1> QED
    BY <1>1, <1>2, <1>3, <1>4 DEF Next

\* Rows, tokens, approvals, exchanges and devices of the device flow agree in
\* every reachable state.
THEOREM SetupInvariance == Spec => []SetupInv
  BY InitInv, StepInv, PTL DEF Spec

\* What an approved request says of its approval belongs together.
THEOREM GrantsConsistent == Spec => []GrantConsistent
  <1>1. SetupInv => GrantConsistent
    BY DEF SetupInv
  <1> QED
    BY <1>1, SetupInvariance, PTL

\* Under a slug the credentials file has the token of the approval that a setup
\* of that slug was granted.
THEOREM FilesHoldHanded == Spec => []FileHoldsHanded
  <1>1. SetupInv => FileHoldsHanded
    <2> SUFFICES ASSUME SetupInv, NEW s \in Slug, file[s] # None
                 PROVE  LET key == token[file[s]]
                        IN  /\ key # None
                            /\ device[key.request].token = file[s]
                            /\ request[key.request].grant =
                                  [person |-> key.person, place |-> key.place, slug |-> s]
                            /\ request[key.request].slug = s
      BY DEF FileHoldsHanded
    <2>1. PICK q \in Request : Known(q) /\ request[q].slug = s /\ device[q].token = file[s]
      BY DEF SetupInv, Handed
    <2>2. Approved(q) /\ token[file[s]] = GrantKey(q)
      BY <2>1 DEF SetupInv, DevicesKnow, Granted
    <2>3. request[q].grant \in Grant /\ request[q].grant.slug = s
      BY <2>1, <2>2, RowShape DEF SetupInv, GrantConsistent
    <2>4. request[q].grant
            = [person |-> request[q].grant.person, place |-> request[q].grant.place, slug |-> s]
      BY <2>3 DEF Grant
    <2>5. GrantKey(q) # None
      BY <2>2, KeysAreKeys DEF SetupInv
    <2>6. /\ GrantKey(q).request = q
          /\ GrantKey(q).person = request[q].grant.person
          /\ GrantKey(q).place = request[q].grant.place
      BY DEF GrantKey
    <2> QED
      BY <2>1, <2>2, <2>4, <2>5, <2>6
  <1> QED
    BY <1>1, SetupInvariance, PTL

-----------------------------------------------------------------------------
(* Refinement *)

HandoutVars == <<GrantedTo, Sealed, InTransit, AtDevice>>

LEMMA InitHandout == Init => Handout!Init
  <1> SUFFICES ASSUME Init PROVE Handout!Init
    OBVIOUS
  <1>1. \A r \in Request : ~Known(r) /\ ~Approved(r) /\ device[r].token = None
    BY DEF Init, Known, Approved, Off
  <1>2. \A c \in Call, r \in Request : ~Answers(c, r)
    BY DEF Init, Answers, Idle
  <1> QED
    BY <1>1, <1>2, Nones DEF Handout!Init, GrantedTo, Sealed, InTransit, AtDevice

\* Where tokens, rows, answers and devices stay, so do credentials.
LEMMA Unmoved ==
    /\ UNCHANGED <<request, token>> => UNCHANGED <<GrantedTo, Sealed>>
    /\ UNCHANGED call => UNCHANGED InTransit
    /\ UNCHANGED device => UNCHANGED AtDevice
  BY DEF GrantedTo, Sealed, InTransit, AtDevice, Approved, Known, GrantKey, Answers

LEMMA CredentialMaps ==
    /\ GrantedTo = [r \in Request |-> GrantedTo[r]] /\ GrantedTo' = [r \in Request |-> GrantedTo'[r]]
    /\ Sealed = [r \in Request |-> Sealed[r]] /\ Sealed' = [r \in Request |-> Sealed'[r]]
    /\ InTransit = [r \in Request |-> InTransit[r]] /\ InTransit' = [r \in Request |-> InTransit'[r]]
  BY DEF GrantedTo, Sealed, InTransit

LEMMA HandlersHandout ==
    ASSUME SetupInv, NEW h \in Handler,
           \/ \E r \in Request, p \in Person, w \in Place \cup {None} : LookUp(h, r, p, w)
           \/ CreateWorkspace(h) \/ FindProject(h) \/ CreateProject(h) \/ Leave(h)
    PROVE  UNCHANGED HandoutVars
  BY Unmoved DEF HandoutVars, LookUp, CreateWorkspace, FindProject, CreateProject, Leave

LEMMA IssueTokenHandout ==
    ASSUME SetupInv, NEW h \in Handler, IssueToken(h)
    PROVE  UNCHANGED HandoutVars
  <1>1. UNCHANGED <<request, call, device>>
    BY DEF IssueToken
  <1>2. GrantsStay /\ TokensStayUnique
    BY IssueTokenInv
  <1>3. ASSUME NEW r \in Request, Approved(r), NEW t \in Token
        PROVE  token'[t] = GrantKey(r) <=> token[t] = GrantKey(r)
    <2>1. PICK u \in Token : token[u] = GrantKey(r)
      BY <1>3 DEF SetupInv, GrantConsistent, Credential
    <2>2. GrantKey(r) # None
      BY <1>3, KeysAreKeys DEF SetupInv
    <2> QED
      BY <1>2, <2>1, <2>2 DEF GrantsStay, TokensStayUnique
  <1>4. GrantedTo' = GrantedTo
    BY <1>1, <1>3 DEF GrantedTo, Approved, Known, GrantKey
  <1>5. Sealed' = Sealed
    BY <1>1 DEF Sealed, Known
  <1> QED
    BY <1>1, <1>4, <1>5, Unmoved DEF HandoutVars

LEMMA ApproveHandout ==
    ASSUME SetupInv, NEW h \in Handler, ApproveSetupRequest(h)
    PROVE  Handout!Next
  <1>x. PICK x : x = handler[h]
    OBVIOUS
  <1> DEFINE q == x.request
  <1>0. TypeOK
    BY DEF SetupInv
  <1>1. /\ x \in [step : {"approve"}, request : Request, person : Person,
                  place : Place, token : Token]
        /\ Knows(x)
        /\ request[q] \in Row
        /\ ~Approved(q)
        /\ request'[q] = [slug |-> request[q].slug,
                          grant |-> [person |-> x.person, place |-> x.place,
                                     slug |-> request[q].slug],
                          sealed |-> x.token, consumed |-> FALSE,
                          expired |-> request[q].expired]
        /\ request'[q].grant # NoGrant
        /\ \A r \in Request : r # q => request'[r] = request[r]
    BY <1>x, SealShape
  <1>2. q \in Request /\ x.token \in Token /\ x.step = "approve"
    BY <1>1
  <1>3. UNCHANGED <<token, call, device>>
    BY DEF ApproveSetupRequest
  <1>4. /\ Known(q) /\ Known(q)' /\ Approved(q)' /\ GrantKey(q)' = KeyOf(x)
        /\ request'[q].sealed = x.token
    <2>1. request'[q].slug # None /\ request[q].slug # None
      BY <1>1, Nones DEF Row
    <2> QED
      BY <1>1, <2>1 DEF Known, NoRow, Approved, GrantKey, KeyOf
  <1>5. token[x.token] = KeyOf(x)
    BY <1>1, <1>2 DEF Knows
  <1> HIDE DEF q
  <1>6. GrantedTo[q] = {} /\ GrantedTo \in [Request -> SUBSET Token]
    BY <1>1, <1>2 DEF GrantedTo
  <1>7. {t \in Token : token'[t] = GrantKey(q)'} = {x.token}
    <2>1. KeyOf(x) # None
      BY <1>1, KeysAreKeys DEF KeyOf, Key, q
    <2> QED
      BY <1>2, <1>3, <1>4, <1>5, <2>1 DEF SetupInv, OneTokenPerKey
  <1>8. GrantedTo' = [GrantedTo EXCEPT ![q] = {x.token}]
    <2>1. \A r \in Request : GrantedTo'[r] = IF r = q THEN {x.token} ELSE GrantedTo[r]
      BY <1>1, <1>3, <1>4, <1>7 DEF GrantedTo, Approved, Known, GrantKey
    <2>2. GrantedTo' \in [Request -> SUBSET Token]
      BY DEF GrantedTo
    <2> HIDE DEF GrantedTo
    <2> QED
      BY <1>2, <1>6, <2>1, <2>2
  <1>9. \A r \in Request : x.token \notin GrantedTo[r]
    <2>1. ASSUME NEW r \in Request, x.token \in GrantedTo[r]
          PROVE  FALSE
      <3>1. Approved(r) /\ token[x.token] = GrantKey(r)
        BY <2>1 DEF GrantedTo
      <3>2. r = q
        BY <1>5, <3>1 DEF GrantKey, KeyOf, q
      <3> QED
        BY <1>1, <3>1, <3>2
    <2> QED
      BY <2>1
  <1>10. Sealed' = [Sealed EXCEPT ![q] = {x.token}]
    <2>1. Sealed'[q] = {x.token}
      BY <1>2, <1>4 DEF Sealed
    <2>2. \A r \in Request : r # q => Sealed'[r] = Sealed[r]
      BY <1>1 DEF Sealed, Known
    <2> QED
      BY <2>1, <2>2, CredentialMaps
  <1>11. Handout!Grant(q, x.token)
    <2>1. UNCHANGED <<InTransit, AtDevice>>
      BY <1>3, Unmoved
    <2> QED
      BY <1>6, <1>8, <1>9, <1>10, <2>1 DEF Handout!Grant
  <1> QED
    BY <1>2, <1>11 DEF Handout!Next

LEMMA ExchangesHandout ==
    ASSUME SetupInv, NEW c \in Call
    PROVE  /\ \A r \in Request : ReadCredential(c, r) => UNCHANGED HandoutVars
           /\ LoseExchange(c) => Handout!Next \/ UNCHANGED HandoutVars
  <1>0. TypeOK
    BY DEF SetupInv
  <1>1. ASSUME NEW r \in Request, ReadCredential(c, r)
        PROVE  UNCHANGED HandoutVars
    <2>1. UNCHANGED <<request, token, device>> /\ call[c] = Idle
      BY <1>1 DEF ReadCredential
    <2>2. call'[c].step = "consume" /\ \A d \in Call : d # c => call'[d] = call[d]
      BY <1>0, <1>1 DEF TypeOK, ReadCredential, Turns
    <2>3. InTransit' = InTransit
      BY <2>1, <2>2 DEF InTransit, Answers, Idle
    <2> QED
      BY <2>1, <2>3, Unmoved DEF HandoutVars
  <1>2. ASSUME LoseExchange(c)
        PROVE  Handout!Next \/ UNCHANGED HandoutVars
    <2>1. UNCHANGED <<request, token, device>> /\ call[c] # Idle
      BY <1>2 DEF LoseExchange
    <2>2. call'[c] = Idle /\ \A d \in Call : d # c => call'[d] = call[d]
      BY <1>0, <1>2 DEF TypeOK, LoseExchange, Turns
    <2>3. UNCHANGED <<GrantedTo, Sealed, AtDevice>>
      BY <2>1, Unmoved
    <2>4. CASE call[c].step = "consume"
      <3>1. InTransit' = InTransit
        BY <2>2, <2>4 DEF InTransit, Answers, Idle
      <3> QED
        BY <2>3, <3>1 DEF HandoutVars
    <2>5. CASE call[c].step = "answer"
      <3>r. PICK r \in Request : r = call[c].request
        BY <1>0, <2>1, ExchangeShape
      <3>1. call[c].token \in Token /\ Answers(c, r)
        BY <1>0, <2>1, <2>5, <3>r, ExchangeShape DEF Answers
      <3>2. InTransit[r] # {}
        BY <3>1 DEF InTransit
      <3>3. \A d \in Call : ~Answers(d, r)'
        BY <2>2, <3>1 DEF SetupInv, OneAnswer, Answers, Idle
      <3>4. \A d \in Call, q \in Request : q # r =>
                /\ Answers(d, q)' <=> Answers(d, q)
                /\ Answers(d, q) => call'[d] = call[d]
        BY <2>2, <3>1 DEF Answers, Idle
      <3>5. InTransit' = [InTransit EXCEPT ![r] = {}]
        BY <3>3, <3>4 DEF InTransit
      <3> QED
        BY <2>3, <3>2, <3>5 DEF Handout!Next, Handout!Lose
    <2> QED
      BY <1>0, <2>1, <2>4, <2>5, ExchangeShape
  <1> QED
    BY <1>1, <1>2

LEMMA ConsumeHandout ==
    ASSUME SetupInv, NEW c \in Call, Consume(c)
    PROVE  Handout!Next
  <1>0. TypeOK
    BY DEF SetupInv
  <1>r. PICK r \in Request : r = call[c].request
    BY <1>0, ExchangeShape DEF Consume
  <1>1. /\ call[c].step = "consume" /\ call[c] # Idle
        /\ call[c].token \in Token
        /\ Granted(r, call[c].token)
        /\ request[r].sealed = call[c].token
        /\ Approved(r)' /\ GrantKey(r)' = GrantKey(r)
        /\ request'[r].sealed = None
        /\ call'[c].step = "answer" /\ call'[c].request = r /\ call'[c].token = call[c].token
    BY <1>r, TakeShape
  <1>2. /\ \A q \in Request : q # r => request'[q] = request[q]
        /\ \A d \in Call : d # c => call'[d] = call[d]
        /\ UNCHANGED <<token, device>>
    BY <1>0, <1>r DEF Consume, Take, Turns, TypeOK
  <1>3. Known(r) /\ Known(r)' /\ Approved(r)
    BY <1>1 DEF Granted, Approved
  <1>4. GrantedTo' = GrantedTo
    <2>1. GrantedTo'[r] = GrantedTo[r]
      BY <1>1, <1>2, <1>3 DEF GrantedTo
    <2>2. \A q \in Request : q # r => GrantedTo'[q] = GrantedTo[q]
      BY <1>2 DEF GrantedTo, Approved, Known, GrantKey
    <2> QED
      BY <2>1, <2>2, CredentialMaps
  <1>5. Sealed[r] = {call[c].token}
    BY <1>1, <1>3 DEF Sealed
  <1>6. Sealed' = [Sealed EXCEPT ![r] = {}]
    <2>1. Sealed'[r] = {}
      BY <1>1, <1>3, Nones DEF Sealed
    <2>2. \A q \in Request : q # r => Sealed'[q] = Sealed[q]
      BY <1>2 DEF Sealed, Known
    <2> QED
      BY <2>1, <2>2, CredentialMaps
  <1>7. \A d \in Call : Answers(d, r)' <=> d = c
    <2>1. ASSUME NEW d \in Call, Answers(d, r)
          PROVE  FALSE
      <3>1. call[d] # Idle /\ request[r].consumed
        BY <1>0, <2>1, ExchangeShape DEF Answers, SetupInv, ExchangesKnow
      <3> QED
        BY <1>r, <3>1 DEF Consume, NotTaken
    <2> QED
      BY <1>1, <1>2, <2>1 DEF Answers
  <1>8. \A d \in Call, q \in Request : q # r =>
            /\ Answers(d, q)' <=> Answers(d, q)
            /\ Answers(d, q) => call'[d] = call[d]
    BY <1>1, <1>2 DEF Answers
  <1>9. InTransit' = [InTransit EXCEPT ![r] = Sealed[r]]
    <2>1. InTransit'[r] = {call[c].token}
      BY <1>1, <1>7 DEF InTransit
    <2>2. \A q \in Request : q # r => InTransit'[q] = InTransit[q]
      BY <1>8 DEF InTransit
    <2> QED
      BY <1>5, <2>1, <2>2, CredentialMaps
  <1>10. AtDevice' = AtDevice
    BY <1>2, Unmoved
  <1> QED
    BY <1>4, <1>5, <1>6, <1>9, <1>10 DEF Handout!Next, Handout!Release

LEMMA ReceiveHandout ==
    ASSUME SetupInv, NEW c \in Call, Receive(c)
    PROVE  Handout!Next
  <1>0. TypeOK
    BY DEF SetupInv
  <1>r. PICK r \in Request : r = call[c].request
    BY <1>0, ExchangeShape DEF Receive
  <1>1. /\ call[c].step = "answer" /\ call[c] # Idle /\ call[c].token \in Token
        /\ device'[r].token = call[c].token
        /\ call'[c] = Idle
    BY <1>r, ReceiveShape
  <1>2. /\ \A q \in Request : q # r => device'[q] = device[q]
        /\ \A d \in Call : d # c => call'[d] = call[d]
        /\ UNCHANGED <<request, token>>
    BY <1>0, <1>r DEF TypeOK, Receive, Turns
  <1>3. Answers(c, r)
    BY <1>1, <1>r DEF Answers
  <1>4. \A d \in Call : Answers(d, r) <=> d = c
    BY <1>3 DEF SetupInv, OneAnswer
  <1>5. InTransit[r] = {call[c].token}
    BY <1>1, <1>4 DEF InTransit
  <1>6. \A d \in Call : ~Answers(d, r)'
    BY <1>1, <1>2, <1>4 DEF Answers, Idle
  <1>7. \A d \in Call, q \in Request : q # r =>
            /\ Answers(d, q)' <=> Answers(d, q)
            /\ Answers(d, q) => call'[d] = call[d]
    BY <1>1, <1>2, <1>3 DEF Answers, Idle
  <1>8. InTransit' = [InTransit EXCEPT ![r] = {}]
    BY <1>6, <1>7 DEF InTransit
  <1>9. AtDevice' = [AtDevice EXCEPT ![r] = InTransit[r]]
    BY <1>1, <1>2, <1>5 DEF AtDevice
  <1>10. UNCHANGED <<GrantedTo, Sealed>>
    BY <1>2, Unmoved
  <1> QED
    BY <1>5, <1>8, <1>9, <1>10 DEF Handout!Next, Handout!Arrive

LEMMA MachineHandout ==
    ASSUME SetupInv, NEW r \in Request,
           \/ \E s \in Slug : StartSetup(r, s)
           \/ Expire(r) \/ ReadFile(r) \/ WriteFile(r) \/ GiveUp(r)
    PROVE  UNCHANGED HandoutVars
  <1>0. TypeOK
    BY DEF SetupInv
  <1>1. ASSUME NEW s \in Slug, StartSetup(r, s)
        PROVE  UNCHANGED HandoutVars
    <2>1. UNCHANGED <<token, call>> /\ ~Known(r)
      BY <1>1 DEF StartSetup
    <2>2. /\ ~Approved(r)' /\ Known(r)' /\ request'[r].sealed = None
          /\ \A q \in Request : q # r => request'[q] = request[q]
          /\ \A q \in Request : device'[q].token = device[q].token
      BY <1>0, <1>1, Nones DEF StartSetup, TypeOK, Device, Known, Approved, NoRow
    <2>3. GrantedTo' = GrantedTo
      BY <2>1, <2>2 DEF GrantedTo, Approved, Known, GrantKey
    <2>4. Sealed' = Sealed
      BY <2>1, <2>2, Nones DEF Sealed, Known
    <2>5. AtDevice' = AtDevice
      BY <2>2 DEF AtDevice
    <2> QED
      BY <2>1, <2>3, <2>4, <2>5, Unmoved DEF HandoutVars
  <1>2. ASSUME Expire(r)
        PROVE  UNCHANGED HandoutVars
    <2>1. UNCHANGED <<token, call, device>> /\ request[r] \in Row
      BY <1>0, <1>2, RowShape DEF Expire
    <2>2. /\ request'[r].slug = request[r].slug
          /\ request'[r].grant = request[r].grant
          /\ request'[r].sealed = request[r].sealed
          /\ \A q \in Request : q # r => request'[q] = request[q]
      BY <1>0, <1>2, <2>1 DEF TypeOK, Row, Expire
    <2>3. \A q \in Request : /\ Known(q)' <=> Known(q)
                             /\ Approved(q)' <=> Approved(q)
                             /\ GrantKey(q)' = GrantKey(q)
      <3>1. Known(r)' /\ Known(r)
        BY <2>1, <2>2, Nones DEF Known, NoRow, Row
      <3> QED
        BY <2>2, <3>1 DEF Known, Approved, GrantKey
    <2>4. GrantedTo' = GrantedTo
      BY <2>1, <2>3 DEF GrantedTo
    <2>5. Sealed' = Sealed
      BY <2>2, <2>3 DEF Sealed
    <2> QED
      BY <2>1, <2>4, <2>5, Unmoved DEF HandoutVars
  <1>3. ASSUME ReadFile(r) \/ WriteFile(r) \/ GiveUp(r)
        PROVE  UNCHANGED HandoutVars
    <2>1. UNCHANGED <<request, token, call>>
      BY <1>3 DEF ReadFile, WriteFile, GiveUp
    <2>2. \A q \in Request : device'[q].token = device[q].token
      BY <1>0, <1>3 DEF TypeOK, Device, ReadFile, WriteFile, GiveUp
    <2>3. AtDevice' = AtDevice
      BY <2>2 DEF AtDevice
    <2> QED
      BY <2>1, <2>3, Unmoved DEF HandoutVars
  <1> QED
    BY <1>1, <1>2, <1>3

\* However approvals race, stop and are retried and answers get lost: a
\* request is granted one credential, which leaves the service once.
THEOREM HandedOutOnce == Spec => ImplementsHandout
  <1>1. SetupInv /\ [Next]_vars => [Handout!Next]_HandoutVars
    <2> SUFFICES ASSUME SetupInv, [Next]_vars
                 PROVE  Handout!Next \/ UNCHANGED HandoutVars
      OBVIOUS
    <2>1. CASE ApprovalStep
      BY <2>1, HandlersHandout, IssueTokenHandout, ApproveHandout DEF ApprovalStep
    <2>2. CASE ExchangeStep
      BY <2>2, ExchangesHandout, ConsumeHandout, ReceiveHandout DEF ExchangeStep
    <2>3. CASE MachineStep
      BY <2>3, MachineHandout DEF MachineStep
    <2>4. CASE UNCHANGED vars
      BY <2>4, Unmoved DEF vars, HandoutVars
    <2> QED
      BY <2>1, <2>2, <2>3, <2>4 DEF Next
  <1> QED
    BY <1>1, InitHandout, SetupInvariance, PTL
       DEF Spec, ImplementsHandout, Handout!Spec, Handout!vars, HandoutVars
=============================================================================
