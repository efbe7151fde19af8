----------------------------- MODULE Preparation -----------------------------
(***************************************************************************)
(* clank-eval prepare-collaboration: a scenario is turned into a world of  *)
(* files, a repository, an isolated project on the server and a credential *)
(* for each lane (evals/cmd/clank-eval/main.go and, under evals/harness,   *)
(* collaboration_prepare.go, seed.go, ledger.go, files.go, repository.go). *)
(*                                                                         *)
(* The command may be killed at every step, lose the reply of a request,   *)
(* fail to write, run again and run twice at once.  A file that is written *)
(* exclusively is there, and cannot be read, before its content is; a      *)
(* crash leaves it so.  Every request names its effect by an idempotency   *)
(* key made from the scenario, so that the server answers a repetition     *)
(* with the effect it had (Mutations).                                     *)
(*                                                                         *)
(* All runs are of one scenario and one corpus.  The checks of the source  *)
(* evidence and of the options come first, change nothing and are left     *)
(* out.                                                                    *)
(***************************************************************************)
EXTENDS Naturals, Sequences, FiniteSets

CONSTANTS
    Preparer,     \* runs of the command that may be under way at once
    Lane,
    Requests,     \* how many requests seed the project; the first creates it
    TokenRequest, \* TokenRequest[l]: the request that issues the token of a lane
    MaxFaults     \* bound on crashes, lost replies and failed writes

ASSUME RequestsPositive == Requests \in Nat \ {0}
ASSUME TokensRequested == TokenRequest \in [Lane -> 1..Requests]
ASSUME LanesFinite == IsFiniteSet(Lane)
\* The actors of the lanes differ (CollaborationScenario.Validate).
ASSUME TokensDiffer == \A l, k \in Lane : TokenRequest[l] = TokenRequest[k] => l = k
ASSUME LanesAreNoFiles == Lane \cap {"scenario", "prepared"} = {}
ASSUME FaultsCounted == MaxFaults \in Nat

VARIABLES
    file,         \* scenario.json, prepared.json and lanes/<lane>.json
    repository,   \* the directory repo
    credential,   \* credential[l]: the token in secrets/<lane>.json, 0 for none
    world,        \* what prepared.json says
    receipt,      \* receipt[i]: the effect of the i-th request, 0 for none
    made,         \* the effects on the server, in order: request they are of
    proc,         \* proc[p]: what a run of the command does next and knows
    faults

prepareVars == <<file, repository, credential, world, receipt, made, proc, faults>>

-----------------------------------------------------------------------------
(* Rows *)

File == {"scenario", "prepared"} \cup Lane
FileState == {"absent", "torn", "whole"}

\* injected: the agent context is there, is excluded from git's status, and is
\* not committed.  partial: anything else that is not finished.
RepositoryState == {"absent", "partial", "injected", "committed"}
HeadKind == {"none", "baseline", "context"}

Idle == [step |-> "idle", file |-> "scenario", knows |-> <<>>, left |-> {}, head |-> "none"]
Started == [Idle EXCEPT !.step = "read", !.left = Lane]
Step == {"idle", "read", "open", "fill", "repository", "clone", "inject", "add", "commit",
         "list", "ask", "credential", "store"}

\* knows: the replies so far.  left: lanes that are not finished.
Run == [step : Step, file : File, knows : Seq(Nat), left : SUBSET Lane, head : HeadKind]

World == [head : HeadKind, tokens : [Lane -> Nat]]
NoWorld == [head |-> "none", tokens |-> [l \in Lane |-> 0]]

PreparationTypeOK ==
    /\ file \in [File -> FileState]
    /\ repository \in RepositoryState
    /\ credential \in [Lane -> Nat]
    /\ world \in World
    /\ receipt \in [1..Requests -> Nat]
    /\ made \in Seq(1..Requests)
    /\ proc \in [Preparer -> Run]
    /\ faults \in 0..MaxFaults

PrepareInit ==
    /\ file = [f \in File |-> "absent"]
    /\ repository = "absent"
    /\ credential = [l \in Lane |-> 0]
    /\ world = NoWorld
    /\ receipt = [i \in 1..Requests |-> 0]
    /\ made = <<>>
    /\ proc = [p \in Preparer |-> Idle]
    /\ faults = 0

-----------------------------------------------------------------------------
(* The command *)

Becomes(p, run) == proc' = [proc EXCEPT ![p] = run]
Stop(p) == Becomes(p, Idle)
Goes(p, step) == Becomes(p, [proc[p] EXCEPT !.step = step])
ReadNext(p, f) == Becomes(p, [proc[p] EXCEPT !.step = "read", !.file = f])

\* All requests are answered; only then are lanes finished.
Seeded(p) == Len(proc[p].knows) = Requests

RunCommand(p) ==
    /\ proc[p] = Idle
    /\ Becomes(p, Started)
    /\ UNCHANGED <<file, repository, credential, world, receipt, made, faults>>

\* A prepared.json that is there ends the command, at the start with success
\* and at the end with an error; a file that cannot be read ends it as well.
Settled(f) == file[f] = "torn" \/ (f = "prepared" /\ file[f] = "whole")

\* What comes after a file that is there.
Onward(p) ==
    IF proc[p].file = "scenario" THEN ReadNext(p, "prepared")
    ELSE LET left == proc[p].left \ {proc[p].file}
         IN  Becomes(p, [proc[p] EXCEPT !.left = left, !.file = "prepared",
                                        !.step = IF left = {} THEN "read" ELSE "credential"])

\* createLayout, ReadCollaborationPrepared at the start, writeLaneArtifact and
\* WriteCollaborationPrepared look before they write.
ReadFile(p) ==
    LET f == proc[p].file
    IN  /\ proc[p].step = "read"
        /\ \/ Settled(f) /\ Stop(p)
           \/ f # "prepared" /\ file[f] = "whole" /\ Onward(p)
           \/ /\ file[f] = "absent"
              /\ Goes(p, IF f = "prepared" /\ ~Seeded(p) THEN "repository" ELSE "open")
        /\ UNCHANGED <<file, repository, credential, world, receipt, made, faults>>

\* writeExclusive creates the file, which must not be there ...
OpenFile(p) ==
    LET f == proc[p].file
    IN  /\ proc[p].step = "open"
        /\ IF file[f] = "absent"
           THEN file' = [file EXCEPT ![f] = "torn"] /\ Goes(p, "fill")
           ELSE UNCHANGED file /\ Stop(p)
        /\ UNCHANGED <<repository, credential, world, receipt, made, faults>>

Tokens(p) == [l \in Lane |-> proc[p].knows[TokenRequest[l]]]

\* ... and then writes it.
FillFile(p) ==
    LET f == proc[p].file
    IN  /\ proc[p].step = "fill"
        /\ file' = [file EXCEPT ![f] = "whole"]
        /\ IF f = "prepared"
           THEN world' = [head |-> proc[p].head, tokens |-> Tokens(p)] /\ Stop(p)
           ELSE UNCHANGED world /\ Onward(p)
        /\ UNCHANGED <<repository, credential, receipt, made, faults>>

Fault == faults < MaxFaults /\ faults' = faults + 1

\* A write that fails removes the file again.
FailWrite(p) ==
    /\ proc[p].step = "fill"
    /\ Fault
    /\ file' = [file EXCEPT ![proc[p].file] = "absent"]
    /\ Stop(p)
    /\ UNCHANGED <<repository, credential, world, receipt, made>>

\* The process is killed, or a step fails that leaves nothing to remove.
Crash(p) ==
    /\ proc[p] # Idle
    /\ Fault
    /\ Stop(p)
    /\ UNCHANGED <<file, repository, credential, world, receipt, made>>

-----------------------------------------------------------------------------
(* The repository *)

\* BuildRepository: a directory that is there must pass verifyExistingRepository.
\* It asks for a clean status and for the context's files, not for their commit.
FindRepository(p) ==
    /\ proc[p].step = "repository"
    /\ \/ repository = "absent" /\ Goes(p, "clone")
       \/ repository = "partial" /\ Stop(p)
       \/ /\ repository \in {"injected", "committed"}
          /\ Becomes(p, [proc[p] EXCEPT
                  !.step = "list",
                  !.head = IF repository = "committed" THEN "context" ELSE "baseline"])
    /\ UNCHANGED <<file, repository, credential, world, receipt, made, faults>>

CloneRepository(p) ==
    /\ proc[p].step = "clone"
    /\ IF repository = "absent" THEN repository' = "partial" /\ Goes(p, "inject")
                                ELSE UNCHANGED repository /\ Stop(p)
    /\ UNCHANGED <<file, credential, world, receipt, made, faults>>

\* injectAgentContext ends with the lines of .git/info/exclude.
InjectAgentContext(p) ==
    /\ proc[p].step = "inject"
    /\ repository' = "injected"
    /\ Goes(p, "add")
    /\ UNCHANGED <<file, credential, world, receipt, made, faults>>

\* commitAgentContext: what is staged and not committed is no clean status.
AddAgentContext(p) ==
    /\ proc[p].step = "add"
    /\ repository' = "partial"
    /\ Goes(p, "commit")
    /\ UNCHANGED <<file, credential, world, receipt, made, faults>>

CommitAgentContext(p) ==
    /\ proc[p].step = "commit"
    /\ repository' = "committed"
    /\ Becomes(p, [proc[p] EXCEPT !.step = "list", !.head = "context"])
    /\ UNCHANGED <<file, credential, world, receipt, made, faults>>

-----------------------------------------------------------------------------
(* Seeding *)

\* ensureProject looks for the slug before it asks for the project.
ListProjects(p) ==
    /\ proc[p].step = "list"
    /\ Becomes(p, [proc[p] EXCEPT
            !.step = IF receipt[1] # 0 /\ Requests = 1 THEN "credential" ELSE "ask",
            !.knows = IF receipt[1] # 0 THEN <<receipt[1]>> ELSE <<>>])
    /\ UNCHANGED <<file, repository, credential, world, receipt, made, faults>>

\* Seeded fault: the key is drawn anew, and the server cannot know it.
NeverAnswered(i) == FALSE

Answered(i) == receipt[i] # 0

\* One request of SeedCollaborationScenario.  Later requests are made of the
\* replies to earlier ones.  A reply that does not arrive ends the command.
Ask(p, heard) ==
    LET i == Len(proc[p].knows) + 1
        effect == IF Answered(i) THEN receipt[i] ELSE Len(made) + 1
    IN  /\ proc[p].step = "ask"
        /\ receipt' = [receipt EXCEPT ![i] = effect]
        /\ made' = IF Answered(i) THEN made ELSE Append(made, i)
        /\ IF heard
           THEN /\ Becomes(p, [proc[p] EXCEPT
                        !.knows = Append(@, effect),
                        !.step = IF i = Requests THEN "credential" ELSE "ask"])
                /\ UNCHANGED faults
           ELSE Fault /\ Stop(p)
        /\ UNCHANGED <<file, repository, credential, world>>

-----------------------------------------------------------------------------
(* Lanes *)

\* Seeded fault: a credential that is there is an error, as secrets/actor-tokens.json is.
NothingStored(l, token) == credential[l] = 0

\* storeLaneCredential: a credential that is there must be the one issued.
Agrees(l, token) == credential[l] \in {0, token}

FindCredential(p, l) ==
    LET token == Tokens(p)[l]
    IN  /\ proc[p].step = "credential"
        /\ l \in proc[p].left
        /\ IF Agrees(l, token)
           THEN Becomes(p, [proc[p] EXCEPT !.file = l,
                                !.step = IF credential[l] = token THEN "read" ELSE "store"])
           ELSE Stop(p)
        /\ UNCHANGED <<file, repository, credential, world, receipt, made, faults>>

\* StoreCredential replaces the file in one step.
StoreCredential(p) ==
    LET l == proc[p].file
    IN  /\ proc[p].step = "store"
        /\ credential' = [credential EXCEPT ![l] = Tokens(p)[l]]
        /\ Goes(p, "read")
        /\ UNCHANGED <<file, repository, world, receipt, made, faults>>

-----------------------------------------------------------------------------
FileStep(p) == RunCommand(p) \/ ReadFile(p) \/ OpenFile(p) \/ FillFile(p)

RepositoryStep(p) ==
    \/ FindRepository(p) \/ CloneRepository(p) \/ InjectAgentContext(p)
    \/ AddAgentContext(p) \/ CommitAgentContext(p)

SeedStep(p) ==
    \/ ListProjects(p) \/ Ask(p, TRUE)
    \/ \E l \in Lane : FindCredential(p, l)
    \/ StoreCredential(p)

PrepareStep(p) == FileStep(p) \/ RepositoryStep(p) \/ SeedStep(p)

FaultStep(p) == Ask(p, FALSE) \/ FailWrite(p) \/ Crash(p)

PrepareNext == \E p \in Preparer : PrepareStep(p) \/ FaultStep(p)

PrepareSpec == PrepareInit /\ [][PrepareNext]_prepareVars

\* The command that runs goes on, and one that has ended is run again.
PrepareFairness == \A p \in Preparer : WF_prepareVars(PrepareStep(p))

-----------------------------------------------------------------------------
(* Properties *)

\* However often the command is killed and run again, and though two runs may
\* look for the project before one of them makes it: every request had one
\* effect, and a prepared.json means that all of them had, that each lane's
\* credential is the token issued for it and that the lanes have different
\* ones.
Prepared == file["prepared"] = "whole"

SeededOnce == \A i, j \in 1..Len(made) : made[i] = made[j] => i = j

LaneReady(l) ==
    /\ file[l] = "whole"
    /\ credential[l] # 0
    /\ credential[l] = receipt[TokenRequest[l]]
    /\ world.tokens[l] = credential[l]

PreparedWorld ==
    Prepared =>
        /\ SeededOnce
        /\ \A i \in 1..Requests : \E n \in 1..Len(made) : made[n] = i /\ receipt[i] = n
        /\ \A l \in Lane : LaneReady(l)
        /\ \A l, k \in Lane : credential[l] = credential[k] => l = k

\* "Re-running the command resolves the same frozen prepared artifact without
\* writing a new project or secret" (evals/README.md:63), also while a slower
\* run is still at work.
PreparedFrozen ==
    [][Prepared => UNCHANGED <<file, credential, world, receipt, made>>]_prepareVars

\* A file or directory that was left unfinished, and that no run will finish.
Broken ==
    \/ \E f \in File : /\ file[f] = "torn"
                       /\ \A p \in Preparer : ~(proc[p].step = "fill" /\ proc[p].file = f)
    \/ /\ repository = "partial"
       /\ \A p \in Preparer : proc[p].step \notin {"inject", "commit"}

\* A command that is run again and again prepares the world, whatever it met
\* before, unless a crash left a file torn.
EventuallyPrepared == <>(Prepared \/ Broken)

-----------------------------------------------------------------------------
(* The inductive invariant *)

\* Requests and their effects name each other.
ServerInv ==
    /\ \A i \in 1..Requests : receipt[i] # 0 =>
           receipt[i] \in 1..Len(made) /\ made[receipt[i]] = i
    /\ \A n \in 1..Len(made) : receipt[made[n]] = n
    /\ \A l \in Lane : credential[l] \in {0, receipt[TokenRequest[l]]}

Issued(l) == credential[l] # 0 /\ credential[l] = receipt[TokenRequest[l]]

OnFile(run) == run.step \in {"read", "open", "fill"}

\* What a run of the command has done when it is at its step.
RunInv(run) ==
    /\ Len(run.knows) <= Requests
    /\ \A i \in 1..Len(run.knows) : run.knows[i] = receipt[i] /\ receipt[i] # 0
    /\ run.step = "ask" => Len(run.knows) < Requests
    /\ run.step \in {"credential", "store"} => Len(run.knows) = Requests
    /\ run.step = "store" => run.file \in Lane
    /\ OnFile(run) /\ run.file = "scenario" => Len(run.knows) = 0
    /\ OnFile(run) /\ run.file \in Lane => Len(run.knows) = Requests /\ Issued(run.file)
    /\ OnFile(run) /\ run.file = "prepared" /\ run.step # "read" => Len(run.knows) = Requests
    /\ OnFile(run) /\ run.file = "prepared" /\ Len(run.knows) = Requests => run.left = {}
    /\ run.step # "idle" => \A l \in Lane \ run.left : file[l] = "whole" /\ Issued(l)
    /\ run.step # "idle" /\ ~(OnFile(run) /\ run.file = "scenario") => file["scenario"] = "whole"
    /\ run.step = "fill" => file[run.file] = "torn"

\* Nobody else fills the file.
FillersInv ==
    \A p, q \in Preparer :
        /\ proc[p].step = "fill" /\ proc[q].step = "fill"
        /\ proc[p].file = proc[q].file
        => p = q

EverythingDone ==
    /\ \A i \in 1..Requests : receipt[i] # 0
    /\ file["scenario"] = "whole"
    /\ \A l \in Lane : LaneReady(l)

PreparationInv ==
    /\ PreparationTypeOK
    /\ ServerInv /\ FillersInv
    /\ \A p \in Preparer : RunInv(proc[p])
    /\ Prepared => EverythingDone
=============================================================================
