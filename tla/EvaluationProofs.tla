-------------------------- MODULE EvaluationProofs ---------------------------
(***************************************************************************)
(* Proofs about module Preparation, for any number of runs of the command, *)
(* requests, lanes and faults, and about module Evaluation, which puts the *)
(* preparation and the episode on one ledger directory.                    *)
(***************************************************************************)
EXTENDS Evaluation, CollaborationProofs

-----------------------------------------------------------------------------
(* Runs of the command *)

LEMMA RunFields ==
    ASSUME NEW r \in Run
    PROVE  /\ r.step \in Step /\ r.file \in File /\ r.knows \in Seq(Nat)
           /\ r.left \in SUBSET Lane /\ r.head \in HeadKind
           /\ Len(r.knows) \in Nat
           /\ \A i \in 1..Len(r.knows) : r.knows[i] \in Nat
  <1>1. /\ r.step \in Step /\ r.file \in File /\ r.knows \in Seq(Nat)
        /\ r.left \in SUBSET Lane /\ r.head \in HeadKind
    BY DEF Run
  <1> QED
    BY <1>1

LEMMA IdleRun ==
    /\ Idle \in Run /\ Started \in Run
    /\ Idle.step = "idle"
    /\ Started.step = "read" /\ Started.file = "scenario" /\ Started.left = Lane
    /\ Idle.knows = <<>> /\ Started.knows = <<>>
  <1>1. <<>> \in Seq(Nat) /\ "scenario" \in File /\ {} \in SUBSET Lane /\ "none" \in HeadKind
        /\ "idle" \in Step /\ "read" \in Step /\ Lane \in SUBSET Lane
    BY DEF File, HeadKind, Step
  <1>2. Idle \in Run /\ Idle.step = "idle" /\ Idle.knows = <<>> /\ Idle.file = "scenario"
    BY <1>1 DEF Idle, Run
  <1>3. LET new == [Idle EXCEPT !.step = "read", !.left = Lane]
        IN  /\ new \in Run /\ new.step = "read" /\ new.left = Lane
            /\ new.file = Idle.file /\ new.knows = Idle.knows
    BY <1>1, <1>2 DEF Run
  <1> QED
    BY <1>2, <1>3, Zenon DEF Started

LEMMA FilesDiffer ==
    /\ "scenario" \notin Lane /\ "prepared" \notin Lane /\ "scenario" # "prepared"
    /\ File = {"scenario", "prepared"} \cup Lane
  BY LanesAreNoFiles DEF File

LEMMA TokenTypes ==
    /\ 1 \in 1..Requests
    /\ \A l \in Lane : TokenRequest[l] \in 1..Requests
  BY RequestsPositive, TokensRequested

\* What a run that has all replies takes for the tokens are the tokens.
LEMMA KnownTokens ==
    ASSUME PreparationInv, NEW p \in Preparer, Len(proc[p].knows) = Requests
    PROVE  /\ \A i \in 1..Requests : receipt[i] # 0
           /\ Tokens(p) \in [Lane -> Nat]
           /\ \A l \in Lane : Tokens(p)[l] = receipt[TokenRequest[l]] /\ Tokens(p)[l] # 0
  <1>1. proc[p] \in Run /\ RunInv(proc[p])
    BY DEF PreparationInv, PreparationTypeOK
  <1>2. \A i \in 1..Requests : /\ proc[p].knows[i] \in Nat
                              /\ proc[p].knows[i] = receipt[i] /\ receipt[i] # 0
    BY <1>1, RunFields DEF RunInv
  <1> QED
    BY <1>2, TokenTypes DEF Tokens

-----------------------------------------------------------------------------
(* Steps *)

\* No step takes back an effect, a credential or a file that is whole.
Forward ==
    /\ \A i \in 1..Requests : receipt[i] # 0 => receipt'[i] = receipt[i]
    /\ \A l \in Lane : credential[l] # 0 => credential'[l] = credential[l]
    /\ \A f \in File : file[f] = "whole" => file'[f] = "whole"

LEMMA IssuedStays ==
    ASSUME PreparationTypeOK, Forward, NEW l \in Lane, Issued(l)
    PROVE  Issued(l)'
  BY TokenTypes DEF Forward, Issued

\* A run keeps its part of the invariant through the steps of the others.
LEMMA RunKept ==
    ASSUME PreparationTypeOK, Forward, NEW CONSTANT run \in Run, RunInv(run),
           run.step = "fill" => file'[run.file] = "torn"
    PROVE  RunInv(run)'
  <1>1. \A l \in Lane : Issued(l) => Issued(l)'
    BY IssuedStays
  <1>2. \A i \in 1..Len(run.knows) : run.knows[i] = receipt'[i] /\ receipt'[i] # 0
    <2>1. Len(run.knows) \in Nat /\ Requests \in Nat /\ Len(run.knows) <= Requests
      BY RunFields, RequestsPositive DEF RunInv
    <2>2. \A i \in 1..Len(run.knows) : i \in 1..Requests
      BY <2>1
    <2> QED
      BY <2>2 DEF RunInv, Forward
  <1>3. run.step # "idle" => \A l \in Lane \ run.left : file'[l] = "whole" /\ Issued(l)'
    BY <1>1, FilesDiffer DEF RunInv, Forward
  <1>4. run.step # "idle" /\ ~(OnFile(run) /\ run.file = "scenario")
           => file'["scenario"] = "whole"
    BY FilesDiffer DEF RunInv, Forward
  <1> QED
    BY <1>1, <1>2, <1>3, <1>4 DEF RunInv, OnFile

LEMMA DoneKept ==
    ASSUME PreparationTypeOK, Forward, EverythingDone, world' = world
    PROVE  EverythingDone'
  <1>1. \A l \in Lane : Issued(l)'
    BY IssuedStays DEF EverythingDone, LaneReady, Issued
  <1> QED
    BY <1>1, FilesDiffer, TokenTypes DEF EverythingDone, LaneReady, Issued, Forward

\* What one step of a run has to show for the invariant.
LEMMA StepKeeps ==
    ASSUME PreparationInv, NEW p \in Preparer, Forward,
           PreparationTypeOK', ServerInv',
           NEW CONSTANT run \in Run, proc'[p] = run, RunInv(run)',
           \A q \in Preparer : q # p => proc'[q] = proc[q],
           run.step = "fill" => file[run.file] = "absent",
           \A f \in File : \/ file'[f] = file[f]
                           \/ proc[p].step = "fill" /\ f = proc[p].file
                           \/ run.step = "fill" /\ f = run.file,
           Prepared' => EverythingDone'
    PROVE  PreparationInv'
  <1>1. ASSUME NEW q \in Preparer, q # p, proc[q].step = "fill"
        PROVE  /\ file[proc[q].file] = "torn" /\ proc[q].file \in File
               /\ file'[proc[q].file] = "torn"
               /\ run.step = "fill" => run.file # proc[q].file
    <2>1. file[proc[q].file] = "torn" /\ proc[q].file \in File
      BY <1>1, RunFields DEF PreparationInv, PreparationTypeOK, RunInv
    <2>2. ~(proc[p].step = "fill" /\ proc[p].file = proc[q].file)
      BY <1>1 DEF PreparationInv, FillersInv
    <2> QED
      BY <2>1, <2>2
  <1>2. ASSUME NEW q \in Preparer
        PROVE  RunInv(proc[q])'
    <2>1. CASE q = p
      BY <2>1
    <2>2. CASE q # p
      <3> PICK other \in Run : other = proc[q]
        BY DEF PreparationInv, PreparationTypeOK
      <3>1. RunInv(other) /\ (other.step = "fill" => file'[other.file] = "torn")
        BY <1>1, <2>2 DEF PreparationInv
      <3>2. RunInv(other)'
        BY <3>1, RunKept DEF PreparationInv
      <3>3. proc'[q] = other
        BY <2>2
      <3> QED
        BY <3>2, <3>3
    <2> QED
      BY <2>1, <2>2
  <1>3. FillersInv'
    <2> SUFFICES ASSUME NEW q \in Preparer, NEW k \in Preparer,
                        proc'[q].step = "fill", proc'[k].step = "fill",
                        proc'[q].file = proc'[k].file
                 PROVE  q = k
      BY DEF FillersInv
    <2>1. CASE q # p /\ k # p
      BY <2>1 DEF PreparationInv, FillersInv
    <2>2. CASE q = p \/ k = p
      BY <1>1, <2>2
    <2> QED
      BY <2>1, <2>2
  <1> QED
    BY <1>2, <1>3 DEF PreparationInv

\* The steps that change no more than the run itself and the repository.
LEMMA LocalStep ==
    ASSUME PreparationInv, NEW p \in Preparer, NEW CONSTANT run \in Run,
           Becomes(p, run), UNCHANGED <<file, credential, world, receipt, made>>,
           repository' \in RepositoryState, faults' \in 0..MaxFaults,
           RunInv(run) \/ RunInv(run)', run.step # "fill"
    PROVE  PreparationInv'
  <1>1. /\ proc' \in [Preparer -> Run] /\ proc'[p] = run
        /\ \A q \in Preparer : q # p => proc'[q] = proc[q]
    BY DEF PreparationInv, PreparationTypeOK, Becomes
  <1>2. PreparationTypeOK'
    BY <1>1 DEF PreparationInv, PreparationTypeOK
  <1>3. ServerInv' /\ Forward
    BY DEF PreparationInv, ServerInv, Forward
  <1>4. RunInv(run)'
    BY DEF RunInv, Issued, OnFile
  <1>5. Prepared' => EverythingDone'
    BY DEF PreparationInv, Prepared, EverythingDone, LaneReady
  <1> QED
    BY <1>1, <1>2, <1>3, <1>4, <1>5, StepKeeps

LEMMA IdleInv ==
    ASSUME PreparationTypeOK
    PROVE  RunInv(Idle)
  <1>1. Len(Idle.knows) = 0 /\ Idle.step = "idle"
    BY IdleRun
  <1> QED
    BY <1>1, RequestsPositive DEF RunInv, OnFile

LEMMA StopStep ==
    ASSUME PreparationInv, NEW p \in Preparer, Stop(p),
           UNCHANGED <<file, credential, world, receipt, made>>,
           repository' \in RepositoryState, faults' \in 0..MaxFaults
    PROVE  PreparationInv'
  <1> PICK run \in Run : run = Idle
    BY IdleRun
  <1>1. RunInv(run) /\ run.step # "fill" /\ Becomes(p, run)
    BY IdleInv, IdleRun DEF PreparationInv, Stop
  <1> QED
    BY <1>1, LocalStep

-----------------------------------------------------------------------------
(* Files *)

LEMMA RunCommandStep ==
    ASSUME PreparationInv, NEW p \in Preparer, RunCommand(p)
    PROVE  PreparationInv'
  <1> PICK run \in Run : run = Started
    BY IdleRun
  <1>1. Len(run.knows) = 0 /\ run.step = "read" /\ run.file = "scenario" /\ run.left = Lane
    BY IdleRun
  <1>2. RunInv(run)
    BY <1>1, RequestsPositive, FilesDiffer DEF RunInv, OnFile
  <1>3. Becomes(p, run) /\ repository' \in RepositoryState /\ faults' \in 0..MaxFaults
    BY DEF RunCommand, PreparationInv, PreparationTypeOK
  <1> QED
    BY <1>1, <1>2, <1>3, LocalStep DEF RunCommand

\* A file of the command, other than the last, is whole.
LEMMA OnwardRun ==
    ASSUME PreparationInv, NEW p \in Preparer, Onward(p), OnFile(proc[p]),
           proc[p].file # "prepared", Forward, file'[proc[p].file] = "whole"
    PROVE  \E run \in Run : Becomes(p, run) /\ run.step # "fill" /\ RunInv(run)'
  <1> DEFINE old == proc[p]
  <1>1. old \in Run /\ RunInv(old)
    BY DEF PreparationInv, PreparationTypeOK
  <1>2. /\ old.step \in Step /\ old.file \in File /\ old.left \in SUBSET Lane
        /\ old.knows \in Seq(Nat) /\ Len(old.knows) \in Nat
    BY <1>1, RunFields
  <1>a. {"read", "credential"} \subseteq Step /\ "prepared" \in File
    BY DEF Step, File
  <1>3. CASE old.file = "scenario"
    <2> DEFINE new == [old EXCEPT !.step = "read", !.file = "prepared"]
    <2>1. /\ new \in Run /\ new.step = "read" /\ new.file = "prepared"
          /\ new.knows = old.knows /\ new.left = old.left
      BY <1>1, <1>a DEF Run
    <2>2. Becomes(p, new)
      BY <1>3 DEF Onward, ReadNext
    <2> PICK run \in Run : run = new
      BY <2>1
    <2>3. /\ run.step = "read" /\ run.file = "prepared"
          /\ run.knows = old.knows /\ run.left = old.left
      BY <2>1, Zenon
    <2>4. Becomes(p, run)
      BY <2>2, Zenon
    <2>5. Len(old.knows) = 0 /\ file'["scenario"] = "whole"
      BY <1>1, <1>3 DEF RunInv
    <2>6. \A l \in Lane \ old.left : file'[l] = "whole" /\ Issued(l)'
      BY <1>1, <1>3, FilesDiffer, IssuedStays DEF RunInv, OnFile, Forward, PreparationInv
    <2> HIDE DEF old, new
    <2>7. RunInv(run)'
      BY <2>3, <2>5, <2>6, RequestsPositive, FilesDiffer DEF RunInv, OnFile
    <2> QED
      BY <2>3, <2>4, <2>7
  <1>4. CASE old.file # "scenario"
    <2> PICK mine \in Lane : mine = old.file
      BY <1>2, <1>4, FilesDiffer
    <2> DEFINE left == old.left \ {old.file}
               step == IF left = {} THEN "read" ELSE "credential"
               new == [old EXCEPT !.left = left, !.file = "prepared", !.step = step]
    <2>2. step \in Step /\ left \in SUBSET Lane
      BY <1>2, <1>a
    <2>3. Becomes(p, new)
      BY <1>4 DEF Onward
    <2>4. /\ new \in Run /\ new.step = step /\ new.file = "prepared"
          /\ new.knows = old.knows /\ new.left = left
      <3> HIDE DEF left, step
      <3> QED
        BY <1>1, <1>a, <2>2 DEF Run
    <2> PICK run \in Run : run = new
      BY <2>4
    <2>5. /\ run.step = step /\ run.file = "prepared"
          /\ run.knows = old.knows /\ run.left = left
      BY <2>4, Zenon
    <2>6. Becomes(p, run)
      BY <2>3, Zenon
    <2>7. /\ Len(old.knows) = Requests /\ Issued(mine)' /\ file'["scenario"] = "whole"
          /\ \A l \in Lane \ old.left : file'[l] = "whole" /\ Issued(l)'
      <3>1. old.step # "idle" /\ Len(old.knows) = Requests /\ Issued(mine)
            /\ file["scenario"] = "whole"
        BY <1>1, <1>4 DEF RunInv, OnFile
      <3>2. \A l \in Lane \ old.left : file[l] = "whole" /\ Issued(l)
        BY <1>1, <3>1 DEF RunInv
      <3>3. \A l \in Lane : Issued(l) => Issued(l)'
        BY IssuedStays DEF PreparationInv
      <3>4. \A f \in File : file[f] = "whole" => file'[f] = "whole"
        BY DEF Forward
      <3> HIDE DEF old
      <3> QED
        BY <3>1, <3>2, <3>3, <3>4, FilesDiffer
    <2>8. \A l \in Lane \ run.left : file'[l] = "whole" /\ Issued(l)'
      <3> SUFFICES ASSUME NEW l \in Lane, l \notin run.left
                   PROVE  file'[l] = "whole" /\ Issued(l)'
        OBVIOUS
      <3>1. l = mine \/ l \in Lane \ old.left
        BY <2>5
      <3>2. CASE l = mine
        BY <2>7, <3>2
      <3>3. CASE l \in Lane \ old.left
        BY <2>7, <3>3
      <3> QED
        BY <3>1, <3>2, <3>3
    <2>9. \A i \in 1..Len(old.knows) : old.knows[i] = receipt'[i] /\ receipt'[i] # 0
      BY <1>1, <2>7 DEF RunInv, Forward
    <2>10. step = "read" => left = {}
      OBVIOUS
    <2>11. step \in {"read", "credential"}
      OBVIOUS
    <2> HIDE DEF old, new, left, step
    <2>12. RunInv(run)'
      BY <2>5, <2>7, <2>8, <2>9, <2>10, <2>11, RequestsPositive, FilesDiffer DEF RunInv, OnFile
    <2>13. run.step # "fill"
      BY <2>5, <2>11
    <2> QED
      BY <2>6, <2>12, <2>13
  <1> QED
    BY <1>3, <1>4

LEMMA ReadFileStep ==
    ASSUME PreparationInv, NEW p \in Preparer, ReadFile(p)
    PROVE  PreparationInv'
  <1> DEFINE f == proc[p].file
  <1>0. /\ proc[p] \in Run /\ RunInv(proc[p]) /\ proc[p].step = "read" /\ f \in File
        /\ UNCHANGED <<file, credential, world, receipt, made>>
        /\ repository' \in RepositoryState /\ faults' \in 0..MaxFaults
    BY RunFields DEF ReadFile, PreparationInv, PreparationTypeOK
  <1>1. CASE Stop(p)
    BY <1>0, <1>1, StopStep
  <1>2. CASE f # "prepared" /\ file[f] = "whole" /\ Onward(p)
    <2>1. Forward /\ OnFile(proc[p])
      BY <1>0 DEF Forward, OnFile
    <2>2. \E run \in Run : Becomes(p, run) /\ run.step # "fill" /\ RunInv(run)'
      BY <1>0, <1>2, <2>1, OnwardRun
    <2> QED
      BY <1>0, <2>2, LocalStep
  <1>3. CASE file[f] = "absent" /\ Goes(p, IF f = "prepared" /\ ~Seeded(p) THEN "repository"
                                                                        ELSE "open")
    <2> DEFINE step == IF f = "prepared" /\ ~Seeded(p) THEN "repository" ELSE "open"
               new == [proc[p] EXCEPT !.step = step]
    <2>1. step \in Step /\ (step = "open" => f # "prepared" \/ Seeded(p))
          /\ step \in {"repository", "open"} /\ (step = "repository" => f = "prepared")
      BY DEF Step
    <2> HIDE DEF step
    <2>2. /\ new \in Run /\ new.step = step /\ new.file = f
          /\ new.knows = proc[p].knows /\ new.left = proc[p].left
      BY <1>0, <2>1 DEF Run
    <2>3. RunInv(new)
      BY <1>0, <2>1, <2>2, FilesDiffer DEF RunInv, OnFile, Seeded
    <2>4. Becomes(p, new)
      BY <1>3 DEF Goes, step
    <2> HIDE DEF new
    <2>5. \E run \in Run : Becomes(p, run) /\ run.step # "fill" /\ RunInv(run)
      BY <2>1, <2>2, <2>3, <2>4
    <2> QED
      BY <1>0, <2>5, LocalStep
  <1> QED
    BY <1>1, <1>2, <1>3 DEF ReadFile

LEMMA OpenFileStep ==
    ASSUME PreparationInv, NEW p \in Preparer, OpenFile(p)
    PROVE  PreparationInv'
  <1> DEFINE f == proc[p].file
  <1>0. /\ proc[p] \in Run /\ RunInv(proc[p]) /\ proc[p].step = "open" /\ f \in File
        /\ UNCHANGED <<credential, world, receipt, made>>
        /\ repository' \in RepositoryState /\ faults' \in 0..MaxFaults
    BY RunFields DEF OpenFile, PreparationInv, PreparationTypeOK
  <1>1. CASE file[f] # "absent"
    BY <1>0, <1>1, StopStep DEF OpenFile
  <1>2. CASE file[f] = "absent"
    <2> DEFINE new == [proc[p] EXCEPT !.step = "fill"]
    <2>1. /\ new \in Run /\ new.step = "fill" /\ new.file = f
          /\ new.knows = proc[p].knows /\ new.left = proc[p].left
      BY <1>0 DEF Run, Step
    <2>2. /\ file' = [file EXCEPT ![f] = "torn"] /\ Becomes(p, new)
      BY <1>2 DEF OpenFile, Goes
    <2>3. /\ file' \in [File -> FileState] /\ file'[f] = "torn"
          /\ \A k \in File : k # f => file'[k] = file[k]
      BY <1>0, <2>2 DEF PreparationInv, PreparationTypeOK, FileState
    <2>4. Forward
      BY <1>0, <1>2, <2>3 DEF Forward
    <2> PICK run \in Run : run = new
      BY <2>1
    <2> HIDE DEF new
    <2>5. /\ proc' \in [Preparer -> Run] /\ proc'[p] = run
          /\ \A q \in Preparer : q # p => proc'[q] = proc[q]
      BY <2>1, <2>2 DEF PreparationInv, PreparationTypeOK, Becomes
    <2>6. PreparationTypeOK' /\ ServerInv'
      BY <1>0, <2>3, <2>5 DEF PreparationInv, PreparationTypeOK, ServerInv
    <2>7. RunInv(run)'
      <3>1. \A l \in Lane : file[l] = "whole" /\ Issued(l) => file'[l] = "whole" /\ Issued(l)'
        BY <2>4, IssuedStays, FilesDiffer DEF PreparationInv, Forward
      <3>2. \A l \in Lane : Issued(l) => Issued(l)'
        BY <2>4, IssuedStays DEF PreparationInv
      <3>3. file["scenario"] = "whole" => file'["scenario"] = "whole"
        BY <2>4, FilesDiffer DEF Forward
      <3> QED
        BY <1>0, <2>1, <2>3, <3>1, <3>2, <3>3 DEF RunInv, OnFile
    <2>8. Prepared' => EverythingDone'
      <3>1. Prepared' => Prepared
        BY <2>3, FilesDiffer DEF Prepared
      <3> QED
        BY <1>0, <2>4, <3>1, DoneKept DEF PreparationInv
    <2> QED
      BY <1>2, <2>1, <2>3, <2>4, <2>5, <2>6, <2>7, <2>8, StepKeeps
  <1> QED
    BY <1>1, <1>2

\* Only prepared.json has a content that the invariant looks at.
LEMMA FillPrepared ==
    ASSUME PreparationInv, NEW p \in Preparer, FillFile(p), proc[p].file = "prepared"
    PROVE  /\ world' \in World
           /\ EverythingDone'
  <1>1. /\ proc[p] \in Run /\ RunInv(proc[p]) /\ proc[p].step = "fill"
        /\ proc[p].head \in HeadKind
    BY RunFields DEF FillFile, PreparationInv, PreparationTypeOK
  <1>2. /\ Len(proc[p].knows) = Requests /\ proc[p].left = {}
        /\ file["scenario"] = "whole"
        /\ \A l \in Lane : file[l] = "whole" /\ Issued(l)
    BY <1>1, FilesDiffer DEF RunInv, OnFile
  <1>3. /\ world' = [head |-> proc[p].head, tokens |-> Tokens(p)]
        /\ file' = [file EXCEPT !["prepared"] = "whole"]
        /\ UNCHANGED <<credential, receipt>>
    BY DEF FillFile
  <1>4. /\ Tokens(p) \in [Lane -> Nat]
        /\ \A i \in 1..Requests : receipt[i] # 0
        /\ \A l \in Lane : Tokens(p)[l] = receipt[TokenRequest[l]]
    BY <1>2, KnownTokens
  <1>5. world' \in World /\ world'.tokens = Tokens(p)
    BY <1>1, <1>3, <1>4 DEF World
  <1>6. \A f \in File : f # "prepared" => file'[f] = file[f]
    BY <1>3 DEF PreparationInv, PreparationTypeOK
  <1>7. \A l \in Lane : LaneReady(l)'
    BY <1>2, <1>3, <1>4, <1>5, <1>6, FilesDiffer DEF LaneReady, Issued
  <1>8. file'["scenario"] = "whole"
    BY <1>2, <1>6, FilesDiffer
  <1> QED
    BY <1>3, <1>4, <1>5, <1>7, <1>8 DEF EverythingDone

LEMMA FillFileStep ==
    ASSUME PreparationInv, NEW p \in Preparer, FillFile(p)
    PROVE  PreparationInv'
  <1> DEFINE f == proc[p].file
  <1>0. /\ proc[p] \in Run /\ RunInv(proc[p]) /\ proc[p].step = "fill" /\ f \in File
        /\ file' = [file EXCEPT ![f] = "whole"]
        /\ UNCHANGED <<repository, credential, receipt, made, faults>>
    BY RunFields DEF FillFile, PreparationInv, PreparationTypeOK
  <1>1. /\ file' \in [File -> FileState] /\ file'[f] = "whole"
        /\ \A k \in File : k # f => file'[k] = file[k]
    BY <1>0 DEF PreparationInv, PreparationTypeOK, FileState
  <1>2. Forward /\ OnFile(proc[p])
    BY <1>0, <1>1 DEF Forward, OnFile
  <1>3. ServerInv'
    BY <1>0 DEF PreparationInv, ServerInv
  <1>4. \E run \in Run : Becomes(p, run) /\ run.step # "fill" /\ RunInv(run)'
    <2>1. CASE f = "prepared"
      <3> PICK run \in Run : run = Idle
        BY IdleRun
      <3>1. Becomes(p, run) /\ run.step = "idle" /\ run.knows = <<>>
        BY <2>1, IdleRun DEF FillFile, Stop
      <3>2. RunInv(run)'
        BY <3>1, RequestsPositive DEF RunInv, OnFile
      <3> QED
        BY <3>1, <3>2
    <2>2. CASE f # "prepared"
      <3>1. Onward(p)
        BY <2>2 DEF FillFile
      <3> QED
        BY <1>1, <1>2, <2>2, <3>1, OnwardRun
    <2> QED
      BY <2>1, <2>2
  <1> PICK run \in Run : Becomes(p, run) /\ run.step # "fill" /\ RunInv(run)'
    BY <1>4
  <1>5. /\ proc' \in [Preparer -> Run] /\ proc'[p] = run
        /\ \A q \in Preparer : q # p => proc'[q] = proc[q]
    BY DEF PreparationInv, PreparationTypeOK, Becomes
  <1>6. world' \in World /\ (Prepared' => EverythingDone')
    <2>1. CASE f = "prepared"
      BY <2>1, FillPrepared
    <2>2. CASE f # "prepared"
      <3>1. world' = world /\ (Prepared' => Prepared)
        BY <1>1, <2>2, FilesDiffer DEF FillFile, Prepared
      <3> QED
        BY <1>2, <3>1, DoneKept DEF PreparationInv, PreparationTypeOK
    <2> QED
      BY <2>1, <2>2
  <1>7. PreparationTypeOK'
    BY <1>0, <1>1, <1>5, <1>6 DEF PreparationInv, PreparationTypeOK
  <1> QED
    BY <1>0, <1>1, <1>2, <1>3, <1>5, <1>6, <1>7, StepKeeps

LEMMA FaultIsCounted ==
    ASSUME PreparationTypeOK, Fault
    PROVE  faults' \in 0..MaxFaults
  BY FaultsCounted DEF PreparationTypeOK, Fault

LEMMA FailWriteStep ==
    ASSUME PreparationInv, NEW p \in Preparer, FailWrite(p)
    PROVE  PreparationInv'
  <1> DEFINE f == proc[p].file
  <1>0. /\ proc[p] \in Run /\ RunInv(proc[p]) /\ proc[p].step = "fill" /\ f \in File
        /\ file' = [file EXCEPT ![f] = "absent"] /\ Stop(p)
        /\ UNCHANGED <<repository, credential, world, receipt, made>>
        /\ faults' \in 0..MaxFaults
    BY RunFields, FaultIsCounted DEF FailWrite, PreparationInv, PreparationTypeOK
  <1>1. /\ file' \in [File -> FileState] /\ file'[f] = "absent" /\ file[f] = "torn"
        /\ \A k \in File : k # f => file'[k] = file[k]
    BY <1>0 DEF PreparationInv, PreparationTypeOK, FileState, RunInv
  <1>2. Forward /\ ServerInv'
    BY <1>0, <1>1 DEF Forward, PreparationInv, ServerInv
  <1> PICK run \in Run : run = Idle
    BY IdleRun
  <1>3. run.step = "idle" /\ run.knows = <<>> /\ RunInv(run)'
    BY IdleRun, RequestsPositive DEF RunInv, OnFile
  <1>4. /\ proc' \in [Preparer -> Run] /\ proc'[p] = run
        /\ \A q \in Preparer : q # p => proc'[q] = proc[q]
    BY <1>0 DEF PreparationInv, PreparationTypeOK, Stop, Becomes
  <1>5. PreparationTypeOK'
    BY <1>0, <1>1, <1>4 DEF PreparationInv, PreparationTypeOK
  <1>6. Prepared' => EverythingDone'
    <2>1. Prepared' => Prepared
      BY <1>1, FilesDiffer DEF Prepared
    <2> QED
      BY <1>0, <1>2, <2>1, DoneKept DEF PreparationInv
  <1> QED
    BY <1>0, <1>1, <1>2, <1>3, <1>4, <1>5, <1>6, StepKeeps

LEMMA CrashStep ==
    ASSUME PreparationInv, NEW p \in Preparer, Crash(p)
    PROVE  PreparationInv'
  <1>1. faults' \in 0..MaxFaults /\ repository' \in RepositoryState
    BY FaultIsCounted DEF Crash, PreparationInv, PreparationTypeOK
  <1> QED
    BY <1>1, StopStep DEF Crash

-----------------------------------------------------------------------------
(* The repository *)

\* A step that is not at a file leads to another one that is not.
LEMMA MoveOn ==
    ASSUME PreparationInv, NEW p \in Preparer, NEW CONSTANT run \in Run,
           Becomes(p, run), UNCHANGED <<file, credential, world, receipt, made>>,
           repository' \in RepositoryState, faults' \in 0..MaxFaults,
           proc[p].step \notin {"idle", "read", "open", "fill"},
           run.step \in {"clone", "inject", "add", "commit", "list"},
           run.knows = proc[p].knows, run.left = proc[p].left
    PROVE  PreparationInv'
  <1>1. RunInv(proc[p])
    BY DEF PreparationInv
  <1>2. RunInv(run) /\ run.step # "fill"
    BY <1>1 DEF RunInv, OnFile
  <1> QED
    BY <1>2, LocalStep

LEMMA RepositoryStepInv ==
    ASSUME PreparationInv, NEW p \in Preparer, RepositoryStep(p)
    PROVE  PreparationInv'
  <1> DEFINE old == proc[p]
  <1>0. /\ old \in Run /\ repository \in RepositoryState /\ faults \in 0..MaxFaults
        /\ proc \in [Preparer -> Run]
    BY DEF PreparationInv, PreparationTypeOK
  <1>1. UNCHANGED <<file, credential, world, receipt, made, faults>>
    BY DEF RepositoryStep, FindRepository, CloneRepository, InjectAgentContext,
           AddAgentContext, CommitAgentContext
  <1>2. repository' \in RepositoryState
    BY <1>0 DEF RepositoryStep, FindRepository, CloneRepository, InjectAgentContext,
           AddAgentContext, CommitAgentContext, RepositoryState
  <1>3. old.step \notin {"idle", "read", "open", "fill"}
    BY DEF RepositoryStep, FindRepository, CloneRepository, InjectAgentContext,
           AddAgentContext, CommitAgentContext
  <1>4. CASE Stop(p)
    BY <1>0, <1>1, <1>2, <1>4, StopStep
  <1>5. ASSUME NEW s \in {"clone", "inject", "add", "commit"}, Goes(p, s)
        PROVE  PreparationInv'
    <2> DEFINE new == [old EXCEPT !.step = s]
    <2>1. new \in Run /\ new.step = s /\ new.knows = old.knows /\ new.left = old.left
      BY <1>0 DEF Run, Step
    <2> PICK run \in Run : run = new
      BY <2>1
    <2>2. run.step = s /\ run.knows = old.knows /\ run.left = old.left /\ Becomes(p, run)
      BY <1>5, <2>1 DEF Goes
    <2> HIDE DEF new
    <2> QED
      BY <1>0, <1>1, <1>2, <1>3, <2>2, MoveOn
  <1>6. ASSUME NEW h \in HeadKind, Becomes(p, [old EXCEPT !.step = "list", !.head = h])
        PROVE  PreparationInv'
    <2> DEFINE new == [old EXCEPT !.step = "list", !.head = h]
    <2>1. new \in Run /\ new.step = "list" /\ new.knows = old.knows /\ new.left = old.left
      BY <1>0 DEF Run, Step
    <2> PICK run \in Run : run = new
      BY <2>1
    <2>2. /\ run.step = "list" /\ run.knows = old.knows /\ run.left = old.left
          /\ Becomes(p, run)
      BY <1>6, <2>1, Zenon
    <2> HIDE DEF new
    <2> QED
      BY <1>0, <1>1, <1>2, <1>3, <2>2, MoveOn
  <1>7. CASE FindRepository(p)
    <2>1. Stop(p) \/ Goes(p, "clone") \/
          \E h \in HeadKind : Becomes(p, [old EXCEPT !.step = "list", !.head = h])
      BY <1>7 DEF FindRepository, HeadKind
    <2> QED
      BY <1>4, <1>5, <1>6, <2>1
  <1>8. CASE CloneRepository(p) \/ InjectAgentContext(p) \/ AddAgentContext(p)
    <2>1. Stop(p) \/ Goes(p, "inject") \/ Goes(p, "add") \/ Goes(p, "commit")
      BY <1>8 DEF CloneRepository, InjectAgentContext, AddAgentContext
    <2> QED
      BY <1>4, <1>5, <2>1
  <1>9. CASE CommitAgentContext(p)
    <2>1. Becomes(p, [old EXCEPT !.step = "list", !.head = "context"]) /\ "context" \in HeadKind
      BY <1>9 DEF CommitAgentContext, HeadKind
    <2> QED
      BY <1>6, <2>1
  <1> QED
    BY <1>7, <1>8, <1>9 DEF RepositoryStep

-----------------------------------------------------------------------------
(* Seeding *)

LEMMA ListProjectsStep ==
    ASSUME PreparationInv, NEW p \in Preparer, ListProjects(p)
    PROVE  PreparationInv'
  <1> DEFINE old == proc[p]
             s == IF receipt[1] # 0 /\ Requests = 1 THEN "credential" ELSE "ask"
             k == IF receipt[1] # 0 THEN <<receipt[1]>> ELSE <<>>
             new == [old EXCEPT !.step = s, !.knows = k]
  <1>0. /\ old \in Run /\ RunInv(old) /\ old.step = "list"
        /\ receipt \in [1..Requests -> Nat] /\ receipt[1] \in Nat
        /\ UNCHANGED <<file, credential, world, receipt, made>>
        /\ repository' \in RepositoryState /\ faults' \in 0..MaxFaults
    BY TokenTypes DEF ListProjects, PreparationInv, PreparationTypeOK
  <1>1. /\ k \in Seq(Nat) /\ s \in {"ask", "credential"} /\ s \in Step
        /\ Len(k) <= Requests /\ (s = "ask" => Len(k) < Requests)
        /\ (s = "credential" => Len(k) = Requests)
        /\ \A i \in 1..Len(k) : k[i] = receipt[i] /\ receipt[i] # 0
    <2>1. CASE receipt[1] # 0
      <3>1. k = <<receipt[1]>> /\ k \in Seq(Nat) /\ Len(k) = 1 /\ k[1] = receipt[1]
        BY <1>0, <2>1
      <3>2. s = IF Requests = 1 THEN "credential" ELSE "ask"
        BY <2>1
      <3> HIDE DEF k, s
      <3>3. s \in {"ask", "credential"} /\ (s = "ask" => Requests # 1)
            /\ (s = "credential" => Requests = 1)
        BY <3>2
      <3> QED
        BY <2>1, <3>1, <3>3, RequestsPositive DEF Step
    <2>2. CASE receipt[1] = 0
      <3>1. k = <<>> /\ s = "ask"
        BY <2>2
      <3> HIDE DEF k, s
      <3> QED
        BY <3>1, RequestsPositive DEF Step
    <2> QED
      BY <2>1, <2>2
  <1>2. Becomes(p, new)
    BY DEF ListProjects
  <1>3. new \in Run /\ new.step = s /\ new.knows = k /\ new.left = old.left
    <2> HIDE DEF s, k
    <2> QED
      BY <1>0, <1>1 DEF Run
  <1> PICK run \in Run : run = new
    BY <1>3
  <1>4. run.step = s /\ run.knows = k /\ run.left = old.left /\ Becomes(p, run)
    BY <1>2, <1>3, Zenon
  <1> HIDE DEF s, k, new
  <1>5. RunInv(run) /\ run.step # "fill"
    BY <1>0, <1>1, <1>4 DEF RunInv, OnFile
  <1> QED
    BY <1>0, <1>4, <1>5, LocalStep

\* The effect of a request, and what the server says of it.
LEMMA AskServer ==
    ASSUME PreparationInv, NEW p \in Preparer, NEW heard, Ask(p, heard),
           NEW CONSTANT i, i = Len(proc[p].knows) + 1
    PROVE  /\ i \in 1..Requests /\ Forward
           /\ receipt' \in [1..Requests -> Nat] /\ made' \in Seq(1..Requests)
           /\ ServerInv'
           /\ receipt'[i] # 0
           /\ heard => receipt'[i] = IF receipt[i] # 0 THEN receipt[i] ELSE Len(made) + 1
           /\ \A j \in 1..Requests : j # i => receipt'[j] = receipt[j]
  <1>0. /\ proc[p] \in Run /\ RunInv(proc[p]) /\ proc[p].step = "ask"
        /\ receipt \in [1..Requests -> Nat] /\ made \in Seq(1..Requests)
        /\ UNCHANGED <<file, repository, credential, world>>
        /\ Len(proc[p].knows) \in Nat /\ Requests \in Nat /\ Len(made) \in Nat
    BY RunFields, RequestsPositive DEF Ask, PreparationInv, PreparationTypeOK
  <1>1. i \in 1..Requests
    BY <1>0 DEF RunInv
  <1>2. CASE receipt[i] # 0
    <2>1. receipt' = receipt /\ made' = made
      BY <1>0, <1>1, <1>2 DEF Ask, Answered
    <2> QED
      BY <1>0, <1>1, <1>2, <2>1 DEF Forward, PreparationInv, ServerInv
  <1>3. CASE receipt[i] = 0
    <2>1. receipt' = [receipt EXCEPT ![i] = Len(made) + 1] /\ made' = Append(made, i)
      BY <1>0, <1>3 DEF Ask, Answered
    <2>2. /\ receipt' \in [1..Requests -> Nat] /\ receipt'[i] = Len(made) + 1
          /\ \A j \in 1..Requests : j # i => receipt'[j] = receipt[j]
      BY <1>0, <1>1, <2>1
    <2>3. /\ made' \in Seq(1..Requests) /\ Len(made') = Len(made) + 1
          /\ made'[Len(made) + 1] = i
          /\ \A n \in 1..Len(made) : made'[n] = made[n]
      BY <1>0, <1>1, <2>1
    <2>4. Forward
      BY <1>0, <1>3, <2>2 DEF Forward
    <2>5. \A j \in 1..Requests : receipt'[j] # 0 =>
             receipt'[j] \in 1..Len(made') /\ made'[receipt'[j]] = j
      <3> SUFFICES ASSUME NEW j \in 1..Requests, receipt'[j] # 0
                   PROVE  receipt'[j] \in 1..Len(made') /\ made'[receipt'[j]] = j
        OBVIOUS
      <3>1. CASE j = i
        BY <1>0, <2>2, <2>3, <3>1
      <3>2. CASE j # i
        <4>1. receipt[j] \in 1..Len(made) /\ made[receipt[j]] = j /\ receipt'[j] = receipt[j]
          BY <2>2, <3>2 DEF PreparationInv, ServerInv
        <4>2. made'[receipt[j]] = j
          BY <2>3, <4>1
        <4>3. receipt[j] \in 1..(Len(made) + 1)
          BY <1>0, <4>1
        <4> QED
          BY <2>3, <4>1, <4>2, <4>3
      <3> QED
        BY <3>1, <3>2
    <2>6. \A n \in 1..Len(made') : receipt'[made'[n]] = n
      <3> SUFFICES ASSUME NEW n \in 1..Len(made')
                   PROVE  receipt'[made'[n]] = n
        OBVIOUS
      <3>1. CASE n = Len(made) + 1
        BY <2>2, <2>3, <3>1
      <3>2. CASE n # Len(made) + 1
        <4>1. n \in 1..Len(made)
          BY <1>0, <2>3, <3>2
        <4>2. receipt[made[n]] = n /\ made[n] \in 1..Requests /\ n # 0
          BY <1>0, <4>1 DEF PreparationInv, ServerInv
        <4>3. made[n] # i
          BY <1>3, <4>2
        <4> QED
          BY <2>2, <2>3, <4>1, <4>2, <4>3
      <3> QED
        BY <3>1, <3>2
    <2>7. \A l \in Lane : credential'[l] \in {0, receipt'[TokenRequest[l]]}
      <3> SUFFICES ASSUME NEW l \in Lane, credential[l] # 0
                   PROVE  credential[l] = receipt'[TokenRequest[l]]
        BY <1>0
      <3>1. credential[l] = receipt[TokenRequest[l]]
        BY DEF PreparationInv, ServerInv
      <3> QED
        BY <2>4, <3>1, TokenTypes DEF Forward
    <2>8. ServerInv'
      BY <2>5, <2>6, <2>7 DEF ServerInv
    <2> QED
      BY <1>0, <1>1, <1>3, <2>2, <2>3, <2>4, <2>8
  <1> QED
    BY <1>2, <1>3

LEMMA AskStep ==
    ASSUME PreparationInv, NEW p \in Preparer, NEW heard \in BOOLEAN, Ask(p, heard)
    PROVE  PreparationInv'
  <1> DEFINE old == proc[p]
  <1>0. /\ old \in Run /\ RunInv(old) /\ old.step = "ask" /\ old.knows \in Seq(Nat)
        /\ Len(old.knows) \in Nat /\ Requests \in Nat /\ Len(made) \in Nat
        /\ receipt \in [1..Requests -> Nat]
        /\ UNCHANGED <<file, repository, credential, world>>
    BY RunFields, RequestsPositive DEF Ask, PreparationInv, PreparationTypeOK
  <1> PICK i \in Nat : i = Len(old.knows) + 1
    BY <1>0
  <1> PICK effect \in Nat : effect = IF receipt[i] # 0 THEN receipt[i] ELSE Len(made) + 1
    <2>1. i \in 1..Requests
      BY <1>0 DEF RunInv
    <2> QED
      BY <1>0, <2>1
  <1>1. /\ i \in 1..Requests /\ Forward
        /\ receipt' \in [1..Requests -> Nat] /\ made' \in Seq(1..Requests)
        /\ ServerInv'
        /\ receipt'[i] # 0
        /\ heard => receipt'[i] = effect
        /\ \A j \in 1..Requests : j # i => receipt'[j] = receipt[j]
    BY AskServer
  <1>2. \E run \in Run : Becomes(p, run) /\ run.step # "fill" /\ RunInv(run)'
    <2>1. CASE ~heard
      <3> PICK run \in Run : run = Idle
        BY IdleRun
      <3>1. Becomes(p, run) /\ run.step = "idle" /\ run.knows = <<>>
        BY <2>1, IdleRun DEF Ask, Stop
      <3>2. RunInv(run)'
        BY <3>1, RequestsPositive DEF RunInv, OnFile
      <3> QED
        BY <3>1, <3>2
    <2>2. CASE heard
      <3> DEFINE s == IF i = Requests THEN "credential" ELSE "ask"
                 k == Append(old.knows, effect)
                 new == [old EXCEPT !.knows = k, !.step = s]
      <3>1. Becomes(p, new)
        BY <2>2 DEF Ask, Answered
      <3>2. s \in {"credential", "ask"} /\ s \in Step /\ (s = "ask" <=> i # Requests)
        BY DEF Step
      <3>3. /\ k \in Seq(Nat) /\ Len(k) = i /\ k[i] = effect
            /\ \A j \in 1..Len(old.knows) : k[j] = old.knows[j]
        BY <1>0
      <3> HIDE DEF s, k
      <3>4. new \in Run /\ new.step = s /\ new.knows = k /\ new.left = old.left
        BY <1>0, <3>2, <3>3 DEF Run
      <3> PICK run \in Run : run = new
        BY <3>4
      <3>5. /\ run.step = s /\ run.knows = k /\ run.left = old.left
            /\ Becomes(p, run)
        BY <3>1, <3>4, Zenon
      <3>6. \A j \in 1..Len(k) : k[j] = receipt'[j] /\ receipt'[j] # 0
        <4> SUFFICES ASSUME NEW j \in 1..Len(k)
                     PROVE  k[j] = receipt'[j] /\ receipt'[j] # 0
          OBVIOUS
        <4>1. CASE j = i
          BY <1>1, <2>2, <3>3, <4>1
        <4>2. CASE j # i
          <5>1. j \in 1..Len(old.knows) /\ j \in 1..Requests
            BY <1>0, <1>1, <3>3, <4>2
          <5> QED
            BY <1>0, <1>1, <3>3, <4>2, <5>1 DEF RunInv
        <4> QED
          BY <4>1, <4>2
      <3>7. \A l \in Lane \ old.left : file'[l] = "whole" /\ Issued(l)'
        <4> SUFFICES ASSUME NEW l \in Lane, l \notin old.left
                     PROVE  file'[l] = "whole" /\ Issued(l)'
          OBVIOUS
        <4>1. file[l] = "whole" /\ Issued(l)
          BY <1>0 DEF RunInv
        <4> QED
          BY <1>0, <1>1, <4>1, IssuedStays DEF PreparationInv
      <3>8. file'["scenario"] = "whole"
        BY <1>0 DEF RunInv, OnFile
      <3> HIDE DEF new, old
      <3>9. RunInv(run)'
        BY <1>0, <1>1, <3>2, <3>3, <3>5, <3>6, <3>7, <3>8 DEF RunInv, OnFile
      <3>10. run.step # "fill"
        BY <3>2, <3>5
      <3> QED
        BY <3>5, <3>9, <3>10
    <2> QED
      BY <2>1, <2>2
  <1> PICK run \in Run : Becomes(p, run) /\ run.step # "fill" /\ RunInv(run)'
    BY <1>2
  <1>3. /\ proc' \in [Preparer -> Run] /\ proc'[p] = run
        /\ \A q \in Preparer : q # p => proc'[q] = proc[q]
    BY DEF PreparationInv, PreparationTypeOK, Becomes
  <1>4. faults' \in 0..MaxFaults
    BY FaultIsCounted DEF Ask, PreparationInv, PreparationTypeOK
  <1>5. PreparationTypeOK'
    BY <1>0, <1>1, <1>3, <1>4 DEF PreparationInv, PreparationTypeOK
  <1>6. Prepared' => EverythingDone'
    BY <1>0, <1>1, DoneKept DEF PreparationInv, Prepared
  <1> QED
    BY <1>0, <1>1, <1>3, <1>5, <1>6, StepKeeps

LEMMA FindCredentialStep ==
    ASSUME PreparationInv, NEW p \in Preparer, NEW l \in Lane, FindCredential(p, l)
    PROVE  PreparationInv'
  <1> DEFINE old == proc[p]
             token == Tokens(p)[l]
             s == IF credential[l] = token THEN "read" ELSE "store"
             new == [old EXCEPT !.file = l, !.step = s]
  <1>0. /\ old \in Run /\ RunInv(old) /\ old.step = "credential" /\ l \in old.left
        /\ UNCHANGED <<file, credential, world, receipt, made>>
        /\ repository' \in RepositoryState /\ faults' \in 0..MaxFaults
    BY DEF FindCredential, PreparationInv, PreparationTypeOK
  <1>1. CASE ~Agrees(l, token)
    BY <1>0, <1>1, StopStep DEF FindCredential
  <1>2. CASE Agrees(l, token)
    <2>1. Len(old.knows) = Requests
      BY <1>0 DEF RunInv
    <2>2. token = receipt[TokenRequest[l]] /\ token # 0
      BY <2>1, KnownTokens
    <2>3. s \in {"read", "store"} /\ s \in Step /\ l \in File
          /\ (s = "read" => Issued(l))
      BY <2>2 DEF Step, File, Issued
    <2>4. Becomes(p, new)
      BY <1>2 DEF FindCredential
    <2> HIDE DEF s
    <2>5. new \in Run /\ new.step = s /\ new.file = l /\ new.knows = old.knows
          /\ new.left = old.left
      BY <1>0, <2>3 DEF Run
    <2> PICK run \in Run : run = new
      BY <2>5
    <2>6. /\ run.step = s /\ run.file = l /\ run.knows = old.knows /\ run.left = old.left
          /\ Becomes(p, run)
      BY <2>4, <2>5, Zenon
    <2>7. RunInv(run)
      BY <1>0, <2>1, <2>3, <2>6, FilesDiffer DEF RunInv, OnFile
    <2>8. run.step # "fill"
      BY <2>3, <2>6
    <2> HIDE DEF new
    <2> QED
      BY <1>0, <2>6, <2>7, <2>8, LocalStep
  <1> QED
    BY <1>1, <1>2

LEMMA StoreCredentialStep ==
    ASSUME PreparationInv, NEW p \in Preparer, StoreCredential(p)
    PROVE  PreparationInv'
  <1> DEFINE old == proc[p]
  <1>0. /\ old \in Run /\ RunInv(old) /\ old.step = "store" /\ old.file \in Lane
        /\ Len(old.knows) = Requests
        /\ UNCHANGED <<file, repository, world, receipt, made, faults>>
    BY DEF StoreCredential, PreparationInv, PreparationTypeOK, RunInv
  <1> PICK l \in Lane : l = old.file
    BY <1>0
  <1>1. /\ credential' = [credential EXCEPT ![l] = Tokens(p)[l]] /\ Goes(p, "read")
    BY DEF StoreCredential
  <1>2. /\ Tokens(p)[l] = receipt[TokenRequest[l]] /\ Tokens(p)[l] # 0
        /\ Tokens(p)[l] \in Nat
    BY <1>0, KnownTokens
  <1>3. /\ credential' \in [Lane -> Nat] /\ credential'[l] = receipt[TokenRequest[l]]
        /\ \A k \in Lane : k # l => credential'[k] = credential[k]
    BY <1>1, <1>2 DEF PreparationInv, PreparationTypeOK
  <1>4. Forward /\ ServerInv'
    <2>1. credential[l] # 0 => credential[l] = receipt[TokenRequest[l]]
      BY DEF PreparationInv, ServerInv
    <2> QED
      BY <1>0, <1>3, <2>1 DEF Forward, PreparationInv, ServerInv
  <1> DEFINE new == [old EXCEPT !.step = "read"]
  <1>5. new \in Run /\ new.step = "read" /\ new.file = l /\ new.knows = old.knows
        /\ new.left = old.left /\ Becomes(p, new)
    BY <1>0, <1>1 DEF Run, Step, Goes
  <1> PICK run \in Run : run = new
    BY <1>5
  <1>6. /\ run.step = "read" /\ run.file = l /\ run.knows = old.knows /\ run.left = old.left
        /\ Becomes(p, run)
    BY <1>5
  <1> HIDE DEF new
  <1>7. RunInv(run)'
    <2>1. Issued(l)'
      BY <1>0, <1>2, <1>3 DEF Issued
    <2>2. \A k \in Lane \ old.left : file'[k] = "whole" /\ Issued(k)'
      <3> SUFFICES ASSUME NEW k \in Lane, k \notin old.left
                   PROVE  file'[k] = "whole" /\ Issued(k)'
        OBVIOUS
      <3>1. file[k] = "whole" /\ Issued(k)
        BY <1>0 DEF RunInv
      <3> QED
        BY <1>0, <1>4, <3>1, IssuedStays DEF PreparationInv
    <2>3. file'["scenario"] = "whole"
      BY <1>0 DEF RunInv, OnFile
    <2>4. \A i \in 1..Len(old.knows) : old.knows[i] = receipt'[i] /\ receipt'[i] # 0
      BY <1>0 DEF RunInv
    <2> HIDE DEF old
    <2> QED
      BY <1>0, <1>6, <2>1, <2>2, <2>3, <2>4, RequestsPositive, FilesDiffer DEF RunInv, OnFile
  <1>8. /\ proc' \in [Preparer -> Run] /\ proc'[p] = run
        /\ \A q \in Preparer : q # p => proc'[q] = proc[q]
    BY <1>6 DEF PreparationInv, PreparationTypeOK, Becomes
  <1>9. PreparationTypeOK'
    BY <1>0, <1>3, <1>8 DEF PreparationInv, PreparationTypeOK
  <1>10. Prepared' => EverythingDone'
    BY <1>0, <1>4, DoneKept DEF PreparationInv, Prepared
  <1> QED
    BY <1>0, <1>4, <1>6, <1>7, <1>8, <1>9, <1>10, StepKeeps

-----------------------------------------------------------------------------
(* The preparation *)

LEMMA PrepareInitInv == PrepareInit => PreparationInv
  <1> SUFFICES ASSUME PrepareInit PROVE PreparationInv
    OBVIOUS
  <1>1. /\ file = [f \in File |-> "absent"] /\ repository = "absent"
        /\ credential = [l \in Lane |-> 0] /\ world = NoWorld
        /\ receipt = [i \in 1..Requests |-> 0] /\ made = <<>>
        /\ proc = [p \in Preparer |-> Idle] /\ faults = 0
    BY DEF PrepareInit
  <1>2. NoWorld \in World
    BY DEF NoWorld, World, HeadKind
  <1>3. proc \in [Preparer -> Run] /\ \A p \in Preparer : proc[p].step = "idle"
    BY <1>1, IdleRun
  <1>4. made \in Seq(1..Requests) /\ Len(made) = 0 /\ faults \in 0..MaxFaults
    BY <1>1, FaultsCounted
  <1>5. PreparationTypeOK
    BY <1>1, <1>2, <1>3, <1>4 DEF PreparationTypeOK, FileState, RepositoryState
  <1>6. ServerInv /\ FillersInv
    BY <1>1, <1>3, <1>4 DEF ServerInv, FillersInv
  <1>7. \A p \in Preparer : RunInv(proc[p])
    BY <1>1, <1>5, IdleInv
  <1>8. ~Prepared
    BY <1>1, FilesDiffer DEF Prepared
  <1> QED
    BY <1>5, <1>6, <1>7, <1>8 DEF PreparationInv

LEMMA PrepareStutter ==
    ASSUME PreparationInv, UNCHANGED prepareVars
    PROVE  PreparationInv'
  BY DEF PreparationInv, PreparationTypeOK, ServerInv, FillersInv, RunInv, Issued, Prepared,
         EverythingDone, LaneReady, OnFile, prepareVars

LEMMA PrepareStepInv ==
    ASSUME PreparationInv, [PrepareNext]_prepareVars
    PROVE  PreparationInv'
  <1>1. ASSUME NEW p \in Preparer, PrepareStep(p)
        PROVE  PreparationInv'
    BY <1>1, RunCommandStep, ReadFileStep, OpenFileStep, FillFileStep, RepositoryStepInv,
       ListProjectsStep, AskStep, FindCredentialStep, StoreCredentialStep
       DEF PrepareStep, FileStep, SeedStep
  <1>2. ASSUME NEW p \in Preparer, FaultStep(p)
        PROVE  PreparationInv'
    BY <1>2, AskStep, FailWriteStep, CrashStep DEF FaultStep
  <1> QED
    BY <1>1, <1>2, PrepareStutter DEF PrepareNext

\* What a run of the command knows, has written and leaves torn, whoever else
\* runs it (collaboration_prepare.go:40-190).
THEOREM PreparationInvariance == PrepareSpec => []PreparationInv
  BY PrepareInitInv, PrepareStepInv, PTL DEF PrepareSpec

LEMMA WorldIsPrepared ==
    ASSUME PreparationInv
    PROVE  PreparedWorld
  <1> SUFFICES ASSUME Prepared
               PROVE  /\ SeededOnce
                      /\ \A i \in 1..Requests : \E n \in 1..Len(made) : made[n] = i /\ receipt[i] = n
                      /\ \A l \in Lane : LaneReady(l)
                      /\ \A l, k \in Lane : credential[l] = credential[k] => l = k
    BY DEF PreparedWorld
  <1>1. EverythingDone /\ ServerInv
    BY DEF PreparationInv
  <1>2. SeededOnce
    BY <1>1 DEF ServerInv, SeededOnce
  <1>3. \A i \in 1..Requests : \E n \in 1..Len(made) : made[n] = i /\ receipt[i] = n
    BY <1>1 DEF EverythingDone, ServerInv
  <1>4. ASSUME NEW l \in Lane, NEW k \in Lane, credential[l] = credential[k]
        PROVE  l = k
    <2>1. receipt[TokenRequest[l]] = receipt[TokenRequest[k]]
      BY <1>1, <1>4 DEF EverythingDone, LaneReady
    <2>2. TokenRequest[l] = TokenRequest[k]
      BY <1>1, <2>1, TokenTypes DEF EverythingDone, ServerInv
    <2> QED
      BY <2>2, TokensDiffer
  <1> QED
    BY <1>1, <1>2, <1>3, <1>4 DEF EverythingDone

\* A world that prepared.json declares prepared is (TrackPrepared and
\* WriteCollaborationPrepared come last).
THEOREM PreparedIsComplete == PrepareSpec => []PreparedWorld
  BY WorldIsPrepared, PreparationInvariance, PTL

LEMMA PreparedStaysFrozen ==
    ASSUME PreparationInv, [PrepareNext]_prepareVars, Prepared
    PROVE  UNCHANGED <<file, credential, world, receipt, made>>
  <1>1. /\ EverythingDone /\ PreparationTypeOK /\ ServerInv
        /\ \A p \in Preparer : proc[p] \in Run /\ RunInv(proc[p])
    BY DEF PreparationInv, PreparationTypeOK
  <1>2. \A f \in File : file[f] = "whole"
    BY <1>1, FilesDiffer DEF EverythingDone, LaneReady, Prepared
  <1>3. \A p \in Preparer : proc[p].file \in File /\ proc[p].step # "fill"
    BY <1>1, <1>2, RunFields DEF RunInv
  <1>4. ASSUME NEW p \in Preparer, NEW heard, Ask(p, heard)
        PROVE  UNCHANGED <<file, credential, world, receipt, made>>
    <2>1. /\ Len(proc[p].knows) \in Nat /\ Requests \in Nat
          /\ Len(proc[p].knows) < Requests
      BY <1>1, <1>4, RunFields, RequestsPositive DEF Ask, RunInv
    <2>2. Len(proc[p].knows) + 1 \in 1..Requests
      BY <2>1
    <2>3. receipt[Len(proc[p].knows) + 1] # 0
      BY <1>1, <2>2 DEF EverythingDone
    <2> QED
      BY <1>1, <1>4, <2>3 DEF Ask, Answered, PreparationTypeOK
  <1>5. ASSUME NEW p \in Preparer, StoreCredential(p)
        PROVE  UNCHANGED <<file, credential, world, receipt, made>>
    <2>1. proc[p].file \in Lane /\ Len(proc[p].knows) = Requests
      BY <1>1, <1>5 DEF StoreCredential, RunInv
    <2>2. Tokens(p)[proc[p].file] = credential[proc[p].file]
      BY <1>1, <2>1, KnownTokens DEF EverythingDone, LaneReady
    <2> QED
      BY <1>1, <1>5, <2>2 DEF StoreCredential, PreparationTypeOK
  <1>6. ASSUME NEW p \in Preparer, FileStep(p) \/ FailWrite(p) \/ Crash(p)
        PROVE  UNCHANGED <<file, credential, world, receipt, made>>
    BY <1>2, <1>3, <1>6
       DEF FileStep, RunCommand, ReadFile, OpenFile, FillFile, FailWrite, Crash
  <1>7. ASSUME NEW p \in Preparer,
               RepositoryStep(p) \/ ListProjects(p) \/ \E l \in Lane : FindCredential(p, l)
        PROVE  UNCHANGED <<file, credential, world, receipt, made>>
    BY <1>7 DEF RepositoryStep, FindRepository, CloneRepository, InjectAgentContext,
                AddAgentContext, CommitAgentContext, ListProjects, FindCredential
  <1>8. CASE UNCHANGED prepareVars
    BY <1>8 DEF prepareVars
  <1> QED
    BY <1>4, <1>5, <1>6, <1>7, <1>8
       DEF PrepareNext, PrepareStep, FaultStep, SeedStep

\* Running the command again over a prepared world writes nothing, though a
\* slower run may still be seeding it (collaboration_prepare.go, seed.go).
THEOREM PreparedIsFrozen == PrepareSpec => PreparedFrozen
  BY PreparedStaysFrozen, PreparationInvariance, PTL DEF PrepareSpec, PreparedFrozen

-----------------------------------------------------------------------------
(* The composition *)

\* Each of the two sees only its own steps.
LEMMA Composition ==
    EvaluationSpec => PrepareSpec /\ CollaborationSpec
  <1>1. EvaluationInit => PrepareInit /\ CollaborationInit
    BY DEF EvaluationInit
  <1>2. [EvaluationNext]_evaluationVars =>
           [PrepareNext]_prepareVars /\ [CollaborationNext]_collaborationVars
    BY DEF EvaluationNext, PreparationStep, RolloutStep, evaluationVars, prepareVars,
           collaborationVars
  <1> QED
    BY <1>1, <1>2, PTL DEF EvaluationSpec, PrepareSpec, CollaborationSpec

\* On one directory the two keep what they promise by themselves.
THEOREM EvaluationKeeps ==
    EvaluationSpec => /\ []PreparedWorld /\ PreparedFrozen
                      /\ []DependentWaitsForBarrier
                      /\ []CompletedIsComplete /\ []ScoreTruthful
  BY Composition, PreparedIsComplete, PreparedIsFrozen, BarrierComesFirst, CompletedEpisodes,
     TruthfulScores, PTL

\* An episode is started on a prepared world only.
StartedOnPrepared == at # "idle" => Prepared

LEMMA EpisodeStep ==
    ASSUME PreparationInv, StartedOnPrepared, [EvaluationNext]_evaluationVars
    PROVE  StartedOnPrepared'
  <1>1. CASE PreparationStep
    <2>1. at' = at /\ [PrepareNext]_prepareVars
      BY <1>1 DEF PreparationStep, collaborationVars
    <2>2. Prepared => Prepared'
      BY <2>1, PreparedStaysFrozen DEF Prepared
    <2> QED
      BY <2>1, <2>2 DEF StartedOnPrepared
  <1>2. CASE RolloutStep
    BY <1>2 DEF RolloutStep, Loadable, Prepared, prepareVars, StartedOnPrepared
  <1>3. CASE UNCHANGED evaluationVars
    BY <1>3 DEF evaluationVars, prepareVars, collaborationVars, Prepared, StartedOnPrepared
  <1> QED
    BY <1>1, <1>2, <1>3 DEF EvaluationNext

\* An episode that was started has a prepared world under it as long as the
\* directory is used, with a credential of its own for each lane, whoever runs
\* the preparation meanwhile (loadCollaborationWorld).
THEOREM EpisodesOnPreparedWorlds ==
    EvaluationSpec => [](at # "idle" => Prepared /\ PreparedWorld)
  <1>1. EvaluationInit => StartedOnPrepared
    BY DEF EvaluationInit, CollaborationInit, StartedOnPrepared
  <1>2. EvaluationSpec => []PreparationInv
    BY Composition, PreparationInvariance, PTL
  <1>3. PreparationInv /\ StartedOnPrepared /\ [EvaluationNext]_evaluationVars
           => StartedOnPrepared'
    BY EpisodeStep
  <1>4. EvaluationSpec => []StartedOnPrepared
    BY <1>1, <1>2, <1>3, PTL DEF EvaluationSpec
  <1>5. PreparationInv /\ StartedOnPrepared => (at # "idle" => Prepared /\ PreparedWorld)
    BY WorldIsPrepared DEF StartedOnPrepared
  <1> QED
    BY <1>2, <1>4, <1>5, PTL
=============================================================================
