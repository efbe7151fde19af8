----------------------------- MODULE Evaluation ------------------------------
(***************************************************************************)
(* Preparation and rollout on one ledger directory: the episode starts from *)
(* what prepare-collaboration left there (loadCollaborationWorld and       *)
(* RunCollaborationRollout, evals/harness/collaboration_rollout.go), while *)
(* further runs of the preparation may be at work.                         *)
(***************************************************************************)
EXTENDS Preparation, Collaboration

ASSUME SameLanes == Lane = Lanes

evaluationVars == <<prepareVars, collaborationVars>>

EvaluationInit == PrepareInit /\ CollaborationInit

\* git status is clean, and HEAD is the one that prepared.json names.
BaselineMatches ==
    \/ repository = "committed" /\ world.head = "context"
    \/ repository = "injected" /\ world.head = "baseline"

\* What must be there before the episode's directory is made.
Loadable ==
    /\ Prepared /\ file["scenario"] = "whole"
    /\ BaselineMatches
    /\ \A l \in Lane : credential[l] # 0
    /\ credential[Initial] # credential[Dependent]

PreparationStep == PrepareNext /\ UNCHANGED collaborationVars

\* A world that cannot be loaded ends the command and changes nothing.
RolloutStep ==
    /\ at = "idle" => Loadable
    /\ CollaborationNext
    /\ UNCHANGED prepareVars

EvaluationNext == PreparationStep \/ RolloutStep

EvaluationSpec == EvaluationInit /\ [][EvaluationNext]_evaluationVars

FairEvaluationSpec == EvaluationSpec /\ PrepareFairness /\ EpisodeFairness

=============================================================================
