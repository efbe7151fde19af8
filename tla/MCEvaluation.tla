---------------------------- MODULE MCEvaluation -----------------------------
EXTENDS Evaluation, TLC

CONSTANTS A, B

\* The first request makes the project; the next ones issue the lanes' tokens.
TokenOf == A :> 2 @@ B :> 3
=============================================================================
