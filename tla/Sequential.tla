----------------------------- MODULE Sequential -----------------------------
(***************************************************************************)
(* The parts of the program that run in one thread, side by side: each     *)
(* initial state is a job, and the module that knows the job runs it.      *)
(* What they have in common is the answer, the field and the generator.    *)
(***************************************************************************)
EXTENDS Sharing, Numbers, HashBuffer, Messages, Evaluation

vars == << callVars, shamirVars, generatorVars, numberVars, hashVars, messageVars, evaluationVars >>

Init ==
  /\ CallInit
  /\ ShamirInit /\ GeneratorInit /\ NumbersInit
  /\ HashInit /\ MessagesInit /\ EvaluationInit

RunShamir ==
  ShamirNext /\ UNCHANGED << generatorVars, numberVars, hashVars, messageVars, evaluationVars >>
RunSharing ==
  SharingNext /\ UNCHANGED << shamirVars, numberVars, hashVars, messageVars, evaluationVars >>
RunMatrices ==
  MatrixOperation
  /\ UNCHANGED << shamirVars, generatorVars, numberVars, hashVars, messageVars, evaluationVars >>
RunNumbers ==
  NumbersNext /\ UNCHANGED << shamirVars, generatorVars, hashVars, messageVars, evaluationVars >>
RunHash ==
  HashNext /\ UNCHANGED << shamirVars, generatorVars, numberVars, messageVars, evaluationVars >>
RunMessages ==
  MessagesNext /\ UNCHANGED << shamirVars, generatorVars, numberVars, hashVars, evaluationVars >>
RunEvaluation ==
  EvaluationNext /\ UNCHANGED << shamirVars, generatorVars, numberVars, hashVars, messageVars >>

Over == Ended /\ UNCHANGED vars

Next ==
  \/ RunShamir \/ RunSharing \/ RunMatrices \/ RunNumbers
  \/ RunHash \/ RunMessages \/ RunEvaluation
  \/ Over

Spec == Init /\ [][Next]_vars
=============================================================================
