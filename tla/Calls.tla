-------------------------------- MODULE Calls --------------------------------
(***************************************************************************)
(* Code that runs in one thread, from a call to its return.  A job is one  *)
(* call of a function, or a few calls on one object; its field "op" says   *)
(* which module runs it and its other fields are the arguments.  The       *)
(* modules that extend this one share the variables below and bring their  *)
(* own local ones.                                                         *)
(***************************************************************************)

CONSTANT Jobs  \* the jobs to run

VARIABLES
  job,
  pc,     \* where the job is; "returned", "thrown", "refused" and "undefined" are its ends
  answer  \* what was returned; << >> as long as nothing was

callVars == << job, pc, answer >>

CallInit ==
  /\ job \in Jobs
  /\ pc = "start"
  /\ answer = << >>

At(op, l) == job.op = op /\ pc = l
Goto(l) == pc' = l

\* Every action leaves the job alone, and all but the last one of a job the answer.
Continue(l) == Goto(l) /\ UNCHANGED << job, answer >>
Return(v) == Goto("returned") /\ answer' = v /\ UNCHANGED job

Ended == pc \in {"returned", "thrown", "refused", "undefined"}
=============================================================================
