------------------------------- MODULE JobSpec -------------------------------
(***************************************************************************)
(* What a submitter is promised: the outputs of a job reach storage one by *)
(* one, and the job is reported done only when storage holds all of them.  *)
(* It may also be reported failed, at any time.                            *)
(***************************************************************************)
CONSTANT Outputs

VARIABLES stored,  \* the outputs that storage holds
          answer   \* "none", then "ok" or "err" for good

jobVars == <<stored, answer>>

JobInit == stored = {} /\ answer = "none"

StoreOutput(k) ==
    /\ k \notin stored
    /\ stored' = stored \cup {k}
    /\ UNCHANGED answer

AnswerOk ==
    /\ answer = "none"
    /\ stored = Outputs
    /\ answer' = "ok"
    /\ UNCHANGED stored

AnswerErr ==
    /\ answer = "none"
    /\ answer' = "err"
    /\ UNCHANGED stored

JobNext == (\E k \in Outputs : StoreOutput(k)) \/ AnswerOk \/ AnswerErr

Job == JobInit /\ [][JobNext]_jobVars
=============================================================================
