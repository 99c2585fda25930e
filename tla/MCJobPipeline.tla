--------------------------- MODULE MCJobPipeline ---------------------------
(***************************************************************************)
(* Instances of JobPipeline for TLC.  Each budget below says what may      *)
(* happen to the job from outside besides the message that starts it; a    *)
(* run allows what one of its budgets allows.                              *)
(***************************************************************************)
EXTENDS JobPipeline

None == [k \in Kinds |-> 0]

\* Enough for the create_job that starts it all.
Message == [None EXCEPT !["message"] = 1]

OneMessage == {Message}
Interruptions == {[Message EXCEPT !["crash"] = 1, !["create"] = 1],
                  [Message EXCEPT !["cancel"] = 1, !["userRetry"] = 1]}
Tools == {[Message EXCEPT !["retry"] = 1, !["userRetry"] = 1],
          [Message EXCEPT !["setup"] = 1]}
=============================================================================
