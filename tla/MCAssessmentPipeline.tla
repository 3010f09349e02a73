-------------------------- MODULE MCAssessmentPipeline --------------------------
(* Small instances of AssessmentPipeline for TLC.                          *)
EXTENDS AssessmentPipeline, TLC

\* Small limits: max_receive_count of the deployed queues is 5 and 3.
Short == [score |-> 2, report |-> 2]
Thrice == [score |-> 3, report |-> 3]

\* Answers, pages, jobs and invocations are each alike.
Symmetry == UNION {Permutations(S) : S \in {Answer, Page, Job, Worker}}
===============================================================================
