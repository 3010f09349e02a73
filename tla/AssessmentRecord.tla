---------------------------- MODULE AssessmentRecord ----------------------------
(***************************************************************************)
(* What the assessment pipeline promises of its rows, with no page, queue, *)
(* worker, bucket or status: the score is computed from the answers in one *)
(* step, and the report made of the score in one step.  AssessmentPipeline *)
(* implements it.                                                          *)
(*                                                                         *)
(* An excused assessment is one whose answers changed when they should     *)
(* have been settled: its score may be of any answers, its report of any   *)
(* score.                                                                  *)
(***************************************************************************)
CONSTANTS Assessment, Answer, Empty, None

VARIABLES answers, score, report, excused, deleted

vars == <<answers, score, report, excused, deleted>>

Init ==
    /\ answers = [a \in Assessment |-> Empty]
    /\ score = [a \in Assessment |-> None]
    /\ report = [a \in Assessment |-> None]
    /\ excused = {}
    /\ deleted = {}

\* Once there is a score, whoever changes the answers is excused.
Save(a, v) ==
    /\ a \notin deleted
    /\ answers' = [answers EXCEPT ![a] = v]
    /\ \/ score[a] = None /\ UNCHANGED excused
       \/ excused' = excused \cup {a}
    /\ UNCHANGED <<score, report, deleted>>

Excuse(a) ==
    /\ excused' = excused \cup {a}
    /\ UNCHANGED <<answers, score, report, deleted>>

Score(a, v) ==
    /\ a \notin deleted
    /\ a \in excused \/ v = answers[a]
    /\ score' = [score EXCEPT ![a] = v]
    /\ UNCHANGED <<answers, report, excused, deleted>>

Report(a, v) ==
    /\ a \notin deleted
    /\ score[a] # None
    /\ a \in excused \/ v = score[a]
    /\ report' = [report EXCEPT ![a] = v]
    /\ UNCHANGED <<answers, score, excused, deleted>>

Delete(a) ==
    /\ a \notin deleted
    /\ deleted' = deleted \cup {a}
    /\ answers' = [answers EXCEPT ![a] = Empty]
    /\ score' = [score EXCEPT ![a] = None]
    /\ report' = [report EXCEPT ![a] = None]
    /\ UNCHANGED excused

Next ==
    \E a \in Assessment :
        \/ Excuse(a) \/ Delete(a)
        \/ \E v \in Answer : Save(a, v) \/ Score(a, v) \/ Report(a, v)

Spec == Init /\ [][Next]_vars
===============================================================================
