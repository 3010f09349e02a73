------------------------ MODULE AssessmentPipelineProofs ------------------------
(***************************************************************************)
(* What holds of AssessmentPipeline for any number of assessments, pages,  *)
(* jobs, workers and failures: its types, and that score, report and PDF   *)
(* agree with each other and with the answers.                             *)
(*                                                                         *)
(* The three agreements are not inductive.  A worker stores what it read   *)
(* earlier, so what every worker and every page holds has to be current    *)
(* (CopyInv); that survives because nothing moves an assessment with a     *)
(* live scoring job back to in_progress, where answers are written         *)
(* (FrozenInv), unless overlap says so; and a worker's record is the job   *)
(* it believes it is because no two invocations hold the same job          *)
(* (QueueInv).  A page that has asked for a scoring job counts as one      *)
(* (Live), since the check and the message are two steps.                  *)
(***************************************************************************)
EXTENDS AssessmentPipeline, SequenceTheorems, TLAPS

JobRec == [kind : Kind, of : Assessment \cup {None},
           state : {"none", "queued", "held", "dead"}, receives : Nat]
WorkerRec == [pc : {"idle", "load", "upload", "persist", "return"}, kind : Kind,
              batch : Seq(Job), next : Nat, read : Answer \cup {None}]
PageRec == [stage : Stage, of : Assessment \cup {None}, html : Answer \cup {None}]

RowsTyped ==
    /\ status \in [Assessment -> {"none", "deleted"} \cup DOMAIN AllowedNext]
    /\ answers \in [Assessment -> Content]
    /\ score \in [Assessment -> Answer \cup {None}]
    /\ report \in [Assessment -> Answer \cup {None}]
    /\ overlap \in [Assessment -> BOOLEAN]
BucketTyped ==
    /\ html \in [Assessment -> Answer \cup {None}]
    /\ pdfs \subseteq Assessment \X Answer
OthersTyped ==
    /\ saving \subseteq Assessment \X Answer
    /\ updating \subseteq Assessment \X DOMAIN AllowedNext
    /\ failures \in 0..MaxFailure

\* A page that is open is about an assessment, and has captured something
\* when it says so.
PageOK(x) ==
    /\ x \in PageRec
    /\ x.stage # "away" => x.of \in Assessment
    /\ x.stage = "captured" => x.html \in Answer
PagesInv == page \in [Page -> PageRec] /\ \A p \in Page : PageOK(page[p])

\* An invocation that runs is at a record of its batch, whose jobs it holds.
WorkerOK(x, jobs) ==
    /\ x.pc = "idle" => x.batch = <<>>
    /\ x.pc # "idle" => x.next \in 1..Len(x.batch)
    /\ x.pc \in {"upload", "persist"} => x.read \in Answer
    /\ \A i \in 1..Len(x.batch) : /\ jobs[x.batch[i]].state = "held"
                                  /\ jobs[x.batch[i]].kind = x.kind

QueueInv ==
    /\ job \in [Job -> JobRec]
    /\ worker \in [Worker -> WorkerRec]
    /\ \A j \in Job : job[j].state # "none" => job[j].of \in Assessment
    /\ \A w \in Worker : WorkerOK(worker[w], job)
    /\ \A v, w \in Worker : \A j \in Job : In(j, v) /\ In(j, w) => v = w

\* Job x will have a scored, or is having it scored.
ScoringJob(x, a) == x.kind = "score" /\ x.of = a /\ x.state \in {"queued", "held"}

\* A page has asked for a scoring job of a, or there is one.
Live(a) == Asked(a) \/ \E j \in Job : ScoringJob(job[j], a)

\* Nothing is written to the answers of an assessment with a live scoring job.
FrozenInv ==
    \A a \in Assessment : Live(a) /\ ~overlap[a] => status[a] \notin {"none", "in_progress"}

\* A stored score is current and shows in the status; what is deleted, or does
\* not exist yet, has neither score nor report.
ScoreInv ==
    \A a \in Assessment :
        /\ score[a] # None /\ ~overlap[a] =>
              status[a] \in {"scored", "report_generated"} /\ score[a] = answers[a]
        /\ status[a] \in {"none", "deleted"} => score[a] = None /\ report[a] = None

\* c is a copy of the stored score of a.
Current(a, c) == c # None /\ ~overlap[a] /\ status[a] # "deleted" => c = score[a]

\* What worker w holds for assessment a is current.
HeldInv(w, a) ==
    /\ At(w, "score", "persist") /\ ~overlap[a] /\ status[a] # "deleted" =>
          worker[w].read = answers[a]
    /\ At(w, "report", "upload") \/ At(w, "report", "persist") => Current(a, worker[w].read)
    /\ At(w, "report", "persist") => <<a, worker[w].read>> \in pdfs

CopyInv ==
    /\ \A a \in Assessment : Current(a, report[a]) /\ Current(a, html[a])
    /\ \A p \in Page : page[p].stage = "captured" => Current(page[p].of, page[p].html)
    /\ \A w \in Worker : worker[w].pc # "idle" => HeldInv(w, Subject(w))

IInv ==
    /\ RowsTyped /\ BucketTyped /\ OthersTyped /\ PagesInv /\ QueueInv
    /\ FrozenInv /\ ScoreInv /\ CopyInv /\ ReportIsStored

-------------------------------------------------------------------------------
(* What a step leaves alone.                                               *)

\* An assessment that is neither overlapped nor deleted was not before either;
\* its score, once there, stays, and so do its answers under a scoring job.
RowsRely ==
    \A a \in Assessment : ~overlap'[a] /\ status'[a] # "deleted" =>
        /\ ~overlap[a] /\ status[a] # "deleted"
        /\ score[a] # None => score'[a] = score[a]
        /\ (\E j \in Job : ScoringJob(job[j], a)) => answers'[a] = answers[a]

\* Worker v and the job it is at.
Kept(v) ==
    /\ worker'[v] = worker[v]
    /\ worker[v].pc # "idle" => job'[Record(v)].of = Subject(v)

NoNewScoring ==
    \A j \in Job : \A a \in Assessment : ScoringJob(job'[j], a) => ScoringJob(job[j], a)

CurrentAfter(a, c) == c # None /\ ~overlap'[a] /\ status'[a] # "deleted" => c = score'[a]

\* The statuses, and which of them lead back to in_progress.
LEMMA Transitions ==
    /\ DOMAIN AllowedNext = {"in_progress", "completed", "scored", "report_generated"}
    /\ \A s \in DOMAIN AllowedNext : AllowedNext[s] \subseteq DOMAIN AllowedNext
    /\ \A s \in DOMAIN AllowedNext : "in_progress" \in AllowedNext[s] => s = "completed"
    /\ AllowedNext["scored"] = {"report_generated"}
    /\ AllowedNext["report_generated"] = {}
BY DEF AllowedNext

\* The record an invocation is at is a job it holds.
LEMMA RecordHeld ==
    ASSUME QueueInv, NEW w \in Worker, worker[w].pc # "idle"
    PROVE  /\ Record(w) \in Job /\ In(Record(w), w)
           /\ job[Record(w)].state = "held" /\ job[Record(w)].kind = worker[w].kind
           /\ Subject(w) \in Assessment
<1>1. worker[w] \in WorkerRec /\ WorkerOK(worker[w], job)
  BY DEF QueueInv
<1>2. worker[w].next \in 1..Len(worker[w].batch) /\ worker[w].batch \in Seq(Job)
  BY <1>1 DEF WorkerOK, WorkerRec
<1>3. Record(w) \in Job
  BY <1>2, ElementOfSeq DEF Record
<1>4. In(Record(w), w) /\ job[Record(w)].state = "held" /\ job[Record(w)].kind = worker[w].kind
  BY <1>1, <1>2 DEF In, Record, WorkerOK
<1>5. Subject(w) \in Assessment
  BY <1>3, <1>4 DEF QueueInv, Subject
<1> QED
  BY <1>3, <1>4, <1>5

LEMMA CopyKept ==
    ASSUME RowsRely, NEW a \in Assessment, NEW c, Current(a, c)
    PROVE  CurrentAfter(a, c)
BY DEF RowsRely, Current, CurrentAfter

LEMMA HeldKept ==
    ASSUME IInv, RowsRely, pdfs \subseteq pdfs', NEW w \in Worker, worker[w].pc # "idle", Kept(w)
    PROVE  HeldInv(w, Subject(w))'
<1> DEFINE a == Subject(w)
<1>1. a \in Assessment /\ Record(w) \in Job
      /\ (worker[w].kind = "score" => ScoringJob(job[Record(w)], a))
  BY RecordHeld DEF IInv, ScoringJob, Subject
<1>2. worker'[w] = worker[w] /\ Subject(w)' = a
  BY DEF Kept, Subject, Record
<1>3. HeldInv(w, a)
  BY DEF IInv, CopyInv
<1>4. ASSUME worker[w].kind = "score", worker[w].pc = "persist", ~overlap'[a], status'[a] # "deleted"
      PROVE  worker[w].read = answers'[a]
  <2>1. ~overlap[a] /\ status[a] # "deleted" /\ answers'[a] = answers[a]
    BY <1>1, <1>4 DEF RowsRely
  <2> QED
    BY <1>3, <1>4, <2>1 DEF HeldInv, At
<1>5. ASSUME worker[w].kind = "report", worker[w].pc \in {"upload", "persist"}
      PROVE  CurrentAfter(a, worker[w].read)
  <2>1. Current(a, worker[w].read)
    BY <1>3, <1>5 DEF HeldInv, At
  <2> QED
    BY <1>1, <2>1, CopyKept
<1>6. worker[w].kind = "report" /\ worker[w].pc = "persist" => <<a, worker[w].read>> \in pdfs'
  BY <1>3 DEF HeldInv, At
<1> HIDE DEF a
<1> QED
  BY <1>2, <1>4, <1>5, <1>6 DEF HeldInv, At, Current, CurrentAfter

\* Every copy is one that was there, or one that is current after the step.
LEMMA CopiesAgree ==
    ASSUME IInv, RowsRely, pdfs \subseteq pdfs', PagesInv', QueueInv',
           \A a \in Assessment : \/ report'[a] \in {report[a], None}
                                 \/ CurrentAfter(a, report'[a])
                                    /\ <<a, report'[a]>> \in pdfs',
           \A a \in Assessment : html'[a] = html[a] \/ CurrentAfter(a, html'[a]),
           \A p \in Page : page'[p].stage = "captured" =>
               page'[p] = page[p] \/ CurrentAfter(page'[p].of, page'[p].html),
           \A w \in Worker : worker'[w].pc # "idle" => Kept(w) \/ HeldInv(w, Subject(w))'
    PROVE  CopyInv' /\ ReportIsStored'
<1>1. ASSUME NEW a \in Assessment
      PROVE  CurrentAfter(a, report'[a]) /\ CurrentAfter(a, html'[a])
  <2>1. Current(a, report[a]) /\ Current(a, html[a])
    BY DEF IInv, CopyInv
  <2>2. CurrentAfter(a, report[a]) /\ CurrentAfter(a, html[a]) /\ CurrentAfter(a, None)
    BY <2>1, CopyKept DEF CurrentAfter
  <2> QED
    BY <2>2
<1>2. ASSUME NEW p \in Page, page'[p].stage = "captured"
      PROVE  CurrentAfter(page'[p].of, page'[p].html)
  <2>1. CASE page'[p] = page[p]
    <3>1. page[p].of \in Assessment /\ Current(page[p].of, page[p].html)
      BY <1>2, <2>1 DEF IInv, PagesInv, PageOK, CopyInv
    <3>2. CurrentAfter(page[p].of, page[p].html)
      BY <3>1, CopyKept
    <3> QED
      BY <2>1, <3>2
  <2>2. CASE page'[p] # page[p]
    BY <1>2, <2>2
  <2> QED
    BY <2>1, <2>2
<1>3. ASSUME NEW w \in Worker, worker'[w].pc # "idle"
      PROVE  HeldInv(w, Subject(w))'
  <2>1. CASE Kept(w)
    <3>1. worker[w].pc # "idle"
      BY <1>3, <2>1 DEF Kept
    <3> QED
      BY <2>1, <3>1, HeldKept
  <2>2. CASE ~Kept(w)
    BY <1>3, <2>2
  <2> QED
    BY <2>1, <2>2
<1>4. CopyInv'
  <2>1. \A a \in Assessment : Current(a, report[a])' /\ Current(a, html[a])'
    BY <1>1 DEF Current, CurrentAfter
  <2>2. \A p \in Page : page'[p].stage = "captured" => Current(page[p].of, page[p].html)'
    BY <1>2 DEF Current, CurrentAfter
  <2> QED
    BY <1>3, <2>1, <2>2 DEF CopyInv
<1>5. ReportIsStored'
  <2>1. \A a \in Assessment : report[a] # None => <<a, report[a]>> \in pdfs'
    BY DEF IInv, ReportIsStored
  <2> QED
    BY <2>1 DEF ReportIsStored
<1> QED
  BY <1>4, <1>5

LEMMA SameRows ==
    ASSUME IInv, UNCHANGED rows
    PROVE  /\ RowsTyped' /\ ScoreInv' /\ RowsRely
           /\ \A a \in Assessment : \A c : Current(a, c) => CurrentAfter(a, c)
<1>1. UNCHANGED <<status, answers, score, report, overlap>>
  BY DEF rows
<1> QED
  BY <1>1 DEF IInv, RowsTyped, ScoreInv, RowsRely, Current, CurrentAfter

LEMMA SameQueue ==
    ASSUME IInv, UNCHANGED <<job, worker>>
    PROVE  QueueInv' /\ NoNewScoring /\ \A w \in Worker : Kept(w)
<1>1. QueueInv'
  BY DEF IInv, QueueInv, WorkerOK, In
<1> QED
  BY <1>1 DEF NoNewScoring, Kept, Subject, Record

\* No assessment falls back to in_progress and no scoring job appears.
LEMMA FrozenKept ==
    ASSUME IInv, NoNewScoring, \A a \in Assessment : Asked(a)' => Asked(a),
           \A a \in Assessment : ~overlap'[a] /\ status'[a] \in {"none", "in_progress"} =>
               \/ ~overlap[a] /\ status[a] \in {"none", "in_progress"}
               \/ ~Live(a)
    PROVE  FrozenInv'
<1>1. ASSUME NEW a \in Assessment, Live(a)', ~overlap'[a]
      PROVE  status'[a] \notin {"none", "in_progress"}
  <2>1. Live(a)
    BY <1>1 DEF NoNewScoring, Live
  <2> QED
    BY <1>1, <2>1 DEF IInv, FrozenInv
<1> QED
  BY <1>1 DEF FrozenInv

-------------------------------------------------------------------------------
(* The API.                                                                *)

\* A step of the API leaves pages, queues and bucket alone.
LEMMA ApiStep ==
    ASSUME IInv, RowsRely, RowsTyped', OthersTyped', ScoreInv',
           UNCHANGED <<bucket, page, job, worker>>,
           \A a \in Assessment : report'[a] \in {report[a], None},
           \A a \in Assessment : ~overlap'[a] /\ status'[a] \in {"none", "in_progress"} =>
               \/ ~overlap[a] /\ status[a] \in {"none", "in_progress"}
               \/ ~Live(a)
    PROVE  IInv'
<1>1. UNCHANGED <<html, pdfs, page, job, worker>>
  BY DEF bucket
<1>2. BucketTyped' /\ PagesInv'
  BY <1>1 DEF IInv, BucketTyped, PagesInv, PageOK
<1>3. QueueInv' /\ NoNewScoring /\ \A w \in Worker : Kept(w)
  BY <1>1, SameQueue
<1>4. FrozenInv'
  BY <1>1, <1>3, FrozenKept DEF Asked
<1>5. CopyInv' /\ ReportIsStored'
  BY <1>1, <1>2, <1>3, CopiesAgree
<1> QED
  BY <1>2, <1>3, <1>4, <1>5 DEF IInv

LEMMA CreateKeeps ==
    ASSUME IInv, NEW a \in Assessment, Create(a)
    PROVE  IInv'
<1>1. /\ status[a] = "none" /\ status' = [status EXCEPT ![a] = "in_progress"]
      /\ UNCHANGED <<answers, score, report, overlap, bucket, saving, updating, page, job, worker, failures>>
  BY DEF Create
<1>2. RowsTyped' /\ OthersTyped'
  BY <1>1, Transitions DEF IInv, RowsTyped, OthersTyped
<1>3. RowsRely
  BY <1>1 DEF IInv, RowsTyped, RowsRely
<1>4. ScoreInv'
  BY <1>1 DEF IInv, RowsTyped, ScoreInv
<1>5. \A b \in Assessment : status'[b] \in {"none", "in_progress"} =>
          status[b] \in {"none", "in_progress"}
  BY <1>1 DEF IInv, RowsTyped
<1> QED
  BY <1>1, <1>2, <1>3, <1>4, <1>5, ApiStep

LEMMA AdmitSaveKeeps ==
    ASSUME IInv, NEW a \in Assessment, NEW v \in Answer, AdmitSave(a, v)
    PROVE  IInv'
<1>1. UNCHANGED <<rows, bucket, page, job, worker>> /\ OthersTyped'
  BY DEF AdmitSave, IInv, OthersTyped
<1>2. UNCHANGED <<status, report, overlap>>
  BY <1>1 DEF rows
<1> QED
  BY <1>1, <1>2, SameRows, ApiStep

LEMMA CommitSaveKeeps ==
    ASSUME IInv, NEW a \in Assessment, NEW v \in Answer, CommitSave(a, v)
    PROVE  IInv'
<1>1. /\ answers' = [answers EXCEPT ![a] = IF Stored(a) THEN v ELSE answers[a]]
      /\ overlap' = [overlap EXCEPT ![a] = overlap[a] \/ status[a] # "in_progress"]
      /\ saving' \subseteq saving
      /\ UNCHANGED <<status, score, report, bucket, updating, page, job, worker, failures>>
  BY DEF CommitSave
<1>2. RowsTyped' /\ OthersTyped'
  BY <1>1 DEF IInv, RowsTyped, OthersTyped, Content
<1>3. /\ ~overlap'[a] => ~overlap[a] /\ status[a] = "in_progress"
      /\ \A b \in Assessment \ {a} : overlap'[b] = overlap[b] /\ answers'[b] = answers[b]
  BY <1>1 DEF IInv, RowsTyped
<1>4. ~overlap'[a] => score[a] = None /\ \A j \in Job : ~ScoringJob(job[j], a)
  BY <1>3 DEF IInv, ScoreInv, FrozenInv, Live
<1>5. RowsRely
  BY <1>1, <1>3, <1>4 DEF RowsRely
<1>6. ScoreInv'
  BY <1>1, <1>3, <1>4 DEF IInv, ScoreInv
<1> QED
  BY <1>1, <1>2, <1>3, <1>5, <1>6, ApiStep

LEMMA AdmitUpdateKeeps ==
    ASSUME IInv, NEW a \in Assessment, NEW new \in Wanted, AdmitUpdate(a, new)
    PROVE  IInv'
<1>1. /\ status[a] \in DOMAIN AllowedNext /\ new \in AllowedNext[status[a]]
      /\ updating' = updating \cup {<<a, new>>}
      /\ UNCHANGED <<rows, bucket, saving, page, job, worker, failures>>
  BY DEF AdmitUpdate, Stored
<1>2. OthersTyped'
  BY <1>1, Transitions DEF IInv, OthersTyped
<1>3. UNCHANGED <<status, report, overlap>>
  BY <1>1 DEF rows
<1> QED
  BY <1>1, <1>2, <1>3, SameRows, ApiStep

\* A status that is committed late leaves nothing to promise.
LEMMA WriteStatusOK ==
    ASSUME IInv, NEW a \in Assessment, NEW new \in DOMAIN AllowedNext, WriteStatus(a, new)
    PROVE  /\ RowsTyped' /\ RowsRely /\ ScoreInv' /\ UNCHANGED report
           /\ updating' \subseteq Assessment \X DOMAIN AllowedNext
           /\ \A b \in Assessment : ~overlap'[b] /\ status'[b] \in {"none", "in_progress"} =>
                 \/ ~overlap[b] /\ status[b] \in {"none", "in_progress"}
                 \/ ~Live(b)
<1>1. /\ updating' \subseteq updating
      /\ status' = [status EXCEPT ![a] = IF Stored(a) THEN new ELSE status[a]]
      /\ overlap' = [overlap EXCEPT ![a] =
                        \/ overlap[a]
                        \/ new = "in_progress" /\ (Scoring(a) \/ Asked(a))
                        \/ Stored(a) /\ new \notin AllowedNext[status[a]] \cup {status[a]}]
      /\ UNCHANGED <<answers, score, report>>
  BY DEF WriteStatus
<1>2. RowsTyped'
  BY <1>1 DEF IInv, RowsTyped
<1>3. /\ ~overlap'[a] => /\ ~overlap[a]
                         /\ new = "in_progress" => ~Scoring(a) /\ ~Asked(a)
                         /\ Stored(a) => new \in AllowedNext[status[a]] \cup {status[a]}
      /\ \A b \in Assessment \ {a} : overlap'[b] = overlap[b] /\ status'[b] = status[b]
      /\ status'[a] = IF Stored(a) THEN new ELSE status[a]
  BY <1>1 DEF IInv, RowsTyped
<1>4. RowsRely
  BY <1>1, <1>3, Transitions DEF RowsRely, Stored
<1>5. ASSUME ~overlap'[a], Stored(a), status[a] \in {"scored", "report_generated"}
      PROVE  new \in {"scored", "report_generated"}
  BY <1>3, <1>5, Transitions
<1>6. new \notin {"none", "deleted"}
  BY Transitions
<1>7. ScoreInv'
  <2>1. ASSUME NEW b \in Assessment \ {a}
        PROVE  /\ score'[b] # None /\ ~overlap'[b] =>
                    status'[b] \in {"scored", "report_generated"} /\ score'[b] = answers'[b]
               /\ status'[b] \in {"none", "deleted"} => score'[b] = None /\ report'[b] = None
    BY <1>1, <1>3 DEF IInv, ScoreInv
  <2>2. /\ score'[a] # None /\ ~overlap'[a] =>
              status'[a] \in {"scored", "report_generated"} /\ score'[a] = answers'[a]
        /\ status'[a] \in {"none", "deleted"} => score'[a] = None /\ report'[a] = None
    BY <1>1, <1>3, <1>5, <1>6 DEF IInv, ScoreInv
  <2> QED
    BY <2>1, <2>2 DEF ScoreInv
<1>8. ~Scoring(a) /\ ~Asked(a) => ~Live(a)
  BY DEF Scoring, ScoringJob, Live
<1>9. updating' \subseteq Assessment \X DOMAIN AllowedNext
  BY <1>1 DEF IInv, OthersTyped
<1>10. ASSUME NEW b \in Assessment, ~overlap'[b], status'[b] \in {"none", "in_progress"}
       PROVE  \/ ~overlap[b] /\ status[b] \in {"none", "in_progress"}
              \/ ~Live(b)
  <2>1. CASE b # a
    BY <1>3, <1>10, <2>1
  <2>2. CASE b = a /\ Stored(a)
    BY <1>3, <1>6, <1>8, <1>10, <2>2
  <2>3. CASE b = a /\ ~Stored(a)
    BY <1>3, <1>10, <2>3
  <2> QED
    BY <2>1, <2>2, <2>3
<1> QED
  BY <1>1, <1>2, <1>4, <1>7, <1>9, <1>10

\* What is to be committed is a status.
LEMMA Admitted ==
    ASSUME IInv, NEW a \in Assessment, NEW new, WriteStatus(a, new)
    PROVE  new \in DOMAIN AllowedNext
BY DEF WriteStatus, IInv, OthersTyped

LEMMA CommitUpdateKeeps ==
    ASSUME IInv, NEW a \in Assessment, NEW new \in Wanted, CommitUpdate(a, new)
    PROVE  IInv'
<1>1. WriteStatus(a, new) /\ UNCHANGED <<bucket, saving, page, job, worker, failures>>
  BY DEF CommitUpdate
<1>2. /\ RowsTyped' /\ RowsRely /\ ScoreInv' /\ UNCHANGED report
      /\ updating' \subseteq Assessment \X DOMAIN AllowedNext
      /\ \A b \in Assessment : ~overlap'[b] /\ status'[b] \in {"none", "in_progress"} =>
            \/ ~overlap[b] /\ status[b] \in {"none", "in_progress"}
            \/ ~Live(b)
  BY <1>1, Admitted, WriteStatusOK
<1>3. OthersTyped'
  BY <1>1, <1>2 DEF IInv, OthersTyped
<1> QED
  BY <1>1, <1>2, <1>3, ApiStep

LEMMA DeleteKeeps ==
    ASSUME IInv, NEW a \in Assessment, Delete(a)
    PROVE  IInv'
<1>1. /\ status' = [status EXCEPT ![a] = "deleted"]
      /\ answers' = [answers EXCEPT ![a] = Empty]
      /\ score' = [score EXCEPT ![a] = None]
      /\ report' = [report EXCEPT ![a] = None]
      /\ UNCHANGED <<overlap, bucket, saving, updating, page, job, worker, failures>>
  BY DEF Delete
<1>2. RowsTyped' /\ OthersTyped'
  BY <1>1 DEF IInv, RowsTyped, OthersTyped, Content
<1>3. RowsRely
  BY <1>1 DEF IInv, RowsTyped, RowsRely
<1>4. ScoreInv'
  BY <1>1 DEF IInv, RowsTyped, ScoreInv
<1>5. \A b \in Assessment : /\ report'[b] \in {report[b], None}
                            /\ status'[b] \in {"none", "in_progress"} => status[b] = status'[b]
  BY <1>1 DEF IInv, RowsTyped
<1> QED
  BY <1>1, <1>2, <1>3, <1>4, <1>5, ApiStep

-------------------------------------------------------------------------------
(* The browser.                                                            *)

\* Page p becomes y; the bucket keeps current snapshots, the queues may grow.
LEMMA PageStep ==
    ASSUME IInv, NEW p \in Page, NEW y, PageOK(y), page' = [page EXCEPT ![p] = y],
           y.stage = "captured" => Current(y.of, y.html),
           UNCHANGED <<rows, pdfs, saving, updating, failures>>,
           html' \in [Assessment -> Answer \cup {None}],
           \A a \in Assessment : html'[a] = html[a] \/ Current(a, html'[a]),
           QueueInv', FrozenInv', \A w \in Worker : Kept(w)
    PROVE  IInv'
<1>1. /\ RowsTyped' /\ ScoreInv' /\ RowsRely
      /\ \A a \in Assessment : \A c : Current(a, c) => CurrentAfter(a, c)
  BY SameRows
<1>2. BucketTyped' /\ OthersTyped'
  BY DEF IInv, BucketTyped, OthersTyped
<1>3. \A q \in Page : page'[q] = IF q = p THEN y ELSE page[q]
  BY DEF IInv, PagesInv
<1>4. PagesInv'
  BY <1>3 DEF IInv, PagesInv, PageOK
<1>5. \A a \in Assessment : report'[a] = report[a]
  BY DEF rows
<1>6. \A q \in Page : page'[q].stage = "captured" =>
          page'[q] = page[q] \/ CurrentAfter(page'[q].of, page'[q].html)
  <2>1. y.stage = "captured" => y.of \in Assessment
    BY DEF PageOK
  <2> QED
    BY <1>1, <1>3, <2>1
<1>7. CopyInv' /\ ReportIsStored'
  BY <1>1, <1>4, <1>5, <1>6, CopiesAgree
<1> QED
  BY <1>1, <1>2, <1>4, <1>7 DEF IInv

\* Page p becomes y, which may ask for a scoring job.
LEMMA FrozenPage ==
    ASSUME IInv, NEW p \in Page, NEW y, PageOK(y), page' = [page EXCEPT ![p] = y],
           y.stage = "sending" => status[y.of] \notin {"none", "in_progress"},
           UNCHANGED rows, NoNewScoring
    PROVE  FrozenInv'
<1>1. ASSUME NEW a \in Assessment, Live(a)', ~overlap[a]
      PROVE  status[a] \notin {"none", "in_progress"}
  <2>1. Live(a) \/ (y.stage = "sending" /\ y.of = a)
    <3>1. \A q \in Page : page'[q] = IF q = p THEN y ELSE page[q]
      BY DEF IInv, PagesInv
    <3> QED
      BY <1>1, <3>1 DEF Live, Asked, NoNewScoring
  <2> QED
    BY <1>1, <2>1 DEF IInv, FrozenInv
<1> QED
  BY <1>1 DEF FrozenInv, rows

\* Nothing but page p changes.
LEMMA PageOnly ==
    ASSUME IInv, NEW p \in Page, NEW y, PageOK(y), page' = [page EXCEPT ![p] = y],
           y.stage = "captured" => Current(y.of, y.html),
           y.stage = "sending" => status[y.of] \notin {"none", "in_progress"},
           UNCHANGED <<rows, bucket, saving, updating, job, worker, failures>>
    PROVE  IInv'
<1>1. QueueInv' /\ NoNewScoring /\ \A w \in Worker : Kept(w)
  BY SameQueue
<1>2. FrozenInv'
  BY <1>1, FrozenPage
<1>3. html' = html /\ pdfs' = pdfs
  BY DEF bucket
<1>4. html' \in [Assessment -> Answer \cup {None}]
  BY <1>3 DEF IInv, BucketTyped
<1> QED
  BY <1>1, <1>2, <1>3, <1>4, PageStep

Turned(p, stage) == [stage |-> stage, of |-> Of(p), html |-> None]

LEMMA TurnedOK ==
    ASSUME IInv, NEW p \in Page, page[p].stage # "away",
           NEW stage \in Stage \ {"away", "captured"}, Turn(p, stage)
    PROVE  /\ page' = [page EXCEPT ![p] = Turned(p, stage)]
           /\ PageOK(Turned(p, stage)) /\ Turned(p, stage).stage = stage
           /\ Turned(p, stage).of = Of(p)
<1>1. page[p] \in PageRec /\ PageOK(page[p])
  BY DEF IInv, PagesInv
<1>2. page' = [page EXCEPT ![p] = Turned(p, stage)]
  BY DEF Turn, Turned
<1>3. Turned(p, stage) \in PageRec /\ Turned(p, stage).stage = stage
      /\ Turned(p, stage).of = page[p].of
  BY <1>1 DEF Turned, PageRec, Of
<1> QED
  BY <1>1, <1>2, <1>3 DEF PageOK, Of

LEMMA TurnKeeps ==
    ASSUME IInv, NEW p \in Page, page[p].stage # "away",
           NEW stage \in Stage \ {"away", "captured"}, Turn(p, stage),
           stage = "sending" => status[Of(p)] \notin {"none", "in_progress"},
           UNCHANGED <<rows, bucket, saving, updating, job, worker, failures>>
    PROVE  IInv'
BY TurnedOK, PageOnly

LEMMA AwayKeeps ==
    ASSUME IInv, NEW p \in Page, Away(p),
           UNCHANGED <<rows, bucket, saving, updating, job, worker, failures>>
    PROVE  IInv'
<1>1. PageOK(NoPage) /\ NoPage.stage \notin {"captured", "sending"}
  BY DEF NoPage, PageOK, PageRec, Stage
<1> QED
  BY <1>1, PageOnly DEF Away

\* The steps of the page that send nothing and store nothing.
LEMMA QuietPageKeeps ==
    ASSUME IInv, NEW p \in Page,
           \/ AskForScoring(p) \/ PollScored(p) \/ PollReport(p)
           \/ GiveUp(p) \/ Retry(p) \/ Leave(p)
    PROVE  IInv'
<1>1. CASE PollScored(p)
  BY <1>1, TurnKeeps, AwayKeeps DEF PollScored, Stage
<1>2. CASE PollReport(p)
  BY <1>2, AwayKeeps DEF PollReport
<1>3. CASE GiveUp(p)
  BY <1>3, TurnKeeps DEF GiveUp, Stage
<1>4. CASE Retry(p)
  BY <1>4, TurnKeeps DEF Retry, Stage
<1>5. CASE Leave(p)
  BY <1>5, AwayKeeps DEF Leave
<1>6. CASE AskForScoring(p)
  <2>1. page[p].stage = "marked"
        /\ UNCHANGED <<rows, bucket, saving, updating, job, worker, failures>>
    BY <1>6 DEF AskForScoring
  <2>2. CASE status[Of(p)] \in {"completed", "scored"} /\ Turn(p, "sending")
    BY <2>1, <2>2, TurnKeeps DEF Stage
  <2>3. CASE Turn(p, "polling")
    BY <2>1, <2>3, TurnKeeps DEF Stage
  <2>4. CASE Away(p)
    BY <2>1, <2>4, AwayKeeps
  <2> QED
    BY <1>6, <2>2, <2>3, <2>4 DEF AskForScoring
<1> QED
  BY <1>1, <1>2, <1>3, <1>4, <1>5, <1>6

LEMMA CaptureKeeps ==
    ASSUME IInv, NEW p \in Page, CapturePrintHtml(p)
    PROVE  IInv'
<1> DEFINE a == Of(p)
           y == [stage |-> "captured", of |-> a, html |-> score[a]]
<1>1. a \in Assessment
  BY DEF CapturePrintHtml, IInv, PagesInv, PageOK, Of
<1>2. score[a] \in Answer
  BY <1>1 DEF CapturePrintHtml, IInv, RowsTyped
<1>3. PageOK(y) /\ Current(y.of, y.html) /\ y.stage # "sending"
  BY <1>1, <1>2 DEF PageOK, PageRec, Stage, Current
<1>4. page' = [page EXCEPT ![p] = y] /\ UNCHANGED <<rows, bucket, saving, updating, job, worker, failures>>
  BY DEF CapturePrintHtml
<1> HIDE DEF y
<1> QED
  BY <1>3, <1>4, PageOnly

LEMMA UploadPrintHtmlKeeps ==
    ASSUME IInv, NEW p \in Page, UploadPrintHtml(p)
    PROVE  IInv'
<1> DEFINE a == Of(p)
<1>1. /\ page[p].stage = "captured" /\ Turn(p, "uploaded")
      /\ html' = [html EXCEPT ![a] = page[p].html]
      /\ UNCHANGED <<rows, pdfs, saving, updating, job, worker, failures>>
  BY DEF UploadPrintHtml
<1>2. a \in Assessment /\ page[p].html \in Answer /\ Current(a, page[p].html)
  BY <1>1 DEF IInv, PagesInv, PageOK, Of, CopyInv
<1>3. html' \in [Assessment -> Answer \cup {None}]
      /\ \A b \in Assessment : html'[b] = html[b] \/ Current(b, html'[b])
  BY <1>1, <1>2 DEF IInv, BucketTyped
<1>4. QueueInv' /\ NoNewScoring /\ \A w \in Worker : Kept(w)
  BY <1>1, SameQueue
<1>5. page' = [page EXCEPT ![p] = Turned(p, "uploaded")]
      /\ PageOK(Turned(p, "uploaded")) /\ Turned(p, "uploaded").stage = "uploaded"
  BY <1>1, TurnedOK DEF Stage
<1>6. FrozenInv'
  BY <1>1, <1>4, <1>5, FrozenPage
<1> QED
  BY <1>1, <1>3, <1>4, <1>5, <1>6, PageStep

LEMMA MarkCompletedKeeps ==
    ASSUME IInv, NEW p \in Page, NEW a \in Assessment, MarkCompleted(p, a)
    PROVE  IInv'
<1> DEFINE y == [stage |-> "marked", of |-> a, html |-> None]
<1>1. /\ UNCHANGED <<rows, updating>> \/ WriteStatus(a, "completed")
      /\ page' = [page EXCEPT ![p] = y]
      /\ UNCHANGED <<html, pdfs, saving, job, worker, failures>>
  BY DEF MarkCompleted, bucket
<1>2. PageOK(y) /\ y.stage \notin {"captured", "sending"}
  BY DEF PageOK, PageRec, Stage
<1> HIDE DEF y
<1>3. CASE UNCHANGED <<rows, updating>>
  BY <1>1, <1>2, <1>3, PageOnly DEF bucket
<1>4. CASE WriteStatus(a, "completed")
  <2>1. /\ RowsTyped' /\ RowsRely /\ ScoreInv' /\ UNCHANGED report
        /\ updating' \subseteq Assessment \X DOMAIN AllowedNext
        /\ \A b \in Assessment : ~overlap'[b] /\ status'[b] \in {"none", "in_progress"} =>
              \/ ~overlap[b] /\ status[b] \in {"none", "in_progress"}
              \/ ~Live(b)
    BY <1>4, Transitions, WriteStatusOK
  <2>2. BucketTyped' /\ OthersTyped'
    BY <1>1, <2>1 DEF IInv, BucketTyped, OthersTyped
  <2>3. QueueInv' /\ NoNewScoring /\ \A w \in Worker : Kept(w)
    BY <1>1, SameQueue
  <2>4. \A q \in Page : page'[q] = IF q = p THEN y ELSE page[q]
    BY <1>1 DEF IInv, PagesInv
  <2>5. FrozenInv'
    <3>1. \A b \in Assessment : Asked(b)' => Asked(b)
      BY <1>2, <2>4 DEF Asked
    <3> QED
      BY <2>1, <2>3, <3>1, FrozenKept
  <2>6. PagesInv' /\ \A q \in Page : page'[q].stage = "captured" => page'[q] = page[q]
    BY <1>1, <1>2 DEF IInv, PagesInv, PageOK
  <2>7. CopyInv' /\ ReportIsStored'
    BY <1>1, <2>1, <2>3, <2>6, CopiesAgree
  <2> QED
    BY <2>1, <2>2, <2>3, <2>5, <2>6, <2>7 DEF IInv
<1> QED
  BY <1>1, <1>3, <1>4

\* A new job is nobody's.
LEMMA SendOK ==
    ASSUME IInv, NEW kind \in Kind, NEW a \in Assessment, Send(kind, a), UNCHANGED <<rows, worker>>,
           \A b \in Assessment : Asked(b)' => Asked(b),
           kind = "score" => overlap[a] \/ status[a] \notin {"none", "in_progress"}
    PROVE  QueueInv' /\ FrozenInv' /\ \A w \in Worker : Kept(w)
<1> DEFINE y == [kind |-> kind, of |-> a, state |-> "queued", receives |-> 0]
<1>1. PICK i \in Job : job[i].state = "none" /\ job' = [job EXCEPT ![i] = y]
  BY DEF Send
<1>2. y \in JobRec /\ y.of = a /\ y.kind = kind
  BY DEF JobRec
<1> HIDE DEF y
<1>3. job' \in [Job -> JobRec] /\ \A j \in Job : job'[j] = IF j = i THEN y ELSE job[j]
  BY <1>1, <1>2 DEF IInv, QueueInv
<1>4. \A w \in Worker : \A k \in 1..Len(worker[w].batch) :
          job'[worker[w].batch[k]] = job[worker[w].batch[k]]
  <2>1. \A w \in Worker : \A k \in 1..Len(worker[w].batch) :
            worker[w].batch[k] \in Job /\ job[worker[w].batch[k]].state = "held"
    <3>1. \A w \in Worker : worker[w].batch \in Seq(Job)
      BY DEF IInv, QueueInv, WorkerRec
    <3> QED
      BY <3>1, ElementOfSeq DEF IInv, QueueInv, WorkerOK
  <2> QED
    BY <1>1, <1>3, <2>1
<1>5. \A w \in Worker : WorkerOK(worker[w], job)'
  BY <1>4 DEF IInv, QueueInv, WorkerOK
<1>6. QueueInv'
  BY <1>2, <1>3, <1>5 DEF IInv, QueueInv, In
<1>7. \A w \in Worker : Kept(w)
  <2>1. \A w \in Worker : worker[w].pc # "idle" => worker[w].next \in 1..Len(worker[w].batch)
    BY DEF IInv, QueueInv, WorkerOK
  <2> QED
    BY <1>4, <2>1 DEF Kept, Subject, Record
<1>8. FrozenInv'
  BY <1>2, <1>3 DEF IInv, FrozenInv, Live, ScoringJob, rows
<1> QED
  BY <1>6, <1>7, <1>8

LEMMA SendKeeps ==
    ASSUME IInv, NEW p \in Page, page[p].stage # "away", NEW kind \in Kind, Send(kind, Of(p)),
           kind = "score" => overlap[Of(p)] \/ status[Of(p)] \notin {"none", "in_progress"},
           NEW stage \in Stage \ {"away", "captured", "sending"}, Turn(p, stage),
           UNCHANGED <<rows, bucket, saving, updating, worker, failures>>
    PROVE  IInv'
<1>1. Of(p) \in Assessment
  BY DEF IInv, PagesInv, PageOK, Of
<1>2. QueueInv' /\ FrozenInv' /\ \A w \in Worker : Kept(w)
  <2>1. \A q \in Page : page'[q] = IF q = p THEN Turned(p, stage) ELSE page[q]
    BY TurnedOK DEF IInv, PagesInv
  <2>2. \A b \in Assessment : Asked(b)' => Asked(b)
    BY <2>1, TurnedOK DEF Asked
  <2> QED
    BY <1>1, <2>2, SendOK
<1>3. html' = html /\ pdfs' = pdfs
  BY DEF bucket
<1>4. html' \in [Assessment -> Answer \cup {None}]
  BY <1>3 DEF IInv, BucketTyped
<1> QED
  BY <1>2, <1>3, <1>4, TurnedOK, PageStep

LEMMA EnqueueKeeps ==
    ASSUME IInv, NEW p \in Page, EnqueueScoring(p) \/ EnqueueReport(p)
    PROVE  IInv'
<1>1. CASE EnqueueScoring(p)
  <2>1. page[p].stage = "sending" /\ Send("score", Of(p)) /\ Turn(p, "polling")
        /\ UNCHANGED <<rows, bucket, saving, updating, worker, failures>>
    BY <1>1 DEF EnqueueScoring
  <2>2. overlap[Of(p)] \/ status[Of(p)] \notin {"none", "in_progress"}
    <3>1. Of(p) \in Assessment /\ Asked(Of(p))
      BY <2>1 DEF IInv, PagesInv, PageOK, Of, Asked
    <3> QED
      BY <3>1 DEF IInv, FrozenInv, Live
  <2> QED
    BY <2>1, <2>2, SendKeeps DEF Kind, Stage
<1>2. CASE EnqueueReport(p)
  <2>1. page[p].stage = "uploaded" /\ Turn(p, "waiting")
        /\ UNCHANGED <<rows, bucket, saving, updating, worker, failures>>
    BY <1>2 DEF EnqueueReport
  <2>2. CASE Send("report", Of(p))
    BY <2>1, <2>2, SendKeeps DEF Kind, Stage
  <2>3. CASE UNCHANGED job
    BY <2>1, <2>3, TurnKeeps DEF Stage
  <2> QED
    BY <1>2, <2>2, <2>3 DEF EnqueueReport
<1> QED
  BY <1>1, <1>2

-------------------------------------------------------------------------------
(* The queues and the workers.                                             *)

\* Worker w moves on within its batch.
LEMMA MoveOK ==
    ASSUME IInv, NEW w \in Worker, NEW y \in WorkerRec, y.pc # "idle",
           y.batch = worker[w].batch, y.kind = worker[w].kind, y.next \in 1..Len(y.batch),
           y.pc \in {"upload", "persist"} => y.read \in Answer,
           worker' = [worker EXCEPT ![w] = y], UNCHANGED job
    PROVE  QueueInv' /\ NoNewScoring /\ \A v \in Worker \ {w} : Kept(v)
<1>1. \A v \in Worker : worker'[v] = IF v = w THEN y ELSE worker[v]
  BY DEF IInv, QueueInv
<1>2. worker' \in [Worker -> WorkerRec]
  BY DEF IInv, QueueInv
<1>3. \A v \in Worker : WorkerOK(worker[v], job)'
  BY <1>1 DEF IInv, QueueInv, WorkerOK
<1>4. \A v \in Worker : \A j \in Job : In(j, v)' <=> In(j, v)
  BY <1>1 DEF In
<1>5. QueueInv'
  BY <1>2, <1>3, <1>4 DEF IInv, QueueInv
<1> QED
  BY <1>1, <1>5 DEF NoNewScoring, Kept, Subject, Record

\* Worker w lets go of its batch.
LEMMA LeaveOK ==
    ASSUME IInv, NEW w \in Worker, worker' = [worker EXCEPT ![w] = Idle],
           job' \in [Job -> JobRec],
           \A j \in Job : ~In(j, w) => job'[j] = job[j],
           \A j \in Job : In(j, w) => \/ job'[j] = NoJob
                                      \/ job'[j].kind = job[j].kind /\ job'[j].of = job[j].of
    PROVE  QueueInv' /\ NoNewScoring /\ \A v \in Worker \ {w} : Kept(v)
<1>1. Idle \in WorkerRec /\ Idle.pc = "idle" /\ Idle.batch = <<>> /\ Len(Idle.batch) = 0
  BY EmptySeq DEF Idle, WorkerRec, Kind
<1>2. \A v \in Worker : worker'[v] = IF v = w THEN Idle ELSE worker[v]
  BY DEF IInv, QueueInv
<1>3. worker' \in [Worker -> WorkerRec]
  BY <1>1 DEF IInv, QueueInv
<1>4. \A j \in Job : In(j, w) => job[j].state = "held"
  BY DEF IInv, QueueInv, WorkerOK, In
<1>5. \A v \in Worker \ {w} : \A i \in 1..Len(worker[v].batch) :
          job'[worker[v].batch[i]] = job[worker[v].batch[i]]
  <2>1. \A v \in Worker : \A i \in 1..Len(worker[v].batch) :
            worker[v].batch[i] \in Job /\ In(worker[v].batch[i], v)
    <3>1. \A v \in Worker : worker[v].batch \in Seq(Job)
      BY DEF IInv, QueueInv, WorkerRec
    <3> QED
      BY <3>1, ElementOfSeq DEF In
  <2> QED
    BY <2>1 DEF IInv, QueueInv
<1>6. \A v \in Worker : WorkerOK(worker[v], job)'
  <2>1. ASSUME NEW v \in Worker
        PROVE  WorkerOK(worker'[v], job')
    <3>1. CASE v = w
      BY <1>1, <1>2, <3>1 DEF WorkerOK
    <3>2. CASE v # w
      BY <1>2, <1>5, <3>2 DEF IInv, QueueInv, WorkerOK
    <3> QED
      BY <3>1, <3>2
  <2> QED
    BY <2>1 DEF WorkerOK
<1>7. \A v \in Worker : \A j \in Job : In(j, v)' => In(j, v)
  BY <1>1, <1>2 DEF In
<1>8. \A j \in Job : job'[j].state # "none" => job'[j].of \in Assessment
  BY <1>4 DEF IInv, QueueInv, NoJob
<1>9. QueueInv'
  BY <1>3, <1>6, <1>7, <1>8 DEF IInv, QueueInv
<1>10. NoNewScoring
  BY <1>4 DEF NoNewScoring, ScoringJob, NoJob
<1>11. \A v \in Worker \ {w} : Kept(v)
  <2>1. \A v \in Worker : worker[v].pc # "idle" => worker[v].next \in 1..Len(worker[v].batch)
    BY DEF IInv, QueueInv, WorkerOK
  <2> QED
    BY <1>2, <1>5, <2>1 DEF Kept, Subject, Record
<1> QED
  BY <1>9, <1>10, <1>11

LEMMA ReleaseOK ==
    ASSUME IInv, NEW w \in Worker, Release(w)
    PROVE  QueueInv' /\ NoNewScoring /\ (\A v \in Worker \ {w} : Kept(v))
           /\ worker'[w].pc = "idle"
<1> DEFINE f(j) == IF job[j].receives < MaxReceive[job[j].kind] THEN "queued" ELSE "dead"
<1>1. /\ worker' = [worker EXCEPT ![w] = Idle]
      /\ job' = [j \in Job |-> IF In(j, w) THEN [job[j] EXCEPT !.state = f(j)] ELSE job[j]]
  BY DEF Release
<1>2. \A j \in Job : f(j) \in {"queued", "dead"}
  OBVIOUS
<1> HIDE DEF f
<1>3. \A j \in Job : /\ [job[j] EXCEPT !.state = f(j)] \in JobRec
                     /\ [job[j] EXCEPT !.state = f(j)].kind = job[j].kind
                     /\ [job[j] EXCEPT !.state = f(j)].of = job[j].of
  BY <1>2 DEF IInv, QueueInv, JobRec
<1>4. job' \in [Job -> JobRec]
  BY <1>1, <1>3 DEF IInv, QueueInv
<1>5. worker'[w].pc = "idle"
  BY <1>1 DEF IInv, QueueInv, Idle
<1> QED
  BY <1>1, <1>3, <1>4, <1>5, LeaveOK

LEMMA AcknowledgeOK ==
    ASSUME IInv, NEW w \in Worker, Acknowledge(w)
    PROVE  QueueInv' /\ NoNewScoring /\ (\A v \in Worker \ {w} : Kept(v))
           /\ worker'[w].pc = "idle"
<1>1. /\ worker' = [worker EXCEPT ![w] = Idle]
      /\ job' = [j \in Job |-> IF In(j, w) THEN NoJob ELSE job[j]]
  BY DEF Acknowledge
<1>2. NoJob \in JobRec
  BY DEF NoJob, JobRec, Kind
<1>3. job' \in [Job -> JobRec]
  BY <1>1, <1>2 DEF IInv, QueueInv
<1>4. worker'[w].pc = "idle"
  BY <1>1 DEF IInv, QueueInv, Idle
<1> QED
  BY <1>1, <1>3, <1>4, LeaveOK

\* A batch is a nonempty sequence of queued jobs of its kind.
LEMMA BatchOK ==
    ASSUME NEW kind \in Kind, NEW batch \in Batches(kind)
    PROVE  /\ batch \in Seq(Job) /\ 1 \in 1..Len(batch)
           /\ \A i \in 1..Len(batch) : /\ batch[i] \in Job
                                       /\ job[batch[i]].state = "queued"
                                       /\ job[batch[i]].kind = kind
<1>1. PICK n \in 1..Limit(kind) :
          batch \in [1..n -> {j \in Job : job[j].state = "queued" /\ job[j].kind = kind}]
  BY DEF Batches
<1>2. n \in Nat \ {0}
  BY <1>1, PipelineAssumption DEF Limit
<1>3. batch \in [1..n -> Job]
  BY <1>1
<1>4. batch \in Seq(Job)
  BY <1>2, <1>3, SeqDef
<1>5. Len(batch) = n
  BY <1>2, <1>3, <1>4, LenProperties
<1> QED
  BY <1>1, <1>2, <1>4, <1>5

LEMMA ReceiveOK ==
    ASSUME IInv, NEW w \in Worker, NEW kind \in Kind, NEW batch \in Batches(kind),
           Receive(w, kind, batch)
    PROVE  QueueInv' /\ NoNewScoring /\ (\A v \in Worker \ {w} : Kept(v))
           /\ worker'[w].pc = "load"
<1> DEFINE y == [pc |-> "load", kind |-> kind, batch |-> batch, next |-> 1, read |-> None]
           Got(j) == \E i \in 1..Len(batch) : batch[i] = j
           held(j) == [job[j] EXCEPT !.state = "held", !.receives = @ + 1]
<1>1. /\ worker[w].pc = "idle" /\ worker' = [worker EXCEPT ![w] = y]
      /\ job' = [j \in Job |-> IF Got(j) THEN held(j) ELSE job[j]]
  BY DEF Receive
<1>2. y \in WorkerRec
  BY BatchOK DEF WorkerRec
<1>3. y.batch = batch /\ y.kind = kind /\ y.next = 1 /\ y.pc = "load"
  OBVIOUS
<1>4. \A j \in Job : held(j) \in JobRec /\ held(j).state = "held"
                     /\ held(j).kind = job[j].kind /\ held(j).of = job[j].of
  <2>1. ASSUME NEW x \in JobRec, NEW r, r = [x EXCEPT !.state = "held", !.receives = @ + 1]
        PROVE  r \in JobRec /\ r.state = "held" /\ r.kind = x.kind /\ r.of = x.of
    <3>1. x.receives + 1 \in Nat
      BY DEF JobRec
    <3>2. r = [kind |-> x.kind, of |-> x.of, state |-> "held", receives |-> x.receives + 1]
      BY <2>1 DEF JobRec
    <3> QED
      BY <3>1, <3>2 DEF JobRec
  <2> QED
    BY <2>1 DEF IInv, QueueInv
<1>5. \A j \in Job : Got(j) => job[j].state = "queued" /\ job[j].kind = kind
  BY BatchOK
<1> HIDE DEF y, held
<1>6. \A v \in Worker : worker'[v] = IF v = w THEN y ELSE worker[v]
  BY <1>1 DEF IInv, QueueInv
<1>7. job' \in [Job -> JobRec] /\ worker' \in [Worker -> WorkerRec]
  BY <1>1, <1>2, <1>4 DEF IInv, QueueInv
<1>8. \A j \in Job : job'[j] = IF Got(j) THEN held(j) ELSE job[j]
  BY <1>1
<1>9. \A v \in Worker \ {w} : \A i \in 1..Len(worker[v].batch) :
          /\ worker[v].batch[i] \in Job /\ ~Got(worker[v].batch[i])
          /\ job'[worker[v].batch[i]] = job[worker[v].batch[i]]
  <2>1. \A v \in Worker : \A i \in 1..Len(worker[v].batch) :
            worker[v].batch[i] \in Job /\ job[worker[v].batch[i]].state = "held"
    <3>1. \A v \in Worker : worker[v].batch \in Seq(Job)
      BY DEF IInv, QueueInv, WorkerRec
    <3> QED
      BY <3>1, ElementOfSeq DEF IInv, QueueInv, WorkerOK
  <2> QED
    BY <1>5, <1>8, <2>1
<1>10. ASSUME NEW v \in Worker
       PROVE  WorkerOK(worker'[v], job')
  <2>1. CASE v = w
    <3>1. worker'[w] = y /\ 1 \in 1..Len(batch)
      BY <1>6, BatchOK
    <3>2. \A i \in 1..Len(batch) : job'[batch[i]].state = "held" /\ job'[batch[i]].kind = kind
      BY <1>4, <1>5, <1>8, BatchOK
    <3> QED
      BY <1>3, <2>1, <3>1, <3>2 DEF WorkerOK
  <2>2. CASE v # w
    BY <1>6, <1>9, <2>2 DEF IInv, QueueInv, WorkerOK
  <2> QED
    BY <2>1, <2>2
<1>11. \A v \in Worker : \A j \in Job : In(j, v)' <=> IF v = w THEN Got(j) ELSE In(j, v)
  BY <1>3, <1>6 DEF In
<1>12. \A u, v \in Worker : \A j \in Job : In(j, u)' /\ In(j, v)' => u = v
  <2>1. \A v \in Worker \ {w} : \A j \in Job : In(j, v) => ~Got(j)
    BY <1>9 DEF In
  <2> HIDE DEF Got
  <2> QED
    BY <1>11, <2>1 DEF IInv, QueueInv
<1>13. \A j \in Job : job'[j].state # "none" => job'[j].of \in Assessment
  BY <1>4, <1>5, <1>8 DEF IInv, QueueInv
<1>14. \A v \in Worker : WorkerOK(worker[v], job)'
  BY <1>10 DEF WorkerOK
<1>15. QueueInv'
  BY <1>7, <1>12, <1>13, <1>14 DEF QueueInv
<1>16. NoNewScoring
  BY <1>4, <1>5, <1>8 DEF NoNewScoring, ScoringJob
<1>17. \A v \in Worker \ {w} : Kept(v)
  <2>1. \A v \in Worker : worker[v].pc # "idle" => worker[v].next \in 1..Len(worker[v].batch)
    BY DEF IInv, QueueInv, WorkerOK
  <2> QED
    BY <1>6, <1>9, <2>1 DEF Kept, Subject, Record
<1>18. worker'[w].pc = "load"
  BY <1>3, <1>6
<1> QED
  BY <1>15, <1>16, <1>17, <1>18

LEMMA GotoOK ==
    ASSUME IInv, NEW w \in Worker, worker[w].pc # "idle",
           NEW pc \in {"upload", "persist"}, NEW read \in Answer,
           Goto(w, pc, read), UNCHANGED job
    PROVE  /\ QueueInv' /\ NoNewScoring /\ \A v \in Worker \ {w} : Kept(v)
           /\ worker'[w].pc = pc /\ worker'[w].read = read
           /\ worker'[w].kind = worker[w].kind /\ Subject(w)' = Subject(w)
<1> DEFINE y == [worker[w] EXCEPT !.pc = pc, !.read = read]
<1>1. worker[w] \in WorkerRec /\ worker[w].next \in 1..Len(worker[w].batch)
  BY DEF IInv, QueueInv, WorkerOK
<1>2. worker' = [worker EXCEPT ![w] = y]
  BY DEF Goto
<1>3. y \in WorkerRec /\ y.pc = pc /\ y.read = read /\ y.batch = worker[w].batch
      /\ y.kind = worker[w].kind /\ y.next = worker[w].next
  BY <1>1 DEF WorkerRec
<1> HIDE DEF y
<1>4. worker'[w] = y
  BY <1>2 DEF IInv, QueueInv
<1>5. Subject(w)' = Subject(w)
  BY <1>3, <1>4 DEF Subject, Record
<1> QED
  BY <1>1, <1>2, <1>3, <1>4, <1>5, MoveOK

LEMMA NextRecordOK ==
    ASSUME IInv, NEW w \in Worker, worker[w].pc # "idle", NextRecord(w), UNCHANGED job
    PROVE  /\ QueueInv' /\ NoNewScoring /\ \A v \in Worker \ {w} : Kept(v)
           /\ worker'[w].pc \in {"load", "return"}
<1>1. worker[w] \in WorkerRec /\ worker[w].next \in 1..Len(worker[w].batch)
      /\ Len(worker[w].batch) \in Nat
  BY LenProperties DEF IInv, QueueInv, WorkerOK, WorkerRec
<1>2. CASE worker[w].next = Len(worker[w].batch)
  <2> DEFINE y == [worker[w] EXCEPT !.pc = "return", !.read = None]
  <2>1. worker' = [worker EXCEPT ![w] = y]
    BY <1>2 DEF NextRecord
  <2>2. y \in WorkerRec /\ y.pc = "return" /\ y.batch = worker[w].batch
        /\ y.kind = worker[w].kind /\ y.next = worker[w].next
    BY <1>1 DEF WorkerRec
  <2> HIDE DEF y
  <2>3. worker'[w] = y
    BY <2>1 DEF IInv, QueueInv
  <2> QED
    BY <1>1, <2>1, <2>2, <2>3, MoveOK
<1>3. CASE worker[w].next # Len(worker[w].batch)
  <2> DEFINE n == worker[w].next + 1
             y == [worker[w] EXCEPT !.pc = "load", !.read = None, !.next = n]
  <2>1. worker' = [worker EXCEPT ![w] = y]
    BY <1>3 DEF NextRecord
  <2>2. n \in 1..Len(worker[w].batch) /\ n \in Nat
    BY <1>1, <1>3
  <2> HIDE DEF n
  <2>3. y \in WorkerRec /\ y.pc = "load" /\ y.batch = worker[w].batch
        /\ y.kind = worker[w].kind /\ y.next = n
    BY <1>1, <2>2 DEF WorkerRec
  <2> HIDE DEF y
  <2>4. worker'[w] = y
    BY <2>1 DEF IInv, QueueInv
  <2> QED
    BY <2>1, <2>2, <2>3, <2>4, MoveOK
<1> QED
  BY <1>2, <1>3

\* A worker that has read nothing holds nothing that could be stale.
LEMMA NothingHeld ==
    ASSUME NEW w \in Worker, worker'[w].pc \notin {"upload", "persist"}
    PROVE  HeldInv(w, Subject(w))'
BY DEF HeldInv, At

\* A step of worker w that stores nothing in Postgres.
LEMMA WorkerStep ==
    ASSUME IInv, NEW w \in Worker, UNCHANGED <<rows, html, saving, updating, page>>,
           pdfs \subseteq pdfs', BucketTyped', OthersTyped',
           QueueInv', NoNewScoring, \A v \in Worker \ {w} : Kept(v),
           HeldInv(w, Subject(w))'
    PROVE  IInv'
<1>1. RowsTyped' /\ ScoreInv' /\ RowsRely
  BY SameRows
<1>2. FrozenInv'
  BY FrozenKept DEF rows, Asked
<1>3. PagesInv' /\ report' = report
  BY DEF IInv, PagesInv, PageOK, rows
<1>4. CopyInv' /\ ReportIsStored'
  BY <1>1, <1>3, CopiesAgree
<1> QED
  BY <1>1, <1>2, <1>3, <1>4 DEF IInv

LEMMA WorkerOnly ==
    ASSUME IInv, NEW w \in Worker, UNCHANGED <<rows, bucket, saving, updating, page>>, OthersTyped',
           QueueInv', NoNewScoring, \A v \in Worker \ {w} : Kept(v),
           HeldInv(w, Subject(w))'
    PROVE  IInv'
<1>1. UNCHANGED <<html, pdfs>> /\ BucketTyped'
  BY DEF IInv, BucketTyped, bucket
<1> QED
  BY <1>1, WorkerStep

LEMMA ReleaseKeeps ==
    ASSUME IInv, NEW w \in Worker, Release(w), UNCHANGED <<rows, bucket, saving, updating, page>>,
           OthersTyped'
    PROVE  IInv'
<1>1. QueueInv' /\ NoNewScoring /\ (\A v \in Worker \ {w} : Kept(v)) /\ worker'[w].pc = "idle"
  BY ReleaseOK
<1> QED
  BY <1>1, NothingHeld, WorkerOnly

LEMMA DeliveryKeeps ==
    ASSUME IInv, NEW w \in Worker,
           \/ \E kind \in Kind : \E batch \in Batches(kind) : Receive(w, kind, batch)
           \/ Acknowledge(w)
           \/ WorkerFails(w)
    PROVE  IInv'
<1>1. ASSUME NEW kind \in Kind, NEW batch \in Batches(kind), Receive(w, kind, batch)
      PROVE  IInv'
  <2>1. QueueInv' /\ NoNewScoring /\ (\A v \in Worker \ {w} : Kept(v)) /\ worker'[w].pc = "load"
    BY <1>1, ReceiveOK
  <2>2. UNCHANGED <<rows, bucket, saving, updating, page>> /\ OthersTyped'
    BY <1>1 DEF Receive, IInv, OthersTyped
  <2> QED
    BY <2>1, <2>2, NothingHeld, WorkerOnly
<1>2. CASE Acknowledge(w)
  <2>1. QueueInv' /\ NoNewScoring /\ (\A v \in Worker \ {w} : Kept(v)) /\ worker'[w].pc = "idle"
    BY <1>2, AcknowledgeOK
  <2>2. UNCHANGED <<rows, bucket, saving, updating, page>> /\ OthersTyped'
    BY <1>2 DEF Acknowledge, IInv, OthersTyped
  <2> QED
    BY <2>1, <2>2, NothingHeld, WorkerOnly
<1>3. CASE WorkerFails(w)
  <2>1. Release(w) /\ UNCHANGED <<rows, bucket, saving, updating, page>> /\ failures' = failures + 1
        /\ failures < MaxFailure
    BY <1>3 DEF WorkerFails
  <2>2. OthersTyped'
    BY <2>1, PipelineAssumption DEF IInv, OthersTyped
  <2> QED
    BY <2>1, <2>2, ReleaseKeeps
<1> QED
  BY <1>1, <1>2, <1>3

LEMMA LoadAnswersKeeps ==
    ASSUME IInv, NEW w \in Worker, LoadAnswers(w)
    PROVE  IInv'
<1> DEFINE a == Subject(w)
<1>1. /\ worker[w].pc = "load" /\ worker[w].kind = "score"
      /\ UNCHANGED <<rows, bucket, saving, updating, page>> /\ OthersTyped'
  BY DEF LoadAnswers, At, IInv, OthersTyped
<1>2. CASE Release(w)
  BY <1>1, <1>2, ReleaseKeeps
<1>3. CASE answers[a] # Empty /\ Goto(w, "persist", answers[a]) /\ UNCHANGED job
  <2>1. a \in Assessment
    BY <1>1, RecordHeld DEF IInv
  <2>2. answers[a] \in Answer
    BY <1>3, <2>1 DEF IInv, RowsTyped, Content
  <2>3. /\ QueueInv' /\ NoNewScoring /\ \A v \in Worker \ {w} : Kept(v)
        /\ worker'[w].pc = "persist" /\ worker'[w].read = answers[a]
        /\ worker'[w].kind = "score" /\ Subject(w)' = a
    BY <1>1, <1>3, <2>2, GotoOK
  <2>4. HeldInv(w, Subject(w))'
    BY <1>1, <2>3 DEF HeldInv, At, rows
  <2> QED
    BY <1>1, <2>3, <2>4, WorkerOnly
<1> QED
  BY <1>2, <1>3 DEF LoadAnswers

LEMMA DownloadHtmlKeeps ==
    ASSUME IInv, NEW w \in Worker, DownloadHtml(w)
    PROVE  IInv'
<1> DEFINE a == Subject(w)
<1>1. /\ worker[w].pc = "load" /\ worker[w].kind = "report"
      /\ UNCHANGED <<rows, bucket, saving, updating, page>> /\ OthersTyped'
  BY DEF DownloadHtml, At, IInv, OthersTyped
<1>2. CASE Release(w)
  BY <1>1, <1>2, ReleaseKeeps
<1>3. CASE html[a] # None /\ Goto(w, "upload", html[a]) /\ UNCHANGED job
  <2>1. a \in Assessment
    BY <1>1, RecordHeld DEF IInv
  <2>2. html[a] \in Answer /\ Current(a, html[a])
    BY <1>3, <2>1 DEF IInv, BucketTyped, CopyInv
  <2>3. /\ QueueInv' /\ NoNewScoring /\ \A v \in Worker \ {w} : Kept(v)
        /\ worker'[w].pc = "upload" /\ worker'[w].read = html[a]
        /\ worker'[w].kind = "report" /\ Subject(w)' = a
    BY <1>1, <1>3, <2>2, GotoOK
  <2>4. CurrentAfter(a, html[a])
    BY <1>1, <2>1, <2>2, SameRows
  <2>5. HeldInv(w, Subject(w))'
    BY <2>3, <2>4 DEF HeldInv, At, Current, CurrentAfter
  <2> QED
    BY <1>1, <2>3, <2>5, WorkerOnly
<1> QED
  BY <1>2, <1>3 DEF DownloadHtml

LEMMA UploadPdfKeeps ==
    ASSUME IInv, NEW w \in Worker, UploadPdf(w)
    PROVE  IInv'
<1> DEFINE a == Subject(w)
<1>1. /\ worker[w].pc = "upload" /\ worker[w].kind = "report"
      /\ pdfs' = pdfs \cup {<<a, worker[w].read>>}
      /\ Goto(w, "persist", worker[w].read)
      /\ UNCHANGED <<rows, html, saving, updating, page, job, failures>>
  BY DEF UploadPdf, At
<1>2. a \in Assessment /\ worker[w].read \in Answer /\ Current(a, worker[w].read)
  <2>1. worker[w].read \in Answer
    BY <1>1 DEF IInv, QueueInv, WorkerOK
  <2>2. HeldInv(w, a)
    BY <1>1 DEF IInv, CopyInv
  <2> QED
    BY <1>1, <2>1, <2>2, RecordHeld DEF IInv, HeldInv, At
<1>3. /\ QueueInv' /\ NoNewScoring /\ \A v \in Worker \ {w} : Kept(v)
      /\ worker'[w].pc = "persist" /\ worker'[w].read = worker[w].read
      /\ worker'[w].kind = "report" /\ Subject(w)' = a
  BY <1>1, <1>2, GotoOK
<1>4. CurrentAfter(a, worker[w].read)
  BY <1>1, <1>2, SameRows
<1>5. HeldInv(w, Subject(w))'
  BY <1>1, <1>3, <1>4 DEF HeldInv, At, Current, CurrentAfter
<1>6. pdfs \subseteq pdfs' /\ BucketTyped' /\ OthersTyped'
  BY <1>1, <1>2 DEF IInv, BucketTyped, OthersTyped
<1> QED
  BY <1>1, <1>3, <1>5, <1>6, WorkerStep

\* The score of an assessment that stays clean is stored again, never changed.
LEMMA PersistScoreKeeps ==
    ASSUME IInv, NEW w \in Worker, PersistScore(w)
    PROVE  IInv'
<1> DEFINE a == Subject(w)
<1>1. /\ worker[w].pc = "persist" /\ worker[w].kind = "score"
      /\ UNCHANGED <<answers, report, overlap, bucket, saving, updating, page, failures>>
  BY DEF PersistScore, At
<1>2. OthersTyped'
  BY <1>1 DEF IInv, OthersTyped
<1>3. CASE Release(w) /\ UNCHANGED <<score, status>>
  BY <1>1, <1>2, <1>3, ReleaseKeeps DEF rows
<1>4. CASE /\ Stored(a) /\ NextRecord(w) /\ UNCHANGED job
           /\ score' = [score EXCEPT ![a] = worker[w].read]
           /\ status' = [status EXCEPT ![a] = "scored"]
  <2>1. a \in Assessment /\ worker[w].read \in Answer
    BY <1>1, RecordHeld DEF IInv, QueueInv, WorkerOK
  <2>2. status[a] # "none" /\ status[a] # "deleted"
    BY <1>4, Transitions DEF Stored
  <2>3. ~overlap[a] => worker[w].read = answers[a]
    <3>1. HeldInv(w, a)
      BY <1>1 DEF IInv, CopyInv
    <3> QED
      BY <1>1, <2>2, <3>1 DEF HeldInv, At
  <2>4. /\ score'[a] = worker[w].read /\ status'[a] = "scored"
        /\ \A b \in Assessment \ {a} : score'[b] = score[b] /\ status'[b] = status[b]
    BY <1>4, <2>1 DEF IInv, RowsTyped
  <2>5. RowsTyped' /\ BucketTyped' /\ html' = html /\ pdfs' = pdfs
    BY <1>1, <1>4, <2>1, Transitions DEF IInv, RowsTyped, BucketTyped, bucket
  <2>6. RowsRely
    BY <1>1, <2>2, <2>3, <2>4 DEF IInv, ScoreInv, RowsRely
  <2>7. ScoreInv'
    BY <1>1, <2>1, <2>3, <2>4 DEF IInv, ScoreInv
  <2>8. /\ QueueInv' /\ NoNewScoring /\ \A v \in Worker \ {w} : Kept(v)
        /\ worker'[w].pc \in {"load", "return"}
    BY <1>1, <1>4, NextRecordOK
  <2>9. FrozenInv'
    BY <1>1, <2>4, <2>8, FrozenKept DEF Asked
  <2>10. PagesInv'
    BY <1>1 DEF IInv, PagesInv, PageOK
  <2>11. HeldInv(w, Subject(w))'
    BY <2>8, NothingHeld
  <2>12. CopyInv' /\ ReportIsStored'
    BY <1>1, <2>5, <2>6, <2>8, <2>10, <2>11, CopiesAgree
  <2> QED
    BY <1>2, <2>5, <2>7, <2>8, <2>9, <2>10, <2>12 DEF IInv
<1> QED
  BY <1>3, <1>4 DEF PersistScore

LEMMA PersistReportKeyKeeps ==
    ASSUME IInv, NEW w \in Worker, PersistReportKey(w)
    PROVE  IInv'
<1> DEFINE a == Subject(w)
<1>1. /\ worker[w].pc = "persist" /\ worker[w].kind = "report"
      /\ UNCHANGED <<answers, score, overlap, bucket, saving, updating, page, failures>>
  BY DEF PersistReportKey, At
<1>2. OthersTyped'
  BY <1>1 DEF IInv, OthersTyped
<1>3. CASE Release(w) /\ UNCHANGED <<report, status>>
  BY <1>1, <1>2, <1>3, ReleaseKeeps DEF rows
<1>4. CASE /\ score[a] # None /\ NextRecord(w) /\ UNCHANGED job
           /\ report' = [report EXCEPT ![a] = worker[w].read]
           /\ status' = [status EXCEPT ![a] = "report_generated"]
  <2>1. a \in Assessment /\ worker[w].read \in Answer
    BY <1>1, RecordHeld DEF IInv, QueueInv, WorkerOK
  <2>2. status[a] # "none" /\ status[a] # "deleted"
    BY <1>4, <2>1 DEF IInv, ScoreInv
  <2>3. Current(a, worker[w].read) /\ <<a, worker[w].read>> \in pdfs
    <3>1. HeldInv(w, a)
      BY <1>1 DEF IInv, CopyInv
    <3> QED
      BY <1>1, <3>1 DEF HeldInv, At
  <2>4. /\ report'[a] = worker[w].read /\ status'[a] = "report_generated"
        /\ \A b \in Assessment \ {a} : report'[b] = report[b] /\ status'[b] = status[b]
    BY <1>4, <2>1 DEF IInv, RowsTyped
  <2>5. RowsTyped' /\ BucketTyped' /\ html' = html /\ pdfs' = pdfs
    BY <1>1, <1>4, <2>1, Transitions DEF IInv, RowsTyped, BucketTyped, bucket
  <2>6. RowsRely
    BY <1>1, <2>2, <2>4 DEF RowsRely
  <2>7. ScoreInv'
    BY <1>1, <2>2, <2>4 DEF IInv, ScoreInv
  <2>8. /\ QueueInv' /\ NoNewScoring /\ \A v \in Worker \ {w} : Kept(v)
        /\ worker'[w].pc \in {"load", "return"}
    BY <1>1, <1>4, NextRecordOK
  <2>9. FrozenInv'
    BY <1>1, <2>4, <2>8, FrozenKept DEF Asked
  <2>10. PagesInv'
    BY <1>1 DEF IInv, PagesInv, PageOK
  <2>11. HeldInv(w, Subject(w))'
    BY <2>8, NothingHeld
  <2>12. CurrentAfter(a, worker[w].read)
    BY <2>1, <2>3, <2>6, CopyKept
  <2>13. CopyInv' /\ ReportIsStored'
    BY <1>1, <2>3, <2>4, <2>5, <2>6, <2>8, <2>10, <2>11, <2>12, CopiesAgree
  <2> QED
    BY <1>2, <2>5, <2>7, <2>8, <2>9, <2>10, <2>13 DEF IInv
<1> QED
  BY <1>3, <1>4 DEF PersistReportKey

-------------------------------------------------------------------------------
LEMMA InitIInv == Init => IInv
<1> SUFFICES ASSUME Init PROVE IInv
  OBVIOUS
<1>1. RowsTyped /\ BucketTyped /\ OthersTyped
  BY PipelineAssumption DEF Init, RowsTyped, BucketTyped, OthersTyped, Content
<1>2. PagesInv
  BY DEF Init, PagesInv, PageOK, PageRec, NoPage, Stage
<1>3. NoJob \in JobRec /\ Idle \in WorkerRec /\ Len(Idle.batch) = 0
  BY EmptySeq DEF NoJob, JobRec, Idle, WorkerRec, Kind
<1>4. QueueInv
  BY <1>3 DEF Init, QueueInv, WorkerOK, In, NoJob, Idle
<1>5. FrozenInv /\ ScoreInv /\ ReportIsStored
  BY DEF Init, FrozenInv, Live, Asked, NoPage, ScoringJob, NoJob, ScoreInv, ReportIsStored
<1>6. CopyInv
  BY DEF Init, CopyInv, Current, NoPage, Idle
<1> QED
  BY <1>1, <1>2, <1>4, <1>5, <1>6 DEF IInv

LEMMA NextIInv == IInv /\ [Next]_vars => IInv'
<1> SUFFICES ASSUME IInv, [Next]_vars PROVE IInv'
  OBVIOUS
<1>1. CASE Api
  BY <1>1, CreateKeeps, DeleteKeeps, AdmitSaveKeeps, CommitSaveKeeps,
     AdmitUpdateKeeps, CommitUpdateKeeps DEF Api
<1>2. CASE Browser
  BY <1>2, MarkCompletedKeeps, EnqueueKeeps, CaptureKeeps, UploadPrintHtmlKeeps, QuietPageKeeps
     DEF Browser
<1>3. CASE Lambda
  BY <1>3, DeliveryKeeps, LoadAnswersKeeps, PersistScoreKeeps, DownloadHtmlKeeps,
     UploadPdfKeeps, PersistReportKeyKeeps DEF Lambda, Handle
<1>4. CASE UNCHANGED vars
  <2>1. UNCHANGED <<rows, bucket, page, job, worker>> /\ OthersTyped'
    BY <1>4 DEF vars, IInv, OthersTyped
  <2>2. UNCHANGED <<status, report, overlap>>
    BY <2>1 DEF rows
  <2> QED
    BY <2>1, <2>2, SameRows, ApiStep
<1> QED
  BY <1>1, <1>2, <1>3, <1>4 DEF Next

LEMMA Inductive == Spec => []IInv
BY InitIInv, NextIInv, PTL DEF Spec

\* The variables keep their types, for any number of assessments, pages, jobs
\* and workers.
THEOREM PipelineTypeCorrect == Spec => []TypeOK
<1>1. IInv => TypeOK
  BY DEF IInv, RowsTyped, BucketTyped, OthersTyped, PagesInv, QueueInv, TypeOK,
     PageRec, JobRec, WorkerRec
<1> QED
  BY <1>1, Inductive, PTL

\* A stored score is the score of the stored answers, however many pages,
\* jobs, redeliveries and workers there were, unless a save or a reopening
\* overlapped the scoring or a status change was committed late.
THEOREM PipelineScoreCurrent == Spec => []ScoreIsCurrent
<1>1. IInv => ScoreIsCurrent
  BY DEF IInv, ScoreInv, ScoreIsCurrent
<1> QED
  BY <1>1, Inductive, PTL

\* ... and the stored report shows that score.
THEOREM PipelineReportShows == Spec => []ReportShowsScore
<1>1. IInv => ReportShowsScore
  BY DEF IInv, ScoreInv, CopyInv, Current, ReportShowsScore
<1> QED
  BY <1>1, Inductive, PTL

\* A stored report key names a PDF that was uploaded.
THEOREM PipelineReportStored == Spec => []ReportIsStored
<1>1. IInv => ReportIsStored
  BY DEF IInv
<1> QED
  BY <1>1, Inductive, PTL

-------------------------------------------------------------------------------
(* The pipeline implements AssessmentRecord.                               *)

Excused == {a \in Assessment : overlap[a]}
Deleted == {a \in Assessment : status[a] = "deleted"}

LEMMA PromiseInit == Init => Promise!Init
BY DEF Init, Promise!Init

\* A step that leaves the rows alone, or only moves a status, is a stutter.
LEMMA PromiseStutter ==
    ASSUME UNCHANGED <<answers, score, report>>, Excused' = Excused, Deleted' = Deleted
    PROVE  [Promise!Next]_(Promise!vars)
BY DEF Promise!vars, Excused, Deleted

LEMMA PromiseQuiet == UNCHANGED rows => [Promise!Next]_(Promise!vars)
<1> SUFFICES ASSUME UNCHANGED rows
             PROVE  [Promise!Next]_(Promise!vars)
  OBVIOUS
<1>1. UNCHANGED <<answers, score, report>> /\ Excused' = Excused /\ Deleted' = Deleted
  BY DEF rows, Excused, Deleted
<1> QED
  BY <1>1, PromiseStutter

\* a overlapped, or was already.
LEMMA ExcusedGrows ==
    ASSUME RowsTyped, NEW a \in Assessment, NEW b, overlap' = [overlap EXCEPT ![a] = overlap[a] \/ b]
    PROVE  Excused' = IF b THEN Excused \cup {a} ELSE Excused
<1>1. \A c \in Assessment \ {a} : overlap'[c] = overlap[c]
  BY DEF RowsTyped
<1>2. overlap'[a] <=> (overlap[a] \/ b)
  BY DEF RowsTyped
<1> QED
  BY <1>1, <1>2 DEF Excused

LEMMA PromiseCommitSave ==
    ASSUME IInv, NEW a \in Assessment, NEW v \in Answer, CommitSave(a, v)
    PROVE  [Promise!Next]_(Promise!vars)
<1>1. /\ answers' = [answers EXCEPT ![a] = IF Stored(a) THEN v ELSE answers[a]]
      /\ overlap' = [overlap EXCEPT ![a] = overlap[a] \/ status[a] # "in_progress"]
      /\ UNCHANGED <<status, score, report>>
  BY DEF CommitSave
<1>2. /\ Deleted' = Deleted
      /\ Excused' = IF status[a] # "in_progress" THEN Excused \cup {a} ELSE Excused
  <2>1. RowsTyped
    BY DEF IInv
  <2> QED
    BY <1>1, <2>1, ExcusedGrows DEF Deleted
<1>3. CASE ~Stored(a)
  <2>1. answers' = answers /\ status[a] # "in_progress"
    BY <1>1, <1>3, Transitions DEF IInv, RowsTyped, Stored
  <2>2. Promise!Excuse(a)
    BY <1>1, <1>2, <2>1 DEF Promise!Excuse, Excused, Deleted
  <2> QED
    BY <2>2 DEF Promise!Next
<1>4. CASE Stored(a)
  <2>1. a \notin Deleted /\ answers' = [answers EXCEPT ![a] = v]
    BY <1>1, <1>4, Transitions DEF Stored, Deleted
  <2>2. (score[a] = None /\ Excused' = Excused) \/ Excused' = Excused \cup {a}
    BY <1>2 DEF IInv, ScoreInv, Excused
  <2>3. Promise!Save(a, v)
    BY <1>1, <1>2, <2>1, <2>2 DEF Promise!Save, Excused, Deleted
  <2> QED
    BY <2>3 DEF Promise!Next
<1> QED
  BY <1>3, <1>4

LEMMA PromiseWriteStatus ==
    ASSUME IInv, NEW a \in Assessment, NEW new, WriteStatus(a, new)
    PROVE  [Promise!Next]_(Promise!vars)
<1> DEFINE late == \/ new = "in_progress" /\ (Scoring(a) \/ Asked(a))
                   \/ Stored(a) /\ new \notin AllowedNext[status[a]] \cup {status[a]}
<1>1. /\ status' = [status EXCEPT ![a] = IF Stored(a) THEN new ELSE status[a]]
      /\ overlap' = [overlap EXCEPT ![a] = overlap[a] \/ late]
      /\ UNCHANGED <<answers, score, report>>
  BY DEF WriteStatus
<1> HIDE DEF late
<1>2. Deleted' = Deleted
  BY <1>1, Admitted, Transitions DEF Deleted, IInv, RowsTyped, Stored
<1>3. Excused' = Excused \/ Excused' = Excused \cup {a}
  <2>1. RowsTyped
    BY DEF IInv
  <2> QED
    BY <1>1, <2>1, ExcusedGrows
<1>4. CASE Excused' = Excused
  BY <1>1, <1>2, <1>4, PromiseStutter
<1>5. CASE Excused' = Excused \cup {a}
  <2>1. Promise!Excuse(a)
    BY <1>1, <1>2, <1>5 DEF Promise!Excuse, Excused, Deleted
  <2> QED
    BY <2>1 DEF Promise!Next
<1> QED
  BY <1>3, <1>4, <1>5

LEMMA PromiseApi ==
    ASSUME IInv, Api
    PROVE  [Promise!Next]_(Promise!vars)
<1>1. ASSUME NEW a \in Assessment, Create(a)
      PROVE  [Promise!Next]_(Promise!vars)
  <2>1. UNCHANGED <<answers, score, report, overlap>> /\ status[a] = "none"
        /\ status' = [status EXCEPT ![a] = "in_progress"]
    BY <1>1 DEF Create
  <2>2. Excused' = Excused /\ Deleted' = Deleted
    BY <2>1 DEF Excused, Deleted, IInv, RowsTyped
  <2> QED
    BY <2>1, <2>2, PromiseStutter
<1>2. ASSUME NEW a \in Assessment, NEW v \in Answer, AdmitSave(a, v)
      PROVE  [Promise!Next]_(Promise!vars)
  BY <1>2, PromiseQuiet DEF AdmitSave
<1>3. ASSUME NEW a \in Assessment, NEW new \in Wanted, AdmitUpdate(a, new) \/ CommitUpdate(a, new)
      PROVE  [Promise!Next]_(Promise!vars)
  BY <1>3, PromiseQuiet, PromiseWriteStatus DEF AdmitUpdate, CommitUpdate
<1>4. ASSUME NEW a \in Assessment, Delete(a)
      PROVE  [Promise!Next]_(Promise!vars)
  <2>1. /\ status[a] # "deleted" /\ status' = [status EXCEPT ![a] = "deleted"]
        /\ answers' = [answers EXCEPT ![a] = Empty]
        /\ score' = [score EXCEPT ![a] = None]
        /\ report' = [report EXCEPT ![a] = None]
        /\ UNCHANGED overlap
    BY <1>4, Transitions DEF Delete, Stored
  <2>2. a \notin Deleted /\ Deleted' = Deleted \cup {a} /\ Excused' = Excused
    BY <2>1 DEF Deleted, Excused, IInv, RowsTyped
  <2>3. Promise!Delete(a)
    BY <2>1, <2>2 DEF Promise!Delete, Excused, Deleted
  <2> QED
    BY <2>3 DEF Promise!Next
<1> QED
  BY <1>1, <1>2, <1>3, <1>4, PromiseCommitSave DEF Api

LEMMA PromiseBrowser ==
    ASSUME IInv, Browser
    PROVE  [Promise!Next]_(Promise!vars)
<1>1. ASSUME NEW p \in Page, NEW a \in Assessment, MarkCompleted(p, a)
      PROVE  [Promise!Next]_(Promise!vars)
  BY <1>1, PromiseQuiet, PromiseWriteStatus DEF MarkCompleted
<1>2. ASSUME NEW p \in Page,
             \/ AskForScoring(p) \/ EnqueueScoring(p) \/ PollScored(p) \/ CapturePrintHtml(p)
             \/ UploadPrintHtml(p) \/ EnqueueReport(p) \/ PollReport(p)
             \/ GiveUp(p) \/ Retry(p) \/ Leave(p)
      PROVE  [Promise!Next]_(Promise!vars)
  <2>1. UNCHANGED rows
    BY <1>2 DEF AskForScoring, EnqueueScoring, PollScored, CapturePrintHtml, UploadPrintHtml, EnqueueReport,
       PollReport, GiveUp, Retry, Leave
  <2> QED
    BY <2>1, PromiseQuiet
<1> QED
  BY <1>1, <1>2 DEF Browser

LEMMA PromiseLambda ==
    ASSUME IInv, Lambda
    PROVE  [Promise!Next]_(Promise!vars)
<1>1. ASSUME NEW w \in Worker, PersistScore(w)
      PROVE  [Promise!Next]_(Promise!vars)
  <2> DEFINE a == Subject(w)
             v == worker[w].read
  <2>1. /\ worker[w].kind = "score" /\ worker[w].pc = "persist"
        /\ UNCHANGED <<answers, report, overlap>>
    BY <1>1 DEF PersistScore, At
  <2>2. a \in Assessment /\ v \in Answer
    BY <2>1, RecordHeld DEF IInv, QueueInv, WorkerOK
  <2>3. CASE UNCHANGED <<score, status>>
    BY <2>1, <2>3, PromiseQuiet DEF rows
  <2>4. CASE /\ Stored(a)
             /\ score' = [score EXCEPT ![a] = v]
             /\ status' = [status EXCEPT ![a] = "scored"]
    <3>1. status[a] # "deleted"
      BY <2>4, Transitions DEF Stored
    <3>2. a \notin Deleted /\ Deleted' = Deleted /\ Excused' = Excused
      BY <2>1, <2>2, <2>4, <3>1 DEF Deleted, Excused, IInv, RowsTyped
    <3>3. a \in Excused \/ v = answers[a]
      <4>1. HeldInv(w, a)
        BY <2>1 DEF IInv, CopyInv
      <4> QED
        BY <2>1, <2>2, <3>1, <4>1 DEF HeldInv, At, Excused
    <3>4. Promise!Score(a, v)
      BY <2>1, <2>4, <3>2, <3>3 DEF Promise!Score, Excused, Deleted
    <3> QED
      BY <2>2, <3>4 DEF Promise!Next
  <2> QED
    BY <1>1, <2>3, <2>4 DEF PersistScore
<1>2. ASSUME NEW w \in Worker, PersistReportKey(w)
      PROVE  [Promise!Next]_(Promise!vars)
  <2> DEFINE a == Subject(w)
             v == worker[w].read
  <2>1. /\ worker[w].kind = "report" /\ worker[w].pc = "persist"
        /\ UNCHANGED <<answers, score, overlap>>
    BY <1>2 DEF PersistReportKey, At
  <2>2. a \in Assessment /\ v \in Answer
    BY <2>1, RecordHeld DEF IInv, QueueInv, WorkerOK
  <2>3. CASE UNCHANGED <<report, status>>
    BY <2>1, <2>3, PromiseQuiet DEF rows
  <2>4. CASE /\ score[a] # None
             /\ report' = [report EXCEPT ![a] = v]
             /\ status' = [status EXCEPT ![a] = "report_generated"]
    <3>1. status[a] # "deleted"
      BY <2>2, <2>4 DEF IInv, ScoreInv
    <3>2. a \notin Deleted /\ Deleted' = Deleted /\ Excused' = Excused
      BY <2>1, <2>2, <2>4, <3>1 DEF Deleted, Excused, IInv, RowsTyped
    <3>3. v # None
      BY <2>2, PipelineAssumption
    <3>4. a \in Excused \/ v = score[a]
      <4>1. HeldInv(w, a)
        BY <2>1 DEF IInv, CopyInv
      <4> QED
        BY <2>1, <2>2, <3>1, <3>3, <4>1 DEF HeldInv, At, Current, Excused
    <3>5. Promise!Report(a, v)
      BY <2>1, <2>4, <3>2, <3>4 DEF Promise!Report, Excused, Deleted
    <3> QED
      BY <2>2, <3>5 DEF Promise!Next
  <2> QED
    BY <1>2, <2>3, <2>4 DEF PersistReportKey
<1>3. ASSUME NEW w \in Worker,
             \/ \E kind \in Kind : \E batch \in Batches(kind) : Receive(w, kind, batch)
             \/ LoadAnswers(w) \/ DownloadHtml(w) \/ UploadPdf(w)
             \/ Acknowledge(w) \/ WorkerFails(w)
      PROVE  [Promise!Next]_(Promise!vars)
  <2>1. UNCHANGED rows
    BY <1>3 DEF Receive, LoadAnswers, DownloadHtml, UploadPdf, Acknowledge, WorkerFails
  <2> QED
    BY <2>1, PromiseQuiet
<1> QED
  BY <1>1, <1>2, <1>3 DEF Lambda, Handle

LEMMA PromiseNext == IInv /\ [Next]_vars => [Promise!Next]_(Promise!vars)
<1>1. UNCHANGED vars => UNCHANGED rows
  BY DEF vars
<1> QED
  BY <1>1, PromiseApi, PromiseBrowser, PromiseLambda, PromiseQuiet DEF Next

\* The pipeline, with any number of pages, jobs, workers and failures,
\* implements the two steps of AssessmentRecord: score the answers, report the
\* score.
THEOREM PipelineImplementsRecord == Spec => ImplementsRecord
BY PromiseInit, PromiseNext, Inductive, PTL DEF Spec, ImplementsRecord, Promise!Spec
===============================================================================
