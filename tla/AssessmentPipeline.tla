--------------------------- MODULE AssessmentPipeline ---------------------------
(***************************************************************************)
(* From the answers of a user to the PDF report: the assessment API, two   *)
(* SQS queues with a Lambda worker each, and the browser page that drives  *)
(* the pipeline.                                                           *)
(*                                                                         *)
(* The page marks the assessment completed and enqueues a scoring job; the *)
(* scoring worker reads the answers, stores the score and sets the status; *)
(* the page sees it, captures the printed report, uploads it and enqueues  *)
(* a report job; the report worker turns it into a PDF.  Jobs are          *)
(* delivered at least once and set aside as dead after a number of         *)
(* receives; a page may be closed, time out or try again at any time.      *)
(*                                                                         *)
(* Answer stands for 240 responses, Empty for fewer.  The answers, the     *)
(* score computed from them and the report that shows it are compared only *)
(* for equality, so each is named by the answers it came from.  All        *)
(* assessments belong to one user.                                         *)
(***************************************************************************)
EXTENDS Naturals, Sequences, FiniteSets

CONSTANTS Assessment,
          Answer,       \* 240 responses
          Empty,        \* not all responses are there
          Page,         \* browser pages that may be open at the same time
          Job,          \* bound: jobs that exist at the same time
          Worker,       \* Lambda invocations at the same time
          None,
          Wanted,       \* the statuses that clients of the API ask for
          BatchSize,    \* records of a scoring invocation
          MaxReceive,   \* receives before a job is dead, per kind
          MaxUpdate,    \* bound: status changes under way that differ
          MaxFailure    \* bound: invocations that crash, time out or fail on I/O

Kind == {"score", "report"}

ASSUME PipelineAssumption ==
    /\ None \notin Assessment \cup Answer \cup {Empty}
    /\ Empty \notin Answer
    /\ BatchSize \in Nat \ {0}
    /\ MaxReceive \in [Kind -> Nat \ {0}]
    /\ MaxUpdate \in Nat
    /\ MaxFailure \in Nat

VARIABLES
    status,     \* Postgres: assessments.status
    answers,    \* Postgres: question_responses
    score,      \* Postgres: assessment_scores
    report,     \* Postgres: assessment_reports, by what the PDF of its key shows
    html,       \* S3: the print snapshot, one per assessment
    pdfs,       \* S3: the PDFs uploaded, each under a key of its own
    saving,     \* saves that were admitted and have not committed
    updating,   \* status changes that were admitted and have not committed
    page,       \* the browser
    job,        \* the two SQS queues and their dead letters
    worker,     \* the Lambda workers
    overlap,    \* history: the answers changed under a completed assessment,
                \* it was reopened under a scoring job, or a status change was
                \* committed over a status that does not allow it
    failures

rows == <<status, answers, score, report, overlap>>
bucket == <<html, pdfs>>
vars == <<rows, bucket, saving, updating, page, job, worker, failures>>

Content == Answer \cup {Empty}

NoPage == [stage |-> "away", of |-> None, html |-> None]
NoJob == [kind |-> "score", of |-> None, state |-> "none", receives |-> 0]
Idle == [pc |-> "idle", kind |-> "score", batch |-> <<>>, next |-> 1, read |-> None]

Init ==
    /\ status = [a \in Assessment |-> "none"]
    /\ answers = [a \in Assessment |-> Empty]
    /\ score = [a \in Assessment |-> None]
    /\ report = [a \in Assessment |-> None]
    /\ html = [a \in Assessment |-> None]
    /\ pdfs = {}
    /\ saving = {}
    /\ updating = {}
    /\ page = [p \in Page |-> NoPage]
    /\ job = [j \in Job |-> NoJob]
    /\ worker = [w \in Worker |-> Idle]
    /\ overlap = [a \in Assessment |-> FALSE]
    /\ failures = 0

-------------------------------------------------------------------------------
(* The API: assessments and answers.                                       *)

\* A scored assessment may be reopened as well.
AllowedNextReopensScored ==
    [in_progress |-> {"completed"}, completed |-> {"scored", "in_progress"},
     scored |-> {"report_generated", "in_progress"}, report_generated |-> {}]

AllowedNext ==
    [in_progress |-> {"completed"}, completed |-> {"scored", "in_progress"},
     scored |-> {"report_generated"}, report_generated |-> {}]

Stored(a) == status[a] \in DOMAIN AllowedNext

\* A scoring job of a is queued or being handled.
Scoring(a) == \E j \in Job : /\ job[j].kind = "score"
                             /\ job[j].of = a
                             /\ job[j].state \in {"queued", "held"}

\* A page's request for a scoring job has passed its check.
Asked(a) == \E p \in Page : page[p].stage = "sending" /\ page[p].of = a

\* create_assessment.  The id is a fresh uuid.
Create(a) ==
    /\ status[a] = "none"
    /\ \A b \in Assessment : status[b] # "in_progress"
    /\ status' = [status EXCEPT ![a] = "in_progress"]
    /\ UNCHANGED <<answers, score, report, overlap, bucket, saving, updating, page, job, worker, failures>>

\* bulk_create and bulk_update up to the status check.
AdmitSave(a, v) ==
    /\ status[a] = "in_progress"
    /\ saving' = saving \cup {<<a, v>>}
    /\ UNCHANGED <<rows, bucket, updating, page, job, worker, failures>>

\* ... and their commit, refused by the foreign key when the row is gone.
CommitSave(a, v) ==
    /\ <<a, v>> \in saving
    /\ saving' = saving \ {<<a, v>>}
    /\ answers' = [answers EXCEPT ![a] = IF Stored(a) THEN v ELSE @]
    /\ overlap' = [overlap EXCEPT ![a] = @ \/ status[a] # "in_progress"]
    /\ UNCHANGED <<status, score, report, bucket, updating, page, job, worker, failures>>

\* update_assessment, from any client of the API, up to the check of the
\* transition.  A PUT of the status that is there already writes nothing.
AdmitUpdate(a, new) ==
    /\ Stored(a)
    /\ new \in AllowedNext[status[a]]
    /\ updating' = updating \cup {<<a, new>>}
    /\ Cardinality(updating') <= MaxUpdate
    /\ UNCHANGED <<rows, bucket, saving, page, job, worker, failures>>

\* The commit of an admitted status, over whatever the status is by now.
WriteStatus(a, new) ==
    /\ <<a, new>> \in updating
    /\ updating' = updating \ {<<a, new>>}
    /\ status' = [status EXCEPT ![a] = IF Stored(a) THEN new ELSE @]
    /\ overlap' = [overlap EXCEPT ![a] =
                      \/ @
                      \/ new = "in_progress" /\ (Scoring(a) \/ Asked(a))
                      \/ Stored(a) /\ new \notin AllowedNext[status[a]] \cup {status[a]}]
    /\ UNCHANGED <<answers, score, report>>

\* ... and the end of update_assessment.
CommitUpdate(a, new) ==
    /\ WriteStatus(a, new)
    /\ UNCHANGED <<bucket, saving, page, job, worker, failures>>

\* delete_assessment: responses, score and report go with the row.
Delete(a) ==
    /\ Stored(a)
    /\ status' = [status EXCEPT ![a] = "deleted"]
    /\ answers' = [answers EXCEPT ![a] = Empty]
    /\ score' = [score EXCEPT ![a] = None]
    /\ report' = [report EXCEPT ![a] = None]
    /\ UNCHANGED <<overlap, bucket, saving, updating, page, job, worker, failures>>

-------------------------------------------------------------------------------
(* The page that drives the pipeline, and the API calls it makes.          *)

\* The assessment of a page.
Of(p) == page[p].of

\* What was captured is known to one run of the pipeline, up to its upload.
Turn(p, stage) == page' = [page EXCEPT ![p] = [stage |-> stage, of |-> Of(p), html |-> None]]

Away(p) == page' = [page EXCEPT ![p] = NoPage]

Send(kind, a) ==
    \E j \in Job :
        /\ job[j].state = "none"
        /\ job' = [job EXCEPT ![j] = [kind |-> kind, of |-> a, state |-> "queued",
                                      receives |-> 0]]

\* startReportGeneration: the page has its PUT completed answered, which was
\* admitted earlier (AdmitUpdate; it is refused from scored on) or finds the
\* assessment completed.
MarkCompleted(p, a) ==
    /\ page[p].stage = "away"
    /\ Stored(a)
    /\ \/ status[a] = "completed" /\ UNCHANGED <<rows, updating>>
       \/ WriteStatus(a, "completed")
    /\ page' = [page EXCEPT ![p] = [stage |-> "marked", of |-> a, html |-> None]]
    /\ UNCHANGED <<bucket, saving, job, worker, failures>>

\* A scoring job may be enqueued whatever the status.
AskForScoringAnyway(p) ==
    /\ page[p].stage = "marked"
    /\ Turn(p, "sending")
    /\ UNCHANGED <<rows, bucket, saving, updating, job, worker, failures>>

\* enqueue_scoring up to the status check.
AskForScoring(p) ==
    /\ page[p].stage = "marked"
    /\ \/ status[Of(p)] \in {"completed", "scored"} /\ Turn(p, "sending")
       \/ status[Of(p)] = "report_generated" /\ Turn(p, "polling")
       \/ status[Of(p)] \in {"in_progress", "deleted"} /\ Away(p)
    /\ UNCHANGED <<rows, bucket, saving, updating, job, worker, failures>>

\* ... and its message.  The server goes on if the page is left meanwhile, so
\* the user leaves before or after.
EnqueueScoring(p) ==
    /\ page[p].stage = "sending"
    /\ Send("score", Of(p))
    /\ Turn(p, "polling")
    /\ UNCHANGED <<rows, bucket, saving, updating, worker, failures>>

HasReport(a) == status[a] = "report_generated" /\ report[a] # None

\* pollUntilScored.
PollScored(p) ==
    /\ page[p].stage = "polling"
    /\ \/ HasReport(Of(p)) /\ Away(p)
       \/ status[Of(p)] = "scored" /\ Turn(p, "capturing")
    /\ UNCHANGED <<rows, bucket, saving, updating, job, worker, failures>>

\* captureAssessmentPrintHtml reads the score through the API.
CapturePrintHtml(p) ==
    /\ page[p].stage = "capturing"
    /\ score[Of(p)] # None
    /\ page' = [page EXCEPT ![p] = [stage |-> "captured", of |-> Of(p),
                                    html |-> score[Of(p)]]]
    /\ UNCHANGED <<rows, bucket, saving, updating, job, worker, failures>>

\* The page goes on although the upload failed.
UploadPrintHtmlIgnored(p) ==
    /\ page[p].stage = "captured"
    /\ Turn(p, "uploaded")
    /\ UNCHANGED <<rows, bucket, saving, updating, job, worker, failures>>

\* upload_report_print_html.
UploadPrintHtml(p) ==
    /\ page[p].stage = "captured"
    /\ status[Of(p)] \in {"completed", "scored", "report_generated"}
    /\ html' = [html EXCEPT ![Of(p)] = page[p].html]
    /\ Turn(p, "uploaded")
    /\ UNCHANGED <<rows, pdfs, saving, updating, job, worker, failures>>

EnqueueReport(p) ==
    /\ page[p].stage = "uploaded"
    /\ \/ status[Of(p)] = "scored" /\ Send("report", Of(p))
       \/ status[Of(p)] = "report_generated" /\ UNCHANGED job
    /\ Turn(p, "waiting")
    /\ UNCHANGED <<rows, bucket, saving, updating, worker, failures>>

\* pollUntilReportReady.
PollReport(p) ==
    /\ page[p].stage = "waiting"
    /\ HasReport(Of(p))
    /\ Away(p)
    /\ UNCHANGED <<rows, bucket, saving, updating, job, worker, failures>>

\* A call is refused or fails, the capture fails, or the wait is over.
GiveUp(p) ==
    /\ page[p].stage \in {"polling", "capturing", "captured", "uploaded", "waiting"}
    /\ Turn(p, "error")
    /\ UNCHANGED <<rows, bucket, saving, updating, job, worker, failures>>

\* handleRetry polls again; it enqueues nothing.
Retry(p) ==
    /\ page[p].stage = "error"
    /\ Turn(p, "polling")
    /\ UNCHANGED <<rows, bucket, saving, updating, job, worker, failures>>

\* The user leaves, whatever the page was waiting for.
Leave(p) ==
    /\ page[p].stage \notin {"away", "sending"}
    /\ Away(p)
    /\ UNCHANGED <<rows, bucket, saving, updating, job, worker, failures>>

-------------------------------------------------------------------------------
(* SQS and the Lambda workers.                                             *)

Limit(kind) == IF kind = "score" THEN BatchSize ELSE 1

Batches(kind) ==
    UNION {{b \in [1..n -> {j \in Job : job[j].state = "queued" /\ job[j].kind = kind}] :
              \A x, y \in 1..n : b[x] = b[y] => x = y} : n \in 1..Limit(kind)}

In(j, w) == \E i \in 1..Len(worker[w].batch) : worker[w].batch[i] = j

\* The job and the assessment of the record w is at.
Record(w) == worker[w].batch[worker[w].next]
Subject(w) == job[Record(w)].of

At(w, kind, pc) == worker[w].kind = kind /\ worker[w].pc = pc

Goto(w, pc, read) == worker' = [worker EXCEPT ![w].pc = pc, ![w].read = read]

Receive(w, kind, batch) ==
    /\ worker[w].pc = "idle"
    /\ batch \in Batches(kind)
    /\ worker' = [worker EXCEPT ![w] = [pc |-> "load", kind |-> kind, batch |-> batch,
                                        next |-> 1, read |-> None]]
    /\ job' = [j \in Job |-> IF \E i \in 1..Len(batch) : batch[i] = j
                             THEN [job[j] EXCEPT !.state = "held", !.receives = @ + 1]
                             ELSE job[j]]
    /\ UNCHANGED <<rows, bucket, saving, updating, page, failures>>

\* A failed invocation deletes its records.
ReleaseForgets(w) ==
    /\ worker' = [worker EXCEPT ![w] = Idle]
    /\ job' = [j \in Job |-> IF In(j, w) THEN NoJob ELSE job[j]]

\* An exception fails the invocation: every record of the batch comes back.
\* Lambda gives up on an invocation before its records become visible again.
Release(w) ==
    /\ worker' = [worker EXCEPT ![w] = Idle]
    /\ job' = [j \in Job |->
                 IF In(j, w)
                 THEN [job[j] EXCEPT !.state = IF job[j].receives < MaxReceive[job[j].kind]
                                               THEN "queued" ELSE "dead"]
                 ELSE job[j]]

\* The responses are not counted before they are scored.
LoadAnswersUncounted(w) ==
    /\ At(w, "score", "load")
    /\ Goto(w, "persist", answers[Subject(w)])
    /\ UNCHANGED <<rows, bucket, saving, updating, page, job, failures>>

LoadAnswers(w) ==
    /\ At(w, "score", "load")
    /\ \/ answers[Subject(w)] = Empty /\ Release(w)
       \/ answers[Subject(w)] # Empty /\ Goto(w, "persist", answers[Subject(w)]) /\ UNCHANGED job
    /\ UNCHANGED <<rows, bucket, saving, updating, page, failures>>

\* On to the next record, or out of the handler.
NextRecord(w) ==
    worker' = [worker EXCEPT ![w] =
                 IF @.next = Len(@.batch)
                 THEN [@ EXCEPT !.pc = "return", !.read = None]
                 ELSE [@ EXCEPT !.pc = "load", !.read = None, !.next = worker[w].next + 1]]

\* _upsert_score_and_mark_scored, whatever the status was.
PersistScore(w) ==
    /\ At(w, "score", "persist")
    /\ \/ /\ Stored(Subject(w))
          /\ score' = [score EXCEPT ![Subject(w)] = worker[w].read]
          /\ status' = [status EXCEPT ![Subject(w)] = "scored"]
          /\ NextRecord(w)
          /\ UNCHANGED job
       \/ ~Stored(Subject(w)) /\ Release(w) /\ UNCHANGED <<score, status>>
    /\ UNCHANGED <<answers, report, overlap, bucket, saving, updating, page, failures>>

\* _require_account_for_assessment and the download of the snapshot.
DownloadHtml(w) ==
    /\ At(w, "report", "load")
    /\ \/ /\ Stored(Subject(w))
          /\ html[Subject(w)] # None
          /\ Goto(w, "upload", html[Subject(w)])
          /\ UNCHANGED job
       \/ ~(Stored(Subject(w)) /\ html[Subject(w)] # None) /\ Release(w)
    /\ UNCHANGED <<rows, bucket, saving, updating, page, failures>>

\* The key is stored although the PDF was not uploaded.
UploadPdfLost(w) ==
    /\ At(w, "report", "upload")
    /\ Goto(w, "persist", worker[w].read)
    /\ UNCHANGED <<rows, bucket, saving, updating, page, job, failures>>

UploadPdf(w) ==
    /\ At(w, "report", "upload")
    /\ pdfs' = pdfs \cup {<<Subject(w), worker[w].read>>}
    /\ Goto(w, "persist", worker[w].read)
    /\ UNCHANGED <<rows, html, saving, updating, page, job, failures>>

\* The key is stored although there is no score.
PersistReportKeyUnscored(w) ==
    /\ At(w, "report", "persist")
    /\ report' = [report EXCEPT ![Subject(w)] = worker[w].read]
    /\ status' = [status EXCEPT ![Subject(w)] = "report_generated"]
    /\ NextRecord(w)
    /\ UNCHANGED <<answers, score, overlap, bucket, saving, updating, page, job, failures>>

\* _persist_report_key.
PersistReportKey(w) ==
    /\ At(w, "report", "persist")
    /\ \/ /\ score[Subject(w)] # None
          /\ report' = [report EXCEPT ![Subject(w)] = worker[w].read]
          /\ status' = [status EXCEPT ![Subject(w)] = "report_generated"]
          /\ NextRecord(w)
          /\ UNCHANGED job
       \/ score[Subject(w)] = None /\ Release(w) /\ UNCHANGED <<report, status>>
    /\ UNCHANGED <<answers, score, overlap, bucket, saving, updating, page, failures>>

\* The handler returned: its records are deleted.
Acknowledge(w) ==
    /\ worker[w].pc = "return"
    /\ worker' = [worker EXCEPT ![w] = Idle]
    /\ job' = [j \in Job |-> IF In(j, w) THEN NoJob ELSE job[j]]
    /\ UNCHANGED <<rows, bucket, saving, updating, page, failures>>

\* A crash, a timeout or an I/O error; the transaction under way is rolled back.
WorkerFails(w) ==
    /\ failures < MaxFailure
    /\ worker[w].pc # "idle"
    /\ failures' = failures + 1
    /\ Release(w)
    /\ UNCHANGED <<rows, bucket, saving, updating, page>>

-------------------------------------------------------------------------------

Handle(w) ==
    \/ LoadAnswers(w) \/ PersistScore(w)
    \/ DownloadHtml(w) \/ UploadPdf(w) \/ PersistReportKey(w)
    \/ Acknowledge(w)

Api ==
    \E a \in Assessment :
        \/ Create(a) \/ Delete(a)
        \/ \E v \in Answer : AdmitSave(a, v) \/ CommitSave(a, v)
        \/ \E new \in Wanted : AdmitUpdate(a, new) \/ CommitUpdate(a, new)

Browser ==
    \E p \in Page :
        \/ \E a \in Assessment : MarkCompleted(p, a)
        \/ AskForScoring(p) \/ EnqueueScoring(p) \/ PollScored(p) \/ CapturePrintHtml(p)
        \/ UploadPrintHtml(p) \/ EnqueueReport(p) \/ PollReport(p)
        \/ GiveUp(p) \/ Retry(p) \/ Leave(p)

Lambda ==
    \E w \in Worker :
        \/ \E kind \in Kind : \E batch \in Batches(kind) : Receive(w, kind, batch)
        \/ Handle(w)
        \/ WorkerFails(w)

Next == Api \/ Browser \/ Lambda

Spec == Init /\ [][Next]_vars

\* An invocation runs on until it returns, and the Lambda poller does not pass
\* over a job that stays in its queue.
FairSpec ==
    /\ Spec
    /\ \A w \in Worker : WF_vars(Handle(w))
    /\ \A j \in Job : SF_vars(\E w \in Worker : \E kind \in Kind : \E batch \in Batches(kind) :
                                 /\ \E i \in 1..Len(batch) : batch[i] = j
                                 /\ Receive(w, kind, batch))

-------------------------------------------------------------------------------
(* Properties.                                                             *)

Stage == {"away", "marked", "sending", "polling", "capturing", "captured", "uploaded", "waiting", "error"}

\* Every variable has its type.
TypeOK ==
    /\ status \in [Assessment -> {"none", "deleted"} \cup DOMAIN AllowedNext]
    /\ answers \in [Assessment -> Content]
    /\ score \in [Assessment -> Answer \cup {None}]
    /\ report \in [Assessment -> Answer \cup {None}]
    /\ html \in [Assessment -> Answer \cup {None}]
    /\ pdfs \subseteq Assessment \X Answer
    /\ saving \subseteq Assessment \X Answer
    /\ updating \subseteq Assessment \X DOMAIN AllowedNext
    /\ page \in [Page -> [stage : Stage, of : Assessment \cup {None},
                          html : Answer \cup {None}]]
    /\ job \in [Job -> [kind : Kind, of : Assessment \cup {None},
                        state : {"none", "queued", "held", "dead"}, receives : Nat]]
    /\ worker \in [Worker -> [pc : {"idle", "load", "upload", "persist", "return"},
                              kind : Kind, batch : Seq(Job), next : Nat,
                              read : Answer \cup {None}]]
    /\ overlap \in [Assessment -> BOOLEAN]
    /\ failures \in 0..MaxFailure

\* A stored score was computed from the answers that are stored now, however
\* many jobs, retries and pages there were, unless a save or a reopening
\* overlapped the scoring or a status change came in late (score_worker.py reads the answers in one
\* transaction and stores the score in another).
ScoreIsCurrent == \A a \in Assessment : score[a] # None /\ ~overlap[a] => score[a] = answers[a]

\* The PDF of a stored report key shows the stored score, although browser,
\* bucket, queue and worker each hold a copy, under the same condition.
ReportShowsScore == \A a \in Assessment : report[a] # None /\ ~overlap[a] => report[a] = score[a]

\* A stored report key names a PDF that has been uploaded, whenever the worker
\* crashes and however often its job is repeated (handler of report_worker.py).
ReportIsStored == \A a \in Assessment : report[a] # None => <<a, report[a]>> \in pdfs

\* Pages, queues, workers and bucket add up to the two-step record of
\* AssessmentRecord: no crash, redelivery or repeated job shows in the rows, a
\* score stays once it is there, and no report comes without one.
Promise == INSTANCE AssessmentRecord WITH
               excused <- {a \in Assessment : overlap[a]},
               deleted <- {a \in Assessment : status[a] = "deleted"}
ImplementsRecord == Promise!Spec

\* A scoring job for a finished assessment leads to a score, through crashes
\* and redeliveries, unless the assessment is deleted or changed meanwhile.
ScoringLeadsToScore ==
    \A a \in Assessment :
        (Scoring(a) /\ answers[a] # Empty /\ ~overlap[a])
            ~> (score[a] # None \/ status[a] = "deleted" \/ overlap[a])

\* A report job leads to a report, unless the assessment is deleted: the
\* snapshot and the score are there before the page can enqueue the job.
ReportJobLeadsToReport ==
    \A a \in Assessment :
        (\E j \in Job : job[j].kind = "report" /\ job[j].of = a /\ job[j].state = "queued")
            ~> (report[a] # None \/ status[a] = "deleted")

\* A generated report is final: the docstring of AssessmentUpdate lists
\* "completed -> scored -> report_generated" and no way back, and
\* _validate_transition refuses one.  (Deleting the assessment is not a way back.)
FinalStep ==
    \A a \in Assessment : HasReport(a) =>
        status'[a] \in {"report_generated", "deleted"}
ReportGeneratedIsFinal == [][FinalStep]_status

===============================================================================
