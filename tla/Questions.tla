------------------------------ MODULE Questions ------------------------------
(***************************************************************************)
(* A question on a dataset page, its one answer, the reports users file    *)
(* against it and the ops resolutions that may hide it (qa/service.go,     *)
(* qa/repo.go, moderation/service.go, moderation/repo.go).                 *)
(***************************************************************************)
EXTENDS Naturals, FiniteSets

CONSTANTS
    Answers,      \* AnswerQuestion calls of the seller
    Reporters,    \* users who may report the question
    Filings,      \* report rows, over time
    NoReporter    \* a report row not filed yet

ASSUME QuestionConstants == NoReporter \notin Reporters

VARIABLES
    question,     \* dataset_questions.status
    answers,      \* dataset_answers rows of the question
    answering,    \* how far each AnswerQuestion call has come
    reporter,     \* who filed each content_reports row
    report,       \* content_reports.status, with its resolution
    listedPublic  \* the question was listed after it was hidden

questionVars == <<question, answers, answering, reporter, report, listedPublic>>

QuestionsTypeOK ==
    /\ question \in {"open", "answered", "hidden"}
    /\ answers \subseteq Answers
    /\ answering \in [Answers -> {"none", "read", "created", "notified", "conflict", "dead"}]
    /\ reporter \in [Filings -> Reporters \cup {NoReporter}]
    /\ report \in [Filings -> {"unfiled", "open", "hide", "dismiss"}]
    /\ listedPublic \in {"no", "yes"}

QuestionsInit ==
    /\ question = "open" /\ answers = {} /\ listedPublic = "no"
    /\ answering = [a \in Answers |-> "none"]
    /\ reporter = [f \in Filings |-> NoReporter]
    /\ report = [f \in Filings |-> "unfiled"]

-----------------------------------------------------------------------------
\* AnswerQuestion reads the question with its answer ...
ReadQuestion(a) ==
    /\ answering[a] = "none" /\ answers = {}
    /\ answering' = [answering EXCEPT ![a] = "read"]
    /\ UNCHANGED <<question, answers, reporter, report, listedPublic>>

\* ... inserts the answer unless another call's row is there ...
CreateAnswer(a) ==
    /\ answering[a] = "read"
    /\ IF answers = {}
       THEN answers' = {a} /\ answering' = [answering EXCEPT ![a] = "created"]
       ELSE UNCHANGED answers /\ answering' = [answering EXCEPT ![a] = "conflict"]
    /\ UNCHANGED <<question, reporter, report, listedPublic>>

\* Mutant: the update does not leave hidden questions alone.
Unhide(a) ==
    /\ answering[a] = "created"
    /\ question' = "answered"
    /\ answering' = [answering EXCEPT ![a] = "notified"]
    /\ UNCHANGED <<answers, reporter, report, listedPublic>>

\* ... and marks the question answered, unless it has been hidden.
SetQuestionStatus(a) ==
    /\ answering[a] = "created"
    /\ question' = IF question = "hidden" THEN question ELSE "answered"
    /\ answering' = [answering EXCEPT ![a] = "notified"]
    /\ UNCHANGED <<answers, reporter, report, listedPublic>>

\* The call is cut off, or its update fails, between the two writes.
AnswerDies(a) ==
    /\ answering[a] \in {"read", "created"}
    /\ answering' = [answering EXCEPT ![a] = "dead"]
    /\ UNCHANGED <<question, answers, reporter, report, listedPublic>>

\* ListByDataset leaves the hidden questions out.
ListQuestions ==
    /\ question # "hidden"
    /\ listedPublic' = IF \E f \in Filings : report[f] = "hide" THEN "yes" ELSE listedPublic
    /\ UNCHANGED <<question, answers, answering, reporter, report>>

\* CreateReport: an open report of the same reporter is returned as it is.
CreateReport(r, f) ==
    /\ report[f] = "unfiled"
    /\ ~\E g \in Filings : report[g] = "open" /\ reporter[g] = r
    /\ reporter' = [reporter EXCEPT ![f] = r]
    /\ report' = [report EXCEPT ![f] = "open"]
    /\ UNCHANGED <<question, answers, answering, listedPublic>>

\* hideTarget, in the transaction of Resolve.
HideTarget(resolution) ==
    question' = IF resolution = "hide" THEN "hidden" ELSE question

\* Resolve: only an open report, and the hiding in the same transaction.
Resolve(f, resolution) ==
    /\ report[f] = "open"
    /\ report' = [report EXCEPT ![f] = resolution]
    /\ HideTarget(resolution)
    /\ UNCHANGED <<answers, answering, reporter, listedPublic>>

QuestionsNext ==
    \/ ListQuestions
    \/ \E a \in Answers :
          ReadQuestion(a) \/ CreateAnswer(a) \/ SetQuestionStatus(a) \/ AnswerDies(a)
    \/ \E f \in Filings :
          (\E r \in Reporters : CreateReport(r, f))
             \/ (\E resolution \in {"hide", "dismiss"} : Resolve(f, resolution))

QuestionsSpec == QuestionsInit /\ [][QuestionsNext]_questionVars

-----------------------------------------------------------------------------
\* A question is answered once however many submits race, and is shown as
\* answered only with its answer (qa/repo.go CreateAnswer's ON CONFLICT).
OneAnswer ==
    /\ Cardinality(answers) <= 1
    /\ question = "answered" => answers # {}
    /\ (answers # {} /\ question = "open") =>
            \E a \in answers : answering[a] \in {"created", "dead"}

\* What an operator hid stays hidden from the public list: the seller's late
\* answer does not bring it back (qa/repo.go SetQuestionStatus).
HiddenStays ==
    /\ (\E f \in Filings : report[f] = "hide") => question = "hidden"
    /\ listedPublic = "no"

\* One reporter has one open report of the question at a time.
OneOpenReport ==
    \A f, g \in Filings :
        (report[f] = "open" /\ report[g] = "open" /\ reporter[f] = reporter[g]) => f = g

\* A resolution is given once and kept (moderation/repo.go).
ResolvedOnce ==
    [][\A f \in Filings : report[f] \in {"hide", "dismiss"} => report'[f] = report[f]]_questionVars

\* What a question's thread shows and what its reports leave, together.
QuestionsInv == QuestionsTypeOK /\ OneAnswer /\ HiddenStays /\ OneOpenReport
=============================================================================
