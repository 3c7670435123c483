------------------------------ MODULE Planning ------------------------------
(***************************************************************************)
(* The study suggestion of one student's planning report.  A student who   *)
(* submits the questionnaire, or opens a report that has no suggestion,    *)
(* has the server put a task into the queue; a worker takes it, marks the  *)
(* suggestion pending and asks the language model's service, which writes  *)
(* the suggestion into the student's row itself.  The queue keeps no copy  *)
(* of a task that was taken and retries none.                              *)
(***************************************************************************)
EXTENDS Naturals, FiniteSets

CONSTANTS
    Request,    \* the calls of the server there may be; each sends at most one task
    Duties,     \* what those calls may be for: functions of the requests
    Nobody      \* no request

Kind == {"profile", "ask", "wait"}

ASSUME PlanningAssumption ==
    /\ Duties \subseteq [Request -> Kind]
    /\ IsFiniteSet(Request) /\ Nobody \notin Request

\* What a row holds: a suggestion made for a version of the questionnaire, the
\* word "pending", or nothing.  Version 0 is the questionnaire nobody filled in.
None       == [text |-> "none", of |-> 0]
Pending    == [text |-> "pending", of |-> 0]
Report(v)  == [text |-> "report", of |-> v]

VARIABLES
    profile,    \* the committed version of the questionnaire
    suggestion, \* studentattribute.studysuggestion
    writer,     \* the request whose transaction holds the student's row, or Nobody
    request,    \* the requests: where they are and the version they work with
    task,       \* the task of each request in the queue
    llm,        \* what the model's service makes of each task's call
    events      \* history: "lost" work, a profile "undone", one "overtaken"

vars == <<profile, suggestion, writer, request, task, llm, events>>

Version == 0..Cardinality(Request)

RequestAt == {"idle", "asked", "attr", "sent", "read", "send", "look", "waiting",
              "done", "failed", "timeout"}
TaskAt == {"none", "queued", "taken", "calling", "done", "failed"}
LlmAt == {"none", "working", "written", "refused"}

Init ==
    /\ profile = 0 /\ suggestion = None /\ writer = Nobody
    /\ \E duty \in Duties :
          request = [r \in Request |-> [at |-> "idle", kind |-> duty[r], of |-> 0]]
    /\ task = [r \in Request |-> [at |-> "none", of |-> 0]]
    /\ llm = [r \in Request |-> "none"]
    /\ events = {}

Ended == {"done", "failed", "timeout"}

\* Work under way on a version, from the request that read it to the model's answer.
Going(r) ==
    \/ request[r].at \notin Ended \cup {"idle", "asked"}
    \/ task[r].at \in {"queued", "taken", "calling"}
    \/ llm[r] = "working"

Overtakes(r) == \E q \in Request \ {r} : Going(q)

At(r, step) == request' = [request EXCEPT ![r].at = step]

------------------------------------------------------------------------------
(* Submitting the questionnaire: one transaction, which locks the row,     *)
(* sends the task of the new version and only then commits.                *)

NewVersion == 1 + Cardinality({q \in Request : request[q].kind = "profile" /\ request[q].of # 0})

\* The task is sent before the row is updated.
UpdateStudentAttr_SendFirst(r) ==
    /\ request[r].kind = "profile" /\ request[r].at = "idle" /\ writer = Nobody
    /\ request' = [request EXCEPT ![r].at = "attr", ![r].of = NewVersion]
    /\ events' = IF Overtakes(r) THEN events \cup {"overtaken"} ELSE events
    /\ UNCHANGED <<profile, suggestion, writer, task, llm>>

UpdateStudentAttr(r) ==
    /\ request[r].kind = "profile" /\ request[r].at = "idle" /\ writer = Nobody
    /\ request' = [request EXCEPT ![r].at = "attr", ![r].of = NewVersion]
    /\ writer' = r
    /\ events' = IF Overtakes(r) THEN events \cup {"overtaken"} ELSE events
    /\ UNCHANGED <<profile, suggestion, task, llm>>

\* The new version is stored and no task is sent for it.
SendProfileTask_Skipped(r) ==
    /\ request[r].at = "attr"
    /\ At(r, "sent")
    /\ UNCHANGED <<profile, suggestion, writer, task, llm, events>>

SendProfileTask(r) ==
    /\ request[r].at = "attr"
    /\ At(r, "sent")
    /\ task' = [task EXCEPT ![r] = [at |-> "queued", of |-> request[r].of]]
    /\ UNCHANGED <<profile, suggestion, writer, llm, events>>

CommitProfile(r) ==
    /\ request[r].at = "sent"
    /\ At(r, "done")
    /\ profile' = request[r].of
    /\ writer' = Nobody
    /\ UNCHANGED <<suggestion, task, llm, events>>

\* The queue refuses the task, or the user's row cannot be updated: the deferred
\* roll-back undoes the profile, and leaves a task that was sent where it is.
RollbackProfile(r) ==
    /\ request[r].at \in {"attr", "sent"}
    /\ At(r, "failed")
    /\ writer' = Nobody
    /\ events' = IF request[r].at = "sent" THEN events \cup {"undone"} ELSE events
    /\ UNCHANGED <<profile, suggestion, task, llm>>

------------------------------------------------------------------------------
(* What the report page asks for: first whether there is a major and a     *)
(* suggestion, then the questionnaire and the suggestion side by side.     *)

GetStudentPrecheckData == [major |-> profile # 0, genstudysuggestion |-> suggestion]

\* The page of the report, by account; the document, for the user's own account.
GetStudentPlanningDataByAccountId == [profile |-> profile, genstudysuggestion |-> suggestion]
GetStudentPlanningData == GetStudentPlanningDataByAccountId

\* The report that is downloaded as a document needs the major as well; without it the
\* request dies on the missing values.
GenerateReport == GetStudentPlanningData.profile # 0

------------------------------------------------------------------------------
(* Asking for a suggestion: the page of a report that has none, or the     *)
(* call that names an account and waits for the result.                    *)

\* StudentPlanningReport.vue asks when the precheck shows a major and no suggestion.
OpenReport(r) ==
    /\ request[r].kind = "ask" /\ request[r].at = "idle"
    /\ GetStudentPrecheckData = [major |-> TRUE, genstudysuggestion |-> None]
    /\ At(r, "asked")
    /\ UNCHANGED <<profile, suggestion, writer, task, llm, events>>

GetStudentAttrs(r) ==
    /\ \/ request[r].at = "asked"
       \/ request[r].kind = "wait" /\ request[r].at = "idle"
    /\ request' = [request EXCEPT ![r] = [at |-> "read", kind |-> @.kind, of |-> profile]]
    /\ events' = IF writer # Nobody THEN events \cup {"overtaken"} ELSE events
    /\ UNCHANGED <<profile, suggestion, writer, task, llm>>

\* The row is pending and committed before the task is sent.  Without a major
\* (version 0) the next line dereferences nil, and the request dies.
UpdateStudentStudySuggestion(r) ==
    /\ request[r].at = "read" /\ writer = Nobody
    /\ suggestion' = Pending
    /\ At(r, IF request[r].of = 0 THEN "failed" ELSE "send")
    /\ events' = IF request[r].of = 0 THEN events \cup {"lost"} ELSE events
    /\ UNCHANGED <<profile, writer, task, llm>>

SendTask(r) ==
    /\ request[r].at = "send"
    /\ task' = [task EXCEPT ![r] = [at |-> "queued", of |-> request[r].of]]
    /\ At(r, IF request[r].kind = "wait" THEN "look" ELSE "done")
    /\ UNCHANGED <<profile, suggestion, writer, llm, events>>

SendFails(r) ==
    /\ request[r].at = "send"
    /\ At(r, "failed")
    /\ events' = events \cup {"lost"}
    /\ UNCHANGED <<profile, suggestion, writer, task, llm>>

\* The state of the task is read once; unless it is complete by then the loop
\* looks at that first reading until it has counted to its end.
WaitResult(r) ==
    /\ request[r].at = "look"
    /\ At(r, CASE task[r].at = "done" -> "done"
               [] task[r].at = "failed" -> "failed"
               [] OTHER -> "waiting")
    /\ UNCHANGED <<profile, suggestion, writer, task, llm, events>>

TimeOut(r) ==
    /\ request[r].at = "waiting"
    /\ At(r, "timeout")
    /\ UNCHANGED <<profile, suggestion, writer, task, llm, events>>

\* The server stops: its transactions are rolled back, its requests unanswered.
Crash ==
    /\ \E r \in Request : request[r].at \notin Ended \cup {"idle"}
    /\ request' = [r \in Request |->
          IF request[r].at \in Ended \cup {"idle"} THEN request[r]
          ELSE [request[r] EXCEPT !.at = "failed"]]
    /\ writer' = Nobody
    /\ events' = events
          \cup {e \in {"lost"} : \E r \in Request : request[r].at = "send"}
          \cup {e \in {"undone"} : \E r \in Request : request[r].at = "sent"}
    /\ UNCHANGED <<profile, suggestion, task, llm>>

------------------------------------------------------------------------------
(* The worker, and the model's service behind it.                          *)

Take(r) ==
    /\ task[r].at = "queued"
    /\ task' = [task EXCEPT ![r].at = "taken"]
    /\ UNCHANGED <<profile, suggestion, writer, request, llm, events>>

\* The row is marked when the call is over.
MarkPending_Late(r) ==
    \/ /\ task[r].at = "taken"
       /\ task' = [task EXCEPT ![r].at = "calling"]
       /\ llm' = [llm EXCEPT ![r] = "working"]
       /\ UNCHANGED <<profile, suggestion, writer, request, events>>
    \/ /\ task[r].at = "calling" /\ llm[r] = "written" /\ writer = Nobody
       /\ suggestion' = Pending
       /\ task' = [task EXCEPT ![r].at = "done"]
       /\ UNCHANGED <<profile, writer, request, llm, events>>

\* UpdateStudySuggestion of the task server marks the row, whose lock it waits for;
\* an error of that statement is not looked at.
MarkPending(r) ==
    /\ task[r].at = "taken"
    /\ \/ writer = Nobody /\ suggestion' = Pending
       \/ UNCHANGED suggestion
    /\ task' = [task EXCEPT ![r].at = "calling"]
    /\ llm' = [llm EXCEPT ![r] = "working"]
    /\ UNCHANGED <<profile, writer, request, events>>

\* The service writes the suggestion itself, or answers with an error.
LlmWrites(r) ==
    /\ llm[r] = "working" /\ writer = Nobody
    /\ suggestion' = Report(task[r].of)
    /\ llm' = [llm EXCEPT ![r] = "written"]
    /\ UNCHANGED <<profile, writer, request, task, events>>

LlmRefuses(r) ==
    /\ llm[r] = "working"
    /\ llm' = [llm EXCEPT ![r] = "refused"]
    /\ events' = events \cup {"lost"}
    /\ UNCHANGED <<profile, suggestion, writer, request, task>>

\* ScrapeAndParse returns; an error, also of a connection that breaks while the
\* service is at work, fails the task and changes nothing in the row.
ScrapeAndParse(r) ==
    /\ task[r].at = "calling"
    /\ task' = [task EXCEPT ![r].at =
                   IF llm[r] = "written" THEN "done" ELSE "failed"]
    /\ UNCHANGED <<profile, suggestion, writer, request, llm, events>>

\* The worker stops: the queue no longer has the tasks it had taken.
WorkerStops ==
    /\ \E r \in Request : task[r].at \in {"taken", "calling"}
    /\ task' = [r \in Request |->
          IF task[r].at \in {"taken", "calling"} THEN [task[r] EXCEPT !.at = "failed"]
          ELSE task[r]]
    /\ events' = events \cup {e \in {"lost"} : \E r \in Request : task[r].at = "taken"}
    /\ UNCHANGED <<profile, suggestion, writer, request, llm>>

------------------------------------------------------------------------------

Handle(r) ==
    \/ SendProfileTask(r) \/ CommitProfile(r) \/ RollbackProfile(r)
    \/ UpdateStudentStudySuggestion(r) \/ SendTask(r) \/ SendFails(r)
    \/ WaitResult(r) \/ TimeOut(r)

Work(r) == Take(r) \/ MarkPending(r) \/ ScrapeAndParse(r)

Answer(r) == LlmWrites(r) \/ LlmRefuses(r)

Next ==
    \/ \E r \in Request :
          \/ UpdateStudentAttr(r) \/ OpenReport(r) \/ GetStudentAttrs(r)
          \/ Handle(r) \/ Work(r) \/ Answer(r)
    \/ Crash \/ WorkerStops

Spec == Init /\ [][Next]_vars

\* The server answers the requests it has, a worker runs, and the service answers
\* the calls it has; nobody has to submit a questionnaire or open a report.
FairSpec ==
    /\ Spec
    /\ \A r \in Request : WF_vars(Handle(r)) /\ WF_vars(Work(r)) /\ WF_vars(Answer(r))

------------------------------------------------------------------------------
(* Properties.                                                             *)

\* The row, the requests and the tasks are of the types the code gives them.
TypeOK ==
    /\ profile \in Version
    /\ suggestion \in {None, Pending} \cup {Report(v) : v \in Version \ {0}}
    /\ writer \in Request \cup {Nobody}
    /\ request \in [Request -> [at : RequestAt, kind : Kind, of : Version]]
    /\ task \in [Request -> [at : TaskAt, of : Version]]
    /\ llm \in [Request -> LlmAt]
    /\ events \subseteq {"lost", "undone", "overtaken"}

\* A report that shows "being generated" is being generated: unless a task, a call
\* or a request was lost, somebody is still at work who will write the suggestion.
\* (Nothing in the code takes "pending" back, and the page asks only on an empty row.)
PendingHasCause ==
    suggestion = Pending /\ "lost" \notin events =>
        \E r \in Request :
            \/ request[r].at = "send"
            \/ task[r].at \in {"queued", "taken"}
            \/ llm[r] = "working"

\* When all work is done, a suggestion is about the questionnaire that is stored,
\* although the task of a questionnaire runs before its transaction commits and any
\* number of pages ask meanwhile -- unless a questionnaire was submitted while the
\* work on an earlier one was under way, or work was lost or undone.
FreshReport ==
    LET shown == GetStudentPlanningDataByAccountId IN
    events = {} /\ shown.genstudysuggestion.text = "report" /\ (\A r \in Request : ~ Going(r))
        => GenerateReport /\ shown.genstudysuggestion.of = shown.profile

\* No suggestion is about a questionnaire that is not stored (or was, before a later
\* one): the row's lock holds back the task that is sent before its transaction ends.
SuggestionOfStored ==
    suggestion.text = "report" /\ "undone" \notin events => suggestion.of \in 1..profile

\* A pending report is delivered, or some work for it was lost.
PendingEnds == suggestion = Pending ~> suggestion.text = "report" \/ "lost" \in events

\* Every call the server has begun to answer is answered: one that waits for the row a
\* questionnaire holds, one that waits for a task nobody will do, and one whose server stops.
RequestsEnd ==
    \A r \in Request :
        request[r].at \notin Ended \cup {"idle", "asked"} ~> request[r].at \in Ended

\* What the row shows has a cause: a pending report is under way, a suggestion is about
\* a questionnaire that was stored.
Consistent == TypeOK /\ PendingHasCause /\ SuggestionOfStored

\* Neither a report nor a request waits for ever, whatever stops in between.
EverythingEnds == PendingEnds /\ RequestsEnd
=============================================================================
