---------------------------- MODULE PlanningProofs ----------------------------
(***************************************************************************)
(* The study suggestion, for any number of requests: what the row shows    *)
(* has a cause, and when all work is done the report is about the          *)
(* questionnaire that is stored, unless work was lost, undone or           *)
(* overtaken.                                                              *)
(*                                                                         *)
(* The argument: the transaction of a questionnaire holds the row, so that *)
(* whoever writes a suggestion writes it for a version that is committed;  *)
(* and unless it is overtaken it is the only work there is.                *)
(***************************************************************************)
EXTENDS Planning, FiniteSetTheorems, TLAPS

USE PlanningAssumption

\* Work that will still write the suggestion.
Live(r) == task[r].at \in {"queued", "taken"} \/ llm[r] = "working"

\* A transaction that stores a questionnaire.
Storing(r) == request[r].at \in {"attr", "sent"}

Submitted == {q \in Request : request[q].kind = "profile" /\ request[q].of # 0}

-----------------------------------------------------------------------------
(* The parts of the invariant.                                             *)

\* The row is held by the transaction that stores a questionnaire.
Lock == \A r \in Request : Storing(r) <=> writer = r

\* Where requests and tasks are, and what they know by then.
Shapes ==
    \A r \in Request :
        /\ request[r].at = "idle" => request[r].of = 0
        /\ Storing(r) => request[r].kind = "profile"
        /\ request[r].at \in {"asked", "read", "send", "look", "waiting"} => request[r].kind # "profile"
        /\ request[r].at = "send" => request[r].of # 0
        /\ request[r].at \in {"idle", "asked", "attr", "read", "send"} => task[r].at = "none" /\ llm[r] = "none"
        /\ task[r].at # "none" => task[r].of # 0
        /\ llm[r] # "none" => task[r].at # "none"

\* Versions count the questionnaires, and the one being stored is the newest.
Numbers ==
    /\ profile <= Cardinality(Submitted)
    /\ \A r \in Request :
          /\ Storing(r) => profile < request[r].of /\ request[r].of <= Cardinality(Submitted)
          /\ request[r].at \in {"read", "send"} => request[r].of <= profile

\* Work is for a version that is stored, or about to be by its own request.
ForStored ==
    "undone" \notin events =>
        \A r \in Request : Live(r) =>
            task[r].of <= profile \/ (request[r].at = "sent" /\ task[r].of = request[r].of)

\* Unless it is overtaken, a questionnaire is stored while no other work goes on, and its
\* own work is not over before.
Alone ==
    events = {} => \A r \in Request : Storing(r) =>
        /\ \A q \in Request : Going(q) => q = r
        /\ request[r].at = "sent" => Live(r) /\ task[r].of = request[r].of

\* And then all work is for the version that is stored.
Current ==
    events = {} /\ writer = Nobody => \A r \in Request :
        /\ request[r].at \in {"read", "send"} => request[r].of = profile
        /\ Live(r) => task[r].of = profile

\* A suggestion of an earlier version is about to be replaced.
Replaced ==
    events = {} /\ suggestion.text = "report" =>
        suggestion.of = profile \/ (writer = Nobody /\ \E r \in Request : Live(r))

IInv ==
    /\ TypeOK /\ Lock /\ Shapes /\ Numbers /\ PendingHasCause
    /\ ForStored /\ SuggestionOfStored /\ Alone /\ Current /\ Replaced
-----------------------------------------------------------------------------
(* The steps.                                                              *)

\* Request r goes on, and knows what it knew.
Moved(r, step) ==
    /\ request' \in [Request -> [at : RequestAt, kind : Kind, of : Version]]
    /\ request'[r].at = step /\ request'[r].kind = request[r].kind /\ request'[r].of = request[r].of
    /\ \A q \in Request \ {r} : request'[q] = request[q]
    /\ Submitted' = Submitted

LEMMA AtMoves == ASSUME TypeOK, NEW r \in Request, NEW step \in RequestAt, At(r, step) PROVE Moved(r, step)
<1>1. /\ request' \in [Request -> [at : RequestAt, kind : Kind, of : Version]]
      /\ request'[r].at = step /\ request'[r].kind = request[r].kind /\ request'[r].of = request[r].of
      /\ \A q \in Request \ {r} : request'[q] = request[q]
  BY DEF TypeOK, At
<1>2. Submitted' = Submitted
  BY <1>1 DEF Submitted
<1> QED
  BY <1>1, <1>2 DEF Moved

\* Task r goes on.
TaskMoved(r, step) ==
    /\ task' \in [Request -> [at : TaskAt, of : Version]]
    /\ task'[r].at = step /\ task'[r].of = task[r].of
    /\ \A q \in Request \ {r} : task'[q] = task[q]

LEMMA TaskMoves ==
    ASSUME TypeOK, NEW r \in Request, NEW step \in TaskAt, task' = [task EXCEPT ![r].at = step]
    PROVE  TaskMoved(r, step)
BY DEF TypeOK, TaskMoved

LEMMA Counts ==
    ASSUME TypeOK
    PROVE  /\ profile \in Nat /\ IsFiniteSet(Submitted) /\ Cardinality(Submitted) \in Nat
           /\ \A r \in Request : request[r].of \in Nat /\ task[r].of \in Nat
<1>1. Cardinality(Request) \in Nat
  BY FS_CardinalityType
<1>2. Submitted \subseteq Request
  BY DEF Submitted
<1>3. IsFiniteSet(Submitted) /\ Cardinality(Submitted) \in Nat
  BY <1>2, FS_Subset, FS_CardinalityType
<1> QED
  BY <1>1, <1>3 DEF TypeOK, Version

LEMMA OpenReportIInv ==
    ASSUME IInv, NEW r \in Request, OpenReport(r)
    PROVE  IInv'
<1>1. /\ request[r].kind = "ask" /\ request[r].at = "idle"
      /\ Moved(r, "asked")
      /\ profile' = profile /\ suggestion' = suggestion /\ writer' = writer /\ task' = task /\ llm' = llm /\ events' = events
  BY AtMoves DEF IInv, OpenReport, RequestAt
<1>2. TypeOK'
  BY <1>1 DEF IInv, TypeOK, Moved
<1>3. Lock'
  BY <1>1 DEF IInv, Lock, Storing, Moved
<1>4. Shapes'
  BY <1>1 DEF IInv, Shapes, Storing, Moved
<1>5. Numbers'
  BY <1>1 DEF IInv, Numbers, Storing, Moved
<1>6. PendingHasCause'
  BY <1>1 DEF IInv, PendingHasCause, Moved
<1>7. ForStored' /\ SuggestionOfStored'
  BY <1>1 DEF IInv, ForStored, SuggestionOfStored, Live, Moved
<1>8. Alone'
  BY <1>1 DEF IInv, Alone, Storing, Going, Live, Ended, Shapes, Moved
<1>9. Current'
  BY <1>1 DEF IInv, Current, Live, Moved
<1>10. Replaced'
  BY <1>1 DEF IInv, Replaced, Live, Moved
<1> QED
  BY <1>2, <1>3, <1>4, <1>5, <1>6, <1>7, <1>8, <1>9, <1>10 DEF IInv

LEMMA SendFailsIInv ==
    ASSUME IInv, NEW r \in Request, SendFails(r)
    PROVE  IInv'
<1>1. /\ request[r].at = "send" /\ events' = events \cup {"lost"}
      /\ Moved(r, "failed")
      /\ profile' = profile /\ suggestion' = suggestion /\ writer' = writer /\ task' = task /\ llm' = llm
  BY AtMoves DEF IInv, SendFails, RequestAt
<1>2. TypeOK'
  BY <1>1 DEF IInv, TypeOK, Moved
<1>3. Lock'
  BY <1>1 DEF IInv, Lock, Storing, Moved
<1>4. Shapes'
  BY <1>1 DEF IInv, Shapes, Storing, Moved
<1>5. Numbers'
  BY <1>1 DEF IInv, Numbers, Storing, Moved
<1>6. PendingHasCause'
  BY <1>1 DEF IInv, PendingHasCause, Moved
<1>7. ForStored' /\ SuggestionOfStored'
  BY <1>1 DEF IInv, ForStored, SuggestionOfStored, Live, Moved
<1>8. Alone'
  BY <1>1 DEF IInv, Alone, Storing, Going, Live, Ended, Shapes, Moved
<1>9. Current'
  BY <1>1 DEF IInv, Current, Live, Moved
<1>10. Replaced'
  BY <1>1 DEF IInv, Replaced, Live, Moved
<1> QED
  BY <1>2, <1>3, <1>4, <1>5, <1>6, <1>7, <1>8, <1>9, <1>10 DEF IInv

LEMMA WaitResultIInv ==
    ASSUME IInv, NEW r \in Request, WaitResult(r)
    PROVE  IInv'
<1>1. PICK step \in {"done", "failed", "waiting"} :
        /\ request[r].at = "look" /\ Moved(r, step)
        /\ profile' = profile /\ suggestion' = suggestion /\ writer' = writer
        /\ task' = task /\ llm' = llm /\ events' = events
  BY AtMoves DEF IInv, WaitResult, RequestAt
<1>2. TypeOK'
  BY <1>1 DEF IInv, TypeOK, Moved
<1>3. Lock'
  BY <1>1 DEF IInv, Lock, Storing, Moved
<1>4. Shapes'
  BY <1>1 DEF IInv, Shapes, Storing, Moved
<1>5. Numbers'
  BY <1>1 DEF IInv, Numbers, Storing, Moved
<1>6. PendingHasCause'
  BY <1>1 DEF IInv, PendingHasCause, Moved
<1>7. ForStored' /\ SuggestionOfStored'
  BY <1>1 DEF IInv, ForStored, SuggestionOfStored, Live, Moved
<1>8. Alone'
  BY <1>1 DEF IInv, Alone, Storing, Going, Live, Ended, Shapes, Moved
<1>9. Current'
  BY <1>1 DEF IInv, Current, Live, Moved
<1>10. Replaced'
  BY <1>1 DEF IInv, Replaced, Live, Moved
<1> QED
  BY <1>2, <1>3, <1>4, <1>5, <1>6, <1>7, <1>8, <1>9, <1>10 DEF IInv

LEMMA TimeOutIInv ==
    ASSUME IInv, NEW r \in Request, TimeOut(r)
    PROVE  IInv'
<1>1. /\ request[r].at = "waiting"
      /\ Moved(r, "timeout")
      /\ profile' = profile /\ suggestion' = suggestion /\ writer' = writer /\ task' = task /\ llm' = llm /\ events' = events
  BY AtMoves DEF IInv, TimeOut, RequestAt
<1>2. TypeOK'
  BY <1>1 DEF IInv, TypeOK, Moved
<1>3. Lock'
  BY <1>1 DEF IInv, Lock, Storing, Moved
<1>4. Shapes'
  BY <1>1 DEF IInv, Shapes, Storing, Moved
<1>5. Numbers'
  BY <1>1 DEF IInv, Numbers, Storing, Moved
<1>6. PendingHasCause'
  BY <1>1 DEF IInv, PendingHasCause, Moved
<1>7. ForStored' /\ SuggestionOfStored'
  BY <1>1 DEF IInv, ForStored, SuggestionOfStored, Live, Moved
<1>8. Alone'
  BY <1>1 DEF IInv, Alone, Storing, Going, Live, Ended, Shapes, Moved
<1>9. Current'
  BY <1>1 DEF IInv, Current, Live, Moved
<1>10. Replaced'
  BY <1>1 DEF IInv, Replaced, Live, Moved
<1> QED
  BY <1>2, <1>3, <1>4, <1>5, <1>6, <1>7, <1>8, <1>9, <1>10 DEF IInv

LEMMA SendProfileTaskIInv ==
    ASSUME IInv, NEW r \in Request, SendProfileTask(r)
    PROVE  IInv'
<1>1. /\ request[r].at = "attr" /\ Moved(r, "sent")
      /\ task' \in [Request -> [at : TaskAt, of : Version]]
      /\ task'[r].at = "queued" /\ task'[r].of = request[r].of
      /\ \A q \in Request \ {r} : task'[q] = task[q]
      /\ profile' = profile /\ suggestion' = suggestion /\ writer' = writer /\ llm' = llm /\ events' = events
  BY AtMoves DEF IInv, TypeOK, SendProfileTask, RequestAt, TaskAt
<1>2. TypeOK'
  BY <1>1 DEF IInv, TypeOK, Moved
<1>3. Lock'
  BY <1>1 DEF IInv, Lock, Storing, Moved
<1>4. Shapes'
  BY <1>1, Counts DEF IInv, Shapes, Storing, Numbers, Moved
<1>5. Numbers'
  BY <1>1 DEF IInv, Numbers, Storing, Moved
<1>6. PendingHasCause'
  BY <1>1 DEF IInv, PendingHasCause, Moved
<1>7. ForStored' /\ SuggestionOfStored'
  BY <1>1 DEF IInv, ForStored, SuggestionOfStored, Live, Moved
<1>8. Alone'
  BY <1>1 DEF IInv, Alone, Storing, Going, Live, Ended, Shapes, Moved
<1>9. Current'
  BY <1>1 DEF IInv, Current, Lock, Storing, Moved
<1>10. Replaced'
  BY <1>1 DEF IInv, Replaced, Live, Moved
<1> QED
  BY <1>2, <1>3, <1>4, <1>5, <1>6, <1>7, <1>8, <1>9, <1>10 DEF IInv

LEMMA CommitProfileIInv ==
    ASSUME IInv, NEW r \in Request, CommitProfile(r)
    PROVE  IInv'
<1>1. /\ request[r].at = "sent" /\ Moved(r, "done")
      /\ profile' = request[r].of /\ writer' = Nobody
      /\ suggestion' = suggestion /\ task' = task /\ llm' = llm /\ events' = events
  BY AtMoves DEF IInv, CommitProfile, RequestAt
<1>2. TypeOK'
  BY <1>1 DEF IInv, TypeOK, Moved
<1>3. Lock'
  BY <1>1 DEF IInv, Lock, Storing, Moved
<1>4. Shapes'
  BY <1>1 DEF IInv, Shapes, Storing, Moved
<1>5. Numbers'
  BY <1>1, Counts DEF IInv, Numbers, Lock, Storing, Moved
<1>6. PendingHasCause'
  BY <1>1 DEF IInv, PendingHasCause, Moved
<1>7. ForStored' /\ SuggestionOfStored'
  BY <1>1, Counts DEF IInv, ForStored, SuggestionOfStored, Live, Lock, Storing, Numbers, Moved
<1>8. Alone'
  BY <1>1 DEF IInv, Alone, Storing, Going, Live, Ended, Shapes, Moved
<1>9. Current'
  BY <1>1 DEF IInv, Alone, Storing, Current, Going, Ended, Live, Moved
<1>10. Replaced'
  BY <1>1 DEF IInv, Alone, Storing, Replaced, Live, Moved
<1> QED
  BY <1>2, <1>3, <1>4, <1>5, <1>6, <1>7, <1>8, <1>9, <1>10 DEF IInv

LEMMA RollbackProfileIInv ==
    ASSUME IInv, NEW r \in Request, RollbackProfile(r)
    PROVE  IInv'
<1>1. /\ Storing(r) /\ Moved(r, "failed") /\ writer' = Nobody
      /\ events' = IF request[r].at = "sent" THEN events \cup {"undone"} ELSE events
      /\ profile' = profile /\ suggestion' = suggestion /\ task' = task /\ llm' = llm
  BY AtMoves DEF IInv, RollbackProfile, Storing, RequestAt
<1>2. TypeOK'
  BY <1>1 DEF IInv, TypeOK, Moved
<1>3. Lock'
  BY <1>1 DEF IInv, Lock, Storing, Moved
<1>4. Shapes'
  BY <1>1 DEF IInv, Shapes, Storing, Moved
<1>5. Numbers'
  BY <1>1 DEF IInv, Numbers, Storing, Moved
<1>6. PendingHasCause'
  BY <1>1 DEF IInv, PendingHasCause, Storing, Moved
<1>7. ForStored' /\ SuggestionOfStored'
  BY <1>1 DEF IInv, ForStored, SuggestionOfStored, Live, Moved
<1>8. Alone'
  BY <1>1 DEF IInv, Alone, Storing, Going, Live, Ended, Shapes, Moved
<1>9. Current'
  BY <1>1 DEF IInv, Alone, Storing, Shapes, Going, Ended, Current, Live, Moved
<1>10. Replaced'
  BY <1>1 DEF IInv, Replaced, Live, Moved
<1> QED
  BY <1>2, <1>3, <1>4, <1>5, <1>6, <1>7, <1>8, <1>9, <1>10 DEF IInv

LEMMA UpdateStudentStudySuggestionIInv ==
    ASSUME IInv, NEW r \in Request, UpdateStudentStudySuggestion(r)
    PROVE  IInv'
<1>1. /\ request[r].at = "read" /\ writer = Nobody /\ suggestion' = Pending
      /\ Moved(r, IF request[r].of = 0 THEN "failed" ELSE "send")
      /\ events' = IF request[r].of = 0 THEN events \cup {"lost"} ELSE events
      /\ profile' = profile /\ writer' = writer /\ task' = task /\ llm' = llm
  BY AtMoves DEF IInv, UpdateStudentStudySuggestion, RequestAt
<1>2. TypeOK'
  BY <1>1 DEF IInv, TypeOK, Moved, Pending
<1>3. Lock'
  BY <1>1 DEF IInv, Lock, Storing, Moved
<1>4. Shapes'
  BY <1>1 DEF IInv, Shapes, Storing, Moved, Pending
<1>5. Numbers'
  BY <1>1 DEF IInv, Numbers, Storing, Moved
<1>6. PendingHasCause'
  BY <1>1 DEF IInv, PendingHasCause, Moved, Pending
<1>7. ForStored' /\ SuggestionOfStored'
  BY <1>1 DEF IInv, ForStored, SuggestionOfStored, Live, Moved, Pending
<1>8. Alone'
  BY <1>1 DEF IInv, Alone, Storing, Going, Live, Ended, Shapes, Moved, Pending
<1>9. Current'
  BY <1>1 DEF IInv, Current, Live, Moved, Pending
<1>10. Replaced'
  BY <1>1 DEF IInv, Replaced, Live, Moved, Pending
<1> QED
  BY <1>2, <1>3, <1>4, <1>5, <1>6, <1>7, <1>8, <1>9, <1>10 DEF IInv

LEMMA SendTaskIInv ==
    ASSUME IInv, NEW r \in Request, SendTask(r)
    PROVE  IInv'
<1>1. /\ request[r].at = "send"
      /\ Moved(r, IF request[r].kind = "wait" THEN "look" ELSE "done")
      /\ task' \in [Request -> [at : TaskAt, of : Version]]
      /\ task'[r].at = "queued" /\ task'[r].of = request[r].of
      /\ \A q \in Request \ {r} : task'[q] = task[q]
      /\ profile' = profile /\ suggestion' = suggestion /\ writer' = writer /\ llm' = llm /\ events' = events
  BY AtMoves DEF IInv, TypeOK, SendTask, RequestAt, TaskAt
<1>2. TypeOK'
  BY <1>1 DEF IInv, TypeOK, Moved
<1>3. Lock'
  BY <1>1 DEF IInv, Lock, Storing, Moved
<1>4. Shapes'
  BY <1>1 DEF IInv, Shapes, Storing, Moved
<1>5. Numbers'
  BY <1>1 DEF IInv, Numbers, Storing, Moved
<1>6. PendingHasCause'
  BY <1>1 DEF IInv, PendingHasCause, Moved
<1>7. ForStored' /\ SuggestionOfStored'
  BY <1>1 DEF IInv, ForStored, SuggestionOfStored, Live, Numbers, Moved
<1>8. Alone'
  BY <1>1 DEF IInv, Alone, Storing, Going, Live, Ended, Shapes, Moved
<1>9. Current'
  BY <1>1 DEF IInv, Current, Live, Moved
<1>10. Replaced'
  BY <1>1 DEF IInv, Replaced, Live, Moved
<1> QED
  BY <1>2, <1>3, <1>4, <1>5, <1>6, <1>7, <1>8, <1>9, <1>10 DEF IInv

LEMMA TakeIInv ==
    ASSUME IInv, NEW r \in Request, Take(r)
    PROVE  IInv'
<1>1. /\ task[r].at = "queued" /\ TaskMoved(r, "taken")
      /\ profile' = profile /\ suggestion' = suggestion /\ writer' = writer /\ request' = request /\ llm' = llm /\ events' = events
  BY TaskMoves DEF IInv, Take, TaskAt
<1>2. TypeOK'
  BY <1>1 DEF IInv, TypeOK, TaskMoved
<1>3. Lock'
  BY <1>1 DEF IInv, Lock, Storing, TaskMoved
<1>4. Shapes'
  BY <1>1 DEF IInv, Shapes, Storing, TaskMoved
<1>5. Numbers'
  BY <1>1 DEF IInv, Numbers, Storing, Submitted, TaskMoved
<1>6. PendingHasCause'
  BY <1>1 DEF IInv, PendingHasCause, TaskMoved
<1>7. ForStored' /\ SuggestionOfStored'
  BY <1>1 DEF IInv, ForStored, SuggestionOfStored, Live, TaskMoved
<1>8. Alone'
  BY <1>1 DEF IInv, Alone, Storing, Going, Live, Ended, Shapes, TaskMoved
<1>9. Current'
  BY <1>1 DEF IInv, Current, Live, TaskMoved
<1>10. Replaced'
  BY <1>1 DEF IInv, Replaced, Live, TaskMoved
<1> QED
  BY <1>2, <1>3, <1>4, <1>5, <1>6, <1>7, <1>8, <1>9, <1>10 DEF IInv

LEMMA MarkPendingIInv ==
    ASSUME IInv, NEW r \in Request, MarkPending(r)
    PROVE  IInv'
<1>1. /\ task[r].at = "taken" /\ TaskMoved(r, "calling")
      /\ suggestion' = Pending \/ suggestion' = suggestion
      /\ llm' \in [Request -> LlmAt] /\ llm'[r] = "working" /\ \A q \in Request \ {r} : llm'[q] = llm[q]
      /\ profile' = profile /\ writer' = writer /\ request' = request /\ events' = events
  BY TaskMoves DEF IInv, TypeOK, MarkPending, TaskAt, LlmAt
<1>2. TypeOK'
  BY <1>1 DEF IInv, TypeOK, TaskMoved, Pending
<1>3. Lock'
  BY <1>1 DEF IInv, Lock, Storing, TaskMoved
<1>4. Shapes'
  BY <1>1 DEF IInv, Shapes, Storing, TaskMoved
<1>5. Numbers'
  BY <1>1 DEF IInv, Numbers, Storing, Submitted, TaskMoved
<1>6. PendingHasCause'
  BY <1>1 DEF IInv, PendingHasCause, TaskMoved, Pending
<1>7. ForStored' /\ SuggestionOfStored'
  BY <1>1 DEF IInv, ForStored, SuggestionOfStored, Live, TaskMoved, Pending
<1>8. Alone'
  BY <1>1 DEF IInv, Alone, Storing, Going, Live, Ended, Shapes, TaskMoved
<1>9. Current'
  BY <1>1 DEF IInv, Current, Live, TaskMoved
<1>10. Replaced'
  BY <1>1 DEF IInv, Replaced, Live, TaskMoved, Pending
<1> QED
  BY <1>2, <1>3, <1>4, <1>5, <1>6, <1>7, <1>8, <1>9, <1>10 DEF IInv

LEMMA LlmWritesIInv ==
    ASSUME IInv, NEW r \in Request, LlmWrites(r)
    PROVE  IInv'
<1>1. /\ llm[r] = "working" /\ writer = Nobody /\ suggestion' = Report(task[r].of) /\ task' = task
      /\ llm' \in [Request -> LlmAt] /\ llm'[r] = "written" /\ \A q \in Request \ {r} : llm'[q] = llm[q]
      /\ profile' = profile /\ writer' = writer /\ request' = request /\ events' = events
  BY DEF IInv, TypeOK, LlmWrites, LlmAt
<1>2. TypeOK'
  BY <1>1 DEF IInv, TypeOK, Shapes, Report
<1>3. Lock'
  BY <1>1 DEF IInv, Lock, Storing
<1>4. Shapes'
  BY <1>1 DEF IInv, Shapes, Storing
<1>5. Numbers'
  BY <1>1 DEF IInv, Numbers, Storing, Submitted
<1>6. PendingHasCause'
  BY <1>1 DEF IInv, PendingHasCause, Pending, Report
<1>7. ForStored' /\ SuggestionOfStored'
  BY <1>1, Counts DEF IInv, ForStored, SuggestionOfStored, Report, Lock, Storing, Shapes, Live
<1>8. Alone'
  BY <1>1 DEF IInv, Lock, Storing, Alone
<1>9. Current'
  BY <1>1 DEF IInv, Current, Live
<1>10. Replaced'
  BY <1>1 DEF IInv, Replaced, Live, Report, Current
<1> QED
  BY <1>2, <1>3, <1>4, <1>5, <1>6, <1>7, <1>8, <1>9, <1>10 DEF IInv

LEMMA LlmRefusesIInv ==
    ASSUME IInv, NEW r \in Request, LlmRefuses(r)
    PROVE  IInv'
<1>1. /\ llm[r] = "working" /\ events' = events \cup {"lost"} /\ task' = task
      /\ llm' \in [Request -> LlmAt] /\ llm'[r] = "refused" /\ \A q \in Request \ {r} : llm'[q] = llm[q]
      /\ profile' = profile /\ suggestion' = suggestion /\ writer' = writer /\ request' = request
  BY DEF IInv, TypeOK, LlmRefuses, LlmAt
<1>2. TypeOK'
  BY <1>1 DEF IInv, TypeOK
<1>3. Lock'
  BY <1>1 DEF IInv, Lock, Storing
<1>4. Shapes'
  BY <1>1 DEF IInv, Shapes, Storing
<1>5. Numbers'
  BY <1>1 DEF IInv, Numbers, Storing, Submitted
<1>6. PendingHasCause'
  BY <1>1 DEF IInv, PendingHasCause
<1>7. ForStored' /\ SuggestionOfStored'
  BY <1>1 DEF IInv, ForStored, SuggestionOfStored, Live
<1>8. Alone'
  BY <1>1 DEF IInv, Alone, Storing, Going, Live, Ended, Shapes
<1>9. Current'
  BY <1>1 DEF IInv, Current, Live
<1>10. Replaced'
  BY <1>1 DEF IInv, Replaced, Live
<1> QED
  BY <1>2, <1>3, <1>4, <1>5, <1>6, <1>7, <1>8, <1>9, <1>10 DEF IInv

LEMMA ScrapeAndParseIInv ==
    ASSUME IInv, NEW r \in Request, ScrapeAndParse(r)
    PROVE  IInv'
<1>1. /\ task[r].at = "calling" /\ TaskMoved(r, IF llm[r] = "written" THEN "done" ELSE "failed")
      /\ profile' = profile /\ suggestion' = suggestion /\ writer' = writer /\ request' = request /\ llm' = llm /\ events' = events
  BY TaskMoves DEF IInv, ScrapeAndParse, TaskAt
<1>2. TypeOK'
  BY <1>1 DEF IInv, TypeOK, TaskMoved
<1>3. Lock'
  BY <1>1 DEF IInv, Lock, Storing, TaskMoved
<1>4. Shapes'
  BY <1>1 DEF IInv, Shapes, Storing, TaskMoved
<1>5. Numbers'
  BY <1>1 DEF IInv, Numbers, Storing, Submitted, TaskMoved
<1>6. PendingHasCause'
  BY <1>1 DEF IInv, PendingHasCause, TaskMoved
<1>7. ForStored' /\ SuggestionOfStored'
  BY <1>1 DEF IInv, ForStored, SuggestionOfStored, Live, TaskMoved
<1>8. Alone'
  BY <1>1 DEF IInv, Alone, Storing, Going, Live, Ended, Shapes, TaskMoved
<1>9. Current'
  BY <1>1 DEF IInv, Current, Live, TaskMoved
<1>10. Replaced'
  BY <1>1 DEF IInv, Replaced, Live, TaskMoved
<1> QED
  BY <1>2, <1>3, <1>4, <1>5, <1>6, <1>7, <1>8, <1>9, <1>10 DEF IInv

LEMMA WorkerStopsIInv ==
    ASSUME IInv, WorkerStops
    PROVE  IInv'
<1>1. /\ task' \in [Request -> [at : TaskAt, of : Version]]
      /\ \A r \in Request : IF task[r].at \in {"taken", "calling"}
                            THEN task'[r].at = "failed" /\ task'[r].of = task[r].of
                            ELSE task'[r] = task[r]
      /\ events' = events \cup {e \in {"lost"} : \E r \in Request : task[r].at = "taken"}
      /\ profile' = profile /\ suggestion' = suggestion /\ writer' = writer /\ request' = request /\ llm' = llm
  BY DEF IInv, TypeOK, WorkerStops, TaskAt
<1>2. TypeOK'
  BY <1>1 DEF IInv, TypeOK
<1>3. Lock'
  BY <1>1 DEF IInv, Lock, Storing
<1>4. Shapes'
  BY <1>1 DEF IInv, Shapes, Storing
<1>5. Numbers'
  BY <1>1 DEF IInv, Numbers, Storing, Submitted
<1>6. PendingHasCause'
  BY <1>1 DEF IInv, PendingHasCause
<1>7. ForStored' /\ SuggestionOfStored'
  BY <1>1 DEF IInv, ForStored, SuggestionOfStored, Live
<1>8. Alone'
  BY <1>1 DEF IInv, Alone, Storing, Going, Live, Ended, Shapes
<1>9. Current'
  BY <1>1 DEF IInv, Current, Live
<1>10. Replaced'
  BY <1>1 DEF IInv, Replaced, Live
<1> QED
  BY <1>2, <1>3, <1>4, <1>5, <1>6, <1>7, <1>8, <1>9, <1>10 DEF IInv

LEMMA StutterIInv ==
    ASSUME IInv, UNCHANGED vars
    PROVE  IInv'
<1>1. /\ task' = task
      /\ profile' = profile /\ suggestion' = suggestion /\ writer' = writer /\ request' = request /\ llm' = llm /\ events' = events
  BY DEF vars
<1>2. TypeOK'
  BY <1>1 DEF IInv, TypeOK
<1>3. Lock'
  BY <1>1 DEF IInv, Lock, Storing
<1>4. Shapes'
  BY <1>1 DEF IInv, Shapes, Storing
<1>5. Numbers'
  BY <1>1 DEF IInv, Numbers, Storing, Submitted
<1>6. PendingHasCause'
  BY <1>1 DEF IInv, PendingHasCause
<1>7. ForStored' /\ SuggestionOfStored'
  BY <1>1 DEF IInv, ForStored, SuggestionOfStored, Live
<1>8. Alone'
  BY <1>1 DEF IInv, Alone, Storing, Going, Live, Ended, Shapes
<1>9. Current'
  BY <1>1 DEF IInv, Current, Live
<1>10. Replaced'
  BY <1>1 DEF IInv, Replaced, Live
<1> QED
  BY <1>2, <1>3, <1>4, <1>5, <1>6, <1>7, <1>8, <1>9, <1>10 DEF IInv

LEMMA UpdateStudentAttrIInv ==
    ASSUME IInv, NEW r \in Request, UpdateStudentAttr(r)
    PROVE  IInv'
<1>1. /\ request[r].kind = "profile" /\ request[r].at = "idle" /\ writer = Nobody
      /\ request' = [request EXCEPT ![r].at = "attr", ![r].of = NewVersion] /\ writer' = r
      /\ events' = IF Overtakes(r) THEN events \cup {"overtaken"} ELSE events
      /\ profile' = profile /\ suggestion' = suggestion /\ task' = task /\ llm' = llm
  BY DEF UpdateStudentAttr
<1>2. /\ r \notin Submitted /\ IsFiniteSet(Submitted) /\ Submitted \cup {r} \subseteq Request
      /\ Cardinality(Submitted) \in Nat /\ NewVersion = 1 + Cardinality(Submitted)
  BY <1>1, Counts DEF IInv, Shapes, Submitted, NewVersion
<1>3. Cardinality(Submitted \cup {r}) = NewVersion /\ NewVersion \in Version /\ NewVersion # 0
  <2>1. Cardinality(Submitted \cup {r}) = Cardinality(Submitted) + 1
    BY <1>2, FS_AddElement
  <2>2. Cardinality(Submitted \cup {r}) <= Cardinality(Request) /\ Cardinality(Request) \in Nat
    BY <1>2, FS_Subset, FS_CardinalityType
  <2> QED
    BY <1>2, <2>1, <2>2 DEF Version
<1>4. /\ request' \in [Request -> [at : RequestAt, kind : Kind, of : Version]]
      /\ request'[r].at = "attr" /\ request'[r].kind = "profile" /\ request'[r].of = NewVersion
      /\ \A q \in Request \ {r} : request'[q] = request[q]
  BY <1>1, <1>3 DEF IInv, TypeOK, RequestAt
<1>5. Submitted' = Submitted \cup {r}
  BY <1>3, <1>4 DEF Submitted
<1>6. /\ request[r].kind = "profile" /\ request[r].at = "idle" /\ writer = Nobody /\ writer' = r
      /\ events' = IF Overtakes(r) THEN events \cup {"overtaken"} ELSE events
      /\ request' \in [Request -> [at : RequestAt, kind : Kind, of : Version]]
      /\ request'[r].at = "attr" /\ request'[r].kind = "profile" /\ request'[r].of = NewVersion
      /\ \A q \in Request \ {r} : request'[q] = request[q]
      /\ NewVersion = 1 + Cardinality(Submitted) /\ Cardinality(Submitted') = NewVersion /\ NewVersion # 0
      /\ profile' = profile /\ suggestion' = suggestion /\ task' = task /\ llm' = llm
  BY <1>1, <1>2, <1>3, <1>4, <1>5
<1>7. TypeOK'
  BY <1>6 DEF IInv, TypeOK
<1>8. Lock'
  BY <1>6 DEF IInv, Lock, Storing
<1>9. Shapes'
  BY <1>6 DEF IInv, Shapes, Storing
<1>10. Numbers'
  BY <1>6, Counts DEF IInv, Numbers, Lock, Storing
<1>11. PendingHasCause'
  BY <1>6 DEF IInv, PendingHasCause
<1>12. ForStored' /\ SuggestionOfStored'
  BY <1>6 DEF IInv, ForStored, SuggestionOfStored, Live
<1>13. Alone'
  BY <1>6 DEF IInv, Lock, Storing, Overtakes, Alone, Going, Ended
<1>14. Current'
  BY <1>6 DEF IInv, Current, Live
<1>15. Replaced'
  BY <1>6 DEF IInv, Replaced, Live, Overtakes, Going, Shapes
<1> QED
  BY <1>7, <1>8, <1>9, <1>10, <1>11, <1>12, <1>13, <1>14, <1>15 DEF IInv

LEMMA GetStudentAttrsIInv ==
    ASSUME IInv, NEW r \in Request, GetStudentAttrs(r)
    PROVE  IInv'
<1>1. request[r].at \in {"asked", "idle"} /\ request[r].kind # "profile"
  BY DEF GetStudentAttrs, IInv, Shapes
<1>2. /\ request' = [request EXCEPT ![r] = [at |-> "read", kind |-> request[r].kind, of |-> profile]]
      /\ events' = IF writer # Nobody THEN events \cup {"overtaken"} ELSE events
      /\ profile' = profile /\ suggestion' = suggestion /\ writer' = writer /\ task' = task /\ llm' = llm
  BY DEF GetStudentAttrs
<1>3. /\ request' \in [Request -> [at : RequestAt, kind : Kind, of : Version]]
      /\ request'[r].at = "read" /\ request'[r].kind = request[r].kind /\ request'[r].of = profile
      /\ \A q \in Request \ {r} : request'[q] = request[q]
  <2>1. request[r] \in [at : RequestAt, kind : Kind, of : Version] /\ profile \in Version
    BY DEF IInv, TypeOK
  <2>2. [at |-> "read", kind |-> request[r].kind, of |-> profile] \in [at : RequestAt, kind : Kind, of : Version]
    BY <2>1 DEF RequestAt
  <2> QED
    BY <1>2, <2>2 DEF IInv, TypeOK
<1>4. Submitted' = Submitted
  BY <1>1, <1>3 DEF Submitted
<1>5. /\ request[r].at \in {"asked", "idle"} /\ request[r].kind # "profile"
      /\ request' \in [Request -> [at : RequestAt, kind : Kind, of : Version]]
      /\ request'[r].at = "read" /\ request'[r].kind = request[r].kind /\ request'[r].of = profile
      /\ \A q \in Request \ {r} : request'[q] = request[q]
      /\ Submitted' = Submitted
      /\ events' = IF writer # Nobody THEN events \cup {"overtaken"} ELSE events
      /\ profile' = profile /\ suggestion' = suggestion /\ writer' = writer /\ task' = task /\ llm' = llm
  BY <1>1, <1>2, <1>3, <1>4
<1>6. TypeOK'
  BY <1>5 DEF IInv, TypeOK
<1>7. Lock'
  BY <1>5 DEF IInv, Lock, Storing
<1>8. Shapes'
  BY <1>5 DEF IInv, Shapes, Storing
<1>9. Numbers'
  BY <1>5, Counts DEF IInv, Numbers, Storing
<1>10. PendingHasCause'
  BY <1>5 DEF IInv, PendingHasCause
<1>11. ForStored' /\ SuggestionOfStored'
  BY <1>5 DEF IInv, ForStored, SuggestionOfStored, Live
<1>12. Alone'
  BY <1>5 DEF IInv, Lock, Storing, Alone, TypeOK
<1>13. Current'
  BY <1>5 DEF IInv, Current, Live
<1>14. Replaced'
  BY <1>5 DEF IInv, Replaced, Live
<1> QED
  BY <1>6, <1>7, <1>8, <1>9, <1>10, <1>11, <1>12, <1>13, <1>14 DEF IInv

LEMMA CrashIInv ==
    ASSUME IInv, Crash
    PROVE  IInv'
<1>1. /\ request' = [r \in Request |-> IF request[r].at \in Ended \cup {"idle"} THEN request[r]
                                        ELSE [request[r] EXCEPT !.at = "failed"]]
      /\ writer' = Nobody
      /\ events' = events \cup {e \in {"lost"} : \E r \in Request : request[r].at = "send"}
                          \cup {e \in {"undone"} : \E r \in Request : request[r].at = "sent"}
      /\ profile' = profile /\ suggestion' = suggestion /\ task' = task /\ llm' = llm
  BY DEF Crash
<1>2. /\ request' \in [Request -> [at : RequestAt, kind : Kind, of : Version]]
      /\ \A r \in Request :
            /\ request'[r].kind = request[r].kind /\ request'[r].of = request[r].of
            /\ request'[r].at = IF request[r].at \in Ended \cup {"idle"} THEN request[r].at ELSE "failed"
  BY <1>1 DEF IInv, TypeOK, RequestAt
<1>3. Submitted' = Submitted
  BY <1>2 DEF Submitted
<1>4. /\ request' \in [Request -> [at : RequestAt, kind : Kind, of : Version]]
      /\ \A r \in Request :
            /\ request'[r].kind = request[r].kind /\ request'[r].of = request[r].of
            /\ request'[r].at = IF request[r].at \in Ended \cup {"idle"} THEN request[r].at ELSE "failed"
      /\ Submitted' = Submitted /\ writer' = Nobody
      /\ events' = events \cup {e \in {"lost"} : \E r \in Request : request[r].at = "send"}
                          \cup {e \in {"undone"} : \E r \in Request : request[r].at = "sent"}
      /\ profile' = profile /\ suggestion' = suggestion /\ task' = task /\ llm' = llm
  BY <1>1, <1>2, <1>3
<1>5. TypeOK'
  BY <1>4 DEF IInv, TypeOK, Ended
<1>6. Lock'
  BY <1>4 DEF IInv, Lock, Storing, Ended
<1>7. Shapes'
  BY <1>4 DEF IInv, Shapes, Storing, Ended
<1>8. Numbers'
  BY <1>4 DEF IInv, Numbers, Storing, Ended
<1>9. PendingHasCause'
  BY <1>4 DEF IInv, PendingHasCause, Ended
<1>10. ForStored' /\ SuggestionOfStored'
  BY <1>4 DEF IInv, ForStored, SuggestionOfStored, Live, Ended
<1>11. Alone'
  BY <1>4 DEF IInv, Alone, Storing, Going, Live, Ended, Shapes
<1>12. Current'
  BY <1>4 DEF IInv, Current, Alone, Lock, Storing, Going, Live, Ended, Shapes, TypeOK
<1>13. Replaced'
  BY <1>4 DEF IInv, Replaced, Alone, Lock, Storing, Live, Ended, TypeOK
<1> QED
  BY <1>5, <1>6, <1>7, <1>8, <1>9, <1>10, <1>11, <1>12, <1>13 DEF IInv

LEMMA InitIInv == Init => IInv
<1> SUFFICES ASSUME Init PROVE IInv
  OBVIOUS
<1>1. /\ profile = 0 /\ suggestion = None /\ writer = Nobody /\ events = {}
      /\ \A r \in Request : /\ request[r].at = "idle" /\ request[r].of = 0
                            /\ task[r].at = "none" /\ task[r].of = 0 /\ llm[r] = "none"
  BY DEF Init
<1>2. 0 \in Version
  BY FS_CardinalityType DEF Version
<1>3. TypeOK
  <2>1. request \in [Request -> [at : RequestAt, kind : Kind, of : Version]]
    <3> PICK duty \in Duties : request = [r \in Request |-> [at |-> "idle", kind |-> duty[r], of |-> 0]]
      BY DEF Init
    <3> QED
      BY <1>2 DEF RequestAt
  <2>2. task \in [Request -> [at : TaskAt, of : Version]] /\ llm \in [Request -> LlmAt]
    BY <1>2 DEF Init, TaskAt, LlmAt
  <2> QED
    BY <1>1, <1>2, <2>1, <2>2 DEF TypeOK
<1>4. Lock /\ Shapes
  BY <1>1 DEF Lock, Shapes, Storing
<1>5. Numbers
  BY <1>1, <1>3, Counts DEF Numbers, Storing
<1>6. PendingHasCause /\ ForStored /\ SuggestionOfStored
  BY <1>1 DEF PendingHasCause, ForStored, SuggestionOfStored, Live, None, Pending
<1>7. Alone /\ Current /\ Replaced
  BY <1>1 DEF Alone, Current, Replaced, Storing, Live, None
<1> QED
  BY <1>3, <1>4, <1>5, <1>6, <1>7 DEF IInv

LEMMA NextIInv == IInv /\ [Next]_vars => IInv'
<1> SUFFICES ASSUME IInv, [Next]_vars PROVE IInv'
  OBVIOUS
<1>1. ASSUME NEW r \in Request, UpdateStudentAttr(r) \/ OpenReport(r) \/ GetStudentAttrs(r) PROVE IInv'
  BY <1>1, UpdateStudentAttrIInv, OpenReportIInv, GetStudentAttrsIInv
<1>2. ASSUME NEW r \in Request, Handle(r) PROVE IInv'
  BY <1>2, SendProfileTaskIInv, CommitProfileIInv, RollbackProfileIInv, UpdateStudentStudySuggestionIInv,
     SendTaskIInv, SendFailsIInv, WaitResultIInv, TimeOutIInv DEF Handle
<1>3. ASSUME NEW r \in Request, Work(r) PROVE IInv'
  BY <1>3, TakeIInv, MarkPendingIInv, ScrapeAndParseIInv DEF Work
<1>4. ASSUME NEW r \in Request, Answer(r) PROVE IInv'
  BY <1>4, LlmWritesIInv, LlmRefusesIInv DEF Answer
<1>5. CASE Crash \/ WorkerStops
  BY <1>5, CrashIInv, WorkerStopsIInv
<1>6. CASE UNCHANGED vars
  BY <1>6, StutterIInv
<1> QED
  BY <1>1, <1>2, <1>3, <1>4, <1>5, <1>6 DEF Next

LEMMA IInvAlways == Spec => []IInv
<1> QED
  BY InitIInv, NextIInv, PTL DEF Spec

-----------------------------------------------------------------------------
(* The theorems.                                                           *)

\* What the row shows has a cause: a report that is pending is under way, unless work was
\* lost, and a suggestion is about a questionnaire that was stored, unless the transaction
\* of one was undone (the lock of the student's row in UpdateStudentAttr).
THEOREM PlanningConsistent == Spec => []Consistent
<1>1. IInv => Consistent
  BY DEF IInv, Consistent
<1> QED
  BY <1>1, IInvAlways, PTL

\* When all work is done, a suggestion is about the questionnaire that is stored, unless
\* work was lost, undone or overtaken, for any number of questionnaires, pages and tasks.
THEOREM ReportsAreFresh == Spec => []FreshReport
<1>1. IInv => FreshReport
  <2> SUFFICES ASSUME IInv, events = {}, suggestion.text = "report", \A r \in Request : ~ Going(r)
               PROVE  profile # 0 /\ suggestion.of = profile
    BY DEF FreshReport, GetStudentPlanningDataByAccountId, GenerateReport, GetStudentPlanningData
  <2>1. \A r \in Request : ~ Live(r)
    BY DEF Live, Going
  <2>2. suggestion.of = profile
    BY <2>1 DEF IInv, Replaced
  <2>3. suggestion.of \in 1..profile
    BY DEF IInv, SuggestionOfStored
  <2> QED
    BY <2>2, <2>3
<1> QED
  BY <1>1, IInvAlways, PTL
=============================================================================
