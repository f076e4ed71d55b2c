---------------------------- MODULE TrainingProofs ----------------------------
(***************************************************************************)
(* What the training pipeline guarantees for any number of sources,        *)
(* requests, contents, chunks and attempts, and under every fault: the     *)
(* types; that the rows of a chunk are no more than the runs of its        *)
(* source's jobs; that the pipeline implements SourceLife; and of every    *)
(* source that has not lost a training (the history variable lost), that   *)
(* it is not forgotten, is fully embedded when it says TRAINED, and has    *)
(* used up its attempts when it says FAILED.                               *)
(***************************************************************************)
EXTENDS Training, FiniteSetTheorems, TLAPS

LEMMA InitialChoices ==
  /\ AnySource \in Sources
  /\ AnyContent \in Contents
  /\ AnyRequest \in Requests
BY SomethingToDo, ChunksAssumption DEF AnySource, AnyContent, AnyRequest

LEMMA FreshTyped ==
  /\ FreshRequest \in RequestStates
  /\ [FreshRequest EXCEPT !.pc = "done"] \in RequestStates
  /\ IdleWorker \in WorkerStates
  /\ NoRows \in Rows
BY InitialChoices
DEF FreshRequest, RequestStates, RequestPCs, RequestOps, IdleWorker, WorkerStates,
    WorkerPCs, NoRows, Rows

(* Replacing one value of a function. *)
LEMMA Replaced ==
  ASSUME NEW D, NEW T, NEW h \in [D -> T], NEW x \in D, NEW v \in T
  PROVE  /\ [h EXCEPT ![x] = v] \in [D -> T]
         /\ [h EXCEPT ![x] = v][x] = v
         /\ \A y \in D : y # x => [h EXCEPT ![x] = v][y] = h[y]
OBVIOUS

(* One more row of a chunk keeps the embeddings typed, and removes none.   *)
LEMMA OneMoreRow ==
  ASSUME NEW e \in [Sources -> Rows], NEW s \in Sources, NEW c \in Contents,
         NEW k \in 1 .. MaxChunks
  PROVE  /\ InsertRow(e, s, c, k) \in [Sources -> Rows]
         /\ InsertRow(e, s, c, k)[s][c][k] > 0
         /\ InsertRow(e, s, c, k)[s][c][k] = e[s][c][k] + 1
         /\ \A s1 \in Sources, c1 \in Contents, k1 \in 1 .. MaxChunks :
              e[s1][c1][k1] > 0 => InsertRow(e, s, c, k)[s1][c1][k1] > 0
         /\ \A s1 \in Sources, c1 \in Contents, k1 \in 1 .. MaxChunks :
              s1 # s \/ c1 # c \/ k1 # k =>
                InsertRow(e, s, c, k)[s1][c1][k1] = e[s1][c1][k1]
<1> DEFINE e2 == InsertRow(e, s, c, k)
<1> DEFINE f == [e[s][c] EXCEPT ![k] = e[s][c][k] + 1]
<1> DEFINE g == [e[s] EXCEPT ![c] = f]
<1>a. e[s] \in [Contents -> [1 .. MaxChunks -> Nat]]
  BY DEF Rows
<1>b. e[s][c] \in [1 .. MaxChunks -> Nat]
  BY <1>a
<1>c. e[s][c][k] \in Nat
  BY <1>b
<1>1. e[s][c][k] + 1 \in Nat /\ e[s][c][k] + 1 > 0
  BY <1>c
<1>2. /\ f \in [1 .. MaxChunks -> Nat] /\ f[k] = e[s][c][k] + 1
      /\ \A k1 \in 1 .. MaxChunks : k1 # k => f[k1] = e[s][c][k1]
  BY <1>b, <1>1, Replaced, Zenon
<1>3. e2 = [e EXCEPT ![s] = g]
  BY DEF InsertRow
<1> HIDE DEF f, e2
<1>4. /\ g \in Rows /\ g[c] = f
      /\ \A c1 \in Contents : c1 # c => g[c1] = e[s][c1]
  BY <1>a, <1>2, Replaced, Zenon DEF Rows
<1> HIDE DEF g
<1>d. /\ [e EXCEPT ![s] = g] \in [Sources -> Rows]
      /\ [e EXCEPT ![s] = g][s] = g
      /\ \A s1 \in Sources : s1 # s => [e EXCEPT ![s] = g][s1] = e[s1]
  BY <1>4, Replaced, Zenon
<1>5. e2 \in [Sources -> Rows] /\ e2[s] = g /\ \A s1 \in Sources : s1 # s => e2[s1] = e[s1]
  BY <1>3, <1>d, Zenon
<1>6. e2[s][c][k] > 0 /\ e2[s][c][k] = e[s][c][k] + 1
  BY <1>1, <1>2, <1>4, <1>5
<1>7. ASSUME NEW s1 \in Sources, NEW c1 \in Contents, NEW k1 \in 1 .. MaxChunks,
             s1 # s \/ c1 # c \/ k1 # k
      PROVE  e2[s1][c1][k1] = e[s1][c1][k1]
  <2>1. CASE s1 = s /\ c1 = c /\ k1 # k
    BY <2>1, <1>2, <1>4, <1>5
  <2>2. CASE s1 = s /\ c1 # c
    BY <2>2, <1>4, <1>5
  <2>3. CASE s1 # s
    BY <2>3, <1>5
  <2> QED BY <1>7, <2>1, <2>2, <2>3
<1>8. \A s1 \in Sources, c1 \in Contents, k1 \in 1 .. MaxChunks :
        e[s1][c1][k1] > 0 => e2[s1][c1][k1] > 0
  BY <1>6, <1>7
<1> QED BY <1>5, <1>6, <1>7, <1>8 DEF e2

-----------------------------------------------------------------------------
(* The type invariant is inductive.                                        *)

LEMMA TypeInit == Init => TypeOK
<1> SUFFICES ASSUME Init PROVE TypeOK
  OBVIOUS
<1>1. NoJob \in JobStates
  BY DEF NoJob, JobStates
<1> QED
  BY <1>1, InitialChoices, FreshTyped DEF Init, TypeOK, Statuses

LEMMA TypeStart ==
  ASSUME TypeOK, NEW r \in Requests, StartRequest(r)
  PROVE  TypeOK'
<1> USE FreshTyped, InitialChoices DEF TypeOK
<1>1. ASSUME NEW S \in SUBSET Qna, NEW c \in Contents, CreateQna(r, S, c) PROVE TypeOK'
  BY <1>1 DEF CreateQna, FreshRequest, RequestStates, RequestPCs, RequestOps, Sources,
              Statuses, Trained
<1>2. ASSUME NEW s \in Qna, NEW c \in Contents, ReadQnaToUpdate(r, s, c) PROVE TypeOK'
  BY <1>2 DEF ReadQnaToUpdate, FreshRequest, RequestStates, RequestPCs, RequestOps, Sources
<1>3. ASSUME NEW s \in Qna, ReadQnaToDelete(r, s) PROVE TypeOK'
  BY <1>3 DEF ReadQnaToDelete, FreshRequest, RequestStates, RequestPCs, RequestOps, Sources
<1>4. ASSUME NEW c \in Contents, ReadTextToUpsert(r, c) PROVE TypeOK'
  <2>1. CASE LiveText = {}
    <3>1. [FreshRequest EXCEPT !.pc = "create", !.op = "upsertText", !.new = c] \in RequestStates
      BY DEF FreshRequest, RequestStates, RequestPCs, RequestOps
    <3> QED BY <1>4, <2>1, <3>1 DEF ReadTextToUpsert
  <2>2. ASSUME NEW t \in LiveText,
               req' = [req EXCEPT ![r] = [FreshRequest EXCEPT !.pc = "purge",
                                            !.op = "upsertText", !.src = t, !.new = c]]
        PROVE  req' \in [Requests -> RequestStates]
    <3>1. t \in Sources
      BY DEF LiveText, Sources
    <3> QED
      BY <2>2, <3>1 DEF FreshRequest, RequestStates, RequestPCs, RequestOps
  <2> QED BY <1>4, <2>1, <2>2 DEF ReadTextToUpsert
<1>5. ASSUME NEW t \in Text, ReadTextToDelete(r, t) PROVE TypeOK'
  BY <1>5 DEF ReadTextToDelete, FreshRequest, RequestStates, RequestPCs, RequestOps, Sources
<1> QED BY <1>1, <1>2, <1>3, <1>4, <1>5 DEF StartRequest

LEMMA FinishTyped ==
  ASSUME TypeOK, NEW r \in Requests, Finish(r)
  PROVE  req' \in [Requests -> RequestStates]
BY FreshTyped DEF TypeOK, Finish

LEMMA HitTyped ==
  ASSUME TypeOK, NEW r \in Requests
  PROVE  Hit(r) \subseteq Sources /\ \A s \in Hit(r) : Live(s)
BY DEF Hit, LiveText, Sources

(* The changes the queue makes to a job keep it well formed. *)
LEMMA JobEdits ==
  ASSUME NEW j \in JobStates
  PROVE  /\ [j EXCEPT !.state = "active"] \in JobStates
         /\ [j EXCEPT !.state = "completed"] \in JobStates
         /\ [j EXCEPT !.state = "failed"] \in JobStates
         /\ [j EXCEPT !.state = "wait", !.stalls = j.stalls + 1] \in JobStates
         /\ \A st \in {"wait", "failed"} :
              [j EXCEPT !.attempts = j.attempts + 1, !.state = st] \in JobStates
<1>1. j.attempts + 1 \in Nat /\ j.stalls + 1 \in Nat
  BY DEF JobStates
<1> QED BY <1>1, Zenon DEF JobStates

LEMMA JobSet ==
  ASSUME TypeOK, NEW r \in Requests, NEW s \in Sources, NEW j \in JobStates, SetJob(r, s, j)
  PROVE  /\ jobs' \in [Requests -> [Sources -> JobStates]]
         /\ jobs'[r][s] = j
         /\ \A r1 \in Requests, s1 \in Sources :
              r1 # r \/ s1 # s => jobs'[r1][s1] = jobs[r1][s1]
BY DEF TypeOK, SetJob

LEMMA TypeRequest ==
  ASSUME TypeOK, NEW r \in Requests, RequestStep(r)
  PROVE  TypeOK'
<1> USE FreshTyped, FinishTyped, HitTyped DEF TypeOK
<1>1. CASE DeleteBySource(r)
  <2>1. AfterPurge(r) \in RequestPCs
    BY DEF AfterPurge, RequestPCs
  <2>2. req[r].src \in Sources
    BY DEF RequestStates
  <2>3. req' \in [Requests -> RequestStates]
    BY <1>1, <2>1 DEF DeleteBySource, RequestStates
  <2> QED BY <1>1, <2>2, <2>3 DEF DeleteBySource
<1>2. CASE WriteQna(r)
  <2>1. req[r].src \in Sources /\ req[r].new \in Contents
    BY DEF RequestStates
  <2>2. content' \in [Sources -> Contents] /\ status' \in [Sources -> Statuses]
    BY <1>2, <2>1 DEF WriteQna, Statuses, Trained
  <2>3. req' \in [Requests -> RequestStates]
    <3>1. [req EXCEPT ![r].pc = "purge", ![r].todo = {req[r].src}]
            \in [Requests -> RequestStates]
      BY <2>1 DEF RequestStates, RequestPCs
    <3> QED BY <1>2, <3>1 DEF WriteQna
  <2>4. lost' \subseteq Sources
    BY <1>2, <2>1 DEF WriteQna
  <2> QED BY <1>2, <2>2, <2>3, <2>4 DEF WriteQna
<1>3. CASE WriteText(r)
  <2>1. req[r].new \in Contents
    BY DEF RequestStates
  <2>2. ASSUME NEW t \in Sources
        PROVE  [req EXCEPT ![r].pc = "enqueue", ![r].todo = {t}] \in [Requests -> RequestStates]
    BY DEF RequestStates, RequestPCs
  <2>3. CASE Hit(r) = {}
    BY <1>3, <2>3 DEF WriteText
  <2>4. CASE Hit(r) # {}
    <3>1. PICK t \in Hit(r) : /\ content' = [content EXCEPT ![t] = req[r].new]
                              /\ status' = [status EXCEPT ![t] = "PENDING"]
                              /\ req' = [req EXCEPT ![r].pc = "enqueue", ![r].todo = {t}]
      BY <1>3, <2>4 DEF WriteText
    <3>2. status' \in [Sources -> Statuses] /\ content' \in [Sources -> Contents]
      BY <2>1, <3>1 DEF Statuses, Trained
    <3> QED BY <1>3, <2>2, <3>1, <3>2 DEF WriteText
  <2> QED BY <2>3, <2>4
<1>4. CASE CreateText(r)
  <2>1. req[r].new \in Contents
    BY DEF RequestStates
  <2>2. ASSUME NEW t \in Sources
        PROVE  [req EXCEPT ![r].pc = "enqueue", ![r].todo = {t}] \in [Requests -> RequestStates]
    BY DEF RequestStates, RequestPCs
  <2>3. CASE bot /\ LiveText = {}
    <3>1. PICK t \in Text : /\ content' = [content EXCEPT ![t] = req[r].new]
                            /\ status' = [status EXCEPT ![t] = "PENDING"]
                            /\ req' = [req EXCEPT ![r].pc = "enqueue", ![r].todo = {t}]
      BY <1>4, <2>3 DEF CreateText
    <3>2. t \in Sources
      BY DEF Sources
    <3>3. status' \in [Sources -> Statuses] /\ content' \in [Sources -> Contents]
      BY <2>1, <3>1, <3>2 DEF Statuses, Trained
    <3> QED BY <1>4, <2>2, <3>1, <3>2, <3>3 DEF CreateText
  <2>4. CASE ~(bot /\ LiveText = {})
    BY <1>4, <2>4 DEF CreateText
  <2> QED BY <2>3, <2>4
<1>5. CASE DropRow(r)
  <2>1. status' \in [Sources -> Statuses]
    BY <1>5 DEF DropRow, Statuses
  <2> QED BY <1>5, <2>1 DEF DropRow
<1>6. ASSUME NEW s \in Sources, Enqueue(r, s) PROVE TypeOK'
  <2>1. req' \in [Requests -> RequestStates]
    <3>1. [req EXCEPT ![r].todo = req[r].todo \ {s}] \in [Requests -> RequestStates]
      BY DEF RequestStates
    <3> QED BY <1>6, <3>1 DEF Enqueue
  <2>2. jobs' \in [Requests -> [Sources -> JobStates]]
    BY <1>6, JobSet DEF Enqueue, NoJob, JobStates
  <2> QED BY <1>6, <2>1, <2>2 DEF Enqueue
<1> QED BY <1>1, <1>2, <1>3, <1>4, <1>5, <1>6 DEF RequestStep

LEMMA TypeWorker ==
  ASSUME TypeOK, WorkerStep \/ AttemptFails \/ CrashWorker
  PROVE  TypeOK'
<1> USE FreshTyped DEF TypeOK
<1>0. worker.src \in Sources /\ worker.by \in Requests /\ worker.content \in Contents
      /\ worker.stored \in Nat
  BY DEF WorkerStates
<1>a. ASSUME NEW pc \in WorkerPCs PROVE [worker EXCEPT !.pc = pc] \in WorkerStates
  BY DEF WorkerStates
<1>b. ASSUME NEW st \in Trained
      PROVE  [status EXCEPT ![worker.src] = st] \in [Sources -> Statuses]
  BY <1>0 DEF Statuses
<1>c. ASSUME NEW j \in JobStates, EndJob(j)
      PROVE  jobs' \in [Requests -> [Sources -> JobStates]] /\ worker' \in WorkerStates
  BY <1>0, <1>c, JobSet DEF EndJob
<1>d. Job \in JobStates
  BY <1>0 DEF Job
<1>1. ASSUME NEW r \in Requests, NEW s \in Sources, Pick(r, s) PROVE TypeOK'
  <2>1. worker' \in WorkerStates
    BY <1>1 DEF Pick, IdleWorker, WorkerStates, WorkerPCs
  <2>2. jobs' \in [Requests -> [Sources -> JobStates]]
    <3>0. jobs[r][s] \in JobStates
      OBVIOUS
    <3>1. [jobs[r][s] EXCEPT !.state = "active"] \in JobStates
      BY <3>0, JobEdits
    <3> QED BY <1>1, <3>1, JobSet DEF Pick
  <2> QED BY <1>1, <2>1, <2>2 DEF Pick
<1>2. CASE FindSource
  <2>1. [worker EXCEPT !.pc = "mark", !.content = content[worker.src]] \in WorkerStates
    BY <1>0 DEF WorkerStates, WorkerPCs
  <2> QED BY <1>2, <1>a, <2>1 DEF FindSource, Goto, WorkerPCs
<1>3. CASE MarkProcessing
  BY <1>3, <1>a, <1>b DEF MarkProcessing, Goto, SetStatus, WorkerPCs, Trained
<1>4. CASE StoreChunk
  <2>1. worker' \in WorkerStates
    <3>1. [worker EXCEPT !.stored = worker.stored + 1] \in WorkerStates
      BY <1>0 DEF WorkerStates
    <3> QED BY <1>4, <1>a, <3>1 DEF StoreChunk, Goto, WorkerPCs
  <2>2. worker.stored + 1 \in 1 .. MaxChunks
    BY <1>0, <1>4, ChunksAssumption DEF StoreChunk
  <2>3. emb' \in [Sources -> Rows]
    BY <1>0, <1>4, <2>2, OneMoreRow DEF StoreChunk
  <2> QED BY <1>4, <2>1, <2>3 DEF StoreChunk
<1>5. CASE MarkTrained
  BY <1>5, <1>a, <1>b DEF MarkTrained, Goto, SetStatus, WorkerPCs, Trained
<1>6. CASE MarkFailed
  BY <1>6, <1>a, <1>b DEF MarkFailed, Goto, SetStatus, WorkerPCs, Trained
<1>7. CASE Rethrow
  <2> DEFINE j == [Job EXCEPT !.attempts = Job.attempts + 1,
                    !.state = IF MoreAttempts THEN "wait" ELSE "failed"]
  <2>1. j \in JobStates
    BY <1>d, JobEdits
  <2>2. EndJob(j)
    BY <1>7 DEF Rethrow
  <2> HIDE DEF j
  <2>3. jobs' \in [Requests -> [Sources -> JobStates]] /\ worker' \in WorkerStates
    BY <1>c, <2>1, <2>2
  <2> QED BY <1>7, <2>3 DEF Rethrow
<1>8. CASE Complete
  <2>1. [Job EXCEPT !.state = "completed"] \in JobStates
    BY <1>d, JobEdits
  <2> QED BY <1>8, <1>c, <2>1 DEF Complete
<1>9. CASE AttemptFails
  BY <1>9, <1>a DEF AttemptFails, Goto, WorkerPCs
<1>10. CASE CrashWorker
  <2> DEFINE j == [Job EXCEPT !.state = "wait", !.stalls = Job.stalls + 1]
  <2> DEFINE k == [Job EXCEPT !.state = "failed"]
  <2>1. j \in JobStates /\ k \in JobStates
    BY <1>d, JobEdits
  <2>2. EndJob(j) \/ EndJob(k)
    BY <1>10 DEF CrashWorker
  <2> HIDE DEF j, k
  <2>3. jobs' \in [Requests -> [Sources -> JobStates]] /\ worker' \in WorkerStates
    BY <1>c, <2>1, <2>2
  <2>4. lost' \subseteq Sources
    BY <1>0, <1>10 DEF CrashWorker
  <2> QED BY <1>10, <2>3, <2>4 DEF CrashWorker
<1> QED BY <1>1, <1>2, <1>3, <1>4, <1>5, <1>6, <1>7, <1>8, <1>9, <1>10 DEF WorkerStep

LEMMA TypeStep == TypeOK /\ [Next]_vars => TypeOK'
<1> SUFFICES ASSUME TypeOK, [Next]_vars PROVE TypeOK'
  OBVIOUS
<1>1. ASSUME NEW r \in Requests, CutRequest(r) PROVE TypeOK'
  BY <1>1, FinishTyped DEF CutRequest, TypeOK
<1>2. CASE DeleteChatbot
  BY <1>2, FreshTyped DEF DeleteChatbot, TypeOK, Statuses
<1>3. CASE UNCHANGED vars
  BY <1>3 DEF vars, TypeOK
<1> QED
  BY <1>1, <1>2, <1>3, TypeStart, TypeRequest, TypeWorker DEF Next

(* The pipeline keeps its types: statuses are those of TrainingStatus, and *)
(* every job, request and worker record is well formed.                    *)
THEOREM TypeCorrect == Spec => []TypeOK
BY TypeInit, TypeStep, PTL DEF Spec

-----------------------------------------------------------------------------
(* One lemma per part of PipelineInv.                                      *)

LEMMA RecordTyped ==
  ASSUME TypeOK
  PROVE  /\ worker.src \in Sources /\ worker.by \in Requests /\ worker.content \in Contents
         /\ worker.stored \in Nat
         /\ \A r \in Requests : /\ req[r].src \in Sources /\ req[r].new \in Contents
                                /\ req[r].todo \subseteq Sources /\ req[r].changed \in BOOLEAN
BY DEF TypeOK, WorkerStates, RequestStates

LEMMA OneTextStep ==
  ASSUME TypeOK, OneText, RequestShape, [Next]_vars
  PROVE  OneText'
<1> USE DEF TypeOK, OneText, Live, Sources
<1>1. ASSUME NEW r \in Requests, StartRequest(r) PROVE OneText'
  <2>1. \A t \in Text : Live(t)' => Live(t)
    BY <1>1, KindsDisjoint DEF StartRequest, CreateQna, ReadQnaToUpdate, ReadQnaToDelete,
       ReadTextToUpsert, ReadTextToDelete
  <2> QED BY <2>1
<1>2. ASSUME NEW r \in Requests, WriteQna(r) PROVE OneText'
  <2>1. req[r].src \in Qna
    BY <1>2 DEF WriteQna, RequestShape
  <2>2. \A t \in Text : status'[t] = status[t]
    BY <1>2, <2>1, KindsDisjoint DEF WriteQna
  <2> QED BY <2>2
<1>3. ASSUME NEW r \in Requests, WriteText(r) PROVE OneText'
  <2>1. CASE Hit(r) = {}
    BY <1>3, <2>1 DEF WriteText
  <2>2. ASSUME NEW t \in Hit(r), status' = [status EXCEPT ![t] = "PENDING"] PROVE OneText'
    <3>1. \A u \in Text : Live(u)' => Live(u)
      BY <2>2, HitTyped
    <3> QED BY <3>1
  <2> QED BY <1>3, <2>1, <2>2 DEF WriteText
<1>4. ASSUME NEW r \in Requests, CreateText(r) PROVE OneText'
  BY <1>4, RecordTyped DEF CreateText, LiveText
<1>5. ASSUME NEW r \in Requests, DropRow(r) PROVE OneText'
  BY <1>5 DEF DropRow, Trained
<1>6. CASE DeleteChatbot
  BY <1>6 DEF DeleteChatbot, Trained
<1>7. CASE WorkerStep \/ AttemptFails \/ CrashWorker
  <2>1. \A t \in Text : Live(t)' => Live(t)
    BY <1>7, RecordTyped DEF WorkerStep, Pick, FindSource, MarkProcessing, StoreChunk,
       MarkTrained, MarkFailed, Rethrow, Complete, AttemptFails, CrashWorker, SetStatus
  <2> QED BY <2>1
<1>8. ASSUME NEW r \in Requests,
             DeleteBySource(r) \/ CutRequest(r) \/ \E s \in Sources : Enqueue(r, s)
      PROVE  OneText'
  BY <1>8 DEF DeleteBySource, CutRequest, Enqueue
<1>9. CASE UNCHANGED vars
  BY <1>9 DEF vars
<1> QED
  BY <1>1, <1>2, <1>3, <1>4, <1>5, <1>6, <1>7, <1>8, <1>9 DEF Next, RequestStep

(* The worker changes only the job it has, or the waiting job it picks.    *)
LEMMA WorkerJobs ==
  ASSUME TypeOK, ActiveJob, WorkerStep \/ AttemptFails \/ CrashWorker,
         NEW r \in Requests, NEW s \in Sources, jobs'[r][s] # jobs[r][s]
  PROVE  jobs[r][s].state \in {"wait", "active"}
<1>1. CASE \E r1 \in Requests, s1 \in Sources : Pick(r1, s1)
  BY <1>1 DEF Pick, SetJob, TypeOK
<1>2. ASSUME NEW j, EndJob(j), worker.pc # "idle" PROVE jobs[r][s].state \in {"wait", "active"}
  BY <1>2, RecordTyped DEF EndJob, SetJob, TypeOK, ActiveJob, Job
<1>3. CASE Rethrow \/ Complete \/ CrashWorker
  BY <1>2, <1>3 DEF Rethrow, Complete, CrashWorker, Doing
<1> QED
  BY <1>1, <1>3 DEF WorkerStep, AttemptFails, FindSource, MarkProcessing, StoreChunk,
     MarkTrained, MarkFailed

LEMMA RequestShapeStep ==
  ASSUME TypeOK, ActiveJob, RequestShape, [Next]_vars
  PROVE  RequestShape'
<1> DEFINE Shape(r) ==
      /\ req[r].op = "updateQna" => req[r].src \in Qna
      /\ At(r, "purge") /\ req[r].op = "updateQna" => req[r].todo = {req[r].src}
      /\ req[r].pc \in {"purge", "write"} /\ req[r].op = "upsertText" => req[r].src \in Text
      /\ req[r].pc \notin {"enqueue", "done"} => \A s \in Sources : jobs[r][s].state = "none"
      /\ At(r, "enqueue") => \A s \in req[r].todo : jobs[r][s].state = "none"
<1>a. RequestShape <=> \A r \in Requests : Shape(r)
  BY Zenon DEF RequestShape
<1>b. RequestShape' <=> \A r \in Requests : Shape(r)'
  BY Zenon DEF RequestShape
<1>c. ASSUME NEW r \in Requests, req'[r] = req[r], jobs'[r] = jobs[r] PROVE Shape(r)'
  BY <1>a, <1>c DEF At
<1>d. \A r \in Requests : req[r] \in RequestStates
  BY DEF TypeOK
<1>e. ASSUME NEW r \in Requests, Finish(r) PROVE req'[r].pc = "done" /\ req'[r].op = "none"
  BY <1>e DEF Finish, TypeOK, FreshRequest
<1>f. ASSUME NEW r \in Requests, Finish(r) PROVE Shape(r)'
  BY <1>e, <1>f DEF At
<1>1. ASSUME NEW r \in Requests, StartRequest(r) PROVE RequestShape'
  <2>1. At(r, "start") /\ UNCHANGED jobs
    BY <1>1 DEF StartRequest, CreateQna, ReadQnaToUpdate, ReadQnaToDelete, ReadTextToUpsert,
                ReadTextToDelete
  <2>2. \A s \in Sources : jobs[r][s].state = "none"
    BY <1>a, <2>1 DEF At
  <2>3. \A r1 \in Requests : r1 # r => req'[r1] = req[r1]
    BY <1>1 DEF StartRequest, CreateQna, ReadQnaToUpdate, ReadQnaToDelete, ReadTextToUpsert,
                ReadTextToDelete, TypeOK
  <2>4. Shape(r)'
    <3>1. ASSUME NEW S \in SUBSET Qna, NEW c \in Contents, CreateQna(r, S, c) PROVE Shape(r)'
      BY <2>1, <2>2, <3>1 DEF CreateQna, At, TypeOK, FreshRequest, Sources
    <3>2. ASSUME NEW s \in Qna, NEW c \in Contents, ReadQnaToUpdate(r, s, c) PROVE Shape(r)'
      BY <2>1, <2>2, <3>2 DEF ReadQnaToUpdate, At, TypeOK, FreshRequest
    <3>3. ASSUME NEW s \in Qna, ReadQnaToDelete(r, s) PROVE Shape(r)'
      BY <2>1, <2>2, <3>3 DEF ReadQnaToDelete, At, TypeOK, FreshRequest
    <3>4. ASSUME NEW c \in Contents, ReadTextToUpsert(r, c) PROVE Shape(r)'
      BY <2>1, <2>2, <3>4, ZenonT(40) DEF ReadTextToUpsert, At, TypeOK, FreshRequest, LiveText
    <3>5. ASSUME NEW t \in Text, ReadTextToDelete(r, t) PROVE Shape(r)'
      BY <2>1, <2>2, <3>5 DEF ReadTextToDelete, At, TypeOK, FreshRequest
    <3> QED BY <1>1, <3>1, <3>2, <3>3, <3>4, <3>5 DEF StartRequest
  <2> QED BY <1>b, <1>c, <2>1, <2>3, <2>4
<1>2. ASSUME NEW r \in Requests, RequestStep(r) \/ CutRequest(r) PROVE RequestShape'
  <2>1. \A r1 \in Requests : r1 # r => req'[r1] = req[r1] /\ jobs'[r1] = jobs[r1]
    BY <1>2 DEF RequestStep, CutRequest, DeleteBySource, WriteQna, WriteText, CreateText,
       DropRow, Enqueue, SetJob, Finish, TypeOK
  <2>0. ASSUME NEW pc, NEW todo, req' = [req EXCEPT ![r].pc = pc, ![r].todo = todo]
        PROVE  /\ req'[r].pc = pc /\ req'[r].todo = todo /\ req'[r].op = req[r].op
               /\ req'[r].src = req[r].src
    BY <2>0, <1>d DEF TypeOK, RequestStates
  <2>a. req[r].pc \notin {"enqueue", "done"} => \A s \in Sources : jobs[r][s].state = "none"
    BY <1>a
  <2>2. ASSUME DeleteBySource(r) PROVE Shape(r)'
    <3>1. /\ req'[r].pc = AfterPurge(r) /\ req'[r].todo = req[r].todo /\ req'[r].op = req[r].op
          /\ req'[r].src = req[r].src /\ UNCHANGED jobs /\ At(r, "purge")
      BY <2>2, <1>d DEF DeleteBySource, TypeOK, RequestStates
    <3> QED BY <3>1, <2>a, <1>a, RecordTyped DEF AfterPurge, At
  <2>3. ASSUME WriteQna(r) PROVE Shape(r)'
    <3>1. CASE Finish(r)
      BY <1>f, <3>1
    <3>2. CASE req' = [req EXCEPT ![r].pc = "purge", ![r].todo = {req[r].src}]
      <4>1. UNCHANGED jobs /\ req[r].pc = "write" /\ req[r].op = "updateQna"
        BY <2>3 DEF WriteQna, At
      <4>2. /\ req'[r].pc = "purge" /\ req'[r].todo = {req[r].src} /\ req'[r].op = req[r].op
            /\ req'[r].src = req[r].src
        BY <2>0, <3>2
      <4> QED BY <1>a, <2>a, <4>1, <4>2 DEF At
    <3> QED BY <2>3, <3>1, <3>2 DEF WriteQna
  <2>4. ASSUME WriteText(r) \/ CreateText(r) PROVE Shape(r)'
    <3>1. CASE Finish(r)
      BY <1>f, <3>1
    <3>2. ASSUME NEW t \in Sources, req' = [req EXCEPT ![r].pc = "enqueue", ![r].todo = {t}]
          PROVE  Shape(r)'
      <4>1. UNCHANGED jobs /\ req[r].pc \notin {"enqueue", "done"}
        BY <2>4 DEF WriteText, CreateText, At
      <4>2. /\ req'[r].pc = "enqueue" /\ req'[r].todo = {t} /\ req'[r].op = req[r].op
            /\ req'[r].src = req[r].src
        BY <2>0, <3>2
      <4> QED BY <1>a, <2>a, <4>1, <4>2 DEF At
    <3> QED BY <2>4, <3>1, <3>2, HitTyped DEF WriteText, CreateText, Sources
  <2>6. ASSUME DropRow(r) \/ CutRequest(r) PROVE Shape(r)'
    BY <1>f, <2>6 DEF DropRow, CutRequest
  <2>7. ASSUME NEW s \in Sources, Enqueue(r, s) PROVE Shape(r)'
    BY <1>a, <1>d, <1>f, <2>7 DEF Enqueue, SetJob, At, TypeOK, RequestStates
  <2> QED
    BY <1>2, <1>b, <1>c, <2>1, <2>2, <2>3, <2>4, <2>6, <2>7 DEF RequestStep
<1>3. CASE WorkerStep \/ AttemptFails \/ CrashWorker
  <2>1. UNCHANGED req
    BY <1>3 DEF WorkerStep, Pick, FindSource, MarkProcessing, StoreChunk,
       MarkTrained, MarkFailed, Rethrow, Complete, AttemptFails, CrashWorker
  <2>2. \A r \in Requests, s \in Sources :
          jobs[r][s].state = "none" => jobs'[r][s].state = "none"
    BY <1>3, WorkerJobs
  <2> QED BY <1>a, <1>b, <1>d, <2>1, <2>2 DEF At, RequestStates
<1>4. CASE DeleteChatbot \/ UNCHANGED vars
  BY <1>4, <1>b, <1>c DEF DeleteChatbot, vars
<1> QED BY <1>1, <1>2, <1>3, <1>4 DEF Next

LEMMA ActiveJobStep ==
  ASSUME TypeOK, ActiveJob, RequestShape, [Next]_vars
  PROVE  ActiveJob'
<1>1. ASSUME NEW r \in Requests, NEW s \in Sources, Pick(r, s) PROVE ActiveJob'
  <2>1. jobs[r][s] \in JobStates
    BY DEF TypeOK
  <2>2. jobs'[r][s] = [jobs[r][s] EXCEPT !.state = "active"]
    <3>1. [jobs[r][s] EXCEPT !.state = "active"] \in JobStates
      BY <2>1, JobEdits
    <3>2. SetJob(r, s, [jobs[r][s] EXCEPT !.state = "active"])
      BY <1>1 DEF Pick
    <3> HIDE DEF SetJob
    <3> QED BY <3>1, <3>2, JobSet
  <2>3. jobs'[r][s].state = "active"
    BY <2>1, <2>2 DEF JobStates
  <2>4. worker'.by = r /\ worker'.src = s
    BY <1>1 DEF Pick, IdleWorker
  <2> QED BY <2>3, <2>4 DEF ActiveJob, Job
<1>2. CASE FindSource \/ MarkProcessing \/ StoreChunk \/ MarkTrained \/ MarkFailed \/ AttemptFails
  BY <1>2 DEF FindSource, MarkProcessing, StoreChunk, MarkTrained, MarkFailed, AttemptFails,
     Goto, Doing, ActiveJob, Job, TypeOK, WorkerStates
<1>3. CASE Rethrow \/ Complete \/ CrashWorker
  BY <1>3 DEF Rethrow, Complete, CrashWorker, EndJob, IdleWorker, ActiveJob
<1>4. ASSUME NEW r \in Requests, NEW s \in Sources, Enqueue(r, s) PROVE ActiveJob'
  <2>1. jobs[r][s].state = "none"
    BY <1>4 DEF Enqueue, RequestShape
  <2>2. worker.pc # "idle" => ~(worker.by = r /\ worker.src = s)
    BY <2>1 DEF ActiveJob, Job
  <2> QED BY <1>4, <2>2, RecordTyped DEF Enqueue, SetJob, ActiveJob, Job, TypeOK
<1>5. CASE UNCHANGED <<jobs, worker>>
  BY <1>5 DEF ActiveJob, Job
<1>6. ASSUME NEW r \in Requests, RequestStep(r), \A s \in Sources : ~Enqueue(r, s)
      PROVE  UNCHANGED <<jobs, worker>>
  BY <1>6 DEF RequestStep, DeleteBySource, WriteQna, WriteText, CreateText, DropRow
<1>7. ASSUME NEW r \in Requests, StartRequest(r) \/ CutRequest(r) PROVE UNCHANGED <<jobs, worker>>
  BY <1>7 DEF StartRequest, CutRequest, CreateQna, ReadQnaToUpdate, ReadQnaToDelete,
     ReadTextToUpsert, ReadTextToDelete
<1>8. CASE DeleteChatbot \/ UNCHANGED vars
  BY <1>8, <1>5 DEF DeleteChatbot, vars
<1> QED BY <1>1, <1>2, <1>3, <1>4, <1>5, <1>6, <1>7, <1>8 DEF Next, WorkerStep

(* A row that comes to life is owed a training from that step on.          *)
LEMMA BornOwed ==
  ASSUME TypeOK, RequestShape, [Next]_vars, NEW s \in Sources, ~Live(s), Live(s)'
  PROVE  Owed(s)'
<1> USE DEF Live
<1>1. ASSUME NEW r \in Requests, StartRequest(r) PROVE Owed(s)'
  <2>1. PICK S \in SUBSET Qna, c \in Contents : CreateQna(r, S, c) /\ s \in S
    BY <1>1 DEF StartRequest, CreateQna, ReadQnaToUpdate, ReadQnaToDelete, ReadTextToUpsert,
                ReadTextToDelete
  <2>2. At(r, "enqueue")' /\ s \in req'[r].todo
    BY <2>1 DEF CreateQna, At, FreshRequest, TypeOK
  <2> QED BY <2>2 DEF Owed, RequestGoesOn
<1>2. ASSUME NEW r \in Requests, CreateText(r) PROVE Owed(s)'
  <2>1. PICK t \in Text : /\ status' = [status EXCEPT ![t] = "PENDING"]
                          /\ req' = [req EXCEPT ![r].pc = "enqueue", ![r].todo = {t}]
    BY <1>2 DEF CreateText
  <2>2. At(r, "enqueue")' /\ s \in req'[r].todo
    BY <2>1 DEF At, TypeOK, RequestStates
  <2> QED BY <2>2 DEF Owed, RequestGoesOn
<1>3. ASSUME NEW r \in Requests, WriteQna(r) PROVE FALSE
  <2>1. req[r].src \in Qna
    BY <1>3 DEF WriteQna, RequestShape
  <2>2. Hit(r) # {} => Live(req[r].src)
    BY <2>1 DEF Hit
  <2> QED BY <1>3, <2>2, RecordTyped DEF WriteQna, TypeOK
<1>4. ASSUME NEW r \in Requests, WriteText(r) PROVE FALSE
  <2>1. CASE Hit(r) = {}
    BY <1>4, <2>1 DEF WriteText
  <2>2. ASSUME NEW t \in Hit(r), status' = [status EXCEPT ![t] = "PENDING"] PROVE FALSE
    BY <2>2, HitTyped DEF TypeOK
  <2> QED BY <1>4, <2>1, <2>2 DEF WriteText
<1>5. ASSUME NEW r \in Requests,
             \/ DeleteBySource(r) \/ DropRow(r) \/ CutRequest(r)
             \/ \E s1 \in Sources : Enqueue(r, s1)
      PROVE  FALSE
  BY <1>5 DEF DeleteBySource, DropRow, CutRequest, Enqueue, Trained, TypeOK
<1>6. CASE WorkerStep \/ AttemptFails \/ CrashWorker
  BY <1>6, RecordTyped DEF WorkerStep, Pick, FindSource, MarkProcessing, StoreChunk,
     MarkTrained, MarkFailed, Rethrow, Complete, AttemptFails, CrashWorker, SetStatus, TypeOK
<1>7. CASE DeleteChatbot \/ UNCHANGED vars
  BY <1>7 DEF DeleteChatbot, vars, Trained, TypeOK
<1> QED
  BY <1>1, <1>2, <1>3, <1>4, <1>5, <1>6, <1>7 DEF Next, RequestStep

(* What is owed stays owed, until the worker has read the row (or fails    *)
(* on the way), or the row is gone, or a fault has cost it the training.   *)
LEMMA OwedStays ==
  ASSUME TypeOK, OneText, RequestShape, ActiveJob, [Next]_vars,
         NEW s \in Sources, Owed(s), Live(s)', s \notin lost',
         ~(AboutToRead(s) /\ (FindSource \/ AttemptFails))
  PROVE  Owed(s)'
<1>0. Live(s) \/ Owed(s)'
  BY BornOwed
<1>1. ASSUME NEW r \in Requests, StartRequest(r) PROVE Owed(s)'
  <2>1. At(r, "start") /\ UNCHANGED <<jobs, worker>>
        /\ \A r1 \in Requests : r1 # r => req'[r1] = req[r1]
    BY <1>1 DEF StartRequest, CreateQna, ReadQnaToUpdate, ReadQnaToDelete, ReadTextToUpsert,
                ReadTextToDelete, TypeOK
  <2>2. ~RequestGoesOn(r, s)
    BY <2>1 DEF RequestGoesOn, At
  <2> QED
    BY <2>1, <2>2 DEF Owed, JobWaits, AboutToRead, RequestGoesOn, At, Doing
<1>2. ASSUME NEW r \in Requests, RequestStep(r), \A s1 \in Sources : ~Enqueue(r, s1)
      PROVE  Owed(s)'
  <2>1. UNCHANGED <<jobs, worker>> /\ \A r1 \in Requests : r1 # r => req'[r1] = req[r1]
    BY <1>2 DEF RequestStep, DeleteBySource, WriteQna, WriteText, CreateText, DropRow, Finish,
                TypeOK
  <2>2. ASSUME RequestGoesOn(r, s), Live(s) PROVE Owed(s)'
    <3>1. CASE DeleteBySource(r)
      <4>1. /\ req'[r].pc = AfterPurge(r) /\ req'[r].op = req[r].op
            /\ req'[r].src = req[r].src /\ req'[r].todo = req[r].todo
        BY <3>1 DEF DeleteBySource, TypeOK, RequestStates
      <4>2. req[r].src = s /\ At(r, "purge")
        BY <2>2, <3>1 DEF DeleteBySource, RequestGoesOn, At
      <4>3. RequestGoesOn(r, s)'
        BY <4>1, <4>2 DEF RequestGoesOn, AfterPurge, At, RequestShape
      <4> QED BY <4>3 DEF Owed
    <3>2. CASE WriteQna(r) \/ CreateText(r)
      BY <2>2, <3>2 DEF WriteQna, CreateText, RequestGoesOn, At
    <3>3. CASE WriteText(r)
      <4>1. req[r].src = s /\ s \in Text
        BY <2>2, <3>3 DEF WriteText, RequestGoesOn, At, RequestShape
      <4>2. Hit(r) = {s}
        BY <2>2, <4>1, KindsDisjoint DEF Hit, LiveText, OneText
      <4>3. req' = [req EXCEPT ![r].pc = "enqueue", ![r].todo = {s}]
        BY <3>3, <4>2 DEF WriteText
      <4>4. RequestGoesOn(r, s)'
        BY <4>3 DEF RequestGoesOn, At, TypeOK, RequestStates
      <4> QED BY <4>4 DEF Owed
    <3>4. CASE DropRow(r)
      <4>1. req[r].src = s
        BY <2>2, <3>4 DEF DropRow, RequestGoesOn, At
      <4>2. s \in Hit(r)
        BY <2>2, <4>1 DEF Hit, LiveText, Sources
      <4>3. ~Live(s)'
        BY <3>4, <4>2 DEF DropRow, Live, Trained
      <4> QED BY <4>3
    <3> QED BY <1>2, <3>1, <3>2, <3>3, <3>4 DEF RequestStep
  <2> QED
    BY <1>0, <2>1, <2>2 DEF Owed, JobWaits, AboutToRead, RequestGoesOn, At, Doing
<1>3. ASSUME NEW r \in Requests, NEW s1 \in Sources, Enqueue(r, s1) PROVE Owed(s)'
  <2>1. jobs'[r][s1].state = "wait"
    BY <1>3 DEF Enqueue, SetJob, NoJob, TypeOK
  <2>2. CASE s1 = s
    BY <2>1, <2>2 DEF Owed, JobWaits
  <2>3. CASE s1 # s /\ RequestGoesOn(r, s)
    <3>1. s \in req[r].todo /\ s1 \in req[r].todo
      BY <1>3, <2>3 DEF Enqueue, RequestGoesOn, At
    <3>2. req' = [req EXCEPT ![r].todo = req[r].todo \ {s1}] /\ At(r, "enqueue")
      BY <1>3, <2>3, <3>1 DEF Enqueue
    <3>3. RequestGoesOn(r, s)'
      BY <2>3, <3>1, <3>2 DEF RequestGoesOn, At, TypeOK, RequestStates
    <3> QED BY <3>3 DEF Owed
  <2>4. CASE s1 # s /\ ~RequestGoesOn(r, s)
    <3>1. \A r1 \in Requests : jobs'[r1][s] = jobs[r1][s]
      BY <1>3, <2>4 DEF Enqueue, SetJob, TypeOK
    <3>2. UNCHANGED worker /\ \A r1 \in Requests : r1 # r => req'[r1] = req[r1]
      BY <1>3 DEF Enqueue, Finish, TypeOK
    <3> QED
      BY <2>4, <3>1, <3>2 DEF Owed, JobWaits, AboutToRead, RequestGoesOn, At, Doing
  <2> QED BY <2>2, <2>3, <2>4
<1>4. CASE WorkerStep \/ AttemptFails \/ CrashWorker
  <2>1. UNCHANGED req
    BY <1>4 DEF WorkerStep, Pick, FindSource, MarkProcessing, StoreChunk,
       MarkTrained, MarkFailed, Rethrow, Complete, AttemptFails, CrashWorker
  <2>2. CASE \E r \in Requests : RequestGoesOn(r, s)
    BY <2>1, <2>2 DEF Owed, RequestGoesOn, At
  <2>3. ASSUME NEW r \in Requests, jobs[r][s].state = "wait" PROVE Owed(s)'
    <3>1. CASE jobs'[r][s] = jobs[r][s]
      BY <2>3, <3>1 DEF Owed, JobWaits
    <3>2. ASSUME NEW r1 \in Requests, NEW s1 \in Sources, Pick(r1, s1), jobs'[r][s] # jobs[r][s]
          PROVE Owed(s)'
      <4>1. s1 = s
        BY <3>2 DEF Pick, SetJob, TypeOK
      <4> QED BY <3>2, <4>1 DEF Pick, IdleWorker, Owed, AboutToRead, Doing
    <3>3. ASSUME NEW j, EndJob(j), worker.pc # "idle" PROVE jobs'[r][s] = jobs[r][s]
      BY <2>3, <3>3, RecordTyped DEF EndJob, SetJob, TypeOK, ActiveJob, Job
    <3>4. CASE Rethrow \/ Complete \/ CrashWorker
      BY <3>1, <3>3, <3>4 DEF Rethrow, Complete, CrashWorker, Doing
    <3> QED
      BY <1>4, <3>1, <3>2, <3>4 DEF WorkerStep, AttemptFails, FindSource, MarkProcessing,
         StoreChunk, MarkTrained, MarkFailed
  <2>4. CASE AboutToRead(s)
    <3>1. CASE CrashWorker
      <4>2. Job \in JobStates /\ worker.src = s
        BY <2>4, RecordTyped DEF Job, TypeOK, AboutToRead
      <4>1. EndJob([Job EXCEPT !.state = "wait", !.stalls = @ + 1])
        BY <3>1, <4>2 DEF CrashWorker
      <4>3. jobs'[worker.by][s].state = "wait"
        BY <4>1, <4>2, RecordTyped DEF EndJob, SetJob, TypeOK, JobStates
      <4> QED BY <4>3, RecordTyped DEF Owed, JobWaits
    <3> QED
      BY <1>4, <2>4, <3>1 DEF WorkerStep, AboutToRead, Doing, Pick, MarkProcessing, StoreChunk,
         MarkTrained, MarkFailed, Rethrow, Complete
  <2> QED BY <2>2, <2>3, <2>4 DEF Owed, JobWaits
<1>5. ASSUME NEW r \in Requests, CutRequest(r) PROVE Owed(s)'
  <2>1. ~RequestGoesOn(r, s)
    BY <1>5 DEF CutRequest
  <2>2. UNCHANGED <<jobs, worker>> /\ \A r1 \in Requests : r1 # r => req'[r1] = req[r1]
    BY <1>5 DEF CutRequest, Finish, TypeOK
  <2> QED BY <2>1, <2>2 DEF Owed, JobWaits, AboutToRead, RequestGoesOn, At, Doing
<1>6. CASE DeleteChatbot
  BY <1>6 DEF DeleteChatbot, Live, Trained
<1>7. CASE UNCHANGED vars
  BY <1>7 DEF vars, Owed, JobWaits, AboutToRead, RequestGoesOn, At, Doing
<1> QED
  BY <1>1, <1>2, <1>3, <1>4, <1>5, <1>6, <1>7 DEF Next

(* The job at work is not one that a request puts on the queue. *)
LEMMA JobStays ==
  ASSUME TypeOK, RequestShape, ActiveJob, worker.pc # "idle", UNCHANGED worker,
         NEW r \in Requests, StartRequest(r) \/ RequestStep(r)
  PROVE  Job' = Job
<1>1. CASE UNCHANGED jobs
  BY <1>1 DEF Job
<1>2. ASSUME NEW s \in Sources, Enqueue(r, s) PROVE Job' = Job
  <2>1. jobs[r][s].state = "none" /\ Job.state = "active"
    BY <1>2 DEF Enqueue, RequestShape, ActiveJob
  <2>2. ~(worker.by = r /\ worker.src = s)
    BY <2>1 DEF Job
  <2> QED BY <1>2, <2>2, RecordTyped DEF Enqueue, SetJob, Job, TypeOK
<1> QED
  BY <1>1, <1>2 DEF StartRequest, CreateQna, ReadQnaToUpdate, ReadQnaToDelete, ReadTextToUpsert,
     ReadTextToDelete, RequestStep, DeleteBySource, WriteQna, WriteText, CreateText, DropRow

(* What was lost is made good only when the worker reads the source.       *)
LEMMA FoundAgain ==
  ASSUME TypeOK, [Next]_vars, NEW s \in Sources, s \in lost, s \notin lost'
  PROVE  FindSource /\ worker.src = s /\ Live(s)
BY DEF Next, StartRequest, CreateQna, ReadQnaToUpdate, ReadQnaToDelete, ReadTextToUpsert,
   ReadTextToDelete, RequestStep, DeleteBySource, WriteQna, WriteText, CreateText, DropRow, Enqueue,
   CutRequest, DeleteChatbot, WorkerStep, Pick, FindSource, MarkProcessing, StoreChunk, MarkTrained,
   MarkFailed, Rethrow, Complete, AttemptFails, CrashWorker, vars

(* What PipelineInv says of one source.                                    *)
WorkerOK(s) ==
  worker.pc \in {"mark", "store"} /\ worker.src = s /\ Live(s) /\ ~Owed(s) /\ s \notin lost =>
    /\ worker.content = content[s]
    /\ \A k \in 1 .. MaxChunks : k <= worker.stored => emb[s][worker.content][k] > 0
SettledOK(s) ==
  Live(s) /\ s \notin lost => \/ Underway(s)
                              \/ status[s] = "FAILED"
                              \/ status[s] = "TRAINED" /\ FullyEmbedded(s)

LEMMA OneSource ==
  ASSUME TypeOK
  PROVE  /\ SourcesSettled <=> \A s \in Sources : SettledOK(s)
         /\ WorkerUpToDate <=> /\ Doing("find") => worker.stored = 0
                               /\ \A s \in Sources : WorkerOK(s)
BY RecordTyped DEF SourcesSettled, SettledOK, WorkerUpToDate, WorkerOK

(* A step that leaves the row of s and its embeddings alone, or adds rows, *)
(* and leaves the worker and its job alone if it is on s, keeps both       *)
(* facts.                                                                  *)
LEMMA Untouched ==
  ASSUME TypeOK, NEW s \in Sources, SettledOK(s), WorkerOK(s), ~Owed(s), s \notin lost,
         status'[s] = status[s], content'[s] = content[s], content[s] \in Contents,
         \A c \in Contents, k \in 1 .. MaxChunks : emb[s][c][k] > 0 => emb'[s][c][k] > 0,
         \/ worker' = worker /\ (Doing("rethrow") => Job' = Job)
         \/ /\ ~BusyWith(s) /\ ~RetryComes(s)
            /\ ~(worker'.pc \in {"mark", "store"} /\ worker'.src = s)
  PROVE  SettledOK(s)' /\ WorkerOK(s)'
<1>1. FullyEmbedded(s) => FullyEmbedded(s)'
  BY ChunksAssumption DEF FullyEmbedded, Chunks
<1>2. WorkerOK(s)'
  BY RecordTyped DEF WorkerOK, Live, BusyWith
<1>3. SettledOK(s)'
  <2>1. BusyWith(s) \/ RetryComes(s) => BusyWith(s)' \/ RetryComes(s)'
    BY DEF BusyWith, RetryComes, MoreAttempts, Doing
  <2> QED BY <1>1, <2>1 DEF SettledOK, Live, Underway
<1> QED BY <1>2, <1>3

LEMMA SourceRequest ==
  ASSUME TypeOK, OneText, RequestShape, ActiveJob, NEW s \in Sources, SettledOK(s), WorkerOK(s),
         ~Owed(s), Live(s), Live(s)', ~Owed(s)', s \notin lost, s \notin lost', NEW r \in Requests,
         StartRequest(r) \/ RequestStep(r)
  PROVE  SettledOK(s)' /\ WorkerOK(s)'
<1>1. worker' = worker /\ content[s] \in Contents
  BY DEF StartRequest, CreateQna, ReadQnaToUpdate, ReadQnaToDelete, ReadTextToUpsert,
         ReadTextToDelete, RequestStep, DeleteBySource, WriteQna, WriteText, CreateText, DropRow,
         Enqueue, TypeOK
<1>2. emb'[s] = emb[s]
  <2>1. CASE DeleteBySource(r)
    <3>1. /\ req'[r].pc = AfterPurge(r) /\ req'[r].op = req[r].op
          /\ req'[r].src = req[r].src /\ req'[r].todo = req[r].todo /\ At(r, "purge")
      BY <2>1 DEF DeleteBySource, TypeOK, RequestStates
    <3>2. ~RequestGoesOn(r, s)'
      BY DEF Owed
    <3>3. req[r].src # s
      BY <3>1, <3>2 DEF RequestGoesOn, AfterPurge, At, RequestShape
    <3> QED BY <2>1, <3>3 DEF DeleteBySource, TypeOK
  <2>2. CASE ~DeleteBySource(r)
    BY <2>2 DEF StartRequest, CreateQna, ReadQnaToUpdate, ReadQnaToDelete, ReadTextToUpsert,
       ReadTextToDelete, RequestStep, WriteQna, WriteText, CreateText, DropRow, Enqueue
  <2> QED BY <2>1, <2>2
<1>3. status'[s] = status[s] /\ content'[s] = content[s]
  <2>1. ASSUME NEW S \in SUBSET Qna, NEW c \in Contents, CreateQna(r, S, c)
        PROVE  status'[s] = status[s] /\ content'[s] = content[s]
    BY <2>1 DEF CreateQna, Live, Trained
  <2>2. CASE WriteQna(r)
    <3>2. CASE Hit(r) = {}
      BY <2>2, <3>2 DEF WriteQna
    <3>3. CASE Hit(r) # {} /\ req[r].changed
      <4>1. req' = [req EXCEPT ![r].pc = "purge", ![r].todo = {req[r].src}] /\ req[r].op = "updateQna"
        BY <2>2, <3>3 DEF WriteQna
      <4>2. req[r].src = s => RequestGoesOn(r, s)'
        BY <4>1 DEF RequestGoesOn, At, TypeOK, RequestStates
      <4>3. req[r].src # s
        BY <4>2 DEF Owed
      <4> QED BY <2>2, <3>3, <4>3 DEF WriteQna, TypeOK
    <3>4. CASE Hit(r) # {} /\ ~req[r].changed
      BY <2>2, <3>4 DEF WriteQna, TypeOK
    <3> QED BY <3>2, <3>3, <3>4
  <2>3. CASE WriteText(r)
    <3>1. CASE Hit(r) = {}
      BY <2>3, <3>1 DEF WriteText
    <3>2. ASSUME NEW t \in Hit(r),
                 content' = [content EXCEPT ![t] = req[r].new],
                 status' = [status EXCEPT ![t] = "PENDING"],
                 req' = [req EXCEPT ![r].pc = "enqueue", ![r].todo = {t}]
          PROVE  status'[s] = status[s] /\ content'[s] = content[s]
      <4>1. t = s => RequestGoesOn(r, s)'
        BY <3>2 DEF RequestGoesOn, At, TypeOK, RequestStates
      <4> QED BY <3>2, <4>1 DEF Owed, TypeOK
    <3> QED BY <2>3, <3>1, <3>2 DEF WriteText
  <2>4. CASE CreateText(r)
    BY <2>4 DEF CreateText, Live, Trained, TypeOK
  <2>5. CASE DropRow(r)
    BY <2>5 DEF DropRow, Live, Trained
  <2>6. CASE DeleteBySource(r) \/ \E s1 \in Sources : Enqueue(r, s1)
    BY <2>6 DEF DeleteBySource, Enqueue
  <2> QED
    BY <2>1, <2>2, <2>3, <2>4, <2>5, <2>6 DEF StartRequest, RequestStep, ReadQnaToUpdate,
       ReadQnaToDelete, ReadTextToUpsert, ReadTextToDelete
<1>4. Doing("rethrow") => Job' = Job
  BY <1>1, JobStays DEF Doing
<1> QED BY <1>1, <1>2, <1>3, <1>4, Untouched

LEMMA SourceWorker ==
  ASSUME TypeOK, ActiveJob, Doing("find") => worker.stored = 0,
         NEW s \in Sources, SettledOK(s), WorkerOK(s),
         ~Owed(s), Live(s), ~Owed(s)', s \notin lost, s \notin lost', WorkerStep \/ AttemptFails \/ CrashWorker
  PROVE  SettledOK(s)' /\ WorkerOK(s)'
<1>0. content[s] \in Contents /\ worker.src \in Sources
  BY RecordTyped DEF TypeOK
<1>1. ASSUME NEW r \in Requests, NEW s1 \in Sources, Pick(r, s1) PROVE SettledOK(s)' /\ WorkerOK(s)'
  BY <1>0, <1>1, Untouched DEF Pick, Doing, BusyWith, RetryComes, IdleWorker
<1>2. CASE FindSource
  <2>1. worker.src # s
    BY <1>2 DEF FindSource, Owed, AboutToRead
  <2>2. worker'.src = worker.src
    BY <1>2 DEF FindSource, Goto, TypeOK, WorkerStates
  <2> QED BY <1>0, <1>2, <2>1, <2>2, Untouched DEF FindSource, BusyWith, RetryComes
<1>3. CASE worker.src # s /\ ~\E r \in Requests, s1 \in Sources : Pick(r, s1)
  <2>1. status'[s] = status[s] /\ content'[s] = content[s]
    BY <1>3 DEF WorkerStep, FindSource, MarkProcessing, StoreChunk, MarkTrained, MarkFailed,
       Rethrow, Complete, AttemptFails, CrashWorker, SetStatus, TypeOK
  <2>2. emb'[s] = emb[s]
    BY <1>3 DEF WorkerStep, FindSource, MarkProcessing, StoreChunk, MarkTrained, MarkFailed,
       Rethrow, Complete, AttemptFails, CrashWorker, InsertRow, TypeOK
  <2>3. worker'.src = worker.src \/ worker'.pc = "idle"
    <3>1. CASE FindSource \/ StoreChunk
      BY <3>1 DEF FindSource, StoreChunk, Goto, TypeOK, WorkerStates
    <3>2. CASE MarkProcessing \/ MarkTrained \/ MarkFailed \/ AttemptFails
      BY <3>2 DEF MarkProcessing, MarkTrained, MarkFailed, AttemptFails, Goto, TypeOK,
         WorkerStates
    <3>3. CASE Rethrow \/ Complete \/ CrashWorker
      BY <3>3 DEF Rethrow, Complete, CrashWorker, EndJob, IdleWorker
    <3> QED BY <1>3, <3>1, <3>2, <3>3 DEF WorkerStep
  <2> QED BY <1>0, <1>3, <2>1, <2>2, <2>3, Untouched DEF BusyWith, RetryComes
<1>4. CASE worker.src = s /\ MarkProcessing
  <2>1. worker'.pc = "store" /\ worker'.src = s /\ worker'.stored = worker.stored
        /\ worker'.content = worker.content
    BY <1>4 DEF MarkProcessing, Goto, TypeOK, WorkerStates
  <2> QED BY <1>4, <2>1 DEF MarkProcessing, Doing, SettledOK, WorkerOK, BusyWith, Underway
<1>5. CASE worker.src = s /\ StoreChunk
  <2>1. CASE bot
    <3>1. worker'.pc = "store" /\ worker'.src = s /\ worker'.stored = worker.stored + 1
          /\ worker'.content = worker.content
      BY <1>5, <2>1 DEF StoreChunk, Doing, TypeOK, WorkerStates
    <3>2. worker.content = content[s] /\ worker.stored + 1 \in 1 .. MaxChunks
      BY <1>5, RecordTyped, ChunksAssumption DEF StoreChunk, Doing, WorkerOK
    <3>3. /\ emb'[s][worker.content][worker.stored + 1] > 0
          /\ \A c \in Contents, k \in 1 .. MaxChunks : emb[s][c][k] > 0 => emb'[s][c][k] > 0
      <4>1. emb' = InsertRow(emb, s, worker.content, worker.stored + 1)
        BY <1>5, <2>1 DEF StoreChunk
      <4>2. emb \in [Sources -> Rows] /\ worker.content \in Contents
        BY RecordTyped DEF TypeOK
      <4>3. ASSUME NEW e \in [Sources -> Rows], NEW d \in Contents, NEW n \in 1 .. MaxChunks
            PROVE  /\ InsertRow(e, s, d, n)[s][d][n] > 0
                   /\ \A c \in Contents, k \in 1 .. MaxChunks :
                        e[s][c][k] > 0 => InsertRow(e, s, d, n)[s][c][k] > 0
        <5>1. InsertRow(e, s, d, n)[s][d][n] > 0
          BY OneMoreRow, Zenon
        <5>2. ASSUME NEW c \in Contents, NEW k \in 1 .. MaxChunks, e[s][c][k] > 0
              PROVE  InsertRow(e, s, d, n)[s][c][k] > 0
          BY <5>2, OneMoreRow
        <5> QED BY <5>1, <5>2
      <4> QED BY <3>2, <4>1, <4>2, <4>3, Zenon
    <3>4. \A k \in 1 .. MaxChunks : k <= worker.stored + 1 => emb'[s][content[s]][k] > 0
      BY <1>0, <1>5, <3>2, <3>3, RecordTyped DEF WorkerOK, StoreChunk, Doing
    <3>5. UNCHANGED <<status, content>>
      BY <1>5 DEF StoreChunk
    <3> QED BY <3>1, <3>2, <3>4, <3>5 DEF SettledOK, WorkerOK, BusyWith, Underway
  <2>2. CASE ~bot
    <3>1. worker'.pc = "markFailed" /\ worker'.src = s
      BY <1>5, <2>2 DEF StoreChunk, Goto, TypeOK, WorkerStates
    <3> QED BY <3>1 DEF SettledOK, WorkerOK, BusyWith, Underway
  <2> QED BY <2>1, <2>2
<1>6. CASE worker.src = s /\ MarkTrained
  <2>1. worker'.pc = "complete" /\ status'[s] = "TRAINED" /\ UNCHANGED <<content, emb>>
    BY <1>6 DEF MarkTrained, Goto, SetStatus, TypeOK, WorkerStates
  <2>2. FullyEmbedded(s)
    BY <1>0, <1>6, ChunksAssumption DEF MarkTrained, Doing, WorkerOK, FullyEmbedded, Chunks
  <2>3. FullyEmbedded(s)'
    BY <2>1, <2>2 DEF FullyEmbedded
  <2> QED BY <2>1, <2>3 DEF SettledOK, WorkerOK
<1>7. CASE worker.src = s /\ AttemptFails
  <2>1. worker'.pc = "markFailed" /\ worker'.src = s
    BY <1>7 DEF AttemptFails, Goto, TypeOK, WorkerStates
  <2> QED BY <2>1 DEF SettledOK, WorkerOK, BusyWith, Underway
<1>8. CASE worker.src = s /\ MarkFailed
  <2>1. worker'.pc = "rethrow" /\ worker'.src = s /\ Job' = Job
    BY <1>8 DEF MarkFailed, Goto, TypeOK, WorkerStates, Job
  <2>2. status'[s] = "FAILED" \/ MoreAttempts
    BY <1>8 DEF MarkFailed, SetStatus, TypeOK
  <2>3. MoreAttempts => RetryComes(s)'
    BY <2>1 DEF RetryComes, MoreAttempts, Doing
  <2> QED BY <2>1, <2>2, <2>3 DEF SettledOK, WorkerOK, Underway
<1>9. CASE worker.src = s /\ (Rethrow \/ Complete)
  <2>1. ~RetryComes(s)
    <3>1. CASE Rethrow /\ MoreAttempts
      <4>1. EndJob([Job EXCEPT !.attempts = Job.attempts + 1, !.state = "wait"])
        BY <3>1 DEF Rethrow
      <4>2. Job \in JobStates
        BY RecordTyped DEF Job, TypeOK
      <4>3. jobs'[worker.by][s].state = "wait"
        BY <1>9, <4>1, <4>2, RecordTyped DEF EndJob, SetJob, TypeOK, JobStates
      <4> QED BY <4>3, RecordTyped DEF Owed, JobWaits
    <3>2. CASE Complete \/ ~MoreAttempts
      BY <3>2 DEF Complete, RetryComes, Doing
    <3> QED BY <1>9, <3>1, <3>2
  <2> QED BY <1>0, <1>9, <2>1, Untouched DEF Rethrow, Complete, EndJob, IdleWorker, BusyWith, Doing
<1>10. CASE worker.src = s /\ CrashWorker
  <2>1. EndJob([Job EXCEPT !.state = "wait", !.stalls = @ + 1])
    BY <1>10 DEF CrashWorker
  <2>2. Job \in JobStates
    BY RecordTyped DEF Job, TypeOK
  <2>3. jobs'[worker.by][s].state = "wait"
    BY <1>10, <2>1, <2>2, RecordTyped DEF EndJob, SetJob, TypeOK, JobStates
  <2> QED BY <2>3, RecordTyped DEF Owed, JobWaits
<1> QED
  BY <1>1, <1>2, <1>3, <1>4, <1>5, <1>6, <1>7, <1>8, <1>9, <1>10 DEF WorkerStep

LEMMA SourceStep ==
  ASSUME TypeOK, OneText, RequestShape, ActiveJob,
         Doing("find") => worker.stored = 0, [Next]_vars,
         NEW s \in Sources, SettledOK(s), WorkerOK(s)
  PROVE  SettledOK(s)' /\ WorkerOK(s)'
<1>1. CASE ~Live(s)' \/ Owed(s)' \/ s \in lost'
  BY <1>1 DEF SettledOK, WorkerOK, Underway
<1>2. CASE Live(s)' /\ ~Owed(s)' /\ worker.src = s /\ FindSource
  <2>1. worker'.pc = "mark" => worker'.content = content[s] /\ worker'.stored = 0
    BY <1>2 DEF FindSource, Doing, Goto, TypeOK, WorkerStates
  <2>2. UNCHANGED <<status, content>>
    BY <1>2 DEF FindSource
  <2>3. worker'.pc = "mark" /\ worker'.src = s
    BY <1>2, <2>2 DEF FindSource, Live, TypeOK, WorkerStates
  <2> QED BY <2>1, <2>2, <2>3 DEF SettledOK, WorkerOK, BusyWith, Underway
<1>3. CASE AboutToRead(s) /\ AttemptFails
  <2>1. worker'.pc = "markFailed" /\ worker'.src = s
    BY <1>3 DEF AttemptFails, AboutToRead, Goto, TypeOK, WorkerStates
  <2> QED BY <2>1 DEF SettledOK, WorkerOK, BusyWith, Underway
<1>4. CASE /\ Live(s)' /\ ~Owed(s)' /\ s \notin lost'
           /\ ~(worker.src = s /\ FindSource) /\ ~(AboutToRead(s) /\ AttemptFails)
  <2>0. s \notin lost
    BY <1>4, FoundAgain
  <2>1. ~Owed(s) /\ Live(s)
    BY <1>4, OwedStays, BornOwed DEF AboutToRead
  <2>2. ASSUME NEW r \in Requests, StartRequest(r) \/ RequestStep(r)
        PROVE  SettledOK(s)' /\ WorkerOK(s)'
    BY <1>4, <2>0, <2>1, <2>2, SourceRequest
  <2>3. CASE WorkerStep \/ AttemptFails \/ CrashWorker
    BY <1>4, <2>0, <2>1, <2>3, SourceWorker
  <2>4. ASSUME NEW r \in Requests, CutRequest(r) PROVE SettledOK(s)' /\ WorkerOK(s)'
    <3>1. UNCHANGED <<status, content, emb, worker>> /\ Job' = Job /\ content[s] \in Contents
      BY <2>4 DEF CutRequest, Job, TypeOK
    <3> QED BY <2>0, <2>1, <3>1, Untouched
  <2>5. ~DeleteChatbot
    BY <1>4 DEF DeleteChatbot, Live, Trained
  <2>6. CASE UNCHANGED vars
    <3>1. UNCHANGED <<status, content, emb, worker>> /\ Job' = Job /\ content[s] \in Contents
      BY <2>6 DEF vars, Job, TypeOK
    <3> QED BY <2>0, <2>1, <3>1, Untouched
  <2> QED BY <2>2, <2>3, <2>4, <2>5, <2>6 DEF Next
<1> QED BY <1>1, <1>2, <1>3, <1>4

-----------------------------------------------------------------------------

LEMMA PipelineInit == Init => PipelineInv
<1> SUFFICES ASSUME Init PROVE PipelineInv
  OBVIOUS
<1>1. \A s \in Sources : ~Live(s)
  BY DEF Init, Live, Trained
<1>2. OneText /\ SourcesSettled
  BY <1>1 DEF OneText, SourcesSettled, Sources
<1>3. worker.pc = "idle"
  BY DEF Init, IdleWorker
<1>4. ActiveJob /\ WorkerUpToDate
  BY <1>3 DEF ActiveJob, WorkerUpToDate, Doing
<1>5. RequestShape
  BY DEF Init, RequestShape, FreshRequest, NoJob, At
<1> QED BY <1>2, <1>4, <1>5 DEF PipelineInv

LEMMA PipelineStep ==
  ASSUME TypeOK, PipelineInv, [Next]_vars
  PROVE  PipelineInv'
<1>1. OneText' /\ RequestShape' /\ ActiveJob'
  BY OneTextStep, RequestShapeStep, ActiveJobStep DEF PipelineInv
<1>2. \A s \in Sources : SettledOK(s)' /\ WorkerOK(s)'
  BY OneSource, SourceStep DEF PipelineInv, WorkerUpToDate
<1>3. (Doing("find") => worker.stored = 0)'
  <2>1. ASSUME NEW r \in Requests, NEW s \in Sources, Pick(r, s)
        PROVE  worker'.stored = 0
    BY <2>1 DEF Pick, IdleWorker
  <2>2. CASE UNCHANGED worker
    BY <2>2 DEF PipelineInv, WorkerUpToDate, Doing
  <2>3. CASE FindSource \/ MarkProcessing \/ StoreChunk \/ MarkTrained \/ MarkFailed \/ AttemptFails
    BY <2>3 DEF FindSource, MarkProcessing, StoreChunk, MarkTrained, MarkFailed, AttemptFails,
       Goto, Doing, TypeOK, WorkerStates
  <2>4. CASE Rethrow \/ Complete \/ CrashWorker
    BY <2>4 DEF Rethrow, Complete, CrashWorker, EndJob, IdleWorker, Doing
  <2>5. ASSUME NEW r \in Requests, StartRequest(r) \/ RequestStep(r) \/ CutRequest(r)
        PROVE  UNCHANGED worker
    BY <2>5 DEF StartRequest, CutRequest, CreateQna, ReadQnaToUpdate, ReadQnaToDelete,
       ReadTextToUpsert, ReadTextToDelete, RequestStep, DeleteBySource, WriteQna, WriteText,
       CreateText, DropRow, Enqueue
  <2>6. DeleteChatbot \/ UNCHANGED vars => UNCHANGED worker
    BY DEF DeleteChatbot, vars
  <2> QED BY <2>1, <2>2, <2>3, <2>4, <2>5, <2>6 DEF Next, WorkerStep, Doing
<1>4. TypeOK'
  BY TypeStep
<1>5. SourcesSettled' /\ WorkerUpToDate'
  BY <1>2, <1>3, RecordTyped, <1>4 DEF SourcesSettled, SettledOK, WorkerUpToDate, WorkerOK,
     TypeOK, WorkerStates
<1> QED BY <1>1, <1>5 DEF PipelineInv

LEMMA PipelineImplies ==
  ASSUME TypeOK, PipelineInv
  PROVE  TrainedIsComplete /\ NoForgottenSource
BY DEF PipelineInv, SourcesSettled, TrainedIsComplete, NoForgottenSource, Live, Trained

(* Whatever requests run concurrently with the training of a source, and   *)
(* whatever faults they, the worker and the queue meet, a source that has  *)
(* not lost a training (lost) is never forgotten, and says TRAINED only    *)
(* with an embedding of every chunk of what it now says (or with another   *)
(* training on its way).                                                   *)
THEOREM TrainingSafe == Spec => [](TrainedIsComplete /\ NoForgottenSource)
<1>1. Init => TypeOK /\ PipelineInv
  BY TypeInit, PipelineInit
<1>2. TypeOK /\ PipelineInv /\ [Next]_vars => (TypeOK /\ PipelineInv)'
  BY TypeStep, PipelineStep
<1>3. TypeOK /\ PipelineInv => TrainedIsComplete /\ NoForgottenSource
  BY PipelineImplies
<1> QED BY <1>1, <1>2, <1>3, PTL DEF Spec

-----------------------------------------------------------------------------
(* FAILED means that the attempts are used up.                             *)

(* A job that can still run has attempts left, and the worker completes no *)
(* job of a source it marked as FAILED.                                    *)
AttemptsLeft ==
  \A r \in Requests, s \in Sources :
    jobs[r][s].state \in {"wait", "active"} => jobs[r][s].attempts < MaxAttempts
CompletesTrained == Doing("complete") => status[worker.src] # "FAILED"

LEMMA AttemptsStep ==
  ASSUME TypeOK, ActiveJob, AttemptsLeft, [Next]_vars
  PROVE  AttemptsLeft'
<1>1. ASSUME NEW r \in Requests, NEW s \in Sources, Enqueue(r, s) PROVE AttemptsLeft'
  BY <1>1, LimitsAssumption DEF Enqueue, SetJob, NoJob, AttemptsLeft, TypeOK
<1>2. ASSUME NEW r \in Requests, NEW s \in Sources, Pick(r, s) PROVE AttemptsLeft'
  <2>1. jobs[r][s] \in JobStates
    BY DEF TypeOK
  <2>2. /\ [jobs[r][s] EXCEPT !.state = "active"] \in JobStates
        /\ [jobs[r][s] EXCEPT !.state = "active"].attempts = jobs[r][s].attempts
    BY <2>1 DEF JobStates
  <2>3. /\ jobs'[r][s] = [jobs[r][s] EXCEPT !.state = "active"]
        /\ \A r1 \in Requests, s1 \in Sources : r1 # r \/ s1 # s => jobs'[r1][s1] = jobs[r1][s1]
    BY <1>2, <2>2, JobSet DEF Pick
  <2> QED BY <1>2, <2>2, <2>3, ZenonT(40) DEF AttemptsLeft, Pick
<1>3. CASE Rethrow \/ Complete \/ CrashWorker
  <2>1. worker.pc # "idle" /\ Job \in JobStates /\ Job.attempts < MaxAttempts /\ Job.attempts \in Nat
    BY <1>3, RecordTyped DEF Rethrow, Complete, CrashWorker, Doing, ActiveJob, AttemptsLeft, Job,
       TypeOK, JobStates
  <2>2. PICK j \in JobStates : EndJob(j) /\ (j.state \in {"wait", "active"} => j.attempts < MaxAttempts)
    <3>1. CASE Rethrow
      <4>0. \A st \in {"wait", "failed"} :
              /\ [Job EXCEPT !.attempts = Job.attempts + 1, !.state = st] \in JobStates
              /\ [Job EXCEPT !.attempts = Job.attempts + 1, !.state = st].state = st
              /\ [Job EXCEPT !.attempts = Job.attempts + 1, !.state = st].attempts = Job.attempts + 1
        BY <2>1, JobEdits DEF JobStates
      <4>1. CASE Job.attempts + 1 < MaxAttempts
        <5>1. EndJob([Job EXCEPT !.attempts = Job.attempts + 1, !.state = "wait"])
          BY <3>1, <4>1 DEF Rethrow, MoreAttempts
        <5> QED BY <4>0, <4>1, <5>1
      <4>2. CASE ~(Job.attempts + 1 < MaxAttempts)
        <5>1. EndJob([Job EXCEPT !.attempts = Job.attempts + 1, !.state = "failed"])
          BY <3>1, <4>2 DEF Rethrow, MoreAttempts
        <5> QED BY <4>0, <5>1
      <4> QED BY <4>1, <4>2
    <3>2. CASE Complete
      <4>1. EndJob([Job EXCEPT !.state = "completed"])
        BY <3>2 DEF Complete
      <4> QED BY <2>1, <4>1 DEF JobStates
    <3>3. CASE CrashWorker
      <4>1. \/ EndJob([Job EXCEPT !.state = "wait", !.stalls = Job.stalls + 1])
            \/ EndJob([Job EXCEPT !.state = "failed"])
        BY <3>3 DEF CrashWorker
      <4>2. /\ [Job EXCEPT !.state = "wait", !.stalls = Job.stalls + 1].attempts = Job.attempts
            /\ [Job EXCEPT !.state = "failed"].state = "failed"
        BY <2>1 DEF JobStates
      <4> QED BY <2>1, <4>1, <4>2, JobEdits
    <3> QED BY <1>3, <3>1, <3>2, <3>3
  <2>3. /\ jobs'[worker.by][worker.src] = j
        /\ \A r1 \in Requests, s1 \in Sources :
             r1 # worker.by \/ s1 # worker.src => jobs'[r1][s1] = jobs[r1][s1]
    BY <2>2, RecordTyped, JobSet DEF EndJob
  <2> QED BY <2>2, <2>3 DEF AttemptsLeft
<1>4. CASE UNCHANGED jobs
  BY <1>4 DEF AttemptsLeft
<1> QED
  BY <1>1, <1>2, <1>3, <1>4 DEF Next, StartRequest, RequestStep, CutRequest, CreateQna, ReadQnaToUpdate,
     ReadQnaToDelete, ReadTextToUpsert, ReadTextToDelete, DeleteBySource, WriteQna, WriteText, CreateText,
     DropRow, DeleteChatbot, WorkerStep, FindSource, MarkProcessing, StoreChunk, MarkTrained, MarkFailed,
     AttemptFails, vars

LEMMA CompletesStep ==
  ASSUME TypeOK, CompletesTrained, [Next]_vars
  PROVE  CompletesTrained'
<1>1. ASSUME NEW r \in Requests, NEW s \in Sources, Pick(r, s) PROVE CompletesTrained'
  BY <1>1 DEF Pick, IdleWorker, CompletesTrained, Doing
<1>2. CASE FindSource
  BY <1>2 DEF FindSource, CompletesTrained, Doing, Goto, Live, Trained, TypeOK, WorkerStates
<1>3. CASE MarkProcessing \/ StoreChunk \/ MarkFailed \/ AttemptFails
  BY <1>3 DEF MarkProcessing, StoreChunk, MarkFailed, AttemptFails, CompletesTrained, Doing, Goto,
     TypeOK, WorkerStates
<1>4. CASE MarkTrained
  BY <1>4, RecordTyped DEF MarkTrained, SetStatus, CompletesTrained, Doing, Goto, TypeOK, WorkerStates
<1>5. CASE Rethrow \/ Complete \/ CrashWorker
  BY <1>5 DEF Rethrow, Complete, CrashWorker, EndJob, IdleWorker, CompletesTrained, Doing
<1>6. ASSUME UNCHANGED worker,
             \A s \in Sources : status'[s] = status[s] \/ status'[s] \in {"PENDING", "DELETED"}
      PROVE  CompletesTrained'
  BY <1>6, RecordTyped DEF CompletesTrained, Doing
<1>7. ASSUME NEW r \in Requests, StartRequest(r) \/ RequestStep(r) \/ CutRequest(r)
      PROVE  CompletesTrained'
  <2>1. UNCHANGED worker
    BY <1>7 DEF StartRequest, RequestStep, CutRequest, CreateQna, ReadQnaToUpdate, ReadQnaToDelete,
       ReadTextToUpsert, ReadTextToDelete, DeleteBySource, WriteQna, WriteText, CreateText, DropRow,
       Enqueue
  <2>2. CASE WriteQna(r) \/ WriteText(r) \/ CreateText(r)
    <3>1. UNCHANGED status \/ \E t \in Sources : status' = [status EXCEPT ![t] = "PENDING"]
      BY <2>2, HitTyped, RecordTyped DEF WriteQna, WriteText, CreateText, Sources
    <3> QED BY <1>6, <2>1, <3>1 DEF TypeOK
  <2>3. CASE ~(WriteQna(r) \/ WriteText(r) \/ CreateText(r))
    BY <1>6, <1>7, <2>1, <2>3 DEF StartRequest, RequestStep, CutRequest, CreateQna, ReadQnaToUpdate,
       ReadQnaToDelete, ReadTextToUpsert, ReadTextToDelete, DeleteBySource, DropRow, Enqueue
  <2> QED BY <2>2, <2>3
<1>8. CASE DeleteChatbot \/ UNCHANGED vars
  BY <1>6, <1>8 DEF DeleteChatbot, vars
<1> QED BY <1>1, <1>2, <1>3, <1>4, <1>5, <1>7, <1>8 DEF Next, WorkerStep

(* What FailedMeansExhausted says of one source.                           *)
ExhaustedOK(s) ==
  status[s] = "FAILED" /\ s \notin lost =>
    \/ Owed(s)
    \/ worker.pc # "idle" /\ worker.src = s
    \/ \E r \in Requests : jobs[r][s].state = "failed" /\ jobs[r][s].attempts = MaxAttempts

LEMMA ExhaustedStep ==
  ASSUME TypeOK, PipelineInv, AttemptsLeft, CompletesTrained, [Next]_vars,
         NEW s \in Sources, ExhaustedOK(s)
  PROVE  ExhaustedOK(s)'
<1>1. SUFFICES ASSUME status'[s] = "FAILED", s \notin lost', ~Owed(s)',
                      ~(worker'.pc # "idle" /\ worker'.src = s)
               PROVE  \E r \in Requests :
                        jobs'[r][s].state = "failed" /\ jobs'[r][s].attempts = MaxAttempts
  BY DEF ExhaustedOK
<1>2. Live(s)'
  BY <1>1 DEF Live, Trained
<1>3. ~(AboutToRead(s) /\ (FindSource \/ AttemptFails))
  BY <1>1 DEF AboutToRead, FindSource, AttemptFails, Goto, Doing, TypeOK, WorkerStates
<1>4. ~Owed(s) /\ Live(s)
  BY <1>1, <1>2, <1>3, OwedStays, BornOwed DEF PipelineInv
<1>9. s \notin lost
  <2>1. ~(FindSource /\ worker.src = s)
    BY <1>1 DEF FindSource, Goto, Doing, TypeOK, WorkerStates
  <2> QED BY <1>1, <2>1, FoundAgain
<1>5. CASE Rethrow /\ worker.src = s
  <2>1. Job \in JobStates /\ Job.attempts < MaxAttempts /\ Job.attempts \in Nat /\ worker.src \in Sources
    BY <1>5, RecordTyped DEF Rethrow, Doing, PipelineInv, ActiveJob, AttemptsLeft, Job, TypeOK, JobStates
  <2>2. \A st \in {"wait", "failed"} :
          /\ [Job EXCEPT !.attempts = Job.attempts + 1, !.state = st] \in JobStates
          /\ [Job EXCEPT !.attempts = Job.attempts + 1, !.state = st].state = st
          /\ [Job EXCEPT !.attempts = Job.attempts + 1, !.state = st].attempts = Job.attempts + 1
    BY <2>1, JobEdits DEF JobStates
  <2>3. CASE Job.attempts + 1 < MaxAttempts
    <3>1. SetJob(worker.by, s, [Job EXCEPT !.attempts = Job.attempts + 1, !.state = "wait"])
      BY <1>5, <2>3 DEF Rethrow, MoreAttempts, EndJob
    <3>2. PICK j \in JobStates : j.state = "wait" /\ SetJob(worker.by, s, j)
      BY <2>2, <3>1
    <3>3. jobs'[worker.by][s].state = "wait"
      BY <3>2, JobSet, RecordTyped
    <3> QED BY <1>1, <3>3, RecordTyped DEF Owed, JobWaits
  <2>4. CASE ~(Job.attempts + 1 < MaxAttempts)
    <3>1. SetJob(worker.by, s, [Job EXCEPT !.attempts = Job.attempts + 1, !.state = "failed"])
      BY <1>5, <2>4 DEF Rethrow, MoreAttempts, EndJob
    <3>2. /\ jobs'[worker.by][s].state = "failed"
          /\ jobs'[worker.by][s].attempts = Job.attempts + 1
      BY <2>2, <3>1, JobSet, RecordTyped, ZenonT(40)
    <3>3. Job.attempts + 1 = MaxAttempts
      BY <2>1, <2>4, LimitsAssumption
    <3> QED BY <3>2, <3>3, RecordTyped
  <2> QED BY <2>3, <2>4
<1>6. CASE Complete /\ worker.src = s
  <2>1. status[s] # "FAILED"
    BY <1>6 DEF Complete, CompletesTrained
  <2> QED BY <1>1, <1>6, <2>1 DEF Complete
<1>7. CASE CrashWorker /\ worker.src = s
  <2>1. SetJob(worker.by, s, [Job EXCEPT !.state = "wait", !.stalls = Job.stalls + 1])
    BY <1>1, <1>7 DEF CrashWorker, EndJob
  <2>2. Job \in JobStates
    BY RecordTyped DEF Job, TypeOK
  <2>3. /\ [Job EXCEPT !.state = "wait", !.stalls = Job.stalls + 1] \in JobStates
        /\ [Job EXCEPT !.state = "wait", !.stalls = Job.stalls + 1].state = "wait"
    BY <2>2, JobEdits DEF JobStates
  <2>4. PICK j \in JobStates : j.state = "wait" /\ SetJob(worker.by, s, j)
    BY <2>1, <2>3
  <2>5. jobs'[worker.by][s].state = "wait"
    BY <2>4, JobSet, RecordTyped
  <2> QED BY <1>1, <2>5, RecordTyped DEF Owed, JobWaits
<1>8. CASE ~((Rethrow \/ Complete \/ CrashWorker) /\ worker.src = s)
  <2>1. status[s] = "FAILED" /\ ~(worker.pc # "idle" /\ worker.src = s)
    <3>1. CASE WorkerStep \/ AttemptFails \/ CrashWorker
      BY <1>1, <1>8, <3>1 DEF WorkerStep, Pick, FindSource, MarkProcessing, StoreChunk, MarkTrained,
         MarkFailed, Rethrow, Complete, AttemptFails, CrashWorker, SetStatus, Goto, Doing, EndJob,
         IdleWorker, TypeOK, WorkerStates
    <3>2. ASSUME NEW r \in Requests, StartRequest(r) \/ RequestStep(r) \/ CutRequest(r)
          PROVE  status[s] = "FAILED" /\ UNCHANGED worker
      <4>1. CASE WriteQna(r) \/ WriteText(r) \/ CreateText(r)
        <5>1. UNCHANGED status \/ \E t \in Sources : status' = [status EXCEPT ![t] = "PENDING"]
          BY <4>1, HitTyped, RecordTyped DEF WriteQna, WriteText, CreateText, Sources
        <5>2. UNCHANGED worker
          BY <4>1 DEF WriteQna, WriteText, CreateText
        <5> QED BY <1>1, <5>1, <5>2 DEF TypeOK
      <4>2. CASE ~(WriteQna(r) \/ WriteText(r) \/ CreateText(r))
        BY <1>1, <3>2, <4>2 DEF StartRequest, RequestStep, CutRequest, CreateQna, ReadQnaToUpdate,
           ReadQnaToDelete, ReadTextToUpsert, ReadTextToDelete, DeleteBySource, DropRow, Enqueue
      <4> QED BY <4>1, <4>2
    <3>3. CASE DeleteChatbot \/ UNCHANGED vars
      BY <1>1, <3>3 DEF DeleteChatbot, vars
    <3> QED BY <1>1, <3>1, <3>2, <3>3 DEF Next
  <2>2. PICK r \in Requests : jobs[r][s].state = "failed" /\ jobs[r][s].attempts = MaxAttempts
    BY <1>4, <1>9, <2>1 DEF ExhaustedOK
  <2>3. jobs'[r][s] = jobs[r][s]
    <3>1. CASE WorkerStep \/ AttemptFails \/ CrashWorker
      BY <2>2, <3>1, WorkerJobs DEF PipelineInv
    <3>2. ASSUME NEW q \in Requests, NEW t \in Sources, Enqueue(q, t) PROVE jobs'[r][s] = jobs[r][s]
      <4>1. jobs[q][t].state = "none"
        BY <3>2 DEF Enqueue, PipelineInv, RequestShape
      <4> QED BY <2>2, <3>2, <4>1 DEF Enqueue, SetJob, TypeOK
    <3>3. CASE UNCHANGED jobs
      BY <3>3
    <3> QED
      BY <3>1, <3>2, <3>3 DEF Next, StartRequest, RequestStep, CutRequest, CreateQna, ReadQnaToUpdate,
         ReadQnaToDelete, ReadTextToUpsert, ReadTextToDelete, DeleteBySource, WriteQna, WriteText,
         CreateText, DropRow, DeleteChatbot, vars
  <2> QED BY <2>2, <2>3
<1> QED BY <1>5, <1>6, <1>7, <1>8

(* A source that has lost no training is given up only when a job of it    *)
(* has used up its attempts, or while another training of it is on its way *)
(* (markFailed, the rethrow).                                              *)
THEOREM NoEarlyFailure == Spec => []FailedMeansExhausted
<1> DEFINE Inv == TypeOK /\ PipelineInv /\ AttemptsLeft /\ CompletesTrained /\ FailedMeansExhausted
<1>1. Init => Inv
  <2> SUFFICES ASSUME Init PROVE Inv
    OBVIOUS
  <2>1. AttemptsLeft /\ CompletesTrained /\ FailedMeansExhausted
    BY DEF Init, AttemptsLeft, CompletesTrained, FailedMeansExhausted, NoJob, IdleWorker, Doing
  <2> QED BY <2>1, TypeInit, PipelineInit
<1>2. Inv /\ [Next]_vars => Inv'
  <2> SUFFICES ASSUME Inv, [Next]_vars PROVE Inv'
    OBVIOUS
  <2>1. TypeOK' /\ PipelineInv' /\ AttemptsLeft' /\ CompletesTrained'
    BY TypeStep, PipelineStep, AttemptsStep, CompletesStep DEF PipelineInv
  <2>2. \A s \in Sources : ExhaustedOK(s)'
    BY ExhaustedStep DEF FailedMeansExhausted, ExhaustedOK
  <2> QED BY <2>1, <2>2 DEF FailedMeansExhausted, ExhaustedOK
<1> QED BY <1>1, <1>2, PTL DEF Spec

-----------------------------------------------------------------------------
(* The rows of a chunk are counted by the runs of the jobs.                *)

(* The pairs of a request and the number of a run, when request r's job    *)
(* has run f[r] times: counting the runs is counting these pairs.          *)
Pairs(f) == UNION {{<<r, n>> : n \in 1 .. f[r]} : r \in Requests}

LEMMA PairsHave ==
  ASSUME NEW f \in [Requests -> Nat], NEW r \in Requests, NEW n \in Nat
  PROVE  <<r, n>> \in Pairs(f) <=> n \in 1 .. f[r]
BY DEF Pairs

LEMMA PairsFinite ==
  ASSUME IsFiniteSet(Requests), NEW f \in [Requests -> Nat]
  PROVE  IsFiniteSet(Pairs(f))
<1> DEFINE Of(r) == {<<r, n>> : n \in 1 .. f[r]}
           All == {Of(r) : r \in Requests}
<1>1. ASSUME NEW r \in Requests PROVE IsFiniteSet(Of(r))
  <2> DEFINE h == [n \in 1 .. f[r] |-> <<r, n>>]
  <2>1. h \in Surjection(1 .. f[r], Of(r))
    BY DEF Surjection
  <2>2. IsFiniteSet(1 .. f[r])
    <3>1. 1 \in Int /\ f[r] \in Int
      OBVIOUS
    <3> QED BY <3>1, FS_Interval
  <2> HIDE DEF h, Of
  <2> QED BY <2>1, <2>2, FS_Surjection
<1>2. IsFiniteSet(All)
  <2> DEFINE h == [r \in Requests |-> Of(r)]
  <2>1. h \in Surjection(Requests, All)
    <3> HIDE DEF Of
    <3> QED BY DEF Surjection
  <2> HIDE DEF h, All
  <2> QED BY <2>1, FS_Surjection
<1>3. \A T \in All : IsFiniteSet(T)
  <2> HIDE DEF Of
  <2> QED BY <1>1
<1>4. Pairs(f) = UNION All
  BY DEF Pairs
<1> HIDE DEF All
<1> QED BY <1>2, <1>3, <1>4, FS_UNION

(* No fewer runs make no fewer pairs, and one more makes one more.         *)
LEMMA PairsGrow ==
  ASSUME IsFiniteSet(Requests), NEW f \in [Requests -> Nat], NEW g \in [Requests -> Nat],
         \A r \in Requests : f[r] <= g[r]
  PROVE  /\ Cardinality(Pairs(f)) \in Nat /\ Cardinality(Pairs(g)) \in Nat
         /\ Cardinality(Pairs(f)) <= Cardinality(Pairs(g))
         /\ (\E r \in Requests : f[r] < g[r]) => Cardinality(Pairs(f)) + 1 <= Cardinality(Pairs(g))
<1>1. IsFiniteSet(Pairs(f)) /\ IsFiniteSet(Pairs(g))
  BY PairsFinite
<1>2. Pairs(f) \subseteq Pairs(g)
  <2> SUFFICES ASSUME NEW r \in Requests, NEW n \in 1 .. f[r] PROVE <<r, n>> \in Pairs(g)
    BY DEF Pairs
  <2>1. n \in Nat /\ n \in 1 .. g[r]
    OBVIOUS
  <2> QED BY <2>1, PairsHave
<1>3. Cardinality(Pairs(f)) \in Nat /\ Cardinality(Pairs(g)) \in Nat
  BY <1>1, FS_CardinalityType
<1>4. Cardinality(Pairs(f)) <= Cardinality(Pairs(g))
  BY <1>1, <1>2, FS_Subset
<1>5. ASSUME NEW r \in Requests, f[r] < g[r]
      PROVE  Cardinality(Pairs(f)) + 1 <= Cardinality(Pairs(g))
  <2>1. g[r] \in Nat /\ g[r] \in 1 .. g[r] /\ g[r] \notin 1 .. f[r]
    BY <1>5
  <2>2. <<r, g[r]>> \in Pairs(g) /\ <<r, g[r]>> \notin Pairs(f)
    BY <2>1, PairsHave
  <2>3. Cardinality(Pairs(f)) # Cardinality(Pairs(g))
    BY <1>1, <1>2, <2>2, FS_Subset
  <2> QED BY <1>3, <1>4, <2>3
<1> QED BY <1>3, <1>4, <1>5

(* The run that the worker is at, when it has yet to come to chunk k of c. *)
Yet(r, s, c, k) ==
  /\ worker.by = r /\ worker.src = s
  /\ \/ worker.pc = "find"
     \/ worker.pc \in {"mark", "store"} /\ worker.content = c /\ worker.stored < k
Passed(s, c, k) ==
  [r \in Requests |-> IF Yet(r, s, c, k) THEN Runs(jobs[r][s]) - 1 ELSE Runs(jobs[r][s])]

(* A chunk has at most a row for each run that has come past it; and a job *)
(* that is not on the queue has never run.                                 *)
CopiesOK(s, c, k) == emb[s][c][k] <= Cardinality(Pairs(Passed(s, c, k)))
CopiesInv == \A s \in Sources, c \in Contents, k \in 1 .. MaxChunks : CopiesOK(s, c, k)
NewJobs ==
  \A r \in Requests, s \in Sources :
    jobs[r][s].state = "none" => jobs[r][s].attempts = 0 /\ jobs[r][s].stalls = 0

LEMMA RunsTyped ==
  ASSUME NEW j \in JobStates
  PROVE  Runs(j) \in Nat /\ (j.state = "active" => Runs(j) = j.attempts + j.stalls + 1)
BY LimitsAssumption DEF Runs, JobStates

LEMMA PassedTyped ==
  TypeOK /\ ActiveJob =>
    \A s \in Sources, c \in Contents, k \in 1 .. MaxChunks :
      /\ Passed(s, c, k) \in [Requests -> Nat]
      /\ \A r \in Requests : Passed(s, c, k)[r] <= Runs(jobs[r][s])
<1> SUFFICES ASSUME TypeOK, ActiveJob,
                    NEW s \in Sources, NEW c \in Contents, NEW k \in 1 .. MaxChunks
             PROVE  /\ Passed(s, c, k) \in [Requests -> Nat]
                    /\ \A r \in Requests : Passed(s, c, k)[r] <= Runs(jobs[r][s])
  OBVIOUS
<1>1. ASSUME NEW r \in Requests
      PROVE  Passed(s, c, k)[r] \in Nat /\ Passed(s, c, k)[r] <= Runs(jobs[r][s])
  <2>1. jobs[r][s] \in JobStates
    BY DEF TypeOK
  <2>2. Runs(jobs[r][s]) \in Nat
    BY <2>1, RunsTyped
  <2>3. CASE Yet(r, s, c, k)
    <3>1. jobs[r][s].state = "active"
      BY <2>3 DEF Yet, ActiveJob, Job
    <3>2. jobs[r][s].attempts \in Nat /\ jobs[r][s].stalls \in Nat
      BY <2>1 DEF JobStates
    <3>3. Runs(jobs[r][s]) > 0
      BY <2>1, <3>1, <3>2, RunsTyped
    <3> QED BY <2>2, <2>3, <3>3 DEF Passed
  <2>4. CASE ~Yet(r, s, c, k)
    BY <2>2, <2>4 DEF Passed
  <2> QED BY <2>3, <2>4
<1>2. Passed(s, c, k) = [r \in Requests |-> Passed(s, c, k)[r]]
  BY DEF Passed
<1> QED BY <1>1, <1>2

LEMMA PassedTypedNext ==
  TypeOK' /\ ActiveJob' =>
    \A s \in Sources, c \in Contents, k \in 1 .. MaxChunks :
      Passed(s, c, k)' \in [Requests -> Nat]
<1>1. (TypeOK /\ ActiveJob)' =>
        (\A s \in Sources, c \in Contents, k \in 1 .. MaxChunks :
           /\ Passed(s, c, k) \in [Requests -> Nat]
           /\ \A r \in Requests : Passed(s, c, k)[r] <= Runs(jobs[r][s]))'
  BY PassedTyped, PTL
<1> QED BY <1>1

(* A step that takes back no run keeps the count, if it adds no row or adds *)
(* one with a run that has come past the chunk.                            *)
LEMMA CountKept ==
  ASSUME IsFiniteSet(Requests), TypeOK, TypeOK', ActiveJob, ActiveJob',
         NEW s \in Sources, NEW c \in Contents, NEW k \in 1 .. MaxChunks, CopiesOK(s, c, k),
         \A r \in Requests : Passed(s, c, k)[r] <= Passed(s, c, k)'[r],
         \/ emb'[s][c][k] <= emb[s][c][k]
         \/ /\ emb'[s][c][k] = emb[s][c][k] + 1
            /\ \E r \in Requests : Passed(s, c, k)[r] < Passed(s, c, k)'[r]
  PROVE  CopiesOK(s, c, k)'
<1> DEFINE f == Passed(s, c, k)
           g == Passed(s, c, k)'
<1>1. f \in [Requests -> Nat]
  BY PassedTyped
<1>2. g \in [Requests -> Nat]
  BY PassedTypedNext
<1>3. emb[s][c][k] \in Nat /\ emb'[s][c][k] \in Nat
  <2>1. emb[s] \in Rows /\ emb'[s] \in Rows
    BY DEF TypeOK
  <2>2. emb[s][c] \in [1 .. MaxChunks -> Nat] /\ emb'[s][c] \in [1 .. MaxChunks -> Nat]
    BY <2>1 DEF Rows
  <2> QED BY <2>2
<1>4. emb[s][c][k] <= Cardinality(Pairs(f))
  BY DEF CopiesOK
<1>5. CopiesOK(s, c, k)' <=> emb'[s][c][k] <= Cardinality(Pairs(g))
  BY DEF CopiesOK, Pairs
<1> HIDE DEF f, g
<1>6. \A r \in Requests : f[r] <= g[r]
  BY DEF f, g
<1>7. /\ Cardinality(Pairs(f)) \in Nat /\ Cardinality(Pairs(g)) \in Nat
      /\ Cardinality(Pairs(f)) <= Cardinality(Pairs(g))
      /\ (\E r \in Requests : f[r] < g[r]) => Cardinality(Pairs(f)) + 1 <= Cardinality(Pairs(g))
  BY <1>1, <1>2, <1>6, PairsGrow
<1>8. \/ emb'[s][c][k] <= emb[s][c][k]
      \/ emb'[s][c][k] = emb[s][c][k] + 1 /\ \E r \in Requests : f[r] < g[r]
  BY DEF f, g
<1> QED BY <1>3, <1>4, <1>5, <1>7, <1>8

(* What a step does to the runs of the jobs and to what the worker has yet *)
(* to store says what it does to the count.                                *)
LEMMA PassedIs ==
  ASSUME NEW s, NEW c, NEW k, NEW r \in Requests
  PROVE  /\ Passed(s, c, k)[r] =
              IF Yet(r, s, c, k) THEN Runs(jobs[r][s]) - 1 ELSE Runs(jobs[r][s])
         /\ Passed(s, c, k)'[r] =
              IF Yet(r, s, c, k)' THEN Runs(jobs'[r][s]) - 1 ELSE Runs(jobs'[r][s])
BY DEF Passed, Runs

LEMMA RunsOfTyped ==
  ASSUME TypeOK, TypeOK', NEW r \in Requests, NEW s \in Sources
  PROVE  Runs(jobs[r][s]) \in Nat /\ Runs(jobs'[r][s]) \in Nat
<1>1. jobs[r][s] \in JobStates /\ jobs'[r][s] \in JobStates
  BY DEF TypeOK
<1> QED BY <1>1, RunsTyped

LEMMA StoreCounts ==
  ASSUME IsFiniteSet(Requests), TypeOK, TypeOK', ActiveJob, ActiveJob', StoreChunk,
         NEW s \in Sources, NEW c \in Contents, NEW k \in 1 .. MaxChunks, CopiesOK(s, c, k)
  PROVE  CopiesOK(s, c, k)'
<1>1. /\ worker.src \in Sources /\ worker.by \in Requests /\ worker.content \in Contents
      /\ worker.stored \in Nat /\ worker.stored + 1 \in 1 .. MaxChunks /\ worker.pc = "store"
      /\ UNCHANGED jobs
  BY RecordTyped, ChunksAssumption DEF StoreChunk, Doing
<1>2. emb[s][c][k] \in Nat
  <2>1. emb[s] \in Rows
    BY DEF TypeOK
  <2>2. emb[s][c] \in [1 .. MaxChunks -> Nat]
    BY <2>1 DEF Rows
  <2> QED BY <2>2
<1>3. \A r \in Requests : Runs(jobs[r][s]) \in Nat
  BY RunsOfTyped
<1>4. CASE ~bot
  <2>1. UNCHANGED emb /\ worker'.pc = "markFailed"
    BY <1>4 DEF StoreChunk, Goto, TypeOK, WorkerStates
  <2>2. \A r \in Requests : Passed(s, c, k)[r] <= Passed(s, c, k)'[r]
    BY <1>1, <1>3, <2>1, PassedIs DEF Yet
  <2> QED BY <1>2, <2>1, <2>2, CountKept
<1>5. CASE bot
  <2>1. /\ worker'.pc = "store" /\ worker'.stored = worker.stored + 1 /\ worker'.by = worker.by
        /\ worker'.src = worker.src /\ worker'.content = worker.content
    BY <1>1, <1>5 DEF StoreChunk, TypeOK, WorkerStates
  <2>2. \A r \in Requests : Yet(r, s, c, k)' => Yet(r, s, c, k)
    BY <1>1, <2>1 DEF Yet
  <2>3. \A r \in Requests : Passed(s, c, k)[r] <= Passed(s, c, k)'[r]
    BY <1>1, <1>3, <2>2, PassedIs
  <2>4. emb' = InsertRow(emb, worker.src, worker.content, worker.stored + 1)
    BY <1>5 DEF StoreChunk
  <2>5. emb \in [Sources -> Rows]
    BY DEF TypeOK
  <2>6. CASE s = worker.src /\ c = worker.content /\ k = worker.stored + 1
    <3>1. emb'[s][c][k] = emb[s][c][k] + 1
      BY <1>1, <2>4, <2>5, <2>6, OneMoreRow
    <3>2. PICK r \in Requests : r = worker.by
      BY <1>1
    <3>3. Yet(r, s, c, k) /\ ~Yet(r, s, c, k)'
      BY <1>1, <2>1, <2>6, <3>2 DEF Yet
    <3>4. Passed(s, c, k)[r] < Passed(s, c, k)'[r]
      BY <1>1, <1>3, <3>3, PassedIs
    <3> QED BY <2>3, <3>1, <3>4, CountKept
  <2>7. CASE ~(s = worker.src /\ c = worker.content /\ k = worker.stored + 1)
    <3>1. emb'[s][c][k] = emb[s][c][k]
      BY <1>1, <2>4, <2>5, <2>7, OneMoreRow
    <3> QED BY <1>2, <2>3, <3>1, CountKept
  <2> QED BY <2>6, <2>7
<1> QED BY <1>4, <1>5

(* A job that the worker lets go has run as often as while it had it.      *)
LEMMA EndCounts ==
  ASSUME IsFiniteSet(Requests), TypeOK, TypeOK', ActiveJob, ActiveJob', AttemptsLeft,
         Rethrow \/ Complete \/ CrashWorker,
         NEW s \in Sources, NEW c \in Contents, NEW k \in 1 .. MaxChunks, CopiesOK(s, c, k)
  PROVE  CopiesOK(s, c, k)'
<1>1. /\ worker.pc # "idle" /\ Job \in JobStates /\ Job.state = "active"
      /\ Job.attempts < MaxAttempts /\ Job.attempts \in Nat /\ Job.stalls \in Nat
      /\ worker.src \in Sources /\ worker.by \in Requests /\ UNCHANGED emb
  BY RecordTyped DEF Rethrow, Complete, CrashWorker, Doing, ActiveJob, AttemptsLeft, Job, TypeOK,
     JobStates
<1>2. PICK j \in JobStates : EndJob(j) /\ Runs(j) = Runs(Job)
  <2>1. CASE Rethrow
    <3>0. \A st \in {"wait", "failed"} :
            /\ [Job EXCEPT !.attempts = Job.attempts + 1, !.state = st] \in JobStates
            /\ [Job EXCEPT !.attempts = Job.attempts + 1, !.state = st].state = st
            /\ [Job EXCEPT !.attempts = Job.attempts + 1, !.state = st].attempts = Job.attempts + 1
            /\ [Job EXCEPT !.attempts = Job.attempts + 1, !.state = st].stalls = Job.stalls
      BY <1>1, JobEdits DEF JobStates
    <3>1. CASE Job.attempts + 1 < MaxAttempts
      <4>1. EndJob([Job EXCEPT !.attempts = Job.attempts + 1, !.state = "wait"])
        BY <2>1, <3>1 DEF Rethrow, MoreAttempts
      <4>2. Runs([Job EXCEPT !.attempts = Job.attempts + 1, !.state = "wait"]) = Runs(Job)
        BY <1>1, <3>0 DEF Runs
      <4> QED BY <3>0, <4>1, <4>2
    <3>2. CASE ~(Job.attempts + 1 < MaxAttempts)
      <4>1. EndJob([Job EXCEPT !.attempts = Job.attempts + 1, !.state = "failed"])
        BY <2>1, <3>2 DEF Rethrow, MoreAttempts
      <4>2. Runs([Job EXCEPT !.attempts = Job.attempts + 1, !.state = "failed"]) = Runs(Job)
        BY <1>1, <3>0, <3>2 DEF Runs
      <4> QED BY <3>0, <4>1, <4>2
    <3> QED BY <3>1, <3>2
  <2>2. CASE Complete
    <3>1. EndJob([Job EXCEPT !.state = "completed"])
      BY <2>2 DEF Complete
    <3>2. /\ [Job EXCEPT !.state = "completed"] \in JobStates
          /\ Runs([Job EXCEPT !.state = "completed"]) = Runs(Job)
      BY <1>1 DEF JobStates, Runs
    <3> QED BY <3>1, <3>2
  <2>3. CASE CrashWorker
    <3>1. \/ EndJob([Job EXCEPT !.state = "wait", !.stalls = Job.stalls + 1])
          \/ EndJob([Job EXCEPT !.state = "failed"])
      BY <2>3 DEF CrashWorker
    <3>2. /\ [Job EXCEPT !.state = "wait", !.stalls = Job.stalls + 1] \in JobStates
          /\ Runs([Job EXCEPT !.state = "wait", !.stalls = Job.stalls + 1]) = Runs(Job)
      <4> DEFINE j == [Job EXCEPT !.state = "wait", !.stalls = Job.stalls + 1]
      <4>1. j \in JobStates
        BY <1>1, JobEdits
      <4>2. j.state = "wait" /\ j.stalls = Job.stalls + 1 /\ j.attempts = Job.attempts
        BY <1>1 DEF JobStates
      <4>3. Runs(j) = Runs(Job)
        <5> HIDE DEF j
        <5> QED BY <1>1, <4>2 DEF Runs
      <4> QED BY <4>1, <4>3
    <3>3. /\ [Job EXCEPT !.state = "failed"] \in JobStates
          /\ Runs([Job EXCEPT !.state = "failed"]) = Runs(Job)
      BY <1>1 DEF JobStates, Runs
    <3> QED BY <3>1, <3>2, <3>3
  <2> QED BY <2>1, <2>2, <2>3
<1>3. /\ jobs'[worker.by][worker.src] = j /\ worker' = IdleWorker
      /\ \A r \in Requests : r # worker.by \/ s # worker.src => jobs'[r][s] = jobs[r][s]
  BY <1>1, <1>2, JobSet DEF EndJob
<1>4. \A r \in Requests : Runs(jobs'[r][s]) = Runs(jobs[r][s])
  BY <1>2, <1>3 DEF Job
<1>5. \A r \in Requests : ~Yet(r, s, c, k)'
  BY <1>3 DEF Yet, IdleWorker
<1>6. \A r \in Requests : Passed(s, c, k)[r] <= Passed(s, c, k)'[r]
  BY <1>4, <1>5, PassedIs, RunsOfTyped
<1>7. emb[s][c][k] \in Nat
  <2>1. emb[s] \in Rows
    BY DEF TypeOK
  <2>2. emb[s][c] \in [1 .. MaxChunks -> Nat]
    BY <2>1 DEF Rows
  <2> QED BY <2>2
<1> QED BY <1>1, <1>6, <1>7, CountKept

LEMMA CopiesStep ==
  ASSUME IsFiniteSet(Requests), TypeOK, TypeOK', ActiveJob, ActiveJob', AttemptsLeft, NewJobs,
         RequestShape, CopiesInv, [Next]_vars
  PROVE  CopiesInv'
<1> SUFFICES ASSUME NEW s \in Sources, NEW c \in Contents, NEW k \in 1 .. MaxChunks
             PROVE  CopiesOK(s, c, k)'
  BY DEF CopiesInv
<1>0. CopiesOK(s, c, k)
  BY DEF CopiesInv
<1>a. /\ emb[s][c][k] \in Nat /\ emb' \in [Sources -> Rows]
      /\ \A t \in Sources : emb[t][c][k] \in Nat
  <2>1. ASSUME NEW t \in Sources PROVE emb[t][c][k] \in Nat
    <3>1. emb[t] \in Rows
      BY DEF TypeOK
    <3>2. emb[t][c] \in [1 .. MaxChunks -> Nat]
      BY <3>1 DEF Rows
    <3> QED BY <3>2
  <2> QED BY <2>1 DEF TypeOK
<1>b. \A r \in Requests : Runs(jobs[r][s]) \in Nat /\ Runs(jobs'[r][s]) \in Nat
  BY RunsOfTyped
<1>c. NoRows[c][k] = 0
  BY DEF NoRows
<1>1. CASE UNCHANGED <<jobs, worker>> /\ emb'[s][c][k] <= emb[s][c][k]
  <2>1. \A r \in Requests : Passed(s, c, k)[r] <= Passed(s, c, k)'[r]
    BY <1>b, <1>1, PassedIs DEF Yet
  <2> QED BY <1>0, <1>1, <2>1, CountKept
<1>2. ASSUME NEW r0 \in Requests, NEW s0 \in Sources, Enqueue(r0, s0)
      PROVE  CopiesOK(s, c, k)'
  <2>1. jobs[r0][s0].state = "none" /\ UNCHANGED <<emb, worker>>
    BY <1>2 DEF Enqueue, RequestShape
  <2>2. [NoJob EXCEPT !.state = "wait"] \in JobStates
    BY DEF NoJob, JobStates
  <2>3. /\ jobs'[r0][s0] = [NoJob EXCEPT !.state = "wait"]
        /\ \A r \in Requests : r # r0 \/ s # s0 => jobs'[r][s] = jobs[r][s]
    BY <1>2, <2>2, JobSet DEF Enqueue
  <2>4. Runs(jobs'[r0][s0]) = 0 /\ Runs(jobs[r0][s0]) = 0
    BY <2>1, <2>3 DEF Runs, NoJob, NewJobs
  <2>5. \A r \in Requests : Runs(jobs'[r][s]) = Runs(jobs[r][s])
    BY <2>3, <2>4
  <2>6. \A r \in Requests : Passed(s, c, k)[r] <= Passed(s, c, k)'[r]
    BY <1>b, <2>1, <2>5, PassedIs DEF Yet
  <2> QED BY <1>0, <1>a, <2>1, <2>6, CountKept
<1>3. ASSUME NEW r0 \in Requests, NEW s0 \in Sources, Pick(r0, s0)
      PROVE  CopiesOK(s, c, k)'
  <2>1. jobs[r0][s0] \in JobStates
    BY DEF TypeOK
  <2>2. /\ [jobs[r0][s0] EXCEPT !.state = "active"] \in JobStates
        /\ Runs([jobs[r0][s0] EXCEPT !.state = "active"]) = Runs(jobs[r0][s0]) + 1
    <3>1. jobs[r0][s0].state = "wait"
      BY <1>3 DEF Pick
    <3> QED BY <2>1, <3>1 DEF JobStates, Runs
  <2>3. /\ jobs'[r0][s0] = [jobs[r0][s0] EXCEPT !.state = "active"]
        /\ \A r \in Requests : r # r0 \/ s # s0 => jobs'[r][s] = jobs[r][s]
    BY <1>3, <2>2, JobSet DEF Pick
  <2>4. worker.pc = "idle" /\ worker'.by = r0 /\ worker'.src = s0 /\ UNCHANGED emb
    BY <1>3 DEF Pick, Doing, IdleWorker
  <2>5. \A r \in Requests : ~Yet(r, s, c, k) /\ (Yet(r, s, c, k)' => r = r0 /\ s = s0)
    BY <2>4 DEF Yet
  <2>6. ASSUME NEW r \in Requests PROVE Passed(s, c, k)[r] <= Passed(s, c, k)'[r]
    <3>1. CASE r = r0 /\ s = s0
      BY <1>b, <2>2, <2>3, <2>5, <3>1, PassedIs
    <3>2. CASE ~(r = r0 /\ s = s0)
      BY <1>b, <2>3, <2>5, <3>2, PassedIs
    <3> QED BY <3>1, <3>2
  <2> QED BY <1>0, <1>a, <2>4, <2>6, CountKept
<1>4. CASE FindSource \/ MarkProcessing \/ MarkTrained \/ MarkFailed \/ AttemptFails
  <2>1. UNCHANGED <<emb, jobs>>
    BY <1>4 DEF FindSource, MarkProcessing, MarkTrained, MarkFailed, AttemptFails
  <2>2. \A r \in Requests : Yet(r, s, c, k)' => Yet(r, s, c, k)
    BY <1>4 DEF FindSource, MarkProcessing, MarkTrained, MarkFailed, AttemptFails, Goto, Doing,
       Yet, TypeOK, WorkerStates
  <2>3. \A r \in Requests : Passed(s, c, k)[r] <= Passed(s, c, k)'[r]
    BY <1>b, <2>1, <2>2, PassedIs
  <2> QED BY <1>0, <1>a, <2>1, <2>3, CountKept
<1>5. CASE StoreChunk
  BY <1>0, <1>5, StoreCounts
<1>6. CASE Rethrow \/ Complete \/ CrashWorker
  BY <1>0, <1>6, EndCounts
<1>7. ASSUME NEW r \in Requests,
             StartRequest(r) \/ CutRequest(r) \/ (RequestStep(r) /\ \A t \in Sources : ~Enqueue(r, t))
      PROVE  UNCHANGED <<jobs, worker>> /\ emb'[s][c][k] <= emb[s][c][k]
  <2>1. CASE DeleteBySource(r)
    BY <1>a, <1>c, <2>1, RecordTyped DEF DeleteBySource, TypeOK
  <2>2. CASE ~DeleteBySource(r)
    <3>1. UNCHANGED <<emb, jobs, worker>>
      BY <1>7, <2>2 DEF StartRequest, CutRequest, CreateQna, ReadQnaToUpdate, ReadQnaToDelete,
         ReadTextToUpsert, ReadTextToDelete, RequestStep, WriteQna, WriteText, CreateText, DropRow
    <3> QED BY <1>a, <3>1
  <2> QED BY <2>1, <2>2
<1>8. DeleteChatbot \/ UNCHANGED vars => UNCHANGED <<jobs, worker>> /\ emb'[s][c][k] <= emb[s][c][k]
  BY <1>a, <1>c DEF DeleteChatbot, vars
<1> QED BY <1>1, <1>2, <1>3, <1>4, <1>5, <1>6, <1>7, <1>8 DEF Next, WorkerStep, RequestStep
LEMMA NewJobsStep ==
  ASSUME TypeOK, ActiveJob, NewJobs, [Next]_vars
  PROVE  NewJobs'
<1>1. ASSUME NEW r0 \in Requests, NEW s0 \in Sources, Enqueue(r0, s0) PROVE NewJobs'
  <2>1. [NoJob EXCEPT !.state = "wait"] \in JobStates
    BY DEF NoJob, JobStates
  <2>2. /\ jobs'[r0][s0].state = "wait"
        /\ \A r \in Requests, s \in Sources : r # r0 \/ s # s0 => jobs'[r][s] = jobs[r][s]
    BY <1>1, <2>1, JobSet DEF Enqueue, NoJob
  <2> QED BY <2>2 DEF NewJobs
<1>2. CASE WorkerStep \/ AttemptFails \/ CrashWorker
  <2>1. ASSUME NEW r \in Requests, NEW s \in Sources, jobs'[r][s].state = "none"
        PROVE  jobs'[r][s] = jobs[r][s]
    <3>1. ASSUME NEW r0 \in Requests, NEW s0 \in Sources, Pick(r0, s0) PROVE jobs'[r][s] = jobs[r][s]
      <4>1. jobs[r0][s0] \in JobStates
        BY DEF TypeOK
      <4>2. /\ [jobs[r0][s0] EXCEPT !.state = "active"] \in JobStates
            /\ [jobs[r0][s0] EXCEPT !.state = "active"].state = "active"
        BY <4>1 DEF JobStates
      <4>3. /\ jobs'[r0][s0] = [jobs[r0][s0] EXCEPT !.state = "active"]
            /\ \A r1 \in Requests, s1 \in Sources : r1 # r0 \/ s1 # s0 => jobs'[r1][s1] = jobs[r1][s1]
        BY <3>1, <4>2, JobSet DEF Pick
      <4> QED BY <2>1, <4>2, <4>3
    <3>2. ASSUME NEW j \in JobStates, j.state # "none", EndJob(j) PROVE jobs'[r][s] = jobs[r][s]
      BY <2>1, <3>2, RecordTyped, JobSet DEF EndJob
    <3>3. CASE Rethrow \/ Complete \/ CrashWorker
      <4>1. Job \in JobStates
        BY RecordTyped DEF Job, TypeOK
      <4>2. PICK j \in JobStates : j.state # "none" /\ EndJob(j)
        <5>1. Job.stalls \in Nat /\ Job.attempts \in Nat
          BY <4>1 DEF JobStates
        <5>2. \A st \in {"wait", "failed"} :
                /\ [Job EXCEPT !.attempts = Job.attempts + 1, !.state = st] \in JobStates
                /\ [Job EXCEPT !.attempts = Job.attempts + 1, !.state = st].state = st
          BY <4>1, JobEdits DEF JobStates
        <5>3. /\ [Job EXCEPT !.state = "completed"] \in JobStates
              /\ [Job EXCEPT !.state = "completed"].state = "completed"
              /\ [Job EXCEPT !.state = "failed"] \in JobStates
              /\ [Job EXCEPT !.state = "failed"].state = "failed"
          BY <4>1 DEF JobStates
        <5>4. /\ [Job EXCEPT !.state = "wait", !.stalls = Job.stalls + 1] \in JobStates
              /\ [Job EXCEPT !.state = "wait", !.stalls = Job.stalls + 1].state = "wait"
          BY <4>1, JobEdits DEF JobStates
        <5>5. CASE Rethrow
          BY <5>2, <5>5 DEF Rethrow
        <5>6. CASE Complete
          BY <5>3, <5>6 DEF Complete
        <5>7. CASE CrashWorker
          BY <5>3, <5>4, <5>7 DEF CrashWorker
        <5> QED BY <3>3, <5>5, <5>6, <5>7
      <4> QED BY <3>2, <4>2
    <3> QED BY <1>2, <3>1, <3>3 DEF WorkerStep, FindSource, MarkProcessing, StoreChunk, MarkTrained,
               MarkFailed, AttemptFails
  <2> QED BY <2>1 DEF NewJobs
<1>3. CASE UNCHANGED jobs
  BY <1>3 DEF NewJobs
<1>4. ASSUME NEW r \in Requests,
             StartRequest(r) \/ CutRequest(r) \/ (RequestStep(r) /\ \A t \in Sources : ~Enqueue(r, t))
      PROVE  UNCHANGED jobs
  BY <1>4 DEF StartRequest, CutRequest, CreateQna, ReadQnaToUpdate, ReadQnaToDelete,
     ReadTextToUpsert, ReadTextToDelete, RequestStep, DeleteBySource, WriteQna, WriteText, CreateText,
     DropRow
<1>5. DeleteChatbot \/ UNCHANGED vars => UNCHANGED jobs
  BY DEF DeleteChatbot, vars
<1> QED BY <1>1, <1>2, <1>3, <1>4, <1>5 DEF Next, RequestStep

LEMMA CopiesImply ==
  ASSUME IsFiniteSet(Requests), TypeOK, ActiveJob, CopiesInv
  PROVE  CopiesBounded
<1> SUFFICES ASSUME NEW s \in Sources, NEW c \in Contents, NEW k \in 1 .. MaxChunks
             PROVE  emb[s][c][k] <= Cardinality(RunsOf(s))
  BY DEF CopiesBounded
<1> DEFINE g == [r \in Requests |-> Runs(jobs[r][s])]
<1>1. g \in [Requests -> Nat]
  <2>1. \A r \in Requests : jobs[r][s] \in JobStates
    BY DEF TypeOK
  <2> QED BY <2>1, RunsTyped
<1>2. RunsOf(s) = Pairs(g)
  BY DEF RunsOf, Pairs
<1>3. Passed(s, c, k) \in [Requests -> Nat] /\ \A r \in Requests : Passed(s, c, k)[r] <= g[r]
  BY PassedTyped
<1> HIDE DEF g
<1>4. /\ Cardinality(Pairs(Passed(s, c, k))) \in Nat /\ Cardinality(Pairs(g)) \in Nat
      /\ Cardinality(Pairs(Passed(s, c, k))) <= Cardinality(Pairs(g))
  BY <1>1, <1>3, PairsGrow
<1>5. emb[s][c][k] \in Nat
  <2>1. emb[s] \in Rows
    BY DEF TypeOK
  <2>2. emb[s][c] \in [1 .. MaxChunks -> Nat]
    BY <2>1 DEF Rows
  <2> QED BY <2>2
<1> QED BY <1>2, <1>4, <1>5 DEF CopiesInv, CopiesOK

(* Under every fault, a chunk has at most one row for each run of a job on *)
(* its source: an attempt repeats none of its own (storeEmbeddings).       *)
THEOREM CopiesCounted ==
  ASSUME IsFiniteSet(Requests)
  PROVE  Spec => []CopiesBounded
<1> DEFINE Inv == TypeOK /\ RequestShape /\ ActiveJob /\ AttemptsLeft /\ NewJobs /\ CopiesInv
<1>1. Init => Inv
  <2> SUFFICES ASSUME Init PROVE Inv
    OBVIOUS
  <2>1. TypeOK /\ RequestShape /\ ActiveJob
    BY TypeInit, PipelineInit DEF PipelineInv
  <2>2. AttemptsLeft /\ NewJobs
    BY DEF Init, AttemptsLeft, NewJobs, NoJob
  <2>3. ASSUME NEW s \in Sources, NEW c \in Contents, NEW k \in 1 .. MaxChunks
        PROVE  CopiesOK(s, c, k)
    <3>1. emb[s][c][k] = 0
      BY DEF Init, NoRows
    <3>2. Passed(s, c, k) \in [Requests -> Nat]
      BY <2>1, PassedTyped
    <3>3. Cardinality(Pairs(Passed(s, c, k))) \in Nat
      BY <3>2, PairsGrow
    <3> QED BY <3>1, <3>3 DEF CopiesOK
  <2> QED BY <2>1, <2>2, <2>3 DEF CopiesInv
<1>2. Inv /\ [Next]_vars => Inv'
  <2> SUFFICES ASSUME Inv, [Next]_vars PROVE Inv'
    OBVIOUS
  <2>1. TypeOK' /\ RequestShape' /\ ActiveJob'
    BY TypeStep, RequestShapeStep, ActiveJobStep
  <2>2. AttemptsLeft' /\ NewJobs'
    BY AttemptsStep, NewJobsStep
  <2>3. CopiesInv'
    BY <2>1, CopiesStep
  <2> QED BY <2>1, <2>2, <2>3
<1>3. Inv => CopiesBounded
  BY CopiesImply
<1> HIDE DEF Inv
<1> QED BY <1>1, <1>2, <1>3, PTL DEF Spec

-----------------------------------------------------------------------------
(* The pipeline implements SourceLife.                                     *)

(* The stage of a source, told from its status, what is under way and what *)
(* was lost: no source is forgotten, because one that nothing moves on and *)
(* that lost nothing is FAILED or TRAINED.                                 *)
StageIs(s) ==
  /\ status[s] \in {"ABSENT", "DELETED"} \/ Live(s)
  /\ status[s] = "ABSENT" => ~Live(s) /\ Stage(s) = "absent"
  /\ status[s] = "DELETED" => ~Live(s) /\ Stage(s) = "deleted"
  /\ Live(s) /\ Underway(s) => Stage(s) = "waiting"
  /\ Live(s) /\ ~Underway(s) /\ s \in lost => Stage(s) = "lost"
  /\ Live(s) /\ ~Underway(s) /\ s \notin lost /\ status[s] = "FAILED" => Stage(s) = "failed"
  /\ Live(s) /\ ~Underway(s) /\ s \notin lost /\ status[s] # "FAILED" => Stage(s) = "ready"

LEMMA StageTold == TypeOK /\ PipelineInv => \A s \in Sources : StageIs(s)
<1> SUFFICES ASSUME TypeOK, PipelineInv, NEW s \in Sources PROVE StageIs(s)
  OBVIOUS
<1>1. status[s] \in {"ABSENT", "DELETED"} \/ Live(s)
  BY DEF TypeOK, Statuses, Live
<1>2. CASE status[s] = "ABSENT"
  BY <1>2 DEF StageIs, Stage, Live, Trained
<1>3. CASE status[s] = "DELETED"
  BY <1>3 DEF StageIs, Stage, Live, Trained
<1>4. CASE Live(s)
  <2>1. status[s] # "ABSENT" /\ status[s] # "DELETED"
    BY <1>4 DEF Live, Trained
  <2>2. Stage(s) = IF Underway(s) THEN "waiting" ELSE IF s \in lost THEN "lost" ELSE Settled(s)
    BY <1>4, <2>1 DEF Stage
  <2>3. ~Underway(s) /\ s \notin lost =>
          status[s] = "FAILED" \/ (status[s] = "TRAINED" /\ FullyEmbedded(s))
    BY <1>4 DEF PipelineInv, SourcesSettled
  <2>4. ~Underway(s) /\ s \notin lost =>
          Settled(s) = IF status[s] = "FAILED" THEN "failed" ELSE "ready"
    BY <2>3 DEF Settled
  <2> QED BY <1>4, <2>1, <2>2, <2>4 DEF StageIs
<1> QED BY <1>1, <1>2, <1>3, <1>4

LEMMA StageToldNext == (TypeOK /\ PipelineInv)' => (\A s \in Sources : StageIs(s))'
BY StageTold, PTL

(* Where neither the status nor what is under way or lost changes, nor     *)
(* does the stage.                                                         *)
LEMMA StageStays ==
  ASSUME NEW s \in Sources, StageIs(s), StageIs(s)', status'[s] = status[s],
         ~Live(s) \/ ((Underway(s)' <=> Underway(s)) /\ (s \in lost' <=> s \in lost))
  PROVE  Stage(s)' = Stage(s)
BY DEF StageIs, Live

(* A step in which at most source t changes its stage.                     *)
OnlyOne(t) == \A s \in Sources : s # t => Stage(s)' = Stage(s)

LEMMA RequestElsewhere ==
  ASSUME NEW s \in Sources, UNCHANGED worker, NEW r \in Requests,
         \A q \in Requests : q # r => req'[q] = req[q],
         RequestGoesOn(r, s)' <=> RequestGoesOn(r, s),
         \A q \in Requests : jobs'[q][s] = jobs[q][s], worker.by \in Requests
  PROVE  Underway(s)' <=> Underway(s)
<1>1. \A q \in Requests : RequestGoesOn(q, s)' <=> RequestGoesOn(q, s)
  BY DEF RequestGoesOn, At
<1>2. Owed(s)' <=> Owed(s)
  BY <1>1 DEF Owed, JobWaits, AboutToRead, Doing
<1>3. (BusyWith(s)' <=> BusyWith(s)) /\ (RetryComes(s)' <=> RetryComes(s))
  BY DEF BusyWith, RetryComes, MoreAttempts, Doing, Job
<1> QED BY <1>2, <1>3 DEF Underway

(* A request reads, writes, deletes or enqueues one source at a time.      *)
LEMMA RequestMovesOne ==
  ASSUME TypeOK, PipelineInv, TypeOK', PipelineInv', NEW r \in Requests,
         StartRequest(r) \/ RequestStep(r), \A S \in SUBSET Qna, c \in Contents : ~CreateQna(r, S, c)
  PROVE  \E t \in Sources : OnlyOne(t)
<1>1. /\ \A s \in Sources : StageIs(s) /\ StageIs(s)'
      /\ worker.by \in Requests /\ req[r].src \in Sources
  BY StageTold, StageToldNext, RecordTyped
<1>2. UNCHANGED worker /\ \A q \in Requests : q # r => req'[q] = req[q]
  BY DEF StartRequest, RequestStep, ReadQnaToUpdate, ReadQnaToDelete, ReadTextToUpsert, ReadTextToDelete,
     DeleteBySource, WriteQna, WriteText, CreateText, DropRow, Enqueue, Finish, TypeOK
<1>3. ASSUME NEW t \in Sources,
             \A s \in Sources : s # t /\ Live(s) =>
               /\ RequestGoesOn(r, s)' <=> RequestGoesOn(r, s)
               /\ \A q \in Requests : jobs'[q][s] = jobs[q][s],
             \A s \in Sources : s # t => status'[s] = status[s] /\ (s \in lost' <=> s \in lost)
      PROVE  OnlyOne(t)
  <2>1. SUFFICES ASSUME NEW s \in Sources, s # t PROVE Stage(s)' = Stage(s)
    BY DEF OnlyOne
  <2>2. Live(s) => (Underway(s)' <=> Underway(s))
    BY <1>1, <1>2, <1>3, <2>1, RequestElsewhere
  <2> QED BY <1>1, <1>3, <2>1, <2>2, StageStays
<1>4. CASE StartRequest(r)
  <2>1. PICK t \in Sources :
             \A s \in Sources : s # t => ~RequestGoesOn(r, s)'
    <3>2. ASSUME NEW s \in Qna, NEW c \in Contents, ReadQnaToUpdate(r, s, c) PROVE \E t \in Sources :
             \A u \in Sources : u # t => ~RequestGoesOn(r, u)'
      BY <3>2 DEF ReadQnaToUpdate, RequestGoesOn, At, FreshRequest, TypeOK, Sources
    <3>3. ASSUME NEW s \in Qna, ReadQnaToDelete(r, s) PROVE \E t \in Sources :
             \A u \in Sources : u # t => ~RequestGoesOn(r, u)'
      BY <3>3 DEF ReadQnaToDelete, RequestGoesOn, At, FreshRequest, TypeOK, Sources
    <3>4. ASSUME NEW c \in Contents, ReadTextToUpsert(r, c) PROVE \E t \in Sources :
             \A u \in Sources : u # t => ~RequestGoesOn(r, u)'
      BY <1>1, <3>4 DEF ReadTextToUpsert, LiveText, RequestGoesOn, At, FreshRequest, TypeOK, Sources
    <3>5. ASSUME NEW s \in Text, ReadTextToDelete(r, s) PROVE \E t \in Sources :
             \A u \in Sources : u # t => ~RequestGoesOn(r, u)'
      BY <3>5 DEF ReadTextToDelete, RequestGoesOn, At, FreshRequest, TypeOK, Sources
    <3> QED BY <1>4, <3>2, <3>3, <3>4, <3>5 DEF StartRequest
  <2>2. At(r, "start") /\ UNCHANGED <<status, jobs, lost>>
    BY <1>4 DEF StartRequest, ReadQnaToUpdate, ReadQnaToDelete, ReadTextToUpsert, ReadTextToDelete
  <2>3. \A s \in Sources : ~RequestGoesOn(r, s)
    BY <2>2 DEF RequestGoesOn, At
  <2> QED BY <1>3, <2>1, <2>2, <2>3
<1>5. CASE DeleteBySource(r)
  <2>1. /\ req[r].pc = "purge" /\ req'[r].pc = AfterPurge(r) /\ req'[r].op = req[r].op
        /\ req'[r].src = req[r].src /\ req'[r].todo = req[r].todo /\ UNCHANGED <<status, jobs, lost>>
    BY <1>5 DEF DeleteBySource, At, TypeOK, RequestStates
  <2>2. AfterPurge(r) = "enqueue" => req[r].todo = {req[r].src}
    BY <1>5, <2>1 DEF AfterPurge, PipelineInv, RequestShape, At
  <2>3. \A s \in Sources : s # req[r].src => ~RequestGoesOn(r, s) /\ ~RequestGoesOn(r, s)'
    BY <2>1, <2>2 DEF RequestGoesOn, At
  <2> QED BY <1>1, <1>3, <2>1, <2>3
<1>6. CASE WriteQna(r)
  <2>1. \A s \in Sources : ~RequestGoesOn(r, s)
    BY <1>6 DEF WriteQna, RequestGoesOn, At
  <2>2. \A s \in Sources : s # req[r].src => ~RequestGoesOn(r, s)'
    <3>1. CASE Finish(r)
      BY <3>1 DEF Finish, FreshRequest, RequestGoesOn, At, TypeOK
    <3>2. CASE req' = [req EXCEPT ![r].pc = "purge", ![r].todo = {req[r].src}]
      BY <3>2 DEF RequestGoesOn, At, TypeOK, RequestStates
    <3> QED BY <1>6, <3>1, <3>2 DEF WriteQna
  <2>3. /\ UNCHANGED jobs
        /\ \A s \in Sources : s # req[r].src => status'[s] = status[s] /\ (s \in lost' <=> s \in lost)
    BY <1>6 DEF WriteQna, TypeOK
  <2> QED BY <1>1, <1>3, <2>1, <2>2, <2>3
<1>7. CASE WriteText(r)
  <2>1. req[r].src \in Text /\ req[r].pc = "write" /\ req[r].op = "upsertText"
        /\ UNCHANGED <<jobs, lost>>
    BY <1>7 DEF WriteText, At, PipelineInv, RequestShape
  <2>2. Hit(r) = LiveText
    BY <2>1, KindsDisjoint DEF Hit
  <2>3. \A s \in Sources : RequestGoesOn(r, s) => s = req[r].src
    BY <2>1 DEF RequestGoesOn, At
  <2>4. CASE Hit(r) = {}
    <3>1. Finish(r) /\ UNCHANGED status
      BY <1>7, <2>4 DEF WriteText
    <3>2. \A s \in Sources : ~RequestGoesOn(r, s)'
      BY <3>1 DEF Finish, FreshRequest, RequestGoesOn, At, TypeOK
    <3> QED BY <1>1, <1>3, <2>1, <2>3, <3>1, <3>2
  <2>5. ASSUME NEW t \in Hit(r), status' = [status EXCEPT ![t] = "PENDING"],
               req' = [req EXCEPT ![r].pc = "enqueue", ![r].todo = {t}]
        PROVE  \E u \in Sources : OnlyOne(u)
    <3>1. t \in Text /\ t \in Sources /\ Live(t)
      BY <2>2, <2>5 DEF LiveText, Sources
    <3>2. \A s \in Sources : s # t => ~RequestGoesOn(r, s)' /\ status'[s] = status[s]
      BY <2>5 DEF RequestGoesOn, At, TypeOK, RequestStates
    <3>3. \A s \in Sources : s # t /\ Live(s) => ~RequestGoesOn(r, s)
      BY <2>1, <2>3, <3>1 DEF PipelineInv, OneText
    <3> QED BY <1>3, <2>1, <3>1, <3>2, <3>3
  <2> QED BY <1>7, <2>4, <2>5 DEF WriteText
<1>8. CASE CreateText(r)
  <2>1. UNCHANGED <<jobs, lost>> /\ \A s \in Sources : ~RequestGoesOn(r, s)
    BY <1>8 DEF CreateText, RequestGoesOn, At
  <2>2. CASE Finish(r) /\ UNCHANGED status
    <3>1. \A s \in Sources : ~RequestGoesOn(r, s)'
      BY <2>2 DEF Finish, FreshRequest, RequestGoesOn, At, TypeOK
    <3> QED BY <1>1, <1>3, <2>1, <2>2, <3>1
  <2>3. ASSUME NEW t \in Text, status' = [status EXCEPT ![t] = "PENDING"],
               req' = [req EXCEPT ![r].pc = "enqueue", ![r].todo = {t}]
        PROVE  \E u \in Sources : OnlyOne(u)
    <3>1. \A s \in Sources : s # t => ~RequestGoesOn(r, s)' /\ status'[s] = status[s]
      BY <2>3 DEF RequestGoesOn, At, TypeOK, RequestStates
    <3> QED BY <1>3, <2>1, <3>1 DEF Sources
  <2> QED BY <1>8, <2>2, <2>3 DEF CreateText
<1>9. CASE DropRow(r)
  <2>1. /\ req[r].pc = "drop" /\ UNCHANGED <<jobs, lost>> /\ Finish(r)
        /\ \A s \in Sources : s \notin Hit(r) => status'[s] = status[s]
    BY <1>9 DEF DropRow, At
  <2>2. \A s \in Sources : ~RequestGoesOn(r, s)' /\ (RequestGoesOn(r, s) => s = req[r].src)
    BY <2>1 DEF Finish, FreshRequest, RequestGoesOn, At, TypeOK
  <2>3. Live(req[r].src) => req[r].src \in Hit(r)
    BY <1>1 DEF Hit, LiveText, Sources
  <2>4. Hit(r) \subseteq Sources /\ \A s, t \in Hit(r) : s = t
    BY HitTyped DEF Hit, LiveText, PipelineInv, OneText
  <2>5. PICK t \in Sources : Hit(r) \subseteq {t} /\ (Hit(r) = {} => t = req[r].src)
    BY <1>1, <2>4
  <2>6. \A s \in Sources : s # t /\ Live(s) => ~RequestGoesOn(r, s)
    BY <2>2, <2>3, <2>5
  <2> QED BY <1>3, <2>1, <2>2, <2>5, <2>6
<1>10. ASSUME NEW t \in Sources, Enqueue(r, t) PROVE \E u \in Sources : OnlyOne(u)
  <2>1. UNCHANGED <<status, lost>> /\ req[r].pc = "enqueue" /\ t \in req[r].todo
        /\ \A q \in Requests, s \in Sources : s # t => jobs'[q][s] = jobs[q][s]
    BY <1>10 DEF Enqueue, SetJob, At, TypeOK
  <2>2. \A s \in Sources : s # t => (RequestGoesOn(r, s)' <=> RequestGoesOn(r, s))
    <3>1. CASE req[r].todo = {t}
      BY <1>10, <2>1, <3>1 DEF Enqueue, Finish, FreshRequest, RequestGoesOn, At, TypeOK
    <3>2. CASE req[r].todo # {t}
      <4>1. req' = [req EXCEPT ![r].todo = req[r].todo \ {t}]
        BY <1>10, <3>2 DEF Enqueue
      <4> QED BY <2>1, <4>1 DEF RequestGoesOn, At, TypeOK, RequestStates
    <3> QED BY <3>1, <3>2
  <2> QED BY <1>3, <2>1, <2>2
<1> QED BY <1>4, <1>5, <1>6, <1>7, <1>8, <1>9, <1>10 DEF RequestStep

LEMMA WorkerElsewhere ==
  ASSUME NEW s \in Sources, UNCHANGED req, \A q \in Requests : jobs'[q][s] = jobs[q][s],
         worker.pc = "idle" \/ worker.src # s, worker'.pc = "idle" \/ worker'.src # s
  PROVE  Underway(s)' <=> Underway(s)
<1>1. \A q \in Requests : RequestGoesOn(q, s)' <=> RequestGoesOn(q, s)
  BY DEF RequestGoesOn, At
<1>2. ~AboutToRead(s) /\ ~BusyWith(s) /\ ~RetryComes(s)
  BY DEF AboutToRead, BusyWith, RetryComes, Doing
<1>3. ~AboutToRead(s)' /\ ~BusyWith(s)' /\ ~RetryComes(s)'
  BY DEF AboutToRead, BusyWith, RetryComes, Doing
<1>4. JobWaits(s)' <=> JobWaits(s)
  BY DEF JobWaits
<1> QED BY <1>1, <1>2, <1>3, <1>4 DEF Underway, Owed

(* A step of the worker is about the source of its job. *)
LEMMA WorkerMovesOne ==
  ASSUME TypeOK, PipelineInv, TypeOK', PipelineInv', WorkerStep \/ AttemptFails \/ CrashWorker
  PROVE  \E t \in Sources : OnlyOne(t)
<1>1. /\ \A s \in Sources : StageIs(s) /\ StageIs(s)'
      /\ worker.by \in Requests /\ worker.src \in Sources
  BY StageTold, StageToldNext, RecordTyped
<1>2. ASSUME NEW t \in Sources, UNCHANGED req, worker.pc = "idle" \/ worker.src = t,
             worker'.pc = "idle" \/ worker'.src = t,
             \A s \in Sources : s # t => /\ status'[s] = status[s] /\ (s \in lost' <=> s \in lost)
                                         /\ \A q \in Requests : jobs'[q][s] = jobs[q][s]
      PROVE  OnlyOne(t)
  <2>1. SUFFICES ASSUME NEW s \in Sources, s # t PROVE Stage(s)' = Stage(s)
    BY DEF OnlyOne
  <2>2. Underway(s)' <=> Underway(s)
    BY <1>2, <2>1, WorkerElsewhere
  <2> QED BY <1>1, <1>2, <2>1, <2>2, StageStays
<1>3. ASSUME NEW r \in Requests, NEW s \in Sources, Pick(r, s) PROVE OnlyOne(s)
  <2>1. worker.pc = "idle" /\ worker'.src = s /\ UNCHANGED <<req, status, lost>>
    BY <1>3 DEF Pick, Doing, IdleWorker
  <2>2. \A u \in Sources : u # s => \A q \in Requests : jobs'[q][u] = jobs[q][u]
    BY <1>3 DEF Pick, SetJob, TypeOK
  <2> QED BY <1>2, <2>1, <2>2
<1>4. CASE FindSource \/ MarkProcessing \/ StoreChunk \/ MarkTrained \/ MarkFailed \/ AttemptFails
  <2>1. UNCHANGED <<req, jobs>> /\ worker'.src = worker.src
    BY <1>4 DEF FindSource, MarkProcessing, StoreChunk, MarkTrained, MarkFailed, AttemptFails, Goto,
       TypeOK, WorkerStates
  <2>2. \A s \in Sources : s # worker.src => status'[s] = status[s] /\ (s \in lost' <=> s \in lost)
    BY <1>4 DEF FindSource, MarkProcessing, StoreChunk, MarkTrained, MarkFailed, AttemptFails,
       SetStatus, TypeOK
  <2> QED BY <1>1, <1>2, <2>1, <2>2
<1>5. ASSUME NEW j, EndJob(j), UNCHANGED <<req, status>>,
             \A s \in Sources : s # worker.src => (s \in lost' <=> s \in lost)
      PROVE  OnlyOne(worker.src)
  <2>1. worker'.pc = "idle"
    BY <1>5 DEF EndJob, IdleWorker
  <2>2. \A u \in Sources : u # worker.src => \A q \in Requests : jobs'[q][u] = jobs[q][u]
    BY <1>5 DEF EndJob, SetJob, TypeOK
  <2> QED BY <1>1, <1>2, <1>5, <2>1, <2>2
<1>6. CASE Rethrow \/ Complete \/ CrashWorker
  BY <1>1, <1>5, <1>6 DEF Rethrow, Complete, CrashWorker
<1> QED BY <1>1, <1>3, <1>4, <1>6 DEF WorkerStep

(* What a step does to the status of a source: it gives a new one its      *)
(* first training, deletes it, or writes the status while the training is  *)
(* under way; a deleted source stays so.                                   *)
LEMMA StatusMoves ==
  ASSUME TypeOK, PipelineInv, [Next]_vars, NEW s \in Sources
  PROVE  \/ status'[s] = status[s]
         \/ status[s] = "ABSENT" /\ status'[s] \in Trained /\ Owed(s)'
         \/ Live(s) /\ status'[s] = "DELETED"
         \/ Live(s) /\ status'[s] \in Trained /\ (Owed(s)' \/ BusyWith(s))
<1>0. status[s] \in {"ABSENT", "DELETED"} \/ Live(s)
  BY DEF TypeOK, Statuses, Live
<1>1. ASSUME status[s] = "ABSENT", status'[s] \in Trained PROVE Owed(s)'
  BY <1>1, BornOwed DEF Live, Trained, PipelineInv
<1>2. ASSUME NEW r \in Requests, StartRequest(r)
      PROVE  status'[s] = status[s] \/ (status[s] = "ABSENT" /\ status'[s] = "PENDING")
  BY <1>2 DEF StartRequest, CreateQna, ReadQnaToUpdate, ReadQnaToDelete, ReadTextToUpsert,
     ReadTextToDelete, Sources, TypeOK
<1>3. ASSUME NEW r \in Requests, RequestStep(r)
      PROVE  \/ status'[s] = status[s]
             \/ status[s] = "ABSENT" /\ status'[s] = "PENDING"
             \/ Live(s) /\ status'[s] = "DELETED"
             \/ Live(s) /\ status'[s] = "PENDING" /\ Owed(s)'
  <2>1. CASE WriteQna(r) /\ status'[s] # status[s]
    <3>1. /\ s = req[r].src /\ Hit(r) # {} /\ status'[s] = "PENDING"
          /\ req' = [req EXCEPT ![r].pc = "purge", ![r].todo = {s}] /\ req[r].op = "updateQna"
      BY <2>1 DEF WriteQna, TypeOK
    <3>2. Live(s)
      BY <2>1, <3>1 DEF WriteQna, PipelineInv, RequestShape, Hit
    <3>3. RequestGoesOn(r, s)'
      BY <3>1 DEF RequestGoesOn, At, TypeOK, RequestStates
    <3> QED BY <3>1, <3>2, <3>3 DEF Owed
  <2>2. CASE WriteText(r) /\ status'[s] # status[s]
    <3>1. /\ Hit(r) # {} /\ s \in Hit(r) /\ status'[s] = "PENDING"
          /\ req' = [req EXCEPT ![r].pc = "enqueue", ![r].todo = {s}]
      BY <2>2 DEF WriteText, TypeOK
    <3>2. Live(s)
      BY <3>1, HitTyped
    <3>3. RequestGoesOn(r, s)'
      BY <3>1 DEF RequestGoesOn, At, TypeOK, RequestStates
    <3> QED BY <3>1, <3>2, <3>3 DEF Owed
  <2>3. CASE CreateText(r)
    BY <2>3 DEF CreateText, TypeOK
  <2>4. CASE DropRow(r)
    BY <2>4, HitTyped DEF DropRow
  <2> QED
    BY <1>3, <2>1, <2>2, <2>3, <2>4 DEF RequestStep, DeleteBySource, Enqueue
<1>4. CASE WorkerStep \/ AttemptFails \/ CrashWorker
  <2>1. ASSUME MarkProcessing \/ MarkTrained \/ MarkFailed, status'[s] # status[s]
        PROVE  s = worker.src /\ Live(s) /\ BusyWith(s) /\ status'[s] \in Trained
    <3>1. PICK st \in Trained : status' = [status EXCEPT ![worker.src] = st] /\ Live(worker.src)
      BY <1>4, <2>1 DEF MarkProcessing, MarkTrained, MarkFailed, SetStatus, Trained
    <3>2. s = worker.src /\ status'[s] = st
      BY <2>1, <3>1 DEF TypeOK
    <3> QED BY <2>1, <3>1, <3>2 DEF MarkProcessing, MarkTrained, MarkFailed, BusyWith, Doing
  <2>2. (MarkProcessing \/ MarkTrained \/ MarkFailed) \/ UNCHANGED status
    BY <1>4 DEF WorkerStep, Pick, FindSource, StoreChunk, Rethrow, Complete, AttemptFails, CrashWorker
  <2> QED BY <2>1, <2>2
<1>5. CASE DeleteChatbot
  BY <1>5 DEF DeleteChatbot
<1>6. CASE UNCHANGED vars
  BY <1>6 DEF vars
<1>7. ASSUME NEW r \in Requests, CutRequest(r) PROVE status'[s] = status[s]
  BY <1>7 DEF CutRequest
<1> QED
  BY <1>1, <1>2, <1>3, <1>4, <1>5, <1>6, <1>7 DEF Next, Trained

(* The stages a source may pass through in one step. *)
StageMoves(s) ==
  \/ Stage(s)' = Stage(s)
  \/ Stage(s) = "absent" /\ Stage(s)' = "waiting"
  \/ Stage(s) \in Life!Present /\ Stage(s)' = "deleted"
  \/ Stage(s) \in {"ready", "failed", "lost"} /\ Stage(s)' = "waiting"
  \/ Stage(s) = "waiting" /\ Stage(s)' \in {"ready", "failed"}
  \/ Stage(s) \in {"waiting", "ready", "failed"} /\ Stage(s)' = "lost"

LEMMA StageStep ==
  ASSUME TypeOK, PipelineInv, TypeOK', PipelineInv', [Next]_vars, NEW s \in Sources
  PROVE  StageMoves(s) /\ Stage(s) \in Life!Stages /\ Stage(s)' \in Life!Stages
<1>1. StageIs(s) /\ StageIs(s)'
  BY StageTold, StageToldNext
<1>2. Live(s) => Stage(s) \in Life!Present
  BY <1>1 DEF StageIs, Live, Life!Present
<1>3. Live(s)' => Stage(s)' \in Life!Present
  BY <1>1 DEF StageIs, Live, Life!Present
<1>4. Stage(s) \in Life!Stages /\ Stage(s)' \in Life!Stages
  BY <1>1, <1>2, <1>3 DEF StageIs, Life!Present, Life!Stages
<1>5. CASE status'[s] = status[s]
  <2>1. Live(s) /\ s \in lost /\ s \notin lost' => Underway(s)'
    <3>1. Live(s) /\ s \in lost /\ s \notin lost' => FindSource /\ worker.src = s
      BY FoundAgain
    <3>2. Live(s) /\ FindSource /\ worker.src = s => BusyWith(s)'
      BY DEF FindSource, BusyWith, TypeOK, WorkerStates
    <3> QED BY <3>1, <3>2 DEF Underway
  <2>2. CASE ~Live(s)
    BY <1>1, <1>4, <1>5, <2>2 DEF StageIs, Live, Trained, StageMoves
  <2>3. CASE Live(s)
    <3>1. Live(s)'
      BY <1>5, <2>3 DEF Live
    <3> QED BY <1>1, <1>4, <1>5, <2>1, <2>3, <3>1 DEF StageIs, StageMoves
  <2> QED BY <2>2, <2>3
<1>6. CASE status[s] = "ABSENT" /\ status'[s] \in Trained /\ Owed(s)'
  BY <1>1, <1>4, <1>6 DEF StageIs, Live, Trained, Underway, StageMoves
<1>7. CASE Live(s) /\ status'[s] = "DELETED"
  BY <1>1, <1>2, <1>4, <1>7 DEF StageIs, Live, Trained, StageMoves
<1>8. CASE Live(s) /\ status'[s] \in Trained /\ (Owed(s)' \/ BusyWith(s))
  BY <1>1, <1>4, <1>8 DEF StageIs, Live, Trained, Underway, StageMoves
<1> QED BY <1>4, <1>5, <1>6, <1>7, <1>8, StatusMoves

(* A step that moves one source is a step of SourceLife. *)
LEMMA OneMoves ==
  ASSUME NEW t \in Sources, OnlyOne(t), StageMoves(t),
         \A s \in Sources : Stage(s) \in Life!Stages /\ Stage(s)' \in Life!Stages
  PROVE  [Life!Next]_([s \in Sources |-> Stage(s)])
<1> DEFINE f == [s \in Sources |-> Stage(s)]
<1> DEFINE g == [s \in Sources |-> Stage(s)']
<1>1. f' = g /\ g = [f EXCEPT ![t] = Stage(t)'] /\ g \in [Sources -> Life!Stages]
  BY DEF OnlyOne
<1>2. CASE Stage(t)' = Stage(t)
  BY <1>1, <1>2
<1>3. CASE Stage(t) = "absent" /\ Stage(t)' = "waiting"
  BY <1>1, <1>3 DEF OnlyOne, Life!Add, Life!Some, Life!Next
<1>4. CASE Stage(t) \in Life!Present /\ Stage(t)' = "deleted"
  BY <1>1, <1>4 DEF OnlyOne, Life!Remove, Life!Some, Life!Next
<1>5. CASE Stage(t) \in {"ready", "failed", "lost"} /\ Stage(t)' = "waiting"
  <2>1. Life!Change(t)
    BY <1>1, <1>5 DEF Life!Change, Life!One
  <2> QED BY <2>1 DEF Life!Next
<1>6. CASE Stage(t) = "waiting" /\ Stage(t)' \in {"ready", "failed"}
  <2>1. Life!Train(t) \/ Life!GiveUp(t)
    BY <1>1, <1>6 DEF Life!Train, Life!GiveUp, Life!One
  <2> QED BY <2>1 DEF Life!Next
<1>7. CASE Stage(t) \in {"waiting", "ready", "failed"} /\ Stage(t)' = "lost"
  BY <1>1, <1>7 DEF OnlyOne, Life!Lose, Life!Some, Life!Next
<1> QED BY <1>2, <1>3, <1>4, <1>5, <1>6, <1>7 DEF StageMoves

LEMMA LifeStep ==
  ASSUME TypeOK, PipelineInv, TypeOK', PipelineInv', [Next]_vars
  PROVE  [Life!Next]_([s \in Sources |-> Stage(s)])
<1> DEFINE f == [s \in Sources |-> Stage(s)]
<1> DEFINE g == [s \in Sources |-> Stage(s)']
<1>1. \A s \in Sources : /\ StageMoves(s) /\ StageIs(s) /\ StageIs(s)'
                         /\ Stage(s) \in Life!Stages /\ Stage(s)' \in Life!Stages
  BY StageStep, StageTold, StageToldNext
<1>2. f' = g /\ g \in [Sources -> Life!Stages]
  BY <1>1
<1>3. ASSUME NEW t \in Sources, OnlyOne(t) PROVE [Life!Next]_f
  BY <1>1, <1>3, OneMoves
<1>4. ASSUME NEW r \in Requests, NEW S \in SUBSET Qna, NEW c \in Contents, CreateQna(r, S, c)
      PROVE  Life!Add
  <2>1. ASSUME NEW s \in Sources
        PROVE  Stage(s)' = Stage(s) \/ (Stage(s) = "absent" /\ Stage(s)' = "waiting")
    <3>1. CASE s \in S
      <4>1. status[s] = "ABSENT" /\ status'[s] = "PENDING"
        BY <1>4, <3>1 DEF CreateQna
      <4>2. Owed(s)'
        BY <4>1, BornOwed DEF Live, Trained, PipelineInv
      <4> QED BY <1>1, <4>1, <4>2 DEF StageIs, Live, Trained, Underway
    <3>2. CASE s \notin S
      <4>1. status'[s] = status[s] /\ UNCHANGED <<worker, jobs, lost>> /\ At(r, "start")
            /\ req' = [req EXCEPT ![r] = [FreshRequest EXCEPT !.pc = "enqueue",
                                            !.op = "createQna", !.todo = S]]
        BY <1>4, <3>2 DEF CreateQna
      <4>2. ~RequestGoesOn(r, s) /\ ~RequestGoesOn(r, s)'
        BY <3>2, <4>1 DEF RequestGoesOn, At, FreshRequest, TypeOK
      <4>3. \A q \in Requests : q # r => req'[q] = req[q]
        BY <4>1 DEF TypeOK
      <4>4. Underway(s)' <=> Underway(s)
        BY <4>1, <4>2, <4>3, RequestElsewhere, RecordTyped
      <4> QED BY <1>1, <4>1, <4>4, StageStays
    <3> QED BY <3>1, <3>2
  <2> QED BY <1>2, <2>1 DEF Life!Add, Life!Some
<1>5. CASE DeleteChatbot
  <2>1. ASSUME NEW s \in Sources
        PROVE  Stage(s)' = Stage(s) \/ (Stage(s) \in Life!Present /\ Stage(s)' = "deleted")
    <3>1. status'[s] = IF Live(s) THEN "DELETED" ELSE status[s]
      BY <1>5 DEF DeleteChatbot
    <3>2. Live(s) => Stage(s) \in Life!Present
      BY <1>1 DEF StageIs, Life!Present
    <3>3. ~Live(s) => Stage(s)' = Stage(s)
      BY <1>1, <3>1 DEF StageIs, Live, Trained
    <3>4. Live(s) => Stage(s)' = "deleted"
      BY <1>1, <3>1 DEF StageIs
    <3> QED BY <3>2, <3>3, <3>4
  <2> QED BY <1>2, <2>1 DEF Life!Remove, Life!Some, Life!Next
<1>6. CASE UNCHANGED vars
  <2>1. \A s \in Sources : Underway(s)' <=> Underway(s)
    BY <1>6 DEF vars, Underway, Owed, JobWaits, AboutToRead, RequestGoesOn, BusyWith, RetryComes,
       MoreAttempts, Doing, At, Job
  <2>2. \A s \in Sources : Stage(s)' = Stage(s)
    BY <1>1, <1>6, <2>1, StageStays DEF vars
  <2> QED BY <1>2, <2>2
<1>7. ASSUME NEW r \in Requests, CutRequest(r) PROVE Life!Lose
  <2>1. /\ UNCHANGED <<status, worker, jobs>> /\ Finish(r)
        /\ lost' = lost \cup {s \in Sources : RequestGoesOn(r, s)}
    BY <1>7 DEF CutRequest
  <2>2. \A q \in Requests : q # r => req'[q] = req[q]
    BY <2>1 DEF Finish, TypeOK
  <2>3. ASSUME NEW s \in Sources
        PROVE  \/ Stage(s)' = Stage(s)
               \/ Stage(s) \in {"waiting", "ready", "failed"} /\ Stage(s)' = "lost"
    <3>1. CASE ~RequestGoesOn(r, s)
      <4>1. ~RequestGoesOn(r, s)'
        BY <2>1 DEF Finish, FreshRequest, RequestGoesOn, At, TypeOK
      <4>2. Underway(s)' <=> Underway(s)
        BY <2>1, <2>2, <3>1, <4>1, RequestElsewhere, RecordTyped
      <4> QED BY <1>1, <2>1, <3>1, <4>2, StageStays
    <3>2. CASE RequestGoesOn(r, s) /\ Live(s)
      <4>1. Stage(s) = "waiting"
        BY <1>1, <3>2 DEF StageIs, Underway, Owed
      <4>2. s \in lost' /\ Live(s)'
        BY <2>1, <3>2 DEF Live
      <4> QED BY <1>1, <4>1, <4>2 DEF StageIs
    <3>3. CASE ~Live(s)
      BY <1>1, <2>1, <3>3, StageStays
    <3> QED BY <3>1, <3>2, <3>3
  <2> QED BY <1>2, <2>3 DEF Life!Lose, Life!Some
<1>8. ASSUME NEW r \in Requests, StartRequest(r) \/ RequestStep(r) PROVE [Life!Next]_f
  <2>1. CASE \E S \in SUBSET Qna, c \in Contents : CreateQna(r, S, c)
    BY <1>4, <2>1 DEF Life!Next
  <2>2. CASE \A S \in SUBSET Qna, c \in Contents : ~CreateQna(r, S, c)
    BY <1>3, <1>8, <2>2, RequestMovesOne
  <2> QED BY <2>1, <2>2
<1>9. CASE WorkerStep \/ AttemptFails \/ CrashWorker
  BY <1>3, <1>9, WorkerMovesOne
<1>10. CASE DeleteChatbot \/ UNCHANGED vars
  BY <1>5, <1>6, <1>10 DEF Life!Next
<1> QED BY <1>7, <1>8, <1>9, <1>10 DEF Next, Life!Next

LEMMA LifeInit == Init => Life!Init
<1> SUFFICES ASSUME Init PROVE [s \in Sources |-> Stage(s)] = [s \in Sources |-> "absent"]
  BY DEF Life!Init
<1>1. \A s \in Sources : StageIs(s) /\ status[s] = "ABSENT"
  BY TypeInit, PipelineInit, StageTold DEF Init
<1> QED BY <1>1 DEF StageIs

(* The pipeline implements SourceLife under every fault: seen from a       *)
(* source, the requests, the queue and the worker together only add it,    *)
(* train it, give it up, take it back to its training when it changes, or  *)
(* delete it; or they lose it, and then it is in lost.                     *)
THEOREM PipelineKeepsPromise == Spec => KeepsPromise
<1>1. Init => TypeOK /\ PipelineInv /\ Life!Init
  BY TypeInit, PipelineInit, LifeInit
<1>2. TypeOK /\ PipelineInv /\ [Next]_vars => (TypeOK /\ PipelineInv)'
  BY TypeStep, PipelineStep
<1>3. /\ TypeOK /\ PipelineInv /\ [Next]_vars /\ (TypeOK /\ PipelineInv)'
      => [Life!Next]_([s \in Sources |-> Stage(s)])
  BY LifeStep
<1> QED BY <1>1, <1>2, <1>3, PTL DEF Spec, KeepsPromise, Life!Spec
=============================================================================
