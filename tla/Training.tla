------------------------------ MODULE Training ------------------------------
(***************************************************************************)
(* The training pipeline of one chatbot: Q&A pairs and the text source are *)
(* written by API requests (QnaService, TextTrainingService), each write   *)
(* puts a job on BullMQ's training-queue, and TrainingWorker turns the     *)
(* source into rows of the embeddings table.  A request and the worker are *)
(* sequences of awaited database and queue calls: each call is one step    *)
(* here, and the steps of all requests and of the worker interleave.       *)
(***************************************************************************)
EXTENDS Integers, FiniteSets

CONSTANTS
  Qna,          \* ids that Q&A rows can take (a uuid is used once)
  Text,         \* ids that text_trainings rows can take
  Contents,     \* what a source can say
  MaxChunks,    \* a bound on the chunks of a content
  NChunks,      \* NChunks[c]: how many chunks chunkText makes of content c
  Requests,     \* API requests; each one runs one operation
  MaxAttempts,  \* BullMQ's "attempts" of a job
  MaxStalls,    \* BullMQ's maxStalledCount
  Faults        \* the faults the run allows, see FaultKinds

(***************************************************************************)
(* "embed": a call of an attempt fails (OpenAI, or the INSERT).            *)
(* "crash": the worker dies in the middle of a job.                        *)
(* "stallout": it dies once too often, and BullMQ fails the job itself.    *)
(* "unmarked": the UPDATE of markFailed fails too, and is swallowed.       *)
(* "cut": a request dies, or its next call throws, between two of its      *)
(* calls.                                                                  *)
(***************************************************************************)
FaultKinds == {"embed", "crash", "stallout", "unmarked", "cut"}

Sources == Qna \cup Text

ASSUME SomethingToDo == Sources # {} /\ Requests # {}
ASSUME KindsDisjoint == Qna \cap Text = {}
ASSUME ChunksAssumption ==
  MaxChunks \in Nat /\ NChunks \in [Contents -> 0 .. MaxChunks] /\ Contents # {}
ASSUME LimitsAssumption == MaxAttempts \in Nat \ {0} /\ MaxStalls \in Nat
ASSUME FaultsAssumption == Faults \subseteq FaultKinds

VARIABLES
  bot,      \* the chatbots row exists
  status,   \* training_status of each source row, or ABSENT / DELETED
  content,  \* content of each source row
  emb,      \* emb[s][c][k]: rows of embeddings for chunk k of content c of s
  req,      \* control state of each API request
  jobs,     \* jobs[r][s]: the job request r put on the queue for source s
  worker,   \* control state of TrainingWorker
  lost      \* history: the sources whose training a fault, or an update that
            \* saved what it had read, cost them, until the worker reads them

vars == <<bot, status, content, emb, req, jobs, worker, lost>>

Trained == {"PENDING", "PROCESSING", "TRAINED", "FAILED"}   \* TrainingStatus
Statuses == Trained \cup {"ABSENT", "DELETED"}
Live(s) == status[s] \in Trained

Chunks(c) == 1 .. NChunks[c]
Rows == [Contents -> [1 .. MaxChunks -> Nat]]
InsertRow(e, s, c, k) == [e EXCEPT ![s][c][k] = @ + 1]
NoRows == [c \in Contents |-> [k \in 1 .. MaxChunks |-> 0]]

RequestPCs == {"start", "purge", "write", "create", "drop", "enqueue", "done"}
RequestOps == {"none", "createQna", "updateQna", "deleteQna", "upsertText", "deleteText"}
RequestStates ==
  [pc: RequestPCs, op: RequestOps, src: Sources, new: Contents,
   changed: BOOLEAN, todo: SUBSET Sources]

JobStates == [state: {"none", "wait", "active", "completed", "failed"},
              attempts: Nat, stalls: Nat]
SetJob(r, s, j) == jobs' = [jobs EXCEPT ![r][s] = j]
NoJob == [state |-> "none", attempts |-> 0, stalls |-> 0]

WorkerPCs == {"idle", "find", "mark", "store", "complete", "markFailed", "rethrow"}
WorkerStates == [pc: WorkerPCs, by: Requests, src: Sources, content: Contents, stored: Nat]

AnySource == CHOOSE s \in Sources : TRUE
AnyContent == CHOOSE c \in Contents : TRUE
AnyRequest == CHOOSE r \in Requests : TRUE

FreshRequest == [pc |-> "start", op |-> "none", src |-> AnySource, new |-> AnyContent,
                 changed |-> FALSE, todo |-> {}]
IdleWorker == [pc |-> "idle", by |-> AnyRequest, src |-> AnySource,
               content |-> AnyContent, stored |-> 0]

Init ==
  /\ bot = TRUE
  /\ status = [s \in Sources |-> "ABSENT"]
  /\ content = [s \in Sources |-> AnyContent]
  /\ emb = [s \in Sources |-> NoRows]
  /\ req = [r \in Requests |-> FreshRequest]
  /\ jobs = [r \in Requests |-> [s \in Sources |-> NoJob]]
  /\ worker = IdleWorker
  /\ lost = {}

-----------------------------------------------------------------------------
(* The API requests.                                                       *)

At(r, pc) == req[r].pc = pc
Finish(r) == req' = [req EXCEPT ![r] = [FreshRequest EXCEPT !.pc = "done"]]

(* The row a WHERE clause finds: by id for a Q&A pair, by the unique        *)
(* chatbotId for the text source, whichever id that row now has.           *)
LiveText == {t \in Text : Live(t)}
Hit(r) == IF req[r].src \in Qna THEN {req[r].src} \cap {s \in Qna : Live(s)} ELSE LiveText

(* create and bulkCreate insert the rows (bulkCreate in one transaction)    *)
(* and then enqueue them one after the other.                              *)
CreateQna(r, S, c) ==
  /\ At(r, "start") /\ bot
  /\ S # {} /\ \A s \in S : status[s] = "ABSENT"
  /\ status' = [s \in Sources |-> IF s \in S THEN "PENDING" ELSE status[s]]
  /\ content' = [s \in Sources |-> IF s \in S THEN c ELSE content[s]]
  /\ req' = [req EXCEPT ![r] = [FreshRequest EXCEPT !.pc = "enqueue", !.op = "createQna",
                                               !.todo = S]]
  /\ UNCHANGED <<bot, emb, jobs, worker, lost>>

(* update reads the pair and decides from that copy whether it changes.    *)
ReadQnaToUpdate(r, s, c) ==
  /\ At(r, "start") /\ Live(s)
  /\ req' = [req EXCEPT ![r] = [FreshRequest EXCEPT !.pc = "write", !.op = "updateQna", !.src = s,
                                               !.new = c, !.changed = (c # content[s])]]
  /\ UNCHANGED <<bot, status, content, emb, jobs, worker, lost>>

ReadQnaToDelete(r, s) ==
  /\ At(r, "start") /\ Live(s)
  /\ req' = [req EXCEPT ![r] = [FreshRequest EXCEPT !.pc = "purge", !.op = "deleteQna", !.src = s]]
  /\ UNCHANGED <<bot, status, content, emb, jobs, worker, lost>>

(* upsert looks for the chatbot's text row: it replaces it, or creates one. *)
ReadTextToUpsert(r, c) ==
  /\ At(r, "start") /\ bot
  /\ IF LiveText = {}
     THEN req' = [req EXCEPT ![r] = [FreshRequest EXCEPT !.pc = "create", !.op = "upsertText",
                                                    !.new = c]]
     ELSE \E t \in LiveText :
            req' = [req EXCEPT ![r] = [FreshRequest EXCEPT !.pc = "purge", !.op = "upsertText",
                                                      !.src = t, !.new = c]]
  /\ UNCHANGED <<bot, status, content, emb, jobs, worker, lost>>

ReadTextToDelete(r, t) ==
  /\ At(r, "start") /\ Live(t)
  /\ req' = [req EXCEPT ![r] = [FreshRequest EXCEPT !.pc = "purge", !.op = "deleteText", !.src = t]]
  /\ UNCHANGED <<bot, status, content, emb, jobs, worker, lost>>

AfterPurge(r) ==
  CASE req[r].op = "updateQna" -> "enqueue"
    [] req[r].op = "upsertText" -> "write"
    [] OTHER -> "drop"

(* EmbeddingService.deleteBySource.                                        *)
DeleteBySource(r) ==
  /\ At(r, "purge")
  /\ emb' = [emb EXCEPT ![req[r].src] = NoRows]
  /\ req' = [req EXCEPT ![r].pc = AfterPurge(r)]
  /\ UNCHANGED <<bot, status, content, jobs, worker, lost>>

(* The UPDATE of a row; it throws when the row is gone.  What the copy     *)
(* says is unchanged is written too, over any change made since, and then  *)
(* nothing trains it.                                                      *)
WriteQna(r) ==
  /\ At(r, "write") /\ req[r].op = "updateQna"
  /\ IF Hit(r) = {}
     THEN Finish(r) /\ UNCHANGED <<status, content, lost>>
     ELSE LET s == req[r].src IN
       /\ content' = [content EXCEPT ![s] = req[r].new]
       /\ IF req[r].changed
          THEN /\ status' = [status EXCEPT ![s] = "PENDING"]
               /\ req' = [req EXCEPT ![r].pc = "purge", ![r].todo = {s}]
               /\ UNCHANGED lost
          ELSE /\ Finish(r)
               /\ lost' = IF content[s] = req[r].new THEN lost ELSE lost \cup {s}
               /\ UNCHANGED status
  /\ UNCHANGED <<bot, emb, jobs, worker>>

WriteText(r) ==
  /\ At(r, "write") /\ req[r].op = "upsertText"
  /\ IF Hit(r) = {}
     THEN Finish(r) /\ UNCHANGED <<status, content>>
     ELSE \E t \in Hit(r) :
       /\ content' = [content EXCEPT ![t] = req[r].new]
       /\ status' = [status EXCEPT ![t] = "PENDING"]
       /\ req' = [req EXCEPT ![r].pc = "enqueue", ![r].todo = {t}]
  /\ UNCHANGED <<bot, emb, jobs, worker, lost>>

(* The INSERT of a text row; it throws when the chatbot is gone, or has a  *)
(* text row by now (chatbotId is unique).                                  *)
CreateText(r) ==
  /\ At(r, "create")
  /\ IF bot /\ LiveText = {}
     THEN \E t \in Text :
       /\ status[t] = "ABSENT"
       /\ content' = [content EXCEPT ![t] = req[r].new]
       /\ status' = [status EXCEPT ![t] = "PENDING"]
       /\ req' = [req EXCEPT ![r].pc = "enqueue", ![r].todo = {t}]
     ELSE Finish(r) /\ UNCHANGED <<status, content>>
  /\ UNCHANGED <<bot, emb, jobs, worker, lost>>

(* The DELETE of the row, after its embeddings.                            *)
DropRow(r) ==
  /\ At(r, "drop")
  /\ status' = [s \in Sources |-> IF s \in Hit(r) THEN "DELETED" ELSE status[s]]
  /\ Finish(r)
  /\ UNCHANGED <<bot, content, emb, jobs, worker, lost>>

(* Mutant: the job of the last source is not added. *)
EnqueueAllButLast(r, s) ==
  /\ At(r, "enqueue") /\ s \in req[r].todo
  /\ IF req[r].todo = {s} THEN Finish(r) /\ UNCHANGED jobs
     ELSE /\ SetJob(r, s, [NoJob EXCEPT !.state = "wait"])
          /\ req' = [req EXCEPT ![r].todo = @ \ {s}]
  /\ UNCHANGED <<bot, status, content, emb, worker, lost>>

(* trainingQueue.add for one source.                                       *)
Enqueue(r, s) ==
  /\ At(r, "enqueue") /\ s \in req[r].todo
  /\ SetJob(r, s, [NoJob EXCEPT !.state = "wait"])
  /\ IF req[r].todo = {s} THEN Finish(r)
                           ELSE req' = [req EXCEPT ![r].todo = @ \ {s}]
  /\ UNCHANGED <<bot, status, content, emb, worker, lost>>

(* What r has begun, and will finish by putting a job for s on the queue   *)
(* or by deleting the row.                                                 *)
RequestGoesOn(r, s) ==
  \/ At(r, "enqueue") /\ s \in req[r].todo
  \/ At(r, "purge") /\ req[r].op = "updateQna" /\ req[r].src = s
  \/ At(r, "write") /\ req[r].op = "upsertText" /\ req[r].src = s
  \/ At(r, "drop") /\ req[r].src = s

(* A request dies, or its next call throws, between two of its calls.      *)
CutRequest(r) ==
  /\ "cut" \in Faults
  /\ req[r].pc \notin {"start", "done"}
  /\ Finish(r)
  /\ lost' = lost \cup {s \in Sources : RequestGoesOn(r, s)}
  /\ UNCHANGED <<bot, status, content, emb, jobs, worker>>

(* ChatbotService.delete: the foreign keys cascade to sources, embeddings. *)
DeleteChatbot ==
  /\ bot
  /\ bot' = FALSE
  /\ status' = [s \in Sources |-> IF Live(s) THEN "DELETED" ELSE status[s]]
  /\ emb' = [s \in Sources |-> NoRows]
  /\ UNCHANGED <<content, req, jobs, worker, lost>>

RequestStep(r) ==
  \/ DeleteBySource(r)
  \/ WriteQna(r)
  \/ WriteText(r)
  \/ CreateText(r)
  \/ DropRow(r)
  \/ \E s \in Sources : Enqueue(r, s)

StartRequest(r) ==
  \/ \E S \in SUBSET Qna, c \in Contents : CreateQna(r, S, c)
  \/ \E s \in Qna, c \in Contents : ReadQnaToUpdate(r, s, c)
  \/ \E s \in Qna : ReadQnaToDelete(r, s)
  \/ \E c \in Contents : ReadTextToUpsert(r, c)
  \/ \E t \in Text : ReadTextToDelete(r, t)

-----------------------------------------------------------------------------
(* BullMQ and the worker (one process, concurrency 1).                     *)

Job == jobs[worker.by][worker.src]
EndJob(j) == SetJob(worker.by, worker.src, j) /\ worker' = IdleWorker
Doing(pc) == worker.pc = pc
Goto(pc) == worker' = [worker EXCEPT !.pc = pc]
SetStatus(st) == status' = [status EXCEPT ![worker.src] = st]

(* Any waiting job may come first: a retry comes back after its backoff.   *)
Pick(r, s) ==
  /\ Doing("idle") /\ jobs[r][s].state = "wait"
  /\ SetJob(r, s, [jobs[r][s] EXCEPT !.state = "active"])
  /\ worker' = [IdleWorker EXCEPT !.pc = "find", !.by = r, !.src = s]
  /\ UNCHANGED <<bot, status, content, emb, req, lost>>

(* processQna / processText: a missing row is skipped.                     *)
FindSource ==
  /\ Doing("find")
  /\ IF Live(worker.src)
     THEN /\ worker' = [worker EXCEPT !.pc = "mark", !.content = content[worker.src]]
          /\ lost' = lost \ {worker.src}
     ELSE Goto("complete") /\ UNCHANGED lost
  /\ UNCHANGED <<bot, status, content, emb, req, jobs>>

(* UPDATE ... PROCESSING; throws when the row has been deleted since.      *)
MarkProcessing ==
  /\ Doing("mark")
  /\ IF Live(worker.src) THEN SetStatus("PROCESSING") /\ Goto("store")
                         ELSE Goto("markFailed") /\ UNCHANGED status
  /\ UNCHANGED <<bot, content, emb, req, jobs, lost>>

(* Mutant: the loop inserts a chunk twice. *)
StoreChunkTwice ==
  /\ Doing("store") /\ worker.stored < NChunks[worker.content]
  /\ IF bot
     THEN LET k == worker.stored + 1
              once == InsertRow(emb, worker.src, worker.content, k) IN
          /\ emb' = InsertRow(once, worker.src, worker.content, k)
          /\ worker' = [worker EXCEPT !.stored = @ + 1]
     ELSE Goto("markFailed") /\ UNCHANGED emb
  /\ UNCHANGED <<bot, status, content, req, jobs, lost>>

(* storeEmbeddings inserts chunk after chunk; the foreign key to chatbots  *)
(* makes the INSERT throw once the chatbot is gone.                        *)
StoreChunk ==
  /\ Doing("store") /\ worker.stored < NChunks[worker.content]
  /\ IF bot
     THEN /\ emb' = InsertRow(emb, worker.src, worker.content, worker.stored + 1)
          /\ worker' = [worker EXCEPT !.stored = @ + 1]
     ELSE Goto("markFailed") /\ UNCHANGED emb
  /\ UNCHANGED <<bot, status, content, req, jobs, lost>>

(* Mutant: off by one, the last chunk is not waited for. *)
MarkTrainedEarly ==
  /\ Doing("store") /\ worker.stored + 1 >= NChunks[worker.content]
  /\ IF Live(worker.src) THEN SetStatus("TRAINED") /\ Goto("complete")
                         ELSE Goto("markFailed") /\ UNCHANGED status
  /\ UNCHANGED <<bot, content, emb, req, jobs, lost>>

(* UPDATE ... TRAINED; throws when the row has been deleted since.         *)
MarkTrained ==
  /\ Doing("store") /\ worker.stored = NChunks[worker.content]
  /\ IF Live(worker.src) THEN SetStatus("TRAINED") /\ Goto("complete")
                         ELSE Goto("markFailed") /\ UNCHANGED status
  /\ UNCHANGED <<bot, content, emb, req, jobs, lost>>

(* A call of the attempt fails: the catch block of process takes over.     *)
AttemptFails ==
  /\ "embed" \in Faults
  /\ worker.pc \in {"find", "mark", "store"}
  /\ Goto("markFailed")
  /\ UNCHANGED <<bot, status, content, emb, req, jobs, lost>>

(* Mutants: markFailed upserts the row; it writes a status the enum lacks.  *)
MarkFailedUpserts == Doing("markFailed") /\ SetStatus("FAILED") /\ Goto("rethrow")
                     /\ UNCHANGED <<bot, content, emb, req, jobs, lost>>
MarkFailedBadStatus == Doing("markFailed") /\ SetStatus("ERROR") /\ Goto("rethrow")
                       /\ UNCHANGED <<bot, content, emb, req, jobs, lost>>

(* markFailed swallows its own failure, the missing row for instance; that *)
(* costs the source its verdict when no attempt follows.                   *)
MoreAttempts == Job.attempts + 1 < MaxAttempts
MarkFailed ==
  /\ Doing("markFailed")
  /\ \/ Live(worker.src) /\ SetStatus("FAILED") /\ UNCHANGED lost
     \/ ~Live(worker.src) /\ UNCHANGED <<status, lost>>
     \/ /\ Live(worker.src) /\ "unmarked" \in Faults
        /\ lost' = IF MoreAttempts THEN lost ELSE lost \cup {worker.src}
        /\ UNCHANGED status
  /\ Goto("rethrow")
  /\ UNCHANGED <<bot, content, emb, req, jobs>>

(* Mutant: the job is not retried. *)
RethrowNoRetry ==
  /\ Doing("rethrow")
  /\ EndJob([Job EXCEPT !.attempts = @ + 1, !.state = "failed"])
  /\ UNCHANGED <<bot, status, content, emb, req, lost>>

(* The rethrown error makes BullMQ retry the job, or give it up.           *)
Rethrow ==
  /\ Doing("rethrow")
  /\ EndJob([Job EXCEPT !.attempts = @ + 1,
                         !.state = IF MoreAttempts THEN "wait" ELSE "failed"])
  /\ UNCHANGED <<bot, status, content, emb, req, lost>>

Complete ==
  /\ Doing("complete")
  /\ EndJob([Job EXCEPT !.state = "completed"])
  /\ UNCHANGED <<bot, status, content, emb, req, lost>>

(* The worker's process dies: BullMQ finds the job stalled and puts it     *)
(* back, but fails it, without markFailed, when it stalls too often.       *)
CrashWorker ==
  /\ "crash" \in Faults /\ ~Doing("idle")
  /\ \/ /\ Job.stalls < MaxStalls
        /\ EndJob([Job EXCEPT !.state = "wait", !.stalls = @ + 1])
        /\ UNCHANGED lost
     \/ /\ Job.stalls = MaxStalls /\ "stallout" \in Faults
        /\ EndJob([Job EXCEPT !.state = "failed"])
        /\ lost' = lost \cup {worker.src}
  /\ UNCHANGED <<bot, status, content, emb, req>>

WorkerStep ==
  \/ \E r \in Requests, s \in Sources : Pick(r, s)
  \/ FindSource \/ MarkProcessing \/ StoreChunk \/ MarkTrained
  \/ MarkFailed \/ Rethrow \/ Complete

Next ==
  \/ \E r \in Requests : StartRequest(r) \/ RequestStep(r) \/ CutRequest(r)
  \/ DeleteChatbot
  \/ WorkerStep \/ AttemptFails \/ CrashWorker

Spec == Init /\ [][Next]_vars

(* A request that has started runs on, and the worker takes jobs and works *)
(* on them; nothing makes a request start, or a call fail.                 *)
Fairness == WF_vars(WorkerStep) /\ \A r \in Requests : WF_vars(RequestStep(r))
FairSpec == Spec /\ Fairness

-----------------------------------------------------------------------------
(* Properties.                                                             *)

TypeOK ==
  /\ bot \in BOOLEAN
  /\ status \in [Sources -> Statuses]
  /\ content \in [Sources -> Contents]
  /\ emb \in [Sources -> Rows]
  /\ req \in [Requests -> RequestStates]
  /\ jobs \in [Requests -> [Sources -> JobStates]]
  /\ worker \in WorkerStates
  /\ lost \subseteq Sources

(* Somebody will still train s: a waiting job, the worker before it reads  *)
(* the row, or a request that goes on to put a job on the queue (or to     *)
(* delete the row); or the worker is at it, or a retry of it comes.        *)
JobWaits(s) == \E r \in Requests : jobs[r][s].state = "wait"
AboutToRead(s) == Doing("find") /\ worker.src = s
Owed(s) == JobWaits(s) \/ AboutToRead(s) \/ \E r \in Requests : RequestGoesOn(r, s)

BusyWith(s) == worker.pc \in {"mark", "store", "markFailed"} /\ worker.src = s
RetryComes(s) == Doing("rethrow") /\ worker.src = s /\ MoreAttempts
Underway(s) == Owed(s) \/ BusyWith(s) \/ RetryComes(s)

FullyEmbedded(s) == \A k \in Chunks(content[s]) : emb[s][content[s]][k] > 0

(* A source that says TRAINED, and whose training is not under way, has an *)
(* embedding of every chunk of the content it now has, whatever updates,   *)
(* deletes, retries and crashes ran concurrently with its training: all    *)
(* but the sources that lost a training to a request cut off after it had  *)
(* changed something, to a job that stalled out, to markFailed's own       *)
(* failure, or to an update that saved the content it had read over a      *)
(* change (training.worker.ts processQna, processText against              *)
(* qna.service.ts update and text-training.service.ts upsert).             *)
TrainedIsComplete ==
  \A s \in Sources \ lost : status[s] = "TRAINED" => FullyEmbedded(s) \/ Underway(s)

(* No source is forgotten: one that says PENDING or PROCESSING has a job,  *)
(* a worker or a request that will move it on, unless it lost its training *)
(* as above (qna.service.ts create, bulkCreate and update,                 *)
(* text-training.service.ts upsert).                                       *)
NoForgottenSource ==
  \A s \in Sources \ lost : status[s] \in {"PENDING", "PROCESSING"} => Underway(s)

(* FAILED is the verdict of a job that used up its attempts, unless the    *)
(* source is about to be trained again: no source is given up early        *)
(* (training.worker.ts markFailed and the rethrow).  A job that BullMQ     *)
(* fails for stalling is the exception, among the losses above.            *)
FailedMeansExhausted ==
  \A s \in Sources \ lost :
    status[s] = "FAILED" =>
      \/ Owed(s)
      \/ worker.pc # "idle" /\ worker.src = s
      \/ \E r \in Requests : jobs[r][s].state = "failed" /\ jobs[r][s].attempts = MaxAttempts

(* A chunk has at most one row for each time a job on its source ran:      *)
(* retries repeat rows (nothing deletes the ones an earlier attempt left), *)
(* an attempt never does (embedding.service.ts storeEmbeddings).           *)
Runs(j) ==
  j.attempts + j.stalls
  + (IF \/ j.state \in {"active", "completed"}
        \/ j.state = "failed" /\ j.attempts < MaxAttempts   \* stalled out
     THEN 1 ELSE 0)
RunsOf(s) == UNION {{<<r, n>> : n \in 1 .. Runs(jobs[r][s])} : r \in Requests}
CopiesBounded ==
  \A s \in Sources, c \in Contents, k \in 1 .. MaxChunks :
    emb[s][c][k] <= Cardinality(RunsOf(s))

(* Every source that waits for its training ends TRAINED, FAILED or        *)
(* deleted, however often its attempts fail and the worker dies, unless it *)
(* lost its training on the way, as above.                                 *)
EverySourceSettles ==
  \A s \in Sources :
    status[s] \in {"PENDING", "PROCESSING"} ~>
      status[s] \in {"TRAINED", "FAILED", "DELETED"} \/ s \in lost

(* What a source's row, its jobs, the requests and the worker together     *)
(* make of it.  A source that nothing moves on, or that says TRAINED       *)
(* without its embeddings, and that lost nothing, would be forgotten:      *)
(* SourceLife has no such stage.                                           *)
Settled(s) ==
  CASE status[s] = "TRAINED" /\ FullyEmbedded(s) -> "ready"
    [] status[s] = "FAILED" -> "failed"
    [] OTHER -> "forgotten"
Stage(s) ==
  CASE status[s] = "ABSENT" -> "absent"
    [] status[s] = "DELETED" -> "deleted"
    [] Live(s) -> IF Underway(s) THEN "waiting" ELSE IF s \in lost THEN "lost" ELSE Settled(s)

Life == INSTANCE SourceLife WITH stage <- [s \in Sources |-> Stage(s)]

(* The pipeline keeps the promise, whatever faults it meets: every step of *)
(* a request, of the worker or of BullMQ is a step of SourceLife, or none, *)
(* and only the sources in lost are ever at its stage "lost"               *)
(* (qna.service.ts, text-training.service.ts and training.worker.ts        *)
(* together).                                                              *)
KeepsPromise == Life!Spec

Quiet == Doing("idle") /\ \A r \in Requests :
           req[r].pc \in {"start", "done"} /\ \A s \in Sources : jobs[r][s].state # "wait"

(* text-training.service.ts:29, "When content is updated, old embeddings   *)
(* are deleted and re-generated": once everything has settled, a TRAINED   *)
(* source has embeddings of its content only.                              *)
NoStaleEmbeddings ==
  Quiet => \A s \in Sources, c \in Contents, k \in 1 .. MaxChunks :
             status[s] = "TRAINED" /\ c # content[s] => emb[s][c][k] = 0

-----------------------------------------------------------------------------
(* The inductive invariant behind TrainedIsComplete, NoForgottenSource and *)
(* KeepsPromise (TrainingProofs).                                          *)

OneText == \A t, u \in Text : Live(t) /\ Live(u) => t = u

RequestShape ==
  \A r \in Requests :
    /\ req[r].op = "updateQna" => req[r].src \in Qna
    /\ At(r, "purge") /\ req[r].op = "updateQna" => req[r].todo = {req[r].src}
    /\ req[r].pc \in {"purge", "write"} /\ req[r].op = "upsertText" => req[r].src \in Text
    /\ req[r].pc \notin {"enqueue", "done"} => \A s \in Sources : jobs[r][s].state = "none"
    /\ At(r, "enqueue") => \A s \in req[r].todo : jobs[r][s].state = "none"

ActiveJob == worker.pc # "idle" => Job.state = "active"

(* Unless the source is owed another training, or has lost this one, the   *)
(* worker trains what the row says now, and the rows of the chunks it has  *)
(* passed are there.                                                       *)
WorkerUpToDate ==
  /\ Doing("find") => worker.stored = 0
  /\ worker.pc \in {"mark", "store"} /\ Live(worker.src) /\ ~Owed(worker.src)
       /\ worker.src \notin lost =>
       /\ worker.content = content[worker.src]
       /\ \A k \in 1 .. MaxChunks : k <= worker.stored => emb[worker.src][worker.content][k] > 0

SourcesSettled ==
  \A s \in Sources \ lost :
    Live(s) => \/ Underway(s)
               \/ status[s] = "FAILED"
               \/ status[s] = "TRAINED" /\ FullyEmbedded(s)

PipelineInv ==
  OneText /\ RequestShape /\ ActiveJob /\ WorkerUpToDate /\ SourcesSettled
=============================================================================
