-------------------------------- MODULE Crawl -------------------------------
(***************************************************************************)
(* One crawl of a website: CrawlService.startCrawl puts a job on BullMQ's  *)
(* crawl-queue, CrawlWorker follows links from page to page and stores     *)
(* what it finds, and users cancel the crawl or select stored pages, which *)
(* puts training jobs on the training-queue.  Each awaited call is a step. *)
(***************************************************************************)
EXTENDS Integers, Sequences, FiniteSetsExt

CONSTANTS
  Hrefs,        \* the URLs that occur as links, one page may have several
  Norm,         \* Norm[h]: normalizeUrl of h, which names the page
  Start,        \* the URL the crawl starts from
  Links,        \* Links[p]: the same-origin links of page p, in its order
  MaxDepth,     \* maxDepth of the job; -1 is no bound
  Limit,        \* confirmedLimit of the job, or its default
  CheckEvery,   \* crawled pages between two looks for a cancellation (10)
  CountEvery,   \* crawled pages between two updates of the counters (5)
  Users,        \* requests to cancel or to select, each made once
  MaxPick,      \* a bound on the pages one request selects
  MaxAttempts,  \* BullMQ's "attempts" of the job
  MaxStalls,    \* BullMQ's maxStalledCount
  Faults,       \* what can go wrong: "call", a call throws; "crash"
  MaxFaults     \* a bound on how often it does

Pages == {Norm[h] : h \in Hrefs}

ASSUME LinksAssumption ==
  /\ Start \in Hrefs
  /\ DOMAIN Norm = Hrefs
  /\ DOMAIN Links = Pages /\ \A p \in Pages : Links[p] \in Seq(Hrefs)
  /\ MaxDepth = -1 => IsFiniteSet(Pages)
ASSUME LimitsAssumption ==
  /\ MaxDepth \in Nat \cup {-1} /\ Limit \in Nat \ {0}
  /\ CheckEvery \in Nat \ {0} /\ CountEvery \in Nat \ {0}
ASSUME JobAssumption == MaxAttempts \in Nat \ {0} /\ MaxStalls \in Nat /\ MaxPick \in Nat
ASSUME FaultsAssumption == Faults \subseteq {"call", "crash"} /\ MaxFaults \in Nat

VARIABLES
  bot,       \* the chatbots row, on which the crawl's rows depend, exists
  status,    \* status of the crawl_jobs row, NONE before it is made
  counts,    \* its pagesFound, pagesCrawled, pagesFailed
  pages,     \* rows of crawled_pages, oldest first
  training,  \* crawl-page jobs of the training-queue
  bull,      \* the job on the crawl-queue
  worker,    \* control state of CrawlWorker, with processCrawlJob's locals
  user,      \* control state of each request
  faults     \* how often something went wrong

vars == <<bot, status, counts, pages, training, bull, worker, user, faults>>
requests == <<training, user>>

CrawlStatus == {"QUEUED", "PROCESSING", "COMPLETED", "FAILED", "CANCELLED"}
PageRows == [url: Pages, status: {"COMPLETED", "FAILED"}, selected: BOOLEAN]
PageRow(p, st) == [url |-> p, status |-> st, selected |-> FALSE]
Counts == [found: Nat, crawled: Nat, failed: Nat]
NoCounts == [found |-> 0, crawled |-> 0, failed |-> 0]

Items == [href: Hrefs, depth: Nat]
FirstItem == [href |-> Start, depth |-> 0]
WorkerPCs == {"idle", "find", "mark", "loop", "fetch", "store", "count", "fail", "close",
              "failJob", "rethrow", "complete"}
Idle == [pc |-> "idle", queue |-> << >>, visited |-> {}, item |-> FirstItem, counts |-> NoCounts]
NotQueued == [state |-> "none", attempts |-> 0, stalls |-> 0]
AtHome == [pc |-> "start", picked |-> {}, todo |-> {}]

Init ==
  /\ bot = TRUE /\ status = "NONE" /\ counts = NoCounts /\ pages = << >>
  /\ training = {} /\ bull = NotQueued /\ worker = Idle
  /\ user = [u \in Users |-> AtHome]
  /\ faults = 0

-----------------------------------------------------------------------------
(* Requests.                                                               *)

StartCrawl ==
  /\ bot /\ status = "NONE"
  /\ status' = "QUEUED"
  /\ UNCHANGED <<bot, counts, pages, bull, worker, faults, requests>>

EnqueueCrawl ==
  /\ status # "NONE" /\ bull.state = "none"
  /\ bull' = [bull EXCEPT !.state = "wait"]
  /\ UNCHANGED <<bot, status, counts, pages, worker, faults, requests>>

(* The add throws, or the process dies before it: the row stays QUEUED.    *)
EnqueueFails ==
  /\ status # "NONE" /\ bull.state = "none"
  /\ Faults # {} /\ faults < MaxFaults /\ faults' = faults + 1
  /\ bull' = [bull EXCEPT !.state = "unsent"]
  /\ UNCHANGED <<bot, status, counts, pages, worker, requests>>

At(u, pc) == user[u].pc = pc
Finish(u) == user' = [user EXCEPT ![u].pc = "done", ![u].todo = {}]

(* cancelJob: what may be canceled is decided from a copy of the row.       *)
ReadToCancel(u) ==
  /\ At(u, "start") /\ bot /\ status \in {"QUEUED", "PROCESSING", "FAILED"}
  /\ user' = [user EXCEPT ![u].pc = "cancel"]
  /\ UNCHANGED <<bot, status, counts, pages, training, bull, worker, faults>>

WriteCancel(u) ==
  /\ At(u, "cancel")
  /\ status' = IF bot THEN "CANCELLED" ELSE status
  /\ Finish(u)
  /\ UNCHANGED <<bot, counts, pages, training, bull, worker, faults>>

(* selectPages: the rows must exist, whatever their status, selected or not. *)
ReadPages(u, S) ==
  /\ At(u, "start") /\ bot /\ S # {} /\ Cardinality(S) <= MaxPick
  /\ user' = [user EXCEPT ![u] = [pc |-> "select", picked |-> S, todo |-> S]]
  /\ UNCHANGED <<bot, status, counts, pages, training, bull, worker, faults>>

(* Mutant: the pages are marked, and enqueued by nobody. *)
MarkSelectedOnly(u) ==
  /\ At(u, "select")
  /\ pages' = [i \in DOMAIN pages |-> IF bot /\ i \in user[u].picked
                                     THEN [pages[i] EXCEPT !.selected = TRUE] ELSE pages[i]]
  /\ Finish(u)
  /\ UNCHANGED <<bot, status, counts, training, bull, worker, faults>>

MarkSelected(u) ==
  /\ At(u, "select")
  /\ pages' = [i \in DOMAIN pages |-> IF bot /\ i \in user[u].picked
                                     THEN [pages[i] EXCEPT !.selected = TRUE] ELSE pages[i]]
  /\ user' = [user EXCEPT ![u].pc = "enqueue"]
  /\ UNCHANGED <<bot, status, counts, training, bull, worker, faults>>

EnqueuePage(u, i) ==
  /\ At(u, "enqueue") /\ i \in user[u].todo
  /\ training' = training \cup {[by |-> u, page |-> i, state |-> "wait"]}
  /\ IF user[u].todo = {i} THEN Finish(u)
                           ELSE user' = [user EXCEPT ![u].todo = @ \ {i}]
  /\ UNCHANGED <<bot, status, counts, pages, bull, worker, faults>>

(* A call of a request throws, or its process dies: the rest of it is lost. *)
RequestFails(u) ==
  /\ user[u].pc \in {"cancel", "select", "enqueue"}
  /\ Faults # {} /\ faults < MaxFaults /\ faults' = faults + 1
  /\ user' = [user EXCEPT ![u].pc = "failed", ![u].todo = {}]
  /\ UNCHANGED <<bot, status, counts, pages, training, bull, worker>>

(* TrainingWorker.processCrawlPage: a page that is gone, or has no text, is *)
(* skipped.  Its chunks and retries are the subject of module Training.    *)
TrainPage(j) ==
  /\ j.state = "wait"
  /\ LET trained == IF bot /\ pages[j.page].status = "COMPLETED" THEN "stored" ELSE "skipped"
     IN  training' = (training \ {j}) \cup {[j EXCEPT !.state = trained]}
  /\ UNCHANGED <<bot, status, counts, pages, bull, worker, user, faults>>

(* ChatbotService.delete: the foreign keys cascade to the job and its pages.*)
DeleteChatbot ==
  /\ bot
  /\ bot' = FALSE
  /\ UNCHANGED <<status, counts, pages, bull, worker, faults, requests>>

UserStep(u) ==
  \/ WriteCancel(u) \/ MarkSelected(u)
  \/ \E i \in user[u].todo : EnqueuePage(u, i)

-----------------------------------------------------------------------------
(* CrawlWorker.                                                            *)

Doing(pc) == worker.pc = pc
Goto(pc) == worker' = [worker EXCEPT !.pc = pc]
EndJob(state) == bull' = [bull EXCEPT !.state = state] /\ worker' = Idle

PickJob ==
  /\ Doing("idle") /\ bull.state = "wait"
  /\ bull' = [bull EXCEPT !.state = "active"]
  /\ worker' = [Idle EXCEPT !.pc = "find"]
  /\ UNCHANGED <<bot, status, counts, pages, faults, requests>>

(* Mutant: the status is not looked at. *)
FindJobAlways ==
  /\ Doing("find")
  /\ Goto(IF bot THEN "mark" ELSE "complete")
  /\ UNCHANGED <<bot, status, counts, pages, bull, faults, requests>>

(* processCrawlJob reads the job; one that is gone or CANCELLED is skipped. *)
FindJob ==
  /\ Doing("find")
  /\ Goto(IF bot /\ status # "CANCELLED" THEN "mark" ELSE "complete")
  /\ UNCHANGED <<bot, status, counts, pages, bull, faults, requests>>

MarkProcessing ==
  /\ Doing("mark") /\ bot
  /\ status' = "PROCESSING"
  /\ worker' = [worker EXCEPT !.pc = "loop", !.queue = <<FirstItem>>]
  /\ UNCHANGED <<bot, counts, pages, bull, faults, requests>>

LoopEnds == worker.queue = << >> \/ worker.counts.crawled >= Limit
LookDue == worker.counts.crawled > 0 /\ worker.counts.crawled % CheckEvery = 0

LeaveLoop ==
  /\ Doing("loop")
  /\ LoopEnds \/ (LookDue /\ bot /\ status = "CANCELLED")
  /\ Goto("close")
  /\ UNCHANGED <<bot, status, counts, pages, bull, faults, requests>>

(* Mutants: the queue is used as a stack; what was visited is fetched again.*)
LastItem ==
  /\ Doing("loop") /\ ~LoopEnds
  /\ ~(LookDue /\ bot /\ status = "CANCELLED")
  /\ LET item == worker.queue[Len(worker.queue)]
         rest == SubSeq(worker.queue, 1, Len(worker.queue) - 1)
         page == Norm[item.href] IN
     IF page \in worker.visited
     THEN worker' = [worker EXCEPT !.queue = rest]
     ELSE worker' = [worker EXCEPT !.pc = "fetch", !.queue = rest, !.item = item,
                                   !.visited = @ \cup {page}, !.counts.found = @ + 1]
  /\ UNCHANGED <<bot, status, counts, pages, bull, faults, requests>>
AnyItem ==
  /\ Doing("loop") /\ ~LoopEnds
  /\ ~(LookDue /\ bot /\ status = "CANCELLED")
  /\ LET item == Head(worker.queue) IN
     worker' = [worker EXCEPT !.pc = "fetch", !.queue = Tail(@), !.item = item,
                              !.visited = @ \cup {Norm[item.href]}, !.counts.found = @ + 1]
  /\ UNCHANGED <<bot, status, counts, pages, bull, faults, requests>>

(* The next URL of the queue; one whose page was visited is dropped.       *)
NextItem ==
  /\ Doing("loop") /\ ~LoopEnds
  /\ ~(LookDue /\ bot /\ status = "CANCELLED")
  /\ LET item == Head(worker.queue)
         page == Norm[item.href] IN
     IF page \in worker.visited
     THEN worker' = [worker EXCEPT !.queue = Tail(@)]
     ELSE worker' = [worker EXCEPT !.pc = "fetch", !.queue = Tail(@), !.item = item,
                                   !.visited = @ \cup {page}, !.counts.found = @ + 1]
  /\ UNCHANGED <<bot, status, counts, pages, bull, faults, requests>>

(* pagesFailed is counted where the inner catch block begins.              *)
Failing == [worker EXCEPT !.pc = "fail", !.counts.failed = @ + 1]

(* A page with text, one without (or not HTML), or none at all.            *)
Fetch ==
  /\ Doing("fetch")
  /\ \/ Goto("store") \/ Goto("loop") \/ worker' = Failing
  /\ UNCHANGED <<bot, status, counts, pages, bull, faults, requests>>

(* The queue after the first n links of a page: those visited are left out. *)
Pushed(links, w) ==
  LET queue[n \in 0 .. Len(links)] ==
        IF n = 0 THEN w.queue
        ELSE IF Norm[links[n]] \in w.visited THEN queue[n - 1]
        ELSE Append(queue[n - 1], [href |-> links[n], depth |-> w.item.depth + 1])
  IN  queue[Len(links)]

(* The links of a stored page, unless it is deep or the limit is reached.  *)
FollowLinks(w) ==
  LET deeper == (MaxDepth = -1 \/ w.item.depth < MaxDepth) /\ w.counts.crawled < Limit
  IN  [w EXCEPT !.pc = "loop", !.queue = IF deeper THEN Pushed(Links[Norm[w.item.href]], w) ELSE @]

StorePage ==
  /\ Doing("store") /\ bot
  /\ pages' = Append(pages, PageRow(Norm[worker.item.href], "COMPLETED"))
  /\ LET stored == [worker EXCEPT !.counts.crawled = @ + 1] IN
     worker' = IF stored.counts.crawled % CountEvery = 0
               THEN [stored EXCEPT !.pc = "count"] ELSE FollowLinks(stored)
  /\ UNCHANGED <<bot, status, counts, bull, faults, requests>>

CountPages ==
  /\ Doing("count") /\ bot
  /\ counts' = worker.counts
  /\ worker' = FollowLinks(worker)
  /\ UNCHANGED <<bot, status, pages, bull, faults, requests>>

(* Mutant: the row says ERROR, which the enum lacks. *)
RecordFailureError ==
  /\ Doing("fail") /\ bot
  /\ pages' = Append(pages, PageRow(Norm[worker.item.href], "ERROR"))
  /\ Goto("loop")
  /\ UNCHANGED <<bot, status, counts, bull, faults, requests>>

RecordFailure ==
  /\ Doing("fail") /\ bot
  /\ pages' = Append(pages, PageRow(Norm[worker.item.href], "FAILED"))
  /\ Goto("loop")
  /\ UNCHANGED <<bot, status, counts, bull, faults, requests>>

(* Mutants: the last counts are those of the loop; the job is left as it is.*)
CloseUncounted ==
  /\ Doing("close") /\ bot
  /\ status' = "COMPLETED"
  /\ Goto("complete")
  /\ UNCHANGED <<bot, counts, pages, bull, faults, requests>>
CloseNothing ==
  /\ Doing("close") /\ bot
  /\ counts' = worker.counts
  /\ Goto("complete")
  /\ UNCHANGED <<bot, status, pages, bull, faults, requests>>

(* The UPDATE after the loop, however the loop was left.                   *)
CloseJob ==
  /\ Doing("close") /\ bot
  /\ status' = "COMPLETED" /\ counts' = worker.counts
  /\ Goto("complete")
  /\ UNCHANGED <<bot, pages, bull, faults, requests>>

(* The outer catch block; it throws on.                                    *)
FailJob ==
  /\ Doing("failJob") /\ bot
  /\ status' = "FAILED" /\ counts' = worker.counts
  /\ Goto("rethrow")
  /\ UNCHANGED <<bot, pages, bull, faults, requests>>

(* Where a call that throws leads: the first two are outside the try.      *)
Thrown ==
  CASE worker.pc \in {"find", "mark", "failJob"} -> [worker EXCEPT !.pc = "rethrow"]
    [] worker.pc \in {"store", "count"} -> Failing
    [] OTHER -> [worker EXCEPT !.pc = "failJob"]

(* Without the chatbot, UPDATEs find no row and INSERTs no foreign key.     *)
RowIsGone ==
  /\ ~bot /\ worker.pc \in {"mark", "store", "count", "fail", "close", "failJob"}
  /\ worker' = Thrown
  /\ UNCHANGED <<bot, status, counts, pages, bull, faults, requests>>

CallFails ==
  /\ "call" \in Faults /\ faults < MaxFaults /\ faults' = faults + 1
  /\ \/ worker.pc \in {"find", "mark", "store", "count", "fail", "close", "failJob"}
     \/ Doing("loop") /\ ~LoopEnds /\ LookDue
  /\ worker' = Thrown
  /\ UNCHANGED <<bot, status, counts, pages, bull, requests>>

Rethrow ==
  /\ Doing("rethrow")
  /\ bull' = [bull EXCEPT !.attempts = @ + 1,
                          !.state = IF bull.attempts + 1 < MaxAttempts THEN "wait" ELSE "failed"]
  /\ worker' = Idle
  /\ UNCHANGED <<bot, status, counts, pages, faults, requests>>

Complete ==
  /\ Doing("complete")
  /\ EndJob("completed")
  /\ UNCHANGED <<bot, status, counts, pages, faults, requests>>

(* BullMQ finds the job stalled, counts that, and hands it out again.      *)
Crash ==
  /\ "crash" \in Faults /\ faults < MaxFaults /\ faults' = faults + 1
  /\ ~Doing("idle")
  /\ bull' = [bull EXCEPT !.stalls = @ + 1,
                          !.state = IF bull.stalls < MaxStalls THEN "wait" ELSE "failed"]
  /\ worker' = Idle
  /\ UNCHANGED <<bot, status, counts, pages, requests>>

WorkerStep ==
  \/ PickJob \/ FindJob \/ MarkProcessing \/ LeaveLoop \/ NextItem \/ Fetch
  \/ StorePage \/ CountPages \/ RecordFailure \/ CloseJob \/ FailJob \/ RowIsGone
  \/ Rethrow \/ Complete

Next ==
  \/ StartCrawl \/ EnqueueCrawl \/ EnqueueFails \/ DeleteChatbot
  \/ \E u \in Users : UserStep(u) \/ RequestFails(u) \/ ReadToCancel(u)
                      \/ \E S \in SUBSET DOMAIN pages : ReadPages(u, S)
  \/ \E j \in training : TrainPage(j)
  \/ WorkerStep \/ CallFails \/ Crash

Spec == Init /\ [][Next]_vars

(* Requests that have begun and the workers go on.                         *)
Fairness ==
  /\ WF_vars(EnqueueCrawl)
  /\ \A u \in Users : WF_vars(UserStep(u))
  /\ WF_vars(\E j \in training : TrainPage(j))
  /\ WF_vars(WorkerStep)
FairSpec == Spec /\ Fairness

-----------------------------------------------------------------------------
(* Properties.                                                             *)

TypeOK ==
  /\ bot \in BOOLEAN
  /\ status \in CrawlStatus \cup {"NONE"}
  /\ counts \in Counts
  /\ pages \in Seq(PageRows)
  /\ training \subseteq [by: Users, page: Nat, state: {"wait", "stored", "skipped"}]
  /\ bull \in [state: {"none", "unsent", "wait", "active", "completed", "failed"},
               attempts: Nat, stalls: Nat]
  /\ worker \in [pc: WorkerPCs, queue: Seq(Items), visited: SUBSET Pages, item: Items,
                 counts: Counts]
  /\ user \in [Users -> [pc: {"start", "cancel", "select", "enqueue", "done", "failed"},
                         picked: SUBSET Nat, todo: SUBSET Nat]]
  /\ faults \in 0 .. MaxFaults

Runs == bull.attempts + bull.stalls + (IF bull.state \in {"active", "completed"} THEN 1 ELSE 0)
RowsWith(st) == {i \in DOMAIN pages : pages[i].status = st}

(* A page is stored at most once, and recorded as failed at most once, in  *)
(* each run of the job, however its URL is spelled and however often it is *)
(* linked; only a retry repeats it (crawl.service.ts visited, normalizeUrl).*)
PagesOncePerRun ==
  \A p \in Pages, st \in {"COMPLETED", "FAILED"} :
    Cardinality({i \in RowsWith(st) : pages[i].url = p}) <= Runs

(* The pages whose shortest path from the start has at most n links.       *)
Reached[n \in Nat] ==
  IF n = 0 THEN {Norm[Start]}
  ELSE Reached[n - 1] \cup
       {Norm[h] : h \in UNION {{Links[p][i] : i \in DOMAIN Links[p]} : p \in Reached[n - 1]}}
InReach == Reached[IF MaxDepth = -1 THEN Cardinality(Pages) ELSE MaxDepth]

(* No row is for a page more than maxDepth links away from the start, and  *)
(* a run stores no more pages than confirmedLimit (crawl.service.ts, the   *)
(* two conditions on depth and pagesCrawled).                              *)
WithinBounds ==
  /\ \A i \in DOMAIN pages : pages[i].url \in InReach
  /\ Cardinality(RowsWith("COMPLETED")) <= Limit * Runs

(* A run that ends by itself, below the limit and with every page good,    *)
(* has seen every page within maxDepth links: a page found first on a long *)
(* way is not missed on a short one (crawl.service.ts, queue.shift).       *)
CrawlCovers ==
  Doing("close") /\ worker.queue = << >> /\ worker.counts.crawled < Limit
    /\ worker.counts.crawled = worker.counts.found /\ worker.counts.failed = 0
  => worker.visited = InReach

(* The crawl covers what the depth and the limit allow, and no more.       *)
CrawlExact == WithinBounds /\ CrawlCovers

(* The counters of a crawl that was completed in one run agree with its     *)
(* rows (crawl.service.ts, the UPDATEs of the counters).                   *)
CountsMatchRows ==
  status = "COMPLETED" /\ Runs = 1 =>
    /\ counts.crawled = Cardinality(RowsWith("COMPLETED"))
    /\ counts.failed = Cardinality(RowsWith("FAILED"))

(* A selection that is answered has put every page it picked on the         *)
(* training-queue, whatever other selections do and wherever they fail, and *)
(* no page is trained that is not marked (crawl.service.ts selectPages: the *)
(* mark comes before the adds, the answer after the last of them).         *)
SelectionHonest ==
  /\ \A u \in Users : At(u, "done") =>
       \A i \in user[u].picked : \E j \in training : j.by = u /\ j.page = i
  /\ bot => \A j \in training : pages[j.page].selected

(* A selected page has a training job, or a request that is adding them:    *)
(* the comment of selectPages says that it marks pages and enqueues them.  *)
(* A request that fails between the two leaves the mark and no job, and    *)
(* getPendingPages no longer offers the page (crawl.service.ts:138,:178).  *)
SelectedIsTrained ==
  \A i \in DOMAIN pages :
    pages[i].selected => \/ \E j \in training : j.page = i
                         \/ \E u \in Users : At(u, "enqueue") /\ i \in user[u].todo

(* A crawl canceled while no worker is at it is never taken up again, also  *)
(* when a retry was due (crawl.service.ts processCrawlJob).                *)
CancelledWhileWaiting ==
  [](status = "CANCELLED" /\ Doing("idle") => [](status # "PROCESSING"))

(* A crawl that is on the queue comes to an end, whatever its pages answer, *)
(* when fewer calls throw than the job has attempts and fewer processes die *)
(* than it may stall (crawl.worker.ts process, crawl.service.ts attempts);  *)
(* one that startCrawl could not put on the queue stays QUEUED.            *)
EveryCrawlEnds ==
  bull.state = "wait" ~>
    ~bot \/ (status \in {"COMPLETED", "FAILED", "CANCELLED"} /\ Doing("idle"))
=============================================================================
