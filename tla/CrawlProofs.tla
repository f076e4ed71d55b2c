----------------------------- MODULE CrawlProofs ----------------------------
(***************************************************************************)
(* What a crawl guarantees for any site, spelling, depth, limit, users,    *)
(* attempts and faults: the types; that a run stores a page, or fails it,  *)
(* at most once; that the counters of a crawl completed in one run are     *)
(* those of its rows; that the crawl covers what depth and limit allow and *)
(* no more; that a selected page is or will be in training; and that a     *)
(* crawl canceled while it waits is not taken up again.                    *)
(***************************************************************************)
EXTENDS Crawl, FiniteSetTheorems, SequenceTheorems, TLAPS

-----------------------------------------------------------------------------
(* Induction, from the finite sets: the initial segments of a set of       *)
(* naturals have a smallest one.                                           *)

LEMMA LeastNatural ==
  ASSUME NEW T, T \subseteq Nat, T # {}
  PROVE  \E x \in T : \A y \in T : x <= y
<1> DEFINE F == {1 .. n : n \in T}
           Below == StrictSubsetOrdering(Nat)
<1>1. F \subseteq FiniteSubsetsOf(Nat) /\ F # {}
  <2>1. ASSUME NEW n \in T PROVE 1 .. n \in SUBSET Nat /\ IsFiniteSet(1 .. n)
    BY FS_Interval
  <2> QED BY <2>1 DEF FiniteSubsetsOf
<1>2. PICK X \in F : \A Y \in F : ~(<<Y, X>> \in Below)
  <2> HIDE DEF F
  <2> QED BY <1>1, WFMin, FS_StrictSubsetOrderingWellFounded
<1>3. PICK x \in T : X = 1 .. x
  OBVIOUS
<1>4. ASSUME NEW y \in T, y < x PROVE FALSE
  <2>1. 1 .. y \subseteq 1 .. x /\ 1 .. y # 1 .. x
    <3>1. x \in 1 .. x /\ x \notin 1 .. y
      BY <1>4
    <3> QED BY <1>4, <3>1
  <2>2. 1 .. y \in SUBSET Nat /\ 1 .. x \in SUBSET Nat
    OBVIOUS
  <2>3. ~(<<1 .. y, 1 .. x>> \in Below)
    <3>1. 1 .. y \in F
      OBVIOUS
    <3> HIDE DEF F, Below
    <3> QED BY <1>2, <1>3, <3>1
  <2>4. \A X1, Y1 \in SUBSET Nat : X1 \subseteq Y1 /\ X1 # Y1 => <<X1, Y1>> \in Below
    BY Zenon DEF StrictSubsetOrdering
  <2> HIDE DEF Below
  <2> QED BY <2>1, <2>2, <2>3, <2>4
<1> QED BY <1>4

(* Induction, over a set of naturals. *)
LEMMA Induction ==
  ASSUME NEW S, 0 \in S, \A n \in Nat : n \in S => n + 1 \in S
  PROVE  Nat \subseteq S
<1> SUFFICES ASSUME Nat \ S # {} PROVE FALSE
  OBVIOUS
<1>1. PICK x \in Nat \ S : \A y \in Nat \ S : x <= y
  BY LeastNatural
<1>2. x - 1 \in Nat /\ x - 1 \notin S
  BY <1>1
<1> QED BY <1>1, <1>2

(* A function defined by recursion from a first value and the steps g. *)
Follows(h, n, a, g) == h[0] = a /\ \A k \in Nat : k < n => h[k + 1] = g[k + 1][h[k]]
Recurses(h, T, a, g) == h \in [Nat -> T] /\ h[0] = a /\ \A k \in Nat : h[k + 1] = g[k + 1][h[k]]
LEMMA Recursion ==
  ASSUME NEW T, NEW a \in T, NEW g \in [Nat -> [T -> T]]
  PROVE  \E h : Recurses(h, T, a, g)
<1> DEFINE S == {n \in Nat : \E h \in [Nat -> T] : Follows(h, n, a, g)}
<1>1. 0 \in S
  <2>1. Follows([k \in Nat |-> a], 0, a, g)
    BY DEF Follows
  <2> QED BY <2>1
<1>2. ASSUME NEW n \in Nat, n \in S PROVE n + 1 \in S
  <2>1. PICK h \in [Nat -> T] : Follows(h, n, a, g)
    BY <1>2
  <2> DEFINE f == [h EXCEPT ![n + 1] = g[n + 1][h[n]]]
  <2>2. f \in [Nat -> T] /\ f[n + 1] = g[n + 1][h[n]] /\ \A k \in Nat : k <= n => f[k] = h[k]
    OBVIOUS
  <2>3. Follows(f, n + 1, a, g)
    <3> HIDE DEF f
    <3>1. ASSUME NEW k \in Nat, k < n + 1 PROVE f[k + 1] = g[k + 1][f[k]]
      <4>1. CASE k < n
        BY <2>1, <2>2, <4>1 DEF Follows
      <4>2. CASE k = n
        BY <2>2, <4>2
      <4> QED BY <3>1, <4>1, <4>2
    <3> QED BY <2>1, <2>2, <3>1 DEF Follows
  <2> HIDE DEF f
  <2> QED BY <2>2, <2>3
<1>3. Nat \subseteq S
  <2> HIDE DEF S
  <2> QED BY <1>1, <1>2, Induction
<1> DEFINE part(n) == CHOOSE h \in [Nat -> T] : Follows(h, n, a, g)
<1>4. ASSUME NEW n \in Nat PROVE part(n) \in [Nat -> T] /\ Follows(part(n), n, a, g)
  <2>1. \E h \in [Nat -> T] : Follows(h, n, a, g)
    BY <1>3
  <2> QED BY <2>1, Zenon
<1> HIDE DEF part
<1>5. ASSUME NEW n \in Nat, NEW k \in Nat, k <= n PROVE part(n)[k] = part(k)[k]
  <2> DEFINE A == {i \in Nat : i <= k => part(n)[i] = part(k)[i]}
  <2>1. 0 \in A
    BY <1>4 DEF Follows
  <2>2. ASSUME NEW i \in Nat, i \in A PROVE i + 1 \in A
    BY <1>4, <1>5, <2>2 DEF Follows
  <2>3. Nat \subseteq A
    <3> HIDE DEF A
    <3> QED BY <2>1, <2>2, Induction
  <2> QED BY <2>3
<1> DEFINE h == [n \in Nat |-> part(n)[n]]
<1>6. h \in [Nat -> T] /\ h[0] = a
  BY <1>4 DEF Follows
<1>7. ASSUME NEW k \in Nat PROVE h[k + 1] = g[k + 1][h[k]]
  <2>1. part(k + 1)[k + 1] = g[k + 1][part(k + 1)[k]]
    BY <1>4 DEF Follows
  <2>2. part(k + 1)[k] = part(k)[k]
    BY <1>5
  <2> QED BY <2>1, <2>2
<1> HIDE DEF h
<1> QED BY <1>6, <1>7 DEF Recurses

(* Pushing the links keeps the queue a queue. *)
PushedStep(links, w) ==
  [n \in Nat |-> [q \in Seq(Items) |->
     IF n \in 1 .. Len(links) /\ Norm[links[n]] \notin w.visited
     THEN Append(q, [href |-> links[n], depth |-> w.item.depth + 1]) ELSE q]]

PushedValue(links, w, queue, n) ==
  IF n = 0 THEN w.queue
  ELSE IF Norm[links[n]] \in w.visited THEN queue[n - 1]
  ELSE Append(queue[n - 1], [href |-> links[n], depth |-> w.item.depth + 1])
PushedBody(links, w, queue) == [n \in 0 .. Len(links) |-> PushedValue(links, w, queue, n)]

LEMMA PushedBy ==
  ASSUME NEW links \in Seq(Hrefs), NEW w, w.queue \in Seq(Items), w.item \in Items
  PROVE  \E queue \in [0 .. Len(links) -> Seq(Items)] :
           queue = PushedBody(links, w, queue) /\ Pushed(links, w) = queue[Len(links)]
<1> DEFINE g == PushedStep(links, w)
<1>1. ASSUME NEW n \in Nat, NEW q \in Seq(Items) PROVE g[n][q] \in Seq(Items)
  <2>1. CASE n \in 1 .. Len(links) /\ Norm[links[n]] \notin w.visited
    <3>1. [href |-> links[n], depth |-> w.item.depth + 1] \in Items
      BY <2>1 DEF Items
    <3> QED BY <2>1, <3>1 DEF PushedStep
  <2>2. CASE ~(n \in 1 .. Len(links) /\ Norm[links[n]] \notin w.visited)
    BY <2>2 DEF PushedStep
  <2> QED BY <2>1, <2>2
<1>2. g \in [Nat -> [Seq(Items) -> Seq(Items)]]
  BY <1>1 DEF PushedStep
<1>3. PICK h \in [Nat -> Seq(Items)] : h[0] = w.queue /\ \A k \in Nat : h[k + 1] = g[k + 1][h[k]]
  <2>1. \E h : Recurses(h, Seq(Items), w.queue, g)
    <3> HIDE DEF g
    <3> QED BY <1>2, Recursion
  <2> QED BY <2>1 DEF Recurses
<1> DEFINE f == [n \in 0 .. Len(links) |-> h[n]]
<1>4. f \in [0 .. Len(links) -> Seq(Items)] /\ Len(links) \in Nat /\ DOMAIN f = 0 .. Len(links)
  OBVIOUS
<1>5. ASSUME NEW n \in 0 .. Len(links) PROVE f[n] = PushedValue(links, w, f, n)
  <2>1. CASE n = 0
    BY <1>3, <2>1 DEF PushedValue
  <2>2. CASE n # 0
    <3>1. n - 1 \in Nat /\ n \in Nat /\ n \in 1 .. Len(links) /\ n - 1 \in 0 .. Len(links)
      BY <1>4, <2>2
    <3>2. h[n] = g[n][h[n - 1]]
      <4>1. PICK k \in Nat : k = n - 1 /\ k + 1 = n
        BY <3>1
      <4> HIDE DEF g
      <4> QED BY <1>3, <4>1
    <3>3. g[n][h[n - 1]] = IF Norm[links[n]] \notin w.visited
                           THEN Append(h[n - 1], [href |-> links[n], depth |-> w.item.depth + 1])
                           ELSE h[n - 1]
      BY <3>1 DEF PushedStep
    <3>4. f[n] = h[n] /\ f[n - 1] = h[n - 1]
      BY <3>1
    <3> HIDE DEF f, g
    <3> QED BY <2>2, <3>2, <3>3, <3>4 DEF PushedValue
  <2> QED BY <2>1, <2>2
<1> HIDE DEF f
<1>6. f = PushedBody(links, w, f)
  BY <1>4, <1>5 DEF PushedBody
<1> DEFINE c == CHOOSE q : q = PushedBody(links, w, q)
<1>7. c = PushedBody(links, w, c)
  BY <1>6, Zenon
<1>8. Pushed(links, w) = c[Len(links)]
  BY DEF Pushed, PushedBody, PushedValue
<1> HIDE DEF c
<1>9. DOMAIN c = 0 .. Len(links) /\ \A n \in 0 .. Len(links) : c[n] = PushedValue(links, w, c, n)
  BY <1>7 DEF PushedBody
<1>10. \A n \in 0 .. Len(links) : c[n] = f[n]
  <2> DEFINE A == {n \in Nat : n <= Len(links) => c[n] = f[n]}
  <2>1. 0 \in A
    <3>1. 0 \in 0 .. Len(links)
      BY <1>4
    <3>2. c[0] = w.queue /\ f[0] = w.queue
      BY <1>5, <1>9, <3>1 DEF PushedValue
    <3> QED BY <3>2
  <2>2. ASSUME NEW n \in Nat, n \in A PROVE n + 1 \in A
    <3>1. SUFFICES ASSUME n + 1 <= Len(links) PROVE c[n + 1] = f[n + 1]
      OBVIOUS
    <3>2. n + 1 \in 0 .. Len(links) /\ n + 1 # 0 /\ (n + 1) - 1 = n
      BY <1>4, <3>1
    <3>4. n <= Len(links)
      BY <1>4, <3>1
    <3>5. c[n] = f[n]
      BY <2>2, <3>4
    <3>3. PushedValue(links, w, c, n + 1) = PushedValue(links, w, f, n + 1)
      BY <3>2, <3>5 DEF PushedValue
    <3> QED BY <1>5, <1>9, <3>2, <3>3
  <2>3. Nat \subseteq A
    <3> HIDE DEF A
    <3> QED BY <2>1, <2>2, Induction
  <2> SUFFICES ASSUME NEW n \in 0 .. Len(links) PROVE c[n] = f[n]
    OBVIOUS
  <2>4. n \in Nat /\ n <= Len(links)
    BY <1>4
  <2>5. n \in A
    <3> HIDE DEF A
    <3> QED BY <2>3, <2>4
  <2> QED BY <2>4, <2>5
<1>11. c = f
  BY <1>4, <1>7, <1>9, <1>10 DEF PushedBody
<1> QED BY <1>4, <1>6, <1>8, <1>11

-----------------------------------------------------------------------------
(* The type invariant is inductive.                                        *)

WorkerRecords == [pc: WorkerPCs, queue: Seq(Items), visited: SUBSET Pages, item: Items, counts: Counts]
BullRecords == [state: {"none", "unsent", "wait", "active", "completed", "failed"}, attempts: Nat, stalls: Nat]
UserRecords == [pc: {"start", "cancel", "select", "enqueue", "done", "failed"}, picked: SUBSET Nat,
                todo: SUBSET Nat]

LEMMA WorkerEdits ==
  ASSUME NEW w \in WorkerRecords
  PROVE  /\ \A pc \in WorkerPCs : [w EXCEPT !.pc = pc] \in WorkerRecords
         /\ \A q \in Seq(Items) : [w EXCEPT !.queue = q] \in WorkerRecords
         /\ \A pc \in WorkerPCs, q \in Seq(Items) : [w EXCEPT !.pc = pc, !.queue = q] \in WorkerRecords
         /\ \A c \in Counts : [w EXCEPT !.counts = c] \in WorkerRecords
         /\ \A pc \in WorkerPCs, q \in Seq(Items), i \in Items, v \in SUBSET Pages, c \in Counts :
              [w EXCEPT !.pc = pc, !.queue = q, !.item = i, !.visited = v, !.counts = c]
                \in WorkerRecords
BY Zenon DEF WorkerRecords

LEMMA CountEdits ==
  ASSUME NEW c \in Counts
  PROVE  /\ [c EXCEPT !.found = c.found + 1] \in Counts
         /\ [c EXCEPT !.crawled = c.crawled + 1] \in Counts
         /\ [c EXCEPT !.failed = c.failed + 1] \in Counts
BY DEF Counts

LEMMA IdleTyped == Idle \in WorkerRecords
BY LinksAssumption DEF Idle, WorkerRecords, WorkerPCs, FirstItem, Items, NoCounts, Counts

LEMMA FailingTyped ==
  ASSUME worker \in WorkerRecords
  PROVE  Failing \in WorkerRecords
<1>1. Failing = [worker EXCEPT !.pc = "fail", !.counts = [worker.counts EXCEPT !.failed = worker.counts.failed + 1]]
  BY DEF Failing, WorkerRecords
<1>2. worker.counts \in Counts
  BY DEF WorkerRecords
<1>3. PICK c \in Counts : c = [worker.counts EXCEPT !.failed = worker.counts.failed + 1]
  BY <1>2, CountEdits
<1>4. [worker EXCEPT !.counts = c] \in WorkerRecords
  BY WorkerEdits
<1>5. [[worker EXCEPT !.counts = c] EXCEPT !.pc = "fail"] \in WorkerRecords
  BY <1>4, WorkerEdits DEF WorkerPCs
<1>6. [[worker EXCEPT !.counts = c] EXCEPT !.pc = "fail"] = [worker EXCEPT !.pc = "fail", !.counts = c]
  BY DEF WorkerRecords
<1> QED BY <1>1, <1>3, <1>5, <1>6

LEMMA FollowTyped ==
  ASSUME NEW w \in WorkerRecords
  PROVE  FollowLinks(w) \in WorkerRecords
<1>1. w.queue \in Seq(Items) /\ w.item \in Items /\ w.item.href \in Hrefs
  BY DEF WorkerRecords, Items
<1>2. Norm[w.item.href] \in Pages
  BY <1>1 DEF Pages
<1>3. Pushed(Links[Norm[w.item.href]], w) \in Seq(Items)
  <2>1. PICK links \in Seq(Hrefs) : links = Links[Norm[w.item.href]]
    BY <1>2, LinksAssumption
  <2>2. Len(links) \in 0 .. Len(links)
    BY <2>1
  <2> QED BY <1>1, <2>1, <2>2, PushedBy
<1>4. PICK q \in Seq(Items) : FollowLinks(w) = [w EXCEPT !.pc = "loop", !.queue = q]
  BY <1>1, <1>3 DEF FollowLinks
<1>5. "loop" \in WorkerPCs
  BY DEF WorkerPCs
<1>6. [w EXCEPT !.pc = "loop", !.queue = q] \in WorkerRecords
  BY <1>5, WorkerEdits
<1> QED BY <1>4, <1>6

LEMMA TypeInit == Init => TypeOK
BY IdleTyped, FaultsAssumption
DEF Init, TypeOK, WorkerRecords, NoCounts, Counts, NotQueued, AtHome

(* Steps of the users and of the deletion leave the worker as it is. *)
LEMMA TypeRequests ==
  ASSUME TypeOK,
         \/ StartCrawl \/ EnqueueCrawl \/ EnqueueFails \/ DeleteChatbot
         \/ \E u \in Users : UserStep(u) \/ RequestFails(u) \/ ReadToCancel(u)
                             \/ \E S \in SUBSET DOMAIN pages : ReadPages(u, S)
         \/ \E j \in training : TrainPage(j)
  PROVE  TypeOK'
<1> USE DEF TypeOK
<1>1. CASE StartCrawl
  BY <1>1 DEF StartCrawl, CrawlStatus, requests
<1>2. CASE EnqueueCrawl
  BY <1>2 DEF EnqueueCrawl, requests
<1>10. CASE EnqueueFails
  <2>1. faults' \in 0 .. MaxFaults
    BY <1>10, FaultsAssumption DEF EnqueueFails
  <2> QED BY <1>10, <2>1 DEF EnqueueFails, requests
<1>3. CASE DeleteChatbot
  BY <1>3 DEF DeleteChatbot, requests
<1> USE DEF UserRecords
<1>a. user \in [Users -> UserRecords]
  OBVIOUS
<1>b. ASSUME NEW u \in Users, NEW r \in UserRecords, user' = [user EXCEPT ![u] = r]
      PROVE  user' \in [Users -> UserRecords]
  BY <1>a, <1>b
<1>c. ASSUME NEW u \in Users, Finish(u) PROVE user' \in [Users -> UserRecords]
  <2>1. user' = [user EXCEPT ![u] = [user[u] EXCEPT !.pc = "done", !.todo = {}]]
    BY <1>c DEF Finish
  <2>2. [user[u] EXCEPT !.pc = "done", !.todo = {}] \in UserRecords
    BY <1>a
  <2> HIDE DEF TypeOK, UserRecords
  <2> QED BY <1>b, <2>1, <2>2
<1>4. ASSUME NEW u \in Users, WriteCancel(u) PROVE TypeOK'
  BY <1>4, <1>c DEF WriteCancel, CrawlStatus
<1>5. ASSUME NEW u \in Users, MarkSelected(u) PROVE TypeOK'
  <2>1. user' = [user EXCEPT ![u] = [user[u] EXCEPT !.pc = "enqueue"]]
    BY <1>5 DEF MarkSelected
  <2>2. pages' = [i \in DOMAIN pages |-> IF bot /\ i \in user[u].picked
                                     THEN [pages[i] EXCEPT !.selected = TRUE] ELSE pages[i]]
    BY <1>5 DEF MarkSelected
  <2>3. \A i \in DOMAIN pages : pages[i] \in PageRows
    OBVIOUS
  <2>4. \A r \in PageRows : [r EXCEPT !.selected = TRUE] \in PageRows
    BY DEF PageRows
  <2>5. \A i \in DOMAIN pages : pages'[i] \in PageRows
    BY <2>2, <2>3, <2>4
  <2>6. pages' \in Seq(PageRows)
    <3>1. pages \in Seq(PageRows)
      OBVIOUS
    <3>2. Len(pages) \in Nat /\ DOMAIN pages = 1 .. Len(pages)
      BY <3>1
    <3>3. DOMAIN pages' = 1 .. Len(pages)
      BY <2>2, <3>2
    <3>4. pages' = [i \in 1 .. Len(pages) |-> pages'[i]]
      BY <2>2, <3>2
    <3>5. pages' \in [1 .. Len(pages) -> PageRows]
      BY <2>5, <3>2, <3>4
    <3> HIDE DEF TypeOK, UserRecords
    <3> QED BY <3>2, <3>5, SeqDef
  <2>7. user' \in [Users -> UserRecords]
    <3>1. [user[u] EXCEPT !.pc = "enqueue"] \in UserRecords
      BY <1>a
    <3> HIDE DEF TypeOK, UserRecords
    <3> QED BY <1>b, <2>1, <3>1
  <2> QED BY <1>5, <2>6, <2>7 DEF MarkSelected
<1>6. ASSUME NEW u \in Users, NEW i \in user[u].todo, EnqueuePage(u, i) PROVE TypeOK'
  <2>1. training' \subseteq [by: Users, page: Nat, state: {"wait", "stored", "skipped"}]
    BY <1>6 DEF EnqueuePage
  <2>2. user' = [user EXCEPT ![u] = [user[u] EXCEPT !.todo = user[u].todo \ {i}]] \/ Finish(u)
    BY <1>6 DEF EnqueuePage
  <2>3. [user[u] EXCEPT !.todo = user[u].todo \ {i}] \in UserRecords
    OBVIOUS
  <2>4. user' \in [Users -> UserRecords]
    BY <1>b, <1>c, <2>2, <2>3
  <2> QED BY <1>6, <2>1, <2>4 DEF EnqueuePage
<1>7. ASSUME NEW u \in Users, ReadToCancel(u) PROVE TypeOK'
  <2>1. user' = [user EXCEPT ![u] = [user[u] EXCEPT !.pc = "cancel"]]
    BY <1>7 DEF ReadToCancel
  <2>2. user' \in [Users -> UserRecords]
    <3>1. [user[u] EXCEPT !.pc = "cancel"] \in UserRecords
      BY <1>a
    <3> HIDE DEF TypeOK, UserRecords
    <3> QED BY <1>b, <2>1, <3>1
  <2> QED BY <1>7, <2>2 DEF ReadToCancel
<1>8. ASSUME NEW u \in Users, NEW S \in SUBSET DOMAIN pages, ReadPages(u, S) PROVE TypeOK'
  <2>1. [pc |-> "select", picked |-> S, todo |-> S] \in UserRecords
    OBVIOUS
  <2>2. user' \in [Users -> UserRecords]
    BY <1>8, <1>b, <2>1 DEF ReadPages
  <2> QED BY <1>8, <2>2 DEF ReadPages
<1>9. ASSUME NEW j \in training, TrainPage(j) PROVE TypeOK'
  <2>1. PICK st \in {"stored", "skipped"} : training' = (training \ {j}) \cup {[j EXCEPT !.state = st]}
    BY <1>9 DEF TrainPage
  <2>2. [j EXCEPT !.state = st] \in [by: Users, page: Nat, state: {"wait", "stored", "skipped"}]
    OBVIOUS
  <2> QED BY <1>9, <2>1, <2>2 DEF TrainPage
<1>11. ASSUME NEW u \in Users, RequestFails(u) PROVE TypeOK'
  <2>1. user' = [user EXCEPT ![u] = [user[u] EXCEPT !.pc = "failed", !.todo = {}]]
    BY <1>11 DEF RequestFails
  <2>2. user' \in [Users -> UserRecords]
    <3>1. [user[u] EXCEPT !.pc = "failed", !.todo = {}] \in UserRecords
      BY <1>a
    <3> HIDE DEF TypeOK, UserRecords
    <3> QED BY <1>b, <2>1, <3>1
  <2>3. faults' \in 0 .. MaxFaults
    BY <1>11, FaultsAssumption DEF RequestFails
  <2> QED BY <1>11, <2>2, <2>3 DEF RequestFails
<1> QED BY <1>1, <1>2, <1>3, <1>4, <1>5, <1>6, <1>7, <1>8, <1>9, <1>10, <1>11 DEF UserStep

LEMMA TypeWorker ==
  ASSUME TypeOK, WorkerStep \/ CallFails \/ Crash
  PROVE  TypeOK'
<1>a. worker \in WorkerRecords /\ bull \in BullRecords
  BY DEF TypeOK, WorkerRecords, BullRecords
<1>b. ASSUME worker' \in WorkerRecords, bull' \in BullRecords, counts' \in Counts,
             status' \in CrawlStatus \cup {"NONE"}, pages' \in Seq(PageRows), faults' \in 0 .. MaxFaults,
             UNCHANGED <<bot, training, user>>
      PROVE  TypeOK'
  BY <1>b DEF TypeOK, WorkerRecords, BullRecords
<1>c. \A pc \in WorkerPCs : [worker EXCEPT !.pc = pc] \in WorkerRecords
  BY <1>a, WorkerEdits
<1>d. \A st \in {"wait", "active", "completed", "failed"} : [bull EXCEPT !.state = st] \in BullRecords
  BY <1>a DEF BullRecords
<1>e. /\ counts \in Counts /\ status \in CrawlStatus \cup {"NONE"} /\ pages \in Seq(PageRows)
      /\ faults \in 0 .. MaxFaults /\ worker.counts \in Counts
  BY DEF TypeOK
<1>1. CASE PickJob
  <2>1. [Idle EXCEPT !.pc = "find"] \in WorkerRecords
    BY IdleTyped, WorkerEdits DEF WorkerPCs
  <2> QED BY <1>1, <1>b, <1>d, <1>e, <2>1 DEF PickJob, requests
<1>2. CASE FindJob \/ LeaveLoop
  <2>1. PICK pc \in WorkerPCs : worker' = [worker EXCEPT !.pc = pc]
    BY <1>2 DEF FindJob, LeaveLoop, Goto, WorkerPCs
  <2>2. worker' \in WorkerRecords
    BY <1>c, <2>1
  <2> QED BY <1>2, <1>a, <1>b, <1>e, <2>2 DEF FindJob, LeaveLoop, requests
<1>3. CASE MarkProcessing
  <2>1. FirstItem \in Items
    BY LinksAssumption DEF FirstItem, Items
  <2>2. <<FirstItem>> \in Seq(Items) /\ "loop" \in WorkerPCs
    BY <2>1 DEF WorkerPCs
  <2>3. worker' \in WorkerRecords
    BY <1>3, <1>a, <2>2, WorkerEdits DEF MarkProcessing
  <2> QED BY <1>3, <1>a, <1>b, <1>e, <2>3 DEF MarkProcessing, requests, CrawlStatus
<1>4. CASE NextItem
  <2>1. PICK item \in Items, rest \in Seq(Items) : item = Head(worker.queue) /\ rest = Tail(worker.queue)
    <3>1. worker.queue # <<>>
      BY <1>4 DEF NextItem, LoopEnds
    <3>2. PICK q \in Seq(Items) : q = worker.queue
      BY <1>a DEF WorkerRecords
    <3>3. Head(q) \in Items /\ Tail(q) \in Seq(Items)
      BY <3>1, <3>2
    <3> QED BY <3>2, <3>3
  <2>2. Norm[item.href] \in Pages
    BY DEF Items, Pages
  <2>3. CASE worker' = [worker EXCEPT !.queue = rest]
    <3>1. worker' \in WorkerRecords
      BY <1>a, <2>3, WorkerEdits
    <3> QED BY <1>4, <1>a, <1>b, <1>e, <3>1 DEF NextItem, requests
  <2>4. CASE worker' = [worker EXCEPT !.pc = "fetch", !.queue = rest, !.item = item,
                          !.visited = worker.visited \cup {Norm[item.href]},
                          !.counts.found = worker.counts.found + 1]
    <3>1. PICK c \in Counts : c = [worker.counts EXCEPT !.found = worker.counts.found + 1]
      BY <1>e, CountEdits
    <3>2. PICK v \in SUBSET Pages : v = worker.visited \cup {Norm[item.href]}
      BY <1>a, <2>2 DEF WorkerRecords
    <3>3. worker' = [worker EXCEPT !.pc = "fetch", !.queue = rest, !.item = item, !.visited = v,
                                   !.counts = c]
      BY <1>a, <2>4, <3>1, <3>2 DEF WorkerRecords
    <3>4. "fetch" \in WorkerPCs
      BY DEF WorkerPCs
    <3>5. worker' \in WorkerRecords
      BY <1>a, <3>3, <3>4, WorkerEdits
    <3> QED BY <1>4, <1>a, <1>b, <1>e, <3>5 DEF NextItem, requests
  <2> QED BY <1>4, <2>1, <2>3, <2>4 DEF NextItem
<1>5. CASE Fetch
  <2>1. worker' \in WorkerRecords
    BY <1>5, <1>a, <1>c, FailingTyped DEF Fetch, Goto, WorkerPCs
  <2> QED BY <1>5, <1>a, <1>b, <1>e, <2>1 DEF Fetch, requests
<1>6. CASE StorePage
  <2>1. PICK s \in WorkerRecords : s = [worker EXCEPT !.counts.crawled = worker.counts.crawled + 1]
    <3>1. PICK c \in Counts : c = [worker.counts EXCEPT !.crawled = worker.counts.crawled + 1]
      BY <1>e, CountEdits
    <3>2. [worker EXCEPT !.counts = c] \in WorkerRecords
      BY <1>a, WorkerEdits
    <3>3. [worker EXCEPT !.counts = c] = [worker EXCEPT !.counts.crawled = worker.counts.crawled + 1]
      BY <1>a, <3>1 DEF WorkerRecords
    <3> QED BY <3>2, <3>3
  <2>2. worker' = [s EXCEPT !.pc = "count"] \/ worker' = FollowLinks(s)
    BY <1>6, <2>1 DEF StorePage
  <2>3. worker' \in WorkerRecords
    BY <2>2, WorkerEdits, FollowTyped DEF WorkerPCs
  <2>4. PageRow(Norm[worker.item.href], "COMPLETED") \in PageRows
    BY <1>a DEF PageRow, PageRows, WorkerRecords, Items, Pages
  <2>5. pages' \in Seq(PageRows)
    BY <1>6, <1>e, <2>4 DEF StorePage
  <2> QED BY <1>6, <1>a, <1>b, <1>e, <2>3, <2>5 DEF StorePage, requests
<1>7. CASE CountPages
  <2>1. worker' \in WorkerRecords
    BY <1>7, <1>a, FollowTyped DEF CountPages
  <2> QED BY <1>7, <1>a, <1>b, <1>e, <2>1 DEF CountPages, requests
<1>8. CASE RecordFailure
  <2>1. PageRow(Norm[worker.item.href], "FAILED") \in PageRows
    BY <1>a DEF PageRow, PageRows, WorkerRecords, Items, Pages
  <2>2. pages' \in Seq(PageRows)
    BY <1>8, <1>e, <2>1 DEF RecordFailure
  <2>3. worker' \in WorkerRecords
    BY <1>8, <1>c DEF RecordFailure, Goto, WorkerPCs
  <2> QED BY <1>8, <1>a, <1>b, <1>e, <2>2, <2>3 DEF RecordFailure, requests
<1>9. CASE CloseJob \/ FailJob
  <2>1. worker' \in WorkerRecords
    BY <1>9, <1>c DEF CloseJob, FailJob, Goto, WorkerPCs
  <2> QED BY <1>9, <1>a, <1>b, <1>e, <2>1 DEF CloseJob, FailJob, requests, CrawlStatus
<1>10. CASE RowIsGone \/ CallFails
  <2>1. worker' \in WorkerRecords
    <3>1. worker' = Failing \/ \E pc \in WorkerPCs : worker' = [worker EXCEPT !.pc = pc]
      BY <1>10 DEF RowIsGone, CallFails, Thrown, WorkerPCs
    <3> QED BY <1>a, <1>c, <3>1, FailingTyped
  <2>2. faults' \in 0 .. MaxFaults
    BY <1>10, <1>e, FaultsAssumption DEF RowIsGone, CallFails
  <2> QED BY <1>10, <1>a, <1>b, <1>e, <2>1, <2>2 DEF RowIsGone, CallFails, requests
<1>11. CASE Rethrow \/ Crash
  <2>1. bull' \in BullRecords
    <3>a. bull.attempts + 1 \in Nat /\ bull.stalls + 1 \in Nat
      BY <1>a DEF BullRecords
    <3>1. CASE Rethrow
      <4>1. PICK st \in {"wait", "failed"}, n \in Nat :
              bull' = [bull EXCEPT !.attempts = n, !.state = st]
        BY <3>1, <3>a DEF Rethrow
      <4> QED BY <1>a, <4>1 DEF BullRecords
    <3>2. CASE Crash
      <4>1. PICK st \in {"wait", "failed"}, n \in Nat :
              bull' = [bull EXCEPT !.stalls = n, !.state = st]
        BY <3>2, <3>a DEF Crash
      <4> QED BY <1>a, <4>1 DEF BullRecords
    <3> QED BY <1>11, <3>1, <3>2
  <2>2. faults' \in 0 .. MaxFaults
    BY <1>11, <1>e, FaultsAssumption DEF Rethrow, Crash
  <2> QED BY <1>11, <1>b, <1>e, <2>1, <2>2, IdleTyped DEF Rethrow, Crash, requests
<1>12. CASE Complete
  BY <1>12, <1>b, <1>d, <1>e, IdleTyped DEF Complete, EndJob, requests
<1> QED BY <1>1, <1>2, <1>3, <1>4, <1>5, <1>6, <1>7, <1>8, <1>9, <1>10, <1>11, <1>12 DEF WorkerStep

LEMMA TypeStep == TypeOK /\ [Next]_vars => TypeOK'
<1> SUFFICES ASSUME TypeOK, [Next]_vars PROVE TypeOK'
  OBVIOUS
<1>1. CASE UNCHANGED vars
  BY <1>1 DEF vars, TypeOK
<1> QED BY <1>1, TypeRequests, TypeWorker DEF Next

(* The rows, the jobs and the worker's queue, which only holds links of    *)
(* the site, are well typed in every reachable state.                      *)
THEOREM TypeCorrect == Spec => []TypeOK
BY TypeInit, TypeStep, PTL DEF Spec

-----------------------------------------------------------------------------
(* Selected pages are trained.                                             *)

Has(u, i) == \E j \in training : j.by = u /\ j.page = i
Marked(i) == i \in DOMAIN pages /\ (bot => pages[i].selected)

(* A request picks pages there are, has enqueued none of them before it has *)
(* marked them all, and each of them is either still to do or has its job.  *)
SelectOf(u) ==
  /\ user[u].picked \subseteq DOMAIN pages
  /\ At(u, "start") \/ At(u, "cancel") => user[u].picked = {}
  /\ At(u, "select") => user[u].todo = user[u].picked
  /\ At(u, "enqueue") => /\ user[u].todo \subseteq user[u].picked
                         /\ \A i \in user[u].picked : Marked(i) /\ (i \in user[u].todo \/ Has(u, i))
  /\ At(u, "done") => \A i \in user[u].picked : Has(u, i)
SelectInv ==
  /\ \A u \in Users : SelectOf(u)
  /\ \A j \in training : Marked(j.page)

(* Marks stay, rows are only added, and no job of a request is lost.       *)
Keeps ==
  /\ DOMAIN pages \subseteq DOMAIN pages' /\ (bot' => bot)
  /\ \A i \in DOMAIN pages : pages[i].selected => pages'[i].selected
  /\ \A j \in training : \E k \in training' : k.by = j.by /\ k.page = j.page

LEMMA MarkedKept ==
  ASSUME Keeps, NEW i, Marked(i)
  PROVE  Marked(i)'
BY DEF Keeps, Marked

LEMMA HasKept ==
  ASSUME Keeps, NEW u, NEW i, Has(u, i)
  PROVE  Has(u, i)'
BY DEF Keeps, Has

(* A step that leaves a request alone leaves what holds of it.             *)
LEMMA SelectKept ==
  ASSUME Keeps, NEW u \in Users, SelectOf(u), user'[u] = user[u]
  PROVE  SelectOf(u)'
<1>1. \A i \in user[u].picked : (Marked(i) => Marked(i)') /\ (Has(u, i) => Has(u, i)')
  BY MarkedKept, HasKept
<1>2. DOMAIN pages \subseteq DOMAIN pages'
  BY DEF Keeps
<1>3. user'[u].picked \subseteq DOMAIN pages'
  BY <1>2 DEF SelectOf
<1> QED BY <1>1, <1>3 DEF SelectOf, At

(* Only the users' requests, new rows and jobs that are done touch it.     *)
LEMMA SelectOthers ==
  ASSUME SelectInv, Keeps, user' = user,
         \A k \in training' : \E j \in training : k.by = j.by /\ k.page = j.page
  PROVE  SelectInv'
<1>1. \A u \in Users : SelectOf(u)'
  BY SelectKept DEF SelectInv
<1>2. ASSUME NEW k \in training' PROVE Marked(k.page)'
  <2>1. PICK j \in training : k.by = j.by /\ k.page = j.page
    OBVIOUS
  <2>2. PICK i : i = j.page
    OBVIOUS
  <2>3. Marked(i)
    BY <2>2 DEF SelectInv
  <2>4. Marked(i)' /\ i = k.page
    BY <2>1, <2>2, <2>3, MarkedKept
  <2> QED BY <2>4
<1>3. \A k \in training' : (k.page \in DOMAIN pages)' /\ (bot => pages[k.page].selected)'
  BY <1>2 DEF Marked
<1> QED BY <1>1, <1>3 DEF SelectInv, Marked

(* A request's own step: the others keep what they have.                   *)
LEMMA SelectRequest ==
  ASSUME SelectInv, Keeps, NEW u \in Users, SelectOf(u)',
         \A v \in Users \ {u} : user'[v] = user[v],
         \A k \in training' : k \in training \/ Marked(k.page)
  PROVE  SelectInv'
<1>1. \A v \in Users : SelectOf(v)'
  <2> SUFFICES ASSUME NEW v \in Users PROVE SelectOf(v)'
    OBVIOUS
  <2>1. CASE v = u
    BY <2>1
  <2>2. CASE v # u
    BY <2>2, SelectKept DEF SelectInv
  <2> QED BY <2>1, <2>2
<1>2. \A k \in training' : (k.page \in DOMAIN pages)' /\ (bot => pages[k.page].selected)'
  <2> SUFFICES ASSUME NEW k \in training' PROVE (k.page \in DOMAIN pages)' /\ (bot => pages[k.page].selected)'
    OBVIOUS
  <2>1. PICK i : i = k.page
    OBVIOUS
  <2>2. Marked(i)
    BY <2>1 DEF SelectInv
  <2>3. Marked(i)'
    BY <2>2, MarkedKept
  <2> QED BY <2>1, <2>3 DEF Marked
<1> QED BY <1>1, <1>2 DEF SelectInv, Marked

LEMMA SelectUser ==
  ASSUME TypeOK, SelectInv, NEW u \in Users,
         UserStep(u) \/ RequestFails(u) \/ ReadToCancel(u)
                             \/ \E S \in SUBSET DOMAIN pages : ReadPages(u, S)
  PROVE  SelectInv'
<1>a. SelectOf(u)
  BY DEF SelectInv
<1>b. user \in [Users -> UserRecords]
  BY DEF TypeOK, UserRecords
<1>1. CASE WriteCancel(u) \/ ReadToCancel(u) \/ RequestFails(u) \/ \E S \in SUBSET DOMAIN pages : ReadPages(u, S)
  <2>1. UNCHANGED <<bot, pages, training>> /\ Keeps
    BY <1>1 DEF WriteCancel, ReadToCancel, RequestFails, ReadPages, Keeps
  <2>2. \A v \in Users \ {u} : user'[v] = user[v]
    BY <1>1, <1>b DEF WriteCancel, ReadToCancel, RequestFails, ReadPages, Finish
  <2>3. SelectOf(u)'
    <3>1. CASE WriteCancel(u) \/ ReadToCancel(u)
      <4>1. user'[u].pc \in {"done", "cancel"} /\ user'[u].picked = user[u].picked /\ user[u].picked = {}
        BY <3>1, <1>a, <1>b DEF WriteCancel, ReadToCancel, Finish, At, SelectOf, UserRecords
      <4> QED BY <4>1 DEF SelectOf, At
    <3>2. CASE RequestFails(u)
      <4>1. user'[u].pc = "failed" /\ user'[u].picked = user[u].picked
        BY <3>2, <1>b DEF RequestFails, UserRecords
      <4> QED BY <1>a, <2>1, <4>1 DEF SelectOf, At
    <3>3. CASE \E S \in SUBSET DOMAIN pages : ReadPages(u, S)
      <4>1. PICK S \in SUBSET DOMAIN pages : ReadPages(u, S)
        BY <3>3
      <4>2. user'[u].pc = "select" /\ user'[u].todo = S /\ user'[u].picked = S
        BY <4>1, <1>b DEF ReadPages
      <4> QED BY <2>1, <4>2 DEF SelectOf, At
    <3> QED BY <1>1, <3>1, <3>2, <3>3
  <2> QED BY <2>1, <2>2, <2>3, SelectRequest
<1>2. CASE MarkSelected(u)
  <2>1. \A v \in Users \ {u} : user'[v] = user[v]
    BY <1>2, <1>b DEF MarkSelected
  <2>2. /\ user'[u].pc = "enqueue" /\ user'[u].todo = user[u].todo /\ user'[u].picked = user[u].picked
        /\ user[u].todo = user[u].picked
    BY <1>2, <1>a, <1>b DEF MarkSelected, SelectOf, UserRecords
  <2>3. training' = training /\ bot' = bot /\ DOMAIN pages' = DOMAIN pages
    BY <1>2 DEF MarkSelected
  <2>4. ASSUME NEW i \in DOMAIN pages
        PROVE  pages'[i].selected = IF bot /\ i \in user[u].picked THEN TRUE ELSE pages[i].selected
    <3>1. pages[i] \in PageRows
      BY DEF TypeOK
    <3> QED BY <1>2, <3>1 DEF MarkSelected, PageRows
  <2>5. Keeps
    BY <2>3, <2>4 DEF Keeps
  <2>6. \A i \in user'[u].picked : Marked(i)'
    BY <1>a, <2>2, <2>3, <2>4 DEF Marked, SelectOf
  <2>7. SelectOf(u)'
    BY <1>a, <2>2, <2>3, <2>6 DEF SelectOf, At
  <2> QED BY <2>1, <2>3, <2>5, <2>7, SelectRequest
<1>3. CASE \E i \in user[u].todo : EnqueuePage(u, i)
  <2>1. PICK i \in user[u].todo : EnqueuePage(u, i)
    BY <1>3
  <2>2. \A v \in Users \ {u} : user'[v] = user[v]
    BY <2>1, <1>b DEF EnqueuePage, Finish
  <2>3. /\ user'[u].picked = user[u].picked
        /\ \/ user[u].todo = {i} /\ user'[u].pc = "done"
           \/ user'[u].todo = user[u].todo \ {i} /\ user'[u].pc = "enqueue"
    BY <2>1, <1>b DEF EnqueuePage, Finish, At, UserRecords
  <2>4. UNCHANGED <<bot, pages>> /\ At(u, "enqueue")
    BY <2>1 DEF EnqueuePage
  <2>5. PICK j : training' = training \cup {j} /\ j.by = u /\ j.page = i
    <3> DEFINE new == [by |-> u, page |-> i, state |-> "wait"]
    <3>1. training' = training \cup {new} /\ new.page = i /\ new.by = u
      BY <2>1 DEF EnqueuePage
    <3> HIDE DEF new
    <3> QED BY <3>1
  <2>6. Keeps /\ Has(u, i)'
    BY <2>4, <2>5 DEF Keeps, Has
  <2>7. \A k \in user[u].picked : Marked(k) /\ (k \in user[u].todo \/ Has(u, k))
    BY <1>a, <2>4 DEF SelectOf
  <2>8. \A k \in user[u].picked : Marked(k)' /\ (Has(u, k) => Has(u, k)')
    BY <2>6, <2>7, MarkedKept, HasKept
  <2>9. SelectOf(u)'
    <3>1. user[u].picked \subseteq DOMAIN pages' /\ user[u].todo \subseteq user[u].picked
      BY <1>a, <2>4 DEF SelectOf
    <3> QED BY <2>3, <2>6, <2>7, <2>8, <3>1 DEF SelectOf, At
  <2>10. Marked(j.page)
    BY <2>5, <2>7, <2>4, <1>a DEF SelectOf
  <2> QED BY <2>2, <2>5, <2>6, <2>9, <2>10, SelectRequest
<1> QED BY <1>1, <1>2, <1>3 DEF UserStep

LEMMA SelectStep == TypeOK /\ SelectInv /\ [Next]_vars => SelectInv'
<1> SUFFICES ASSUME TypeOK, SelectInv, [Next]_vars PROVE SelectInv'
  OBVIOUS
<1>1. CASE StartCrawl \/ EnqueueCrawl \/ EnqueueFails \/ DeleteChatbot \/ UNCHANGED vars
  <2>1. UNCHANGED <<pages, training, user>> /\ (bot' => bot)
    BY <1>1 DEF StartCrawl, EnqueueCrawl, EnqueueFails, DeleteChatbot, vars, requests
  <2> QED BY <2>1, SelectOthers DEF Keeps
<1>2. ASSUME NEW j \in training, TrainPage(j) PROVE SelectInv'
  <2>1. PICK st : training' = (training \ {j}) \cup {[j EXCEPT !.state = st]}
    BY <1>2 DEF TrainPage
  <2>2. j \in [by: Users, page: Nat, state: {"wait", "stored", "skipped"}]
    BY DEF TypeOK
  <2>3. PICK new : training' = (training \ {j}) \cup {new} /\ new.page = j.page /\ new.by = j.by
    <3> DEFINE done == [j EXCEPT !.state = st]
    <3>1. training' = (training \ {j}) \cup {done} /\ done.page = j.page /\ done.by = j.by
      BY <2>1, <2>2
    <3> HIDE DEF done
    <3> QED BY <3>1
  <2>4. UNCHANGED <<bot, pages, user>>
    BY <1>2 DEF TrainPage
  <2> QED BY <2>3, <2>4, SelectOthers DEF Keeps
<1>3. CASE WorkerStep \/ CallFails \/ Crash
  <2>1. UNCHANGED requests /\ bot' = bot
    BY <1>3 DEF WorkerStep, CallFails, Crash, PickJob, FindJob, MarkProcessing, LeaveLoop, NextItem,
                Fetch, StorePage, CountPages, RecordFailure, CloseJob, FailJob, RowIsGone, Rethrow,
                Complete
  <2>2. pages' = pages \/ \E p, st : pages' = Append(pages, PageRow(p, st))
    BY <1>3 DEF WorkerStep, CallFails, Crash, PickJob, FindJob, MarkProcessing, LeaveLoop, NextItem,
                Fetch, StorePage, CountPages, RecordFailure, CloseJob, FailJob, RowIsGone, Rethrow,
                Complete
  <2>3. pages \in Seq(PageRows)
    BY DEF TypeOK
  <2>4. DOMAIN pages \subseteq DOMAIN pages' /\ \A i \in DOMAIN pages : pages'[i] = pages[i]
    BY <2>2, <2>3
  <2> QED BY <2>1, <2>4, SelectOthers DEF Keeps, requests
<1> QED BY <1>1, <1>2, <1>3, SelectUser DEF Next

(* A selection that is answered has enqueued all its pages and no page is   *)
(* trained unmarked, for any number of overlapping requests, any site and   *)
(* wherever the requests and the crawl fail.                               *)
THEOREM SelectedCorrect == Spec => []SelectionHonest
<1>1. Init => SelectInv
  BY DEF Init, SelectInv, SelectOf, At, AtHome
<1>2. SelectInv => SelectionHonest
  BY DEF SelectInv, SelectOf, SelectionHonest, Has, Marked
<1> QED BY <1>1, <1>2, SelectStep, TypeCorrect, PTL DEF Spec

-----------------------------------------------------------------------------
(* A canceled crawl that waits is not taken up again.                      *)

Stays == status = "CANCELLED" /\ worker.pc \in {"idle", "find", "complete", "rethrow"}

LEMMA StaysStep == TypeOK /\ Stays /\ [Next]_vars => Stays'
<1> SUFFICES ASSUME TypeOK, Stays, [Next]_vars PROVE Stays'
  OBVIOUS
<1>a. worker \in WorkerRecords
  BY DEF TypeOK, WorkerRecords
<1> USE DEF Stays
<1>1. CASE StartCrawl \/ EnqueueCrawl \/ EnqueueFails \/ DeleteChatbot \/ UNCHANGED vars
  BY <1>1 DEF StartCrawl, EnqueueCrawl, EnqueueFails, DeleteChatbot, vars
<1>2. CASE \E u \in Users : UserStep(u) \/ RequestFails(u) \/ ReadToCancel(u)
                             \/ \E S \in SUBSET DOMAIN pages : ReadPages(u, S)
  BY <1>2 DEF UserStep, WriteCancel, MarkSelected, EnqueuePage, RequestFails, ReadToCancel, ReadPages
<1>3. CASE \E j \in training : TrainPage(j)
  BY <1>3 DEF TrainPage
<1>4. CASE WorkerStep \/ CallFails \/ Crash
  <2>1. status' = status
    BY <1>4 DEF WorkerStep, CallFails, Crash, PickJob, FindJob, MarkProcessing, LeaveLoop, NextItem,
                Fetch, StorePage, CountPages, RecordFailure, CloseJob, FailJob, RowIsGone, Rethrow,
                Complete, Doing
  <2>2. CASE PickJob
    BY <2>1, <2>2, IdleTyped DEF PickJob, WorkerRecords
  <2>3. CASE FindJob
    BY <1>a, <2>1, <2>3 DEF FindJob, Goto, WorkerRecords
  <2>4. CASE CallFails
    BY <1>a, <2>1, <2>4 DEF CallFails, Thrown, Doing, WorkerRecords
  <2>5. CASE Rethrow \/ Complete \/ Crash
    BY <2>1, <2>5 DEF Rethrow, Complete, Crash, EndJob, Idle
  <2> QED BY <1>4, <2>2, <2>3, <2>4, <2>5
          DEF WorkerStep, MarkProcessing, LeaveLoop, NextItem, Fetch, StorePage, CountPages,
              RecordFailure, CloseJob, FailJob, RowIsGone, Doing
<1> QED BY <1>1, <1>2, <1>3, <1>4 DEF Next

(* A crawl canceled while no worker is at it never runs again, also when   *)
(* the queue still holds its job or a retry of it.                         *)
THEOREM CancelCorrect == Spec => CancelledWhileWaiting
<1>1. status = "CANCELLED" /\ Doing("idle") => Stays
  BY DEF Stays, Doing
<1>2. Stays => status # "PROCESSING"
  BY DEF Stays
<1> QED BY <1>1, <1>2, StaysStep, TypeCorrect, PTL DEF Spec, CancelledWhileWaiting

-----------------------------------------------------------------------------
(* The kinds of steps, by what they do to the rows, the counters and the   *)
(* worker's position.                                                      *)

Own == Norm[worker.item.href]
RunInv == Doing("idle") <=> bull.state # "active"

SameRows ==
  /\ DOMAIN pages' = DOMAIN pages
  /\ \A i \in DOMAIN pages : pages'[i].url = pages[i].url /\ pages'[i].status = pages[i].status
NewRow(st) == pages' = Append(pages, PageRow(Own, st))

(* Requests, and steps that change nothing. *)
Others ==
  /\ worker' = worker /\ Runs' = Runs /\ SameRows /\ counts' = counts
  /\ status' = status \/ status' \in {"QUEUED", "CANCELLED"}
(* A run begins, and ends. *)
Begins ==
  /\ worker.pc = "idle" /\ worker' = [Idle EXCEPT !.pc = "find"] /\ Runs' = Runs + 1
  /\ UNCHANGED <<status, counts, pages>>
Ends ==
  /\ worker.pc # "idle" /\ worker' = Idle /\ Runs' = Runs
  /\ UNCHANGED <<status, counts, pages>>
(* Within a run: from is left for to. *)
Goes(from, to) ==
  /\ worker.pc \in from /\ worker'.pc \in to
  /\ worker'.item = worker.item /\ worker'.visited = worker.visited
  /\ Runs' = Runs
Moves ==
  /\ \/ Goes({"find"}, {"mark", "complete"})
     \/ Goes({"loop"}, {"loop", "close"})
     \/ Goes({"fetch"}, {"store", "loop"})
     \/ Goes({"count"}, {"loop"})
     \/ Goes({"find", "mark", "loop", "fail", "close", "failJob"}, {"failJob", "rethrow"})
  /\ worker'.counts = worker.counts /\ pages' = pages /\ status' = status
Marks ==
  /\ Goes({"mark"}, {"loop"}) /\ worker'.counts = worker.counts /\ pages' = pages
  /\ status' = "PROCESSING"
Takes ==
  /\ worker.pc = "loop" /\ worker'.pc = "fetch" /\ Own' \notin worker.visited
  /\ worker'.visited = worker.visited \cup {Own'}
  /\ worker'.counts = [worker.counts EXCEPT !.found = worker.counts.found + 1]
  /\ worker.counts.crawled < Limit
  /\ Runs' = Runs /\ pages' = pages /\ status' = status
Fails ==
  /\ Goes({"fetch", "store", "count"}, {"fail"}) /\ pages' = pages /\ status' = status
  /\ worker'.counts = [worker.counts EXCEPT !.failed = worker.counts.failed + 1]
Stores ==
  /\ Goes({"store"}, {"count", "loop"}) /\ NewRow("COMPLETED") /\ status' = status
  /\ worker'.counts = [worker.counts EXCEPT !.crawled = worker.counts.crawled + 1]
Records ==
  /\ Goes({"fail"}, {"loop"}) /\ NewRow("FAILED") /\ status' = status
  /\ worker'.counts = worker.counts
Closes ==
  /\ Goes({"close"}, {"complete"}) /\ pages' = pages /\ status' = "COMPLETED"
  /\ counts' = worker.counts /\ worker'.counts = worker.counts
JobFails ==
  /\ Goes({"failJob"}, {"rethrow"}) /\ pages' = pages /\ status' = "FAILED"
  /\ worker'.counts = worker.counts

Kinds ==
  \/ Others \/ Begins \/ Ends \/ Moves \/ Marks \/ Takes \/ Fails \/ Stores \/ Records
  \/ Closes \/ JobFails

LEMMA RunsSame ==
  ASSUME bull' = bull
  PROVE  Runs' = Runs
BY DEF Runs

LEMMA OthersKind ==
  ASSUME TypeOK, RunInv,
         \/ StartCrawl \/ EnqueueCrawl \/ EnqueueFails \/ DeleteChatbot
         \/ \E u \in Users : UserStep(u) \/ RequestFails(u) \/ ReadToCancel(u)
                             \/ \E S \in SUBSET DOMAIN pages : ReadPages(u, S)
         \/ \E j \in training : TrainPage(j)
         \/ UNCHANGED vars
  PROVE  RunInv' /\ Others
<1>a. bull \in BullRecords /\ pages \in Seq(PageRows)
  BY DEF TypeOK, BullRecords
<1>1. CASE StartCrawl \/ DeleteChatbot \/ (UNCHANGED vars)
  <2>1. UNCHANGED <<bull, worker, pages, counts>> /\ (status' = status \/ status' = "QUEUED")
    BY <1>1 DEF StartCrawl, DeleteChatbot, vars
  <2> QED BY <2>1, RunsSame DEF RunInv, Others, SameRows, Doing
<1>2. CASE EnqueueCrawl
  <2>1. UNCHANGED <<worker, pages, counts, status>>
    BY <1>2 DEF EnqueueCrawl
  <2>2. bull.state = "none" /\ bull'.state = "wait" /\ bull'.attempts = bull.attempts /\ bull'.stalls = bull.stalls
    BY <1>2, <1>a DEF EnqueueCrawl, BullRecords
  <2>3. Runs' = Runs
    BY <2>2 DEF Runs
  <2> QED BY <2>1, <2>2, <2>3 DEF RunInv, Others, SameRows, Doing
<1>5. CASE EnqueueFails
  <2>1. UNCHANGED <<worker, pages, counts, status>>
    BY <1>5 DEF EnqueueFails
  <2>2. bull.state = "none" /\ bull'.state = "unsent" /\ bull'.attempts = bull.attempts /\ bull'.stalls = bull.stalls
    BY <1>5, <1>a DEF EnqueueFails, BullRecords
  <2>3. Runs' = Runs
    BY <2>2 DEF Runs
  <2> QED BY <2>1, <2>2, <2>3 DEF RunInv, Others, SameRows, Doing
<1>3. CASE \E u \in Users : UserStep(u) \/ RequestFails(u) \/ ReadToCancel(u)
                             \/ \E S \in SUBSET DOMAIN pages : ReadPages(u, S)
  <2>1. PICK u \in Users : UserStep(u) \/ RequestFails(u) \/ ReadToCancel(u)
                             \/ \E S \in SUBSET DOMAIN pages : ReadPages(u, S)
    BY <1>3
  <2>2. UNCHANGED <<bull, worker, counts>> /\ (status' = status \/ status' = "CANCELLED")
    BY <2>1 DEF UserStep, WriteCancel, MarkSelected, EnqueuePage, RequestFails, ReadToCancel, ReadPages
  <2>3. SameRows
    <3>1. CASE MarkSelected(u)
      <4>1. pages' = [i \in DOMAIN pages |-> IF bot /\ i \in user[u].picked
                                     THEN [pages[i] EXCEPT !.selected = TRUE] ELSE pages[i]]
        BY <3>1 DEF MarkSelected
      <4>2. \A i \in DOMAIN pages : pages[i] \in PageRows
        BY <1>a
      <4>3. \A i \in DOMAIN pages : pages'[i].url = pages[i].url /\ pages'[i].status = pages[i].status
        BY <4>1, <4>2 DEF PageRows
      <4> QED BY <4>1, <4>3 DEF SameRows
    <3>2. CASE ~MarkSelected(u)
      <4>1. pages' = pages
        BY <2>1, <3>2 DEF UserStep, WriteCancel, EnqueuePage, RequestFails, ReadToCancel, ReadPages
      <4> QED BY <4>1 DEF SameRows
    <3> QED BY <3>1, <3>2
  <2> QED BY <2>2, <2>3, RunsSame DEF RunInv, Others, Doing
<1>4. CASE \E j \in training : TrainPage(j)
  <2>1. UNCHANGED <<bull, worker, pages, counts, status>>
    BY <1>4 DEF TrainPage
  <2> QED BY <2>1, RunsSame DEF RunInv, Others, SameRows, Doing
<1> QED BY <1>1, <1>2, <1>3, <1>4, <1>5

LEMMA FollowFacts ==
  ASSUME NEW w \in WorkerRecords
  PROVE  /\ FollowLinks(w).pc = "loop" /\ FollowLinks(w).item = w.item
         /\ FollowLinks(w).visited = w.visited /\ FollowLinks(w).counts = w.counts
BY DEF FollowLinks, WorkerRecords

LEMMA WorkerKind ==
  ASSUME TypeOK, RunInv, WorkerStep \/ CallFails \/ Crash
  PROVE  RunInv' /\ Kinds
<1>a. worker \in WorkerRecords /\ bull \in BullRecords /\ worker.counts \in Counts
  BY DEF TypeOK, WorkerRecords, BullRecords
<1>b. ASSUME bull' = bull, worker.pc # "idle", worker'.pc # "idle" PROVE RunInv' /\ Runs' = Runs
  BY <1>b, RunsSame DEF RunInv, Doing
<1>c. ASSUME NEW pc \in WorkerPCs, worker' = [worker EXCEPT !.pc = pc]
      PROVE  /\ worker'.pc = pc /\ worker'.item = worker.item /\ worker'.visited = worker.visited
             /\ worker'.counts = worker.counts
  BY <1>a, <1>c DEF WorkerRecords
<1>1. CASE PickJob
  <2>1. worker.pc = "idle" /\ bull.state = "wait" /\ bull' = [bull EXCEPT !.state = "active"]
    BY <1>1 DEF PickJob, Doing
  <2>2. worker' = [Idle EXCEPT !.pc = "find"] /\ UNCHANGED <<status, counts, pages>>
    BY <1>1 DEF PickJob
  <2>3. bull'.state = "active" /\ bull'.attempts = bull.attempts /\ bull'.stalls = bull.stalls
    BY <1>a, <2>1 DEF BullRecords
  <2>4. bull.attempts \in Nat /\ bull.stalls \in Nat
    BY <1>a DEF BullRecords
  <2>5. Runs' = Runs + 1
    BY <2>1, <2>3, <2>4 DEF Runs
  <2>6. worker'.pc # "idle"
    BY <2>2 DEF Idle
  <2> QED BY <2>1, <2>2, <2>3, <2>5, <2>6 DEF Kinds, Begins, RunInv, Doing
<1>2. CASE FindJob
  <2>1. PICK pc \in {"mark", "complete"} : worker' = [worker EXCEPT !.pc = pc]
    BY <1>2 DEF FindJob, Goto
  <2>2. pc \in WorkerPCs
    BY DEF WorkerPCs
  <2>3. worker.pc = "find" /\ bull' = bull /\ pages' = pages /\ status' = status
    BY <1>2 DEF FindJob, Doing
  <2> QED BY <1>b, <1>c, <2>1, <2>2, <2>3 DEF Kinds, Moves, Goes
<1>3. CASE MarkProcessing
  <2>1. worker.pc = "mark" /\ bull' = bull /\ pages' = pages /\ status' = "PROCESSING"
    BY <1>3 DEF MarkProcessing, Doing
  <2>2. /\ worker'.pc = "loop" /\ worker'.item = worker.item /\ worker'.visited = worker.visited
        /\ worker'.counts = worker.counts
    BY <1>3, <1>a DEF MarkProcessing, WorkerRecords
  <2> QED BY <1>b, <2>1, <2>2 DEF Kinds, Marks, Goes
<1>4. CASE LeaveLoop
  <2>1. worker.pc = "loop" /\ bull' = bull /\ pages' = pages /\ status' = status
        /\ worker' = [worker EXCEPT !.pc = "close"] /\ "close" \in WorkerPCs
    BY <1>4 DEF LeaveLoop, Doing, Goto, WorkerPCs
  <2> QED BY <1>b, <1>c, <2>1 DEF Kinds, Moves, Goes
<1>5. CASE NextItem
  <2>1. worker.pc = "loop" /\ bull' = bull /\ pages' = pages /\ status' = status /\ ~LoopEnds
    BY <1>5 DEF NextItem, Doing
  <2> DEFINE item == Head(worker.queue)
  <2>2. CASE Norm[item.href] \in worker.visited
    <3>1. worker' = [worker EXCEPT !.queue = Tail(worker.queue)]
      BY <1>5, <2>2 DEF NextItem
    <3>2. /\ worker'.pc = "loop" /\ worker'.item = worker.item /\ worker'.visited = worker.visited
          /\ worker'.counts = worker.counts
      BY <1>a, <2>1, <3>1 DEF WorkerRecords
    <3> QED BY <1>b, <2>1, <3>2 DEF Kinds, Moves, Goes
  <2>3. CASE Norm[item.href] \notin worker.visited
    <3>1. worker' = [worker EXCEPT !.pc = "fetch", !.queue = Tail(worker.queue), !.item = item,
                       !.visited = worker.visited \cup {Norm[item.href]},
                       !.counts.found = worker.counts.found + 1]
      BY <1>5, <2>3 DEF NextItem
    <3>2. /\ worker'.pc = "fetch" /\ worker'.item = item
          /\ worker'.visited = worker.visited \cup {Norm[item.href]}
          /\ worker'.counts = [worker.counts EXCEPT !.found = worker.counts.found + 1]
      BY <1>a, <3>1 DEF WorkerRecords
    <3>3. Own' = Norm[item.href]
      BY <3>2 DEF Own
    <3>4. worker.counts.crawled < Limit
      BY <1>a, <2>1, LimitsAssumption DEF LoopEnds, Counts
    <3> QED BY <1>b, <2>1, <2>3, <3>2, <3>3, <3>4 DEF Kinds, Takes
  <2> QED BY <2>2, <2>3
<1>d. ASSUME worker' = Failing, worker.pc \in {"fetch", "store", "count"}, bull' = bull, pages' = pages,
             status' = status
      PROVE  RunInv' /\ Kinds
  <2>1. /\ worker'.pc = "fail" /\ worker'.item = worker.item /\ worker'.visited = worker.visited
        /\ worker'.counts = [worker.counts EXCEPT !.failed = worker.counts.failed + 1]
    BY <1>a, <1>d DEF Failing, WorkerRecords
  <2> QED BY <1>b, <1>d, <2>1 DEF Kinds, Fails, Goes
<1>6. CASE Fetch
  <2>1. worker.pc = "fetch" /\ bull' = bull /\ pages' = pages /\ status' = status
    BY <1>6 DEF Fetch, Doing
  <2>2. CASE worker' = Failing
    BY <1>d, <2>1, <2>2
  <2>3. CASE worker' # Failing
    <3>1. PICK pc \in {"store", "loop"} : worker' = [worker EXCEPT !.pc = pc]
      BY <1>6, <2>3 DEF Fetch, Goto
    <3>2. pc \in WorkerPCs
      BY DEF WorkerPCs
    <3> QED BY <1>b, <1>c, <2>1, <3>1, <3>2 DEF Kinds, Moves, Goes
  <2> QED BY <2>2, <2>3
<1>7. CASE StorePage
  <2>1. worker.pc = "store" /\ bull' = bull /\ NewRow("COMPLETED") /\ status' = status
    BY <1>7 DEF StorePage, Doing, NewRow, Own
  <2>2. PICK s \in WorkerRecords : s = [worker EXCEPT !.counts.crawled = worker.counts.crawled + 1]
    <3>1. PICK c \in Counts : c = [worker.counts EXCEPT !.crawled = worker.counts.crawled + 1]
      BY <1>a, CountEdits
    <3>2. [worker EXCEPT !.counts = c] \in WorkerRecords
      BY <1>a, WorkerEdits
    <3>3. [worker EXCEPT !.counts = c] = [worker EXCEPT !.counts.crawled = worker.counts.crawled + 1]
      BY <1>a, <3>1 DEF WorkerRecords
    <3> QED BY <3>2, <3>3
  <2>3. /\ s.item = worker.item /\ s.visited = worker.visited
        /\ s.counts = [worker.counts EXCEPT !.crawled = worker.counts.crawled + 1]
    BY <1>a, <2>2 DEF WorkerRecords
  <2>4. worker' = [s EXCEPT !.pc = "count"] \/ worker' = FollowLinks(s)
    BY <1>7, <2>2 DEF StorePage
  <2>5. /\ worker'.pc \in {"count", "loop"}
        /\ worker'.item = s.item /\ worker'.visited = s.visited /\ worker'.counts = s.counts
    <3>1. CASE worker' = [s EXCEPT !.pc = "count"]
      BY <3>1 DEF WorkerRecords
    <3>2. CASE worker' = FollowLinks(s)
      BY <3>2, FollowFacts
    <3> QED BY <2>4, <3>1, <3>2
  <2> QED BY <1>b, <2>1, <2>3, <2>5 DEF Kinds, Stores, Goes
<1>8. CASE CountPages
  <2>1. worker.pc = "count" /\ bull' = bull /\ pages' = pages /\ status' = status
        /\ worker' = FollowLinks(worker)
    BY <1>8 DEF CountPages, Doing
  <2> QED BY <1>a, <1>b, <2>1, FollowFacts DEF Kinds, Moves, Goes
<1>9. CASE RecordFailure
  <2>1. worker.pc = "fail" /\ bull' = bull /\ NewRow("FAILED") /\ status' = status
        /\ worker' = [worker EXCEPT !.pc = "loop"] /\ "loop" \in WorkerPCs
    BY <1>9 DEF RecordFailure, Doing, Goto, NewRow, Own, WorkerPCs
  <2> QED BY <1>b, <1>c, <2>1 DEF Kinds, Records, Goes
<1>10. CASE CloseJob
  <2>1. worker.pc = "close" /\ bull' = bull /\ pages' = pages /\ status' = "COMPLETED"
        /\ counts' = worker.counts
        /\ worker' = [worker EXCEPT !.pc = "complete"] /\ "complete" \in WorkerPCs
    BY <1>10 DEF CloseJob, Doing, Goto, WorkerPCs
  <2> QED BY <1>b, <1>c, <2>1 DEF Kinds, Closes, Goes
<1>11. CASE FailJob
  <2>1. worker.pc = "failJob" /\ bull' = bull /\ pages' = pages /\ status' = "FAILED"
        /\ worker' = [worker EXCEPT !.pc = "rethrow"] /\ "rethrow" \in WorkerPCs
    BY <1>11 DEF FailJob, Doing, Goto, WorkerPCs
  <2> QED BY <1>b, <1>c, <2>1 DEF Kinds, JobFails, Goes
<1>12. CASE RowIsGone \/ CallFails
  <2>1. /\ worker.pc \in {"find", "mark", "store", "count", "fail", "close", "failJob", "loop"}
        /\ bull' = bull /\ pages' = pages /\ status' = status /\ worker' = Thrown
    BY <1>12 DEF RowIsGone, CallFails, Doing
  <2>2. CASE worker.pc \in {"store", "count"}
    <3>1. worker' = Failing
      BY <2>1, <2>2 DEF Thrown
    <3> QED BY <1>d, <2>1, <2>2, <3>1
  <2>3. CASE worker.pc \notin {"store", "count"}
    <3>1. PICK pc \in {"failJob", "rethrow"} : worker' = [worker EXCEPT !.pc = pc]
      BY <2>1, <2>3 DEF Thrown
    <3>2. pc \in WorkerPCs
      BY DEF WorkerPCs
    <3> QED BY <1>b, <1>c, <2>1, <2>3, <3>1, <3>2 DEF Kinds, Moves, Goes
  <2> QED BY <2>2, <2>3
<1>13. CASE Rethrow \/ Complete \/ Crash
  <2>1. worker.pc # "idle" /\ worker' = Idle /\ UNCHANGED <<status, counts, pages>>
    BY <1>13 DEF Rethrow, Complete, Crash, EndJob, Doing
  <2>2. bull.state = "active"
    BY <2>1 DEF RunInv, Doing
  <2>3. bull.attempts \in Nat /\ bull.stalls \in Nat
    BY <1>a DEF BullRecords
  <2>4. Runs = bull.attempts + bull.stalls + 1
    BY <2>2 DEF Runs
  <2>5. bull'.state # "active" /\ Runs' = bull.attempts + bull.stalls + 1
    <3>1. CASE Rethrow
      <4>1. PICK st \in {"wait", "failed"} : bull' = [bull EXCEPT !.attempts = bull.attempts + 1, !.state = st]
        BY <3>1 DEF Rethrow
      <4>2. bull'.state = st /\ bull'.attempts = bull.attempts + 1 /\ bull'.stalls = bull.stalls
        BY <1>a, <4>1 DEF BullRecords
      <4> QED BY <2>3, <4>2 DEF Runs
    <3>2. CASE Crash
      <4>1. PICK st \in {"wait", "failed"} : bull' = [bull EXCEPT !.stalls = bull.stalls + 1, !.state = st]
        BY <3>2 DEF Crash
      <4>2. bull'.state = st /\ bull'.attempts = bull.attempts /\ bull'.stalls = bull.stalls + 1
        BY <1>a, <4>1 DEF BullRecords
      <4> QED BY <2>3, <4>2 DEF Runs
    <3>3. CASE Complete
      <4>1. bull'.state = "completed" /\ bull'.attempts = bull.attempts /\ bull'.stalls = bull.stalls
        BY <1>a, <3>3 DEF Complete, EndJob, BullRecords
      <4> QED BY <2>3, <4>1 DEF Runs
    <3> QED BY <1>13, <3>1, <3>2, <3>3
  <2>6. worker'.pc = "idle"
    BY <2>1 DEF Idle
  <2> QED BY <2>1, <2>4, <2>5, <2>6 DEF Kinds, Ends, RunInv, Doing
<1> QED BY <1>1, <1>2, <1>3, <1>4, <1>5, <1>6, <1>7, <1>8, <1>9, <1>10, <1>11, <1>12, <1>13 DEF WorkerStep

LEMMA StepKinds == TypeOK /\ RunInv /\ [Next]_vars => RunInv' /\ Kinds
<1> SUFFICES ASSUME TypeOK, RunInv, [Next]_vars PROVE RunInv' /\ Kinds
  OBVIOUS
<1>1. CASE WorkerStep \/ CallFails \/ Crash
  BY <1>1, WorkerKind
<1>2. CASE ~(WorkerStep \/ CallFails \/ Crash)
  <2>1. RunInv' /\ Others
    BY <1>2, OthersKind DEF Next
  <2> QED BY <2>1 DEF Kinds
<1> QED BY <1>1, <1>2

LEMMA RunCorrect == Spec => []RunInv
<1>1. Init => RunInv
  BY DEF Init, RunInv, Doing, Idle, NotQueued
<1> QED BY <1>1, StepKinds, TypeCorrect, PTL DEF Spec

-----------------------------------------------------------------------------
(* How many rows there are.                                                *)

RowsOf(p, st) == {i \in RowsWith(st) : pages[i].url = p}

LEMMA RowsFinite ==
  ASSUME TypeOK, NEW st, NEW p
  PROVE  /\ IsFiniteSet(RowsWith(st)) /\ IsFiniteSet(RowsOf(p, st))
         /\ Cardinality(RowsWith(st)) \in Nat /\ Cardinality(RowsOf(p, st)) \in Nat
<1>1. PICK n \in Nat : DOMAIN pages = 1 .. n
  BY DEF TypeOK
<1>2. RowsWith(st) \subseteq 1 .. n /\ RowsOf(p, st) \subseteq 1 .. n
  BY <1>1 DEF RowsWith, RowsOf
<1>3. IsFiniteSet(RowsWith(st)) /\ IsFiniteSet(RowsOf(p, st))
  <2>1. IsFiniteSet(1 .. n)
    BY FS_Interval
  <2> QED BY <1>2, <2>1, FS_Subset
<1> QED BY <1>3, FS_CardinalityType

LEMMA RowsSame ==
  ASSUME SameRows, NEW st, NEW p
  PROVE  RowsWith(st)' = RowsWith(st) /\ RowsOf(p, st)' = RowsOf(p, st)
BY DEF SameRows, RowsWith, RowsOf

LEMMA RowsMore ==
  ASSUME TypeOK, NEW new, NewRow(new), NEW st, NEW p
  PROVE  /\ Cardinality(RowsWith(st)') = Cardinality(RowsWith(st)) + (IF st = new THEN 1 ELSE 0)
         /\ Cardinality(RowsOf(p, st)') =
              Cardinality(RowsOf(p, st)) + (IF st = new /\ p = Own THEN 1 ELSE 0)
<1> DEFINE last == Len(pages) + 1
<1>1. pages \in Seq(PageRows) /\ Len(pages) \in Nat /\ DOMAIN pages = 1 .. Len(pages)
  BY DEF TypeOK
<1>2. /\ DOMAIN pages' = (DOMAIN pages) \cup {last} /\ last \notin DOMAIN pages
      /\ \A i \in DOMAIN pages : pages'[i] = pages[i]
      /\ pages'[last] = PageRow(Own, new)
  BY <1>1 DEF NewRow
<1>3. pages'[last].status = new /\ pages'[last].url = Own
  BY <1>2 DEF PageRow
<1> HIDE DEF last
<1>4. RowsWith(st)' = RowsWith(st) \cup (IF st = new THEN {last} ELSE {})
  BY <1>2, <1>3 DEF RowsWith
<1>5. RowsOf(p, st)' = RowsOf(p, st) \cup (IF st = new /\ p = Own THEN {last} ELSE {})
  BY <1>2, <1>3 DEF RowsWith, RowsOf
<1>6. last \notin RowsWith(st) /\ last \notin RowsOf(p, st)
  BY <1>2 DEF RowsWith, RowsOf
<1>7. Cardinality(RowsWith(st)') = Cardinality(RowsWith(st)) + (IF st = new THEN 1 ELSE 0)
  <2>1. CASE st = new
    <3>1. Cardinality(RowsWith(st) \cup {last}) = Cardinality(RowsWith(st)) + 1
      BY <1>6, RowsFinite, FS_AddElement
    <3> QED BY <1>4, <2>1, <3>1
  <2>2. CASE st # new
    BY <1>4, <2>2, RowsFinite
  <2> QED BY <2>1, <2>2
<1>8. Cardinality(RowsOf(p, st)') = Cardinality(RowsOf(p, st)) + (IF st = new /\ p = Own THEN 1 ELSE 0)
  <2>1. CASE st = new /\ p = Own
    <3>1. Cardinality(RowsOf(p, st) \cup {last}) = Cardinality(RowsOf(p, st)) + 1
      BY <1>6, RowsFinite, FS_AddElement
    <3> QED BY <1>5, <2>1, <3>1
  <2>2. CASE ~(st = new /\ p = Own)
    <3>1. RowsOf(p, st)' = RowsOf(p, st)
      BY <1>5, <2>2
    <3> QED BY <2>2, <3>1, RowsFinite
  <2> QED BY <2>1, <2>2
<1> QED BY <1>7, <1>8

LEMMA NoRows ==
  ASSUME pages = << >>, NEW st, NEW p
  PROVE  Cardinality(RowsWith(st)) = 0 /\ Cardinality(RowsOf(p, st)) = 0
<1>1. RowsWith(st) = {} /\ RowsOf(p, st) = {}
  BY DEF RowsWith, RowsOf
<1> QED BY <1>1, FS_EmptySet

-----------------------------------------------------------------------------
(* The counters of a crawl completed in one run.                           *)

Match(c, failing) ==
  /\ c.crawled = Cardinality(RowsWith("COMPLETED"))
  /\ c.failed = Cardinality(RowsWith("FAILED")) + failing

(* In the first run the worker counts the rows as they are stored, but one *)
(* that fails is counted before it is recorded.                            *)
CountInv ==
  /\ Runs = 0 => pages = << >> /\ status # "COMPLETED"
  /\ worker.pc \in {"find", "mark"} => worker.counts = NoCounts
  /\ Runs = 1 =>
       /\ status = "COMPLETED" => worker.pc \in {"idle", "complete"} /\ Match(counts, 0)
       /\ worker.pc \in {"find", "mark"} => pages = << >>
       /\ worker.pc \in {"loop", "fetch", "store", "count", "close"} => Match(worker.counts, 0)
       /\ worker.pc = "fail" => Match(worker.counts, 1)

LEMMA RunsNatural == TypeOK => Runs \in Nat /\ (~Doing("idle") /\ RunInv => Runs > 0)
<1> SUFFICES ASSUME TypeOK PROVE Runs \in Nat /\ (~Doing("idle") /\ RunInv => Runs > 0)
  OBVIOUS
<1>1. bull.attempts \in Nat /\ bull.stalls \in Nat
  BY DEF TypeOK
<1> QED BY <1>1 DEF Runs, RunInv

LEMMA CountStep == TypeOK /\ TypeOK' /\ RunInv /\ CountInv /\ Kinds => CountInv'
<1> SUFFICES ASSUME TypeOK, TypeOK', RunInv, CountInv, Kinds PROVE CountInv'
  OBVIOUS
<1>a. /\ Runs \in Nat /\ (worker.pc # "idle" => Runs > 0)
      /\ worker.counts \in Counts /\ pages \in Seq(PageRows)
  BY RunsNatural DEF TypeOK, Doing
<1> DEFINE C == Cardinality(RowsWith("COMPLETED"))
           F == Cardinality(RowsWith("FAILED"))
<1>b. C \in Nat /\ F \in Nat
  BY RowsFinite
<1>c. ASSUME pages' = pages PROVE C' = C /\ F' = F
  <2>1. SameRows
    BY <1>c DEF SameRows
  <2> QED BY <2>1, RowsSame
<1> USE DEF CountInv
<1> HIDE DEF C, F
<1>m. ASSUME NEW c, NEW k PROVE Match(c, k) <=> c.crawled = C /\ c.failed = F + k
  BY DEF C, F, Match
<1>n. ASSUME NEW k \in Nat
      PROVE  /\ Match(worker.counts, k)' <=> worker'.counts.crawled = C' /\ worker'.counts.failed = F' + k
             /\ Match(counts, k)' <=> counts'.crawled = C' /\ counts'.failed = F' + k
  BY DEF C, F, Match
<1> USE <1>m, <1>n
<1>1. CASE Others
  <2>1. C' = C /\ F' = F
    BY <1>1, RowsSame DEF Others, C, F
  <2>2. pages = << >> => pages' = << >>
    <3>1. pages' \in Seq(PageRows)
      BY DEF TypeOK
    <3>2. SameRows
      BY <1>1 DEF Others
    <3> QED BY <3>1, <3>2 DEF SameRows
  <2>3. worker' = worker /\ Runs' = Runs /\ counts' = counts
        /\ (status' = "COMPLETED" => status = "COMPLETED")
    BY <1>1 DEF Others
  <2> QED BY <2>1, <2>2, <2>3
<1>2. CASE Begins
  BY <1>2, <1>a DEF Begins, Idle
<1>3. CASE Ends
  BY <1>3, <1>a, <1>c DEF Ends, Idle
<1>4. CASE Moves
  BY <1>4, <1>a, <1>c DEF Moves, Goes
<1>5. CASE Marks
  <2>1. pages = << >> => C = 0 /\ F = 0
    BY NoRows DEF C, F
  <2>2. NoCounts.crawled = 0 /\ NoCounts.failed = 0
    BY DEF NoCounts
  <2> QED BY <1>5, <1>a, <1>c, <2>1, <2>2 DEF Marks, Goes
<1>6. CASE Takes
  BY <1>6, <1>a, <1>c DEF Takes, Counts
<1>7. CASE Fails
  BY <1>7, <1>a, <1>b, <1>c DEF Fails, Goes, Counts
<1>8. CASE Stores
  <2>1. C' = C + 1 /\ F' = F
    <3>1. \A st : Cardinality(RowsWith(st)') = Cardinality(RowsWith(st)) + (IF st = "COMPLETED" THEN 1 ELSE 0)
      BY <1>8, RowsMore DEF Stores
    <3>2. /\ Cardinality(RowsWith("COMPLETED")') = Cardinality(RowsWith("COMPLETED")) + 1
          /\ Cardinality(RowsWith("FAILED")') = Cardinality(RowsWith("FAILED")) + 0
      BY <3>1
    <3> QED BY <1>b, <3>2 DEF C, F
  <2>2. /\ worker'.counts.crawled = worker.counts.crawled + 1
        /\ worker'.counts.failed = worker.counts.failed
    BY <1>8, <1>a DEF Stores, Counts
  <2>3. /\ worker.pc = "store" /\ worker'.pc \in {"count", "loop"}
        /\ Runs' = Runs /\ status' = status /\ Runs # 0
    BY <1>8, <1>a DEF Stores, Goes
  <2>4. Runs = 1 => status # "COMPLETED" /\ worker.counts.crawled = C /\ worker.counts.failed = F + 0
    BY <2>3
  <2> QED BY <1>b, <2>1, <2>2, <2>3, <2>4
<1>9. CASE Records
  <2>1. C' = C /\ F' = F + 1
    <3>1. \A st : Cardinality(RowsWith(st)') = Cardinality(RowsWith(st)) + (IF st = "FAILED" THEN 1 ELSE 0)
      BY <1>9, RowsMore DEF Records
    <3>2. /\ Cardinality(RowsWith("COMPLETED")') = Cardinality(RowsWith("COMPLETED")) + 0
          /\ Cardinality(RowsWith("FAILED")') = Cardinality(RowsWith("FAILED")) + 1
      BY <3>1
    <3> QED BY <1>b, <3>2 DEF C, F
  <2> QED BY <1>9, <1>a, <1>b, <2>1 DEF Records, Goes, Counts
<1>10. CASE Closes
  BY <1>10, <1>a, <1>c DEF Closes, Goes
<1>11. CASE JobFails
  BY <1>11, <1>a, <1>c DEF JobFails, Goes
<1> QED BY <1>1, <1>2, <1>3, <1>4, <1>5, <1>6, <1>7, <1>8, <1>9, <1>10, <1>11 DEF Kinds

(* When a crawl was completed in its first run, pagesCrawled and           *)
(* pagesFailed are the numbers of its rows.                                *)
THEOREM CountsCorrect == Spec => []CountsMatchRows
<1>1. Init => CountInv
  BY DEF Init, CountInv, Runs, NotQueued, Idle
<1>2. TypeOK /\ CountInv => CountsMatchRows
  BY RowsFinite DEF CountInv, CountsMatchRows, Match
<1>3. TypeOK /\ TypeOK' /\ RunInv /\ CountInv /\ [Next]_vars => CountInv'
  BY CountStep, StepKinds
<1> QED BY <1>1, <1>2, <1>3, TypeCorrect, RunCorrect, PTL DEF Spec

-----------------------------------------------------------------------------
(* A page has at most one row of each status per run.                      *)

AtMost(p, st, n) == Cardinality(RowsOf(p, st)) <= n

(* The run that is on has yet to store or fail a page it has not visited,  *)
(* and the one it is at.                                                   *)
OnceInv ==
  /\ worker.pc \in {"fetch", "store", "count", "fail"} => Own \in worker.visited
  /\ \A p \in Pages, st \in {"COMPLETED", "FAILED"} :
       /\ AtMost(p, st, Runs)
       /\ worker.pc # "idle" =>
            /\ p \notin worker.visited => AtMost(p, st, Runs - 1)
            /\ p = Own /\ st = "COMPLETED" /\ worker.pc \in {"fetch", "store"}
                 => AtMost(p, st, Runs - 1)
            /\ p = Own /\ st = "FAILED" /\ worker.pc \in {"fetch", "store", "count", "fail"}
                 => AtMost(p, st, Runs - 1)

LEMMA OnceStep == TypeOK /\ RunInv /\ OnceInv /\ Kinds => OnceInv'
<1> SUFFICES ASSUME TypeOK, RunInv, OnceInv, Kinds PROVE OnceInv'
  OBVIOUS
<1>v. worker.pc \in {"fetch", "store", "count", "fail"} => Own \in worker.visited
  BY DEF OnceInv
<1>w. (worker.pc \in {"fetch", "store", "count", "fail"} => Own \in worker.visited)'
  <2>1. worker'.item = worker.item => Own' = Own
    BY DEF Own
  <2> QED BY <1>v, <2>1 DEF Kinds, Others, Begins, Ends, Idle, Moves, Marks, Takes, Fails, Stores, Records,
                    Closes, JobFails, Goes
<1> SUFFICES ASSUME NEW p \in Pages, NEW st \in {"COMPLETED", "FAILED"}
             PROVE  /\ AtMost(p, st, Runs)'
                    /\ worker'.pc # "idle" =>
                         /\ p \notin worker'.visited => AtMost(p, st, Runs - 1)'
                         /\ p = Own' /\ st = "COMPLETED" /\ worker'.pc \in {"fetch", "store"}
                              => AtMost(p, st, Runs - 1)'
                         /\ p = Own' /\ st = "FAILED" /\ worker'.pc \in {"fetch", "store", "count", "fail"}
                              => AtMost(p, st, Runs - 1)'
  BY <1>w DEF OnceInv
<1> DEFINE N == Cardinality(RowsOf(p, st))
<1>a. Runs \in Nat /\ N \in Nat /\ (worker.pc # "idle" => Runs > 0)
  BY RunsNatural, RowsFinite DEF Doing
<1>b. ASSUME pages' = pages PROVE N' = N
  <2>1. SameRows
    BY <1>b DEF SameRows
  <2> QED BY <2>1, RowsSame
<1>c. /\ N <= Runs
      /\ worker.pc # "idle" =>
           /\ p \notin worker.visited => N <= Runs - 1
           /\ p = Own /\ st = "COMPLETED" /\ worker.pc \in {"fetch", "store"} => N <= Runs - 1
           /\ p = Own /\ st = "FAILED" /\ worker.pc \in {"fetch", "store", "count", "fail"}
                => N <= Runs - 1
  BY DEF OnceInv, AtMost
<1>d. ASSUME worker'.item = worker.item PROVE Own' = Own
  BY <1>d DEF Own
<1>e. (AtMost(p, st, Runs)' <=> N' <= Runs') /\ (AtMost(p, st, Runs - 1)' <=> N' <= Runs' - 1)
  BY DEF AtMost
<1>g. N' = N => N' \in Nat
  BY <1>a
<1> HIDE DEF N
<1> USE <1>e
<1>1. CASE Others
  <2>1. N' = N
    BY <1>1, RowsSame DEF Others, N
  <2> QED BY <1>1, <1>a, <1>c, <1>d, <2>1 DEF Others
<1>2. CASE Begins
  <2>1. worker'.pc = "find"
    BY <1>2 DEF Begins, Idle
  <2> QED BY <1>2, <1>a, <1>b, <1>c, <2>1 DEF Begins
<1>3. CASE Ends
  BY <1>3, <1>a, <1>b, <1>c DEF Ends, Idle
<1>4. CASE Moves
  BY <1>4, <1>a, <1>b, <1>c, <1>d DEF Moves, Goes
<1>5. CASE Marks
  BY <1>5, <1>a, <1>b, <1>c, <1>d DEF Marks, Goes
<1>6. CASE Takes
  BY <1>6, <1>a, <1>b, <1>c DEF Takes
<1>7. CASE Fails
  BY <1>7, <1>a, <1>b, <1>c, <1>d DEF Fails, Goes
<1>8. CASE Stores
  <2>1. N' = N + (IF st = "COMPLETED" /\ p = Own THEN 1 ELSE 0)
    BY <1>8, RowsMore DEF Stores, N
  <2>2. CASE st = "COMPLETED" /\ p = Own
    <3>1. p \in worker.visited /\ N' = N + 1
      BY <1>8, <1>v, <1>a, <2>1, <2>2 DEF Stores, Goes
    <3> QED BY <1>8, <1>a, <1>c, <1>d, <2>2, <3>1 DEF Stores, Goes
  <2>3. CASE ~(st = "COMPLETED" /\ p = Own)
    <3>1. N' = N
      BY <1>a, <2>1, <2>3
    <3> QED BY <1>8, <1>a, <1>c, <1>d, <3>1 DEF Stores, Goes
  <2> QED BY <2>2, <2>3
<1>9. CASE Records
  <2>1. N' = N + (IF st = "FAILED" /\ p = Own THEN 1 ELSE 0)
    BY <1>9, RowsMore DEF Records, N
  <2>2. CASE st = "FAILED" /\ p = Own
    <3>1. p \in worker.visited /\ N' = N + 1
      BY <1>9, <1>v, <1>a, <2>1, <2>2 DEF Records, Goes
    <3> QED BY <1>9, <1>a, <1>c, <1>d, <2>2, <3>1 DEF Records, Goes
  <2>3. CASE ~(st = "FAILED" /\ p = Own)
    <3>1. N' = N
      BY <1>a, <2>1, <2>3
    <3> QED BY <1>9, <1>a, <1>c, <1>d, <3>1 DEF Records, Goes
  <2> QED BY <2>2, <2>3
<1>10. CASE Closes
  BY <1>10, <1>a, <1>b, <1>c, <1>d DEF Closes, Goes
<1>11. CASE JobFails
  BY <1>11, <1>a, <1>b, <1>c, <1>d DEF JobFails, Goes
<1> QED BY <1>1, <1>2, <1>3, <1>4, <1>5, <1>6, <1>7, <1>8, <1>9, <1>10, <1>11 DEF Kinds

(* However its URL is spelled and however often it is linked, a page is     *)
(* stored at most once, and recorded as failed at most once, in each run.  *)
THEOREM OnceCorrect == Spec => []PagesOncePerRun
<1>1. Init => OnceInv
  <2>1. SUFFICES ASSUME Init PROVE OnceInv
    OBVIOUS
  <2>2. pages = << >> /\ worker.pc = "idle" /\ Runs = 0
    BY <2>1 DEF Init, Idle, Runs, NotQueued
  <2> QED BY <2>2, NoRows DEF OnceInv, AtMost
<1>2. OnceInv => PagesOncePerRun
  BY DEF OnceInv, AtMost, PagesOncePerRun, RowsOf
<1>3. TypeOK /\ RunInv /\ OnceInv /\ [Next]_vars => OnceInv'
  BY OnceStep, StepKinds
<1> QED BY <1>1, <1>2, <1>3, TypeCorrect, RunCorrect, PTL DEF Spec

-----------------------------------------------------------------------------
(* The pages within n links of the start.                                  *)

LinkedFrom(S) == {Norm[h] : h \in UNION {{Links[p][i] : i \in DOMAIN Links[p]} : p \in S}}

LEMMA LinkedTyped ==
  ASSUME NEW S, S \subseteq Pages
  PROVE  LinkedFrom(S) \subseteq Pages
<1>1. ASSUME NEW p \in S, NEW i \in DOMAIN Links[p] PROVE Norm[Links[p][i]] \in Pages
  BY LinksAssumption DEF Pages
<1> QED BY <1>1 DEF LinkedFrom

LEMMA ReachedFacts ==
  /\ Reached[0] = {Norm[Start]}
  /\ \A n \in Nat : Reached[n + 1] = Reached[n] \cup LinkedFrom(Reached[n])
  /\ \A n \in Nat : Reached[n] \subseteq Pages
<1> DEFINE g == [n \in Nat |-> [S \in SUBSET Pages |-> S \cup LinkedFrom(S)]]
           Body(f) == [n \in Nat |-> IF n = 0 THEN {Norm[Start]}
                                     ELSE f[n - 1] \cup LinkedFrom(f[n - 1])]
           first == {Norm[Start]}
<1>1. first \in SUBSET Pages
  BY LinksAssumption DEF Pages
<1>2. g \in [Nat -> [SUBSET Pages -> SUBSET Pages]]
  BY LinkedTyped
<1>3. PICK f : Recurses(f, SUBSET Pages, first, g)
  <2> HIDE DEF g, first
  <2> QED BY <1>1, <1>2, Recursion
<1>4. f \in [Nat -> SUBSET Pages] /\ f[0] = {Norm[Start]}
  BY <1>3 DEF Recurses
<1>5. ASSUME NEW k \in Nat PROVE f[k + 1] = f[k] \cup LinkedFrom(f[k])
  <2>1. f[k + 1] = g[k + 1][f[k]]
    <3> HIDE DEF g
    <3> QED BY <1>3 DEF Recurses
  <2> QED BY <1>4, <2>1
<1>6. f = Body(f)
  <2>1. ASSUME NEW n \in Nat PROVE f[n] = Body(f)[n]
    <3>1. CASE n = 0
      BY <1>4, <3>1
    <3>2. CASE n # 0
      <4>1. PICK k \in Nat : n = k + 1 /\ n - 1 = k
        BY <3>2
      <4>2. f[n] = f[k] \cup LinkedFrom(f[k])
        BY <1>5, <4>1
      <4> QED BY <3>2, <4>1, <4>2
    <3> QED BY <3>1, <3>2
  <2>2. DOMAIN f = Nat /\ DOMAIN Body(f) = Nat
    BY <1>4
  <2> QED BY <1>4, <2>1, <2>2
<1> DEFINE c == CHOOSE q : q = Body(q)
<1>7. c = Body(c)
  <2> HIDE DEF Body
  <2> QED BY <1>6, Zenon
<1>8. Reached = c
  BY Zenon DEF Reached, LinkedFrom
<1> HIDE DEF c
<1>9. c[0] = {Norm[Start]}
  BY <1>7
<1>10. ASSUME NEW n \in Nat PROVE c[n + 1] = c[n] \cup LinkedFrom(c[n])
  <2>1. PICK m \in Nat : m = n + 1 /\ m # 0 /\ m - 1 = n
    OBVIOUS
  <2>2. c[m] = Body(c)[m]
    BY <1>7
  <2>3. Body(c)[m] = c[m - 1] \cup LinkedFrom(c[m - 1])
    BY <2>1
  <2> QED BY <2>1, <2>2, <2>3
<1>11. \A n \in Nat : c[n] \subseteq Pages
  <2> DEFINE A == {n \in Nat : c[n] \subseteq Pages}
  <2>1. 0 \in A
    BY <1>1, <1>9
  <2>2. ASSUME NEW n \in Nat, n \in A PROVE n + 1 \in A
    BY <1>10, <2>2, LinkedTyped
  <2>3. Nat \subseteq A
    <3> HIDE DEF A
    <3> QED BY <2>1, <2>2, Induction
  <2> QED BY <2>3
<1> QED BY <1>8, <1>9, <1>10, <1>11

LEMMA ReachedLink ==
  ASSUME NEW n \in Nat, NEW p \in Reached[n], NEW i \in DOMAIN Links[p]
  PROVE  Norm[Links[p][i]] \in Reached[n + 1]
<1>1. Norm[Links[p][i]] \in LinkedFrom(Reached[n])
  BY DEF LinkedFrom
<1> QED BY <1>1, ReachedFacts

LEMMA ReachedUp ==
  ASSUME NEW m \in Nat, NEW n \in Nat, m <= n
  PROVE  Reached[m] \subseteq Reached[n]
<1> DEFINE A == {k \in Nat : m <= k => Reached[m] \subseteq Reached[k]}
<1>1. 0 \in A
  OBVIOUS
<1>2. ASSUME NEW k \in Nat, k \in A PROVE k + 1 \in A
  <2>1. CASE m <= k
    BY <1>2, <2>1, ReachedFacts
  <2>2. CASE ~(m <= k)
    <3>1. m <= k + 1 => m = k + 1
      BY <2>2
    <3> QED BY <3>1
  <2> QED BY <2>1, <2>2
<1>3. Nat \subseteq A
  <2> HIDE DEF A
  <2> QED BY <1>1, <1>2, Induction
<1> QED BY <1>3

(* A site with N pages is explored within N links: before that, each link  *)
(* reaches a page more, or none is left.                                   *)
LEMMA ReachedAll ==
  ASSUME IsFiniteSet(Pages), NEW n \in Nat
  PROVE  /\ Cardinality(Pages) \in Nat
         /\ Reached[n] \subseteq Reached[Cardinality(Pages)]
<1> DEFINE N == Cardinality(Pages)
<1>1. IsFiniteSet(Pages) /\ N \in Nat
  BY FS_CardinalityType
<1>2. ASSUME NEW k \in Nat, Reached[k + 1] = Reached[k], NEW m \in Nat
      PROVE  Reached[m] \subseteq Reached[k]
  <2> DEFINE A == {l \in Nat : Reached[l] \subseteq Reached[k]}
  <2>1. 0 \in A
    BY ReachedUp
  <2>2. ASSUME NEW l \in Nat, l \in A PROVE l + 1 \in A
    <3>1. LinkedFrom(Reached[l]) \subseteq LinkedFrom(Reached[k])
      BY <2>2 DEF LinkedFrom
    <3> QED BY <1>2, <2>2, <3>1, ReachedFacts
  <2>3. Nat \subseteq A
    <3> HIDE DEF A
    <3> QED BY <2>1, <2>2, Induction
  <2> QED BY <2>3
<1>3. ASSUME NEW k \in Nat
      PROVE  IsFiniteSet(Reached[k]) /\ Cardinality(Reached[k]) \in Nat /\ Cardinality(Reached[k]) <= N
  BY <1>1, ReachedFacts, FS_Subset, FS_CardinalityType
<1> DEFINE Stable(k) == \E j \in Nat : j < k /\ Reached[j + 1] = Reached[j]
           B == {k \in Nat : Stable(k) \/ Cardinality(Reached[k]) >= k + 1}
<1>4. 0 \in B
  <2>1. Cardinality({Norm[Start]}) = 1
    BY FS_Singleton
  <2>2. Cardinality(Reached[0]) = 1
    BY <2>1, ReachedFacts
  <2> QED BY <2>2
<1>5. ASSUME NEW k \in Nat, k \in B PROVE k + 1 \in B
  <2>1. CASE Stable(k)
    <3>1. Stable(k + 1)
      BY <2>1
    <3> QED BY <3>1
  <2>2. CASE Reached[k + 1] = Reached[k]
    <3>1. Stable(k + 1)
      BY <2>2
    <3> QED BY <3>1
  <2>3. CASE ~Stable(k) /\ Reached[k + 1] # Reached[k]
    <3>1. Reached[k] \subseteq Reached[k + 1]
      BY ReachedFacts
    <3>2. Cardinality(Reached[k]) <= Cardinality(Reached[k + 1])
          /\ Cardinality(Reached[k]) # Cardinality(Reached[k + 1])
      BY <1>3, <2>3, <3>1, FS_Subset
    <3>3. Cardinality(Reached[k]) >= k + 1
      BY <1>5, <2>3
    <3>4. Cardinality(Reached[k]) \in Nat /\ Cardinality(Reached[k + 1]) \in Nat
      BY <1>3
    <3>5. Cardinality(Reached[k + 1]) >= (k + 1) + 1
      BY <3>2, <3>3, <3>4
    <3> QED BY <3>5
  <2> QED BY <2>1, <2>2, <2>3
<1>6. N \in B
  <2>1. Nat \subseteq B
    <3> HIDE DEF B
    <3> QED BY <1>4, <1>5, Induction
  <2> QED BY <1>1, <2>1
<1>7. PICK j \in Nat : j < N /\ Reached[j + 1] = Reached[j]
  <2>1. Cardinality(Reached[N]) \in Nat /\ Cardinality(Reached[N]) <= N
    BY <1>1, <1>3
  <2>2. Stable(N) \/ Cardinality(Reached[N]) >= N + 1
    BY <1>6
  <2> HIDE DEF N
  <2> QED BY <1>1, <2>1, <2>2
<1>8. Reached[n] \subseteq Reached[j]
  BY <1>2, <1>7
<1>9. Reached[j] \subseteq Reached[N]
  BY <1>1, <1>7, ReachedUp
<1> QED BY <1>1, <1>8, <1>9

Deep(d) == MaxDepth = -1 \/ d <= MaxDepth

LEMMA ReachedIn ==
  ASSUME NEW n \in Nat, Deep(n)
  PROVE  Reached[n] \subseteq InReach
<1>1. CASE MaxDepth = -1
  BY <1>1, LinksAssumption, ReachedAll DEF InReach
<1>2. CASE MaxDepth # -1
  BY <1>2, LimitsAssumption, ReachedUp DEF InReach, Deep
<1> QED BY <1>1, <1>2

-----------------------------------------------------------------------------
(* The queue after the links of a page.                                    *)

Grown(q, links, w, n) ==
  /\ q \in Seq(Items) /\ Len(w.queue) <= Len(q)
  /\ \A i \in 1 .. Len(w.queue) : q[i] = w.queue[i]
  /\ \A i \in 1 .. Len(q) : i > Len(w.queue) =>
       q[i].depth = w.item.depth + 1 /\ \E k \in 1 .. Len(links) : q[i].href = links[k]
  /\ \A k \in 1 .. Len(links) : k <= n =>
       \/ Norm[links[k]] \in w.visited
       \/ \E i \in 1 .. Len(q) : q[i].href = links[k] /\ q[i].depth = w.item.depth + 1

LEMMA PushedGrown ==
  ASSUME NEW links \in Seq(Hrefs), NEW w \in WorkerRecords
  PROVE  Grown(Pushed(links, w), links, w, Len(links))
<1>1. w.queue \in Seq(Items) /\ w.item \in Items /\ w.item.depth \in Nat /\ Len(links) \in Nat
  BY DEF WorkerRecords, Items
<1>2. PICK queue \in [0 .. Len(links) -> Seq(Items)] :
        queue = PushedBody(links, w, queue) /\ Pushed(links, w) = queue[Len(links)]
  BY <1>1, PushedBy
<1>3. \A n \in 0 .. Len(links) : queue[n] = PushedValue(links, w, queue, n)
  BY <1>2 DEF PushedBody
<1> DEFINE A == {n \in Nat : n <= Len(links) => Grown(queue[n], links, w, n)}
<1>4. 0 \in A
  <2>1. queue[0] = w.queue
    <3>1. 0 \in 0 .. Len(links)
      BY <1>1
    <3> QED BY <1>3, <3>1 DEF PushedValue
  <2> QED BY <1>1, <2>1 DEF Grown
<1>5. ASSUME NEW n \in Nat, n \in A PROVE n + 1 \in A
  <2>1. SUFFICES ASSUME n + 1 <= Len(links) PROVE Grown(queue[n + 1], links, w, n + 1)
    OBVIOUS
  <2>2. PICK m \in 1 .. Len(links) : m = n + 1 /\ m # 0 /\ m - 1 = n /\ m \in 0 .. Len(links)
    BY <1>1, <2>1
  <2>3. PICK q : q = queue[n]
    OBVIOUS
  <2>4. Grown(q, links, w, n)
    BY <1>5, <2>1, <2>3
  <2>5. queue[m] = IF Norm[links[m]] \in w.visited THEN q
                   ELSE Append(q, [href |-> links[m], depth |-> w.item.depth + 1])
    BY <1>3, <2>2, <2>3 DEF PushedValue
  <2>6. CASE Norm[links[m]] \in w.visited
    <3>1. \A k \in 1 .. Len(links) : k <= m => k <= n \/ k = m
      BY <1>1, <2>2
    <3>2. \A k \in 1 .. Len(links) : k <= m =>
            \/ Norm[links[k]] \in w.visited
            \/ \E i \in 1 .. Len(q) : q[i].href = links[k] /\ q[i].depth = w.item.depth + 1
      BY <2>4, <2>6, <3>1, Zenon DEF Grown
    <3>3. Grown(q, links, w, m)
      BY <2>4, <3>2, Zenon DEF Grown
    <3> QED BY <2>2, <2>5, <2>6, <3>3
  <2>7. CASE Norm[links[m]] \notin w.visited
    <3> DEFINE new == [href |-> links[m], depth |-> w.item.depth + 1]
               r == Append(q, new)
    <3>1. q \in Seq(Items) /\ Len(q) \in Nat
      BY <2>4 DEF Grown
    <3>2. new \in Items /\ new.href = links[m] /\ new.depth = w.item.depth + 1
      BY <1>1 DEF Items
    <3> HIDE DEF new
    <3>3. /\ r \in Seq(Items) /\ Len(r) = Len(q) + 1
          /\ \A i \in 1 .. Len(q) : r[i] = q[i]
          /\ r[Len(q) + 1] = new
      BY <3>1, <3>2
    <3> HIDE DEF r
    <3>4. Len(w.queue) <= Len(r) /\ \A i \in 1 .. Len(w.queue) : r[i] = w.queue[i]
      BY <1>1, <2>4, <3>1, <3>3 DEF Grown
    <3>5. ASSUME NEW i \in 1 .. Len(r), i > Len(w.queue)
          PROVE  r[i].depth = w.item.depth + 1 /\ \E k \in 1 .. Len(links) : r[i].href = links[k]
      <4>1. CASE i = Len(q) + 1
        BY <3>2, <3>3, <4>1
      <4>2. CASE i # Len(q) + 1
        <5>1. i \in 1 .. Len(q)
          BY <3>1, <3>3, <4>2
        <5> QED BY <2>4, <3>3, <3>5, <5>1 DEF Grown
      <4> QED BY <4>1, <4>2
    <3>6. ASSUME NEW k \in 1 .. Len(links), k <= m
          PROVE  \/ Norm[links[k]] \in w.visited
                 \/ \E i \in 1 .. Len(r) : r[i].href = links[k] /\ r[i].depth = w.item.depth + 1
      <4>1. CASE k = m
        <5>1. Len(q) + 1 \in 1 .. Len(r)
          BY <3>1, <3>3
        <5> QED BY <3>2, <3>3, <4>1, <5>1
      <4>2. CASE k # m
        <5>1. k <= n
          BY <2>2, <3>6, <4>2
        <5>2. 1 .. Len(q) \subseteq 1 .. Len(r)
          BY <3>1, <3>3
        <5>3. \/ Norm[links[k]] \in w.visited
              \/ \E i \in 1 .. Len(q) : q[i].href = links[k] /\ q[i].depth = w.item.depth + 1
          BY <2>4, <5>1 DEF Grown
        <5> QED BY <3>3, <5>2, <5>3
      <4> QED BY <4>1, <4>2
    <3>7. Grown(r, links, w, m)
      BY <3>3, <3>4, <3>5, <3>6 DEF Grown
    <3>8. r = queue[m]
      BY <2>5, <2>7 DEF r, new
    <3> QED BY <2>2, <3>7, <3>8
  <2> QED BY <2>6, <2>7
<1>6. Nat \subseteq A
  <2> HIDE DEF A
  <2> QED BY <1>4, <1>5, Induction
<1>7. Grown(queue[Len(links)], links, w, Len(links))
  BY <1>1, <1>6
<1> QED BY <1>2, <1>7

-----------------------------------------------------------------------------
(* The search is breadth-first.                                            *)

Page(i) == Norm[i.href]
Placed(i) == Page(i) \in Reached[i.depth] /\ Deep(i.depth)
Reading == {"fetch", "store", "count"}

(* What is queued or was visited is within the depth. *)
Within(w) ==
  /\ \A i \in 1 .. Len(w.queue) : Placed(w.queue[i])
  /\ Placed(w.item)
  /\ w.visited \subseteq InReach
  /\ w.pc \in {"find", "mark"} => w.visited = {} /\ w.counts = NoCounts

(* The depths in the queue do not fall, and differ by one at most. *)
Ordered(w) ==
  /\ \A i, j \in 1 .. Len(w.queue) : i < j =>
       w.queue[i].depth <= w.queue[j].depth /\ w.queue[j].depth <= w.queue[i].depth + 1
  /\ w.pc \in Reading => \A i \in 1 .. Len(w.queue) :
       w.item.depth <= w.queue[i].depth /\ w.queue[i].depth <= w.item.depth + 1

Tally(w) ==
  /\ w.counts.crawled <= w.counts.found
  /\ w.pc \in {"fetch", "store"} => w.counts.crawled < w.counts.found
  /\ w.pc = "fail" => w.counts.failed > 0

(* So far every page was stored, and the limit is not reached. *)
Perfect(w) ==
  /\ w.counts.failed = 0 /\ w.counts.crawled < Limit
  /\ w.counts.found = w.counts.crawled + (IF w.pc \in {"fetch", "store"} THEN 1 ELSE 0)

Due(w, p, n) ==
  \/ p \in w.visited
  \/ \E i \in 1 .. Len(w.queue) : Page(w.queue[i]) = p /\ w.queue[i].depth <= n

(* The pages linked from the pages visited are visited, or queued as close *)
(* to the start as they are; and a page is visited when its turn comes.    *)
Covers(w) ==
  w.pc \in Reading \cup {"loop", "close"} /\ Perfect(w) =>
    /\ Due(w, Norm[Start], 0)
    /\ \A p \in w.visited, n \in Nat :
         p \in Reached[n] /\ Deep(n + 1) /\ ~(w.pc \in Reading /\ p = Page(w.item)) =>
           \A i \in 1 .. Len(Links[p]) : Due(w, Norm[Links[p][i]], n + 1)
    /\ w.pc \in Reading =>
         \A n \in Nat : Page(w.item) \in Reached[n] => w.item.depth <= n

Search(w) == Within(w) /\ Ordered(w) /\ Tally(w) /\ Covers(w)

LEMMA StartPlaced == Placed(FirstItem)
BY LimitsAssumption, ReachedFacts DEF Placed, Page, Deep, FirstItem

LEMMA PlacedIn ==
  ASSUME NEW i \in Items, Placed(i)
  PROVE  Page(i) \in InReach
BY ReachedIn DEF Placed, Items

LEMMA IdleSearch ==
  ASSUME NEW w, w = Idle \/ w = [Idle EXCEPT !.pc = "find"]
  PROVE  Search(w)
<1>1. /\ w.pc \in {"idle", "find"} /\ w.queue = << >> /\ w.visited = {} /\ w.item = FirstItem
      /\ w.counts = NoCounts
  BY DEF Idle
<1> QED BY <1>1, StartPlaced DEF Search, Within, Ordered, Tally, Covers, Reading, NoCounts

LEMMA Jump ==
  ASSUME NEW w \in WorkerRecords, NEW v \in WorkerRecords, Search(w),
         v.queue = w.queue, v.item = w.item, v.visited = w.visited, v.counts = w.counts,
         v.pc \in {"idle", "failJob", "rethrow", "complete"}
         \/ <<w.pc, v.pc>> \in {<<"find", "mark">>, <<"fetch", "store">>, <<"fetch", "loop">>,
                                <<"fail", "loop">>, <<"loop", "close">>}
  PROVE  Search(v)
<1>a. w.counts.crawled \in Nat /\ w.counts.found \in Nat /\ w.counts.failed \in Nat
  BY DEF WorkerRecords, Counts
<1>1. Within(v)
  BY DEF Search, Within
<1>2. Ordered(v)
  BY DEF Search, Ordered, Reading
<1>3. Tally(v)
  BY DEF Search, Tally
<1>4. Covers(v)
  <2>1. CASE v.pc \in {"idle", "failJob", "rethrow", "complete", "mark"}
    BY <2>1 DEF Covers, Reading
  <2>2. CASE w.pc \in {"fetch", "fail"} /\ v.pc = "loop"
    <3>1. ~Perfect(v)
      BY <1>a, <2>2 DEF Search, Tally, Perfect
    <3> QED BY <3>1 DEF Covers
  <2>3. CASE <<w.pc, v.pc>> \in {<<"fetch", "store">>, <<"loop", "close">>}
    <3>1. Perfect(v) <=> Perfect(w)
      BY <2>3 DEF Perfect
    <3>2. \A p, n : Due(v, p, n) <=> Due(w, p, n)
      BY DEF Due
    <3> QED BY <2>3, <3>1, <3>2 DEF Search, Covers, Reading
  <2> QED BY <2>1, <2>2, <2>3
<1> QED BY <1>1, <1>2, <1>3, <1>4 DEF Search

LEMMA MarkSearch ==
  ASSUME NEW w \in WorkerRecords, w.pc = "mark", Search(w),
         NEW v, v = [w EXCEPT !.pc = "loop", !.queue = <<FirstItem>>]
  PROVE  Search(v)
<1>1. /\ v.pc = "loop" /\ v.queue = <<FirstItem>> /\ v.visited = {} /\ v.item = w.item
      /\ v.counts = NoCounts
  BY DEF Search, Within, WorkerRecords
<1>2. Len(v.queue) = 1 /\ v.queue[1] = FirstItem
  BY <1>1
<1>3. Within(v)
  BY <1>1, <1>2, StartPlaced DEF Search, Within
<1>4. Ordered(v) /\ Tally(v)
  BY <1>1, <1>2 DEF Ordered, Tally, Reading, NoCounts
<1>5. Due(v, Norm[Start], 0)
  BY <1>2 DEF Due, Page, FirstItem
<1> QED BY <1>1, <1>3, <1>4, <1>5 DEF Search, Covers, Reading

LEMMA FailSearch ==
  ASSUME NEW w \in WorkerRecords, NEW v, Search(w), w.pc \in Reading, v = [w EXCEPT !.pc = "fail",
           !.counts.failed = w.counts.failed + 1]
  PROVE  Search(v)
<1>1. /\ v.pc = "fail" /\ v.queue = w.queue /\ v.visited = w.visited /\ v.item = w.item
      /\ v.counts.crawled = w.counts.crawled /\ v.counts.found = w.counts.found
      /\ v.counts.failed = w.counts.failed + 1
  BY DEF WorkerRecords, Counts
<1>2. w.counts.failed \in Nat
  BY DEF WorkerRecords, Counts
<1> QED BY <1>1, <1>2 DEF Search, Within, Ordered, Tally, Covers, Reading

LEMMA StoreSearch ==
  ASSUME NEW w \in WorkerRecords, NEW v, Search(w), w.pc = "store",
         v = [w EXCEPT !.pc = "count", !.counts.crawled = w.counts.crawled + 1]
  PROVE  Search(v)
<1>1. /\ v.pc = "count" /\ v.queue = w.queue /\ v.visited = w.visited /\ v.item = w.item
      /\ v.counts.crawled = w.counts.crawled + 1 /\ v.counts.found = w.counts.found
      /\ v.counts.failed = w.counts.failed
  BY DEF WorkerRecords, Counts
<1>2. w.counts.crawled \in Nat /\ w.counts.found \in Nat
  BY DEF WorkerRecords, Counts
<1>3. Within(v) /\ Ordered(v) /\ Tally(v)
  BY <1>1, <1>2 DEF Search, Within, Ordered, Tally, Reading
<1>4. Perfect(v) => Perfect(w)
  BY <1>1, <1>2, LimitsAssumption DEF Perfect
<1>5. \A p, n : Due(v, p, n) <=> Due(w, p, n)
  BY <1>1 DEF Due
<1>6. Covers(v)
  BY <1>1, <1>4, <1>5 DEF Search, Covers, Reading
<1> QED BY <1>3, <1>6 DEF Search

(* The links of a page one link further, if that is within the depth. *)
LEMMA FollowSearch ==
  ASSUME NEW w \in WorkerRecords, Search(w), w.pc = "count"
  PROVE  Search(FollowLinks(w))
<1> DEFINE v == FollowLinks(w)
           p == Page(w.item)
           links == Links[p]
           deeper == (MaxDepth = -1 \/ w.item.depth < MaxDepth) /\ w.counts.crawled < Limit
<1>1. v.pc = "loop" /\ v.item = w.item /\ v.visited = w.visited /\ v.counts = w.counts
  BY FollowFacts
<1>2. v.queue = IF deeper THEN Pushed(links, w) ELSE w.queue
  BY DEF FollowLinks, WorkerRecords, Page
<1>3. w.item \in Items /\ w.item.depth \in Nat /\ p \in Pages /\ links \in Seq(Hrefs)
  BY LinksAssumption DEF WorkerRecords, Items, Pages, Page
<1>4. w.queue \in Seq(Items) /\ Len(w.queue) \in Nat
      /\ \A i \in 1 .. Len(w.queue) : w.queue[i].depth \in Nat
  <2>1. w.queue \in Seq(Items)
    BY DEF WorkerRecords
  <2>2. Len(w.queue) \in Nat /\ \A i \in 1 .. Len(w.queue) : w.queue[i] \in Items
    BY <2>1
  <2> QED BY <2>1, <2>2 DEF Items
<1>5. CASE ~deeper
  <2>1. v.queue = w.queue
    BY <1>2, <1>5
  <2>2. Within(v) /\ Ordered(v) /\ Tally(v)
    BY <1>1, <2>1 DEF Search, Within, Ordered, Tally, Reading
  <2>3. Perfect(v) <=> Perfect(w)
    BY <1>1 DEF Perfect
  <2>4. \A q, n : Due(v, q, n) <=> Due(w, q, n)
    BY <1>1, <2>1 DEF Due
  <2>5. ASSUME Perfect(v), NEW n \in Nat, p \in Reached[n], Deep(n + 1) PROVE FALSE
    <3>1. w.item.depth <= n
      BY <2>3, <2>5 DEF Search, Covers, Reading
    <3>2. w.counts.crawled < Limit
      BY <2>3, <2>5 DEF Perfect
    <3> QED BY <1>3, <1>5, <2>5, <3>1, <3>2, LimitsAssumption DEF Deep
  <2>6. Covers(v)
    <3>1. SUFFICES ASSUME Perfect(v)
                   PROVE  /\ Due(v, Norm[Start], 0)
                          /\ \A q \in v.visited, n \in Nat : q \in Reached[n] /\ Deep(n + 1) =>
                               \A i \in 1 .. Len(Links[q]) : Due(v, Norm[Links[q][i]], n + 1)
      BY <1>1 DEF Covers, Reading
    <3>2. Due(w, Norm[Start], 0)
      BY <2>3, <3>1 DEF Search, Covers, Reading
    <3>3. ASSUME NEW q \in v.visited, NEW n \in Nat, q \in Reached[n], Deep(n + 1)
          PROVE  \A i \in 1 .. Len(Links[q]) : Due(w, Norm[Links[q][i]], n + 1)
      BY <1>1, <2>3, <2>5, <3>1, <3>3 DEF Search, Covers, Reading
    <3> QED BY <2>4, <3>2, <3>3
  <2> QED BY <2>2, <2>6 DEF Search
<1>6. CASE deeper
  <2>1. Grown(v.queue, links, w, Len(links))
    BY <1>2, <1>3, <1>6, PushedGrown
  <2> HIDE DEF v, links, deeper
  <2>2. v.queue \in Seq(Items) /\ Len(v.queue) \in Nat /\ Len(w.queue) <= Len(v.queue)
    BY <2>1 DEF Grown
  <2>3. \A i \in 1 .. Len(w.queue) : i \in 1 .. Len(v.queue) /\ v.queue[i] = w.queue[i]
    BY <1>4, <2>1, <2>2 DEF Grown
  <2>4. ASSUME NEW i \in 1 .. Len(v.queue), i \notin 1 .. Len(w.queue)
        PROVE  /\ v.queue[i].depth = w.item.depth + 1
               /\ \E k \in 1 .. Len(links) : v.queue[i].href = links[k]
    <3>1. i > Len(w.queue)
      BY <1>4, <2>2, <2>4
    <3> QED BY <2>1, <3>1 DEF Grown
  <2>5. Placed(w.item) /\ Deep(w.item.depth + 1)
    BY <1>3, <1>6, LimitsAssumption DEF Search, Within, Deep, deeper
  <2>6. ASSUME NEW i \in 1 .. Len(v.queue) PROVE Placed(v.queue[i])
    <3>1. CASE i \in 1 .. Len(w.queue)
      BY <2>3, <3>1 DEF Search, Within
    <3>2. CASE i \notin 1 .. Len(w.queue)
      <4>1. PICK k \in 1 .. Len(links) : v.queue[i].href = links[k]
        BY <2>4, <3>2
      <4>2. v.queue[i].depth = w.item.depth + 1
        BY <2>4, <3>2
      <4>3. k \in DOMAIN Links[p] /\ links[k] = Links[p][k]
        BY <1>3 DEF links
      <4>4. Norm[links[k]] \in Reached[w.item.depth + 1]
        BY <1>3, <2>5, <4>3, ReachedLink DEF Placed
      <4> QED BY <2>5, <4>1, <4>2, <4>4 DEF Placed, Page
    <3> QED BY <3>1, <3>2
  <2>7. Within(v)
    BY <1>1, <2>6 DEF Search, Within
  <2>8. Tally(v)
    BY <1>1 DEF Search, Tally
  <2>9. Ordered(v)
    <3>1. SUFFICES ASSUME NEW i \in 1 .. Len(v.queue), NEW j \in 1 .. Len(v.queue), i < j
                   PROVE  /\ v.queue[i].depth <= v.queue[j].depth
                          /\ v.queue[j].depth <= v.queue[i].depth + 1
      BY <1>1 DEF Ordered, Reading
    <3>2. CASE j \in 1 .. Len(w.queue)
      <4>1. i \in 1 .. Len(w.queue)
        BY <1>4, <2>2, <3>1, <3>2
      <4> QED BY <2>3, <3>1, <3>2, <4>1 DEF Search, Ordered
    <3>3. CASE i \in 1 .. Len(w.queue) /\ j \notin 1 .. Len(w.queue)
      <4>1. w.item.depth <= w.queue[i].depth /\ w.queue[i].depth <= w.item.depth + 1
        BY <3>3 DEF Search, Ordered, Reading
      <4>2. v.queue[i] = w.queue[i] /\ v.queue[j].depth = w.item.depth + 1
        BY <2>3, <2>4, <3>3
      <4>3. w.queue[i].depth \in Nat
        BY <1>4, <3>3
      <4> QED BY <1>3, <4>1, <4>2, <4>3
    <3>4. CASE i \notin 1 .. Len(w.queue)
      <4>1. j \notin 1 .. Len(w.queue)
        BY <1>4, <2>2, <3>1, <3>4
      <4>2. v.queue[i].depth = w.item.depth + 1 /\ v.queue[j].depth = w.item.depth + 1
        BY <2>4, <3>4, <4>1
      <4> QED BY <1>3, <4>2
    <3> QED BY <3>2, <3>3, <3>4
  <2>10. ASSUME NEW q, NEW n, Due(w, q, n) PROVE Due(v, q, n)
    BY <1>1, <2>3, <2>10 DEF Due
  <2>11. Covers(v)
    <3>1. SUFFICES ASSUME Perfect(v)
                   PROVE  /\ Due(v, Norm[Start], 0)
                          /\ \A q \in v.visited, n \in Nat : q \in Reached[n] /\ Deep(n + 1) =>
                               \A i \in 1 .. Len(Links[q]) : Due(v, Norm[Links[q][i]], n + 1)
      BY <1>1 DEF Covers, Reading
    <3>2. Perfect(w)
      BY <1>1, <3>1 DEF Perfect
    <3>3. Due(v, Norm[Start], 0)
      BY <2>10, <3>2 DEF Search, Covers, Reading
    <3>4. ASSUME NEW q \in v.visited, NEW n \in Nat, q \in Reached[n], Deep(n + 1),
                 NEW k \in 1 .. Len(Links[q])
          PROVE  Due(v, Norm[Links[q][k]], n + 1)
      <4>1. CASE q # p
        <5>1. Due(w, Norm[Links[q][k]], n + 1)
          BY <1>1, <3>2, <3>4, <4>1 DEF Search, Covers, Reading
        <5> QED BY <2>10, <5>1
      <4>2. CASE q = p
        <5>1. w.item.depth <= n
          BY <3>2, <3>4, <4>2 DEF Search, Covers, Reading
        <5>2. k \in 1 .. Len(links) /\ links[k] = Links[q][k]
          BY <4>2 DEF links
        <5>3. CASE Norm[links[k]] \in w.visited
          BY <1>1, <5>2, <5>3 DEF Due
        <5>4. CASE Norm[links[k]] \notin w.visited
          <6>1. k <= Len(links)
            BY <1>3, <5>2
          <6>2. PICK i \in 1 .. Len(v.queue) :
                  v.queue[i].href = links[k] /\ v.queue[i].depth = w.item.depth + 1
            BY <2>1, <5>2, <5>4, <6>1 DEF Grown
          <6>3. w.item.depth + 1 <= n + 1
            BY <1>3, <5>1
          <6> QED BY <5>2, <6>2, <6>3 DEF Due, Page
        <5> QED BY <5>3, <5>4
      <4> QED BY <4>1, <4>2
    <3> QED BY <3>3, <3>4
  <2> QED BY <2>7, <2>8, <2>9, <2>11 DEF Search, v
<1> QED BY <1>5, <1>6

(* The queue without its first item. *)
LEMMA Rest ==
  ASSUME NEW w \in WorkerRecords, w.queue # << >>, Search(w), NEW v, v.queue = Tail(w.queue)
  PROVE  /\ Head(w.queue) \in Items /\ Head(w.queue) = w.queue[1] /\ Placed(Head(w.queue))
         /\ Len(w.queue) > 0 /\ v.queue \in Seq(Items) /\ Len(v.queue) = Len(w.queue) - 1
         /\ \A i \in 1 .. Len(v.queue) :
              v.queue[i] = w.queue[i + 1] /\ i + 1 \in 1 .. Len(w.queue) /\ i + 1 > 1
         /\ \A i \in 1 .. Len(w.queue) : i = 1 \/ (i - 1 \in 1 .. Len(v.queue) /\ v.queue[i - 1] = w.queue[i])
         /\ \A i \in 1 .. Len(v.queue) : Placed(v.queue[i])
         /\ \A i, j \in 1 .. Len(v.queue) : i < j =>
              v.queue[i].depth <= v.queue[j].depth /\ v.queue[j].depth <= v.queue[i].depth + 1
         /\ \A i \in 1 .. Len(v.queue) :
              /\ Head(w.queue).depth <= v.queue[i].depth
              /\ v.queue[i].depth <= Head(w.queue).depth + 1
<1>1. PICK q \in Seq(Items) : q = w.queue /\ q # << >>
  BY DEF WorkerRecords
<1>2. Len(q) \in Nat /\ Len(q) > 0 /\ Head(q) = q[1] /\ 1 \in 1 .. Len(q) /\ Head(q) \in Items
  BY <1>1
<1>3. Tail(q) \in Seq(Items) /\ Len(Tail(q)) = Len(q) - 1
  BY <1>1, <1>2
<1>4. \A i \in 1 .. Len(v.queue) : v.queue[i] = q[i + 1] /\ i + 1 \in 1 .. Len(q) /\ i + 1 > 1
  BY <1>1, <1>2, <1>3
<1>5. \A i \in 1 .. Len(q) : i = 1 \/ (i - 1 \in 1 .. Len(v.queue) /\ v.queue[i - 1] = q[i])
  <2>1. ASSUME NEW i \in 1 .. Len(q), i # 1 PROVE i - 1 \in 1 .. Len(v.queue) /\ v.queue[i - 1] = q[i]
    <3>1. PICK k \in 1 .. Len(v.queue) : k + 1 = i /\ i - 1 = k
      BY <1>1, <1>2, <1>3, <2>1
    <3> QED BY <1>4, <3>1
  <2> QED BY <2>1
<1>6. \A i, j \in 1 .. Len(q) : i < j => q[i].depth <= q[j].depth /\ q[j].depth <= q[i].depth + 1
  BY <1>1 DEF Search, Ordered
<1>7. \A i \in 1 .. Len(q) : Placed(q[i])
  BY <1>1 DEF Search, Within
<1>8. \A i, j \in 1 .. Len(v.queue) : i < j =>
        v.queue[i].depth <= v.queue[j].depth /\ v.queue[j].depth <= v.queue[i].depth + 1
  BY <1>1, <1>2, <1>3, <1>4, <1>6
<1>9. \A i \in 1 .. Len(v.queue) : q[1].depth <= v.queue[i].depth /\ v.queue[i].depth <= q[1].depth + 1
  BY <1>2, <1>4, <1>6
<1>10. \A i \in 1 .. Len(v.queue) : Placed(v.queue[i])
  BY <1>4, <1>7
<1> QED BY <1>1, <1>2, <1>3, <1>4, <1>5, <1>7, <1>8, <1>9, <1>10

LEMMA DropSearch ==
  ASSUME NEW w \in WorkerRecords, Search(w), w.pc = "loop", w.queue # << >>,
         Page(Head(w.queue)) \in w.visited,
         NEW v, v = [w EXCEPT !.queue = Tail(w.queue)]
  PROVE  Search(v)
<1>1. /\ v.pc = "loop" /\ v.queue = Tail(w.queue) /\ v.visited = w.visited /\ v.item = w.item
      /\ v.counts = w.counts
  BY DEF WorkerRecords
<1>2. Within(v) /\ Ordered(v) /\ Tally(v)
  BY <1>1, Rest DEF Search, Within, Ordered, Tally, Reading
<1>3. ASSUME NEW q, NEW n, Due(w, q, n) PROVE Due(v, q, n)
  <2>1. CASE q \in w.visited
    BY <1>1, <2>1 DEF Due
  <2>2. CASE q \notin w.visited
    <3>1. PICK i \in 1 .. Len(w.queue) : Page(w.queue[i]) = q /\ w.queue[i].depth <= n
      BY <1>3, <2>2 DEF Due
    <3>2. i # 1
      BY <2>2, <3>1, Rest
    <3>3. i - 1 \in 1 .. Len(v.queue) /\ v.queue[i - 1] = w.queue[i]
      BY <1>1, <3>2, Rest
    <3> QED BY <3>1, <3>3 DEF Due
  <2> QED BY <2>1, <2>2
<1>4. Perfect(v) <=> Perfect(w)
  BY <1>1 DEF Perfect
<1>5. Covers(v)
  BY <1>1, <1>3, <1>4 DEF Search, Covers, Reading
<1> QED BY <1>2, <1>5 DEF Search

(* The page that is taken is no closer to the start than it was queued: all*)
(* that is closer was visited.                                             *)
LEMMA TakeSearch ==
  ASSUME NEW w \in WorkerRecords, Search(w), w.pc = "loop", w.queue # << >>,
         w.counts.crawled < Limit,
         Page(Head(w.queue)) \notin w.visited,
         NEW v, v = [w EXCEPT !.pc = "fetch", !.queue = Tail(w.queue), !.item = Head(w.queue),
                       !.visited = w.visited \cup {Page(Head(w.queue))},
                       !.counts.found = w.counts.found + 1]
  PROVE  Search(v)
<1> DEFINE item == Head(w.queue)
           p == Page(item)
<1>1. /\ v.pc = "fetch" /\ v.queue = Tail(w.queue) /\ v.visited = w.visited \cup {p} /\ v.item = item
      /\ v.counts.found = w.counts.found + 1 /\ v.counts.crawled = w.counts.crawled
      /\ v.counts.failed = w.counts.failed
  BY DEF WorkerRecords, Counts
<1>2. w.counts.crawled \in Nat /\ w.counts.found \in Nat
  BY DEF WorkerRecords, Counts
<1>3. item \in Items /\ Placed(item) /\ item.depth \in Nat /\ item = w.queue[1]
  BY <1>1, Rest DEF Items
<1>4. p \in InReach
  BY <1>3, PlacedIn
<1>5. Within(v)
  BY <1>1, <1>3, <1>4, Rest DEF Search, Within
<1>6. Ordered(v)
  BY <1>1, Rest DEF Ordered
<1>7. Tally(v)
  BY <1>1, <1>2 DEF Search, Tally
<1>8. ASSUME NEW q, NEW n, Due(w, q, n) PROVE Due(v, q, n)
  <2>1. CASE q \in v.visited
    BY <2>1 DEF Due
  <2>2. CASE q \notin v.visited
    <3>1. PICK i \in 1 .. Len(w.queue) : Page(w.queue[i]) = q /\ w.queue[i].depth <= n
      BY <1>1, <1>8, <2>2 DEF Due
    <3>2. i # 1
      BY <1>1, <1>3, <2>2, <3>1
    <3>3. i - 1 \in 1 .. Len(v.queue) /\ v.queue[i - 1] = w.queue[i]
      BY <1>1, <3>2, Rest
    <3> QED BY <3>1, <3>3 DEF Due
  <2> QED BY <2>1, <2>2
<1>9. Perfect(v) => Perfect(w)
  BY <1>1, <1>2 DEF Perfect
<1>10. ASSUME Perfect(w), NEW n \in Nat, p \in Reached[n] PROVE item.depth <= n
  <2> DEFINE A == {m \in Nat : m < item.depth => Reached[m] \subseteq w.visited}
  <2>1. ASSUME NEW q, NEW m \in Nat, Due(w, q, m), m < item.depth PROVE q \in w.visited
    <3>1. SUFFICES ASSUME NEW i \in 1 .. Len(w.queue), w.queue[i].depth <= m PROVE FALSE
      BY <2>1 DEF Due
    <3>2. item.depth <= w.queue[i].depth
      <4>1. CASE i = 1
        BY <1>3, <4>1
      <4>2. CASE i # 1
        <5>1. i - 1 \in 1 .. Len(v.queue) /\ v.queue[i - 1] = w.queue[i]
          BY <1>1, <4>2, Rest
        <5>2. \A k \in 1 .. Len(v.queue) : item.depth <= v.queue[k].depth
          BY <1>1, Rest
        <5>3. item.depth <= v.queue[i - 1].depth
          BY <5>1, <5>2
        <5> QED BY <5>1, <5>3
      <4> QED BY <4>1, <4>2
    <3>3. w.queue[i].depth \in Nat
      <4>1. w.queue \in Seq(Items)
        BY DEF WorkerRecords
      <4>2. w.queue[i] \in Items
        BY <4>1
      <4> QED BY <4>2 DEF Items
    <3> QED BY <1>3, <2>1, <3>1, <3>2, <3>3
  <2>2. /\ Due(w, Norm[Start], 0)
        /\ \A q \in w.visited, m \in Nat : q \in Reached[m] /\ Deep(m + 1) =>
             \A i \in 1 .. Len(Links[q]) : Due(w, Norm[Links[q][i]], m + 1)
    BY <1>10 DEF Search, Covers, Reading
  <2>3. 0 \in A
    <3>1. 0 < item.depth => Norm[Start] \in w.visited
      BY <2>1, <2>2
    <3> QED BY <3>1, ReachedFacts
  <2>4. ASSUME NEW m \in Nat, m \in A PROVE m + 1 \in A
    <3>1. SUFFICES ASSUME m + 1 < item.depth, NEW q \in Reached[m + 1] PROVE q \in w.visited
      OBVIOUS
    <3>2. Reached[m] \subseteq w.visited
      BY <1>3, <2>4, <3>1
    <3>3. Deep(m + 1)
      BY <1>3, <3>1, LimitsAssumption DEF Placed, Deep
    <3>4. CASE q \in Reached[m]
      BY <3>2, <3>4
    <3>5. CASE q \notin Reached[m]
      <4>1. q \in LinkedFrom(Reached[m])
        BY <3>1, <3>5, ReachedFacts
      <4>2. PICK r \in Reached[m] : \E i \in DOMAIN Links[r] : q = Norm[Links[r][i]]
        BY <4>1 DEF LinkedFrom
      <4>3. PICK i \in DOMAIN Links[r] : q = Norm[Links[r][i]]
        BY <4>2
      <4>4. i \in 1 .. Len(Links[r])
        <5>1. r \in Pages
          BY ReachedFacts
        <5>2. Links[r] \in Seq(Hrefs)
          BY <5>1, LinksAssumption
        <5> QED BY <5>2
      <4>5. Due(w, q, m + 1)
        BY <2>2, <3>2, <3>3, <4>3, <4>4
      <4> QED BY <2>1, <3>1, <4>5
    <3> QED BY <3>4, <3>5
  <2>5. Nat \subseteq A
    <3> HIDE DEF A
    <3> QED BY <2>3, <2>4, Induction
  <2>6. n < item.depth => Reached[n] \subseteq w.visited
    BY <2>5
  <2> QED BY <1>3, <1>10, <2>6
<1>11. Covers(v)
  <2>1. SUFFICES ASSUME Perfect(v)
                 PROVE  /\ Due(v, Norm[Start], 0)
                        /\ \A q \in v.visited, n \in Nat :
                             q \in Reached[n] /\ Deep(n + 1) /\ q # p =>
                               \A i \in 1 .. Len(Links[q]) : Due(v, Norm[Links[q][i]], n + 1)
                        /\ \A n \in Nat : p \in Reached[n] => item.depth <= n
    BY <1>1 DEF Covers, Reading
  <2>2. /\ Due(w, Norm[Start], 0)
        /\ \A q \in w.visited, m \in Nat : q \in Reached[m] /\ Deep(m + 1) =>
             \A i \in 1 .. Len(Links[q]) : Due(w, Norm[Links[q][i]], m + 1)
    BY <1>9, <2>1 DEF Search, Covers, Reading
  <2>3. Due(v, Norm[Start], 0)
    BY <1>8, <2>2
  <2>4. ASSUME NEW q \in v.visited, NEW n \in Nat, q \in Reached[n], Deep(n + 1), q # p,
               NEW i \in 1 .. Len(Links[q])
        PROVE  Due(v, Norm[Links[q][i]], n + 1)
    BY <1>1, <1>8, <2>2, <2>4
  <2> QED BY <1>9, <1>10, <2>1, <2>3, <2>4
<1> QED BY <1>5, <1>6, <1>7, <1>11 DEF Search

LEMMA SearchStep == TypeOK /\ TypeOK' /\ Search(worker) /\ [Next]_vars => Search(worker')
<1> SUFFICES ASSUME TypeOK, TypeOK', Search(worker), [Next]_vars PROVE Search(worker')
  OBVIOUS
<1>a. worker \in WorkerRecords /\ worker' \in WorkerRecords
  BY DEF TypeOK, WorkerRecords
<1>b. ASSUME NEW pc, worker' = [worker EXCEPT !.pc = pc],
             pc \in {"idle", "failJob", "rethrow", "complete"}
             \/ <<worker.pc, pc>> \in {<<"find", "mark">>, <<"fetch", "store">>, <<"fetch", "loop">>,
                                       <<"fail", "loop">>, <<"loop", "close">>}
      PROVE  Search(worker')
  <2>1. /\ worker'.pc = pc /\ worker'.queue = worker.queue /\ worker'.item = worker.item
        /\ worker'.visited = worker.visited /\ worker'.counts = worker.counts
    BY <1>a, <1>b DEF WorkerRecords
  <2> QED BY <1>a, <1>b, <2>1, Jump
<1>c. ASSUME worker' = Failing, worker.pc \in Reading PROVE Search(worker')
  BY <1>a, <1>c, FailSearch DEF Failing
<1>1. CASE worker' = worker
  BY <1>1
<1>2. CASE PickJob \/ Rethrow \/ Complete \/ Crash
  BY <1>2, IdleSearch DEF PickJob, Rethrow, Complete, Crash, EndJob
<1>3. CASE FindJob
  BY <1>3, <1>b DEF FindJob, Goto, Doing
<1>4. CASE MarkProcessing
  BY <1>4, <1>a, MarkSearch DEF MarkProcessing, Doing
<1>5. CASE LeaveLoop
  BY <1>5, <1>b DEF LeaveLoop, Goto, Doing
<1>6. CASE NextItem
  <2>1. worker.pc = "loop" /\ worker.queue # << >> /\ worker.counts.crawled < Limit
    BY <1>6, <1>a, LimitsAssumption DEF NextItem, LoopEnds, Doing, WorkerRecords, Counts
  <2>2. CASE Page(Head(worker.queue)) \in worker.visited
    BY <1>6, <1>a, <2>1, <2>2, DropSearch DEF NextItem, Page
  <2>3. CASE Page(Head(worker.queue)) \notin worker.visited
    <3>1. worker' = [worker EXCEPT !.pc = "fetch", !.queue = Tail(worker.queue),
                       !.item = Head(worker.queue),
                       !.visited = worker.visited \cup {Page(Head(worker.queue))},
                       !.counts.found = worker.counts.found + 1]
      BY <1>6, <2>3 DEF NextItem, Page
    <3> QED BY <1>a, <2>1, <2>3, <3>1, TakeSearch
  <2> QED BY <2>2, <2>3
<1>7. CASE Fetch
  <2>1. worker.pc = "fetch"
    BY <1>7 DEF Fetch, Doing
  <2>2. worker' = Failing \/ \E pc \in {"store", "loop"} : worker' = [worker EXCEPT !.pc = pc]
    BY <1>7 DEF Fetch, Goto
  <2> QED BY <1>b, <1>c, <2>1, <2>2 DEF Reading
<1>8. CASE StorePage
  <2> DEFINE s == [worker EXCEPT !.counts.crawled = worker.counts.crawled + 1]
             c == [worker EXCEPT !.pc = "count", !.counts.crawled = worker.counts.crawled + 1]
  <2>1. worker.pc = "store" /\ (worker' = [s EXCEPT !.pc = "count"] \/ worker' = FollowLinks(s))
    BY <1>8 DEF StorePage, Doing
  <2>2. [s EXCEPT !.pc = "count"] = c /\ FollowLinks(s) = FollowLinks(c)
    <3>1. [s EXCEPT !.pc = "count"] = c
      BY <1>a DEF WorkerRecords
    <3>2. /\ s.queue = c.queue /\ s.item = c.item /\ s.visited = c.visited /\ s.counts = c.counts
      BY <1>a DEF WorkerRecords
    <3>3. \A links : Pushed(links, s) = Pushed(links, c)
      <4> HIDE DEF s, c
      <4> QED BY <3>2 DEF Pushed
    <3>4. \A q : [s EXCEPT !.pc = "loop", !.queue = q] = [c EXCEPT !.pc = "loop", !.queue = q]
      BY <1>a DEF WorkerRecords
    <3> DEFINE d == (MaxDepth = -1 \/ s.item.depth < MaxDepth) /\ s.counts.crawled < Limit
               q == IF d THEN Pushed(Links[Norm[s.item.href]], s) ELSE s.queue
    <3>5. FollowLinks(s) = [s EXCEPT !.pc = "loop", !.queue = q]
      BY <1>a DEF FollowLinks, WorkerRecords
    <3>6. FollowLinks(c) = [c EXCEPT !.pc = "loop", !.queue = q]
      <4>1. q = IF (MaxDepth = -1 \/ c.item.depth < MaxDepth) /\ c.counts.crawled < Limit
                THEN Pushed(Links[Norm[c.item.href]], c) ELSE c.queue
        <5> HIDE DEF s, c
        <5> QED BY <3>2, <3>3
      <4> HIDE DEF q
      <4> QED BY <1>a, <4>1 DEF FollowLinks, WorkerRecords
    <3> HIDE DEF q
    <3> QED BY <3>1, <3>4, <3>5, <3>6
  <2>3. c \in WorkerRecords /\ c.pc = "count"
    <3>1. PICK n \in Counts : n = [worker.counts EXCEPT !.crawled = worker.counts.crawled + 1]
      BY <1>a, CountEdits DEF WorkerRecords
    <3>2. c = [[worker EXCEPT !.counts = n] EXCEPT !.pc = "count"]
      BY <1>a, <3>1 DEF WorkerRecords
    <3>3. [worker EXCEPT !.counts = n] \in WorkerRecords /\ "count" \in WorkerPCs
      BY <1>a, WorkerEdits DEF WorkerPCs
    <3>4. [[worker EXCEPT !.counts = n] EXCEPT !.pc = "count"] \in WorkerRecords
      BY <3>3, WorkerEdits
    <3>5. c.pc = "count"
      BY <1>a DEF WorkerRecords
    <3> QED BY <3>2, <3>4, <3>5
  <2>4. Search(c)
    BY <1>a, <2>1, StoreSearch
  <2> HIDE DEF c, s
  <2> QED BY <2>1, <2>2, <2>3, <2>4, FollowSearch
<1>9. CASE CountPages
  BY <1>9, <1>a, FollowSearch DEF CountPages, Doing
<1>10. CASE RecordFailure
  BY <1>10, <1>b DEF RecordFailure, Goto, Doing
<1>11. CASE CloseJob \/ FailJob
  BY <1>11, <1>b DEF CloseJob, FailJob, Goto
<1>12. CASE RowIsGone \/ CallFails
  <2>1. worker' = Thrown
    BY <1>12 DEF RowIsGone, CallFails
  <2>2. \/ worker' = Failing /\ worker.pc \in {"store", "count"}
        \/ \E pc \in {"failJob", "rethrow"} : worker' = [worker EXCEPT !.pc = pc]
    BY <2>1 DEF Thrown
  <2> QED BY <1>b, <1>c, <2>2 DEF Reading
<1>13. CASE \/ StartCrawl \/ EnqueueCrawl \/ EnqueueFails \/ DeleteChatbot
            \/ \E u \in Users : UserStep(u) \/ RequestFails(u) \/ ReadToCancel(u)
                             \/ \E S \in SUBSET DOMAIN pages : ReadPages(u, S)
            \/ \E j \in training : TrainPage(j)
            \/ UNCHANGED vars
  <2>1. worker' = worker
    BY <1>13 DEF StartCrawl, EnqueueCrawl, EnqueueFails, DeleteChatbot, UserStep, WriteCancel, MarkSelected,
                 EnqueuePage, RequestFails, ReadToCancel, ReadPages, TrainPage, vars
  <2> QED BY <1>1, <2>1
<1> QED BY <1>2, <1>3, <1>4, <1>5, <1>6, <1>7, <1>8, <1>9, <1>10, <1>11, <1>12, <1>13
        DEF Next, WorkerStep

LEMMA SearchCorrect == Spec => []Search(worker)
<1>1. Init => Search(worker)
  BY IdleSearch DEF Init
<1>2. TypeOK /\ TypeOK' /\ Search(worker) /\ [Next]_vars => Search(worker)'
  BY SearchStep
<1> QED BY <1>1, <1>2, TypeCorrect, PTL DEF Spec

-----------------------------------------------------------------------------
(* The crawl covers what the depth and the limit allow, and no more.       *)

(* Without a queue, all that is within the depth was visited.               *)
LEMMA CoversAll == TypeOK /\ Search(worker) => CrawlCovers
<1> SUFFICES ASSUME TypeOK, Search(worker), worker.pc = "close", worker.queue = << >>,
                    worker.counts.crawled < Limit, worker.counts.crawled = worker.counts.found,
                    worker.counts.failed = 0
             PROVE  worker.visited = InReach
  BY DEF CrawlCovers, Doing
<1>1. worker.visited \subseteq InReach
  BY DEF Search, Within
<1>2. Perfect(worker)
  <2>1. worker.counts.crawled \in Nat
    BY DEF TypeOK, Counts
  <2> QED BY <2>1 DEF Perfect
<1>3. \A q, n : Due(worker, q, n) => q \in worker.visited
  BY DEF Due
<1>4. /\ Norm[Start] \in worker.visited
      /\ \A p \in worker.visited, n \in Nat : p \in Reached[n] /\ Deep(n + 1) =>
           \A i \in 1 .. Len(Links[p]) : Norm[Links[p][i]] \in worker.visited
  BY <1>2, <1>3 DEF Search, Covers, Reading
<1> DEFINE A == {n \in Nat : Deep(n) => Reached[n] \subseteq worker.visited}
<1>5. 0 \in A
  BY <1>4, ReachedFacts
<1>6. ASSUME NEW n \in Nat, n \in A PROVE n + 1 \in A
  <2>1. SUFFICES ASSUME Deep(n + 1), NEW q \in Reached[n + 1] PROVE q \in worker.visited
    OBVIOUS
  <2>2. Reached[n] \subseteq worker.visited
    BY <1>6, <2>1, LimitsAssumption DEF Deep
  <2>3. CASE q \in Reached[n]
    BY <2>2, <2>3
  <2>4. CASE q \notin Reached[n]
    <3>1. q \in LinkedFrom(Reached[n])
      BY <2>1, <2>4, ReachedFacts
    <3>2. PICK r \in Reached[n] : \E i \in DOMAIN Links[r] : q = Norm[Links[r][i]]
      BY <3>1 DEF LinkedFrom
    <3>3. PICK i \in DOMAIN Links[r] : q = Norm[Links[r][i]]
      BY <3>2
    <3>4. i \in 1 .. Len(Links[r])
      <4>1. Links[r] \in Seq(Hrefs)
        BY ReachedFacts, LinksAssumption
      <4> QED BY <4>1
    <3> QED BY <1>4, <2>1, <2>2, <3>3, <3>4
  <2> QED BY <2>3, <2>4
<1>7. Nat \subseteq A
  <2> HIDE DEF A
  <2> QED BY <1>5, <1>6, Induction
<1>8. \E n \in Nat : Deep(n) /\ InReach = Reached[n]
  <2>1. CASE MaxDepth = -1
    <3>1. Cardinality(Pages) \in Nat
      BY <2>1, LinksAssumption, FS_CardinalityType
    <3> QED BY <2>1, <3>1 DEF InReach, Deep
  <2>2. CASE MaxDepth # -1
    BY <2>2, LimitsAssumption DEF InReach, Deep
  <2> QED BY <2>1, <2>2
<1>9. InReach \subseteq worker.visited
  BY <1>7, <1>8
<1> QED BY <1>1, <1>9

(* A run stores no more than the limit, in addition to the runs before it. *)
Stored == Cardinality(RowsWith("COMPLETED"))
LimitInv ==
  /\ worker.pc = "idle" => Stored <= Limit * Runs
  /\ worker.pc # "idle" => /\ Stored <= Limit * (Runs - 1) + worker.counts.crawled
                           /\ worker.counts.crawled <= Limit
  /\ worker.pc \in {"fetch", "store"} => worker.counts.crawled < Limit

LEMMA LimitStep == TypeOK /\ RunInv /\ LimitInv /\ Kinds => LimitInv'
<1> SUFFICES ASSUME TypeOK, RunInv, LimitInv, Kinds PROVE LimitInv'
  OBVIOUS
<1>a. /\ Runs \in Nat /\ (worker.pc # "idle" => Runs > 0) /\ Stored \in Nat
      /\ worker.counts \in Counts /\ worker.counts.crawled \in Nat
      /\ Limit \in Nat /\ Limit > 0
  <2>1. worker.counts \in Counts
    BY DEF TypeOK
  <2>2. Stored \in Nat
    BY RowsFinite DEF Stored
  <2> QED BY <2>1, <2>2, RunsNatural, LimitsAssumption DEF Doing, Counts
<1>b. SameRows => Stored' = Stored
  BY RowsSame DEF Stored
<1>c. pages' = pages => SameRows
  BY DEF SameRows
<1>d. Limit * (Runs - 1) + Limit = Limit * Runs /\ Limit * ((Runs + 1) - 1) = Limit * Runs
  BY <1>a
<1>e. Limit * Runs \in Int /\ Limit * (Runs - 1) \in Int
  BY <1>a
<1>f. PICK A, B : A = Limit * Runs /\ B = Limit * (Runs - 1) /\ A \in Int /\ B \in Int /\ B + Limit = A
  BY <1>d, <1>e
<1>g. /\ worker.pc = "idle" => Stored <= A
      /\ worker.pc # "idle" => Stored <= B + worker.counts.crawled /\ worker.counts.crawled <= Limit
      /\ worker.pc \in {"fetch", "store"} => worker.counts.crawled < Limit
  BY <1>f DEF LimitInv
<1>h. ASSUME Runs' = Runs,
             worker'.pc = "idle" => Stored' <= A,
             worker'.pc # "idle" => Stored' <= B + worker'.counts.crawled /\ worker'.counts.crawled <= Limit,
             worker'.pc \in {"fetch", "store"} => worker'.counts.crawled < Limit
      PROVE  LimitInv'
  BY <1>f, <1>h DEF LimitInv
<1>1. CASE Others
  BY <1>1, <1>b, <1>g, <1>h DEF Others
<1>2. CASE Begins
  <2>1. worker'.pc = "find" /\ worker'.counts.crawled = 0
    BY <1>2 DEF Begins, Idle, NoCounts
  <2>2. Stored' <= A /\ Runs' = Runs + 1
    BY <1>2, <1>b, <1>c, <1>g DEF Begins
  <2>3. Limit * (Runs' - 1) = A
    BY <1>d, <1>f, <2>2
  <2> QED BY <1>a, <1>f, <2>1, <2>2, <2>3 DEF LimitInv
<1>3. CASE Ends
  <2>1. worker'.pc = "idle" /\ Runs' = Runs /\ Stored' = Stored
    BY <1>3, <1>b, <1>c DEF Ends, Idle
  <2>2. Stored <= A
    BY <1>3, <1>a, <1>f, <1>g DEF Ends
  <2> QED BY <1>h, <2>1, <2>2
<1>4. CASE Moves
  BY <1>4, <1>b, <1>c, <1>g, <1>h DEF Moves, Goes
<1>5. CASE Marks
  BY <1>5, <1>b, <1>c, <1>g, <1>h DEF Marks, Goes
<1>6. CASE Takes
  <2>1. worker'.counts.crawled = worker.counts.crawled
    BY <1>6, <1>a DEF Takes, Counts
  <2> QED BY <1>6, <1>b, <1>c, <1>g, <1>h, <2>1 DEF Takes
<1>7. CASE Fails
  <2>1. worker'.counts.crawled = worker.counts.crawled
    BY <1>7, <1>a DEF Fails, Counts
  <2> QED BY <1>7, <1>b, <1>c, <1>g, <1>h, <2>1 DEF Fails, Goes
<1>8. CASE Stores
  <2>1. worker'.counts.crawled = worker.counts.crawled + 1
    BY <1>8, <1>a DEF Stores, Counts
  <2>2. Stored' = Stored + 1
    <3>1. Cardinality(RowsWith("COMPLETED")') = Cardinality(RowsWith("COMPLETED")) + 1
      BY <1>8, RowsMore DEF Stores
    <3> QED BY <3>1 DEF Stored
  <2> QED BY <1>8, <1>a, <1>f, <1>g, <1>h, <2>1, <2>2 DEF Stores, Goes
<1>9. CASE Records
  <2>1. Stored' = Stored
    <3>1. \A st : Cardinality(RowsWith(st)') = Cardinality(RowsWith(st)) + (IF st = "FAILED" THEN 1 ELSE 0)
      BY <1>9, RowsMore DEF Records
    <3>2. Cardinality(RowsWith("COMPLETED")') = Cardinality(RowsWith("COMPLETED")) + 0
      BY <3>1
    <3> QED BY <1>a, <3>2 DEF Stored
  <2> QED BY <1>9, <1>g, <1>h, <2>1 DEF Records, Goes
<1>10. CASE Closes
  BY <1>10, <1>b, <1>c, <1>g, <1>h DEF Closes, Goes
<1>11. CASE JobFails
  BY <1>11, <1>b, <1>c, <1>g, <1>h DEF JobFails, Goes
<1> QED BY <1>1, <1>2, <1>3, <1>4, <1>5, <1>6, <1>7, <1>8, <1>9, <1>10, <1>11 DEF Kinds

RowsIn == \A i \in DOMAIN pages : pages[i].url \in InReach

LEMMA RowsInStep == TypeOK /\ Search(worker) /\ RowsIn /\ Kinds => RowsIn'
<1> SUFFICES ASSUME TypeOK, Search(worker), RowsIn, Kinds PROVE RowsIn'
  OBVIOUS
<1>1. CASE SameRows
  BY <1>1 DEF RowsIn, SameRows
<1>2. ASSUME NEW st, NewRow(st) PROVE RowsIn'
  <2>1. worker.item \in Items /\ pages \in Seq(PageRows)
    BY DEF TypeOK
  <2>2. Own \in InReach
    BY <2>1, PlacedIn DEF Search, Within, Own, Page
  <2>3. PageRow(Own, st).url = Own
    BY DEF PageRow
  <2>4. \A i \in DOMAIN pages' : (i \in DOMAIN pages /\ pages'[i] = pages[i]) \/ pages'[i] = PageRow(Own, st)
    BY <1>2, <2>1 DEF NewRow
  <2> QED BY <2>2, <2>3, <2>4 DEF RowsIn
<1>3. pages' = pages => SameRows
  BY DEF SameRows
<1> QED BY <1>1, <1>2, <1>3
        DEF Kinds, Others, Begins, Ends, Moves, Marks, Takes, Fails, Stores, Records, Closes, JobFails

(* No row is for a page beyond the depth, a run stores no more pages than   *)
(* the limit, and a run that ends by itself below it has seen every page   *)
(* within the depth: the first way to a page that is found is the shortest. *)
THEOREM CrawlCorrect == Spec => []CrawlExact
<1>1. Init => LimitInv /\ RowsIn
  <2>1. SUFFICES ASSUME Init PROVE LimitInv /\ RowsIn
    OBVIOUS
  <2>2. pages = << >> /\ worker.pc = "idle" /\ Runs = 0
    BY <2>1 DEF Init, Idle, Runs, NotQueued
  <2>3. Stored = 0
    BY <2>2, NoRows DEF Stored
  <2>4. Limit * 0 = 0
    BY LimitsAssumption
  <2> QED BY <2>2, <2>3, <2>4 DEF LimitInv, RowsIn
<1>2. TypeOK /\ RunInv /\ Search(worker) /\ LimitInv /\ RowsIn /\ [Next]_vars => (LimitInv /\ RowsIn)'
  BY LimitStep, RowsInStep, StepKinds
<1>3. TypeOK /\ RunInv /\ Search(worker) /\ LimitInv /\ RowsIn => CrawlExact
  <2>1. SUFFICES ASSUME TypeOK, RunInv, LimitInv PROVE Stored <= Limit * Runs
    BY CoversAll DEF CrawlExact, WithinBounds, RowsIn, Stored
  <2>2. Runs \in Nat /\ Stored \in Nat /\ worker.counts.crawled \in Nat /\ Limit \in Nat
    BY <2>1, RunsNatural, RowsFinite, LimitsAssumption DEF Stored, TypeOK, Counts
  <2>3. Limit * (Runs - 1) + Limit = Limit * Runs /\ Limit * (Runs - 1) \in Int /\ Limit * Runs \in Int
    BY <2>2
  <2> QED BY <2>1, <2>2, <2>3 DEF LimitInv
<1> QED BY <1>1, <1>2, <1>3, TypeCorrect, RunCorrect, SearchCorrect, PTL DEF Spec
=============================================================================
