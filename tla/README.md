# CoBuild: specifications, model checking and proofs

CoBuild is a platform for chatbots trained on a customer's own material: a
NestJS API (`src/apps/api`), a Next.js web client (`src/apps/web`), PostgreSQL
through Prisma, Redis, BullMQ queues, and Stripe and OpenAI as services. This
directory holds TLA+ specifications of the parts of it in which something can
go wrong that a test would hardly reach, the TLC configurations that check them
on small instances, and TLAPS proofs of what matters most for every instance.
The repository has no tests; what the program is held to is what its comments,
its schema and `src/CHANGELOG.md` say.

## 1. Inventory

`D` is `src/apps/api/src/domains`, `W` is `src/apps/web/src`.

| Component | State | Operations | Interacts with | Hard behaviour |
|---|---|---|---|---|
| Q&A and text training (`D/knowledge/qna.service.ts`, `text-training.service.ts`, `training.worker.ts`, `embedding.service.ts`) | `qna_pairs`, `text_trainings` with `training_status`; `embeddings`; jobs of `training-queue` | create, bulkCreate, update, delete; upsert, delete; the worker's `process` with retries | requests and worker share the tables; requests put jobs on the queue | every `await` is an interleaving point; retries, stalled jobs, requests cut between two calls |
| Stripe webhook and subscriptions (`D/billing/webhook.service.ts`, `subscription.service.ts`, `usage.service.ts`) | `subscriptions`, `feature_usage`, `invoices`, `stripe_webhook_events` | five event handlers, cancel, reactivate, initializeUsage | Stripe posts events until answered with 2xx; the dashboard shows the newest subscription | duplicates, overlap, reordering, partial failure and retry |
| Credits (`D/billing/credit.service.ts`) | `credit_transactions` | addCredits, deductCredits, getBalance | none yet: no caller | read the sum, then insert, in concurrent transactions |
| Stripe checkout (`D/billing/stripe.service.ts`) | `organizations.stripe_customer_id`, Stripe's sessions | createCheckoutSession, createAddonCheckoutSession, createCustomer | Stripe | two first checkouts create two customers |
| Billing page (`W/app/(dashboard)/dashboard/billing`) | the query cache, the awaited mutations, a dialog | checkout, cancel, reactivate, tabs | the above | buttons of a subscription that is no longer the one there is |
| Web crawling (`D/knowledge/crawl.service.ts`, `crawl.worker.ts`) | `crawl_jobs`, `crawled_pages`, jobs of `crawl-queue` | startCrawl, processCrawlJob, selectPages, cancelJob | puts crawl-page jobs on `training-queue` | cancellation against completion, retry of a half-done crawl |
| Retrieval (`D/knowledge/rag.service.ts`) | none | retrieveContext, augment | reads `embeddings` | none |
| Authentication (`D/auth`) | `users`, `refresh_tokens`, `otp:*` keys in Redis | signup, login, refreshTokens, logout, verifyEmail, resendVerification, handleGoogleUser | the web client keeps both tokens | rotation against logout and against itself; a code resent while one is being verified |
| Sign-in pages (`W/app/(auth)`, `W/lib/api.ts`, `W/stores`) | a form, localStorage, the auth store | submit, resend, callback, reload | Authentication | answers that fail or come late; a session that has ended |
| Chat and rate limit (`D/ai`, `core/cache`) | Redis counters, `messages` | chat, checkRateLimit | conversations, retrieval, models | a counter without expiry after a crash; answers abandoned or failing half-way |
| Conversations (`D/conversation`) | `conversations`, `messages` | create, update, delete, addMessage, autoTitle | chat | deletion under a running answer |
| Chat page (`W/.../bots/[id]/chat`) | the message list, the conversation shown | send, read the stream, switch | Chat | switching while an answer streams in; events cut by network chunks |
| Chatbots (`D/chatbot`) | `chatbots` | create, update, delete | everything hangs on a chatbot by foreign key | cascading deletion under running requests and jobs |
| Custom and e-mail domains (`D/deployment`, the settings page) | `custom_domains`, `email_domains`, `organizations.custom_domain`; the page's lists | add, verify, delete | DNS | a pointer to a domain that is gone; lists that are out of date |
| Branding, embedding, settings pages (`D/deployment`, `W/.../bots/[id]`, `W/.../settings`) | JSON columns; forms, query cache | updateBranding, updateAppearance, updateEmbedSettings, update | widget | lost updates of read-merge-write; forms that send back old values |
| Organizations, users (`D/tenant`, `D/user`) | one row each | update | none | the organization's update replaces the branding column |
| Knowledge page, dashboard lists | the query cache | calls of the services above | API | stale cache |
| Admin app, packages | none | none | none | none: pages without data, types, stubs |

What makes each correct: a source is trained on what it now says and is never
forgotten; an organization has one subscription in force, with its limits, and
every Stripe event has its effect once; credits are overdrawn by overlapping
deductions at most; a cancelled crawl stays cancelled; a refresh token has at
most one successor; an answer that is shown is stored; a domain pointer names a
verified domain of the organization; an edit that was saved is not taken back by
another form. The hazards, each at its line, are in `PROJECT.json`.

## 2. Modules

| Module | Models | Checked by | Proofs |
|---|---|---|---|
| `Training` | the training pipeline of one chatbot | `MCTraining` | `TrainingProofs` |
| `SourceLife` | what the pipeline promises about a source (abstract) | through `Training` | `TrainingProofs` |
| `Billing` | subscriptions of one organization under Stripe's events | `MCBilling` | `BillingProofs` |
| `Crawl` | one crawl of a website, from its start to the training of selected pages | `MCCrawl` | `CrawlProofs` |
| `Sessions` | accounts, tokens and codes, and one browser tab | `MCSessions` | `SessionsProofs` |
| `Chat` | chat requests, the rate limit, and the chat page | `MCChat` | `ChatProofs` |
| `Domains` | custom and e-mail domains, and the page that lists them | `MCDomains` | `DomainsProofs` |
| `Forms` | the settings forms, the rows they save, and the query cache | `MCForms` | `FormsProofs` |
| `Account` | credits, Stripe's customer and sessions, and the billing page | `MCAccount` | `AccountProofs` |

The `MC` modules give the constants of an instance and nothing else. `Sessions`,
`Chat`, `Domains`, `Forms` and `Account` are compositions of an API part and a
page part: the API's requests are records whose `pc` moves one awaited call at a
time, the page holds the numbers of the requests it awaits, and answers are
taken in any order. Each `r` in `Requests` is one request; a request of an API client, of
another module or of a colleague is a request the page does not await.

### Training

One chatbot, its Q&A pairs `Qna` and its text source. `status`, `content` and
`emb` are the tables; `emb[s][c][k]` counts the rows of `embeddings` for chunk
`k` of content `c` of source `s`, so that stale rows (another content than the
one the row now has), orphans (of a deleted source) and repeated rows are all
visible. An id is used once, as a uuid is; `Text` has several ids because
`chatbotId` is unique in `text_trainings` but a deleted text may be created
again under another id, and `upsert` and `delete` find the row by `chatbotId`
(`Hit`). `req` is the control state of each API request, `jobs[r][s]` the job
request `r` put on the queue for source `s`, `worker` the control state of the
one `TrainingWorker` (BullMQ's default concurrency is 1).

Each awaited call is one step: `ReadQnaToUpdate`, `WriteQna`, `DeleteBySource`,
`Enqueue` are `update`'s four calls, `ReadTextToUpsert`, `DeleteBySource`,
`WriteText` or `CreateText`, and `Enqueue` those of `upsert`; the worker does
`FindSource`, `MarkProcessing`, `StoreChunk` per chunk, `MarkTrained`. An UPDATE
or DELETE of a row that is gone throws, which ends a request and takes the
worker to `MarkFailed` and `Rethrow`; BullMQ then retries while attempts are
left. What can go wrong is chosen by `Faults`: an attempt's call failing, a
worker crash, a job stalling too often, `markFailed` failing, and a request cut
between two calls. The OpenAI call and the INSERTs of a batch are told apart
only as far as they can fail at any chunk (`AttemptFails`).

Four things really cost a source its training in this code, and `lost` remembers
the sources they happened to until the worker next reads the row (`FindSource`):
a request cut off after it had changed something (`RequestGoesOn` says when), a job
that BullMQ fails because it stalled too often, the UPDATE of `markFailed` failing
at the last attempt, and an update whose body equals the copy it had read and
overwrites a change made since. The properties are about every source outside
`lost`, in behaviours that have all of these; what a loss then looks like to the
user is told in section 3.

### SourceLife

The pipeline without jobs, requests or a worker: a source is absent, waiting,
ready, failed, lost or deleted, and six kinds of step lead from one to another.
`Training` implements it (`KeepsPromise`): `Stage` maps a live source to `waiting`
as long as a job, a request, the worker or a retry will move it on, to `lost` when
nobody will and it is in `lost`, else to what its row says. A source that nobody
moves on, that lost nothing, and that is neither FAILED nor TRAINED with all its
embeddings maps to `forgotten`, which `SourceLife` does not have, so that
forgetting a source, training it incompletely or bringing it back from deletion
all break the refinement. From `lost` only another training, or the deletion,
leads on (`Change`, `Remove`).

### Billing

`subs` are the organization's rows of `subscriptions`, oldest first (so
`findByOrg` shows the last), `usage` lists the plans whose limits have been
inserted since the last `deleteMany`, `received` is `stripe_webhook_events`.
`work` is the control state of the deliveries being handled: `Check`, `Record`,
the steps of the event's handler, `Mark`, or `RecordError`. A call that throws
goes where the code's nearest `catch` is (`Catching`): the handlers of
`updated`, `deleted` and the first call of `payment_failed` swallow it, the
others reach `handleWebhook`'s. Reads whose result cannot change before the
write that follows (a subscription row is never deleted) are one step with it.
The rows' dates are left out, except that `cancels` says whether `cancelAt` is
set. `Detail` says what each event carries. Events come in any order and any
number of times: Stripe promises no order, and the handlers keep none. The
plans are assumed to list limits, as the pricing page requires.

### Crawl

One crawl job. `status` and `counts` are its row, `pages` the rows of
`crawled_pages`, `bull` the job on the crawl-queue, `training` the crawl-page
jobs, and `worker` holds `processCrawlJob`'s locals: the queue of URLs with their
depth, the visited pages, the counters. A site is given by `Links` (the
same-origin links of a page, in order) over `Hrefs`, and `Norm` is `normalizeUrl`:
two URLs of one page have one `Norm`. What a fetch returns is chosen at each
fetch: a page with text, one without (or not HTML), or an error. The steps follow
the awaits: `FindJob`, `MarkProcessing`, then per URL `NextItem` (with the look
for a cancellation every `CheckEvery` pages, which leads to `LeaveLoop`), `Fetch`,
`StorePage`, `CountPages` every `CountEvery` pages, or `RecordFailure`; at the end
`CloseJob`, or `FailJob` and `Rethrow`. `Thrown` says which catch block a failing
call reaches, and the deletion of the chatbot makes every write fail
(`RowIsGone`). Requests fail too: `EnqueueFails` is `startCrawl` stopping between
its row and its job, `RequestFails` a cancellation or a selection whose next call
throws or whose process dies, after the pages are marked and between any two jobs
included. A retry starts with fresh locals over the rows of the last run, as in
the code. A page's training is one step up to the storing of its chunks, since
chunks and their retries are the subject of `Training`.

### Sessions

`user`, `token` and `otp` are the two tables and the Redis key; tokens and codes are
named by the request that issued them, since a request issues one of each at
most. The steps of `refreshTokens` are `FindToken`, `DropToken` (which throws
when the row is gone by now) and `IssueToken`; a verification is `CompareCode`,
`MarkVerified`, `DelCode`, where the last deletes the key whatever it holds. Time
is `ExpireToken` and `ExpireCode`. `tab` is one browser tab: the page it shows, the
request its form waits for, the user in the store and the token in
localStorage; it can be reloaded, links can be followed, and answers may come
when the page is another. Access tokens are checked by signature alone and keep
no state; no code of the repository sets `isBanned`. A logout of all sessions
that comes while a rotation is between its two calls does not reach the
successor: `RevokedHasNoHeir` (in `RotationSound`) therefore speaks of the tokens that the logout
has deleted.

### Chat

`send[s]` is one call of `AiController.chat`: the limit's INCR and EXPIRE, the
conversation, the user's message, the model's pieces, the answer's message, the
final event. `wire[s]` is what the response has carried, which the page reads
event by event; `"split"` makes a network chunk end inside an event, which the
page then drops, `"drop"` breaks the connection while the server goes on,
`"call"` makes a call fail and `"cut"` ends the process. `page` has the message
list as the code keeps it: entries are appended to whatever is shown when the
answer ends. `disturbed` remembers the sends during which the user moved.

Two constants stand for how the API is set up in `main.ts`. `BodyAccepted` says
whether the validation pipe lets the body of a send through. At this commit it does
not: the fields of `ChatDto` have no validators and the pipe forbids fields without
(`main.ts:34`), so every send is answered with 400 before the handler runs, and
with FALSE that is all the module does. The run has TRUE: it checks the controller
and the page as they are written, for the day on which the DTO has its validators.
`HeaderExposed` says whether the page may read `X-Conversation-Id`; it may not, as
the API is another origin and exposes no header, and the run has FALSE: the page
adopts no conversation, and each of its sends opens another. The theorems hold for
all four combinations.

### Domains

A row is named by the request that inserted it. `verifyDomain` is `FindForVerify`,
`MarkVerifying`, `Activate`, `SetPointer`; `deleteDomain` is `FindForDelete`,
`DeleteCustom`, `ReadOrg`, `ClearPointer`: the pointer of the organization is
written in later calls than the row. `crossed` remembers which verification and
deletion had overlapping writes, the only case in which the pointer may be
wrong. Two tabs of the settings page keep a cached list each; `Invalidate` is
TanStack Query's: a shown list is fetched again, an unseen one becomes stale, and
one that is unseen and being fetched keeps what it is about to receive (`missed`).

### Forms

One browser over the forms of the bot's page (general, AI, rate limit, embedding)
and the branding form, and API clients of the branding, the appearance and the
organization. A column's value is the number of the act, typed or sent, that it
comes from, so that a saved edit can be told from everything older; `wanted` is
the last edit saved. A form sends every column it shows, the validation pipe
refuses keys the DTO does not declare. There are two JSON `Documents`:
`updateBranding` and `updateAppearance` merge what is sent with what they read
(`FindRow`, `Write`), while the organization's update writes the branding whole,
with any subset of its fields, and empties the others. `met` marks updates of one
document that overlap, and an `orphan` is a save whose page crashed and was
reloaded before the answer. Forms are initialised from the query cache when they
mount, and some only once.

### Account

`ledger` keeps the sum of `credit_transactions`, the balance written into the
newest row, whether that row's transaction overlapped another (`sure`), and
how much overlapping deductions took (`overdrawn`). `FindOrg`,
`CreateCustomer`, `SaveCustomer` and `CreateSession` are a checkout's calls;
`met` marks two first checkouts that overlap. Stripe's events on the
subscription, which `Billing` models call by call, are one step each (`Pay`,
`StripeUpdates`). The page's part is the cached subscription with its buttons,
the confirmation dialog, and the invalidation after a success. The two lists,
with their pages, are left out.

## 3. Runs

Passing runs:

| Run | Instance | Shows |
|---|---|---|
| `pipeline` | a pair and a text, 2 requests, contents of 1 and 2 chunks, 2 attempts, one stall, every fault | `TypeOK`, `TrainedIsComplete`, `FailedMeansExhausted`, `CopiesBounded`, the refinement `KeepsPromise`, `EverySourceSettles` |
| `anyorder` | five events of two subscriptions (an upgrade, a failed payment, a deletion, an update) in any order, one delivery at a time, one user, one failing call or crash | `TypeOK`, `OneInForce`, `UsageCopiesBounded`, `ProcessedCheckoutHasRow`, `InvoiceKept`, `EveryEventProcessed` |
| `crawl` | five pages, depth 2, limit 4, one request, one fault (in the worker or in a request), 2 attempts | `TypeOK`, `PagesOncePerRun`, `CrawlExact`, `CountsMatchRows`, `SelectionHonest`, `CancelledWhileWaiting`, `EveryCrawlEnds` |
| `sessions` | one account, 3 requests, any of which may be cut | `TypeOK`, `RotationSound`, `NewestCodeStands`, `FormSettles` |
| `chat` | two sends that the pipe lets through, a page that cannot read the header, a limit of one message, an answer of one piece, one navigation, one fault | `TypeOK`, `LockedOutOnlyByFault`, `AnswersBelong`, `NothingLostUndisturbed`, `InputReturns` |
| `domains` | two registered custom domains, one e-mail domain, 3 requests (one of a colleague), one cut | `TypeOK`, `PointerSound`, `VerifiedIsActive`, `ListFresh` |
| `forms` | every form, API clients of the appearance, the branding and the organization, 2 acts, 2 requests, one cut | `TypeOK`, `OwnEditsStand`, `FieldsMerged`, `FormShowsRow` |
| `account` | an organization with or without a past, 2 requests, one cut, 2 changes by Stripe | `TypeOK`, `LedgerSound`, `CustomerKept`, `SubscriptionShown` |

The runs that expect a violation each check one sentence of a comment or of the
changelog against what the code does; they are the findings of `PROJECT.json`:

| Run | Property | What the counterexample does |
|---|---|---|
| `stale` | `NoStaleEmbeddings` | the text is upserted while the worker trains the old one: its chunks stay |
| `overlap` | `CheckoutServed` | a checkout delivered twice at once cancels its own subscription |
| `upgrade` | `AtMostOneActive` | an update of the old subscription after an upgrade makes its row ACTIVE again |
| `selected` | `SelectedIsTrained` | a selection stops after the mark: the pages have no job and are not offered again |

Bounds. A race on a source needs a training and a request that overtakes it. What
two requests cannot do is left to the theorems, which are for any number: an
update that restores what it read over another one's change (three requests), a bulk
of several pairs that is cut half-way, and a text created again under another id
(the run `stale` has two ids).
Two contents tell old from new, and lengths 1 and 2 a loop from a single
insert. Two attempts tell a retry from the last one; the code's 3 only repeats
the first. The site of `MCCrawl` is the smallest in which a page is met on a
long and a short way, with a page behind it at the bound of the depth and one
beyond; a limit of 4 is met by its five pages, and looking and counting every 2
pages happens twice. One fault puts a failure or a crash at every step in turn. The events of
`anyorder` hold an upgrade with an update and a deletion after it, which is what
makes two rows ACTIVE, so that what `OneInForce` says is said in its presence.
Deliveries overlap in `overlap`, and in the theorems, which bound by their number
what one delivery at a time has once. In `Sessions` three requests are a
login, a refresh and what races with it, or a signup, a second code and a
verification. In `Chat` the second send is the one over the limit. In `Domains` the
rows that exist at the start let all three requests race on them. In `Account`
and `Forms` two requests overlap, and everything before them is in the initial states.
`MaxFaults`, `MaxAttempts`, `MaxStalls`, `MaxChunks`, `MaxPick`,
`MaxRequests`, `MaxSends`, `MaxClicks`, `MaxActs`, `MaxAmount`, `MaxUpdates`,
`MaxColleague` and the sets of ids are the bounds; a cut happens once in
`Domains`, `Forms` and `Account`; in `Forms`, the settings page is visited before the
bot's page. `CHECK_DEADLOCK FALSE`
is set where the system may stop: when each request has run (and the chatbot is
gone), nothing is left to do.

Fairness. `Training`: weak fairness of the worker (BullMQ hands out waiting jobs
and the process runs on) and of each request that has started (an async function
goes on when its call returns); nothing makes a request start, or a call fail. A
cut request leaves its source PENDING for ever, because nothing looks for such
rows later; so a source that waits settles or comes to be in `lost`, and one whose
requests were cut where that cost it nothing settles all the same. `Billing`: weak
fairness of each delivery's steps, and strong fairness of the delivery of an event
that is not yet processed: Stripe repeats it until it gets a 2xx, and other
deliveries come to an end. It is not enough for a checkout that stopped after its
INSERT, which `EveryEventProcessed` excepts. `Crawl`: weak fairness of the two
workers, of the requests that have begun and of the `add` that follows the row's
creation, which may fail all the same: `EveryCrawlEnds` begins where the job is on
the queue. One fault cannot use up two attempts; a throw in every attempt, or more
crashes than the job may stall, could leave it PROCESSING with no attempt left.
`Sessions`: weak fairness of each request's steps and of the tab's handling of an
answer; a cut request is answered too, by the error of the broken connection.
`Chat`: weak fairness of each send's steps and of the page's reading. `Domains`,
`Forms` and `Account` are checked for safety only.

### Departures that are not runs

These can be read off the models, or were met while reading the code.

Training. What puts a source in `lost` is visible to the user. A request cut between
its write and its enqueue leaves a source PENDING for ever, and a failing
`markFailed` one that stays PROCESSING. An update whose body equals the copy it
read, written over a change made since, restores that body with `contentChanged`
false: the pair says TRAINED and nothing of what it says is embedded
(`qna.service.ts:182`, against the comment at `:165`). Besides, a source deleted
while the worker stores its chunks leaves embeddings behind (`source_id` has no
foreign key, `text-training.service.ts:119`).

Billing. An invoice event that comes before its checkout is skipped and marked
processed (`webhook.service.ts:267`), so the invoice is never stored, where
`CHANGELOG.md:28` has invoices synced from the events; `InvoiceKept` is about the
others. A checkout that fails after its INSERT fails at every retry on the row it
finds, which by then is CANCELED (`:155` against `:106`; the exception in
`EveryEventProcessed`); if it stopped between `deleteMany` and `createMany`, there
are no limits, so `LimitsOfNewest` speaks of acknowledged checkouts. Two checkouts
handled at once leave two sets of limits (`UsageCopiesBounded` says no more than
that). After an upgrade the old subscription comes back in two ways: by an update,
which is the run `upgrade`, and by its deletion, which adds an ACTIVE FREE row and its
limits (`:227`). `cancel` writes `cancelAt` to the local row only, and the next
`customer.subscription.updated` (`Sync`) overwrites it. A deletion that crashes
half-way makes a second FREE subscription when it is retried. An update that
changes the plan does not change the limits.

Crawl. A crawl that is cancelled while it runs ends COMPLETED
(`crawl.service.ts:429`, `:265`, against `:210`), and `cancelJob` can cancel one
that has just been completed (`:230`). When the UPDATE of the counters throws,
the page just stored is recorded as FAILED too and its links are not followed;
`CrawlCovers` therefore asks for a run without failures. `startCrawl` can end
between its row and its job (`:44`), and the crawl stays QUEUED (`EnqueueFails`).

Settings. The embedding form sends no `chatbotId` and the branding form sends an
undeclared `logoUrl`, so that the validation pipe refuses both saves always
(`page.tsx:549`, `:586`, `settings/page.tsx:207`, `main.ts:37`). The embedding
form looks for `embedSettings` in an answer that has `embed`. The deployment tab
renders objects as strings, and the embed page reads `config.name` where the API
gives another shape: both fail to render. The page's password gate cannot be
reached.

Billing page. Answers of checkout and portal are read as `url` and come as
`session`, so nothing redirects. The payment of an add-on is recorded nowhere,
because its metadata name no plan. Without a subscription, or when its fetch
fails, the page shows the free plan. Deductions that overlap overdraw the ledger
despite the comment at `credit.service.ts:120`. `createFreeSubscription`,
`incrementUsage`, `checkLimit` and `resetUsage` have no caller. `main.ts` does not ask
for raw bodies, without which the webhook's controller refuses events.

Knowledge page. After the text has been deleted, a remount fills the box with the
cached text and Save restores it. Deleting the last pair of page 2 shows an empty
list without paging. The success of a toggle closes an edit dialog opened
meanwhile. Cancelling a page selection keeps the selection.

Chat. The validation pipe refuses the body of every send (`main.ts:34`,
`ai.controller.ts:19`), so the chat of `CHANGELOG.md:60` answers nothing at this
commit. Were it let through, the page could not read the header of
`page.tsx:112` (`main.ts:23` has no `exposedHeaders`) and each send would open another
conversation, without the history. A send that is refused, by the limit or by
the pipe, shows nothing.

## 4. Proofs

`TrainingProofs`, for any sets of sources, requests and contents and any
numbers of chunks, attempts and stalls:

- `TypeCorrect`: `Spec => []TypeOK`, under every fault.
- `CopiesCounted`: `Spec => []CopiesBounded`, under every fault, for finitely many
  requests. `CopiesInv` counts, for each chunk of each content, the runs that have
  come past it: not the one that the worker is at before it stores that chunk.
  With it go `AttemptsLeft` (a job that can run has attempts left, so that the
  count of its runs does not fall when it ends) and `NewJobs`. The runs are
  counted by the set of pairs of a request and a number, so that the library's
  theorems on finite sets do what would otherwise be an induction over a sum.
- `TrainingSafe`: `Spec => [](TrainedIsComplete /\ NoForgottenSource)`, under every
  fault. Neither property is inductive. `PipelineInv` is: `OneText` (at most one
  live text row), `RequestShape` (a request that has yet to enqueue has no job
  yet, and an update that goes on has changed the content), `ActiveJob` (the busy
  worker's job is active, so picking another cannot hide it), `WorkerUpToDate`
  (unless the source is owed another training or has lost this one, what the
  worker holds is what the row says, and the chunks it has passed are stored) and
  `SourcesSettled` (a live source outside `lost` is owed a training, being
  trained, FAILED, or TRAINED and complete). The heart of the proof is that "owed"
  ends in two ways only: by the worker reading the row, and then it reads the
  current content (`OwedStays`), or by a step that puts the source in `lost`; and
  that a source leaves `lost` only when the worker reads it (`FoundAgain`).
- `NoEarlyFailure`: `Spec => []FailedMeansExhausted`, under every fault, by
  `PipelineInv`, `AttemptsLeft` and `CompletesTrained` (the worker completes no job
  of a source that it has marked FAILED).
- `PipelineKeepsPromise`: `Spec => KeepsPromise`, under every fault. By
  `PipelineInv` no source is ever `forgotten` (`StageTold`); each step changes the
  stage of at most the source it is about (`RequestMovesOne`, `WorkerMovesOne`), or
  deletes all of them at once, or cuts a request and loses those it was to go on
  with, and changes it as a step of `SourceLife` does (`StageStep`, `LifeStep`).

`BillingProofs`, for any events, order, overlap and faults:

- `TypeCorrect`: `Spec => []TypeOK`.
- `NoCheckoutLost`: `Spec => []ProcessedCheckoutHasRow`, by `CheckoutShape`: only
  a delivery of a checkout comes to the INSERT, and past it the row is there.
- `CopiesBounded`: `Spec => []UsageCopiesBounded`, by `UsageCopiesInv`, which
  counts the deliveries that have yet to fill in limits with the copies there.
- `InvoicesCorrect`: `Spec => InvoiceKept`. `RouteInv` says that each event reaches
  its own handler only; for one invoice event that has come with its subscription's row
  there, `InvoiceStays` says that the row stays, and that a delivery of the event
  which is about to mark it processed, like the mark itself, has the invoice's row.
- `InForceCorrect`: `Spec => []OneInForce`. `BoundedInv` counts the bought rows in
  force that no update has refreshed together with the deliveries that are about
  to insert one: a delivery comes to the INSERT by cancelling all there are.
  `LimitsInv` says, for one delivery at a time, what the limits are at each of its
  steps; a checkout about to make the newest row is not acknowledged
  (`NoneServed`), and one that is acknowledged has filled in its limits last. No
  assumption is made on the story that the events tell.

`AccountProofs`, for any requests, amounts and updates, and any cuts:

- `TypeCorrect`: `Spec => []TypeOK`, with `ForKnown` (a request that saves or opens
  a session knows its customer) as the strengthening.
- `LedgerCorrect`: `Spec => []LedgerSound`, by `LedgerInv`: at its INSERT, a
  transaction that met no other has read the balance there is, and a deduction
  has read a balance that is enough. So the balance falls below zero by what
  overlapping deductions took, and no further.
- `CustomerCorrect`: `Spec => []CustomerKept`, by `OpsFit` (only plan checkouts
  create a customer) and `CustomerInv`: unless two first checkouts overlapped, at
  most one request is creating a customer, only while there is none, and every
  session, and every request about to open one, uses the customer that is kept.
- `ShownCorrect`: `Spec => []SubscriptionShown`, by `ShownInv`: unless something has
  overtaken the page (a change it was not told of, a fetch that was passed by a
  change, a request that was cut, or an answer it has not taken yet), its cache,
  and the answer it is about to store, are the subscription there is. A request
  that goes on belongs to somebody who will hear of its end (`Owned`).

`CrawlProofs`, for any site, spelling, depth, limit, users, attempts and faults:

- `TypeCorrect`: `Spec => []TypeOK`. `Pushed` and `Reached` are functions defined by
  recursion, and the library's theorems on them take an operator, which the
  provers cannot instantiate. So the module derives what it needs from the
  well-foundedness of finite sets: every set of naturals has a least element
  (`LeastNatural`), induction over a set of naturals, and that a function given by
  a first value and a step exists (`Recursion`). This works where the step is a
  function of sets, as it is here.
- `CancelCorrect`: `Spec => CancelledWhileWaiting`, by `Stays`: a crawl cancelled
  while it waits is only ever picked up to be let go.
- `SelectedCorrect`: `Spec => []SelectionHonest`, by `SelectInv`: what a request has
  picked it has marked, and has put on the queue or has yet to; one that failed
  is not answered.
- `CountsCorrect`, `OnceCorrect`: `Spec => []CountsMatchRows` and
  `Spec => []PagesOncePerRun`. Every step is one of eleven kinds (`Kinds`), by what
  it does to the rows, the counters and the worker's position; `CountInv` and
  `OnceInv` then only look at the kinds. `OnceInv` counts the rows of a page that
  the present run has not yet visited with one run less.
- `CrawlCorrect`: `Spec => []CrawlExact`, by `Search`, the invariant of breadth-first
  search: what is queued or visited is within the depth; the depths in the queue
  do not fall and differ by one at most; and what is linked from a visited
  page within the depth is visited, queued, or about to be. Without the order, a
  page could be taken first on a long way and its own links never be followed.

`SessionsProofs`, for any requests and addresses, and any cuts:

- `TypeCorrect`: `Spec => []TypeOK`.
- `RotationCorrect`: `Spec => []RotationSound`, by `RotationInv`: of the refreshes of
  one token, one at most has a successor or is about to insert one, and then the
  token is gone and was not revoked. It rests on `delete` throwing for a row that
  is gone.
- `NewestCodeCorrect`: `Spec => []NewestCodeStands`, by `CodesInv`: a verification that
  is about to delete the code has verified its address.

`DomainsProofs`, for any requests and names, and any cut:

- `TypeCorrect`: `Spec => []TypeOK`.
- `PointerCorrect`: `Spec => []PointerSound`, by `PointerInv`: the organization points to
  the domain verified last or to none, names of live rows are unique, a
  verification about to point has a live row or met that row's deletion, and a
  deletion clears only what it has read as its own.
- `ActiveCorrect`: `Spec => []VerifiedIsActive`, by the same statement from the write of
  the status on.
- `ListCorrect`: `Spec => []ListFresh`, by `ListInv`: a list, and an answer about to be
  stored, are right but for the rows that requests of this page are changing;
  each of those requests will invalidate the list when it is answered.

`ChatProofs`, for any sends, clicks, pieces, limits and faults:

- `TypeCorrect`: `Spec => []TypeOK`; that the counter stays within its type needs
  that it counts sends (`CountBounded`).
- `LimitCorrect`: `Spec => []LockedOutOnlyByFault`.
- `AnswersCorrect`, `NothingLostCorrect`, for both values of `BodyAccepted` and
  `HeaderExposed`: `Spec => []AnswersBelong` and
  `Spec => []NothingLostUndisturbed`, by `PageInv`. `SendsInv` says what log and wire
  hold at each step of a send (nothing final is on the wire before the answer is
  stored), `ViewOK` what may be on the page as an answer, and `RunningOK`, `CurrentOK`
  and `LoadsOK` what an undisturbed send has on the page while it runs, when it has
  ended, and in the lists that are being loaded.

`FormsProofs`, for any columns' edits, acts and requests, and one cut:

- `TypeCorrect`: `Spec => []TypeOK`, with what a request carries and a form shows
  (`FormInv`). Every step is of one of the kinds in `StepKinds`, which the
  invariants below share.
- `MergedCorrect`: `Spec => []FieldsMerged`, by `MergedInv`: without overlap at most one
  request of a document is between its read and its write, and what it has read is
  what is stored.
- `EditsCorrect`, `ShownCorrect`: `Spec => []OwnEditsStand` and `Spec => []FormShowsRow`, by
  `OwnInv`: while nothing else disturbs, what a save carries and what a form shows
  differ from the row only by edits, one save of the chatbot is under way at
  a time (`OneSave`), and the cache and an answer about to be stored are the row
  unless a save has yet to be answered.

The assumptions are the named `ASSUME`s of the modules, which TLC evaluates in
every run. Besides bounds being numbers and kinds of ids being distinct they say
that `None` is none of the words that stand in the same field (`Account`,
`Domains`, `Forms`), and that the site has finitely many pages when the depth is
not bounded (`Crawl`): otherwise no crawl would end. The one hypothesis of a
theorem is the finiteness of `Requests` in `CopiesCounted`. Every invariant that
the passing runs check, the temporal safety properties of `Crawl` and `Billing`
and the refinement are proved; what is only model-checked is liveness
(`EverySourceSettles`, `EveryEventProcessed`, `EveryCrawlEnds`, `FormSettles`,
`InputReturns`), because fairness and ENABLED are out of the prover's reach.

Two of the models were changed on the way. The proof of `PagesOncePerRun` failed at a
crash that BullMQ does not retry: it did not count as a run, although that run may
have stored pages; `Crash` now counts it. And the links of a page were filtered
with an operator that takes an operator, where `Pushed` is now a function.

## 5. Plan

Theorems to come, as action properties: that a refresh token once exchanged or
revoked is never live again, and that a deleted source stays deleted whatever the
worker does, which so far is a part of `KeepsPromise`.

Models to come: the knowledge page over `Training` (the same query cache as in
`Domains`, `Forms` and `Account`), and `chunkText` as a recursive function checked
against a reference definition.

Not to be modelled: `Retrieval` and the dashboard's lists, which change nothing;
the API core, which is the framework's wiring; the admin app, the shared
packages and stubs, which keep no state worth a model; the marketing pages; the
quality of answers and embeddings; the vector index.
