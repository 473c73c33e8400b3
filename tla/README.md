# Verification of the buyer-codex backend

buyer-codex is the software of a Florida buyer brokerage: a Next.js web app, an
iOS client and a browser extension over a Convex backend (`src/convex`), with
Python workers that fetch listings. This directory models the parts of the
system in which several people, services and workers change the same records,
or in which several pieces of code decide one thing separately; it model-checks
them with TLC, and proves the most important properties with TLAPS.

A Convex *mutation* is a serializable transaction: what it reads and writes
happens at once, and a throw anywhere in it, nested `ctx.runMutation` calls
included, undoes everything. So **one mutation is one action**, and every
condition under which a handler throws is a guard of the whole action. An
*action* of Convex (`createFromOffer`, `processSignatureWebhook`, an engine run)
is not a transaction: it is modelled call by call, with everybody else's
mutations and a crash between any two calls. There is no scheduler (`crons.ts`
does not exist): what happens later happens because a person, a worker or
another service calls again.

## 1. Inventory

| part | state it keeps | operations | hard behaviour | what makes it correct |
|---|---|---|---|---|
| Agreements (`agreements.ts`, `agreementSupersession.ts`) | `agreements`, links `replacedById`, audit log | draft, send, sign, cancel, replace, upgrade, supersede | three operations build chains of rows; broker and buyer race on one row | chains are linear, acyclic and inside one buyer; closed rows stay closed |
| Offer eligibility (`offerEligibility.ts`) | one persisted verdict per deal room, audit log | recalculated inside other mutations, or by hand | stale verdicts are trusted by readers | the verdict follows the agreements |
| Offer cockpit (`offerCockpit.ts`) | drafts of an offer, review state | autosave, submit, decide, discard | autosave of the buyer races the review of the broker | one live draft; reviewed terms are frozen; nothing goes out without an agreement |
| Offer editor (`use-offer-cockpit.ts`) | terms on the screen, terms taken for stored, the calls under way | edit, save, submit, snapshot, answer | the buyer types on while answers and snapshots arrive in any order | what the editor takes for stored is stored |
| Counteroffers (`counterOfferHistory.ts`) | chain of counters, offer status, calibration and backtest records | append, respond | two parties and several offers for one property | chains alternate; records are never outdated |
| Contract handoff (`contracts.ts`, `lib/contractProviders.ts`) | adapter runs, contracts, envelopes at Sabal Sign | create (nine calls, two providers), webhook, manual status | crashes, lost answers, webhooks early, late or twice | run and contract agree; a signature is recorded on its own contract |
| Engines and prompts (`promptRegistry.ts`, `engines/*`, `aiEngineOutputs.ts`) | prompt rows, outputs, review states | sync, register, activate, run, review, adjudicate | runs overlap with activations; older approved outputs beside newer ones in review | one active prompt; a buyer sees nothing a newer refusal contradicts |
| Tours (`tourRequests.ts`, `agentCoverage.ts`, `tours.ts`, `lib/tourWorkflow.ts`) | requests, assignments, tours, payouts | submit, route, assign, confirm, sync from Showami, complete, cancel | buyer, broker and an external service write one request; helpers patch rows that were read before | one current assignment; a completed showing is paid once, to who did it |
| Showing payouts (`showingPayouts.ts`) | payouts, batches, fees | create, approve, pay, batch | batches run early, twice or for another month | a payout is in one batch, at the fee of its creation |
| Enrichment jobs (`enrichmentJobs.ts`, `lib/enrichment`) | job rows, snapshots per source | enqueue, claim, store, fail, retry, escalate | workers race, die and report twice; dedupe keys per hour | one job per source, one worker per job, bounded attempts, fresh data stays |
| Listing agents (`upsertListingAgent`) | one row per agent with provenance per field | merge an observation | observations arrive out of order | provenance and freshness are true |
| Lead attribution (`leadAttribution.ts`, `users.ts`, `dealRooms.ts`) | touches per session, the user's row | capture, hand off at sign-in, convert | several devices per user, `unique()` reads | a user has one row and converts once |
| Rate limiter (`lib/rateLimiter.ts`, `rateLimits.ts`) | a bucket per channel and key | check, report an outcome | window edges, ends of blocks, late outcomes | never more than allowed in any window |
| SMS intake (`smsIntake.ts`) | messages, consent, listings | receive, answer, store a link | messages delivered again after consent or limits have changed | one answer per message, none after an opt-out |
| Listing and address intake (`intake.ts`, `addressIntake.ts`) | attempts, source listings | submit, extract, match | the status is kept twice and written by four parties | both say the same |
| Share links (`dealRoomShareLinks.ts`) | links, views, events | create, resolve, revoke | expiry is worked out by every reader | the trail tells one story |
| External access, listing responses (`externalAccess.ts`, `listingResponses.ts`) | tokens, events, responses | issue, revoke, submit, review | a form is open while its token expires; a throw undoes the event | an expired token changes nothing |
| File analysis, facts (`fileAnalysis.ts`, `fileFacts.ts`) | jobs, findings, facts, reviews | enqueue, run, complete, fail, retry, resolve, edit, approve | a second queue whose reports come late or twice | nothing unreviewed is shown as approved |
| Compensation ledger (`ledger.ts`, `reconciliation.ts`, `lenderCreditValidation.ts`) | entries, status per room, reports, checks | append, adjust, transition, report, decide | sums near a threshold over a moving ledger | flags follow the entries |
| Closing (`contractMilestones.ts`, `closeDashboard.ts`) | milestones | extract, add, flag, resolve, complete | re-extraction over rows people have touched; four separate readings of one date | the dashboard agrees with itself |
| Closing tasks (`closeTasks.ts`) | tasks | create, transition, edit | repeated calls | a task settles once |
| Buyer updates (`buyerUpdateEvents.ts`) | one row per kind of news | emit, see, dismiss, resolve | news race what is done with older news | the latest news is shown |
| Page fetching (`services/extraction`, `python-workers/fetch`) | slots, token bucket, budget of the month | fetch with retries and timeouts | a try is cut off wherever it waits; the month rolls over with tries in flight | the budget is never overspent, slots and reservations come back, every request ends |
| Property cases (`propertyCases.ts`, `dealRoomCaseOverview.ts`) | a cache of syntheses over the outputs | synthesize, read under the reviews of the day | the cache outlives the outputs and reviews it was made of | what a buyer is shown cites outputs that may be shown |
| Offer strategy (`engines/offer.ts`, `playbook.ts`, `offer-what-if.ts`) | nothing: computed | scenarios, playbook, what-if | prices, caps and holds are computed in three places | they order and bound each other |
| Negotiation briefs (`negotiationBriefs.ts`) | rows, versions of their sources | request, assemble, record, find stale, regenerate | an assembly reads at one time and reports at another | a ready brief is of the versions it names |
| Readiness (`buyer-readiness.ts`, `next-best-action.ts`) | nothing: computed | compute blockers, risks, next action | a dozen facts owned by others | the one recommendation follows from the blockers |
| Staff desk (`opsQueues.ts`, `communicationTemplates.ts`, `settings.ts`, `internalNotes.ts`, `manualOverrides.ts`) | five tables and their audit | claim, resolve, activate, set, revise, override | two people on one item; a revision chain | row and audit agree, one active version |
| Showing desk (`showingCoordination.ts`, `availability.ts`, `visitorPreregistrations.ts`) | windows, visitors; buckets are computed | offer and withdraw windows, book, register | buckets and staleness of a moving request | the coordinator sees each request where it belongs |
| Memory of a buyer (`watchlist.ts`, `propertyComparisons.ts`, `buyerPreferenceMemory.ts`) | watchlist, comparison, memory row | save, compare, tour, give feedback, rebuild | the memory is stored and rebuilt by some operations only | the row is what its events say |
| iOS deal tracker (`DealCacheCoordinator.swift`, `DealTasksService.swift`, ...) | a file per user, services of the screens | load, save, sign out, refresh | overlapping loads; sign-out races a save | no buyer sees another's deal; tabs show the current deal |
| Dossier builder, onboarding, monitoring, KPIs, release gates, parsers, rendering | read models | - | see section 8 | not modelled |

The parts meet as follows. Agreements decide eligibility, eligibility decides
what the cockpit may submit and (through signed types) which tours may be
requested. An accepted or approved offer is turned into a contract, and its
price comes out of the counteroffers; the contract's dates become milestones,
these become the close dashboard. A completed showing creates a payout, which a
month's batch pays. Refreshes of a property enqueue jobs; workers outside the
repository claim them through queries and mutations, and store what they find in
snapshots and in the records of agents; the pages themselves are fetched by a
Python worker with a budget. SMS, links and addresses pass the rate
limiter and become source listings. Engines read the property and leave outputs
which the deal room shows after a review, and out of which cases, briefs and the
offer strategy are made. The phone keeps a copy of the room and of its tasks.

`PROJECT.json` lists every component with what is left out and why, and every
hazard at its line.

## 2. Modules

Each module names its code in its header. A definition that stands for code is
in the map of `PROJECT.json` with its lines. Definitions that begin with
"Mutant:" are not part of the model: each is a plausible bug in the definition
that follows it, and shows that a property notices.

Agreements and offers:

- **`Agreements`** - `agreements` is the table (id to row, `Absent` for ids not
  given out), `eligibility` the persisted verdicts, `eligibilityAudit` and
  `agreementAudit` what the audit log says last, `clock` the order of the
  signature times. One action per mutation; `RecalculateInternal` is the nested
  mutation that five of them run, and reads the tables as the caller left them.
- **`Lineages`** - the abstract specification: what a buyer's agreements are
  without pointers, a set of sequences, the last of each in force or not.
- **`AgreementChains`** - the walk along `replacedById`,
  `buildSupersessionChains` and `resolveCurrentGoverning`, as the readers run
  them, and the refinement `Agreements` => `Lineages` by the chains they build. A
  walk is described by what it does at each row (`IsWalk`) and not by recursion,
  so that it can be reasoned about.
- **`OfferCockpit`** - extends `Agreements` with the drafts of each room; a step
  is a step of either.
- **`CockpitEditor`** - extends `OfferCockpit` with the buyer's windows: what each
  shows (`localTerms`), what it takes for stored (`lastSavedTerms`), and the
  mutations it has sent. A mutation runs, its snapshot arrives and its answer
  arrives in three steps, in the order the client library of Convex keeps.
- **`CounterOffers`** - chains of counters per offer, the offers, and the two
  kinds of records an answer writes.
- **`ContractHandoff`** - extends `CounterOffers`; `calls` holds, for every running
  call of `createFromOffer`, the step it is at and what it read before. Rows and
  envelope of a call carry its name. `envelopes` and `SignerActs` model Sabal
  Sign from the payload the webhook handler reads.
- **`EngineOutputs`** - prompt rows, outputs and their review states; `runs` holds
  the prompt that an engine action has read and not yet used. What a buyer sees
  (`overview.ts`, `guardrails.ts`) is computed from the outputs.

Showings, workers, visitors:

- **`TourWorkflow`** - the three tables, the payouts and the signed agreement
  types of the buyer. `AdvanceAssignment` is `updateAssignmentStatus` with all it
  patches: assignment, tour, request and payout. `EnsureCanonicalTour` and
  `CreateAssignmentRecord` keep the stale copy the code keeps.
- **`ShowingPayouts`** - what happens to a payout after that: fee, approval,
  payment and the batches of a month, which is the month of the completion, whenever
  the row is made.
- **`EnrichmentJobs`** - per source or URL the sequence of its rows; a dedupe key
  is the trigger, the number of earlier rows and the hour. Workers are external:
  they do what the queries and mutations let them do, in that order, and may die.
- **`ListingAgents`** - one agent; `observed` is history, so that provenance can be
  compared with what was really observed.
- **`LeadAttribution`** - browser sessions, the rows of `leadAttribution` and the
  users that sign in on them. A `unique()` that finds two rows throws, so the
  call that contains it is a step that cannot be taken.
- **`RateLimiter`** - one bucket, its window and its blocks; `admittedAt` is
  history. **`SmsIntake`** extends it with the messages of one phone, and
  **`TextConversation`** is the abstract specification of what that phone is
  promised: texts and answers, without rows, deliveries, buckets or blocks.
- **`ListingIntake`** - attempts and source listings; the status of a listing is
  the one in its `rawData`, as the code reads it back.
- **`FetchWorker`** - requests, their slots, the limiter and the budget of the
  month. The worker is one event loop, so what happens between two awaits is one
  step; a try can be cut off by its timeout at every await.

Records of a deal room:

- **`OutsideAccess`** - the two doors for outsiders: share links, and the tokens of
  listing agents. A refused resolution of a link returns and leaves its event; a
  refused submission throws and leaves nothing. **`RefusedAccess`** extends it with the
  submissions that are refused and what their callers are told, for the run
  `denied_attempts`.
- **`FileAnalysis`** - jobs by age, findings per job, facts with the run that
  produced them; the worker may report at any time and more than once.
- **`CompensationLedger`** - entries, the room's status, reports and lender checks
  with the sums they are made of.
- **`Closing`** - milestones and the dashboard computed from them: urgency, bucket,
  week plan and next step are separate operators because the code computes them
  separately; rows are numbered by age and a list is the set of its rows. The tasks
  of the close phase are at the end of the module.
- **`BuyerEvents`** - the buyer's updates.
- **`DealClient`** - the phone: the file of each user with the operations on it
  that are under way (`ops`; one step per await), and the shell of one signed-in
  buyer with its services and the answers they wait for (`calls`).

What buyers and brokers read and edit beside it:

- **`PropertyCases`** - outputs and cases by age; what a buyer sees is computed
  from a case and the reviews of the day.
- **`OfferStrategy`** - `offer` is the last run of the engine with the input it read;
  pricing, leverage, the profile and the list price move on beside it. The playbook
  and the what-if scenarios are operators over all of them, as the code reads them:
  the price that a what-if clarifies is today's likely price, else the fair value the
  offer was made for, else today's recommendation, and its days on the market are
  those of the leverage output, else of the offer's input. Prices are exact in
  12000ths of a point of the list price.
- **`NegotiationBriefs`** - rows, the versions of what they were made of, and the
  assemblies that are under way.
- **`DealReadiness`** - the facts of one room, changed one at a time by the
  operations of their owners (offer, contract and milestone each by its own); blockers,
  risks and the next best action are operators over them.
- **`AdminDesk`** - review items, templates, settings, notes and overrides with
  their audits.
- **`ShowingDesk`** - the queue as coordinators see it, windows and visitors.
- **`BuyerMemory`** - watchlist, comparison, events and the memory row rebuilt from
  them; time is counted in half-lives of an event.

Proofs and instances:

- **`AgreementsProofs`**, **`CockpitProofs`**, **`HandoffProofs`**,
  **`TourWorkflowProofs`**, **`OperationsProofs`**, **`RoomRecordsProofs`**,
  **`WorkspaceProofs`** - the theorems of section 6. **`FiniteFacts`** - what they
  share about numbers, sequences and sums over finite sets.
- **`MCAgreements`** (agreements and chains), **`MCDealRoom`** (cockpit, editor,
  handoff, engines), **`MCOperations`** (jobs, agents, leads, SMS, fetches, tours),
  **`MCRoomRecords`** (outsiders, files, ledger, closing, updates, phone, payouts),
  **`MCWorkspace`** (cases, strategy, briefs, readiness, staff, showings, memory,
  intake), **`MCFairness`** (handoff, jobs, fetches) -
  instances for TLC.

A host of several components has a variable `part` that is chosen at the start
and names the component that moves. The components of one host share no table
and none has a step that looks at another's, so what one of them does it does
with the others at rest, and a product of their states would show nothing more.
Where components do share state they are composed truly: cockpit and editor over
agreements, handoff over counteroffers, SMS over the limiter, and a showing
that buyer, broker and Showami write.

## 3. Passing runs

| run | question |
|---|---|
| `agreements` | does every lifecycle mutation refresh every verdict it changes; does the audit log tell the state; can the three linking operations close a cycle, revive a closed row or cross buyers; do all readers of the pointers agree with the writers and with `Lineages` |
| `deal_room` | autosave, review and cancellation interleaved; is there an agreement behind every draft; an editor whose saves and answers overlap with typing and with the broker; counters in any order; two contract calls with crashes, failing providers and webhooks; engine runs among prompt changes and reviews |
| `fairness` | does every handoff run end, is every signature recorded, is every job finished, is every fetch answered; are the retries capped although failures are reported twice |
| `operations` | one job per source and worker; agents, leads, limits and messages in any order; fetches cut off at any await, over the end of a month; one current assignment, paid once, for the right property, whoever of buyer, broker and Showami writes |
| `room_records` | do two records of one thing agree: link and trail, token and log, job and facts, ledger and flags, milestones and dashboard, news and row, payout and audit, the phone's file and the session, its tabs and the deal; is a payout in one batch at most |
| `workspace` | is what people are shown made of what they may see: cases under reviews that move on, prices that bound each other, briefs of the versions they name, one next action, queues and audits that agree, a memory that follows its events, attempts and listings of one intake that agree |

### 3.1 Bounds and why they suffice

The bounds are guards of the actions (`MaxAgreements`, `MaxDrafts`, `MaxRows`,
`MaxClock`, ...); no state constraint is used. `CHECK_DEADLOCK FALSE` is set
where the tables are full at some point, or where every actor may have finished.

| part | bounds | why they suffice |
|---|---|---|
| agreements | 3 agreements, 2 buyers, 3 rooms | a replacement across rooms needs two rooms of one buyer; the second buyer is who a wrong pair belongs to; the third row can hide or restore a verdict, close a cycle, or leave a room and come back |
| cockpit | 3 agreements, 2 drafts, 3 versions | a draft, a rejection, a second draft |
| editor | 1 window, 2 terms, one of them a scenario | typing, a save and a scenario can each differ from what is stored. With two windows the properties of one window do not hold and are not claimed (section 4) |
| negotiation | 1 offer, 3 counters, 2 prices | the third counter is the first that follows an answer by the same party |
| handoff | 2 calls, 3 events, 1 manual status | two contracts of one offer, each with its envelope |
| engines | 2 engine types, 2 versions, a legacy row, 1 run at a time, 2 outputs, 2 adjudications | a prompt changed while it is in use; an older output approved while a newer one waits |
| tours | 1 request, 2 assignments, 2 tours, 2 properties, 2 agents | a reassignment, and a tour that is not the request's own; several requests are covered by the theorems of section 6 |
| jobs | 1 source, 1 URL with 2 triggers, 2 workers, 2 hours, 2 rows, 2 fetches, 1 browser attempt; in `fairness` 1 row per source, 2 attempts each as in the code, and repeated reports | two hours give two dedupe keys, two fetches an order; a repeated report can meet the job queued, running or finished |
| agents | 2 fields, 2 values, 4 times, 3 observations | an older observation between two, and a repetition |
| leads | 2 sessions, 2 users, 3 touches | two devices of one user, one device of two users |
| limits | 2 requests in 2 ticks, blocks of 1 to 3, 5 ticks, 4 failures | two windows and an escalated block |
| sms | 3 messages | STOP, a link and START in any order, each delivered again |
| links | 2 links, 6 events, 3 minutes | expired, revoked, and both |
| access | 1 token, 3 responses, window of 2, 3 ticks | the same answer before and after another one and after the window |
| files | 1 file, 2 jobs, 2 facts | two runs over one file, one of them late |
| ledger | 2 entries of two amounts that nearly cancel, threshold between them | sums below and above the threshold, a correction, a stale report |
| closing | 3 days, 3 contracts, 2 extractions, 1 row by hand, 1 date that people put in (a week from the first day), 2 edits | dates before, on and past each limit of the dashboard |
| fetches | 2 requests, 1 retry, 1 or 2 slots, 1 page per window, budget of 3 for pages of 1, 2 or 3, 1 or 2 months | one request waits for a slot, for the limiter and for the next month while another is cut off |
| phone | 2 users, 2 shells, 2 operations on files; 2 deals, 2 calls per session | a sign-out while a save and a load are under way, and the next user's shell; an answer for a deal that is no longer current |
| cases | 2 rooms, 1 of them with a live offer, 2 engine types, 2 outputs, 2 cases | an output that replaces the one a case cites, reviewed later or never |
| strategy | fair and likely prices at 90 and 91 % of the list price or absent, with and without a review of the pricing, with and without a leverage output, 2 times on the market, 0 and 10 rivals, with and without a budget | a shift just at the threshold of a review and none; each cap, hold, order and kind of what-if is reached (a credit through a price cut only; a score that earns one is left to the theorem) |
| briefs | 2 briefs, 2 versions of a source, 2 assemblies | an assembly that ends after its sources have changed, and one after another |
| readiness, desk, showings, memory | 1 document type that keeps from two checkpoints, and every state of offer, contract and milestone; 1 item, 2 versions, 4 notes, 4 audit entries; 5 units of half a day, 2 windows, 3 visitors; 3 homes, 2 saved, 3 compared, 1 half-life, 1 tour | every blocker alone and together; a revision of a revision; both limits of staleness; evidence for and against one wish, fresh and decayed |
| tasks, updates, payouts, intake | 2 tasks and 8 moments; 2 kinds of news, 4 emissions, 3 acts; 1 showing, 2 fees, 2 months; 2 submissions of 2 kinds | repetitions before and after an end, a fee that changes in between |

### 3.2 What the merged invariants say

An invariant such as `HandoffSound` is a conjunction of named parts, each stated
above its definition in the module: the type invariant of the component, and the
facts that would have to be read together by somebody who debugs it. One mutant
per property in `PROJECT.json` shows that the code could break it.

## 4. Disagreements between the code and what is said of it

Each of these runs checks one property that a comment, a test or a decision
record states, and TLC finds the code violating it.

| run | what is said | what the code does |
|---|---|---|
| `stale_eligibility` | eligibility is recalculated on each transition (`offerEligibility.ts:401`) | `supersede` turns a signed row into a replaced one and recalculates nothing |
| `tour_terminal` | canceled, completed and failed are final | an assignment recorded or synced later takes the request up again |
| `handoff_price` | the accepted price is the price of the counter (`counterOfferHistory.ts:527`) | the contract has the price of the first offer |
| `agents_confirmed` | a late stale fetch never regresses newer data (`enrichmentJobs.ts:984`) | a confirmation does not renew the provenance, so an older fetch passes |
| `lead_rows` | duplicate rows of a user would break the `unique()` reads (`leadAttribution.ts:400`) | a second device with a captured session leaves two rows, and the creation of a deal room then throws for that user |
| `denied_attempts` | every transition of a token writes an event, and the operations queue reviews denied attempts (`externalAccess.ts:17`, `:66`, `:260`) | a refused submission records a denied event and throws in the same transaction (`listingResponses.ts:466`-`:475`), which takes the event back |

Seen while modelling, and part of the models, without a run of their own:

- `upsertDraft` refuses an edit while the latest draft is not editable, and a
  discarded draft stays the latest for good, so the buyer cannot edit an offer in
  that room again; the comment (`offerCockpit.ts:297`) says the refusal is for a
  draft under or past review.
- A Showami or manual assignment takes a request that is still a draft, past the
  agreement check of the submission, although "the state machine says draft can
  only transition to submitted or canceled" (`tourRequests.ts:554`).
- `createAssignmentRecord` replaces the request by the copy it read before
  `ensureCanonicalTourForRequest` patched `linkedTourId` into it
  (`lib/tourWorkflow.ts:254`), so the link that `schema.ts:2146` describes is lost
  and the next routing makes a second tour.
- A webhook that names only its envelope is answered with "ignored" when it
  overtakes the mutation that stores the envelope id (`contracts.ts:856`).
  `SignatureRecorded` is therefore claimed for webhooks that name the contract
  (`WebhooksNameContract = TRUE`); with `FALSE` TLC shows the lost signature.
- A signed event makes a contract fully executed again that the broker has
  terminated, and a repeated "sent" takes a signed handoff back.
- `createFromOffer` checks the offer in a query and inserts the contract in a
  later mutation (`contracts.ts:283`); a counter between the two leaves a contract
  for a countered offer. The expiry of a counter is stored and never enforced.
- The dedupe key of a Browser Use job counts the rows that are queued
  (`enrichmentJobs.ts:634`), so a second request in the same hour never finds the
  first; a URL is attempted twice per row, four times in all, before an operator
  sees it (KIN-958 says two); and a forced refresh is stopped by the cache check of
  `enqueueJob` (`enrichmentJobs.ts:117`) although `scheduler.test.ts:137` says it
  overrides the cache. Each further request for an exhausted URL adds one more
  escalated row.
- `assignFallback` and the sync look assignments up by `showamiFallbackId` with
  `unique()`, and nothing keeps a second assignment from carrying the same id.
- The comment above `deriveJobOutcome` says that the flag of a finding is ignored
  (`fileAnalysis.ts:408`); the code takes it into account.
- With two editor windows, a snapshot with the other window's terms replaces
  nothing that is unsaved, so a window may take its own terms for stored that are
  not; and the banner's Save button is not disabled while a submission is under way.
- `reconciliation.ts` takes rooms with the status closed, which nothing sets;
  `reviewDecision` decides superseded rows as well.
- A success after the block has been re-stamped can shorten the block
  (`rateLimiter.ts`), and failures after the fifth leave no row in `abuseEvents`.
- STOP and START are ordered by arrival; the consent status "suppressed" is read
  and never written.
- A milestone that is completed, flagged and resolved becomes pending again;
  `markOverdueBatch`, which alone sets overdue, has no caller. Resolving a manual
  milestone stores it as amended, and the next extraction then deletes it, although
  manual milestones are to be preserved (`contractMilestones.ts:253`).
- The offer engine reads the newest pricing output whatever its review state; an
  overridden output keeps showing the raw numbers; an approval with internal-only
  visibility is stored as a rejection.
- A dismissed update names no version, so it also dismisses news that arrived
  after the buyer looked.
- A listing that is ready without a property makes later duplicates pending, and an
  address row that is replaced may lose its property.
- **Fetch worker**: a reservation of the old month that is settled in the new one
  lowers the new month's counter (`unlocker.py:215`); an unknown portal is answered
  with 500 (`runtime.py:129`); what failed tries cost is in no statistics.
- **Phone**: `apply`'s empty branch sets `.empty` unguarded after a clear
  (`DealCacheCoordinator.swift:129`); a session that is lost at launch leaves its
  file; `reevaluateFreshness` has no caller; a sync that was overtaken loads the
  events of the old deal (`DealTimelineService.swift:81`), which the property
  names as its exception (`overtaken`). Two users' rows of `deviceTokens` may keep
  one token active, and a late 401 may expire a newer session (not modelled).
- **Cases**: a cache row belongs to the room that asked first, so a second buyer
  with the same outputs never gets a case; after outputs A, B and A again, B's case
  is the latest; the oldest offer output guards the action, so a recommendation of
  an output in review can be shown, although "Buyer-specific negotiation strategy
  stays out of view until a broker reviews the recommendation"
  (`guardrails.ts:231`); a stored dossier never contains the output of the run that
  synced it.
- **Strategy**: "always above balanced" (`offer.ts:94`) fails when balanced lies
  above 105 % of the list price; with five rivals or more "Aggressive" costs more
  than "Balanced"; a budget cap leaves competitiveness as it was computed before;
  the playbook looks only at the review of the offer output and mixes it with
  today's pricing and leverage; `reviewThresholdCrossed` is never true.
- **Briefs**: nothing under `src/` calls the assembly; `recordReady` and
  `recordFailure` look at no status, and a pending row whose assembly died can never
  be made again; buyer strength has no version.
- **Readiness**: "No live offer" and "Contract still needs signatures" block until
  the contract is executed, so "Tour it next" comes after it; `dealRooms.status`
  never changes; conditions are cut to four before the kind of advice is chosen; a
  withdrawn offer submitted later hides an older live one.
- **Staff**: anybody on the staff may claim an item that is in review;
  `updatePriority` works on closed items; the comment "No-op if terminal" on a
  function that throws; `getNoteHistory` walks one revision forward only; nothing
  inserts review items; overrides are only recorded.
- **Showing desk**: a request assigned by hand, routed to the broker and unblocked
  keeps its agent and then stands in no bucket; staleness counts from the first
  submission although the comment says "in its current state"
  (`coordinationFilters.ts:346`); a visitor may be converted twice; a withdrawn
  window can be offered again.
- **Memory**: a deletion request removes the profile and not the memory row;
  feedback that leans positive with a reason against weighs more than plain praise;
  two signals under review make the memory durable; the stored memory is not decayed
  on read; removing and adding a home makes its event fresh again.

## 5. Fairness

Only three specifications assume any, because nearly every step is taken by a
person or by an outside service that owes nothing.

- `Progress` of `ContractHandoff`: a call of `createFromOffer` that has not crashed
  goes on to its next step (the code awaits one call after the other, and every
  provider call returns or throws), and a webhook is sent again until it is
  answered with a status of success. That the sender repeats an unanswered webhook
  is an assumption about Sabal Sign, which is not part of the repository;
  `http.ts` answers with 200 whatever was done with the event. A crash is never
  forced and never excluded: `RunsSettle` names it as the exception.
- `JobsProgress` of `EnrichmentJobs`: a worker polls `getPendingJobs` and finishes
  or reports what it began, and the delay of a retry passes. Nothing forces a
  refresh, and a worker may die: no code takes its job back, and `JobsSettle`
  names that exception.

- `FetchProgress` of `FetchWorker`: the event loop runs what is ready (weakly fair
  for each request; waiters for a slot are queued, so none is passed over), and
  time passes, so that every wait ends by its timer or its timeout. The vendor need
  not answer.

Under every other specification only safety is claimed.

## 6. Proofs

Every theorem holds for all values of the constants that satisfy the assumption
of its module: any number of rows, rooms, buyers, calls, windows, workers and
listings. The run of section 3 shows the same property on a small instance. No
theorem assumes anything else, except two about jobs that say `~RepeatedCalls`.
Every safety invariant and action property of the passing runs is stated by a
theorem. Two theorems go beyond the runs: `TextsImplementConversation` and
`RequestsAlwaysAdvance`.

| module | theorems | properties of runs they state |
|---|---|---|
| `AgreementsProofs` | `Inductive`, `TypeCorrect`, `ChainsAreLinear`, `ChainsAreAcyclic`, `AgreementsAreOwned`, `TablesAreSound`, `EligibleRowsAreGoverned`, `ClosedRowsStayClosed`, `EligibilityIsRecalculated`, `AuditIsComplete`, `RefinesLineages`, `ReadersAlwaysAgree` | `TablesSound`, `EligibleRowGoverned`, `ClosedRowsFrozen`, `EligibilityFollowsLifecycle`, `ImplementsLineages`, `ReadersAgree` |
| `CockpitProofs` | `CockpitIsSound`, `SubmissionsAreReviewed`, `CockpitKeepsAgreements`, `EditorIsTruthful` | `CockpitSound`, `ReviewIsOfTheSubmission`, `EditorTruthful` |
| `HandoffProofs` | `NegotiationsAreSound`, `HandoffsAreSound`, `EnginesAreSound` | `NegotiationSound`, `HandoffSound`, `EnginesSound` |
| `TourWorkflowProofs` | `ToursTypeCorrect`, `OneCurrentAssignment`, `ShowingsPaidOnce`, `ToursShowTheProperty`, `AssignmentsAreSound`, `PayoutsAreSound` | `AssignmentsSound`, `PaidExactlyOnce`, `PayoutsSound` |
| `OperationsProofs` | `JobsTypeCorrect`, `AttemptsAreCapped`, `JobsAreSound`, `OutcomesAreFinal`, `AgentTypeCorrect`, `ProvenanceCorrect`, `FreshnessCorrect`, `RecordCorrect`, `FieldsCorrect`, `AttributionIsTrue`, `IntakeAlwaysAgrees`, `LimitsAlwaysHold`, `TextsAreAnswered`, `TextsImplementConversation`, `FetchesAreSound`, `RequestsAlwaysAdvance` | `AttemptsCapped`, `JobsSound`, `OutcomesFinal`, `RecordTrue`, `FieldsNeverRegress`, `AttributionTrue`, `IntakeAgrees`, `SmsSound`, `FetchesSound` |
| `RoomRecordsProofs` | `FileReviewsAreSound`, `OutsidersAreSound`, `TasksAreSettledOnce`, `UpdatesAreSound`, `PhoneIsSound`, `LedgersAreSound`, `ClosingsAreSound` | `FileReviewSound`, `OutsidersSound`, `UpdatesSound`, `PhoneSound`, `LedgerSound`, `ClosingSound` |
| `WorkspaceProofs` | `CasesAreSound`, `StrategiesAreSound`, `BriefsAreSound`, `AdviceIsSound`, `StaffIsToldTrue`, `WorkspaceIsSound`, `BuyersAreRemembered`, `MemoryIsKept` | `CasesSound`, `StrategySound`, `BriefsSound`, `AdviceSound`, `StaffSeesTrue`, `BuyerRemembered` |

### 6.1 The inductive invariants

**Agreements.** That chains are linear and acyclic is not inductive: `supersede`
walks pointers, and that the walk ends where it should depends on every pointer
staying inside one buyer and on no two rows sharing a successor. `IInv` joins
the shape of the table, ownership, linearity, acyclicity and the governed rows.
One lemma each for inserting a row, moving a status and linking two rows says
what these do to a table; every action is one or two of them, followed by the
recalculation, for which `VerdictGoverned` says that an eligible verdict names a
signed full-representation row. The two action properties need one lemma per
kind of change more: a change that touches no row of a room leaves its verdict,
and only linking by hand is not followed by a recalculation. The audit trail
tells the state because every writer appends the state it leaves.

**Chains.** The readers start a chain at a row no pointer leads to. From linearity
and acyclicity follows that every row lies on the chain of exactly one such
row. Inserting, moving a status and linking then map to the operations of
`Lineages`: linking joins two chains, everything else touches one. The same facts
show that a lookup by chain finds the row the pointers lead to, whichever rows it
was given.

**Cockpit and editor.** `CockpitIInv` says of the drafts that at most one row of a
room is active and that its review columns agree. `DraftsUnderAgreement` is about
two components: a draft begins under an eligible verdict, so under a signed
agreement of the room (`EligibleRowGoverned`), and no later mutation makes a row
pending again or takes it out of its room (`CommitmentStays`, from the lemmas
`...KeepsSigned`, one for each change). The editor adds which of its mutations a
window can have under way and that they run in order (`QueueOk`), and that a
snapshot of the stored version shows the stored terms (`SnapshotTrue`), for any
number of windows. With one window, what it takes for stored, or will when its calls
are answered, is stored (`TermsFollow`); with two that does not hold, as section 4
says.

**Negotiation and handoff.** `NegotiationSound` is inductive. `HandoffIInv` says for
each running call what its own rows are at the step it has reached
(`HandoffFollowsAt`); since rows carry the name of their call, no other call
disturbs it, and this is where the interleavings of any number of calls are
settled. `AnswersKept` says that a webhook that reports an answer reports what
became of its envelope, and `AnswersNotLost`, a part of `HandoffSound`, that it is
not lost: until the answer is recorded a webhook under way carries it and will find
the contract, at whatever step the call that made the envelope crashed. This is what
`SignatureRecorded` rests on; fairness only adds that the webhook is delivered.

**Engines.** `EngineIInv` says of the registry that a row is known by its type, key
and version and that no two active rows can be found by one lookup (`RegistryOk`);
inserting and switching off keep that, and switching on keeps it for rows without an
active rival, which is what the order of `activateVersion` is there for. A sync
activates only the first entry of a key nobody answers for, so a second sync, by
whichever run, finds every key answered. A run that read its prompt holds a version
that has a row, because no row is ever removed. A review writes what it found as
`before`, so the history of an output has no gap.

**Tours.** `IInv` adds that an active assignment is the one its request points to
and that its tour is of the right property: without it, `AdvanceAssignment` could
complete an assignment of another request. The hard leaf is
`CreateAssignmentStep`, where one action inserts a row, possibly inserts a tour,
and replaces the request by the copy read at its start. `PayoutIInv` adds to what
`PayoutsSound` says that nobody has written of a payout that is not there; the audit
trail of an action is the old one with one entry or two more, and the lemmas on
`Append` say what that does to the entries about a payout.

**Jobs, agents, leads, intake.** Besides what the properties say (one row of a source
in flight, one worker of a claim), `JobsIInv` has that only a queued row waits for
the delay of a retry and that what a worker has fetched is no older than what is
stored for its source. Where a report may be repeated (`RepeatedCalls`) a
failure reported twice puts a running job back in the queue, and `JobsSound` and
`OutcomesFinal` do not hold; `AttemptsCapped` does. `FieldStep` says what one
observation does to one field; freshness needs in addition that nothing was
observed while there is no row. `LeadIInv` adds that a session without a row has
sent nothing, and `IntakeIInv` that every attempt hangs on the oldest listing of its
source: the readers take the first row of an index, and a second row with the same
key would be one that nobody sees.

**Limiter and texts.** A bucket does not hold what was let in but the end of it, and
prunes only when it is asked. `LimiterOk` says that what is missing is older than a
window (`Remembers`), for every bucket, list and time: then the count at the next
check is the true one, and of more requests than the channel allows the last came a
window after the first. The lemmas are about a check, an outcome and a tick by
themselves, so that the texts, which take a check and an outcome in one step, use
the same ones. For the texts `SmsIInv` says that consent is what the messages tell
(`Stopped`), that every reply is one a stored row gives, and that the links stored
are those that were processed.

**The conversation.** `TextsImplementConversation` maps a row to the answer of its
text, the bucket to the list of the times a text was looked at for a link, and the
consent to a flag. A delivery repeated maps to a stutter, because `Seen` finds the
row; a text that is refused or says STOP, START or HELP maps to one step; and a text
that passes the limiter to `Look`, whose guard counts the last window itself: that it
counts no more than the limiter did is `Remembers` again (`WindowSize`).

**Fetch worker.** `FetchIInv` is kept in parts: what a request may have reserved and
noted at its phase, the slots, the queue for them, the limiter, the money and the
counts. The money is the hard one: `CountedIs` says what the counter is at any use of
the budget, which first starts a new month if one began, and no reservation of the
new month is older than that use. So a try that reserves, settles or is refused finds
the counter equal to bills plus reservations, unless one of another month was settled
in this one. The tries made are the pairs of a request and a number up to its last,
which makes their sum the size of a set. Two safety facts are what `FetchesEnd` rests
on. `SomebodyMoves`, a part of `FetchesSound`, says that nobody waits for nothing:
while a request is under way one of them can go on, or the limiter is only waiting for
time to pass. `RequestsAlwaysAdvance` says that every step that touches a request moves
it to a later one of finitely many stages, whatever is cut off or answered late.

**Room records.** `FileReviewSound` is inductive by itself. For links it takes that
every event names a link and what `LinkRowSound` says of one row; for tokens, that
events name tokens and responses lie in the past; of refused submissions it says nothing,
as the log does not. For the tasks it takes that every
write is later than those before it. For the updates `UpdatesIInv` says that a key
has one row, that rows were told at times of their own (`TimesTold`, which is what
gives each a place of its own in the feed), that the pairs of a row and a number up
to its count are as many as there were emissions, and what a trail tells of its row
(`RowsTold`). `CacheIInv` says at which step each kind of
operation can be (`OpsSound`), that one shell at most is mounted and has the user
of the session (`ShellsSound`), that what a shell shows besides will be replaced by
an operation under way (`ScreensSettle`), and that a file that should not be there
will be deleted by one (`FilesFollow`). `TrackerIInv` says that a service has the data
of the deal it loads or a call under way that will bring them (`ServiceSound`), and
that services follow what the shell has observed.

The ledger needs to know what a sum is. `SumChosen` unfolds the recursion of the
library's sum once, `SumRemove` shows that any element may be taken out first (a
smallest set for which that fails would have a smaller one), and `SumSame` that what
counts as zero may be left out: so the code's run over all entries is the sum over
the entries that match, and the sums of a report, over positions up to the one it was
made at, do not change when the ledger grows. `LedgerSound` is then inductive with
the fact that no report looks past the ledger. For the milestones `ClosingIInv` says of
each row that overdue means late and that a row for review says so unless it is
completed; the dashboard follows from what `OneMilestone` says of one row and from
`SomeSoonest`, that one of finitely many rows is the first of those due soonest.

**Workspace.** `CasesIInv` is the type, one row per set of inputs, and that the
inputs of every row are outputs that were there; the rest follows from how a view
is computed. `BriefsIInv` says that a payload was made of the versions its row
names and that the rows that completed are those with a payload. `StrategyTypeOK`
is inductive, and what the engine and the playbook promise holds of every state
of that type: the proof is arithmetic about floors and ceilings of a price, for each way a
what-if finds its price. The
advice of a room is computed from the facts of the moment, so `ReadinessSound`
holds of every state whatever; the work is in the order of the conditions, of
which four survive a cut.

**Staff.** `DeskIInv` says of each of the five tables what its audit tells, of the one at
work and, before any is, of all. What an entry more changes in a chain of entries is
said once (`SameEntries`, `MoreEntries`): an entry about the id goes on from what was
told last, any other leaves it. That a note is found under an unrevised one is an
argument about the greatest note that leads back to it; the recursion that walks back
is shown to exist by taking the least note where it would not. For showings
`QueueIInv` says that an agent of before stays in a request only while its assignment
waits in the queue of the broker (`AgentsLeft`), and in which order the instants of a
request lie (`TimesFollow`).

**The buyer's memory.** What the memory tells of a wish is a sum of weights that halve
with every half-life. `SumDoubles` in `FiniteFacts` says that a sum of doubled numbers is
twice the sum, so a half-life that passes halves the evidence for and against alike;
that time alone only fades a confident wish, and never makes one, is then arithmetic
about the bar. `BuyerIInv` says that no event lies in the future and that the memory
row is the one its sources make, as of the moment it was last rebuilt (`KeepsUp`); what
is told of each wish, and with which reason, follows from how a row is made. The
comparison is a list of distinct homes: that taking one out, putting one in and moving
one keep it so is shown by positions.

**Numbers, sums, sequences.** `FiniteFacts` has what these proofs need of data that is
defined by recursion. An induction theorem cannot be used, so each such fact is an
argument about a least counterexample: of the numbers, or of the sets in the order of
inclusion, for which the fact fails, take the least, and see that a smaller one fails
too. In this way a power of two is shown to exist and to be a number, and a sum over a
finite set to exist, to be a number, not to depend on the order and to grow with its
terms.

### 6.2 What stays model-checked, and why

- **Liveness**: `RunsSettle`, `SignatureRecorded`, `JobsSettle`, `FetchesEnd`. Temporal
  proofs under fairness need ENABLED, which the prover does not treat. Of
  `SignatureRecorded` and `FetchesEnd` the safety half is proved, as said above.
- **Filters over sequences** are nowhere proved as such: what a filter computes for
  every list takes an induction over data that the provers cannot instantiate. Where
  the code filters, the model states the result by positions or as the end of a list
  in order, and that is what is proved.

## 7. Abstractions

- Identity checks are not modelled: an action may be taken by whoever the code
  admits. Names, notes, prices and payloads are left out or are members of small
  sets; times are counters where an order matters.
- In `EnrichmentJobs` a dedupe key keeps what can differ between two keys of one
  source or URL; the retry delay is a gate that opens at some point, as nothing
  depends on its length.
- In `RateLimiter` the filter that prunes a bucket is the end of its list, which is
  in the order of the clock (`InOrder`, checked and proved). `FetchWorker` drops
  stamps at the front of its list, as the code does.
- In `ContractHandoff` the milestones are one step of the call; the form that is
  left at Form Simplicity after a failure is not read by anything.
- `TourWorkflow` chooses the agent that the coverage ranking would choose.
- `EngineOutputs` assumes that the active rows of an engine type have either the
  default key or other keys, as seeded; outputs of the seeds may name a prompt
  version that no row has. A prompt and its version are one value.
- In `Closing` the name of a milestone is who is responsible for it; the guess by
  the substring "clos" is not modelled.
- In `ListingIntake` the worker that extracts a listing is external;
  `markAttemptTeaserViewed` only stamps a time.

## 8. Not modelled

- **Numbers of the engines** (pricing, comps, leverage, offer, dossier): heuristics
  over doubles, or the answer of a language model. Their protocol is modelled.
- **Parsers and extractors** (Redfin, Zillow, file text, URLs, addresses): functions
  from text to fields, with no state and no second actor.
- **Read models** (dashboards, the dossier builder, launch analytics, KPIs,
  intelligence monitoring, release gates): they compute a view of one snapshot, and
  write nothing. Of the buyer workspace the texts, the fit score and the context of
  a room are left out.
- **Onboarding**: one form of one buyer.
- **Availability**: recurring specifications and time zones; the windows made of
  them are modelled.
- **Message preferences, device tokens, coordinator notes**: plain edits of one row.
- **iOS client** beyond the deal tracker (parsers of shared links, views, sign-in),
  **browser extension, rendering**: they show what queries return.
- **Security and privacy requests**: exports and file access, which only read.
