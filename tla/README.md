# Marketing OS: TLA+ models and proofs

Marketing OS finds companies, scores them as leads, drafts outreach and content,
and lets nothing leave the house before a founder approves it. Its state is one
SQLite file; a Telegram bot, the tools an agent calls and the founders' own
actions all work on that file, each through a connection of its own and each in
several small commits. This directory models what can go wrong between those
commits, checks the models with TLC and proves the main results with TLAPS.

## Inventory

| Part | State it keeps | Operations | What is hard | What makes it correct |
|---|---|---|---|---|
| Database (`repositories/database.py`) | one connection per `Database`, WAL file | connect, migrate, close | one write lock, a 5 s busy timeout, transactions begun implicitly | every begun transaction is ended |
| Repositories (`repositories/*_repo.py`) | the tables | whole-row upserts, conditional update of an approval | every call commits alone; rows are saved whole, so stale ones overwrite | an approval is decided once |
| Telegram operator (`services/telegram_operator.py`) | none | buttons, `/approve`, `/reject`, `/intake`, `/outreach`, listings | reads the approval, resolves it, then moves the lead, while others do the same | only admins decide; a lead is contacted on an approval |
| Outbound engine (`services/outbound_engine.py`) | none | cadence, recorded contact | drafts, request, lead: five commits and a row read before them | a request stands over complete drafts; a ready lead has a request |
| Publishing service (`services/publishing_service.py`) | none | dispatch to Telegram, Postiz or export | the gate is read once; Postiz may lose the answer | only approved assets go out; once |
| Content engine (`services/content_engine.py`) | ideas, assets | ideas, drafts with reviews, publish_asset | asset and review are two commits | every asset waits for its review |
| Lead scorer (`services/lead_scorer.py`) | leads, assessments | score a company | waits for a model between reading and saving a lead; `or` on zeros, rounding, thresholds | the baseline never qualifies; a better company is never put behind |
| Conversation intake (`services/conversation_intake.py`) | companies, leads, interactions, approvals | ingest a message | up to five commits and nothing caught in between; leads under fresh names | a reply goes to the lead of whoever wrote; a violation is rejected and never answered |
| Market scanner (`services/market_scanner.py`) | countries, sources, companies, evidence, leads | scan | three commits for an entity, each of which may fail; evidence is upserted by content | evidence stays with a company it speaks of; errors are reported |
| Entity resolver (`services/entity_resolver.py`) | companies | resolve, merge | order of the matching rules; two resolvers at once | one company per firm |
| Acquisition router (`adapters/acquisition_router.py`) | none | fetch a page | redirects followed by hand, each hop an address to check | no refused address is asked for; redirects are bounded |
| Source adapters (`adapters/`) | none | search, extract listings | pages, failing searches | a failing search is skipped, not fatal |
| Policies (`policies/`) | none | query plan, redaction | strings | no secret is stored or sent |
| Domain tools (`tools/domain_tools.py`) | none | what the agent may call | each opens a `Database` | they only call the services |

The parts meet in the tables. `leads` is written by scanner, scorer, intake,
outbound engine and operator; `approvals` by the drafting services and the
operator, and read by the dispatchers; nobody locks a row between reading and
saving it. Calls between parts are direct: the bot's commands and the tools
construct a service and run it to its end.

## Modules

Approvals and outreach:

* `MarketingStore` - tables `leads`, `approvals` and the interactions a cadence
  leaves; SQLite's write lock (`writer`); handlers with a label `pc` and what
  they read so far (`ctx`). `SaveLead`, `CreateRequest` and `Resolve` are the
  repository calls. `Resolve` keeps the lock when it updated nothing, because
  `ApprovalRepository.resolve` commits only when it did. `WriteTimeout` is the
  busy timeout, `Crash` the end of a process.
* `TelegramOperator` - `handle_callback` and `_cmd_direct_resolve`: read and
  check (`BeginResolve`), `ResolveRequest`, `ReadLead`, `SaveContacted`. Where
  the two differ, `via` tells them apart (`GoesOn`).
* `OutboundEngine` - `generate_cadence` as `BeginCadence`, `SaveDraft` three
  times, `RequestOutreach` or `EndDraftsOnly`, `SaveReady`;
  `record_contact_attempt` as `BeginContact`, `SaveContact`, `LogContact`; the
  tool `request_approval` as `FileRequest`.
* `ApprovalGate` - the abstract specification of the approvals table: filed
  once, decided once, by an administrator.
* `OutreachApproval` - the composition of the three, its properties and its
  inductive invariant. `Gate == INSTANCE ApprovalGate WITH decision <- ...`
  reads the table as the abstract gate, and `Life == INSTANCE LeadLifecycle WITH
  ...` a handler as one that is about to save the row it read (`Held`), or idle.
* `Publishing` - drafting with reviews and dispatching, above `ApprovalGate`:
  its decisions are the abstract gate's, which `OutreachApproval` shows the
  table to implement.

Leads and their scores:

* `LeadLifecycle` - everybody who writes `leads`, as reads followed by saves of
  what was read; `vetted` is a history variable. What a score comes to is left
  open: any of five outcomes for a model's evaluation, any of the buckets in
  `BaselineBucket` without one.
* `LeadScoring` - `LeadLifecycle` with the numbers: `HeuristicFit`, `Urgency`
  and `Reachability` of what is known of a company, the weighted sum with the
  `or` that takes 0 for a missing grade (`Or`) and the `get` that does not
  (`Given`), rounding, and the thresholds (`Mapped`, `BucketOf`). `weighed` says
  what the score a handler is about to save was made of. Numbers are integers:
  grades in hundredths, sums in hundredths of these. A sum that lies halfway
  between two grades goes either way, as the floats decide.

Companies and where they come from:

* `EntityResolution` - `EntityResolver.resolve`: `Resolve` is the look-up by
  domain, `FindByContacts` and `FindByName` the next two rules, the last also the
  making of a new company; what the matching rule computed is saved whole by
  `SaveCompany`. A company's row and an observation are the same record
  (`Profile`); normalization shows as equality of names, domains and contacts.
  `known` is a history variable.
* `Acquisition` - `AcquisitionRouter`: the loop that follows redirects,
  `CheckHop` its address check and `Answer` or `Redirect` the request. An address
  is public or not; each hop may be either, whatever the first one was.
* `MarketScan` - `MarketScanner.scan` over the two: `Bootstrap` inserts the rows
  others refer to, one commit each; `Discover` chooses the targets;
  `NextTarget`, `FetchPage`, `SkipTarget`, `ExtractEntities` do a page, and
  `ResolveEntity`, `KeepCompany`, `StoreEvidence`, `EnsureLead` (the look-up) and
  `SaveNewLead` an entity on it.
  `StorageError` is the `except` around an entity. `unfiled` is a history
  variable: the entities of this scan without evidence or lead.
* `ConversationIntake` - `ingest_message`: `IngestMessage` and `KeepSender`
  resolve the sender; `AttachLead` looks for a lead of the company and
  `CreateLead` saves one if there is none, then `LogInbound`, `SaveReply`,
  `AskApproval`. The stage of a handler is where the next commit is.
* `Correspondence` - the abstract specification of what intake records: a message
  is logged once, on a lead that is there; answered at most once, and not when it
  is a violation; asked about when the answer is there; and none of it changes.
* `Discovery` - scanner and intake service over one resolver and the same tables,
  with `Interrupted`, the end of a process or an error nobody catches, between
  any two commits. It has two abstract specifications, all of whose variables are
  also here, so that neither needs a mapping: `EntityResolution`
  (`DiscoverySpec => Spec`) and `Correspondence` (`DiscoverySpec => Mail!Spec`).

`MCOutreach`, `MCPublishing`, `MCLeadLifecycle`, `MCLeadScoring`,
`MCEntityResolution` and `MCDiscovery` hold constants and symmetry for TLC;
`*_proofs` hold theorems.

One step of a model is one commit, one request to the network or one call of
Postiz together with the computation after it. Reads at the start of an
operation are one step with each other: nothing that the operation decides
depends on two of them disagreeing.
A handler stands for one connection; two operations on one connection run one
after the other, as the bot's single loop runs them. `OwnConnection` keeps a
tool, which opens a `Database` of its own, off a connection on which somebody
left a transaction open.

Left out: texts, notes and timestamps; `updated_at` decides only which of two
leads of equal priority `get_lead_by_company` returns, so either may be. In
`MarketingStore` a lead is always there; that it may not be ends a handler
before it writes. In `MarketScan` a lead is known by its company and how it was
named; its status is `LeadLifecycle`'s matter. The CHECKs of the schema are the
type invariants. A callback may say "pending" as its decision, which the parser
takes; no keyboard has such a button, and the model has the keyboard's three.
Grades in `LeadScoring` are hundredths from 0 to 1, which the schema asks of a
model; the code takes any float a model or a caller's context gives it.

## Runs

All bounds are sizes of constant sets, but for `Touches` = 3, which is the
code's, and these: `MaxPosts` = 2, the posts Postiz may take of one asset;
`MaxRedirects` = 1, which is 5 in the code; `MaxFound` = 1, the addresses a
search finds, to which a scan may add two or three platforms; `MaxKnown` = 3, the
different observations, entities to do and messages of one behaviour of
`discovery_alone` (2 in `evidence_moves`); and `ShortScans`: a scan may have two
targets, a redirect and failing pages as long as nothing was resolved, and from
then on has one target that is answered at once. Storing may fail at any time.

| Run | Instance | What it shows |
|---|---|---|
| `outreach_gate` | 1 lead, 2 requests, 2 handlers, 2 users of which 1 admin, 2 chats, crashes | types, the inductive invariant, drafts before requests, requests before readiness, refinement of `ApprovalGate`, leads change by `LeadLifecycle`'s steps only, buttons contact nobody without an approval, every operation ends thanks to the busy timeout |
| `outreach_single` | 1 handler, 2 leads, 2 requests | an approval reaches the lead when operations do not overlap |
| `publishing_gate` | 2 assets, 2 reviews, 2 handlers | only approved assets go out, published ones are out |
| `lifecycle_vetting` | 1 company with 2 leads, 2 handlers | qualified and first-bucket leads were vetted |
| `scoring` | 1 academic company, 1 lead, 2 handlers, 15 reports around the thresholds | the numbers are within what `LeadLifecycle` allows, zeros qualify nothing, higher scores and more facts never rank lower |
| `discovery_alone` | 1 handler, 2 companies, 2 names, 2 domains, 2 contacts, 2 messages | one company per domain, recognised and never poorer; evidence stands, and stays if its page is of one domain; replies reach their senders, requests can be answered, refinement of `Correspondence`; one lead by messages, errors are told, addresses were checked |
| `outreach_command_race` | 1 lead, 1 request, 2 admins | **fails**: `/approve` ignores that it lost |
| `outreach_lost_approval` | the same, buttons only | **fails**: approved before the lead is marked ready |
| `publishing_twice` | 1 asset | **fails**: a second dispatch posts again |
| `resolution_overlap` | 1 name, 2 companies, 2 handlers | **fails**: a stale row takes facts away |
| `evidence_moves` | 2 companies, 2 listings of one title | **fails**: the second seller's listing takes the first one's evidence |
| `lifecycle_blocked` | as `lifecycle_vetting` | **fails**: a cadence ignores that the lead was rejected |

Two handlers are enough for what the properties of overlapping operations are
about: each hazard is a pair of operations, one of which falls between two
commits of the other. Two requests let a cadence's own request and one filed by
a tool stand over the same lead; two leads of one company are what the intake
service creates beside the scanner's. In `scoring` two handlers are what two
evaluations are compared by, the leads themselves being `lifecycle_vetting`'s.
In `discovery_alone` three observations are enough for a company to be made, to
be matched by each rule and to stand against a second one of another domain,
with a message between; repeating them is not bounded. One redirect is enough to
tell the check of the first address from the check of each. There is one handler
because resolutions that overlap break what everything else stands on, which is
what `resolution_overlap` shows.

`publishing_gate`, `publishing_twice`, `discovery_alone` and `evidence_moves` do
not check for deadlock. In the former two nothing is left to do once every asset
and review identifier is used and decided; in the latter two an observation that
needs a new company waits for ever when every identifier is used. In the other
runs the model never stops.
The property of the failing runs is what a comment, a document or a capsule
says; PROJECT.json quotes it under "findings".

Fairness is used in `outreach_gate` (for `HandlersFinish`), `outreach_single` and
`outreach_lost_approval`: weak fairness of each handler's `Step`. A handler
is straight-line code without waiting, except for SQLite's lock, and that wait
ends in a timeout; nothing forces an operation to begin, and a crash is never
fair. Retries are not assumed, because the code has none.

## Proofs

For every value of the constants, from the named assumptions on them (admins are
users, the "no ..." values are no members, `Own` is injective, the baseline's
buckets are 2 and 3):

* `OutreachApproval_proofs`: `CrashSpec => []IInv`, and from it complete drafts,
  requested readiness, the refinement `CrashSpec => Gate!Spec` and
  `ButtonsNeedApproval`: whatever else overlaps, a lead contacted without an
  approval is the doing of a command. `IInv` adds to the
  properties what a row says in each decision (`RequestsFiled`), what a handler
  may rely on at each label although tables change under it (`HandlersReady`)
  and that a cadence under way shares its request with nobody (`CadencesApart`);
  the last is what makes "no request without all drafts" inductive, since a
  draft may only be added while the request does not exist.
  `CrashSpec /\ []DecidedApart => AdvanceNeedsApproval` says what the
  counterexample of `outreach_command_race` hangs on: as long as no two handlers
  decide one request at once, a command has won when it goes on. `DecisionsStand`
  is the strengthening. `CrashSpec => LeadsFollowLifecycle` ties this model to
  `LeadLifecycle`: each step leaves its variables alone, or is a cadence, an
  approved outreach or a recorded contact beginning, saving or dying there. A
  handler is mapped by where it is, so that a label that saves nothing is idle;
  what it holds is the row it read, which `IInv` keeps a row of the table's type.
* `Publishing_proofs`: `Spec => []IInv`, and from it that only approved assets
  go out and that recorded publications are out. The strengthening is that a
  handler past the gate holds a cleared asset, and that one about to record
  "published" on a social network holds a posted one. It needs that a decision
  never changes, which is the gate's promise.
* `LeadLifecycle_proofs`: `Spec => []IInv`, and from it that the baseline
  qualifies nothing. The strengthening says of a score about to be saved that it
  was earned when it was read; since `vetted` only grows, a stale one still is.
* `LeadScoring_proofs`: `ScoringSpec => Spec`, every step by numbers being one
  of `LeadLifecycle`'s, so that the result above is the code's. That
  `LeadLifecycle` keeps the baseline out of the first bucket (`BaselineIsLow`) is
  a result here: with the default weights, which every caller uses,
  its score is 0.41 to 0.78 (`BaselineFinal`), whatever is known of the company.
  Then `ScoringSpec => []ScoringInv`, which says what a score about to be saved
  follows from, and from it that zeros qualify nothing (a report of zeros comes
  to 0.63 at most, and 0.65 is needed), that the thresholds are monotone and
  that more facts never score lower - for every set of reports.
* `EntityResolution_proofs`: `Spec => []TypeOK` for whatever overlaps, and, if
  resolutions do not overlap, `Spec /\ []OneAtATime => []IInv`, and from it that
  domains are unique, that what was resolved is recognised, and that no fact is
  lost. `OneAtATime` is about states: at most one handler is between its look-up
  and its save. There may be any number of handlers, as there are processes that
  open the file; nothing in the code keeps them apart, and `resolution_overlap`
  shows what then breaks. `IInv` adds that a handler past the
  first rule knows its domain to be nobody's (`HandlersReady`), which is what
  makes a new domain unique when it is saved, and that each resolved observation
  is covered by one company (`KnownCovered`): merging only adds, so that it stays.
* `Discovery_proofs`: `DiscoverySpec => Spec`, by cases over what scanner and
  intake service do, so that the three results carry over, failures and crashes
  included; and, for any number of redirects, that no address is asked for that
  was not checked and that requests are bounded (`FetchInv` is inductive: a
  handler about to request has requested once per redirect).
* `DiscoveryStages_proofs`: `DiscoverySpec => []Bookkeeping`, without any
  hypothesis on overlaps. `Bookkeeping` says, stage by stage, what a handler may
  rely on although others write the same tables: which of a message's records
  are there (`HandlerAgrees`), and that an entity of its scan without evidence or
  lead is the one at hand, or accounted for by an error (`NothingMissed`). From it
  that scans tell their errors and that requests can be answered.
* `DiscoveryFiling_proofs`: `DiscoverySpec /\ []OneAtATime => []DiscoveryInv`,
  which adds the resolver's `IInv` and `CompaniesKnown`: a handler that is filing
  evidence, a lead or an answer holds a company that covers whom it is about. The
  step that matters is `SaveCompany`, somebody else's included: what a company
  covered before, it covers after (`CoversKept`). From it that evidence stands,
  that replies reach those who wrote, and that evidence of pages of one
  domain stays where it is (`PageEvidenceStays`), because two companies that
  cover observations of one domain are one company.
  `DiscoverySpec /\ []OneCreatesAtATime => []OneLeadByMessage`: messages add at
  most one lead to a company, as long as no two handlers have found none and are
  about to save one of the same company (`CreatesTheFirst` is the strengthening;
  resolutions may overlap here, and the scanner may save its own lead at any
  time after it found none). `DiscoverySpec => Mail!Spec`: the refinement of
  `Correspondence`, whatever overlaps; that a lead is there when a message is
  logged on it is `Bookkeeping`'s.

The hypotheses `OneAtATime`, `DecidedApart` and `OneCreatesAtATime` are what the
code leaves to its callers: one agent or one bot at work satisfies them, two
processes need not. `discovery_alone` has behaviours of theirs throughout, having
one handler; the runs that fail show the first two to be needed.

Only model-checked: the liveness properties (`ApprovedIsContacted`,
`HandlersFinish`), which need fairness and ENABLED, and the counterexamples. Every
invariant and every action property of a passing run is stated by a theorem.

## Not modelled, and the plan

What is left, in this order:

1. A property of one handler at a time on `LeadScoring`: what an operator
   recorded is not undone by scoring without a model. It needs `LeadLifecycle` to
   tell a score read from a model's, since a model's evaluation does undo it.
2. What a dispatch records: a Telegram dispatch is "published" though nothing is
   sent, a forced export of a published asset is "approved" again. Theorems about
   `Publishing` if dispatches do not overlap: what was posted stays recorded.
3. `BlockedFromOutreach` and `EvidenceStays` under the hypotheses that would make
   them hold (no cadence for a rejected lead; no text of two companies), so that
   these failing runs, too, have their cause stated by a theorem.

Not planned: page parsing in the source adapters, the query planner and the
redactor (functions on strings without state), the model subprocess (its outcome
is any report, or none), idea generation and the grounding rubric (texts and
scores of texts), listing commands and tools (they only read), agent runs
(nothing in the program writes them), migrations (every script is idempotent, and
nothing but tests runs them), and the development tooling under `scripts/` and
`.agents/`.
