# Endur: formal models

Endur runs feedback for an organisation: it keeps the organisation's units and
people, lets staff build questionnaires and launch campaigns, takes responses
through public links, shows what they say behind an anonymity threshold, lets
the people assessed reflect on it, sends announcements, lets visitors book
appointments, and sells all of this in monthly plans. The backend is an Express
application over PostgreSQL (through Prisma), the frontend a React application,
and the contract between them is `packages/shared`. One process serves many
requests at once. The database is the only shared memory except for one
in-process cache, and **READ COMMITTED** is the isolation level throughout:
nothing in `db/tx.ts` asks for another.

Almost everything that is hard to get right here has one shape. A handler reads
a row, decides, and writes in a transaction that may begin later; another
request runs in between. The models cut each handler at those points, give the
rows the locks, unique indexes, foreign keys, cascades and triggers the
migrations declare, and let requests interleave.

Paths below are relative to `src/src/backend/` unless they say otherwise.

## 1. Inventory

| Component | State | Operations | What is hard | What makes it right |
|---|---|---|---|---|
| Booking (`features/booking`, `db/graph.ts` locks) | bookables with a public token, slots with a capacity, bookings | publish slots, open/close/delete a bookable, book, cancel | guests race for the last place and against slot changes; rows deleted while waited for; a token read before the transaction that mints one | capacity, no live appointment dropped, a link that was handed out stays |
| Campaigns, templates, responses (`features/campaigns`, `templates`, `public`) | campaign row with dates and access mode, question set, participants, responses | create, update, launch, close, replace questions, submit | access changed under an open form, double submission, questions replaced while a response is written | one response per member, the promise the form was handed out with is kept |
| Results (`features/results`, `home`, `analysis`) | none of its own: responses, and the units subjects are in | a campaign's page, responses and export; comments; the corpus | counted in one query and fetched in another; campaigns merged; slices looked up twice | nothing below the threshold contributes to what is shown |
| Improve loop (`features/improve`) | reflections, plans, check-ins | reflect, read the gap, plan, finalise, check in, patch | found open and written after somebody finalised it; relinked or archived subjects | one assesses oneself before seeing the results; what is final stays |
| Authorisation rules (`authz/`) | none: pure over collected grants | resolve, visible units, the screen's hint, escalation checks | three readings of one rule must agree | a list shows what single reads allow |
| Roles and people (`features/roles`, `people`) | persons, roles, shared positions, assignments, the powers grid | assign, import, remove, delete a person; create and delete a role; save the grid | find-or-create races, guards on grants another request is changing, cascades | nobody hands out more than they hold, nobody loses a post they were to be moved from, somebody can always edit powers |
| Accounts and sessions (`features/accounts`, `auth`) | users, invitations, sessions | provision, re-issue, activate, revoke, log in and out | one link on two devices, a login that outlives a revoke | one working link, used once; revoked means out |
| Grant cache (`authz/cache.ts`, `features/org`) | in-process map keyed by a permission version kept in `organizations.settings` | read through, bump and clear, expire | a writer commits between a reader's look-up and its store | no decision rests on permissions that were already withdrawn |
| Units (`features/units`, `db/graph.ts`) | nodes and containment edges | create, move, delete with reassignment | structural checks made outside the transaction or capped in depth | the edges stay a forest over existing units |
| Announcements (`features/announcements`, `campaigns/audience.ts`) | the row, one receipt per recipient | edit, publish, delete, mark read | the audience is resolved outside the transaction that freezes it | what was sent, and to whom, is fixed once |
| Idempotency (`middleware/idempotency.ts`) | one row per key and route | look up, handle, store, sweep | retries, overlaps, a restart between the work and the record of it, expiry | a replay is the answer of the same request; work is not repeated |
| Form builder (`frontend/pages/console/Builder`) | two dirty marks, a debounce timer, requests under way | type, autosave, retry, leave | saves that fail, overlap and arrive out of order | nothing typed is forgotten, "Saved" means saved |
| Billing (`features/billing`, `billing/`, `features/platform`) | subscription row, payments ledger, Enterprise requests | read and expire, join, schedule, cancel, override, approve | no scheduler: an ended period is applied by whoever reads next | one payment for one plan, a paid plan lasts its period |
| Operator console (`features/platform`, `platform/`, `db/support.ts`) | operators, support sessions, audit | suspend, override, approve, enter and leave support, re-role an operator | a support session that expires while used, cached grants that outlive it, entries that fail half-way | no access after it ends, staff read no feedback, Leave is final, an owner remains |
| Public pages (`frontend/pages/respond`, `frontend/lib/respond.ts`, `lib/booking.ts`, `features/public`) | what is written, the key of the fill or of the press, a marker in the browser | fill and send, book, cancel, reload | answers lost after the work was done, requests that arrive twice or late, answers corrected between two tries | thanks and "You're booked" are true, one fill makes one response, one press takes one place |
| Organisation settings, setup (`features/org`, `presets`) | settings, labels | save settings, commit the setup wizard | merges into a copy read earlier | the permission version moves with every change |
| Home, inbox, profile, files, docs | reads, single-row writes | | | |
| Request pipeline, audit trail (`middleware/`, `db/tx.ts`) | request context | one request at a time | audit rows flushed with the transaction they describe | an action and its record commit together |

They interact through the database (every row above), through the permission
version (roles, people, units and organisation settings all bump it, the grant
cache reads it), through foreign keys with cascades (deleting a unit, a role, a
person, a bookable, a template) and, in the browser, through requests only.
There are no queues, no scheduler and no background jobs: what must happen
"later" happens on the next read.

`PROJECT.json` lists every component with its status, and the hazards at the
line where they bite.

## 2. Modules

| Module | Models | Extended or instantiated by |
|---|---|---|
| `Booking` | slots, bookings and the public link | `BookingProofs`, `MCBooking` |
| `BookingLedger` | what booking promises: places are taken while there is room, given back, and published slots change only when empty | refined by `Booking` |
| `Campaigns` | a campaign, its question set and its respondents | `PublishingProofs`, `MCCampaigns` |
| `CampaignSurvey` | what a campaign promises: one vote per member, under the access the form was handed out with | refined by `Campaigns` |
| `Results` | what may be read of the responses, and the threshold | extended by `Improve` |
| `Improve` | the improve loop, whose gap goes through `Results` | `ImproveProofs`, `MCImprove` |
| `Authz` | the permission rules, as functions of a set of grants | extended by `Roster` |
| `Roster` | persons, roles, positions, assignments and the powers grid | `RosterProofs`, `MCRoster` |
| `Accounts` | invitations, passwords, sessions | `AccountsProofs`, `MCAccounts` |
| `Announcements` | one announcement and its receipts | `PublishingProofs`, `MCAnnouncements` |
| `Idempotency` | the middleware around any handler | extended by `Visitors` |
| `GrantCache` | writers of permissions, readers and the cache between them | `UnitsProofs`, `MCGrantCache` |
| `Units` | structural changes of the tree of units | `UnitsProofs`, `MCUnits` |
| `Builder` | the autosave of the form builder, browser and server | `PagesProofs`, `MCBuilder` |
| `Billing` | the subscription row and the requests that move it | `OperatorProofs`, `MCBilling` |
| `Support` | an operator's sessions inside a customer's organisation, with the grants minted for them | `OperatorProofs`, `MCSupport` |
| `Visitors` | the two public pages, the network and the chain of the public routes | `PagesProofs`, `MCVisitors` |

Each `MC` module holds only what TLC needs (symmetry sets, constant functions,
one state constraint); `MC<Module>_<run>.cfg` gives the constants their values.

A proof module may extend two components that are *not* composed: `PublishingProofs`
is about `Campaigns` and about `Announcements`, `PagesProofs` about `Visitors` and
about `Builder`, `OperatorProofs` about `Support` and about `Billing`, `UnitsProofs`
about `Units` and about `GrantCache`. Each theorem speaks of one specification. That
is why the second of each pair has names of its own: `NoticeSpec`, `BuilderSpec`,
`PlanSpec` and `CacheSpec` where the others say `Spec`, and likewise for `Init`,
`Next` and `TypeOK`.

### Correspondence with the code

In every module a *process* is one request (a guest, an editor, a launcher, a
slot `p` of `Procs`), `pc[p]` (`step[p]`, `stage[p]`) is the statement it is about to
run, and a variable indexed by `p` holds what the handler read. Statements of one
transaction that no other request can tell apart are one action; a statement
that takes a lock, or that reads what another may change, is an action of its
own. `Rollback` (`BreakOff` of an announcement) is what the transaction timeout, a
failed statement or a dropped connection does: all writes of the transaction vanish and its locks are freed.
Variables marked *history* record what the properties need and the code does
not store; no guard of the code's reads them.

* **Booking.** `book()` is `ResolveBookable` (the token, before the transaction) and,
  inside it, `BookFindSlot` (a plain read of the slot), `BookLockSlot`
  (`SELECT ... FOR UPDATE`, which returns no row for a slot that
  was deleted while it waited), `BookCountAndInsert` and `BookCommit`. `putSlots`
  is `PutSlotsFind`, one `PutSlotsLockNext` per slot in id order,
  `PutSlotsCount`, one `DeleteNext` per slot the `DELETE` finds,
  `PutSlotsInsert`, `PutSlotsCommit`. `lock` is the row lock of each slot;
  `CascadeHolds` is the lock a deletion takes on the bookings it cascades to.
* **Campaigns.** The row's dates and access mode are separate from what is
  derived of them (`status.ts`). `submitResponse` is `SubmitResolve`,
  `SubmitJoin` (which waits for a participant row another transaction is
  inserting under the unique key), `SubmitAnswer`, `SubmitCount`,
  `SubmitCommit`. The access trigger of the `campaign_access` migration is a
  guard of the update's commit. Quick create commits a campaign and its form in
  one transaction and is an initial state. `anonymous` is guarded by the same
  trigger as the access mode and is left out; other campaigns of the same
  template are not modelled; the questions of one save are told apart only by
  the save that wrote them. A template with a campaign cannot be deleted (foreign key).
* **Results.** A read goes `asked`, `readable` (some campaign passed by
  itself), `counted`, `shown`. The three shapes are the code's three ways of
  putting the threshold in front: `page` (`readResults`, `readResponses`,
  `exportResults`: one campaign, counted as it will be shown), `comments`
  (`readComments` and the home page: whichever campaigns pass by themselves),
  `corpus` (`readCorpus`: by campaign, then once more as the slice that was
  asked for). A subject named in the request is settled when it is asked; a unit
  is looked up again by every query, which is why `moved` is remembered.
* **Improve.** Each write is `...Find`, what the handler checks, and `...Write`,
  the one statement and what the unique indexes and the immutability triggers
  make of it. `myCycle` is the lookup of the caller's own subject. The gap is a
  `page` of one subject, read by `GapFind` and the steps of `Results`; `seen`
  remembers who was shown it.
* **Authz, Roster.** `resolve`, `scopeCovers`, `visibleUnits` and the others are
  operators on a set of candidate grants. `Editors` are the roles whose rows, asked
  as the route of the grid asks them, let their holders edit it. In `Roster` a request is a `...Check`
  (middleware and guards, on what is committed), the statement that finds or
  moves rows (`FindPositions`, `RoleMove`, `SaveClear`), and a commit;
  `arg[p].stale` is history: something was committed since the check. The
  several answers `collectGrants` may give when a role is held at two units are
  a set, of which a request uses any one.
* **Accounts.** `provisionAccount` is `ProvisionCheck`, `ProvisionClear`,
  `ProvisionCommit`; `revokeAccount` is `RevokeCheck`, `RevokeDisable`,
  `RevokeSweep`, `RevokeCommit`; `activateAccount` is the conditional update
  `ActivateClaim`, then `ActivateCommit`. A login or an activation is `proved`
  before the session library saves the session (`SignIn`), and a session
  `late` was saved after a commit its proof had not seen.
* **Announcements.** `publishAnnouncement` is `PublishFind`, `PublishResolve`
  (the audience, outside the transaction) and `PublishCommit` (stamp and
  receipts). People come and go in between (`AccountChanges`, `PersonGoes`,
  `PostChanges`); an account keeps its disabling date when its person is deleted.
  `sent` is history, and `overtaken` says that two requests that found a draft
  crossed.
* **Idempotency.** A copy is a request as it arrives. `Receive` lets it through
  to the middleware or answers for what is mounted before it; `LookUp` is the
  `findFirst` and `replay()`, with the refusal of a key reused for another body;
  the handler commits (`Handle`) or refuses (`Refuse`, which stores nothing);
  `Store` is the wrapped `res.json`, whose insert may fail. `Sweep`, `Tick` and
  `Restart` run between any two of them. A *place* is what the unique index
  covers: organisation and key (and the route, which is the module's).
  `excused` is history: the places whose work the middleware cannot keep from
  being repeated, because two copies were at work together, the answer was never
  stored, or its row grew too old to be found.
* **GrantCache.** `BumpRead` / `BumpCommit` are `bumpVersion` and the
  transaction it is in, for every writer that calls it; `ResolveTenant` reads
  the version, then a look-up, a database read and a store follow, then `Answer`.
* **Units.** `work[p]` is what a transaction has written and not committed.
  `arg[p].stale` says that a `DELETE` which waited behind another transaction's
  commit still runs on its old snapshot, which is what READ COMMITTED does: it
  rechecks the rows it found and never sees the ones that were inserted.
  `arg[p].overtaken` is history: another request committed since `p` checked.
* **Builder.** `latest` is what the reader sees, `reached` what the server has,
  `saves[i]` a save under way with what it carries. A save is two requests
  (title, then questions); each may fail before or after it arrives.
* **Billing.** Reading the row and applying its expiry are two steps, since the
  code does them in two calls with an unconditional update. `spent` sums the
  customer's own payments since the plan last moved without one. Seats, the
  ledger's kinds and the amount of an operator's sale are left out, and so is
  the repair of a missing row: registration writes the row with the
  organisation, and nothing deletes it.
* **Support.** `enterSupport` is `EnterCheck`, `Regenerate`, `CloseEarlier`,
  `CreateRow`, then `AnswerEntry` or `FailEntry`; `leaveSupport` is `LeaveEnd`
  and `LeaveDestroy`. A request is `Admit` (the row read by `authenticate`),
  `CheckCached` or `CheckMissed`, `Collect`, `Answer`. Rows are never deleted and
  `Open` is what the code's queries ask of them. `updateOperator` is
  `ManageCheck`, which counts the owners, and `ManageCommit`. The permission
  version does not move in this module: nothing it models bumps it.
* **Visitors.** The page's handlers are the first half (`Press`, `Fail`,
  `Hear`, `Reload`, `Cancel`), the chain of `public/router.ts` the second
  (`Arrive`, then the middleware's steps around `Submit`, `Book` or `TurnDown`).
  One call may arrive as several copies, at any later time. A fetch that fails
  is only that: whether its request arrived is another action's business.
  A call's session is the one it left with, or nobody's when that has ended since.
  What `submitResponse` and `book` do in the database is one step here, because
  `Campaigns` and `Booking` have their statements.

## 3. Runs

Deadlock is checked except where a system really stops: every request used up,
every unit deleted, every day past. Type invariants are not listed in the runs
below: each module's is proved in section 4.

| Run | Instance | Shows |
|---|---|---|
| `booking_guests` | 2 guests, 1 slot editor, 1 opener, 1 deletion, 2 slots of 1 place | no overbooking, no live booking without its slot, no appointment dropped, `BookingLedger` is refined, every request ends |
| `campaigns_life` | one request of each staff operation, a member submitting twice and a stranger | one response per member, the access promise, answers are to questions that exist, the list filter agrees with the derived status but for a reversed window, `CampaignSurvey` is refined |
| `improve_cycle` | 2 campaigns about 2 people in 2 units, a threshold of 2, 4 responses, 2 requests of every kind of the loop, 1 reader | no read shows less than the threshold, everybody assesses themselves before they see what others said, what is final stays |
| `roster_staff` | 3 people, 3 units, 4 roles, requests of 7 kinds by three kinds of staff, 2 of them at a time | the three readings of a person's grants are one rule, nobody hands out more than they hold, holders are moved, a save whose grid gives the power to edit it org-wide only keeps an editor |
| `accounts_keys` | 3 people, 2 invitations, 2 revocations, 2 activations, a login, a removal, any 4 of them | one working link, used once; revoked means out until invited again; the console's word on an account is what the login does |
| `announcements_notice` | 2 staff and an operator's account, an edit, 2 publications, a deletion, 2 readers, 2 changes of staff | what was sent, and to whom, stays; no receipt is lost |
| `units_races` | 2 overlapping requests, each of any operation, 3 units | one parent each; a loop closes only behind a change that was overtaken; a deletion leaves nothing parentless unless a child arrived meanwhile |
| `grantcache_single` | 1 writer, 2 readers, 3 changes, expiry, restart | decisions are never older than their request |
| `visitors_page` | either a respondent (2 texts, 2 presses, 1 reload, a session of either organisation or none) or a guest at 1 place (2 presses, 1 reload); 2 copies, a window of 1 tick, 2 ticks, 1 restart | what is done is done once where the middleware can see to it; thanks means recorded, "already recorded" means recorded, one fill makes one response, a page that says booked holds a place |
| `support_door` | an owner and a staff operator, 2 entries, a request, a leave, a change of role or status, a restart | nothing is allowed past a session's end, staff read no feedback, Leave is final |
| `builder_prompt` | 1 save at a time, 2 edits | nothing forgotten, "Saved" means saved, the page settles |
| `billing_tabs` | 2 overlapping requests, an operator, 3 days, one-day periods | nobody pays twice for one plan, a join never takes a paid tier away, an undisturbed expiry changes no decision |

**Bounds.** Two processes of a kind are enough for the races here because every
conflict is between two transactions at one row; the third process, where there
is one, is what lets a victim be blocked by one and overtaken by another.

* `booking_guests`: two slots for lock order, one place so that the second guest
  meets a full slot; the count is compared with the capacity, never divided.
* `units_races`: three units are a parent, a child and what is created or moved;
  `MAX_DEPTH` is 4 (32 in the code), deeper than the tree. With four units, one
  creator, two movers and two deleters (3 789 916 states) the same properties hold.
* `billing_tabs`: periods of one day, so that two of them end in three days.
* `improve_cycle`: two responses are the threshold, so four let each subject or
  each campaign reach it alone or only together. `MaxReflected` and `MaxChanges`
  bound what the loop writes before a read and how often subjects change; the
  reader and the supervisor reach everything, which lets them ask for all that a
  narrower reach would;
  `Apart` follows a read other than of a gap only while nobody has reflected and
  no request of the loop is under way: what such a read sees does not depend on
  the loop (`GateHolds` is about reads, whose several queries the changes of
  subjects come between).
* `accounts_keys`, `roster_staff`: `MaxRequests` bounds how many of the declared
  requests run in one behaviour, two at a time being what a race needs.
* `support_door`: a session and a cache entry both last 2 of 3 ticks, so grants
  cached late outlive the session, as `TTL_MS` lets them.
* `visitors_page`: two copies are a request and its retry, or one request twice;
  a window of one tick and two ticks in all let a row age, still block the insert,
  and be swept. One slot and one form are enough, since a key is looked up by
  itself, and one visitor is enough for the form, whose keys nobody shares. With
  two guests (5 604 412 states) everything holds as well.

Held on the same instances, and not listed in the runs: `EdgesHaveUnits` of
`Units`, `RowsAreLive` of `Roster`, `CurrentKeyIsCurrent` of `GrantCache`,
`NoticeOnBronze` and `TrialHasNothingScheduled` of `Billing`, and `OneDoor` of
`Support`, which are proved;
`SenderStaysIn` of `Accounts`, which is not.

The proofs of section 4 have no such bounds.

**Fairness.** Two runs assume any. In `booking_guests` a request inside a
transaction takes its next statement or is rolled back, because Prisma ends an
interactive transaction that runs too long; a guest is not owed a free place. In
`builder_prompt` the browser fires the debounce timer and every request is
answered or fails; nothing is assumed of the user. There the save is answered
before the next debounce ends; section 5 shows why this is assumed. The other
requests have no liveness of their own beyond ending, and on the public pages a
visitor may always walk away.

## 4. Proofs

Every property of every passing run is a theorem, but for the two liveness properties. The
theorems hold for every value of the constants that satisfies the modules' named
assumptions (finitely many guests and respondents; processes of different kinds are
different; capacities and thresholds are positive). Each is the argument
`Init => IInv`, `IInv /\ [Next]_vars => IInv'`, `IInv => Inv`, with one step per
action; an action property is proved of each step from the same `IInv`.

A theorem that needs more than the code guarantees says so in an `ASSUME`. There are
five such hypotheses, each satisfied by an ordinary day of the system, and section 5
shows for four of them what happens without: `OneEditor` (slot changes do not
overlap), `OneWriter` (permission changes do not overlap), `OneSave` (at most one
autosave under way), `FewUnits` (no more units than the walks have levels; they have
32). The fifth, `OneCellEach`, says that a saved grid sets each cell once: the page
sends it so, and the schema of the route does not ask for it. `SavesAlwaysKeepAnEditor`
is besides about saves only that leave `grant.update` allowed org-wide wherever it is
allowed at all; that is said in the property itself, and section 5 shows what
happens otherwise.

* **Booking** (`BookingProofs`): `TypeCorrect`, `CapacityAlwaysRespected`,
  `BookingsHaveSlots`; and, under `OneEditor`, `OneChangeDropsNothing` and the
  refinement `LedgerImplemented`.
  `IInv` is `TypeOK /\ Consistent /\ Rooms`. Capacity alone is not inductive: a
  guest between lock and commit must be known to hold the slot's lock and to have
  found a live slot (`Consistent`), and the count of live bookings must be bounded
  together with the guest who is about to add one (`Rooms`). For the two others
  `Covered` adds that an editor past its count holds every live slot and found them
  all empty, that a deletion's cascade reaches every slot, and that the foreign key
  keeps inserted slots away from the deletion of their bookable. The mapping shows
  live slots as offered and live bookings as held, so `BookCommit` is `Take`, a
  cancellation `Withdraw`, `PutSlotsCommit` `Republish`, `DeleteBookableCommit`
  `Remove`, and every other statement a stutter.
* **Campaigns** (`PublishingProofs`): `TypeCorrect`, `AlwaysOneResponsePerMember`,
  `AlwaysPromiseKept`, `StatusFiltersAlwaysAgree`, `AnswersAlwaysAsked` and the
  refinement `ImplementsTheSurvey`. `OneEach` is what makes a member's vote one:
  the participant rows are exactly those of the members who have responded, whoever
  has written one that is not committed has a member nobody else has, and each
  response of a member is of one request. `Gates` says that the access a request
  resolved is still the campaign's, which holds because the access trigger refuses
  the change once the campaign has a token (`Launched`) and a request resolves only
  a campaign that has one. `Asked` keeps the questions of an answer being written:
  none is gone, and no open transaction has deleted one. `Recorded` ties responses
  to requests that are through. In the mapping `SubmitCommit` is `Cast`; which
  lists have a campaign is arithmetic on its dates and follows from `TypeOK`.
* **Announcements** (`PublishingProofs`): `PublishedStaysFrozen`,
  `ReceiptsAlwaysStand`, `NoticeTypeCorrect`, from `NoticeTypeOK`, `FoundDraft` (a
  request past its check found a draft), `ReceiptsAreSent` (receipts are only of a
  published notice that is there) and `PublishedIsFrozen`.
* **Results** (`ImproveProofs`): `TypeCorrect`, `GateAlwaysHolds`, of the whole
  composition with the loop. `Gated` says for each stage of a read what was counted
  and is still there: responses only grow, a campaign that reached the threshold
  stays over it (`Open`), and rows looked up by a unit may change only when a
  subject moves, which `moved` remembers. Counting more cells, each with as
  many responses or more, never counts fewer (`TotalGrows`), which carries a count
  over everything that may happen between it and the query that shows the rows.
* **Improve** (`ImproveProofs`): `AlwaysAssessedBlind`, `RecordsStayFinal`, from
  `LoopTypeOK`, `Aimed` (what a request under way is about), `Grounded` (what is
  final, or being made final, is there), `Assessed` (a gap is read, and was ever
  shown, of an assessed cycle only) and `AssessedBlind`.
* **Authorisation rules, roster** (`RosterProofs`): `ReadingsAreOneRule` is about
  `Authz` alone: for any set of grants over any tree, `resolve`, `visibleUnits` and
  `held` answer one question. `ReadingsAlwaysAgree` carries it to every reachable
  roster. `RowsStayLive`, `HoldersAlwaysMoved`, `SavesAlwaysKeepAnEditor` (under
  `OneCellEach`) and `RosterTypeCorrect` rest on
  `TypeOK /\ Chosen /\ Moved /\ RowsAreLive`: `Chosen` says what a request under
  way is about, `Moved` that the role its positions were moved to is still there.
  `PowersAlwaysBounded` goes by way of the rules: a row that `findEscalation` lets
  through, placed at the unit, and a cell that `requireNoGrantEscalation` lets
  through, placed anywhere, allow nothing their sender may not do
  (`PlacedRowBounded`, `SavedCellBounded`). On top of the invariant it needs `Sent`,
  that the bound a request was checked under holds until something is committed, and
  `IdsAreOnes`, that a new position has an id nobody holds.
* **Accounts** (`AccountsProofs`): `AccountsTypeCorrect`, `LinksAlwaysSingle`,
  `RevokedAlwaysOut`, `StatusAlwaysTrue`. A link is a row that several transactions
  want: `Held` says that no two have written the same one, `Claimed` that who
  activates has a live link of that very person, `Spent` that a link which set a
  password is accepted and set no other. For a revocation, `Swept` says that one
  nothing overtook has found every live link of its person, and `Out` that who is
  out has no password, no link, no session but a late one, and that whoever proved
  a password before knows that it was overtaken. `StatusTellsTheTruth` needs
  `Usable`: nobody here has a password on a disabled account.
* **Idempotency, visitors** (`PagesProofs`): `TypeCorrect`, `AlwaysWorkedOnce`,
  `AlwaysThanksMeansRecorded`, `AlwaysRecordedMeansRecorded`,
  `AlwaysOneResponsePerFill`, `AlwaysBookedMeansHeld`, for any visitors, texts,
  presses, copies, restarts and any window. The middleware has lemmas of its own:
  `Worked` says that what is at work in a place that is not excused is alone there
  and finds no row, and that work done is stored, about to be, or excused; `Answers`
  that an answer is of the place and the body it was asked with. To say what that
  means to a page, `FromCall` and `KeysTell` tie each copy to the call it is of and
  each key to its fill or its press, `JoinedRecorded` a participant row to a
  response, and `Held` a booking to the page that holds it: one is given up only by
  that page, and is then of an earlier press than the one under way.
* **Form builder** (`PagesProofs`): `BuilderTypeCorrect` and `NothingEverForgotten`
  for any number of overlapping saves and edits, from `Bounded` (nothing is saved
  that was not typed) and `Delivered` (a save that reports success has arrived).
  `SavedIsSavedInOrder` assumes `OneSave`.
* **Support** (`OperatorProofs`): `SupportTypeCorrect`, `AlwaysAllowedInTime`,
  `StaffAlwaysReadNoFeedback`, `LeftAlwaysMeansOver`, `AlwaysOneDoor`. What is cached
  for a door, and what a request was allowed by it, was minted from a row of that very door
  (`Cached`, `Conferring`), whose operator was an owner if it shows feedback; a
  row's end only comes nearer, so what its grants allowed until their end was in
  time. `Left` and `Carried` say that whoever leaves holds the cookie of an entry
  that is over, so no row can still come of it; `Ordered` that of any rows one is the
  newest, which is the one grants are minted from. `OneOpen` adds to `OneDoor` that
  nothing is open at a door while an entry that was not crossed is between closing
  the earlier rows and creating its own.
* **Billing** (`OperatorProofs`): `NobodyOvercharged`, `JoinsClimb`, `RowsCatchUp`,
  `NoticesAreOnBronze`, `TrialsHaveNothingScheduled`, `BillingTypeCorrect`, for any
  number of requests, days and any length of a period. A join adds its price to what
  was paid before, so the bound alone is not inductive: `Unpaid` says when the
  account is empty, `Asked` that a request is at a step it was asked for, and
  `Remembered` what outlives the row a request read (a trial does not come back;
  bronze is never paid for after a trial or a lapse). `WhoseStep` (`WhoseCommit` in
  `RosterProofs`) names the action behind a step, for the action properties.
* **Units** (`UnitsProofs`): `UnitsTypeCorrect`, `AlwaysOneParent`,
  `EdgesAlwaysHaveUnits`, `NeverOrphansAlone`, `LoopsAlwaysNeedARace`,
  `FewUnitsLoopOnlyInARace`, for any number of units and of overlapping
  transactions. To `OneParent` and `EdgesHaveUnits` the invariant adds that what a
  transaction has written and not committed is sound against what is committed and
  against the others' work (`Sound`), and that a transaction is at a statement it
  was staged for (`Staged`). That a deletion leaves nothing parentless needs
  `Shaped`, the form of what each kind of request has written, as long as nobody
  overtook it: every child of the deleted unit has an edge to the new parent in it.
  For the loops `Checked` keeps what the cycle check found: some set of units holds
  the unit and everything below it and not its new parent (`Apart`). Adding the edge
  to a forest that is so divided leaves a forest.
  The check itself is a walk of at most `MAX_DEPTH` levels, so what it found is that
  set only if the walk reached the bottom. `LoopsAlwaysNeedARace` assumes just that
  of every state (`[]WalksReach`); `FewUnitsLoopOnlyInARace` proves it from
  `FewUnits`, because each level but the last adds a unit. With neither, the check
  stops short and one move alone closes a loop (section 5).
* **Grant cache** (`UnitsProofs`): `FreshWithOneWriter`, `CurrentWithOneWriter`,
  under `OneWriter`. The invariant `CacheTypeOK /\ Counted /\ Filed /\ Served` says
  that the version counts the changes, that what is filed under a version is what
  the database said at that version or later, and that what a reader holds is too.

**Only model-checked.** `EveryRequestEnds` of `Booking` and `Settles` of `Builder`:
liveness under fairness rests on `ENABLED`, which is outside the prover's reach.
`SenderStaysIn` of `Accounts`, which no run lists, has no proof.

**Recursion.** The provers cannot instantiate an induction theorem that takes an
operator as its parameter. Where a recursive function has to be unfolded, the walk
`Down` of `Units`, `UnitsProofs` goes through `WFMin` instead, whose parameters are
sets: `SetInduction` says that a set which holds 0 and is closed under the successor
holds every number, and `LevelsExist` and `DownIs` that the levels of the walk exist
and are what the definition says.

## 5. Where the code and what is said of it differ

Each row is an instance of a run with the constants that differ and the property
to check in place of the run's own; TLC finds a counterexample in seconds to a
few minutes. "Only" means that every other set of requests is `{}`. `Spec` and
`BuilderSpec` name the specification where it is not the run's.

| Run, changed | Property | What happens |
|---|---|---|
| `booking_guests`, `Spec`, `Bookers={b1}`, `Editors={e1,e2}`, `Deleters={}` | `NoAppointmentDropped` | the `DELETE` of a slot change removes by condition, so it also removes slots that another one inserted after the locks were taken and the bookings counted (`booking/service.ts:190`) |
| `booking_guests`, `Spec`, only `Editors={e1,e2}`, `Slots={1,2,3}` | `NoWaitCycle` | the same `DELETE` locks in another order than `lockSlotsOf` (`booking/service.ts:190`, `db/graph.ts:103`) |
| `booking_guests`, `Spec`, only `Openers={o1,o2}`, `Slots={1}` | `LinkIsFinal` | two openers both mint a token and the first link dies (`booking/service.ts:228`) |
| `campaigns_life`, only `Launchers={l1,l2}`, `MemberOf<-Nobody` | `LinkIsFinal` | the same for two launches (`campaigns/service.ts:306`) |
| `campaigns_life`, only `Launchers={l1}`, `Updaters={u1}`, `MemberOf<-Nobody` | `DraftOnlyEdits` | an update found a draft and commits after the launch (`campaigns/service.ts:151`) |
| `campaigns_life`, only `Launchers={l1}`, `Savers={s1}`, `MemberOf<-Nobody` | `FormFrozen` | the same for the questions (`templates/service.ts:195`) |
| the same | `LaunchedHasQuestions` | a form emptied after the campaign was made over it (`campaigns/service.ts:304`) |
| `campaigns_life`, only `Savers={s1,s2}`, `MemberOf<-Nobody` | `FormIsOneSave` | two saves interleave and the form is parts of both (`templates/service.ts:207`) |
| `campaigns_life`, only `Launchers={l1}`, `Respondents={r1,r2}`, `MemberOf<-MemberAndStranger` | `CountAgrees` | two respondents are told the same count (`public/service.ts:107`) |
| `grantcache_single`, `Writers={w1,w2}`, `Readers={r1}`, `MaxChanges=2`, no symmetry | `DecisionsAreFresh` | two permission changes write the same next version (`org/service.ts:213`) |
| `units_races`, only `Movers={p2,p3}`, `Initial={root,u1,u2}` | `Forest` | two moves close a loop, each checked outside its transaction against the tree without the other (`units/service.ts:241`) |
| `units_races`, only `Movers={p2}`, `Nodes=Initial={root,u1,u2,u3}`, `MAX_DEPTH=2` | `Forest` | the cycle check stops at its cap and allows the move (`db/graph.ts:88`) |
| `units_races`, only `Creators={p1}`, `Deleters={p2}`, `Nodes={root,u1,u2,u3}`, `Initial={root,u1,u2}` | `NeverOrphaned` | a child created while its parent is deleted (`units/service.ts:301`, against the remark at line 309) |
| `roster_staff`, only `Importers={p2}`, `MaxRequests=1`, `Terms={}` | `PowersAtEveryPost` | anchors are a `Map` keyed by the role, so of two posts with one role only one has its powers (`authz/collect.ts:81`, which says above that grants "anchor at the position's unit") |
| `roster_staff`, only `Assigners={p1}` and `Importers={p2}` (or `RoleDeleters={p3}`), `Terms={}` | `PositionsAreShared` | two first assignments each create the position (`people/service.ts:225`); or a deletion moves one role's positions beside another's (`roles/service.ts:178`) |
| `roster_staff`, only `Savers={p4}`, `Bodies<-Handover`, `MaxRequests=1`, `Terms={}` | `SomebodyCanEditPowers` | the lockout guard counts an allow of any scope, and the route asks for the organisation, which only scope `all` reaches: a save that clears the administrators' `grant.update` and allows it to another role for its own unit is accepted, and nobody can edit the grid again (`roles/service.ts:298`, `roles/router.ts:143`, `authz/scope.ts:34`, against `roles/service.ts:274`) |
| `roster_staff`, only `Savers={p3,p4}`, `Bodies<-Swaps`, `Terms={}` | `SomebodyCanEditPowers` | two saves overlap, each of which leaves an editor by itself (`roles/service.ts:235`) |
| `accounts_keys`, no symmetry | `SomebodyCanSignIn` | two administrators revoke each other (`accounts/service.ts:103`) |
| the same | `RevokedHasNoSession` | a session saved after a revocation swept them; it is refused, not gone (`auth/router.ts:106`) |
| `announcements_notice`, no symmetry | `PublishedStands` | an edit, a second publication or a deletion that found a draft commits after the publication (`announcements/service.ts:213`) |
| the same | `OnlyPeopleHere` | receipts for an operator's support account, or for people disabled between the audience and its freezing (`campaigns/audience.ts:28`) |
| `improve_cycle`, no constraint | `SliceHolds` | a subject moves between the count of a slice and the query that shows it (`results/service.ts:643`) |
| the same | `GapIsOnesOwn` | once a subject is relinked, the gap shown as its person's rests on the assessment of somebody else (`improve/service.ts:210`) |
| `billing_tabs` | `RowCatchesUp` | two requests find a period ended; one applies it and joins a plan, the other then writes the expiry over it (`billing/service.ts:117`) |
| `billing_tabs` | `NotSoldTwice` | two approvals of one request sell Enterprise twice (`platform/service.ts:1193`) |
| `builder_prompt`, `BuilderSpec`, `InFlight={s1,s2}` | `SavedMeansSaved` | a save overtaken by the next says Saved (`useBuilder.ts:148`) |
| `builder_prompt`, `InFlight={s1,s2}` | `Settles` | two failing saves share the one silent retry (`useBuilder.ts:157`) |
| `builder_prompt`, `BuilderSpec`, `MaxEdits=1` | `TypedIsKept` | leaving the page drops the pending edit (`useBuilder.ts:89`) |
| `visitors_page` | `WorkHappensOnce` | overlapping copies of a request, a restart before the row is stored, or an aged row let the work happen twice (`idempotency.ts:33`, against the header comment) |
| `visitors_page` | `OneResponseWhateverHappens` | the same for a form; and a staff session that ends between two tries moves the key to another organisation's space (`tenantResolver.ts:99`, against `lib/respond.ts:147`) |
| `visitors_page`, `Fillers={}`, `Capacity=2` | `OnePlacePerPerson` | each press carries a key of its own, so the press after "try again" takes a second place (`Book.tsx:46`, against `public/router.ts:86`) |
| `support_door`, `Requests=Leavers={}` | `AlwaysTold` | staff are told nobody is inside, because the newest session belongs to an operator who was disabled, while another is inside (`db/support.ts:142`, against `packages/shared/src/support.ts:137`) |
| `support_door`, `Operators=Owners={owner,staff,second}`, `Browsers={home}`, `Entries={e1}`, `Leavers={}`, no symmetry | `ReroleBites` | a former owner still reads feedback from cached grants, whose version re-roling does not move (`authz/resolve.ts:41`, against `db/support.ts:186`) |
| `support_door`, `Operators=Owners={owner,staff,second}`, `Browsers={home,desk,third}`, `Managers={m1,m2,m3}`, `Entries=Requests=Leavers={}`, no symmetry | `SomeOwnerRemains` | three owners demote each other in a ring, each having counted the others (`platform/service.ts:990`) |

Read in the code beside these, and not stated as a property:

* **Idempotency.** A row past its window and not yet swept is not replayed but
  still blocks the insert, so the answer of the second working is not stored and
  a third try works again (`idempotency.ts:58`). `quickKey`
  (`campaigns.ts:219`) and the launch and clone keys are minted per press, as
  `bookKey` is; `importKey` (`ImportWizard.tsx:294`) is a hash of the file, so
  importing one file twice in a day does nothing the second time.
* **Public pages.** A retry after the campaign closed is told it takes no more
  answers, though the first try was recorded. A conflict does not set the
  responded marker. A guest whose answer was lost has no cancel token and may be
  told the slot "just filled" by their own booking; a bookable that was closed
  hides the cancel button after a reload.
* **Roles and people.** `deleteRole` accepts the role itself as the one to move
  to, and then deletes the positions. Clearing a deny cell is not bounded by what
  the saver holds; a saver who holds every unit but not the organisation may grant
  scope `all`. Visibility takes an allow on everything with a deny on oneself as
  seeing oneself, `resolve` does not. An ended assignment blocks the same
  assignment again; an import marks a second one primary. The address of a deleted
  person cannot be used again, and the person keeps a password, invitations and
  sessions with no `disabledAt`.
* **Announcements, campaigns, results.** Two publications leave the union of their
  receipts; the audience "anyone" includes operators and people
  removed without having been revoked; two
  subjects linked to one account in one campaign are two cycles of one person;
  `patchCheckin` asks for no owner; comments filtered by subject are gated by
  campaign; the queries of a summary are not of one snapshot. A launched campaign
  whose opening date is after its closing date is listed as closed as well as
  scheduled between the two (`status.ts:39`); that is the one case in which
  `StatusFiltersAgree` says that the lists and the derived status differ.
* **Billing, units.** An approval prices from the stored tier, so a trial or an
  ended period nobody has read is credited as if it had been paid
  (`platform/service.ts:1191`). A reassigning deletion whose target another move
  puts below the deleted unit makes the target its own parent
  (`units/service.ts:285`).
* **Support.** A session that another login or entry in the same browser replaces
  leaves its row open, so the customer is told somebody is inside. An entry that
  fails after its row was written still hands the browser a working session, which
  the operators' audit does not show. Entering again near the end may be refused
  while older grants are cached. An owner who is already disabled cannot be
  demoted when they would be counted as the last.

## 6. Plan and limits

Modelled and checked: everything in section 2. What is left, in the order in
which it would add most:

1. the setup wizard (`org/service.ts:71`), whose commit may arrive twice, and the
   labels merged into a copy read earlier (`org/service.ts:45`);
2. several rows in one import, one after another in one transaction;
3. proofs of `SenderStaysIn`, and of `Forest` itself where structural changes do not
   overlap, which `FewUnitsLoopOnlyInARace` all but says.

**Not modelled**, and why:

* the pages of the console, the estate and the marketing site, which render what
  the server answers and keep nothing between two requests beyond form fields;
* reads that aggregate (averages, distributions, text analysis, the home page's
  counts, exports) past the gate that lets them through: arithmetic over one
  snapshot, which a unit test reaches as well;
* validation schemas, transfer objects, the OpenAPI document and the generated
  client, which say what shape data has and not how it changes;
* the seed, the demonstration data and the presets, which are fixed data;
* writes of one row with no condition on another (renames, labels, the profile,
  files, reordering), which any interleaving leaves as the last of them wrote it;
* rate limits, CSRF tokens, password hashing, one-time codes, logging and the
  error funnel, which look at one request at a time;
* suspension of an organisation, which is one flag read at the start of each
  request, and groups, delegations and grants on a person or a position, which the
  schema allows and no code writes.

These parts are most of the repository by lines. What the modules cover is the
part in which two requests, or a request and a failure, meet.
