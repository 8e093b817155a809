# Formal model of unified-faith-service

TLA+ modules, TLC configurations and TLAPS proofs about the backend in this
repository: a NestJS service over PostgreSQL (Prisma) that keeps devotional
activity, streaks, content and accounts for the users of one mobile app, in two
faiths. The models are written from the code under `src/`; the contract
`docs/contracts/activity-api.md` and the comments are what the code is compared
with.

Everything here runs without the repository's dependencies: `tlc -config
X.cfg M` for a run of the table below, `tlapm M.tla` for a proof module.

## 1. The system

One process image runs as serverless functions: requests share nothing but the
database, any of them may be killed, and two requests of one user overlap freely.
Nothing in the activity engine takes a lock; the one transaction of the engine is
the one in `PUT /goal`, at READ COMMITTED. So the atom of every model is one SQL
statement.

### Components

| Component | State | Operations | What makes it hard | What makes it correct |
|---|---|---|---|---|
| **Event ingest** `activity.service.ts` | `activity_events`, append-only, unique on `(userId, clientEventId)` | `POST /events`: validate a batch against one instant, insert its events one by one | lost answers, retries that overlap the first call, handlers killed half-way, devices with wrong clocks | an act is stored at most once and never altered; none is lost; one bad row stops nothing |
| **Rollups and streak** `rollup.service.ts` | `daily_rollups`, `streak_states`: caches of the events and goals | `rebuildAll`, `rebuildRecent`/`projectToday`, `rebuildRange`, `projectStreak`, `persistDailyRollup`, `computeStreak` | five unserialised queries, then parallel upserts of the rows that differ from those read; a rebuild floor | rows never over-count; an answer agrees with itself; stale rows heal; the floor never excludes a day that can still change; the streak is that of the set of met days |
| **Goals and read API** `activity-read.service.ts` | `user_goals`, effective-dated rows, unique on `(userId, faithId, effectiveFrom)` | `GET /today`, `GET /history`, `PUT /goal` | three statements in a transaction that isolates little; the day of a change depends on the zone of the request | a change is not retroactive; the goal in force is single-valued and does not vanish |
| **Nightly job and operator rebuild** `rollup-cron.service.ts`, `activity-rollup.yml` | none of its own | per pair: resolve zones, persist closed days of a trailing window, drop future rows, project the streak; paging over pairs with a time budget | users who fly, nights dropped by the scheduler, passes killed, reads under way | finalises exactly the days that have ended in their own zone; dormant users' streaks are current; heals by itself |
| **Sessions** `auth.service.ts`, `token.service.ts` | users, `user_roles`, `roles`, `refresh_tokens` | register, login, refresh with rotation, logout of one and of all, reset, deletion | rotation is three statements; a request may die between any two and its answer may be lost | one live token per session; a reset ends all sessions; who is signed in has a role, as long as there is one to have |
| **One-time codes** `otp.service.ts` | `otp_codes` | request, verify | rate check, invalidation and creation are separate; so are the comparison and the count of a wrong guess | at most one active code; guesses and codes are bounded |
| **Roles and access tokens** `roles.service.ts`, `permissions.service.ts`, `roles.guard.ts` | `roles`, `permissions`, `role_permissions`, the claims of a token | administration, the claims of login and refresh, the guard | claims are read in several statements by the *name* of a role and believed until the token expires | a token opens what its owner holds, or held within its life |
| **Account deletion** `account.service.ts` | every child table, `users` | children in parallel, the user last | other requests of the user still insert | nothing of the user stays; a failure can be retried |
| **Profile, preferences, devices** `profile.service.ts`, `preferences.service.ts`, `device-token.service.ts` | one row per user, one per user and phone | lazy creation, merge of a JSON object, registration, removal | read, then write; phones shared by two accounts | what was set stays; pushes go where their owner wants them |
| **Subscriptions** `subscriptions.service.ts` | `subscriptions`, the role `premium_user`; the other half at Razorpay | create, verify, cancel, five webhook events and one that is ignored | webhooks late, duplicated and out of order; several subscriptions of one user; an end that no handler hears of | a payment brings the role, a cancel or given-up charge of the last takes it; nobody careful pays twice |
| **Practices**: prayers, qada, dhikr, japa, puja | `prayer_logs`, `prayer_qada_counts`, counters and histories | log, remove, adjust, count, reset, statistics, streaks | read-modify-write; counter and history are separate rows; statistics of four queries | the statistics are those of what was done; the ways to compute a streak agree |
| **Content scripts** `prisma/seed*.ts` | all content tables | some thirty passes of 22 scripts, each a way to skip, clear and write | killed, failing, overlapping, run again after an edit | all of the content, once; no review undone |
| **Content gates and jobs** `verify-*.ts`, `backfill-hadith-canonical-numbers.ts`, `check-hindu-verse-duplicates.ts` | exit codes; the numbers of hadiths; an index | check a citation, give hadiths the numbers they are cited by, survey before a unique index | content is torn, in two numberings, or seeded while they read | what passed is sound; what only is not seeded yet does not fail |
| **Readers**: Quran, juz, hadiths, collections | caches | page by page, one after another, the item of the day, a collection with its content | cached counts, batches shared by items, rows seeded between pages | everything once, in order, nothing unpublished |
| **Calendars**: Hijri, panchang, sandhyas | caches | convert, month grid, events, festivals, what is due | zones, adjustments, caches that outlive midnight, skipped tithis | all endpoints tell one story |
| **Favourites and bookmarks** | eight tables | add, remove, list | three ways of checking, requests that overlap | one row, the last wish |
| **Feedback** | a counter in a cache, a spreadsheet | submit | get-then-set | at most five an hour |
| **Infrastructure** | connection pool, mail, Razorpay, Sheets | - | - | - |

Interactions: ingest writes only events, and no rollup; `/today`, `/history`,
`PUT /goal` and the job all write the same rollup rows; `/today`, the job and the
rebuild all write the same streak row; the job reads the zone of events that
ingest stored; `PUT /goal` derives its day from the zone it is sent. Account
deletion touches every table but those of the activity engine; it ends sessions.
Logins and refreshes read the roles that subscriptions and administrators write.
Seeds write what the gates, readers and favourites read.

## 2. Modules

```
Calendar ── StreakRules ── DayRollups ── GoalSetting ─┐
    │            └── StreakLedger                     ├─ RetentionEngine ── NightlyJob
    └── IngestRules ──────────────────────────────────┘        │                │
             └── IngestQueue  (implements ActLog)           MCEngine        MCNightly
                      └── IngestQueueProofs                 MCHealing       EngineProofs
GoalSetting, AuthSessions ── MCGoals

Subscriptions, AccountDeletion ── PromiseProofs
Subscriptions, AccountDeletion, IngestQueue ── MCPromises

CitationGate, FeelingsGate, HadithNumbers, VerseIndex,        ┐
HijriCalendar, PanchangDays, Favourites, Readers              ┴ MCLibrary ┐
StreakLedger, PracticeStreaks ── PrayerLogs, Tallies,                     │
OtpCodes, RolesAndTokens, UserRecords,                                    ├ MCRequests
ContentSeeds, RollupPaging, JuzReader, CollectionReader                   ┘
AuthSessions, OtpCodes ── AuthProofs
StreakLedger, PracticeStreaks, CollectionReader, RollupPaging ── RequestProofs
Favourites, Readers, JuzReader, HijriCalendar, PanchangDays, RequestProofs ── LibraryProofs
ContentSeeds, CitationGate, FeelingsGate, HadithNumbers, VerseIndex, RequestProofs ── ContentProofs
MCRequests, RequestProofs, LibraryProofs, ContentProofs ── PartProofs
```

* **Calendar** - instants, local days, zones, months. A day is an integer, an
  instant a number of ticks, a zone its offset. `localDayIn` is the floor
  division it amounts to; month lengths are uniform (`DaysPerMonth`). Daylight
  saving moves an offset and is not modelled.
* **StreakRules** - `computeStreak`: `Payable`/`Charge` are `payFor`, `ScanDay` is
  one turn of its loop, `Scan` the loop, `ComputeStreak` the function. The loop
  is a recursive *function*, not a RECURSIVE operator.
* **DayRollups** - the pure half of `rollup.service.ts`: `CountsOf`,
  `GoalInForce`, `RollupFrom`, `ComputeRange`, `StreakFrom`. A `goalType` names
  one activity type, so a goal is `[activityType, target]`.
* **StreakLedger** - one streak with nothing overlapping: meet today, a late
  upload, midnight. It also holds a second definition of the streak, by the set of
  bridged gaps, and the backward walk of the contract.
* **GoalSetting** - `PUT /goal`. One action per statement: `ReadLatest`
  (findFirst), `UpdateInPlace`, `CloseOpen` (updateMany, which locks the rows it
  closes until the commit), `Create` (insert and commit, or unique violation and
  rollback), `AbortPut`.
* **IngestRules** - `validate`: its codes in the order of its checks; spelling
  checks are a set carried by a raw event.
* **ActLog** - what ingest promises: acts, at most once each by id, never changed.
* **IngestQueue** - `ingest`, and the device queues that call it (external: they
  follow the queue rules of the contract). `Validate` judges a whole batch at one
  instant, `Insert` stores its next event, `Die` and `GiveUp` are the failures.
* **RetentionEngine** - the tables and every request of `RollupService` on one
  pair: a request's queries are answered one at a time in any order
  (`ReadFirst` ... `ReadStreak`, the `Promise.all` of `refresh`), then each changed
  row is upserted (`WriteRollup`, in chunks of `WRITE_CONCURRENCY`) and, at any
  moment among them, the streak (`WriteStreak`). `PUT /goal` is GoalSetting's
  transaction followed by `persistDailyRollup` (`PersistEvents`, `PersistGoal`,
  `PersistWrite`) and the reply. `FailRequest`/`FailGoal` kill one anywhere.
* **NightlyJob** - one pair's `rollUpPair` in the midst of all that, statement by
  statement, and the schedule that may miss nights.

Two faiths, two users: every query of the engine is scoped to the pair (zones to
the user), so one pair is the whole story; zones taken from another faith's events
are covered by giving one pair events in several zones.

### Accounts

* **AuthSessions** - one user's row, roles and refresh tokens (`row`: fresh, live,
  revoked, expired, deleted), and the requests of several devices, one action per
  statement of `auth.service.ts` and `token.service.ts`: `RefreshValidate`,
  `RefreshUser`, `RefreshRevoke`, `RefreshIssue` and so on. A request dies between
  any two (`Die`), its answer is lost when a device does not `Receive` it. The ghosts
  `root` and `vouched` say which login a token descends from and which password that
  login proved. `register` and `login` look up the role named `user` (`RegisterRole`,
  `LoginAssign`) and create the membership in a second statement (`GrantRole`); without
  that row they go on, and the login issues tokens that name no role. `DeleteDefaultRole`
  is `deleteRole`, which cascades to the memberships, `CreateDefaultRole` its return,
  `GainPremium` and `LosePremium` what a subscription does.
* **OtpCodes** - the rows of one address; `CheckRateLimit`, `Invalidate`,
  `CreateCode`, `FindCode`, `UseUp`, `Miss`.
* **RolesAndTokens** - tables of names, grants and membership; `mint` is the login or
  refresh that reads roles, then permissions by the roles' names, then signs; the
  administrator's requests pass `RolesGuard` with the token of the same person.
* **UserRecords** - the records of a user (preferences, profile), read, then written, by
  jobs that overlap and die; and the rows of push tokens, each phone's with its owner.
* **AccountDeletion** - per table: listed by the service or not, and its foreign key
  (`cascade`, `restrict`, none); the batch of deletes in any order, the user last,
  inserts that passed the guard before.
* **Subscriptions** - `remote` and `outbox` are Razorpay (external); `CreateStale`,
  `CancelStale`, `MarkStale`, `CreateRemote`, `CreateRow`, `Verify`, `CancelFind`,
  `CancelRemote`; a webhook is `Deliver`, `SetStatus`, then `AssignPremiumRole` or
  `RevokePremiumRole`, then `Acknowledge`. `Complete` is the natural end after
  `total_count` charges, whose event has no case in the switch (`IgnoreCompleted`).

### Practices

* **PracticeStreaks** - the streak functions of prayers, dhikr, japa and puja as
  recursive functions over a set of days; they are compared with each other and with
  a reference over the sets of days of StreakLedger.
* **PrayerLogs** - the log, requests sent again, removals by id, and `/stats` in its
  reads (`CountTotal`, `CountOnTime`, `ReadStreak`).
* **Tallies** - qada, dhikr and japa: reads and writes of a count and its history.

### Content

* **ContentSeeds** - a script is a *plan* (`skip`, `clear`, `write`, `keyed`,
  `child`), one constant per script of `prisma/`; a run goes through its steps and may
  stop anywhere, and two run at a time.
* **CitationGate**, **FeelingsGate**, **HadithNumbers** (backfill and gate),
  **VerseIndex** (seed, survey, migration) - each script as its phases from the first
  read to the exit code; free text is the shape that the code's expressions see.
* **JuzReader**, **CollectionReader**, **Readers**, **Favourites** - requests in their
  reads while content is seeded. CollectionReader has each query of each family: surahs
  and verses at once, texts, then chapters, then their verses (`LoadQuery`, `Awaits`).
* **HijriCalendar**, **PanchangDays** - the endpoints over an abstract library: a table
  of month lengths, and any sequence of tithis at sunrise. `ToJulianDay` and
  `JulianDayToHijri` are the code's own arithmetic, with its real numbers.
* **RollupPaging** - the night of the workflow over all pairs, one call per page.

### Composition

The parts of **MCRequests**, of **MCPromises** and of **MCGoals** share no state in the code (or only
what each models for itself), so they are checked as alternatives in one run: the
variable `part` chooses one at the beginning, the others rest in an initial state.
The state space is the sum of the parts', not their product, and a property speaks of
its own part. **MCLibrary** holds the small instances of the content. **MCHealing** is
the engine with one variable more, `cause`: what leaves rows stale in that behaviour.

## 3. Runs

| Run | Module, cfg | Question |
|---|---|---|
| `goals` | MCGoals, Goals | two racing `PUT /goal`, three zones, two midnights: not retroactive, never vanishing. The sessions of one account: 1 device, 2 overlapping requests, 3 tokens, 2 passwords, 1 death; each behaviour has one way to end sessions, or the role row and the subscription that come and go: `OneHeirUnlessForked`, `SessionsEndWhenTold`, `SignedInHasRole` |
| `engine` | MCHealing, Engine | what leaves rows stale, one cause per behaviour (below): no over-count, an answer that agrees with itself, healing |
| `engine_goals` | MCEngine, EngineGoals | `PUT /goal` beside `/today` and `/history`, and the operator's rebuild before it, at home and in a zone ahead: answer and stored row agree, the floor is safe, rows below it count |
| `nightly` | MCNightly, NightlyStreak | a user who never opens the app, three months, window 7, up to 6 missed nights: is the stored streak that of all closed days |
| `nightly_zones` | MCNightly, NightlyZones | flights between zones -1 and +1 half-day, two acts of one instant in two zones: are exactly the ended days finalised, with all of their events |
| `nightly_heals` | MCNightly, NightlyHeals | the job beside `/history` with older reads and dying passes: does it heal alone |
| `requests` | MCRequests, Requests | the table below, part by part |
| `promises` | MCPromises, Promises | two subscriptions, one client, late, repeated and reordered webhooks, one death; a deletion of three listed tables with two failures beside two inserts: do a payment, an end and a deletion keep what they promise; two devices, two overlapping calls, three acts (two of one id, one malformed), two faults: at most once, nothing lost, counts add up, queues drain, and IngestQueue implements ActLog |
| `streak_backward_walk` | StreakLedger | violated: section 5 |
| `longest_decreases` | MCEngine | violated: section 5 |
| `nightly_outage` | MCNightly | violated: section 5 |
| `puja_today` | PracticeStreaks | violated: section 5 |

The causes of `engine`. The first two stay on one day, the others see up to two midnights;
requests overlap statement by statement wherever two are named:

| Cause | What happens |
|---|---|
| `devices` | the app on two devices, an upload, one request killed at any statement |
| `rebuild` | the operator's rebuild of all days beside the app, and an upload |
| `goal` | a `PUT /goal` whose transaction commits and whose persist fails, or never begins because the handler dies, beside the app, before or after a midnight; no second `PUT` mends it |
| `uploads` | acts of two days, sent late, the app open on the second, one request killed |

The parts of `requests`:

| Part | Instance | Property |
|---|---|---|
| `streaks` | every set of met days in ten days and three months, in every order of arrival | `ScanMatchesBridges`: the scan agrees with the definition by bridged gaps. `ShownMovesByRule`: meeting the goal adds one, midnight charges nothing. `StreaksAgree`: the streak functions of prayers, dhikr, japa and (on a day that has its log) puja give the same live run, and the same longest one |
| `codes` | 2 calls, 2 attempts, 2 codes a window | `CodesLimited` |
| `roles` | 3 roles of 3 names, 3 permissions, 2 overlapping assignments, a token of 1 tick, 2 edits | `AccountHolds`: `AccessFollowsRoles` |
| `records`, `devices` | 2 overlapping jobs of 3; 2 users with 2 phones, 4 requests | `AccountHolds`: `SettingsKept`, `PushesFollowWishes` |
| `tallies`, `prayers` | 4 taps of 1 or 3 over two days; 3 writes over three days beside one `/stats` | `PracticesAddUp`: `TalliesAddUp`, `PrayersCounted` |
| `seeds` | each script with 2 items, two runs at a time, a repetition, a fault, an edit | `SeedsWhole`, `ReviewKept` |
| `paging` | 3 pairs, pages of 2, a retry, pairs that come and leave | `NightAccounted` |
| `juz` | every mushaf of 3 surahs of up to 2 verses, every division, pages of 1 to 3 | `JuzWhole` |
| `collections` | every collection of up to 2 items of 7 shapes, two duas among them, seeding beside the request | `ItemsResolved` |
| `citations`, `feelings`, `numbers`, `verses` | a good collection with up to 2 slips of any kind; remedies of every shape of source and text; books not seeded, torn, whole, with a stray row; epics with a chapter 0 and a verse without chapter | `GatesSound` |
| `hijri`, `panchang` | 3 requests over 3 zones and 2 conventions, the year 2100 to 2101 day by day; any sky of four lunar months with an intercalary one and up to 2 irregular tithis | `CalendarsAgree` |
| `favourites`, `readers` | each kind of table, 2 overlapping requests of 4; Qurans of 3 surahs, two books of 3 hadiths | `LibraryServes` |

**Bounds.** `LastTick`/`LastDay` stop the clock, `AskedDays` are the days
ranges are asked for, `MaxFailures`/`MaxFaults`/`MaxDeaths` bound crashes,
`MaxMissedNights` the outage; all are guards. Two requests suffice for
every interference there is, since a lost update or a stale write needs one writer
and one overlapped reader. Days are single ticks where zones do not matter and two
ticks where they do, so that half-day offsets put two zones on different dates;
ten days over months of four give gaps inside a month, across one end and across
two. The bounds of the code (90 days, 1 day of slack, 24 h ahead) are scaled to
0-2 days with their order kept (in `engine` the oldest act is two days back, so that the
rebuild floor lies below the first day); the theorem of section 4 covers every value.
In `requests` a page, a window or a cache lifetime is small against what it
pages, covers or caches, so that each of its edges is met. No bound of a part hides
its fault: each named property has mutants of the code that break it under the same
bounds.
In `engine_goals` the constraint `PutsApart` keeps two `PUT /goal` from overlapping where
something is read: two at once are explored to the second tick with no reader and no
failure, later ones one at a time, lowering the goal from 2 to 1, and none follows a
failure; the operator's rebuild comes before any of them. `EngineProofs` proves the same properties without it.
Symmetry is used in `goals` and `engine_goals`, where two requesters are interchangeable
and no liveness is checked. `CHECK_DEADLOCK FALSE` everywhere: the clock stops at its
bound, and a system whose clients are content may rest.

**Fairness.** `engine`: of one device, a request under way takes its next step (a
function runs on unless killed, and kills are bounded) and the app's first screen is
opened again and again (strong fairness on starting `/today`: where a device also asks for
other things, these keep occupying its slot). Nobody else is obliged to anything: not the
other device or the operator to finish, nobody to upload, and nobody to send a
`PUT /goal` again, so none mends what another left. `nightly_heals`: a pass
under way proceeds and the schedule keeps firing; nobody is obliged to open the
app. `promises`: handlers of uploads run on, and a device whose queue is not empty
keeps sending it, the queue rule of the contract; faults are bounded because no protocol drains
through a network that always fails. A handler of a subscription goes on too, Razorpay
delivers an event again until it is answered 200, and a person who wants the account
gone asks again (weak fairness on each); nobody is obliged to pay or to cancel.
`requests`, `goals`, `nightly`, `nightly_zones` and `engine_goals` state safety only and no
fairness.

What the passing runs show beyond their names:

* `MetIffCounted` - the sentence of contract 2.5 ("includes today if and only if
  `goal.met`") holds although the five queries of an answer are not a snapshot,
  because rows just computed are laid over the rows that were read. It is stated
  for a user the first-event query saw an event of; see section 5.
* `SelfHeals`, `NightlyHeals` - stale writes are possible (a request overwrites a
  newer row, a `PUT /goal` dies before its persist, a request between two rows) and are
  all repaired by the next read or night. `SelfHeals` is about the days in the window of
  `/today`. Two of its mutants show what it rests on: the rebuild must write days without
  a row, and rows whose counts are right but whose goal has changed.
* `OldRowsStillCount` - with rows below the floor already right, the bounded
  rebuild and the full one report the same streak.
* `GoalReplyIsStored` - for a request dated no earlier than every goal's start, unless
  another `PUT` commits between its commit and its reading of the goal.
* `ClosureMatchesContract` - for days with events, and for empty days of users
  whose local days follow the order of instants; see section 5.
* `OneHeirUnlessForked`, `SessionsEndWhenTold`, `CodesLimited`, `PracticesAddUp`,
  `AccountHolds` - none of these services takes a lock, and each promise holds only up
  to an overlap that the property names: ghosts record it, and everything else
  (deaths, lost answers, repetitions, any order without that overlap) is covered. So none
  of them shows that the overlap itself does no harm; it does: two refreshes at once fork
  a session, a login or refresh that validated before a reset outlives it, a preference
  merged at once is put back, assignments at once mix. Nothing in the code is against
  these, and section 5 lists them. The same goes for `OneChargeIfCareful` (creates that
  overlap) and `JuzWhole` (an index counted while verses were seeded).
* `SignedInHasRole` - a session of a user without any role began before the last role was
  taken, by a deletion of the account or of the role `user` or by the end of a
  subscription that brought the only one, or with a login that found no role `user`.
* `PaymentBringsRole`, `EndTakesRole` - liveness, again up to a named race: another
  subscription that ended, an activation handled after the end. `EndTakesRole` is about
  ends by a cancel or by a charge given up; the natural end is in section 5.
* `ItemsResolved` - whatever is seeded between two queries of one family: the answer
  gives an item all its verses or says it is unresolved.
* `DeletionSucceeds` - although a subscription may be inserted while the deletion runs
  and stop it, a person who asks again succeeds.
* `SeedsWhole` - the exceptions are the scripts that section 5 names.
* `GatesSound` - the shape of a source is all that is left of its spelling, so what is
  shown is that no path from a shape to exit code 0 skips a check.

## 4. Proofs

`EngineProofs` begins with GoalSetting and proves, for any number of requests, any zones
and goals:

* `GoalInvariance` `GoalSpec => []GoalInv`, where `GoalInv` is the type invariant
  (with what each phase has established), the unique key (`OneGoalPerStart`: a row is
  named by its start), and that a non-empty set of rows has a latest one. The type part
  is needed for the set of rows to be one of integers, and `HasLatest` for `findFirst`
  to have an answer.
* `GoalTypeCorrect` - from it.
* `GoalsNotRetroactive` - a step that changes `goals` is `UpdateInPlace` (of a row
  that starts on or after the request's day) or `Create` (of one that starts on
  it, others keeping their starts); the rows started by an earlier day are the
  same before and after, up to `effectiveTo`, which `GoalInForce` does not read.
* `GoalsNeverVanish` - no step removes a start.

It goes on to the engine, for any number of requests, any acts, goals, zones, clock,
chunk size and window:

* `WindowHoldsIngest`, `EngineSpec => []FloorBelowIngest`. Its invariant `FloorInv` says
  that the floor of a `/today` under way is at most its instant's UTC date plus one plus
  the override minus the window, and that the clock never runs back; the arithmetic of
  `RebuildWindowDays` does the rest. This is the derivation in the comment of
  `TODAY_REBUILD_WINDOW_DAYS`, checked.
* `EngineInvariance`, `EngineSpec => []EngineInv`. That no stored row over-counts is not
  inductive, since a row is written long after its events were read: `EngineInv` says of
  the tables (`StoreInv`), of what every request has seen and computed (`RequestsInv`)
  and of every `PUT /goal` (`PutsInv`) that a row is *founded*, computed by `RollupFrom`
  from events that there are and some goal, and that what was seen is a past of what
  there is. Events are only ever added, so the founded stays founded (`FoundedStays`).
  `GoalInv` is a conjunct: its steps are reused as lemmas.
* `RowsNeverOvercount`, `TodayCounts`, `RepliesAreStored`, `OldRowsCount` - the four
  properties from it. `TodayCounts` needs of the streak only that its last day is the
  latest met one; `OldRowsCount` compares the days two rebuilds see.

The second half of `EngineProofs` is about the job: any look-back, any number of passes, nights
missed at will. `NightlyInvariance`, `NightlySpec => []NightlyInv`, adds to `EngineInv`,
which the writes of a pass keep too, `PassInv`: what a pass has read is a past of the log
that lacks nothing of what there was when it began. `NightsNeverOvercount` and
`PassesCloseByContract` (`ClosureMatchesContract`) follow.

`ClosedDaysKept` (`ClosedDaysPersisted`) is about a user who logs and never opens the app
(`JobAlone`: no requests, one pass at a time). What a night must have seen depends on
constants that the property does not mention, so they are hypotheses: no upload comes more
than `late` days after its day (`SentWithin`), and the look-back is at least the nights
missed, plus one, plus a day if a zone is ahead of UTC, plus the larger of `late` and a day
if a zone is behind (`NightsReach`). The bound is exact on the small instances:
TLC finds the property violated with a look-back of 3 in `nightly_zones`, which has 4, and
with the seven missed nights of `nightly_outage`. With the code's 7 days, users on both
sides of UTC and uploads at most a day late, four nights may be missed; what comes later
than that, ingest taking up to 90 days, waits for the user to open the app.
`NightsHeal` says that all days but the latest are right since the last night: those that
an upload could still change, or that may not have ended in every zone. `PassHeals` says
what a pass under way has settled (`SettlesAll`) and that it has on its list all that the
last night left (`ClosesAll`), so a pass that dies costs no more than a night.

`DormantStreakKept` (`DormantStreakCurrent`) adds that the user stays in one zone
(`AtHome`) and dates no event ahead of their own calendar (`NotAhead`). By the theorem
before it no closed day is missing from the streak; `DormantInv` says that no other day is
in it: there is no row of a day that is not over. A day for which the job has no event to
ask is closed by UTC's calendar, so it matters that it then comes before an event that
there is, on a day that has begun at home (`DormantPrior`).

`IngestQueueProofs` proves, for any number of devices, overlapping calls, acts and
faults, any batch size and any clock:

* `QueueInvariance`, `QueueSpec => []QueueInv`. `NothingLost` alone is not
  inductive: a 200 deletes the front of a queue, so it must be known what the 200
  says. `QueueInv` adds, of each call, that its batch was recorded (`Sourced`),
  that while it inserts every event of it has been refused, is stored, or an event
  of its id is still to be written (`Settled`), and the running count (`Tallied`);
  the type invariant adds that an awaited batch is the front of the queue. That the
  first of each id is found at all rests on natural numbers being well founded.
* `QueueTypeCorrect`, `NothingIsLost`, `CountsAlwaysAddUp` - from it; the counts
  because nothing is left to write when a 200 is sent.
* `QueueKeepsPromise` - IngestQueue implements ActLog: recording maps to `Record`,
  an insert to `Store` or, when the id is stored already, to a stutter, everything
  else to a stutter.

`PromiseProofs` is about account deletion and subscriptions.

* For any tables, any foreign keys and any number of inserts and failures,
  `DeletionInvariance`: `DeletionInv` is the type invariant, `PhaseInv` (a table whose
  delete has run has only rows inserted after it; in the last phase all of them have run;
  a batch that failed has established nothing) and the property, `DeletedAccountIsEmpty`.
  `GoneLeavesNothing` alone says nothing before the user is gone, so `PhaseInv` carries
  it there.
* For any number of subscriptions, calls, deliveries and faults,
  `SubscriptionInvariance`, `PaymentsFindTheirRow` and `CarefulChargedOnce`. `CallsInv`
  is what each phase of a call has established, `EndsInv` that an end that is told of has
  happened, and `CarefulInv` that a careful user has at most one subscription that is
  charged *or could be at the next payment*, whose row has not ended and which a create
  under way has on its list: without the ones that could be charged the property is not
  inductive.

`AuthProofs` is about codes and sessions.

* For any number of calls, codes and attempts and an unbounded clock, `OtpInvariance` and
  `CodesStayLimited`. A limit that is checked before a later write is not inductive;
  `RequestsCounted` and `GuessesCounted` count with what is written the calls that have
  passed the check and not written yet, of which there are at most `Cardinality(Calls)`;
  `OneGood` adds that there is no good code while a row is about to be created.
* For any number of requests, devices, tokens and deaths, `SessionInvariance` and
  `SessionsHaveOneHeir`. `HeirInv` adds to the types that roots and names exist, that two
  rotations of one session make it forked (`TwoAreForked`), and that the session of a
  rotation has no live token but the one it rotates, and none between its revocation and
  the next one's creation (`RotatedIsSole`). The 20 or so steps that neither create nor
  revive a token are one lemma (`PlainKeeps`).
* `SessionsEndTogether`, `SessionSpec => []SessionsEndWhenTold`. `ToldInv` is
  `HeirInv`, the property, and `EndsInv`: passwords sealed are not ahead of the current
  one, a token that was ended exists, and a login or rotation under way knows a password
  that is not sealed, or is recorded as overlapping the request that sealed it.
* `SignedInKeepsRole`. `RoleInv`: while the user has no role, each token that is not
  fresh is of a session that is recorded as bare, and each login that is about to create
  one is recorded as without a role; `TakeRolesEffect` is the one lemma for all that takes
  roles away.

`RequestProofs` is about parts of the run `requests`.

* `StreakMovesByRule` (`ShownMovesByRule`) and `ScanIsRight` (`ScanMatchesBridges`), for
  any days met in any order, any length of month and any number of freezes. `LedgerInv`
  says that what is shown is `ComputeStreak` of the met days, but for the longest run,
  which bounds the scan's. The scan is a recursive function of days, about which the
  library's induction theorems say nothing (they take an operator as a parameter), so
  every fact about it is proved by its least counterexample: `LeastNat` gives a least
  element of any inhabited set of naturals, and `SpentAlways` and `RunsAlways` refute it.
  `SpentAlways` says that the freezes charged in a month are the missed days of the
  gaps the scan has paid for; `OneConsistent` that one set of gaps at most has each gap in it exactly when the ones
  before leave its months enough, so the gaps paid for are `Bridged` of StreakLedger.
* `ItemsReadAtOnce` (`ItemsResolved`), for any content, any items and any collection. `ReaderInv`
  says of each query that what it found for an item is what was stored at one moment of
  the request (`ReadAtOnce`), provided the rows whose ids it needs had been found; which
  of an item's queries finds its verses is fixed by its family (`BodyOf`).
* `NightsAccount` (`NightAccounted`), for any pairs, page size and number of retries.
  `PagesConsume` ties the page to the offset, and `SteppedOver` says that what the night
  has stepped over is rolled up, by the places of pairs in the sorted list (`PlacesKnown`).
* The streaks of the faith services, for any set of days. `ListOfDays` says what is at
  each place of a list of days, `Neighbours` that the day before in the list is the day
  before in the calendar exactly when that has a row. A current streak is the number of
  days in a row back from its end (`Back`), which is the length of the live run
  (`LiveRunIs`): `CountStreakIs` and `DhikrIsLive` find it at the head of the list,
  `JapaIsLive` and `PujaIsLive` by their loops of a year, and `PrayerIsLive` window by
  window, since a run that ends above a window's floor by more than a day ends there.
  `ScanIsLongest` and `DhikrIsLongest` say that a scan's longest is that of any run, the
  descending one by going through the days in reverse (`Mirror`).

`ContentProofs` proves `SeedsLeaveAll` (`SeedsWhole`) and `ReviewsAreAsked` (`ReviewKept`) for
any scripts, any content, any number of runs, repetitions and faults. That all is there
when a script is done is not inductive, for a run kills another's work as it clears.
`SeedInv` says of each script by itself (`ScriptOK`) what has been settled so far: an item
the script's run has passed is stored, unless a run that is named in the exceptions was
under way (`Fills` and `Creates` are what a run that fills gaps and one that creates all
promise, `RunCounts` what one that skips by a count has seen). A run touches only the rows of
its own script (`Elsewhere`), so each action is proved for the script that takes it and
framed for the others.

`PartProofs` proves `AccountsHold` (`AccountHolds`), `PracticesCounted` (`PracticesAddUp`),
`StreaksAreOne` (`StreaksAgree`), `LibraryIsServed` (`LibraryServes`), `JuzIsWhole`
(`JuzWhole`), `GatesAreSound` (`GatesSound`) and `CalendarsAreOne` (`CalendarsAgree`) of
MCRequests as a whole: `PartsStep` says that a step of another part leaves theirs as they
were.

* `RecordInv` (`SettingsKept`) says what each half-done job has read and still owes.
* `DeviceInv` (`PushesFollowWishes`): a row of a push token is active exactly when its
  owner last wished so, as long as no two of his requests about it have overlapped, and a
  request that is past its lookup writes a row of its own owner.
* `AccessInv` (`AccessFollowsRoles`), for any roles, permissions, lifetime of a token and
  number of edits: what a login has read of the tables differs from them only if an edit
  came between (`MintInv`), what a token claims was true when it was signed or while its
  login was reading (`TokenInv`), and a role whose assignment is half done and was not
  disturbed has no permission yet (`AssignInv`).
* `TallyInv` (`TalliesAddUp`): a tap whose counter nobody else taps has read what is
  stored (`OneTap`), and a japa counter is ahead of its history by the tap that is between
  the two writes (`JapaBehind`). The history is summed by a recursion over sets of days,
  whose result is fixed by the least number of days on which two sums could differ
  (`SumOfMore`).
* `LogInv` (`PrayersCounted`): two writes about one prayer that overlap are both marked,
  so a removal that is not marked still names the row that is there (`WritesApart`); and
  what `/stats` has found so far is within the writes since its first query
  (`StatsBounded`), a streak being no longer than the prayers on its days are many
  (`StreakWithin`).
* `StreaksAgree` is the lemmas of RequestProofs about each streak.
* `ReadersInv` and `HeartInv`, of `LibraryProofs` (`LibraryServes`). The recordings are
  numbered by sums over the surahs, a recursive function about which facts are proved by
  their least counterexample (`SumsExist`, `SumsAre`). That pages have shown all rows at
  the end is not inductive: `PagesKnown` says how many places of the order they have
  shown so far (`RanksCount`: an order without ties takes each place once), and of one
  book which rows these are, since its numbers fix the order (`PlacesOfBook`).
  `DailyInv` says that the offset counted for the hadith of the day is still within the
  rows unless somebody shelved since. `HeartInv`: two requests about one item that
  overlap are both marked (`HeartsApart`), and a row that a removal has found is there
  unless its request is marked or the table has one row for an item.
* `JuzInv` (`JuzWhole`): the mushaf and the cuts never change; the rest is about the
  answers. Of a set of verses each has its rank in order and each rank its verse
  (`InOrderIs`), so a juz starts right after the one before (`BoundaryIs`) and a verse is
  of the first juz that does not end before it, and of no other (`JuzPartition`). The
  pages turned so far hold the first verses of the range (`PagesRead`), and the counts
  of the surahs add up to those of the range (`SumCounts`, `VerseCountIs`).
* `HijriInv` and `SkyInv`, of `LibraryProofs` (`CalendarsAgree`).
  * `HijriInv` says of every entry of the cache that it was computed for the request its
    key names, at an instant from which its life is counted (`FilledFor`), so an answer
    is right whether it was kept or computed. That each day of the table is of one month
    is `MonthsFollow` and `MonthIs`, by the least month out of order; for the grid of a
    month in a zone west of UTC see section 5.
  * The fallback has no table, only the code's arithmetic with its real numbers. Of
    `toJulianDay`, that the next civil day has the next number (`JulianNext`): inside a
    month, at each month's end, at a year's. Of `julianDayToHijri`, that the next number
    has the next date (`HijriStep`): its quotients are found year by year over the thirty
    years of a cycle, which then repeats.
  * `SkyInv`: tithis at sunrise never go back and stay within the year. A festival's
    month, fortnight and number fix one tithi of the year (`OneTithi`), so its days are
    one stretch (`FestivalsDo`), and the dark fortnight of a month comes before its
    bright one (`DarkFirst`).
* `VerseInv`, `CitationInv`, `NumbersInv` and `FeelingsInv`, of `ContentProofs`
  (`GatesSound`). A gate reads while rows come, so each invariant says what it has read
  in terms of what cannot be taken back.
  * `VerseInv`: until two runs of the seed overlap, one at most is under way, and what
    it found missing is still missing (`OneSeeds`).
  * `CitationInv`: an item that the gate has ticked off without a failure was found
    (`ItemFound`), and stays so as the corpus grows (`FoundStays`). That a range of
    verses is whole follows from counting: as many rows as verses, and as many different
    verses as rows (`RoomFilled`, `OneRowEach`).
  * `NumbersInv`: `Settled` says of a book that a run without problems is done with what
    `NumbersWhole` says at its end, and `AllOrNone` that a transaction under way has
    touched nothing yet. While nothing is written, each fixture ticked off matches
    (`GateLooked`). That a whole corpus passes rests on the first row of a number in
    the order of the lookup (`NumberedMatches`).
  * `FeelingsInv`: each result is sound when it is written (`ResultSound`) and what is
    remembered of a surah or book was so when it was asked for (`AskedThen`). That a
    passing text is the whole passage needs what the folding of letters and the dropping
    of vowels do to texts of any length: two recursions along the text that are compared
    by the least place where they could differ (`BuiltExists`, `LooseIsConsonants`).

Five attempts at a proof failed because the model was wrong. In NightlyJob two acts of
one instant in two zones were ordered at will in the window and in the query of the last
event before it; `ORDER BY` promises that of neither, and the model now takes any of
the latest. `ItemsResolved` named the content of an item by its family, which is false
with two duas. `NumbersWhole` excused only the book that was seeded again last, which is
false when two are; it excuses each of them now. `ClosedDaysPersisted` spoke of every closed
day, but a day can be over where it was logged and be tomorrow where the user has flown
since (UTC+14 to UTC-11): the pass drops its row as one of the future, until the user
catches up with it. InitialGoals and the zones of acts
needed the assumptions that the unique index and the validation of ingest give.

Assumed: the named ASSUMEs on constants (each evaluated by TLC in the runs), zones
less than a day from UTC, initial goals that start on different days, finite sets of
calls, subscriptions, pairs, prayers, days of the log and hadith books, windows of the
prayer streak of at least two days (the code's are 90; a run in windows of one day would
be cut at the first), at least two roles and two permissions (`seed.ts` creates more of
both), and of the edition of hadiths (`EditionAssumption`) that the fixtures of
verify-hadith-content.ts match it, as they were measured on it, and that no large book
of it is one chapter: without that a whole corpus would fail its gate. Of the calendars:
a Hijri month has one of two consecutive lengths, the walk of the fallback begins on a
date that exists (`CivilAssumption`), and the sky is that of one year, in which a name
is of one month beside its leap months and the last month is not a leap month.

Only model-checked: liveness (`SelfHeals`, `NightlyHeals`, `QueuesDrain`,
`PaymentBringsRole`, `EndTakesRole`, `DeletionSucceeds`), which is out of the provers'
reach. Every other property of a passing run is stated by a theorem.

## 5. Where the code and its documents differ

Shown by a run:

1. `streak_backward_walk` - contract 2.5 walks backwards and spends freezes on the
   latest gaps first; the code scans forwards and spends them on the earliest, and
   its comment says the two compute the same thing. They differ when one month's
   gaps need more than its two freezes.
2. `longest_decreases` - `longest` is read and written by separate statements, so
   an overlapping `/today` stores a smaller one over a larger one.
3. `nightly_outage` - a week of missed nights does not heal: the day that was open
   on the last good night is eight days back after seven missed nights, and the
   window reaches seven. Six missed nights do heal.
4. `puja_today` - the comment at puja-log.service.ts:70 says a streak is still alive
   without a log today if yesterday had one; the loop goes on to yesterday but counts
   it only if today was counted, so the current streak is 0 until today's log.

Noticed while modelling, with no run of their own. The activity engine:

* *The bounded rebuild* is identical to the full one (rollup.service.ts:434-436) only if
  each day was computed by something before it fell below the floor.

* *The zone of an empty day at the window's edge.* Contract 2.8 (line 211) asks the
  zone of the most recent event before it. The job looks at the window's events
  first and at one event before the window only if there is none; for a user who
  flew west, an event outside the window can be the later instant on an earlier
  date, and the code then asks another event. It costs an empty day a night.
* *A closed day in the future.* From UTC+14 to UTC-11 a user can land on the day before
  one that has ended where they logged it. rollup-cron.service.ts:613 does not look past
  the user's today and :680 deletes the rows there, so the day waits for a later night.
  `ClosedDaysPersisted` stops at the user's today.
* *`PUT /goal` from the west.* When a goal already starts tomorrow (set from a zone
  ahead), the request updates it in place, answers `met` against it, and stores
  `goalMet` against the goal in force today. `GoalReplyIsStored` excludes the case.
* *Two open goal rows.* Two racing `PUT /goal` on different days can leave two rows
  with `effectiveTo` null, against the single-open-row invariant of
  `activity-read.service.ts:313-315`; harmless, because `effectiveTo` is not read.
* *A first event.* If the first-event query runs before a user's first upload and
  the event query after it, the answer has `met` true and a streak without today.
* *Future days in `/history`* are computed like others and may be non-empty when
  events are dated a day ahead (contract 6.3 calls them empty).
* *`lookbackDays` 1* is allowed by the clamp, and a window that short finalises
  fewer days than contract 2.8 promises to a user who flies.
* *Permanent rejections.* Contract 4.5 (line 402) calls every rejection permanent;
  `occurred_at_in_future` is not: the same event passes a day later.
* *A day opened again* by a later event from a zone further west keeps its
  finalised row until it closes in that zone too.

Accounts and subscriptions:

* *Account deletion* speaks of "every row of user-owned data" (account.service.ts:9);
  the four activity tables have no relation to `users` and are not deleted, and rows of
  subscriptions go without the subscription being cancelled at Razorpay. The comments
  of lines 13 and 22 disagree about whether there is a transaction (there is none).
* *Codes.* `verifyOtp` issues tokens for placeholder users and claims the role `user`
  without a row; a login may claim it for a role renamed between lookup and insert.
* *Roles.* Permissions are looked up by a role's name, so a name reused between two
  reads gives the new role's rights. System roles can be renamed and deleted: renaming
  `admin` locks administrators out once their tokens expire, renaming `user` lets
  people register without a role. `assignPermissions` that dies midway, or names a
  permission that does not exist, leaves a role with none. `PermissionsGuard` protects
  no route and does not know the wildcard `*`.
* *Phones.* A logout leaves the device token active, so a phone that two accounts used
  gets the pushes of both; a removal that overlaps a re-registration switches it off.
* *Preferences.* Overlapping updates of the JSON object lose a switch; defaults differ
  between the paths that create the row. `POST` of a profile changes the name and may
  then fail.
* *Sessions.* Two refreshes with one token at once make two sessions of one; a login or
  refresh that validated before a reset and creates its token after survives it, against
  auth.service.ts:454; a deactivated user keeps refresh tokens until they are used.
* *The default role.* If no role is named `user` (renamed or deleted, which nothing
  prevents), register leaves a user without one and login issues tokens that name none.
* *Natural end.* Razorpay ends a subscription after `total_count` charges
  (razorpay.service.ts:21) with `subscription.completed`, for which the switch
  (subscriptions.service.ts:133-197) has no case: the row stays `active` and the role for
  good, a new subscription is refused (line 21), and a cancel fails at Razorpay. The
  status `completed` that schema.prisma:757 lists is never written.
* *Subscriptions.* A late `activated` after a cancel re-activates the row; the
  `cancelled` webhook of a stale subscription takes the role of a paid one; an error in
  cancelling a stale one is ignored; two overlapping creates, or a payment during one,
  bill twice.

Practices:

* *Puja.* `listLogs` ignores `fromDate` (24-25).
* *Prayers.* `/stats` reads four queries, so on-time prayers may exceed all prayers when
  one is logged between them; a repeated log overwrites a newer status.

Content scripts:

* Translations and scripts of the Quran (`gita_full`, Uthmani, premium, transliteration,
  Saheeh) are not repaired by a second run after one that was killed, though called
  idempotent; the Saheeh skip counts every English edition.
* `seed-collections` rewrites the items of a reviewed collection and leaves it reviewed;
  it writes a promoted status before the items.
* `seed-hadiths` keeps the download's total when killed, and orphans favourites.
* Comments say that nothing stops a re-run of `seed-ramayana` from inserting second
  copies; a run that overlaps no other fills gaps only.
* *Backfill.* A row left without a number keeps showing its place, which may be another
  row's number; a total is stale if rows are seeded between its read and the commit.

Gates:

* *Books.* "nasai" is not contained in "Sunan an-Nasa'i", so its citations are never
  verifiable; a word without Latin letters resolves to the first book.
* An item with a null slug or range start makes the corpus query fail, and the findings
  before it are lost; "No collections" exits 0.
* `hadithExists` falls back to the place, so a number that no hadith is cited by may pass.
* *Feelings.* A wrong surah name is dropped when the text matches exactly; "Quran 16"
  without a verse parses as a hadith; the exit code 2 of the content gate becomes 1; once
  the total of a torn book is what is stored, a gap fails.

Readers and calendars:

* The juz index counted while verses are seeded stays for a week.
* A book of hadiths is matched by part of its name; pages over all books are ordered by
  the number alone, so ties may repeat or be left out; the hadith of the day is read
  without an order and cached for a day from the first request.
* Quran bookmarks are doubled by a double tap (quran.service.ts:196-213 says so); of two
  overlapping removals of a dua or a bookmark the second is answered with an error.
* In a zone west of UTC `fromHijri` and the month grid are a day off; `getToday` converts
  the zone twice; the key of upcoming events has no date, so `daysUntil` is one too many
  for up to an hour after midnight.
* A festival whose tithi no sunrise sees is not listed; one that spans two is listed twice.

## 6. Not modelled

* Spelling, formatting, messages, logging, HTTP plumbing and shape checks
  (controllers, error bodies, the maintenance secret); JSON shapes of counts; `points`
  (always zero); daylight saving.
* Astronomical calculations: prayer times, the qibla and the sky are arithmetic on
  reals of libraries; the panchang takes any sky.
* The text of the content, and the parsing of free text beyond the shapes that the
  gates tell apart. A collection whose seed names another status than `draft` is taken
  as a draft.
* Lists, searches and lookups over read-only rows; goals of dhikr and japa and the
  administrator's list of users, single statements each.
* Feedback: its counter is a get followed by a set in the cache of one serverless
  instance, so overlapping submissions pass the limit together; the rest is an append
  to a spreadsheet.
* The connection pool, mail, the one-off migrations of users' tables, tests.
* `cleanup` of expired tokens and codes, which nothing calls; the tokens that a login by
  code and `verify` of a payment return are logins like the one of AuthSessions.

PROJECT.json lists every component with its status.

## 7. Plan

1. The endpoints that convert one date (`/convert/to-hijri`, `/convert/to-gregorian`).
2. An abstract engine (rows founded on events, an answer that agrees with itself) that
   RetentionEngine implements step by step.
3. RolesAndTokens composed with Subscriptions and AccountDeletion: the role
   `premium_user` in a token that outlives the subscription.
4. The rate limit of feedback; the lists of collections and today's suggestion.
