# A verification project for the Rawbin backend

TLA+ modules of the Rawbin Smart Composter backend (`src/`), the TLC runs that check them and the
theorems about them that TLAPS proves. `PROJECT.json` maps every definition to the lines it
models; this file says what the parts are, what is shown and what is not.

    cd tla
    tlc -workers 2 -config devices.cfg MCDevices      # a run
    tlapm DevicesProofs.tla                           # the proofs of a module

## 1. The system

The backend is three kinds of processes over one PostgreSQL (TimescaleDB) and one Redis:

* **API** (`app/main.py`, `app/api/v1/*`): FastAPI handlers, coroutines of one event loop. Each
  request has a SQLAlchemy session of its own (`db/session.py`, `get_db`): one READ COMMITTED
  transaction, committed after the response has been sent (FastAPI runs the exit of a dependency
  with `yield` last) and whether or not it has arrived, rolled back on any exception. The session does not flush by itself
  (`autoflush=False`), and an UPDATE contains only the attributes that differ from the loaded
  row. Redis commands take effect at once and are never rolled back.
* **MQTT listener** (`app/core/mqtt.py`, `app/workers/mqtt_listener.py`): paho's network thread hands
  every valid message to a coroutine that stores it and enqueues an alert check.
* **Celery workers** (`app/workers/*`): tasks taken from Redis queues, acknowledged late, delivered
  again when their worker is lost.

So two steps of any two actors may interleave wherever one of them awaits, and no lock other than
PostgreSQL's row and key locks relates them. The parts:

| component | state it keeps | operations | talks to | hard behaviour | what makes it correct |
|---|---|---|---|---|---|
| pairing and sharing (`api/v1/devices.py`, `services/device_access.py`) | `devices`, `user_devices`, Redis `pairing:challenge:{id}` | challenge, confirm, provision, share, remove (and listings, a demo fixture) | PostgreSQL, Redis | check-then-write across awaits, row locks, Redis before COMMIT, TTL | access, last member, single-use nonce, paired only under a verified secret |
| alert thresholds (`api/v1/devices.py` config, `workers/tasks/telemetry.py` `_load_thresholds`) | `device_configs`, Redis `alert_config:{id}` | GET/PUT config, load in a worker | API and workers share row and copy | invalidation before COMMIT, late fill, failures cached | checks use thresholds that were in force; stale copies end |
| MQTT ingestion (`core/mqtt.py`) | `sensor_readings`, `devices.firmware_version` | store a reading, enqueue its check | broker, PostgreSQL, Celery | coroutines commit in any order, duplicates, shutdown between COMMIT and hand-over | one check per stored reading, firmware of the newest reading |
| alert checks and pushes (`workers/tasks/*`) | `alert_events`, queue messages | check a reading, send a push | Redis queues, PostgreSQL, FCM | at-least-once delivery, partial failure, bounded retries | nothing lost, repeated only by redelivery, everything ends |
| accounts (`api/v1/auth.py` register, `api/v1/users.py`) | `users` | register, profile, push token | PostgreSQL | check-then-write of a phone number | a number passes to another account only when it was given up |
| tokens (`api/v1/auth.py`, `services/auth_service.py`) | `refresh_tokens` | register, login, verify, refresh, logout | PostgreSQL | two refreshes of one token, lost answers, COMMIT after the answer | a session has one valid token until it is closed, and its client knows it |
| SMS codes (`services/otp.py`, `services/sms.py`) | Redis `otp:code/attempts/cooldown:{phone}` | issue, verify | Redis, SMS provider | commands of several requests interleave, TTLs, failed SMS | single use, bounded attempts |
| cycles and waste logs (`api/v1/cycles.py`, `api/v1/waste.py`) | `compost_cycles`, `waste_logs` | start, update, log, list | PostgreSQL | check-then-insert under a partial unique index, pages without a snapshot | one active cycle; a log belongs to the active cycle; no log missed |
| OTA (`api/v1/ota.py`) | none | compare versions, presign a URL | S3, the column that ingestion keeps | version strings of other lengths | an update is offered to older versions only |
| history, status (`api/v1/telemetry.py`, `status.py`, migration `20260612_1123`) | hypertable, continuous aggregate and its watermark | raw, hourly and daily queries, snapshot | TimescaleDB's refresh and retention jobs | late readings, refresh and retention windows | tiers agree, aggregates outlive readings |
| alert list (`api/v1/alerts.py`) | none | a paged query | PostgreSQL | as waste logs | — |
| configuration, logging, migrations, deployment, scripts | — | — | — | — | — |

## 2. Modules

| module | models | state and actions |
|---|---|---|
| `Devices` | pairing and sharing of one `hardware_uid` | committed rows `device`, `members`; Redis `challenge`; one record per request in flight. One action per await: the first SELECT (`Receive…`), `is_member` (`CheckMember`), each flushed INSERT (`InsertDevice`, `LinkMember`), each Redis command (`IssueNonce`, `VerifyResponse`, `ConsumeNonce`), the COMMIT of each handler (`Commit…`), expiry, and `Abort` for whatever ends a request in between |
| `AlertThresholds` | the thresholds of one device | committed `config`, Redis `cache`, PUTs and loads in flight; one action per statement, COMMIT and Redis command, and one for each failure the code handles |
| `ThresholdRegister` | what the checks are promised: thresholds that are or were in force | `Write`, `Read`; `AlertThresholds` implements it with `current <- Effective(config)` |
| `Ingestion` | `process_telemetry_async` | rows, firmware column, coroutines in flight, the queue of checks |
| `AlertChecks` | the two Celery tasks | the queues, one record per worker, events written, notifications accepted |
| `AlertPipeline` | both, composed | `Listener == INSTANCE Ingestion`, `Celery == INSTANCE AlertChecks`; they share the variable `queue` and nothing else |
| `AlertPromise` | what the tasks promise of the alarms: every stored reading is checked or its hand-over failed, a dispatched push is owed until the member is notified or it is given up, and what happens twice is paid for by a repetition | `Store`, `Excuse`, `Record`, `Dispatch`, `Finish`, `Notify`, `GiveUp`, `Redeliver`; `AlertPipeline` implements it with `check <- Check`, `owed <- Owed` |
| `SignIn` | accounts, SMS codes and refresh tokens around one phone number | committed rows `users`, `holder` (of the number), `tokens`; Redis `code`, `attempts`, `cooldown`; one action per statement that may wait (the two index entries of register's INSERT, a patch's UPDATE and its index entry, a refresh's UPDATE and its INSERT), Redis command, answer and COMMIT of register, patch, login, refresh, logout, ask (for a code) and verify |
| `CompostCycles` | cycles and waste logs of one device | committed `cycles`, `logs`; requests, and `reader`, the client that turns the pages of a listing |
| `OneActiveBatch` | what `cycles.py` promises of a device | `Start`, `Stop`; `CompostCycles` implements it with `active <- Active` |
| `Ota` | the version comparison, over `Ingestion` | no state of its own: operators on the column `firmware` |
| `History` | history and status queries over the hypertable | `stored`, `materialised`, `watermark`; publishing (late too), the demo device's readings, the jobs and time; the queries are operators |
| `MC…` | symmetry sets for TLC | |
| `…Proofs` | the proofs | |

Data are abstracted to what the properties tell apart. Devices, in `Devices` and
`AlertThresholds`, and readings, in `AlertPipeline`, never meet in the code, so one stands for all. An HMAC agrees when the secrets do; a secret, a
name or a nonce is a model value. A reading is its time and firmware version; whether it breaches
is a choice of the check, because the thresholds a check gets are `AlertThresholds`' subject.
History variables and fields (`verified`, `used`, `since`, `raced`, `refilled`, `late`, `past`,
`answer`, `unchecked`, `verdict`, `gaveUp`, `repeats`) record what happened; no guard of a code step
reads them, but for the bounds (`MaxRepeats`, `Unused`, `NewCode`). In `SignIn` and `CompostCycles` they are
`answered`, `lost`, `root`, `closed`, `drawn`, `wrong`, `clean`, `accepted`, `overlap`, `overtaken`, in `History` `excused`.
A client presents a token it has been sent: that is the one use of `answered` in a guard.

Some facts about PostgreSQL and SQLAlchemy matter and are modelled: an INSERT of a key that an
uncommitted transaction has inserted waits for that transaction and fails if it commits, and so does an
UPDATE or INSERT under a unique index, partial or not; an UPDATE waits for the row lock and then applies
to the row as it is; a statement that waits keeps the locks its transaction has, and an INSERT or UPDATE the index
entries it has made before the one it waits for; the foreign key of a new row waits for a change of an indexed column
of the row it refers to; and a DELETE of a row that is gone is only a warning.

## 3. Runs

| run | bounds | shows |
|---|---|---|
| `devices` | 2 accounts, 2 requests in flight, 2 names, 1 secret besides the unprovisioned one, 2 nonces, all five handlers (1.0 M states) | locks exclude each other, access survives to the COMMIT unless a removal commits, members change only by sharing, and the exact races behind each anomaly (`…OnlyByRace`) |
| `requests_end` | 2 accounts, 2 requests, 2 nonces, challenge, share and remove (58 k) | every request ends, among them the second of two first challenges and of two shares with one account, which wait for the first |
| `sharing_orphan` | as `devices`, sharing only | **finding**: two overlapping removals leave no member |
| `pairing_reprovision` | 1 account | **finding**: a provision overtaken by a confirm leaves the device paired |
| `thresholds` | 2 thresholds, 2 PUTs, 1 check (1.25 M) | refinement of `ThresholdRegister`, mixed rows only by overlapping PUTs, the ways a copy becomes stale, and that it does not stay so |
| `thresholds_stale` | 1 PUT, 1 check | **finding**: a PUT can leave a stale copy |
| `ingestion` | 3 readings, 2 coroutines, 4 versions (1.95 M) | one check per stored reading; how the firmware version falls behind, and that an update is otherwise offered to superseded versions only |
| `pipeline` | 1 reading, 2 coroutines, 2 workers, 2 members, 1 retry, which may be refused, 1 repetition (263 k) | refinement of `AlertPromise`, repeated only by redelivery, nothing lost, every alert ends |
| `pipeline_unrecorded` | 1 of each | **finding**: a breach whose events cannot be written is dropped |
| `sign_in` | 2 accounts, 3 tokens, 2 codes, 2 attempts, 5 scenarios, two of them crowds of 3 requests, the others with 2 (199 k) | a session keeps one valid token, its client is locked out exactly by a lost answer, codes are used once and guessed a bounded number of times, a number is never taken over, every request ends |
| `compost` | 2 cycles, 3 logs, 3 times, 2 requests, pages of 1, 2 scenarios (1.05 M) | refinement of `OneActiveBatch`, a completed batch has an end, logs go to the active batch, pages miss a log only by a race or a tie although logs are committed between them, waits form no cycle |
| `history` | 7 hours of 2 half-hour ticks, days of 3 hours, 1 day of retention, 2 readings and a demo device (424 k) | of every window, the hourly view hides only late readings, missed refreshes and the hour it cuts, keeps what retention drops, the snapshot never goes back |

**Why the bounds are enough.** Every race named here is between two actors, and each run has two slots
of each kind, so that two of its handlers overlap in every order, including two of the same kind; a slot is used
again without bound. `requests_end` leaves out confirm and provision, whose one UPDATE is followed by the COMMIT:
nobody waits for them longer than that, and `WaitsEnd` of section 4 has all five. Nonces are the one thing that runs out (`NonceLeft`): two let a challenge replace a
pending one, which is what the nonce properties need, and two first challenges meet, one of which then waits. Two members are the smallest number for which a
removal is allowed. Two thresholds are needed for a mixed row, three readings for a late one between two
others. One retry and one repetition reach every branch: first send, last retry, a lost worker in
every step. One check and two coroutines are what time allows in `thresholds` and `ingestion`; any number of either is
covered by the proofs. `Versions` is empty in `pipeline`, where the firmware column has no part. All invariants but
`SomeoneContinues`, all step properties and the three refinements are moreover proved for all values (section 4).

`Scenarios` keep `sign_in` and `compost` small: the clients of one behaviour call the handlers of one set, and each
set holds handlers that share rows or keys (codes with codes; a verification with the number's owner; the handlers of
a token; login, refresh and patch, whose locks chain from a token's row over the users row to the number; those of the
number; batches with logs; logs with listings). The two sets whose locks chain are `Crowds`: three requests at a time, two
refreshes of one token and a patch of its account, or two registrations and a patch. Three tokens are a login's and those of two
refreshes that race for it, and who signs in leaves one for a refresh; answers are lost, and tokens expire, where clients
log out, too; two attempts make the limit different from the first wrong
number, and a second code replaces a pending one. With three logs and pages of one, a client that has seen one of two
has a page to turn while the third is committed, above it or below. Seven hours hold two retention days, the refresh window of three hours and a gap before it; with half-hour
ticks a bucket has an inside; two readings are an early and a late one, and the demo device brings a day of them at
once. A query's window may begin and end at any tick, on the hour or within one. `Numbers` in `Ota` lists the versions that matter: shorter, longer, with a prefix, of two digits.

Deadlock is checked, except in `sign_in`, `compost` and `history`, where tokens, codes, ids or the model's time run out and
nothing is left to do. That nobody waits for ever is there what `RequestsEnd` and `SomeoneContinues` say.
`SignIn` follows one number. Two patches that exchange two numbers may wait for each other in PostgreSQL, which then
aborts one of them (`Abort`): that is outside the module, and so outside what its `RequestsEnd` and `WaitsEnd` say.
`ExpireToken`, `ExpireCode` and `ExpireAttempts` run only in the scenarios that read what they expire.
Symmetry is used in safety runs only.

**Fairness.** `FairSpec` asks for what the schedulers give and nothing of clients or failures:

* a coroutine whose await is over is resumed (weak fairness of `Continue`, `ContinuePut`,
  `Listener!Continue`);
* a statement that waits for a row lock is not overtaken for ever (strong fairness of `InsertDevice`
  and `LinkMember`, the INSERTs that wait in `Devices`): PostgreSQL wakes the waiter when the holder ends, yet another request may have taken the
  key again, so weak fairness would not do. `SignIn` asks it of `Continue` as a whole, which
  waits for rows and index entries only;
* Redis drops keys whose time is over (weak fairness of `Expire`; a key that is filled again
  and again expires again and again, and the property needs no more);
* a free worker takes a message if there is one and goes on with its task (weak fairness of `Take` and
  `Work`). Lost workers are bounded by `MaxRepeats`: with unbounded losses nothing could end.

`EventuallyFresh` has a premise: PUTs stop committing and the row stays readable. Without it the
copy may be stale again and again.

## 4. Proofs

Each proof module extends its component and proves, for every value of the constants, the safety
properties the runs check, from an inductive invariant.

* `DevicesProofs`. Assumed: `OpsAssumption`, `NoneAssumption`, `NoRowAssumption` (the absent value is no
  real one), and for `WaitsEnd` alone `FiniteAssumption` (finitely many nonces and request slots: the process has
  drawn and holds no more at any time). The properties are not inductive alone. `Inv` adds `EmptyWithoutRow` (nothing
  is linked before the row is there), `TwoMembers` (a removal that counted still has somebody to
  leave behind, unless another removal has disturbed it: this is why the last member goes only
  by a race), `SnapshotCurrent` (a loaded row is out of date only in what a confirm or provision that
  disturbed its reader has written: hence `MispairedOnlyByRace` and `PairedNameChangesOnlyByRace`) and
  `NonceDiscipline` (a pending nonce has paired nothing, and a confirm that deleted its nonce
  does not find it again: hence single use). `NoncesSuffice` counts: the nonces issued and the challenges that have none yet are
  at most the nonces, so that a challenge which will draw one finds one.
* `AlertThresholdsProofs`. Assumed: `ValuesAssumption`, `NoneAssumption`. `LoadedRow` relates a PUT's loaded
  row to the table, `AnswersFromPast` everything a check may answer to the history, `CopyFollowsRow`
  copy and row in the absence of a race. `ImplementsRegister` is the refinement theorem: COMMITs map to
  `Write`, answers to `Read`, every other step to a stutter.
* `IngestionProofs`. Assumed: `TimesAssumption` (times are ordered), `NoneAssumption`. `HandOver` says that a reading waiting for
  its hand-over is stored and is in nobody else's hands; `SeenCurrent` that a version
  loaded is current unless another coroutine has written it.
* `HistoryProofs`. Assumed: `TimeAssumption`, `BoundsAssumption`, and `RetentionAssumption`: retention is no shorter than the
  refresh reaches back (365 days against three hours in the migration). A refresh replaces whole buckets, so that
  `AggregateOutlivesReadings` needs `ReplaceableIsStored`: whatever a refresh may still replace is still stored. It
  rests on `ExpiredIsOld` (a chunk is dropped only when all of it is older than the refresh window), and that is
  where the assumption enters. `SnapshotIsMonotone` follows from `ExpiresInOrder`. A second invariant, `ViewInv`,
  is for `HiddenOnlyWhenLateOrCut`: the watermark starts an hour that is over (`WatermarkBehind`), and a reading that is not
  excused is materialised once the refresh of its hour was due, or the watermark passed it (`TakenIn`). The lemmas
  `RowHours` and `HoursInOrder` are the arithmetic of ticks, hours and buckets; `Greatest` is where `FiniteSetTheorems` stands
  in for induction: a bounded set of numbers has a greatest one. The property compares the raw rows of any window with the
  hourly query of the same window: a row whose hour begins before the window is left out of the latter, whatever else holds,
  and no other one that is not excused. The daily query groups the rows of the hourly one by day.
* `AlertPipelineProofs`. Assumed: `RetriesAssumption`, `RepeatsAssumption` (both limits are numbers), `NoVerdictAssumption` (the
  absent verdict is none), and Ingestion's. The invariant follows each piece of work from the listener to FCM.
  `OnePlace` and `Somewhere`: the check of a stored reading is with one coroutine, or in the queue once, or with one worker, or
  acknowledged, or its hand-over failed. `EventsRight`: what a check reports to have written, it has. `Traced`: a push that was
  dispatched is sent, given up, waiting, or being sent. `Counted` adds up, for a reading and a member, notifications, messages,
  senders and the check that may still dispatch: at most one more than the redeliveries and lost
  answers so far. `RepeatedOnlyByRedelivery` is what is left of the sum; `NothingLost` is `Somewhere` and `Traced` when nothing is in
  flight. `AlarmsAreAboutStoredReadings` (there is no alarm without its row) is stated here only.
  `ImplementsPromise` is the refinement theorem. It needs `PromiseInv` besides: a reading whose check has not been handed over
  has no repetition, which with `Counted` leaves it without messages, senders and notifications (`Untouched`); and a
  push that only has to be acknowledged has been answered, or is owed again. A COMMIT of the listener maps to `Store`, a failed
  hand-over to `Excuse`, the task's own COMMIT to `Record`, a dispatched push to `Dispatch`, the acknowledgement of a check to
  `Finish`, an accepted send to `Notify` (its answer may be lost, and then the last attempt gives up although the member was
  notified), a refused or last failed one and a retry that cannot be published to `GiveUp`, a lost worker to `Redeliver`, and every other step to a stutter.
* `SignInProofs`. Assumed: `AttemptsAssumption` (a positive limit), `FoundersAssumption`, `FiniteAssumption` (finitely many tokens, codes and
  requests: the process has drawn and holds no more at any time), `CodesAssumption`, `NoneAssumption`, `NoRowAssumption`.
  `ClaimsExclude`: who has entered a number keeps everybody else off the index until the COMMIT, hence `PhoneNeverTakenOver`.
  `TokensInHand` and `Rooted`: a request's new token is nobody else's and descends from the one it presents; with the row lock they
  give `OneUnrevoked`, which is `SessionKeepsOneToken` without counting. `Sent`: a stored token has been sent, and one that was
  lost on the way stays unrevoked, because nobody can present it. Together they are `LockedOutOnlyByLostAnswer`. It says why the
  old token has to be revoked in the transaction that stores the new one: a crash after the answer leaves only the old one
  valid. It also says what the code does not prevent: the COMMIT follows a lost answer all the same, and the client's old
  token is revoked then. `RowsExclude`: one request at a time has written a users row. `CodesAccepted`: a code
  stays in Redis until it is accepted, and those who read it before know of each other.
  `CountIsRight`: whoever may still count a try is in flight, so that wrong tries and counters in flight stay below the limit
  plus the requests. `TokensSuffice` and `CodesSuffice` say that a request which will draw a token or a code finds one.
* `CompostCyclesProofs`. Assumed: `TimesAssumption` (times are numbers), `LimitAssumption` (pages are not empty), `FiniteAssumption` (finitely many
  rows), `NoneAssumption`, `NoRowAssumption`. `IndexGuards`: whoever holds the entry of the partial index finds nobody else active, and is alone;
  `ImplementsOneActiveBatch` maps the COMMITs that change the active batch to `Start` and `Stop`, every other step to a stutter. `Arguments`: a loaded batch that had an end still has
  one, hence `CompletedHasEnd`. `DefaultIsActive`: a log's default is the active batch until it is overtaken.
  `PagesAhead`: a log the client has not seen is still at or below the next page, because new logs only push logs down.
* `OtaProofs`. Assumed: `SemverAssumption` and `SupersededAssumption`, which say what the two sets are: versions of three numbers, and those of them
  that precede the latest in the order of releases (`Precedes`, major before minor before patch). `UpdatesGoUpwards` is that Python's
  order of tuples, applied to what `_parse_version` returns, is a strict order which `UpdateAvailable` follows.
  `SupersededAreOffered` is about a column that has not fallen behind; when it can, `FirmwareFollows` of
  `IngestionProofs` says.

The three `WaitsEnd` theorems (of `DevicesProofs`, `CompostCyclesProofs` and `SignInProofs`) are about waits, not about time:
of the requests in flight one is not `Blocked`, so that rows and indexes are never waited for in a circle. `Blocked` is the
negation of the lock guards. In `SignInProofs` whoever is blocked may hold locks itself, and the proof goes along their order:
a refresh holds the row of its token while its INSERT waits for the users row, whose writer may wait for the number
(`RowWaitEnds`); who has entered that (`PhoneWaitEnds`) or has inserted its token (`NoWaitBeforeCommit`) waits for nobody any more.
In the bounds of `devices`, `compost` and `sign_in`, TLC finds it equivalent to the step's not being
ENABLED. The three `RequestsAreShort` theorems are about length: `Left` bounds the awaits a request still has, each step of its own
lowers it, and nothing another request, a failure or an expiry does raises it. Together they are the safety part of
`RequestsEnd`: whoever is in flight can be finished, in at most `Left` steps each. What they leave to fairness is that
a scheduler does it while new requests arrive.

**Only model-checked.** The liveness properties `RequestsEnd` (twice), `EventuallyFresh` and `AlarmsEnd`: liveness under
fairness is out of the prover's reach. `SomeoneContinues` uses ENABLED; `CompostCyclesProofs!WaitsEnd` is its counterpart.
The four findings are counterexamples.

## 5. What is not modelled

* `POST /devices/demo` (a fixture), the listings, GET config: they write nothing the modules keep,
  or a row nobody else can know. The 404 of an unknown email in share ends as `Abort` does.
* Validation, response bodies, logging, cryptography, SQL of the read-only endpoints.
* `process_telemetry_alert_check` retries an exception that reaches its outer handler; every call in it
  that touches PostgreSQL, Redis or the broker is guarded inside, so that only `Evaluate`, pure
  computation, is left to raise one.
* Dropped MQTT messages change nothing. A payload that is not UTF-8 ends paho's thread: arrivals stop,
  which no property assumes not to happen.
* TimescaleDB: `Publish` takes no reading older than retention keeps; chunks are of one day, not seven; compression changes no
  answer; averages and labels are left out, a query being the set of readings it is made from.
* The alert list: count and rows in two statements, as `list_waste_logs`, which `CompostCycles` models.
* Passwords, access tokens (stateless: `CurrentUsers` is whoever has a row), `is_active`, which no code changes; push token and
  display name, columns of one's own row with no check. Codes differ from each other: the fixed code of a development
  setting would make every verification of any code succeed. A transport error of the SMS provider ends as `Abort` does.
* Labels, notes, kinds and weights of cycles and logs. `schemas/cycle.py:32` documents the order active, curing, completed of the
  statuses; the code does not enforce it, and neither does the module: any status may follow any other, and a batch made active
  again keeps its `ended_at`. Its properties hold without that order.
* `PATCH /cycles/{id}` returns the ORM row, whose `updated_at` the flush has expired; reading it for the response may raise, and the
  request rolls back (`Abort`). The module lets it commit as well, which allows more than the code does.
* The presigned URL: computed locally.

## 6. Plan

Done: the modules of section 2, and proofs of every safety property and of the three refinements. What could be added:

1. The bound on steps of section 4 for the tasks of `AlertPipeline`, whose retries and repetitions are bounded too.
2. `POST /devices/demo`, the alert list and the push token, if they come to share state with the modules.
3. The findings, when the code changes: each has a run that shows it, and a property that would then hold.
