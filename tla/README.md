# oicp-kit: a verification project

oicp-kit is a Rust toolkit for OICP 2.3, the hub-and-spoke roaming protocol in
which charge point operators (CPO) and mobility providers (EMP) talk only to a
broker (Hubject). This directory holds TLA+ models of its stateful parts, the
TLC configurations that check them on small instances, and TLAPS proofs.
`PROJECT.json` lists every component, run, mutant, mapped definition, finding
and hazard; this file explains them.

## 1. The system

| Component | State | Operations | What must hold |
|---|---|---|---|
| Delta engine: `sync/planner.rs`, `sync/mod.rs`, `sync/repository.rs` | the copy of the EVSE world, the watermark (`last_call`) | `begin`/`plan`, `apply` per page, `commit` | no change is lost whatever is abandoned; a crawl ends in a snapshot; the copy converges |
| Snapshot file: `sync/file.rs` | file on disk, records in memory, `dirty` | `open`, `save` (temporary file and rename) | a crash leaves the old or the new snapshot |
| Mock broker, EVSE data: `testkit/mock.rs` | records per operator, a history of the last change of each charging point | `push_evse_data`, `pull_evse_data` | a delta reports every change after `LastCall` |
| Mock broker, sessions: `testkit/mock.rs` | sessions, CDRs, notifications, events, next session number | `authorize_start/stop`, `remote_start/stop`, `submit_cdr`, `notify` | one CDR per session, a session is stopped by its own medium |
| Mock broker, status: `testkit/mock.rs`, `testkit/server.rs` | the last status pushed of each charging point | `push_evse_status`, the three pulls that share an endpoint | an EMP is told what was last acknowledged, and of every point |
| Push planner: `sync/push.rs` | none (the caller's last snapshot) | `plan`, `into_requests`, `full_load` | sending the requests makes the broker's fleet the current one |
| HTTP client: `client/http.rs`, `client/retry.rs`, `transport/error.rs` | the attempt counter of a call | `post`, `post_raw`, `should_retry`, `backoff` | a call that is not idempotent is sent at most once |
| EMP client: `client/emp.rs`, `emp/page.rs`, `transport/query.rs` | the page cursor of a crawl | page walk, tolerant decoding | every record once, or reported as skipped |
| CPO client: `client/cpo.rs`; identity: `client/identity.rs` | none | one call per operation, validated before it is sent; a certificate check that logs a warning | what conforms is sent, arrives as it was composed, and its answer is the partner's |
| Calibration-law checks: `eichrecht/check.rs` | none | `CdrCheck::run` | a record without findings is accepted; one a driver cannot verify has a finding |
| Servers: `server/*`, `testkit/server.rs` | none | route, decode, validate, dispatch to a service trait | a service acts only on what was asked of it, and its answer is what the caller is told |
| Endpoint table: `transport/endpoint.rs` | none | path building and matching | a path identifies its operation |
| Wire model, messages: `cpo/*`, `emp/*`, `types/number.rs`, `types/identification.rs` | none | parse, validate, write back | a truthful message conforms; a number is not rounded silently; one credential is read the same by all |
| Wire model, tariffs: `cpo/pricing.rs`, `emp/pricing.rs` | none | parse, validate | a session can be priced with what was quoted |
| Wire model, points: `types/geo.rs`, `types/opening.rs`, `types/ids.rs` | none | notations, "is it open", equality | a position survives its notations; the answer is the gate's; one operator per point |
| CLI: `bin/oicp.rs` | the snapshot file | `pull`, `push`, checks, mock server | as the delta engine |
| `testkit/scenarios.rs`, samples, xtask, benches, fuzz, site | – | – | tooling |

How they interact: an EMP's `pull` asks the planner for a plan, walks the
broker's pages over the HTTP client, applies each page to its repository, and
commits the watermark at the end. CPOs push into the broker at any time. The
broker handles each call under a mutex. A driver's session runs
authorize-start, stop, CDR through the CPO client, or remote-start through the
EMP client. Every message is validated by the sender's client, by the broker,
and once more by the receiver's server, each time after a trip through JSON.

What is hard: operators push between the pages of a crawl; two clocks stamp
and compare the watermark; a crawl may stop after any record; the broker may
forget old changes; a request's answer may be lost after the broker acted on
it; a decimal passes through a binary float; windows run past midnight in an
offset of their own. `PROJECT.json` "hazards" lists each at its line.

## 2. Modules

Ten parts, each a few modules; an arrow is EXTENDS, a double arrow a refinement.

    sync      EvseData -> HubjectEvse, DeltaEngine -> EvseSync
    push      HubjectEvse -> PushSync
    snapshot  SnapshotFile => SnapshotStore
    crawl     CrawlPages
    calls     Endpoints -> ClientCalls
    sessions  HubjectSessions => SessionLedger
              HubjectSessions, ClientCalls -> RoamingCalls
    status    ClientCalls -> StatusBoard
    settle    Conformance -> CdrCheck -> Settlement
    point     Positions, OpeningHours, Identifiers -> PointRecord
    exchange  Identifiers -> Credentials -> Tariffs -> Messages
              ClientCalls, Messages -> Exchange

An `MC*` module names the model values and functions of a part's runs, and an
`*_proofs` module holds its theorems; `EmpReads_proofs` those of the crawl and
of status, `RoamingCalls_proofs` those of sessions and calls.

### The copy of the EVSE world

`EvseData` is the vocabulary: charging points (ranks in EvseID order, since
pages are cut along that order), opaque record bodies, pull records, and the
arithmetic of a page (`PageKeys`, `LastPage`).

`HubjectEvse` is the broker's EVSE data. `world` is `Inner::evse_data`,
`history` is `Inner::history`, `now` its clock. A push is one step because the
code holds the lock throughout. `PushUpsert` stands for `insert` and `update`,
which the code treats alike; `PushFullLoad` clears the operator's map first,
and so tags everything it sends `Insert` and leaves no trace of what it does
not send. `Forget` is external: the documentation of `sync/mod.rs` says that
Hubject's retention is unknown; the mock forgets nothing. `Page` is
`pull_evse_data` with `paginate`.

`DeltaEngine` is the EMP: `copy` and `lastCall` are the repository, `phase`,
`plan` and `answer` are where the pull's loop stands. `Begin` is
`Planner::begin_at` (or the CLI's `plan` and `clear`), `Receive` a page's
arrival, `ApplyPage` one call of `sync::apply` and the move to the next page,
`Commit` is `Planner::commit` (with `save` for the CLI). `Fail` returns early
with an error after any record; `Crash` kills the process. `Storage` says what
survives: everything applied so far ("database"), the file as the last commit
left it ("file"), or nothing after a restart ("memory").

`EvseSync` composes the two with the EMP's clock (`now + skew`) and states the
properties.

### The push of a fleet

`PushSync` is a CPO's job over the same broker. `fleet` is its backend,
`snapshot` what `PushPlanner::plan` compares it with, `plan` what the requests
of `into_requests` still have to carry. `StartPlan`, `SendRequest`,
`Acknowledge` and `GiveUp` follow `push_evse_data_plan`, which sends request
after request and returns the first error. `Deliver` is the broker's push;
`AttemptFails` is a timeout or a broken connection, before or after the broker
has acted. What a job does after a failed plan is its user's decision and a
variable, `afterFailure`: finish that plan ("repeat"), start over with
`push_evse_data_full_load` ("rebaseline"), or plan again from the old snapshot
("replan").

### The snapshot file

`SnapshotFile` is `FileEvseRepository` over a directory whose files keep their
identity through a rename. `Create` and `WriteChunk` are what `std::fs::write`
does to the temporary file, `Rename` puts it in place, `SaveFails` and `Exit`
interrupt a save anywhere. `FirstRun` and `Load` are `open`. `SnapshotStore` is
what this promises: a store whose whole contents are replaced at once.

### The crawl

`CrawlPages` is `EmpClient::crawl_evse_data`. `query` is the state of `unfold`,
`items` what `flat_map` has not handed out, `yielded` what the caller has had,
item by item (`Poll`).
`FetchPage` is a page with the whole of `decode_page`: `Follows` is its `next`,
`Complains` its `complaint`, `Decode` its treatment of each record. The broker
is external and gets `last`, `totalPages` and the contents right or wrong as
`broker` says, which is chosen at the start.

### Sessions and calls

`HubjectSessions` is the mock broker's sessions, CDRs and event log. The
handlers of `authorize_start` and `remote_start` take the lock several times;
each acquisition is a step (`KnowsEvse` ... `Insert`), so that a push, another
start or a stop can come between. `authorize_stop`, `submit_cdr` and `notify`
hold it throughout and are one step. `SessionLedger` is what the broker
promises: sessions are opened once, keep their terms, and are settled at most
once.

`ClientCalls` is the HTTP client: `Send`, `Receive` and `TransportError` are
the loop of `post_raw` with `attempt`; `ShouldRetry`, `IsRetryable` and
`IsIdempotent` are the retry policy. An answer is kept per attempt, since the
answer to an earlier attempt is never read.

`RoamingCalls` composes them. Requests may arrive at any time after they were
sent, also after their attempt was given up; a gateway may answer in the
broker's stead; a call that names a session names the one its start was
answered with.

### Status

`StatusBoard` has two kinds of call over the same client. `real` is the
operators' world, `live` what of it is published, `statuses` is
`Inner::evse_statuses`, as the index into `real` of what was told last.
`carried` is the body of a push (`ServePush` inserts without asking for the
action type, so all pushes are updates), `question` the body of a pull,
`told` the answer to the attempt its caller waits for. `AnswerTo` is the
router, which tells the three shapes apart by trying to decode them: an
`OperatorID` is an extension field to the shape it then takes. `span` is not in
the code; it remembers what an answer is to be judged by: what was published
all the time or at some time while the pull ran, and which pushes had been
acknowledged before.

### The figures of a session

`Conformance` is the validation of the session messages (authorization, charge
detail record, the four notifications) and of the numbers in them: a message is
a record of times, amounts, identification and signed readings, and `Conformant`
has one conjunct per rule. `Decoded` is the trip through JSON, where an amount
becomes the nearest float; `CdrCheck` is the calibration-law check, a set of
findings per rule. `Settlement` is the way of a message: `Compose`, `Check` and
`Post` are the operator and its client (`validates` is
`ClientConfig::validate_requests`), `RejectBody`, `Refuse`, `Open` and `Book`
what the broker does with a request, with the codes of `submit_cdr`, `notify`
and `authorize_start` in the order of their early returns, `Receive` the
provider's server (`lenient` is what its `on_invalid_request` decides), `Hear`
and `GiveUp` the end of a call. Here the handlers are one step each; how they
interleave is the subject of `HubjectSessions`.

### The record of a charging point

`Positions`, `OpeningHours` and `Identifiers` are the pure parts. An angle is a
whole number of 1/9,000,000 of a degree, in which the sixth decimal of a degree
is 9 and a hundredth of a second is 25: both steps are odd, so no rounding is
half way, and how the code breaks ties makes no difference. (A survey with more
decimals than this unit has is the one thing this leaves out.) An offset is a sign, hours
and minutes, or a text that is none; a period is two minutes of the day, or an
illegible one; an identifier is its parts, as symbols, and a spelling that
equality must ignore.

`PointRecord` is the life of a record: `Compose` is `from_decimal_degrees` and
`to_format`, `Push` the broker's acceptance of it, `Pull` and `Rewrite` its way
to an EMP, and at every `Tick` the EMP asks `IsOpenAt`. The gate of the site is
external: `closings` remembers when the windows that have begun will end, step
by step along the clock, where `IsOpenAt` computes the answer from the weekday
and the minute alone.

### The exchange of requests

`Endpoints` is the endpoint table: a path is the sequence of its segments, and a
template has one slot for an identifier. `Path`, `Matches`, `FromPath` and
`CallerPathId` are the functions of `Operation`; `Routed` is what the two routers
answer to. `Credentials` has the identifiers and identifications that
`Identifiers` lacks, by member of the wire's object, with
`DecodedIdentification` for the choice a decoder makes among several.
`Tariffs` is pricing, and `Messages` has what `validate` says of each of the
eighteen requests; the parts of a message that other modules detail are one
flag, `rest`.

`Exchange` composes them. `Post` is `Transport::post` with its early returns
(validation, URL), `Repeat`, `Receive` and `TransportError` are `post_raw`.
`Serve` is the whole of a server: route, decode, `accept`, and what the service
decides. Every party has a role, an identifier it writes into its paths, a
`validates` (`ClientConfig::validate_requests`) and a `lenient` (what its
`on_invalid_request` decides). Between them the broker is Hubject's own and
external: it compares the identifier in the path with the certificate as text
(`Take`, code 017), routes a remote operation by the charging point's operator
and the rest by the contract's provider (`Forward`), passes the partner's answer
on (`Return`) or gives it up with 310 while the partner may still act
(`GiveUp`), and keeps tariffs, which it only adds to.

## 3. Properties

Every part has one type invariant, which also says what its counters and
cursors may be. The others:

* `NothingLost`: between crawls, if the next pull would be a delta, that delta
  reports every charging point the copy is wrong about. This is the promise of
  `sync/mod.rs` ("applying any sequence of deltas leaves the same state as a
  full pull") and of `sync/repository.rs` (a crash "costs a repeat, not a
  corruption"), in the form of an invariant.
* `CrawlIsSnapshot`: when the last page has been applied, whatever the copy is
  wrong about was pushed after the crawl began and comes with the delta from
  its mark.
* `Converges`: the EMP is in step with the broker again and again.
* `InStep`: when no failed plan is owed, the broker holds what the last plan
  was for. `DeletesLast`: while a plan runs, nothing is gone before all that is
  new is there. `NeverBlinks`: a point that stays is never off the network.
  `EventuallyInStep`: when the fleet rests, the broker comes to hold it.
* `NeverTorn`: a snapshot under its name is whole and its own. `CleanIsStored`:
  a repository without unsaved changes is what its file holds. `KeepsStore`:
  the refinement of `SnapshotStore`.
* `CrawlIsFaithful`: as far as the broker's `last`, its totals or its contents
  are right, a crawl that ends without failing on a page has yielded or reported
  every record, or said what is wrong with the pages, or ended silently
  (`NothingMissed`). It ends silently (`EndsSilently`) on a page that is empty and
  says `last` while its `totalPages` promises more; that is the one disagreement
  `decode_page` does not yield (section 5), and the property excepts it by name.
  If the contents are right, what is yielded is a prefix of the listing
  (`NothingTwice`), and a broker that gets its pages right is not complained of
  (`NoFalseAlarm`). `CrawlEnds`: a crawl does not go on for ever.
* `RemoteStartsOnce`: the attempts of a remote start open at most one session.
  `AnswersAreTrue`: what a caller is told has happened at the broker, to the
  session it means (`ReportsAreTrue`), and a CDR refused as "session is
  invalid" is not lost money (`RefusedCdrIsSettled`). `StoppedByItsMedium`: nobody stops a session with
  another contract or card. `LogIsConsistent`: the event log is a possible
  story. `KeepsLedger`: the refinement of `SessionLedger`. `CallsEnd`: a call
  ends whatever the network does.
* `StatusIsFresh`: no repetition of an earlier push takes the broker back
  behind one that was acknowledged (`AcknowledgedIsTold`), an EMP reads
  nothing older than what was acknowledged when it asked (`ToldIsFresh`), and a
  pull by status misses no point that has had the status since (`ToldByStatus`).
  `NothingIsOmitted`: a pull by id tells of every id asked and of no other; one
  without a filter, of every point published all the while and of none that
  never was; one by status, only of points that had the status. "Not found" is
  said of no point that was published all the while. A pull by `OperatorID` is
  held to what this mock does, not to what it promises: its router takes it for
  the one without a filter (`AsksForAll`, section 5), and the answer has other
  operators' points too.
* `BookedIsPossible`: a charge detail record on the broker's books tells of a
  charging process that can have happened. `TruthfulIsServed`: a message that
  tells the truth is refused for its content by nobody. `FiledIsBooked`: what
  an operator was acknowledged for reads on the broker's books as in its own.
  `BooksAgree`: the provider's service is given what was booked.
  `ChecksAreTrue`: whoever checked a record with unverifiable readings was told
  (`UnverifiableIsTold`), and a record without findings is accepted
  (`CleanIsAccepted`).
* `PositionStays`: however often a position changes its notation, it stays
  within three roundings of the survey. `OpenWhenOpen`: what `is_open_at`
  answers is what a driver finds at the gate. `OneOperatorPerPoint`: no two
  operators hold the same charging point.
* `AnswerIsVerdict`: a yes is a partner's yes to this very operation, whatever
  was lost or late; a call that failed before it was sent was done by nobody; a
  remote operation that was refused was not done, and none is done twice. The
  one answer that says nothing is 310. `DoneAsAsked`: a service acts at its own
  charging points or for its own driver, on one credential of those the caller
  showed, and, unless it overlooks rules, on a contract of the provider that
  asks. `CatalogueIsPriceable`: what a client that validates has
  pushed, a provider can price: one product by one name, at most one floor and
  one ceiling of a unit, in this order, and a fixed fee that is alone.

`StartsOnce` and `ComposedConforms` restate sentences of the source that the
code does not keep (section 5).

## 4. Runs, bounds and fairness

`SyncFile` checks the sync's safety and `Converges` for the CLI's snapshot file;
a write-through repository is the subject of the proofs and of `SyncRebaseline`. Two charging
points of two operators are enough for a page boundary inside the world (page
size 1), for a push on either side of it, and for a push by an operator whose
records are on the other page. Two pushes allow a change before or during a crawl
and one after it; an abandoned crawl can be repeated; the times 0..5 allow
watermarks that are fresh, on the limit and too old, with history forgotten. The
clock is stepped while the EMP runs, and re-baselines are forced.

`Push` has two points with two bodies, four changes of the fleet and two failed
attempts: a point can be inserted by a failed plan, change and go before the
next. `MaxPushes` (100) is never reached there.

`SnapshotOwn` has two processes, snapshots of two chunks and two changes: a
file half written, one written for an older repository, and one overwritten.

`Crawl` has up to three pages of two records, any of them malformed, and
`totalPages` up to one more than there are: a crawl has a first, a middle and a
last page, and can be led past the end.

`Calls` has three stories: a start, a stop with the driver's card and one with
somebody else's contract; the start and the stop with a push that changes the
charging point and gateways that answer 5xx in the broker's stead; and a remote
start, a notification, its CDR and a CDR for another charging point. Each call
may be retried once, which is enough for a request to overtake its repetition.

`Status` has two pushes of one operator, which carry one point or both, and a
pull of any shape; one change of status, one point published or withdrawn, and
one retry of each call. The second push may carry what the first did not, or
its own change of it, and the pull may fall anywhere.

`Settlement` has one session, two charging points and two calls. The drafts are
the correct messages of two charging processes and each of them with any one
field changed or left out, so every rule of the validation decides some draft.
The floats are -3, -1, 0, 1, 2 and 4: the reading 3 is one a float does not
hold, and 3 signed values are more than the client sends.

`Point` has 17 sites, each on an edge: the poles and the date line, a position a
rounding below a whole degree, minus zero, windows past midnight at every kind
of day, two windows a day, empty, endless and illegible ones, offsets of half
hours and of fourteen hours, and offsets that are not read. The clock runs from
Friday noon to midnight after Monday in steps of 90 minutes, on which all
windows begin and end. Four rewrites reach the limit of every sequence of
notations. Six identifiers are enough for two spellings of one, an operator part
of the wrong length, and two operators whose parts run together.

`Exchange` has two CPOs and two EMPs: of each one that uses the library as it
comes, and one that neither checks what it sends nor refuses what it gets; and
two callers whose path is wrong, in the kind of the identifier and in its
spelling. Every operation is called by every party that may, with each message
that breaks one rule, or none. A behaviour is one call with its retry, or a push
of tariffs and a pull of them: nothing else two calls do to each other passes
through this part.

Fairness: `SyncFile` assumes weak fairness of `Pull`, which is run on a schedule
and each step of which is the next line of one sequential program; nothing is
assumed of operators, clocks or failures. `Push` assumes that the job goes on
trying and that a request that is not lost is served. `Crawl` assumes that the
caller drains the stream and that a request which does not fail is answered.
`Calls` assumes that the client's runtime keeps running, so that timeouts
fire and sleeps end, and nothing of the network or the broker. Failures are
bounded (`MaxFailures`), so they stop; that is part of what the liveness
properties say.

Deadlock is checked where the system never stops: the sync and the snapshot
runs (`open` succeeds on whatever a save has left there; a torn file would
show as `NeverTorn`). A crawl ends, a set of calls ends, an operator has only so
many messages, the clock of a week ends, and a push job with nothing to do
waits: those runs say `CHECK_DEADLOCK FALSE`.

Every bound is a constant used in a guard: `MaxPushes`, `MaxFailures`,
`MaxTime`, `MaxChanges`, `MaxMoves`, `MaxPages`, `MaxTotal`, `Stories`, `MaxCalls`,
`MaxRewrites`, `End`, `Together`, `MaxRetries` (the client's own limit).

What the properties need is an ASSUME, or a constant that a run and a theorem
fix. The code does not enforce these, and giving the constant its other value
makes TLC show why each is needed:

| Assumption | Without it |
|---|---|
| `MaxSkew < Guard`: the clock skew guard is wider than the skew, as `PlannerConfig` documents | changes fall before the watermark |
| `MaxDeltaAge + MaxSkew <= Retention`: the broker remembers as long as the planner trusts a watermark | a delta silently returns less |
| `QuietFullCrawls`: no withdrawals while a full crawl of several pages runs | `CrawlIsSnapshot` fails: pages are offsets into the listing of the moment, a withdrawal moves a live record from the page to come to the page just read, and no delta reports it (`testkit/mock.rs` says "a crawl is stable across pages") |
| `~FullLoadsWithdraw`: a fullLoad sends every live record again | `NothingLost` fails: the mock's fullLoad leaves no tombstone for what it leaves out |
| write-through repository: `~MayForce`, `~ClockMoves` | finding 1: the code can reach a full pull over a fresh watermark in only these two ways |
| `"replan" \notin Habits`: a job does not plan again from a snapshot a failed plan has made untrue | `InStep` fails: a point the failed plan inserted and that is gone since is never deleted. `push_evse_data_plan` does not say which requests succeeded |
| `~Late`: a push does not outlive its attempt | `InStep` fails: the first copy of a retried insert arrives after the plan that deletes the point. `client/retry.rs` calls a push "idempotent by construction", but nothing orders it. `StatusIsFresh` fails in the same way |
| `Private`: processes share no snapshot and no temporary name, and no snapshot is named `*.tmp` | `NeverTorn` fails: one process renames the file another has just emptied; `with_extension("tmp")` of `x.tmp` is `x.tmp` |
| `~ReadsFail`: a snapshot that exists can be read | `CleanIsStored` fails: `open` takes any read error for a first run (`sync/file.rs:87`), and the next save replaces the snapshot |
| `NumberingPlan`: no country code begins another, as E.164 has it | `OneOperatorPerPoint` fails: `+1*234*56` and `+12*345*6` are compared without their separators and are equal |
| `SiteAssumption`: an operator that writes an offset writes its site's | `OpenWhenOpen` fails, rightly |
| `~RetryNonIdempotent`, the default | `RemoteStartsOnce` and `AnswerIsVerdict` fail |
| `BodiesAssumption`: what a client of the library builds shows one credential, and a remote identification names a contract (both are types of the source) | `DoneAsAsked` fails: the broker may route by one credential and the service act on another |

## 5. Findings

1. `SyncRebaseline`: `begin` clears the copy and keeps the watermark. A forced
   re-baseline abandoned after its first page leaves a partial copy that the
   next plan takes for the base of a delta.
2. `CallsStartTwice`: `AuthorizeStart` counts as idempotent, so one whose answer
   is lost is retried and opens a second session.
3. `PointComposed`: the grammar of a coordinate strips a leading 1 before it
   counts the digits of the degrees, so a position between one and two degrees,
   north or south, east or west, is refused by the crate that composed it.

Met while modelling, without a run of their own:

* An empty page that says `last` while `totalPages` promises more ends a crawl
  in silence (`client/emp.rs:90-92`, where the complaint depends on `last` alone;
  the comment at 78-79 says that "every disagreement is yielded"). The model does
  so too: without its exception `EndsSilently`, `NothingMissed` fails in the
  `crawl` run.
* `open` takes every read error for a first run (`sync/file.rs:87`).
* The mock's router tries the by-id shape and takes every other status pull for
  the general one, so a pull of specific operators is answered with the
  charging points of all (`testkit/server.rs:183-188`), although line 182 says that
  the three "are told apart by their body" and `client/emp.rs:342` that the answer
  is "of specific operators". In `StatusBoard` it is answered so too, and
  `AsksForAll` says it. `push_evse_status` ignores
  the action type and the operator: a status `delete` sets a status, and the
  status of a withdrawn point is kept and still found by id.
* `eichrecht/check.rs:129` says that an imprecise number will settle, and
  `is_submittable` counts it as submittable; the default client refuses it, and
  one that does not validate lets the float settle, which may break the identity
  of energy and meter readings.
* More than ten signed values are an error of the validation, and so of the
  check, which reports what the validation does (`eichrecht/check.rs:126-138`): a
  record that the meter signed more often cannot be sent with the default client.
* Notifications are checked for less than charge detail records: their meter
  readings may run backwards.
* `cpo/remote.rs:252` says that a hub provider, which asks for other providers'
  drivers, gets "a report, not a refusal"; but the default client
  (`client/http.rs:112`) and the default server (`server/cpo.rs:155`) refuse what
  `validate` reports.
* `types/identification.rs:474` says that of several members the others are
  reported by `Validate`; nothing keeps or reports them.
* Nobody compares the identifier in the path with the operator or provider in
  the body, and a client that writes `DEGHI` where its certificate has `DE*GHI`
  is not warned (`client/identity.rs` compares without separators) and gets 017.
* `EmpClient` has no method for the two reservation operations.
* The currency of a default price is never looked at, and a provider may be
  quoted one product twice, by its own block and by the one for all.
* A time zone may conform and not be read (beyond `UTC+14`, or with minutes past
  59): the answer is then "unknown".

## 6. Proofs

TLAPS proves, for every value of the constants that the assumptions allow:

* `EvseSync_proofs`: `TypeCorrect`; and, under `Careful` (the third to the fifth
  assumption of the table), `NothingIsLost` and `CrawlsAreSnapshots`.
* `PushSync_proofs`: `PushTypeCorrect`; and, if `~Late` and `"replan"` is no
  habit, `PlansBringInStep` (`InStep`), `PlansNeverBlink` (`NeverBlinks`) and
  `PlansDeleteLast` (`DeletesLast`).
* `SnapshotFile_proofs`: if `Private` and `~ReadsFail`, `FilesTypeCorrect`,
  `SnapshotsAreWhole` (`NeverTorn`), `CleanIsOnDisk` (`CleanIsStored`) and
  `FilesKeepStore`, the refinement.
* `RoamingCalls_proofs`: `LedgerIsKept` and
  `CallsKeepLedger`, the refinement of `SessionLedger` by the broker alone and
  with its callers; whatever is retried, `CallersAreToldTheTruth`
  (`AnswersAreTrue`), `SessionsStopByTheirMedium` (`StoppedByItsMedium`) and
  `LogsAreConsistent` (`LogIsConsistent`); and, if `~RetryNonIdempotent`,
  `RemoteStartsHappenOnce`.
* `Settlement_proofs`: `DeliveredIsBooked` (`FiledIsBooked`), `ProviderHasTheBooks`
  (`BooksAgree`), `ChecksTellTheTruth` (`ChecksAreTrue`), `SettlementTypeCorrect`
  and, of instants and readings in whole numbers, `TruthIsServed`
  (`TruthfulIsServed`); when any whole number may be one, `BooksArePossible`
  (`BookedIsPossible`).
* `PointRecord_proofs`: `PointTypeCorrect`, `PositionsStay` (`PositionStays`),
  `DriversAreToldTheHours` (`OpenWhenOpen`) and, by `NumberingPlan`,
  `PointsHaveOneOperator` (`OneOperatorPerPoint`).
* `Exchange_proofs`: `ExchangeTypeCorrect`, `ServicesDoAsAsked` (`DoneAsAsked`),
  `QuotesArePriceable` (`CatalogueIsPriceable`) and, if `~RetryNonIdempotent`,
  `AnswersAreVerdicts` (`AnswerIsVerdict`); of messages they assume what their
  types say (`BodiesAssumption`). And of the endpoint table, with no assumption,
  `PathsTellOperations`.
* `EmpReads_proofs`: `CrawlTypeCorrect` and `CrawlsAreFaithful`
  (`CrawlIsFaithful`), for any number of pages; `BoardTypeCorrect` and
  `NothingIsLeftOut` (`NothingIsOmitted`), however late requests arrive; and, if
  `~Late`, `StatusesAreFresh` (`StatusIsFresh`).

None of these properties is inductive.

`NothingLost` speaks of the copy between crawls, but a crawl can be abandoned
at any moment, so the invariant (`IInv`) must say of the *surviving* copy
(`Kept`: the copy, or what the file still holds) that a delta from `lastCall`
repairs it (`KeptInv`), and of the page in flight that applying any part of it
keeps this so (`PageInv`). `CrawlIsSnapshot` needs the progress of a crawl:
whatever the copy is wrong about was changed after the mark, or is still ahead
in the listing (`AskingInv`), or is on the page that has arrived
(`ApplyingInv`). The step over a page boundary rests on a lemma about ranks: a
key that is behind the boundary after a push was behind it before, unless the
push itself is newer than the mark. Each part is true or the watermark is
`Hopeless`: so old that no reading of the EMP's clock can use it, which is
where the history may have been forgotten.

`InStep` speaks of the broker when nothing is owed; in between, `PushInv` says
that the request on the wire is the one that is due, that every point is what it
was or what it is to be (`OldOrNew`), and that what no request will carry any
more has its new value. A failed plan leaves a mixture of old and new, from
which the same plan or a fullLoad still leads to the target, but no plan for
another target does. That a plan deletes last is seen over the plan and its
repetition together: `UpsertsFirst` says that no point is gone while an upsert
of the same target is missing, wherever the first attempt broke off.

`NeverTorn` needs that the file under the temporary name is the one its owner
writes, that it holds a prefix of the owner's snapshot while it is written
(`WritesBeside`), all of it before it is renamed (`RenamesWhole`), and that no
two names lead to one file (`NamesApart`), which a rename keeps.

The ledger is kept because a session number taken under one lock is still fresh
when the session is inserted under a later one (`NumbersFresh`), and because
what is settled stays settled (`CdrsSettle`). A remote start happens once
because no second attempt of it is ever sent, and the broker serves only what
was sent (`OnlySentIsServed`). What a caller is told stays true: `TruthInv`
says that a handler serves the call that reached it, that an answer which says
yes holds of the session it names, on its way and when the call has ended with
it, and that a settled session has its record; and a session only grows
(`Grows`), so that nothing takes back what held of it. `LogInv` says that what
is in the log is of a session the broker has, and that every session has its
opening there.

The books rest on what a second trip through JSON does, which is nothing: the
nearest float to a float is itself (that there is a nearest one is shown by the
order of the distances), and a message that conforms is decoded to itself
(`Stable`). `Underway` says that what travels is what was composed, under the
number of its call, so that an answer is about the message its operator still
holds; `Kept` that every entry came of such a request and that the provider has
it or is about to. Both halves of the refusals meet in `Held`: a message that
was refused for its content is `Blamed`, which stays true because a session
keeps its charging point (`Grows`), and a plain message about a possible process
breaks no rule of its kind (`TruthConforms`). A record whose signed readings
cannot be verified although each is signed either lacks a status or has one out
of order (`SequencesAreChecked`); `Held` says that what was found is what the
check finds of the message that was filed.

A coordinate has only three readings, whatever its history: the survey rounded to
a decimal (`Fixed`), that rounded to seconds (`Sexagesimal`), and that rounded to
a decimal again (`Back`); the last two lead to each other, because a decimal is
the finer of the two grids (`RewritingKeepsReadings`). That the parts of an angle
in seconds add up to the rounded angle is `DmsIsRead`. Two identifiers that read
alike have country codes of one length, or one would begin with the other
(`CountriesAsLong`); then their operators are the same first symbols. The gate of
a site is followed from the moment the clock is started: `Gates` says that it is
open until the ends of the windows that began since then, today or yesterday, and
still run. No window lasts longer than a day, so that after a day these are all
there are, and they are what `is_open_at` asks for (`CoversIsRunning`).

A caller sees an answer, never the deed, and the two may be two attempts apart.
`RequestInv` follows one request: it has no answer while the broker or a partner
holds it, except that the partner did not respond, after which the partner may
still act (`abandoned`); and each answer is a `Verdict` on what was done about
its own request. `DoneInv` says that what was done is of a partner the broker
may choose, and once per request; `OutcomeInv` that the end of a call is one of
its answers and that a remote operation has no second attempt, so that its
requests are one. A path leads to no other operation's route because the table's
rows differ outside their slots (`TemplatesDiffer`: by their length, or by their
first, third and last segments). Tariffs are priceable because the floor of a unit, where there is one, is itself a price
within its ceiling (`ConformingIsPriceable`).

A crawl is judged at its end by what it said on the way, so `CrawlInv` speaks of
the `Stream`, what the caller has had with what it will have without another
request, and a `Poll` leaves that alone. All records in it are of pages that
were asked for (`Asked`), they stand in the order of the listing except where the
last page is repeated (`Sorted`), and of the pages asked for none is missing
unless something was complained of or the crawl ended silently (`Whole`): the one
fetch that could leave a gap is an empty page before the end. If `last` is right,
it is complained of; if only the totals are, not when the page says `last`.
At the end, `Walks` says that the last page was not to be followed, by whichever
of its two counts the crawl went; that is where the assumptions of
`NothingMissed` decide that it was the last. A sound broker is never asked past
its end (`Unalarmed`).

A push that was acknowledged stays told because an operator makes one push after
the other: `PushesInTurn` says that no push is on its way while an earlier one
of the same operator is, and that what a later one carries is not older. So the
broker, when it takes a push whose attempt is still waited for, has answered
none that is later, and can only be brought forward (`AnsweredIsTold`, of all
that was answered, whether or not the answer came back). With `Late` this step
fails. What a pull read was at least what had been acknowledged
(`ReadIsFresh`), because statuses only grow, and the filter of a pull by status
dropped no point that has been in that status since (`FilterIsRead`). What the
broker holds of a point is something the point did (`ToldIsReal`), so a pull by
status tells the truth; this and the rest of `NothingIsOmitted`
(`NothingIsUnread`) holds from the moment the broker answered the attempt that is
still waited for, and needs no order of pushes.

## 7. Only model-checked

`Converges`, `EventuallyInStep`, `CrawlEnds` and `CallsEnd` are liveness, which
the prover does not do. Every other property of a passing run is a theorem.

## 8. Not modelled

* What a power failure does to a file that was written and renamed but never
  synced: it depends on the file system.
* Texts: the grammars are modelled by what they tell apart, never character by
  character, and a field that no property speaks of is one of `wordy`.
* `remote_stop` of the mock broker (`mock.rs:634`): it looks the session up and
  composes a request, and changes nothing. A reservation the mock does not
  have. (As operations between client and server both are part of `Exchange`.)
* How several calls meet at one server: the library's servers keep nothing, and
  what a service keeps is its user's.
* The backoff between attempts (a sleep here has no length); certificates, whose
  check only logs a warning; the page walk of the CDR pull, which is the
  crawl's; charging pools and stations; the scenarios and the tooling.

## 9. Plan

Done: the sync, the push, the snapshot file, the crawl, sessions and calls,
status, the figures of a session, the record of a charging point, the exchange
of requests with its endpoint table, identifiers and tariffs.

1. The backoff at the limits of its integers.
2. Status pushes of other action types.
