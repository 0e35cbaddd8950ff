# Verification of the event correlator

TLA+ models, TLC configurations and TLAPS proofs for the event correlator
toolset: the Go and the Python implementation of `ingest_trade_event`,
`sweep_expired_trades` and `get_audit_history` over one PostgreSQL database.
Paths below are relative to the repository; `GO/` stands for
`go/toolsets/event-correlator/src/` and `PY/` for
`python/toolsets/event-correlator/src/src/event_correlator/`.

## 1. Inventory

| Component | Code | State it keeps | Operations |
|---|---|---|---|
| Correlation rules | `GO/internal/correlator/engine.go`, `PY/engine.py` | none (a configuration) | `Ingest`, `Sweep`, `AuditHistory`; `buildReconciled`, `buildBreak` |
| Store interface | `GO/internal/store/store.go` | the promise: pending rows, audit log | `Ingest`, `SweepExpired`, `GetAudit`, `Migrate`, `Close` |
| PostgreSQL store | `GO/internal/store/postgres/postgres.go`, `PY/postgres.py` | tables `pending_events`, `audit_log`; advisory locks; one transaction per trade | the same, as SQL statements |
| In-memory stores | `GO/internal/store/memory/memory.go`, `python/.../tests/test_engine.py` | a map of rows, a list of entries | the same, atomically |
| Tool handlers, configuration | `GO/main.go`, `PY/__main__.py` | none; they open and close a store per call | parse parameters and configuration, take the time stamp, call the engine |
| Schema migration | `migrations/00001_initial_schema.sql`, `embed.go` | the schema | run at the start of every call |
| Go tool SDK: runner | `GO/_sdk/samtoolsdk/run.go`, `inprocess.go`, `context.go` | `result.json`, the output directory | read arguments, load artifacts, call the handler, recover a panic, write artifacts and the result; the same without files in the host's process |
| Go tool SDK: status, IPC | `status.go`, `ipc.go` | a named pipe, a socket, a mutex | open with retry, send; request and response |
| Go tool SDK: data | `tool.go`, `schema.go`, `result.go`, `artifact.go` | none | from a parameter struct to its JSON schema, from arguments to the struct, from a result to JSON |

**Interaction.** The tool runtime starts a call; the handler opens a database
connection, migrates, takes the time, and calls the engine; the engine calls
the store and hands it a callback that builds the audit entry inside the
store's transaction; the reply leaves when the transaction has committed and
the connection is closed. Calls share nothing but the database. There is no
background process: expired trades are found only because somebody schedules
`sweep_expired_trades` (`README.md:24`).

**What is hard.** Any number of calls, of both implementations and possibly with
different configurations, run at once against the same tables. Each SQL
statement at READ COMMITTED sees a newer snapshot than the one before. A sweep
reads its list of due trades outside any transaction and claims them one by
one. A call takes its time stamp before it waits for a lock, so calls are
serialized in another order than their stamps. Any statement may fail, a process
may die between two statements, and the answer to a COMMIT may be lost.
`expected_sources` is read at every call and may change while trades are open.
No transaction names its isolation level. In the SDK, one struct is walked by
three sets of rules (schema, artifacts, decoding), the two transports repeat
the same steps in separate code, and goroutines of a handler share one
connection to the host.

**What makes it correct.** A trade gets one outcome; it keeps no rows after
that; rows go only with the outcome; an acknowledged event is a row or part of
its trade's outcome; a complete trade is reconciled by the call that completes
it; the window counts from the first event; every trade whose window has
elapsed is finalized as long as sweeps are scheduled; an outcome is handed to at
most one caller and lost to all only by a failure; both implementations write
the same outcomes, and where they do not write the same number it is known which.

`PROJECT.json` lists the hazards behind these properties at the lines where
they bite.

## 2. Modules

| Module | What it models |
|---|---|
| `EventRows` | the rows, the audit entries, and the pure functions of the engines and stores: the deadline rule of each implementation, completeness, the two audit entries, the match duration as each implementation rounds it, the panic on a negative slice capacity |
| `Correlation` | the abstract promise of the store interface: an event is recorded, a trade is reconciled, some due trades are broken, each in one step |
| `MemoryStore` | an engine over an in-memory store: each operation of the store is atomic and is an operator from the state it finds to the state it leaves |
| `EngineParity` | the Go and the Python engine, each over an in-memory store of its own, given the same calls |
| `PostgresStore` | the PostgreSQL store and its callers, one action per SQL statement |
| `MCPostgresStore` | the small instances of `PostgresStore` that TLC checks |
| `AuditHistory` | `get_audit_history` beside the calls that write the log: `recorded_at`, the order, limits and filters |
| `MCAuditHistory` | the small instances of `AuditHistory` |
| `MigrationLocks` | the schema migration at the start of every call, the table and advisory locks of all statements, PostgreSQL's lock queues |
| `ToolCall` | the life of one tool process from its argument file to its result file, and the reading of the configuration by both implementations |
| `IsolationLevels` | `PostgresStore` on a server set to another isolation level: snapshots older than the lock, serialization errors |
| `MCIsolationLevels` | its small instances |
| `ToolParameters` | the SDK's schema generation, artifact detection, coercion and decoding of parameters, as operators on types and JSON values |
| `LlmCalls` | the IPC client: goroutines, the mutex, the connection, the host |
| `ToolInvocation` | one call of a tool by both transports, composed of `ToolParameters` and `LlmCalls`: artifacts, parameters, handler, data objects, answer |
| `MCToolInvocation` | the small instances: a struct for every kind of parameter, every argument and every result |
| `EventRowsProofs` | lemmas about the rows and the entries |
| `EngineParityProofs` | theorems about the two engines side by side and their proofs |
| `PostgresStoreProofs`, `IsolationLevelsProofs` | theorems about the store and their proofs: its transactions and what they write; its isolation levels |
| `AuditHistoryProofs`, `MigrationLocksProofs`, `ToolCallProofs`, `ToolInvocationProofs` | theorems about these modules and their proofs |

### PostgresStore and the code

State: `pending` and `audit` are the committed rows of the two tables, `locks`
the advisory locks; each caller `p` has a program counter `pc[p]`, the
request it works on (`trade`, `source`, `now`), the rows its last `getEvents`
returned (`seen`), the uncommitted writes of its transaction (`ins`, `del`,
`entry`), and, for a sweep, the list still to try (`todo`) and the trades
claimed so far (`claimed`). `acked`, `reported`, `calls` and `fails` are
history variables: what callers have been told, and what the bounds count.

| `pc` | Action | Statement |
|---|---|---|
| `idle` | `StartIngest` | `time.Now()` in the handler, `BeginTx` |
| `lock` | `LockTrade` | `pg_advisory_xact_lock`, waits |
| `check` | `CheckFinalized` | `SELECT EXISTS ... audit_log` |
| `existing` | `ReadExisting` | first `getEvents` |
| `insert` | `InsertPending` | deadline rule, `INSERT ... ON CONFLICT DO NOTHING` |
| `events` | `ReadEvents` | second `getEvents`, `hasEverySource` |
| `delete` | `DeletePending` | `DELETE FROM pending_events` |
| `record` | `RecordReconciled` | `buildReconciled`, `INSERT INTO audit_log` |
| `commit` | `CommitIngest` | `COMMIT` and the reply |
| `idle` | `StartSweep` | `time.Now()` in the handler |
| `list` | `ListExpired` | `SELECT DISTINCT trade_id` outside a transaction |
| `claim` | `ClaimTrade`, `ReturnSweep` | `pg_try_advisory_xact_lock`; the reply when the list is done |
| `claimRead` | `ReadClaimed` | `getEvents`, the re-check of the deadline |
| `claimDelete` | `DeleteClaimed` | `DELETE` |
| `claimRecord` | `RecordBreak`, `PanicInBreak` | `buildBreak`, `INSERT INTO audit_log` |
| `claimCommit` | `CommitClaim` | `COMMIT` |
| any | `Fail`, `Rollback`, `LoseCommit` | a failed statement, cancelled context or dead process; the server's rollback; an applied COMMIT whose answer is lost |

A statement reads the committed rows of the moment plus the transaction's own
writes (`View`). Row locks, and the wait of an INSERT for another transaction's
uncommitted key, are left out: `LockProtectsTrade`, which is checked and
proved, says that two transactions never touch the same trade, so neither ever
waits. Payloads and the order of lists sorted for output carry no state. The
engine's answer `ignored_unknown_source` touches no store and is the guard
`s \in Expected[p]` of `StartIngest`.

The operators marked FAULTY VARIANT are bugs the code could have (a shared
lock, a delete outside the transaction, a stale test...). They are not part of
any specification; for each property one of them, put in the place of the
definition it varies, makes TLC find the property violated.

### AuditHistory and the code

`log` holds the committed rows of `audit_log` in commit order; a row carries the
time at which its transaction began (`DEFAULT NOW()`) and an identifier that is
any unused one (`gen_random_uuid()`). `Listings` is the `SELECT`: the rows that
match, by `(recorded_at, id)` descending, cut at the limit. The limit passes the
handler's check and the store's own clamp, which differ between Go and Python.
Ingest and sweep keep only the steps that decide when a row gets its time stamp
and when it becomes visible; what a transaction finds under its lock is left
open. `known` remembers what had been reported when a call started, `fence` what
had been reported when the call that wrote a row started.

### MigrationLocks and the code

Each statement names the lock it needs (`Needs`): the `CREATE INDEX IF NOT
EXISTS` statements take SHARE on their table even when the index exists, INSERT
and DELETE take ROW EXCLUSIVE, `pg_advisory_xact_lock` is exclusive, and
`pg_try_advisory_xact_lock` never waits. The lock manager (`Grant`, `Enqueue`)
is PostgreSQL's and marked external: first come, first served among conflicting
requests (`ahead[p]` are the callers that were waiting for p's lock when p began
to wait), everything released at the end of a transaction. On an empty database
the second of two `CREATE TABLE` statements waits for the first and then fails
(`LoseRace`), and its call returns `CONFIGURATION_OR_DATABASE_ERROR`.

### ToolCall and the code

One behaviour is one process. `pc` follows `execute` in `run.go`, the handler in
`main.go` or `__main__.py`, and `newEngine` or `_new_correlator`; the answer of
the handler (`answer`) and the content of the result file (`result`) are kept
apart because a process may end between the two. Configuration values are
abstracted to the kinds of JSON value the two conversions tell apart; `"lenient"` is
a numeral in a string that `int()` (`__main__.py:197`) reads and `strconv.Atoi`
(`main.go:185`) refuses: one with blanks around it, an underscore between two
digits, or the digits of another script. What the call does to the tables between
`StartWork` and its answer is the subject of `PostgresStore`. What the
Python SDK does around the handler is not in the repository; the model lets it
write the handler's answer, and lets SIGTERM kill a Python process.

### IsolationLevels and the code

The module extends `PostgresStore` and gives each transaction a snapshot.
`BeginTx` (`postgres.go:55`, `170`) names no level, so `level` is chosen once, by
the server. At repeatable read the first statement of a transaction is the one
that asks for the advisory lock: `TakeSnapshot` comes before it waits. Later
statements see the snapshot and the transaction's own writes; an INSERT that
meets a committed row outside the snapshot fails with a serialization error, and so
does the `SELECT ... FOR UPDATE` of `getEvents` (`postgres.go:255`, `postgres.py:165`)
when its snapshot shows a row of the trade that has been deleted since (`ReadVisible`;
`lost` are those rows). The code treats these errors like any other failed statement.
The DELETE has the same check, which never fires: its rows were read for update. Steps
that read nothing of other transactions are those of `PostgresStore` (`OwnStep`).

### ToolParameters, LlmCalls and ToolInvocation and the code

`ToolParameters` has one operator per function of `schema.go` and of the
decoding in `tool.go`. Types are records; a JSON value keeps what decoding tells
apart (its kind, the class of a number, whether a string is the text of an array
or object). `encoding/json` (`Parsed`, `Decodes`) and JSON Schema (`Conforms`) are
external. A number next to 2^63 (class `"edge"`) is an int64 whose float64 is written
as 9223372036854776000, which no int64 holds. Types and values are given to the module as sets that contain the
parts of their members, each with a depth (`GoTypes`, `TypeDepth`, `JSONValues`,
`ValueDepth`); what the code does by recursion over a `reflect.Type` or a JSON value
is a recursive function on these sets.

`ToolInvocation` runs `execute` and `InvokeInProcess` on one call, step by step:

| `pc` | Action | Code |
|---|---|---|
| `find` | `FindTool` | `findTool` |
| `load` | `LoadArtifacts` | `loadArtifacts`, `loadSingleArtifact` |
| `params` | `Deserialize` | the closure of `NewTool`: `deserializeParams`, a panic recovered by `invokeHandler` |
| `handler` | `HandlerCalls`, `HandlerReturns` | the tool's handler, its calls of the LLM and of `SaveArtifact` |
| `extract` | `ExtractArtifactOutputs` | `extractArtifactOutputs` |
| `answer` | `WriteResult` | `writeResult`, or the end of `InvokeInProcess` |
| `answered` | `CloseContext` | the deferred `tc.close()` |

The handler's outcome is part of the call, so that both transports run the same
handler. The schema a host sees may be a dynamic one (`shown`), while artifacts
are always those of the struct. `files` is indexed by path, as the file system is:
`PathOf` says to which path a name comes when it is joined and cleaned
(`run.go:360`), so `x` and `./x` are one file. `os.WriteFile` empties a file before it
writes; for a name in `Unfinished` the write then fails, the object keeps its content
and the file is `Torn`. `params` is the JSON that was unmarshaled: equal
JSON in equal types gives equal structs.

In `LlmCalls`, `Send` covers the lock and the write, during which only the
connection can change; `Receive` takes whatever line comes next. The host
answers each request at most once, in any order, or hangs up; it owes nothing.
A connection that could not be made is one that is closed from the start.

### The abstraction

`PostgresStore!ImplementsCorrelation` and `EngineParity!ImplementsCorrelation`
are refinements of `Correlation`. The mapping is the identity on the
committed rows and the audit log: every statement but a COMMIT is a stutter, and
a COMMIT is one `Record`, `Reconcile` or `Break` on exactly the rows committed
at that moment.

## 3. What the runs show

| Run | Question | Bounds |
|---|---|---|
| `EngineParity` | Do both engines keep the promise, are sweeps thorough, do the two agree? | 2 trades, 3 sources, stamps 0..2 in any order, a duration of which Python loses a millisecond |
| `PostgresMixed` | Can Go and Python calls racing on one trade, with failures, and with a sweep that runs with another configuration and may panic, finalize twice, lose an event, act on a stale read, leave a complete trade? | 3 sources of which the sweeps expect one, 2 ingesters, 1 sweeper, 3 ingest calls, 1 failure |
| `PostgresLive` | Do the transactions implement the promise, with colliding lock keys; does every call end and every due trade get finalized? | 2 trades on one key, 2 ingesters, 1 sweeper, 2 ingest calls, 1 failure |
| `PostgresDriftPanic` | (violated) Is every expired trade finalized then too? | as `PostgresMixed`, 2 ingest calls, no failure |
| `PostgresReordered` | (violated) Does a break report an elapsed window? | 3 sources, 2 ingest calls |
| `PostgresSweepError` | (violated) Is every recorded break returned? | 2 trades, 1 failure |
| `AuditHistory` | What may a caller conclude from an answer: completeness, order, agreement of two answers? | 2 trades, 1 ingester, 1 sweeper, 1 reader with 2 queries, 1 failure, clock readings that tie |
| `AuditNewestFirst` | (violated) Does a later entry come before an earlier one? | as above, no two transactions begin at one instant |
| `MigrationLocks` | Can migrations and transactions lock each other out, or run before the tables exist? | 2 ingesters, 1 sweeper, 2 keys, 1 failure, from an empty database |
| `ToolCall` | Is every call answered, its connection closed, its configuration read alike by both implementations? | every tool, request and configuration; 3 tries of the pipe |
| `IsolationLevels` | What of this depends on the isolation level of the server? | both levels, 1 trade, 2 ingesters, 2 sweepers, 3 ingest calls, 1 failure |
| `ToolInvocation` | Does a call that obeys the schema reach the handler, do both transports do the same, is content lost, do LLM calls get their own answers and end? | a tool for every kind of parameter, each with every argument of a set of about 25 values; every result of up to 2 objects with 5 names that come to 3 paths; 2 goroutines |

Two ingesters and a sweeper are the smallest set in which ingests of both
implementations meet each other and a sweep; `IsolationLevels`, at read
committed, adds the second sweeper. A further transaction on the same trade only
waits for the same lock. Sweeps of the two implementations take the same steps,
but for the panic of the Go one. Three ingest calls allow a completion,
a duplicate and a retry after an error; three sources a trade that keeps
several rows. A window of one tick and stamps 0..2 put calls before, at and
after a deadline and in an order other than that of their stamps. With one stamp per
millisecond (`Milli`) and `FallsShort = {1}` the two engines of `EngineParity` do record
different durations; durations that are cut off (`Milli` above one) are left to the
theorem. One failure
hits every statement of every call in turn. What does not depend on these
bounds is proved (section 4).

For `AuditHistory` two trades suffice because every property compares two
entries; a limit of one cuts an answer, one of two does not. In `MigrationLocks`
a cycle of waiting calls needs two table locks taken in two orders by two kinds
of call, or a call waiting behind a queued one: three callers are the fewest
with a holder, a queued SHARE request and a writer behind it. In `ToolCall` the
limits of a 64-bit Duration and of a timedelta are the small numbers 7 and 30
with the same order, and the windows tried lie below, between and above them.

In `IsolationLevels` one trade and three calls suffice for each of the three
failures described below, and two sources for a trade that is complete. In
`ToolInvocation` fields do not influence each other, so structs of one field are
enough, and one of two fields mixes an artifact with a coerced list; the types
are every kind, plain, behind a pointer, with and without omitempty, in a list,
a map and a nested struct. Two goroutines are the fewest that can take each
other's line.

**Fairness** (`PostgresLive`). A call that started takes its next step: weak
fairness of its statements and of the rollback of an aborted transaction, which
the server does when it notices that its client is gone. A waiter gets its
advisory lock although others keep asking: strong fairness of `LockTrade`,
because PostgreSQL queues lock requests. Sweeps are started again and again:
weak fairness of `StartSweep`, which is what `README.md:24` asks of the
deployment. Time passes. Nothing makes anybody ingest, and nothing has to fail.
A sweep passes over a locked trade, so a stream of ingests that never ends
could hide a trade from every sweep; the bound on ingest calls excludes such a
stream, and `ExpiredTradesAreFinalized` says nothing about it.

In `MigrationLocks` a running call proceeds whenever it can, for each caller
separately (`WF_vars(Proceed(p))`); a waiting request is served because the
queue is in order, not by a fairness assumption. In `ToolCall` the process goes
on by itself; the host may never open the pipe and never send a signal. In
`ToolInvocation` each transport and each goroutine with a call goes on
(`WF_vars` of each), the context is closed, and the host is under no fairness:
`InvocationsEnd` excepts exactly a host that never answers and never hangs up.
One call per goroutine means that weak fairness of the mutex is enough.

**Disagreements found.**

- `PostgresDriftPanic`: `engine.go:162` allocates a slice of capacity
  `len(expectedSources) - len(events)`. After `expected_sources` has been
  shortened, a due trade may have more rows than that; the capacity is
  negative, the handler panics, the transaction rolls back, and every later Go
  sweep panics at the same trade, before it reaches the trades after it.
- `PostgresReordered`: a sweep claims a trade by its earliest deadline but
  `engine.go:157` reports the latest. When two calls insert in the other order
  than they took their stamps, a break can report a window expiry that lies
  after its detection.
- `PostgresSweepError`: an error on one trade makes a sweep return nothing, although
  the breaks of the trades before it are committed and no later sweep will
  find them. They remain in the audit log.
- `AuditNewestFirst`: `recorded_at` is the start of a transaction. A transaction
  that began first and commits last, because it waited for a lock, puts the
  newest entry of the log below an older one. What does hold is
  `RealTimeOrder`: an outcome a caller had been told about is never listed above
  the outcome of a call that started afterwards.

Other limits and disagreements, each stated in the property it concerns:

- `SameAudit`: Go's `Milliseconds()` (`engine.go:141`) divides integers, Python's
  `int(total_seconds() * 1000)` (`engine.py:105`) cuts off a float product. A trade
  that took 1.001 s has `match_duration_ms` 1001 in one and 1000 in the other, although
  "both implementations expose the same tool names, inputs, results"
  (`README.md:14`). `FallsShort` are the durations to which this happens.
- `ReadCommittedSuffices` holds at read committed only. `README.md:96` ("Each
  trade is processed under a PostgreSQL transaction-level advisory lock. This
  prevents duplicate finalization") does not say so. At repeatable read a call may
  take its snapshot before the first row of its trade is committed and get the lock
  only after a sweep has broken the trade. It sees neither the outcome nor a row,
  stores its event in a trade that is already broken, and a later sweep breaks the
  trade a second time. Had its snapshot shown the rows that the sweep deleted,
  `SELECT ... FOR UPDATE` would have failed. And two calls that bring the last two
  sources both leave the trade pending although it is complete. What survives
  (`NoEventLostOrDoubled`) is that no event is lost and that no row goes into two
  outcomes: FOR UPDATE lets no transaction act on rows that are gone.
- `SchemaIsHonoured` names what a schema does not say (`PlainParams`, `Exact`), and
  leaves out a dynamic schema over a struct, which promises what it likes. A
  non-pointer `Artifact` with `omitempty` is shown as optional
  (`schema.go:56-66`), and when it is given `setArtifactField` (`tool.go:363-371`) sets it
  to a pointer and panics. A fixed array is shown as a string; an artifact inside
  a nested struct is shown as a file name but never loaded; a `map[string]int` is
  shown as any object. Whole numbers beyond 2^53 are changed on the way.
- `TransportsAgree` has three exceptions, all for a host that passes Go ints: it
  keeps digits that the subprocess loses; an int64 within 512 of 2^63 comes to the
  subprocess as 9223372036854776000, which it refuses to unmarshal (`tool.go:249-257`)
  and the host does not; and the version of an artifact is
  read only from a float64 (`run.go:344`), so it is 0 although artifacts are staged
  "exactly as the subprocess runner_args do" (`inprocess.go:32`).
- `ContentKept` has one: of objects whose names come to one path, or a saved file and
  an object written over it, only the later is left, and neither is when the write of
  the later fails after it has emptied the file (the later object then keeps its own
  content).
- `InvocationsEnd` has one: `CallLLM` ignores its context, so a handler that waits
  for a silent host is not freed by SIGTERM, against `run.go:161-164`.

`EnginesAgree` names the configurations that the two implementations read
differently, all outside the schema's types or limits: a window that is `null`,
boolean or a numeral only `int()` reads, and a `null` URL, are accepted by one of them
only; an `expected_sources` that is not a string is the default in Go and its text in
Python; a window above 9223372036 s wraps around in Go; a Python window that no
timedelta holds raises after the store was opened and leaves it open
(`StoreIsReleased` says that this is the only such path).

## 4. What is proved

`PostgresStoreProofs` proves, for every set of callers, trades and sources, any
mix of implementations and configurations, any lock keys (colliding or not) and
any bounds:

| Theorem | Statement |
|---|---|
| `TypeCorrect` | `Spec => []TypeOK` |
| `LockIsMutex` | `Spec => []LockProtectsTrade` |
| `ReadsAreStable` | `Spec => []ReadsStayValid` |
| `OutcomeIsUnique` | `Spec => []FinalizedOnce` |
| `OutcomeIsFinal` | `Spec => []FinalizedHasNoPending` |
| `RowsLeaveWithOutcome` | `Spec => RowsLeaveOnlyByFinalization` |

They rest on `StoreAssumption`, `RowsAssumption` and `MillisecondsAssumption`: trades
are numbers (only their order matters), durations are whole numbers, a configuration has at least one source and a positive
window, and `None` is none of the values it stands in for.

None of these invariants is inductive alone. The inductive invariant is
`Inv == TypeInv /\ LockOK /\ TxnOK /\ FinalizedOnce /\ FinalizedHasNoPending`:

- `TypeInv` adds to the types which values a call has fetched at each
  statement, so that the minimum of an empty set is never taken;
- `LockOK`: a transaction past its first statement holds the lock of its trade;
  from it `LockProtectsTrade` follows at once;
- `TxnOK`: what a transaction knows at each statement: that its trade was not
  finalized when it checked and still is not, that the rows it read are the
  trade's rows, and that it has deleted all of them by the time it commits an
  outcome. A step of another transaction keeps it because of `LockOK`;
- the two facts about outcomes are then kept by a commit because the
  committing transaction knows that it is the first.

The second half of the module goes on from there, under the same assumptions:

| Theorem | Statement | Hypothesis |
|---|---|---|
| `CompleteTradesAreReconciled` | `Spec => []NoCompleteTradeIsPending` | |
| `ReconciledTradesAreComplete` | `Spec => []ReconciledHasEverySource` | |
| `WindowIsFixed` | `Spec => []WindowFromFirstEvent` | `WindowsAreAlike` |
| `OutcomeIsReportedOnce` | `Spec => []ReportedAtMostOnce` | |
| `EventsAreKept` | `Spec => []NoEventLost` | `IngestsExpectAlike` |
| `BreaksMissSources` | `Spec => []BreakHasMissingSource` | `SweepsExpectAll` |
| `BreaksAreLostByFailureOnly` | `Spec => []BreaksLostOnlyByFailure` | `SweepsExpectAll` |
| `StatementsKeepPromise` | `Spec => ImplementsCorrelation` | |

`Inv` says that a transaction has its trade for itself, not what it makes of it.
`Work` does: the row an ingest inserts (`OwnRow`) and the entry an ingest or a
claim records are functions of the rows of the trade that are committed when the
transaction commits. A step of another transaction cannot change those rows
(`OthersWork`), and each statement computes from the ones before it
(`NextWorkOK`). `CommitKinds` concludes that a step leaves the tables alone or is
one of three commits: it adds the row of an event that leaves its trade
incomplete, it replaces the rows of a complete trade by a reconciled entry, or it
replaces the rows of a due trade by a break. The refinement and the facts about
tables (`TablesInv`) look at these three only; what callers were told needs one
more invariant (`Reports`: whoever holds or was told an outcome is alone), and
`BreaksAreHeld` follows each break from its commit to the reply.

The hypotheses are about configurations, which each deployment sets for itself
and nothing in the code compares. None can be dropped: of two ingests with different
sources, one that reconciles drops the other's event; a sweep that expects less
than the ingests breaks a trade without a missing source and, in Go, can panic
after it has claimed others (`PostgresDriftPanic`); when the call with the shorter
window stores its row first and the call with the earlier stamp second, the
deadline is one window after the first event for neither of the two windows. A sweep may expect other sources without
harm to `NoEventLost`, and the other four theorems hold for any mix. The runs
satisfy the hypotheses of what they check: `PostgresMixed` has alike ingests and
differing sweeps, `PostgresLive` one configuration.

`IsolationLevelsProofs` proves `IsoSpec => []ReadCommittedSuffices`
(`LockSufficesAtReadCommitted`) and, under `IngestsExpectAlike`,
`IsoSpec => []NoEventLostOrDoubled` (`EventsAreKeptAtBothLevels`). At read committed
every step is a step of `PostgresStore`, so its invariants carry over
(`LatestInv`). At repeatable read most of them are false, as the counterexamples
of section 3 show; `SnapshotInv` is what is left: locks still exclude, a row of a
snapshot is committed or recorded as lost (`SnapshotsOK`), the rows a transaction
has read and deletes are still committed, because it read them for update
(`ReadVisible`), and the entry it records in their place names their sources
(`Writes`).

`EngineParityProofs` proves, for any trades, sources, expected sources, window and
horizon (`RowsAssumption`, `MillisecondsAssumption`, `MemoryAssumption`):

| Theorem | Statement |
|---|---|
| `EnginesWriteTheSame` | `Spec => []SameAudit` |
| `SweepsAreThorough` | `Spec => SweepIsThorough` |
| `EnginesKeepPromise` | `Spec => ImplementsCorrelation`, for both engines |
| `OutcomesAreUnique` | `Spec => [](GoPromise!OneOutcome /\ PyPromise!OneOutcome)`: a trade gets one outcome and keeps no row after it |

After two events the two engines hold different rows: Go keeps a row's own time
and lowers its deadline, Python copies both stamps from the rows there are. What
they agree on is the anchor of a trade, the stamp of its first event. While stamps
come in order, every row of the trade ends one window after the anchor, one row
has the anchor's stamp and none an earlier one (`Anchored`). Either deadline rule
keeps that (`MergeAnchors`), and the match duration, the deadline that makes a
trade due and the reported expiry are functions of the anchor (`SameEntries`,
`SameBreaks`). The durations are computed from equal differences, so they are equal
or differ as the float product does (`EntriesAlike`), for any number of stamps per
millisecond. The inductive invariant `Parallel` says that the two logs are equal but
for that and that a trade has the same sources and the same anchor in both stores. Without
the order of stamps it is false: TLC finds different durations at once. The
refinement and the sweeps need no order of stamps; they rest on `OrderIs`, that the
list a sweep goes through has each due trade exactly once (the ranks of finitely
many numbers are all numbers from 0 up).

`OutcomesAreUnique` is what the promise is for: its invariant is inductive together
with the types, because an ingest looks in the log first, and a trade that a sweep
finds due has rows and so, by the invariant itself, no outcome yet.

`MigrationLocksProofs` proves, for any finite set of callers and any keys
(`MigrationAssumption`):

| Theorem | Statement |
|---|---|
| `TypeCorrect` | `Spec => []TypeOK` |
| `TablesComeFirst` | `Spec => []TablesExistWhenUsed` |
| `DeadlockFree` | `Spec => []NoDeadlock` |
| `LocksExclude` | `Spec => []HeldLocksAgree`: no two callers hold conflicting locks |

`DeadlockFree` is the argument of the lock order made precise. `LockOrder` says
where the holder of each lock can be: a caller that holds a lock waits only for a
later one of advisory lock, `pending_events`, `audit_log`. `Queues` says that the
callers that wait for one lock are ordered by their arrival. In a circle take the
callers that wait for the last lock of the order that anyone in it waits for.
None of them waits for a holder, for that holder would be in the circle and wait
for a later lock; so each waits for one that arrived before it, and the one that
arrived first (`QueueHasFirst`, a minimum of finitely many) waits for nobody.

`AuditHistoryProofs` proves, for any callers, readers, trades and limits
(`AuditAssumption`):

| Theorem | Statement |
|---|---|
| `ReportedOutcomesAreListed` | `Spec => []ReportedIsListed` |
| `AnswersKeepRealTime` | `Spec => []RealTimeOrder` |
| `RepeatedAnswersAgree` | `Spec => []AnswersAgree` |

An answer is right because of what writes the log. The inductive invariant has a
part for each reason: the lock gives a trade one entry (`LockInv`, `OutcomesInv`),
an entry carries a time later than every entry its call knew of (`TimesInv`), and
identifiers break ties (`IdsInv`). So the order of the SELECT is total
(`OrderIsTotal`), and what a query answered stays an answer to it, because the log
grows only by trades nobody had been told of (`AnswersInv`). `AcceptedLimitIsUsed`
shows that the clamps of the two stores, which differ, leave every limit alone
that a handler accepts. The proof does not use the distinctness of clock readings:
any number of transactions may begin at one instant.

`ToolCallProofs` proves, for every set of windows, any limits of a Duration and a
timedelta and any number of retries (`CallAssumption`):

| Theorem | Statement |
|---|---|
| `TypeCorrect` | `Spec => []TypeOK` |
| `ConnectionReleased` | `Spec => []StoreIsReleased`, from `StoreInv`: an open store is at a step that still leads to its close, or the window is too long for a timedelta |
| `ConfigurationsAgree` | `Spec => []EnginesAgree`, by the kinds of window and the lemma that the 64-bit product of a window within the limit is exact (`DurationIsExact`) |

`ToolInvocationProofs` proves, for any tools, parameter types, arguments, results and
goroutines:

| Theorem | Statement |
|---|---|
| `LlmTypeCorrect`, `AnswersArePaired` | `LlmSpec => []LlmTypeOK`, `LlmSpec => []OwnAnswer` |
| `CallsAreTheClients`, `OwnAnswersToHandlers` | `Spec => LlmSpec`, `Spec => []OwnAnswer` |
| `TypeCorrect` | `Spec => []TypeOK` |
| `NoContentLost` | `Spec => []ContentKept` |
| `BothTransportsAgree` | `Spec => []TransportsAgree` |
| `SchemaHonoured` | `Spec => []SchemaIsHonoured` |

`OwnAnswer` is not inductive: it says nothing of lines that are still to be
read. `LlmInv` adds that the mutex is held from write to read, and that while the
connection is open every unanswered request and every unread line is the
holder's (`WireIsHolders`); a failed read leaves a request behind only on a
connection that is lost. An invocation does to `llm` only what `LlmNext` does.

No step of a transport reads what the other has written, and everything it does
is decided by the call. The inductive invariant `InvocationInv` says so: at each
label every variable of a transport is what the call alone makes of it
(`ObjectsOf`, `ParamsOf`, `ResultOf`, `FilesOf`, `AnswerOf`), and a transport is only
where the call can bring it (`Reaches`). TLC found it to hold on the instance of
the run. The theorems are then about data: that of the objects that
come to one path the last stays (`FileHasLast`), that parsing arguments into float64s
does not change whether they fit a type as long as no number is at the end of int64
(`DecodesParsed`), and that a value the schema of a type
allows fits the type (`ConformingDecodes`).

These facts hold for types and values of any depth, and are proved by a least
counterexample: of the values for which one fails, take one that is least deep
(`Shallowest`, `ValueInduction`); its parts satisfy it. The same argument shows first
that the recursive functions exist and satisfy their defining equations
(`Recursion`, and `SchemaExists` and `ParsedExists`, whose values lie in no set given
beforehand). The assumptions are those of the data: every part of a type or
value is a member that is less deep (`TypesAssumption`, `ValuesAssumption`), a parsed
value is a value (`ParsedAssumption`), arguments are values and results have a length
(`ArgumentsAssumption`, `ToolsAssumption`). A Go type that contains itself has no
depth and is left out: `schemaFromStruct` does not return on it, unless all that leads
back is a map.

**Model-checked only.**

- Liveness, which needs ENABLED: `CallsReturn` and `ExpiredTradesAreFinalized` of
  `PostgresStore`, `CallsEnd`, `HandlerIsAnswered` and `InvocationsEnd`.
- The four violated properties: each is a counterexample.

## 5. Not modelled, and why

- SERIALIZABLE: the server's conflict detection is not the program's; and the
  connection pool: a call uses one connection at a time.
- Row locks in `PostgresStore`: see section 2.
- The host's SIGKILL, and retries of a call by the host: the run of
  `PostgresStore` lets any caller start again after any failure.
- The internals of the Python SDK, which is another package.
- Payloads, messages, JSON names and descriptions, base64, integer kinds narrower
  than 64 bits: conversions without state, or without a property here.
- The bytes of structured artifact lists, which a handler reads itself
  (`LoadArtifactBytes`).
- `--schema` and its configuration file, registration checks (`NewTool` panics on
  an empty description and a reserved key): they run before any call.
- Build scripts and manifests.

## 6. Plan

Written so far: the store and its promise at two isolation levels, both engines,
audit queries, the migration's locks, the life of a call, the SDK's parameters,
results and LLM calls; every invariant and every action property the runs check
is also a theorem. What is left is `SERIALIZABLE` as a third level of isolation.
