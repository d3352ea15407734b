# TLA+ models of the 3FS custom transactional KV client

This directory holds TLA+ models of the custom transactional key-value engine
client of 3FS (`src/src/fdb/`). The 3FS metadata core needs serializable,
snapshot-isolated transactions, and this client provides them over an external
Rust KV server through the `kvstore_client` C API. The project contains:

- model-checking runs (TLC);
- machine-checked proofs (TLAPS).

## The system and its parts

| Part | Source | What it does |
|---|---|---|
| `CustomTransaction` | `src/src/fdb/CustomTransaction.h`: lines 1-108 are the header, lines 109-911 the implementation | Read-write transaction object. Owns one server transaction handle, opened lazily by `ensureTransaction`. `get/set/clear` go through that handle. `snapshotGet` opens a separate read transaction. `commit` sends `kv_transaction_commit` and waits on the future. It has four atomic flags: `cancelled_`, `reset_`, `committed_` and `committed_version_`. |
| `CustomReadOnlyTransaction` | same file, lines 153-371 | Read-only transaction. `snapshotGet` and `snapshotGetRange` go through read transactions. `get` and `getRange` are stubs that return empty results. |
| `CustomKvEngine` | `src/src/fdb/CustomKvEngine.cc/.h` | Creates the client handle (`initialize`), tracks whether it is healthy, creates transactions (returning nullptr when unhealthy), and reconnects (`cleanup` then `initialize`). Each transaction copies the raw client handle. |
| `waitForFuture` | `src/src/fdb/CustomTransaction.h` lines 126-150 | Every `co_await` on the library goes through it: poll once, then register a callback that posts a Baton. |
| Polling variant | `src/unnamed/part_000` | An older `CustomTransaction.cc`. It polls futures with a 100-retry timeout, has stubbed versionstamps, and its `getRange` ignores key-selector exclusivity. |
| KV server | not in the repository; requirements in `src/unnamed/part_005` | Optimistic concurrency control. Reads happen at the read version. Read-write and write-write conflicts are detected at commit. Transactions time out after 30 s. |
| Metadata and storage components C2-C8 of the spec | not in the repository (only notes) | They use the KV engine through `WithTransaction`, a retry loop (`part_005`, lines 127-145). |

How the parts interact:

- Each coroutine of the metadata service owns one transaction object and
  calls its methods one at a time.
- Objects owned by different coroutines run concurrently. They interact only
  through the server: commits of one object invalidate reads of another, and
  they do so only at commit-time validation.
- A method's `co_await` on a server future is where other objects' steps
  interleave.

## Modules

- **`KvServer`**: the server as the client sees it.
  - `db` is the sequence of committed states. Each entry records the keys
    its commit wrote, so `Len(db)` is the current version.
  - `srv[t]` is the server transaction of object `t`: its status, read
    version, read set, write buffer and commit position.
  - `Begun` is the transaction that `kv_transaction_begin` opens.
  - `SrvRead` reads at the read version, seeing the transaction's own writes.
  - `Conflicts` is the validation of `part_005` lines 116-121: a key read or
    written was written by a commit after the read version.
  - `Installed` is the state an atomic commit installs.
  - `Expire` is the 30 s server timeout.
- **`CustomTransaction`**: the read-write transaction object, with one action
  per method.
  - State: its four atomics, whether `transaction_handle_` is set, and
    whether the object is still alive.
  - Each guard is the method's early return (`Unfinished` is the
    "Transaction is finished" check).
  - `Ensured(t)` is `ensureTransaction`: it reuses the handle or begins a new
    transaction.
  - `get()` is two actions, after the outcomes of `kv_transaction_get`
    listed by `GetReplies`: the value, on an open transaction, or a failed
    call, after which the server may or may not have recorded the read.
    - `Get` returns: the value, or `std::nullopt` for any unsuccessful
      result (lines 517-523), whatever the error was.
    - `GetThrows` is `waitForFuture` throwing (poll returns -1, lines
      132-133): nothing is returned.
  - `commit()` is split at its `co_await` on the commit future:
    - `CommitAgain` is the compare-exchange failing, which returns success.
    - `CommitBeginFails` is `committed_` set and then no handle.
    - `CommitSend` is `committed_` set, the server validating and installing
      or rejecting, and the owner suspended with the reply pending.
    - `CommitReturn` is the owner resuming. It stores the clock on success,
      returns an error code, or gets an exception from `waitForFuture`.
  - `Cancel`, `Reset` and `Destroy` model the destructor, which creates a
    lazy `cancel()` task that is never awaited.
  - `Tick` advances `steady_clock`, bounded by `MaxClock`.
  - Ghost variables record what the owner observed, and are used only by
    properties:
    - `tracked`: the values the server answered to `get`;
    - `failed`: the keys whose `get` failed and returned `std::nullopt`;
    - `acked`: `commit()` returned success.
  - A method call that fails without changing state is a stuttering step.
    This covers a failed `kv_transaction_begin` in `get/set/clear`, and any
    call on a finished object.
- **`MC_CustomTransaction`**: model values for objects, keys and values, and
  symmetry over objects and keys.
- **`CustomKvEngine`**: the engine (`CustomKvEngine.cc`).
  - State: `client_handle_` and `healthy_` (numbered handles, 0 is
    `nullptr`), the set of handles the library has not destroyed (`live`),
    where a `reconnect()` call is (`rc`), whether the engine object exists,
    and per thread the transaction it holds and the handle it copied.
  - `Initialize(h, live, n)` is the set of outcomes of `initialize()`:
    `kv_init` fails, there are no endpoints, `kv_client_create` fails, the
    ping future is null (the new client is destroyed again), or success.
  - `reconnect()` is three steps: `kv_client_destroy`, the stores of
    `nullptr`/`false`, and `initialize()`. The fields are plain members
    with no lock, so transaction threads interleave with each step.
  - Creating a transaction is two steps: the `healthy_` check, then the
    constructor that copies `client_handle_`.
  - `Use` is a transaction's `kv_transaction_begin` or
    `kv_read_transaction_begin` with its copy; `misused` records a call
    with a destroyed handle.
  - `EngineDestroy` is `~CustomKvEngine`. The Impl owns itself through
    `setSharedThis`, so no cleanup follows it.
- **`WaitForFuture`**: `waitForFuture` (`CustomTransaction.h` lines
  126-150) for three concurrent calls, and the library thread.
  - `Poll`, `SetCallback` and `Resume` are the three steps of the
    coroutine. `Complete` and `Fire` are the library completing the future
    and running the registered callback.
  - `CallbackIfReady` says whether the library runs a callback registered
    on an already completed future. `kvstore_client.h` is not in the
    repository, so this is a constant. `SetCallback` has one case per
    library behaviour, with exclusive guards: a pending future registers
    the callback, a completed one fires it or drops it.
  - `Status` maps a call to the view of the contract (`waiting`,
    `returned`, `thrown`), and `ImplementsContract` states that the module
    implements `WaitContract` under that mapping.
- **`WaitContract`**: what `waitForFuture` promises its caller, with no
  poll, callback or Baton. `Complete` is the library, `Return` and `Throw`
  end a call; `Spec` adds weak fairness of ending a call whose future has
  completed.
- **`WithTransaction`**: the retry loop of `part_005` lines 130-145 on one
  `CustomTransaction` object (`LoopTxn`).
  - It EXTENDS `CustomTransaction`. The loop's steps call its actions (get,
    set, `CommitSend`, `CommitReturn`, `Reset`) with a loop counter `lpc`;
    the other objects run any method.
  - The handler is `get(k)` then `set(k, v)`. `strategy.onError` (not in
    the repository) retries conflict and I/O errors up to `MaxRetries`
    times, with or without `reset()`.
  - A commit error is returned directly (`CO_RETURN_ON_ERROR`), and an
    exception from `waitForFuture` leaves the loop.
- **`RangeScan`**: paginated scans through `getRange` (read-write object)
  and `snapshotGetRange` (read-only object), with concurrent commits.
  - `PageOf` is the server's answer to one call, from the selector
    encoding `begin.inclusive ? 0 : 1`.
  - `HasMore` is the `has_more` of each variant.
  - `ReadVersion` is the version a call reads: the read-write object's
    one transaction, or the latest version for each read-only call.
  - `has_more` is computed from `pair_array.count` after
    `kv_pair_array_free`. The struct is on the stack and only the pairs
    are freed, so the read is defined; but whether the library's free
    resets `count` is not visible in the repository. The model chooses
    between the count and 0.
  - A page is an element of `FirstKeys(X)`: the sequences of at most
    `Limit` keys of `X` that list a prefix of `X` in key order
    (`IsSortedPrefix`) and stop only at `Limit` or at the end of `X`. The
    set has exactly one element; it is written as a set, without a
    recursive sort, so that the module can be reasoned about with TLAPS.
- **`SerialKv`**: what the engine promises its callers about read-write
  transactions, without versions, flags or library calls. There is one
  store; `Read(t, k, v)` records a value read, and `Commit(t)` happens at
  an instant when every value `t` read is still the store's value, and
  installs its writes there.
  - `CustomTransaction` implements it (`ImplementsSerialKv`): the store is
    the latest server state `db[Len(db)].val`, the reads are the ghost
    `tracked` (the values the server answered), and a transaction is done
    when its server transaction has committed. A `get` answered with a
    value of the read version is a `Read`; a successful `CommitSend` is
    the `Commit`; every other step, a failed or throwing `get` included,
    is a stutter. The `std::nullopt` of a failed `get` is not a `Read`:
    `get_error_reads_absent` shows it may be wrong.
- **`CustomTransactionProofs`**, **`CustomKvEngineProofs`**,
  **`WaitForFutureProofs`**, **`WithTransactionProofs`**,
  **`SerialKvRefinement`**, **`RangeScanProofs`**: the TLAPS proofs. Each
  EXTENDS its component's module and `TLAPS`.

## Runs

| Run | cfg | Expect | Shows |
|---|---|---|---|
| `txn_safety` | `MC_CustomTransaction.cfg` | pass | With 2 objects, 1 key, 2 values and clock bound 1, in any order of methods, `get()` failures and exceptions, and server timeouts (3.5 M states, about 3 min), `TypeOK`, `AnsweredReadsValidAtCommit` (every value the server answered to a committed transaction's `get` is the value just before its commit) and `CommittedVersionSound` hold, and the objects implement `SerialKv` (`ImplementsSerialKv`). |
| `commit_ack_after_failure` | `MC_CommitAckImpliesCommitted.cfg` | violation | `commit()` fails after setting `committed_`. A second `commit()` then returns success although nothing was committed. |
| `get_error_reads_absent` | `MC_ReadsValidAtCommit.cfg` | violation | `ReadsValidAtCommit`, over everything `get` returned: a `get` fails on an open transaction and returns `std::nullopt`, the server did not record the read, another object writes the key and commits, and the transaction commits with an "absent" result that was never the committed value. |
| `destroy_leaves_open` | `MC_NoOpenTxnAfterDestroy.cfg` | violation | Destroying an unfinished object leaves its server transaction open. |
| `engine_client_lifetime` | `MC_CustomKvEngine.cfg` | pass | With 2 threads and 3 handles, construction and repeated reconnects with every library outcome leave no client alive except the current one (`ClientHandleNotLeaked`). |
| `reconnect_use_after_destroy` | `MC_NoUseOfDestroyedClient.cfg` | violation | A transaction created before `reconnect()`, or between `kv_client_destroy` and the store of `nullptr`, calls the library with the destroyed handle. |
| `wait_for_future_returns` | `MC_WaitForFuture.cfg` | pass | With `CallbackIfReady = TRUE` and 3 concurrent waits (3375 states), `waitForFuture` implements `WaitContract` (`ImplementsContract`): every return or throw is one the contract allows, and, under the fairness below, every wait ends once its future completes. It never returns on a pending future (`ReturnsOnlyWhenComplete`). |
| `retry_loop_commit` | `MC_WithTransaction.cfg` | pass | The loop, with one retry, a concurrent object and server timeouts (264 k states), returns success only when the server committed its transaction (`LoopOkMeansCommitted`). |
| `retry_loop_exception_after_commit` | `MC_ErrorMeansNotCommitted.cfg` | violation | The server commits, the poll of the commit future fails, and the exception leaves the loop. |
| `retry_loop_refused` | `MC_RetryNotRefused.cfg` | violation | A retriable error, then `reset()`, then the retry's `get()` returns kInvalidArg. A server-expired commit also returns kInvalidArg. |
| `range_scan` | `MC_RangeScan.cfg` | pass | One read-write and one read-only scan of 3 keys, in pages of 2, with 2 concurrent commits. Pages never overlap (`ScanInOrder`), and a read-write scan holds a prefix of its one version (`ScanIsSnapshotPrefix`). |
| `range_scan_incomplete` | `MC_ScanComplete.cfg` | violation | After a full first page, `count` read after the free is 0, so `has_more` is false and the scan ends. |

Each property of the passing run has a mutant that breaks it:

- `Get` served from the latest snapshot breaks `AnsweredReadsValidAtCommit`, and
  `ImplementsSerialKv` (a read that is no value of the store when the
  transaction commits).
- The clock stored before the result is checked breaks
  `CommittedVersionSound`.
- The version off by one breaks `TypeOK`.
- In `initialize()`, a failed ping that does not destroy the new client
  breaks `ClientHandleNotLeaked`.
- A poll that returns on 0 breaks `ReturnsOnlyWhenComplete`, and
  `ImplementsContract` (a `Return` on a pending future). A library that
  never runs a late callback breaks `ImplementsContract` (a wait that never
  ends).
- A commit result that is not checked breaks `LoopOkMeansCommitted`. A
  retry budget off by one breaks `LoopTypeOK`.
- Swapped selector flags break `ScanInOrder`. A read-write scan reading the
  latest version breaks `ScanIsSnapshotPrefix`.

**Bounds.**

- Two objects are enough for every interaction between transactions: a read
  invalidated by another object's commit, and a failed read followed by
  another object's write.
- One key suffices for read-write conflicts, since a conflict is per key.
- Two values let a stale read differ from the committed one by value, not
  only by absent versus present.
- `MaxClock = 1` gives two clock readings, so a version can be stored
  before and after a tick; the versions' order is not checked (see below).
  With `MaxClock = 2` the run takes over 5 minutes.
- Larger instances (a third object, or a second key) take from 8 to more
  than 15 minutes and are not kept as runs.

**More bounds.**

- Engine: 3 handles give a constructor client plus two reconnects. 2
  threads let one transaction hold an old handle while another is created
  in the cleanup window.
- Waits: 3 waits cover every order of completion against the three steps.
- Retry loop: 1 retry reaches every retry path. `MaxClock = 1`.
- Scan: 3 keys in pages of 2 reach a full page, a short page and the extra
  empty call after an exact page. 2 commits make a page read a different
  version.

**Fairness.** The `CustomTransaction` and `WithTransaction` runs assume
none; they check safety and deadlock freedom.

- `WaitForFuture` assumes weak fairness of `Poll`, `SetCallback` and
  `Resume`: the folly executor runs a coroutine that is runnable or whose
  Baton was posted. It also assumes weak fairness of `Fire`: the library
  runs a callback it holds for a completed future.
- `Complete` has no fairness: the server need not answer. This is why the
  contract's fairness is on ending a call whose future has completed.
- The waits and scans really stop when every call has returned, so those
  runs set `CHECK_DEADLOCK FALSE`.

## Proofs

Every theorem is checked by `tlapm` to the last leaf. Each invariant is
proved through an inductive strengthening that TLC checked first as an
invariant of a run. The proof of each step has one step per action.

**`CustomTransactionProofs`** (assumptions: `NoValue \notin Vals`,
`KvServerAssumption`; `MaxClock \in Nat`, `CustomTransactionAssumption`).

- **`TypeCorrect`**: `Spec => []TypeOK`.
  - `TypeOK` alone is not inductive, because `get` reads `db[s.rv]`. The
    proof uses `TypeInv`, which adds `SrvRvValid`: every begun server
    transaction reads at a version in `1..Len(db)`.
  - Lemmas about the helpers are stated once and cited: `EnsuredType`,
    `SrvReadType`, `LatestType`, `DbEntryType`, and `ServerUnchanged`,
    `ServerSetTxn`, `ServerAppend` (the three ways a step changes the
    server).
- **`CommittedVersionSoundness`**: `Spec => []CommittedVersionSound`.
  - It is not inductive, since a success reply may still be in flight.
    `CommittedVersionInv` adds it: a recorded version *or* a pending
    success implies `committed_` and a server commit.
  - It is preserved because a method that can begin a new server
    transaction requires `committed_` clear, `reset()` clears the version
    with `committed_`, and cancel and timeout abort only open transactions.
- **`ReadsValidity`**: `Spec => []AnsweredReadsValidAtCommit`, for the
  values the server answered (not the `std::nullopt` of a failed `get`,
  which `get_error_reads_absent` shows may be wrong), from `ReadsInv`:
  - `DbStable`: a key no commit wrote between two versions has the same
    value at both;
  - `OpenReadsTracked`: every read tracked for an open transaction is in
    its read set and is the value at its read version;
  - `CommittedReadsValid`: a committed transaction's reads equal the state
    just before its commit position;
  - `NoReadsBeforeBegin` and `CommittedFinished`: an unfinished object
    without a handle has tracked nothing, and a committed one is finished.
  A commit passes validation only if no read key was written after the
  read version, so `DbStable` carries the reads to the commit position.
  `GetEffect` states once what a returning or throwing `get` does (the
  same status and read version, a larger read set, at most one answered
  read, in the read set). `ReadsInvAccess` is one lemma for `get` and
  `set`, and `DbStableAppend` covers a commit.

**`CustomKvEngineProofs`** (assumption `CustomKvEngineAssumption`).

- **`ClientNeverLeaked`** (`ClientHandleNotLeaked`) and
  **`EngineTypeCorrect`** (`TypeOK`, which no run checks), from `EngineInv`, which adds
  `NoClientDuringReconnect`: between `kv_client_destroy` and the end of
  `initialize()` no client is live. Without it, the store of `nullptr`
  would look like a leak. `InitializeOutcome` bounds every outcome of
  `initialize()`.

**`WaitForFutureProofs`**.

- **`ReturnsOnlyWhenCompleteHolds`**, from `WaitInv`: a Baton is posted
  only for a completed future, and a call throws only on a failed one.
- **`WaitRefinesContract`**: `Spec => Contract!Safety`. `Init` maps to the
  contract's `Init`, and every step maps to a `Complete`, `Return`,
  `Throw` or stutter (`RefinementStep`). A `Resume` is a `Return` because
  of `WaitInv`.

**`WithTransactionProofs`** (assumption `WithTransactionAssumption`).

- **`LoopOkMeansCommittedHolds`** and **`LoopTypeCorrect`**, from
  `LoopInv`.
  - `LoopStepIsNext` shows every loop step is a step of
    `CustomTransaction`, so `TypeInv` and `CommittedVersionInv` carry over
    through their step lemmas.
  - `NotAckedBeforeReturn`: the loop's object is not acknowledged while
    the loop runs. The success returned is then the one the awaited
    `commit()` reports, and that needs a pending success, hence a server
    commit.
  - `OtherObjectFrame`: other objects' steps leave the loop object's
    server transaction and acknowledgement alone, and a timeout aborts
    only open transactions.

**`SerialKvRefinement`**.

- **`SerialKvImplemented`**: `Spec => ImplementsSerialKv`, that is
  `CustomTransaction` refines `SerialKv` under the mapping above
  (`SerialRefinement`, `Spec => Serial!Spec`).
  - `Init` maps to `Serial!Init`: the store starts with every key absent,
    nothing is tracked and nothing is committed.
  - `SerialStep` has one case per action. `get` is a `Read` when the
    server answers and the key is not in the write buffer, since
    `GetEffect` makes the value the one at the read version; a failed or
    throwing `get`, or one of the object's own write, tracks nothing new
    and is a stutter. A successful `CommitSend` is `Serial!Commit`: by `ReadsInv`
    after the step, every read equals the state before the commit
    position, which is the latest state before the commit. The writes are
    those of the commit. A conflicting commit, a cancel, a server timeout
    and every other step leave the store, the reads and the committed set
    as they are.
  - The proof reuses `ReadsInv` and its step lemma from
    `CustomTransactionProofs`; `CommittedFinished` keeps a committed
    transaction from reading again.

**`RangeScanProofs`** (assumption `RangeScanAssumption`).

- **`ScanInOrderHolds`** (`ScanInOrder`) and **`ScanIsSnapshotPrefixHolds`**
  (`ScanIsSnapshotPrefix`), for every number of keys, limit, bound on
  commits and set of scanners.
  - Neither invariant is inductive: a page continues the scan correctly
    only because the cursor is the last key collected. `ScanInv` adds
    `CursorAtLast` (a scan that will call again has collected nothing and
    starts from key 0 inclusive, or resumes at its last key, exclusive)
    and `SnapshotPrefix` (a read-write scan collects nothing before it has
    a read version, then a prefix in key order of that version).
  - `PageStep`: the page holds keys after the cursor, so after every key
    collected (`AtMostLast`); a key of the version before the cursor was
    already collected (`UpToLastCollected`); `AppendSortedPrefix` then
    shows the longer sequence is still a prefix of the version.
    `CommitStep`: a commit appends a version and changes none of those a
    scan reads. `PageFailsStep` only ends a scan.
  - Lemmas on sequences: `ElemsConcat`, `ConcatIncreasing`, `PageFacts`.

**Left to TLC.**

- Liveness and `ENABLED` are out of the prover's reach: the fairness part
  of `ImplementsContract` is checked by TLC only.
- Violation runs show a counterexample; there is nothing to prove about
  them.

## Found, and not kept as runs

These behaviours are read directly from the code, so they have no run of
their own:

- `addReadConflict` is a TODO (line 643), so a declared key never conflicts.
- `committed_version_` is a `steady_clock` reading taken after the reply
  (line 902), not the server's commit version. Two commits can therefore
  get the same version, or versions in the opposite order of the server's
  commits, while the engine contract says committed versions are strictly
  monotonic.
- `snapshotGet` reads at `read_version_.value_or(0)`, the latest version
  (line 440).
- `setSharedThis(impl_)` makes the engine's Impl own itself, so
  `~CustomKvEngineImpl` and its `cleanup()` never run, and the client leaks.
- Whether a completion between `kv_future_poll` and
  `kv_future_set_callback` loses the wakeup depends on the library. The
  `SetCallbackPendingOnly` mutant of the `wait_for_future_returns` run is
  exactly a library that does not run late callbacks, and TLC finds the
  coroutine suspended forever.

## Not modelled yet, and plan

1. **The rest of `CustomReadOnlyTransaction`.** `get` and `getRange` are
   stubs returning empty results; `cancel` is a TODO.
2. **`setVersionstampedKey/Value`.** The offset is ignored, and 10 bytes
   are padded.
3. **The `part_000` polling variant.** 100 poll retries, then kTimeout.

Components C2-C8 have no code in this repository.
