# TLA+ models of the ndb stress harness (`src/units/stress`)

The code under `src/units/stress` is not the store. It is the concurrent
harness that drives the ndb store over the Redis protocol and checks, with
testify assertions, what each collection type must satisfy under concurrent
load. It also contains a separate tool that ages data for compaction.
The store itself is outside this directory. The models treat it as an
environment whose contract comes from `spec.md`. Every harness definition
is translated from the Go source.

## 1. Inventory

### Components, their state and operations

| Component | Source | State | Operations |
|---|---|---|---|
| Namespace Controller | `stress_test.go:13-31`, `compaction_setup.go:12-26` | the namespace on the store | `createNamespace`: NSDEL then NSNEW. The test asserts on errors; the tool calls log.Fatal |
| Worker Pool Driver | each `test*` function's spawn/join, `Test` (1044-1064), `setup` (`compaction_setup.go:41-60`), `main` of the tool | unbuffered `done` channel, loop counters | spawn `count` goroutines (one connection each); each sends `done <- true` once; the caller receives `count` times, then signals its own caller on `c` |
| Bounded time-ordered set oracle | `testXSet` 663-821, `checkXSetRange` 823-850 | per goroutine: `j`, `begin`, `xcard`, its key `xset:<i>` | XADD MAXLEN, XCARD checked within the tolerance window, XSCORE, XRANGE/XREVRANGE/XRANGEBYSCORE/XREVRANGEBYSCORE, then a final XCARD, XGETMAXLEN, XGETFINITY, an XREM loop, XREMRANGEBYRANK, range checks and checkDelete |
| Bounded ordinal set oracle | `testOSet` 852-1001, `checkOSetRange` 1003-1016 | as for xset | the same control flow with O-commands and integer replies |
| Score-ordered set oracle | `testZSet` 537-657, `checkZSetRange` 659-661 | `zcard` | ZADD, ZCARD, ZSCORE, four range queries, ZREM loop, ZREMRANGEBYRANK |
| Set / list / hash oracles | `testSet` 205-280, `testList` 305-395, `testHash` 410-518, `check*Range`, the `Digits` sort | `scard`/`llen`/`hlen` | add/len/read per element, then halving (SREM, LTRIM+LREM, HDEL) and a check |
| Shared-key lock test | `testLock` 33-203 | shared keys `int`, `list`, `hash`, `set`, `zset`, `xset`, `oset` in the default namespace | `count` goroutines write one shared key per type; after the join, one reader checks each key against a closed form and deletes it |
| checkDelete | 1018-1042 | — | EXISTS = 1, DEL = 1, EXISTS = 0 |
| Aging/Compaction tool | `compaction_setup.go` | key population per namespace | for each of 8 types concurrently: reset the namespace; run 4 passes that re-create all `routines*count` keys and EXPIRE every 1st/2nd/4th/8th key, sleeping `expire` after each pass; DEL every 3rd key; sleep; COMPACT twice |
| Store (ndb) | not under src/ | keys, members, maxlen/finity | modelled from spec.md only as far as the harness consumes it |

### Interactions

* Each goroutine owns one connection and issues blocking request/response
  calls. A call is one atomic step, and the store serialises per key.
* Goroutines and their caller interact only through unbuffered `done`
  channels (rendezvous). `Test` joins the six type tests on `c`, then runs
  `testLock`.
* The harness shares no memory between goroutines except `*testing.T`,
  which is goroutine-safe for `Errorf`.
* A failed `assert.Equal` is recorded and the goroutine continues. A type
  assertion on a nil reply (`n.(int64)`, `s.([]byte)`), or an index past a
  short reply (`items[2*i]`), panics and ends the whole test binary.

### What is hard

* The **tolerance oracle** for bounded sets. The store trims lazily, so XCARD
  may lie anywhere in `[maxlen, 2*maxlen)`. The oracle reads the cardinality,
  derives the window of surviving members from it, and checks ranges against
  that window in later, separate calls.
* The **closed-form checks** after concurrent writes to shared keys
  (`testLock`). They hold only if the store is per-key atomic under every
  interleaving.
* The **join**: the exact count of receives on an unbuffered channel, so
  that nothing is verified while writes are in flight and nothing blocks
  forever.
* The **integer arithmetic** of the halving phases (`x/2`, `x - x/2`) and
  the empty-key edge.
* **Timing** in the aging tool: TTL = sleep = 1 s, and keys are re-created
  while older TTLs may still be pending.

### Correctness properties per component

* Bounded set oracle: no assertion fails against a store that keeps the
  contract (soundness). The spec also asks for the exact cardinality once
  writers quiesce.
* Driver: the caller is released only after every goroutine signalled, and
  the test eventually ends.
* Lock test: GET = count*length, the list/set/zset ranges are exactly
  `0..card-1`, the hash has `2*card` entries, and duplicate members in one
  command count once. This must hold under every interleaving and despite
  keys left over from an earlier run.
* Unbounded oracles: the exact counts after the halving phases, for every
  length.
* Aging tool: the final population (live, expired, deleted) is as designed.
  The tool makes no call that can fail by construction.

## 2. Plan

Modules, in order of importance (the modules marked ✓ exist):

1. ✓ `BoundedSetStore`: the store's bounded-set contract (spec-modelled). It
   covers lazy inline trimming, optional background trimming, and the
   commands' replies.
2. ✓ `XSetStress` (composes `BoundedSetStore` by `INSTANCE ... WITH`): every
   call of `testXSet`, plus `createNamespace`, the spawn loop, the join and
   checkDelete. `MC_XSetStress` instantiates it.
3. ✓ `OSetStress`: `testOSet` as a second client of `BoundedSetStore` (the
   O-commands, integer replies).
4. ✓ `LockStress` + `CollectionStore`: `testLock`, with the store as
   per-key atomic commands. Keys may be left over from an earlier run.
   (Still open: a variant with a non-atomic INCR, to show that the oracle
   detects lost updates.)
5. ✓ `UnboundedStress`: `testZSet`, `testSet`, `testList`, `testHash`,
   with their halving arithmetic over several lengths.
6. ✓ `WorkerPool` (abstract): "each worker's signal is taken once, then
   the caller is released", with a crash at any time. Each `*Stress` module
   is shown to refine it through a mapping of `mainPc`, `aborted` and `pc`,
   checked as the PROPERTY `ImplementsWorkerPool`.
7. ✓ `AgingTool`: `compaction_setup.go`, with keys, EXPIRE deadlines and a
   tick clock advanced by the sleeps. It checks the final population, that
   no TTL is carried into the next pass, and that the tool returns. The
   count argument is truncated by `count /= routines`. A `log.Fatal` may
   end a run at any store call, and the tool is then run again against the
   store as the dead run left it.
8. ✓ `StressMain`: `Test()`, composing the six tests and then `testLock`.
   The tests slice is ranged over in order, each goroutine runs the test
   its go statement evaluated, and a panic can end the binary.
9. ✓ `AgingMain`: `main()` of the aging tool. It has the usage exit, the
   range over the tests map in any order, one goroutine per namespace
   with nsname passed as an argument, `log.Fatal`, and the join.

Left open: a store whose expiry lands late (it would need a timing
contract spec.md does not give), and the store's argument parsing for
XADD/OADD without MAXLEN. Also open is the stress test's createNamespace,
which only asserts that NSDEL/NSNEW succeed and goes on (spec.md 4.1 says a
failed reset aborts). The assertion already fails the run, so no property
tells the two apart. All twelve runs allowed are in use, so a new
question has to replace a weaker one. `xset_background_live` (the xset
join under background trimming) gave way to `aging_main`. The pool's
crash path it exercised is now reached through `log.Fatal`, the usage
exit and the panic of `StressMain`.

## 3. Modules as they stand

### `BoundedSetStore` (spec-modelled)

* State: `elems[k]`, the members under key k (`{}` = absent), and
  `maxlen[k]` (0 = absent).
* `XAdd` inserts, then keeps the newest `s` members for some `s` in
  `TrimSizes`: exactly the count when it is at most maxlen, otherwise any
  size in `[maxlen, 2*maxlen)`. This is the lazy trimming spec.md 3 allows
  and the harness's tolerance (`maxlen <= n < 2*maxlen`) encodes.
* `Trim` (enabled only when `Background`) trims between calls. XSetStress
  adds it only in `NextBackground`/`SpecBackground`, which the
  `xset_background` run uses.
* `RangeReply` returns members in score order. Member and score are equal
  in every harness write, so the (member, score) pair of a reply collapses
  to one value, and the reply is reversed for the XREV* queries.
* Removing the last member removes the key, as in Redis.

### `XSetStress`

* Caller state `mainPc`, `recv`.
* Per goroutine: `pc`, `j`, `xcard`, `begin`, and `ri` (the range-query
  number, or the XREM loop index).
* `failed` is the set of commands whose assertion failed. `aborted` means a
  panic ended the binary.
* One action per network call, named for the call (`XAddStep`,
  `XCardStep`, `RangeStep`, ... `Exists1`, `DelStep`, `Exists2`).
* The caller's actions are `CreateNamespace`, `Spawn`, `Receive` (one
  `<-done`) and `Signal` (`c <- true`).
* The initial store may hold a key left by an earlier aborted run
  (`StaleSets`). The namespace reset is what makes the checks start clean.

### `OSetStress`

* The control of `XSetStress` over the O-commands: no score query, and
  range replies are one integer per member (`CheckOSetRange`). `ocard`
  and `begin` play the roles of `xcard` and `begin`.
* The store trims only inside OADD (`Background <- FALSE` in the
  instance). Trimming between calls is examined on `testXSet`, whose
  control is the same.

### `WorkerPool` (abstract)

* State: `phase` ∈ {running, released, crashed} and `done`, the workers
  whose signal the caller has taken.
* Actions: `Finish(w)` (a signal is taken, once per worker), `Release`
  (only when `done = Workers`) and `Crash` (a panic, at any time).
* Weak fairness on `Release` and each `Finish(w)`: the join eventually
  completes unless a crash intervenes.
* Refinement mapping in every test module: `done` is the set of goroutines
  at `pc = "exit"` (their `done <- true` was received); `phase` is crashed
  when `aborted`, released once `mainPc` is past the join (`finished`, or
  `read` in testLock), and running otherwise.

### `CollectionStore` (spec-modelled)

* State per key: `counter`, `list` (a sequence), and `hash`, `set`, `zset`
  as sets. Every hash field the harness writes carries its own number as
  value, and every zset member its own number as score, so a set of
  fields or members is all a reply depends on.
* One operator per command (`Incr`, `RPush`, `HMSet`, `SAdd`, `ZAdd`,
  `SRem`, `HDel`, `ZRem`, `LRem`, `LTrim`, `ZRemRangeByRank`, `DelKey`),
  plus the reply operators the harness checks (`SAddReply`, `LRemReply`,
  `ZRankFrom`, ...). `LTrim` follows Redis for a negative stop index.

### `LockStress`

* `COUNT` writers (`Workers == 0..COUNT-1`); `phase[w]` is the loop the
  writer is in (INCR, RPUSH, HMSET, SADD, ZADD, XADD, OADD, in the code's
  order) and `j[w]` the index within it. One action per call; member
  `i*length+j` is `Member(i, j)`.
* After the join (`Receive`, `Joined`), the reader runs `Program`: its
  calls in code order, each check followed by checkDelete of the key.
  `rpc` is its position, and `rbegin`/`rcard` cache the XCARD/OCARD
  reply used by the next range check.
* XADD/OADD use MAXLEN `card`, so the bounded store never trims here; both
  go to `BoundedSetStore` with `Background = FALSE`.
* `Stale = TRUE` starts from the default namespace as an interrupted run
  may leave it: each key empty or holding member 0 (or the counter 1).
  testLock has no createNamespace.

### `UnboundedStress`

* `test` (the test function) is chosen in `Init` from `Tests`, and
  `length` from `Lengths[test]`. Both stay fixed in a behaviour. Each
  goroutine owns key `w`.
* `WriteStep` is the write of round j (SADD, RPUSH, HSET or ZADD).
  `ReadBack` is the read-backs of the round (`SetReadBack`,
  `ListReadBack`, `HashReadBack` with its HMSET, `ZSetReadBack`). They form
  one action because no other goroutine touches the key and each call is
  atomic, so no interleaving can change what they observe.
* Then `LTrimStep` (list only), the removal loop (`RemStep` per index,
  `RemDone` at its end), `CheckRem`, and for the zset `RemRankStep` and
  `CheckRank`, then checkDelete.

### `AgingTool`

* One namespace's `setupExpire`. The eight namespaces of `main` share no
  key, so each is an independent copy of this module.
* Store state: `exists[id]` and `deadline[id]` (0 means no TTL) per key
  id `0..routines*count-1`, and the clock `now`. `Live` and `Pending`
  are the store's expiry rule (spec-modelled): a key whose deadline has
  passed is absent, and `Compact` reclaims it.
* Tool state: `tpc` (namespace reset, join, sleep, delete join, sleep,
  two COMPACTs, done) and `pass`, the loop variable `i`. Routine state:
  `rpc`, `rc` (its `c`) and `recv`, the join's count.
* `Callback(r)` is the type's callback (`Touch`). It re-creates an absent
  or expired key without a TTL. The namespace `nsname` is chosen in Init from
  `Callbacks`. On a live key, SET (`ClearsTTL`, the str namespace) drops the
  TTL, and the other seven commands keep it. The closure's `id % i` reads
  `pass` when the routine runs it. `ExpireKey(r)` sets a TTL only on a live
  key. `DelKey(r)` is the delete pass's callback.
* `Sleep` advances the clock by `Expire`, then starts the next pass or the
  delete pass. `Tick` lets time pass while routines work, `MaxDrift`
  ticks in all (`drift`). `MaxNow` is the sleeps of every run plus the drift.
* `Fatal` is a failed store call: the Dial, NSDEL or NSNEW of
  createNamespace, a routine's Dial, callback command, EXPIRE or DEL, or a
  COMPACT. A routine about to send stands for a last call whose reply was
  lost. `log.Fatal` kills the process, but the store keeps its keys, TTLs
  and clock. The model then starts the tool again (`restarts`, at most
  `MaxRestarts`). The rerun follows straight after the crash, which is
  the worst case: a TTL the dead run set has had no time to land. spec.md
  says the namespace reset is destroy-then-create and has no partial-state
  recovery, so the rerun is the only recovery. `NoTTLCarriedOver` and
  `FinalPopulation` therefore also check that createNamespace's NSDEL
  makes a rerun clean. The mutant `CreateNamespaceKeep` drops the NSDEL,
  and a pending TTL of the dead run then meets the rerun's first pass.

### `StressMain`

* `Test()`: `SpawnOne` is one iteration of `for _, test := range tests`.
  It moves `loopIdx` on and records in `garg[g]` the function value the
  go statement evaluated. `Start(g)` is the goroutine beginning to run
  `gfn[g]`. `Stage(g)` goes through `createNamespace`, then the test's
  own spawn/join and checks (modelled action by action in the modules
  above), then `c <- true`. `Receive` is the `range tests` join loop.
  `SpawnLock` starts `testLock`, `LockFinish` is its run, `ReceiveLock`
  takes its signal, and `Return` ends `Test()`.
* `Panic`: a running test's reply panics and ends the binary.
* `NsOf` is the namespace each test's `createNamespace` names. testLock
  has none and uses the default namespace.
* Refinement onto `WorkerPool` over seven workers, with testLock as
  worker 7: `done` is the goroutines that have signalled, and `phase` is
  crashed after a panic and released once `Test()` has returned.

### `AgingMain`

* `main()`: `Usage` (wrong argument count, `os.Exit(1)`), `Configure`
  (routines, `count /= routines`, the tests map), `SpawnOne` (one
  iteration of the range over the map: any entry not yet visited, since
  Go's map order is unspecified; the go statement's arguments go into
  `garg`), `LoopDone`, `Receive` and `Return` (the join).
* A goroutine: `Start(g)` reads its argument into `gns[g]`. `Stage(g)`
  steps through setupExpire: reset, then the passes, then the COMPACTs
  and the send. `AgingTool` models these stages call by call.
  `Fatal(g)` is a failed store call: `log.Fatal` ends the process.
* Refinement onto `WorkerPool` over the goroutines. The usage exit and
  `log.Fatal` map to its crash.

### Runs

| Run | Expect | Properties | Shows |
|---|---|---|---|
| `xset_sound` | pass | TypeOK, HarnessSound, ImplementsWorkerPool | With inline lazy trimming, no testXSet assertion fails. The driver implements WorkerPool: the join waits for every goroutine, and the test ends. |
| `xset_background` | violation | HarnessSound | A trim between XCARD and XRANGE breaks the derived window. The range check fails, and the short reply panics. |
| `xset_quiesced` | violation | QuiescedExact | A goroutine gets past the final XCARD holding a cardinality other than `min(n, maxlen)` with no assertion failed. The property is about the harness, not the store: it holds once line 758 asserts exactness (tried by adding that check to `XCardFinal`). As the code stands, a store at any legal size in `[maxlen, 2*maxlen)` is accepted. |
| `xset_small_maxlen` | violation | HarnessSound | With maxlen 2, the final halving empties the key, and checkDelete's first EXISTS fails against a correct store. |
| `oset_sound` | pass | TypeOK, HarnessSound, ImplementsWorkerPool | With odd MAXLEN 5 and a forced trim, no testOSet assertion fails; OREMRANGEBYRANK's count `ocard - ocard/2` is right for odd and even counts. |
| `lock_sound` | pass | TypeOK, HarnessSound, ImplementsWorkerPool | Three writers on shared keys: every closed-form check of testLock holds under every interleaving, and the reader starts only after all writers are done. |
| `lock_stale` | violation | HarnessSound | testLock resets no namespace. A leftover member makes SADD reply 0. |
| `unbounded_sound` | pass | TypeOK, HarnessSound, ImplementsWorkerPool | testSet and testHash for lengths 2..5, testList for 4..7, testZSet for 4, 5, 8, 9 (zcard even after the ZREM loop): no assertion fails. |
| `aging_sound` | pass | TypeOK, FinalPopulation, NoTTLCarriedOver, Completes, ClosureSeesItsPass | The str and int namespaces, two routines, count argument 11 (5 keys each), TTL 2 ticks. A `log.Fatal` may come at any store call, followed by one rerun on the same store. No callback meets a TTL of an earlier pass or of the dead run, the tool returns, and the compacted namespace holds exactly the ids that are multiples of neither 8 nor 3, without TTLs. The loop variable `i` the callback closure reads changes only once every routine of the `setup()` call has exited (`JoinedOneShort` breaks this). |
| `main_sound` | pass | TypeOK, EachTestOnce, ImplementsWorkerPool | No two running tests share a namespace, and each test of the slice runs exactly once, though the loop variable moves on before the goroutines start. testLock starts only after all six type tests signalled. `Test()` returns after all seven unless a panic ends it. |
| `aging_main` | pass | TypeOK, EachNamespaceOnce, ImplementsWorkerPool | Four namespaces, every map order and schedule, with the usage exit and `log.Fatal` possible. Each namespace is aged by exactly one goroutine, and main returns only after all of them signalled. |
| `zset_odd_half` | violation | HarnessSound | Length 6: zcard = 3, ZREMRANGEBYRANK 1 -1 removes 2 members, but the code asserts zcard/2 = 1. |

**Bounds.**

* Two goroutines, which is enough for their calls to interleave with each
  other and with the store.
* `LENGTH = 9`, `MAXLEN = 4`. The store reaches `2*MAXLEN = 8` members, so
  a forced trim happens. Every observed cardinality 4..7 is reachable at
  the end, which covers odd and even halvings.
* Smaller bounds in the violation runs are enough for the counterexample.
* `lock_sound`: COUNT = 3, LENGTH = 2. Three writers interleave each of
  the seven loops in every order; the members 0..5 of all writers mix in
  every shared key.
* Unbounded runs: two goroutines, and every length of the run's set. The
  sets contain odd and even lengths, and both parities of length/2, which
  is where the halving arithmetic can go wrong. Lengths below the
  minimum each oracle needs (2 for set/hash, 4 for list and zset) empty
  the key before checkDelete, like `xset_small_maxlen`; `Test()` uses 128.
* 48,862 distinct states for `xset_sound`, 80,119 for `oset_sound`
  (LENGTH 11, MAXLEN 5), 178,394 for `lock_sound`, 6,584 for
  `unbounded_sound`, 430,348 for `aging_sound` (str and int, one rerun), 33,621 for `main_sound`
  (all six type tests, every order of their stages), 81,684 for
  `aging_main` (four of the eight map entries).
* `aging_sound`: ids 0..9 include multiples of 2, 3, 4 and 8 other than 0.
  Two ticks of slack let time pass between a routine's EXPIRE and the
  join, and between its callback and its EXPIRE. The int namespace stands
  for the seven callbacks whose command keeps a TTL, which is the case that
  could carry a TTL over. The str namespace is the one whose SET drops it.
  One rerun (`MaxRestarts = 1`) is enough. A second crash reaches the same
  kind of state as the first: a dirty store before createNamespace.

**Fairness.**

* Weak fairness on each goroutine's steps and on the caller. The Go
  scheduler runs every runnable goroutine, and each store call returns
  (errors are fatal and outside the model).
* The aging tool's clock gets no fairness. Only the sleeps, which are
  steps of the fair tool, must advance it.
* `log.Fatal` (in `AgingMain` and in `AgingTool`, where a rerun follows it), `os.Exit` after the usage message and a test's panic get
  no fairness. They may happen and are never forced.
* The store's background trim gets no fairness. The refinement's liveness does not need
  it.

## 4. Not modelled, and why

* The redigo client, `redis.Dial`, `fmt`/`strconv` formatting: a call
  is an atomic request/response on abstract integer members. A failing
  call is modelled only where it ends the process: `Fatal` in `AgingMain`
  and `AgingTool`, and `Panic` in `StressMain`. A command already written
  to the socket when the process dies is applied whole or not at all
  before the crash. The store could in principle run it after the rerun's
  NSDEL on a new connection. That ordering belongs to the store, which is
  not in this repository and which this code does nothing to influence,
  so it is not listed as a hazard of this code.
* The numeric-string sort `Digits` is modelled by what it yields: the
  members in numeric order.
* The store's internals and compaction algorithm (spec.md, out of scope).
* Wall-clock time, except as the aging tool's tick clock. The store is
  assumed to expire a key exactly at its deadline: at `now = deadline` the
  key already counts as expired. A store that keeps it live at that
  instant (as Redis does), or an expiry that lands late, would break
  `NoTTLCarriedOver`, because the sleep equals the TTL with no margin.
  spec.md does not say which, so that tie is not covered.
* Hazards the model cannot reach:
  * `testLock`'s closed forms depend on the store being atomic per key,
    and the store model is atomic by its contract.
  * List lengths below 4 empty the key before checkDelete.
  * The aging tool's `count /= routines` truncation has no oracle in the
    code, and `FinalPopulation` is stated over the truncated ids.
* `aging_main` uses four of the eight namespaces. The properties are
  about the range loop and the join, and four entries already let the
  loop move past goroutines that have not started.
* The XADD and OADD of `setupXSet` and `setupOSet` lack the MAXLEN that
  spec.md 6 lists. Whether the store accepts that is a question of its
  argument parsing, which is not modelled.
