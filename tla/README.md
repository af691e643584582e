# A verification project for nutz-verify

nutz-verify recomputes what the NUTZ Distributor should have paid each Holder
for an Epoch (an hour) and compares it with the Merkle Root that was posted. It
reads a chain it does not control through endpoints it does not trust, keeps a
Cache of every transfer on a disk that may fail, and ends in a verdict the
Signer acts on. This directory models the parts of it in which something can go
wrong that a test would hardly reach, checks them with TLC, and proves the most
important results with TLAPS.

## The system

| part | state | operations | hard because |
|---|---|---|---|
| **Cache** `cache/` | one append-only file of fixed-size records, a buffer, a count and the last record | Open (scan, repair), Sync (verify, fork search, Truncate, chunked read, Append, checkpoint), Each, Close | crashes between write and fsync, torn writes, bit rot, reorganisations between and during runs |
| **Engine.Sync** `epoch/engine.go` | the synced history and a report | Open, Sync, Close, Open again, read back | several steps that fail one by one, two opens of one file |
| **Ledger / Replay** `internal/twab/` | a standing per address, an open window | Advance, Replay | incremental answers must equal those from scratch; boundaries; order inside a block |
| **Reader** `chain/reader.go` | none between reads; goroutines during one | Head, Transfers, Roots, Timestamps, EndBlock, contract calls; log paging; fan-out over workers and endpoints | concurrency, first failure wins, cancellation, uint64 ranges |
| **Endpoint** `chain/rpc.go` | request counter, pacer, `noBatch` | call, callBatch, retries | replies in any order, state shared by concurrent calls |
| **Epoch engine** `epoch/` | the Ledger, memoized reads at the tip | Latest, Compute, Walk | Voids, re-posts, passed-over Epochs, search in pages, reads at the tip about an older Root |
| **Rules** `internal/alloc/`, `merkle/` | none | streaks, weights, floors, the tree and its proofs | floors and omissions must lose nothing; index arithmetic |
| **Verdict** `internal/report/`, `cmd/nutz-verify/` | a report | Assess, Worst, exit codes | overlapping cases of posted, passed over, expected |

A run resolves a tip (Reader.Head), brings the Cache to it (Cache.Sync over
Reader.Transfers), feeds the Cache's history to the Ledger, reads the
Distributor's Roots and ledger through the Reader, computes the target Epoch
(Compute) or every rooted one (Walk), and assesses the results. The only
concurrency is inside the Reader; the Cache is shared with other processes
through the file, and everything is shared with the chain, which moves.

## Modules

| module | models | of |
|---|---|---|
| `Cache` | the file, the run over it, the chain and the faults | `cache/cache.go`, `cache/sync.go`, `Engine.Sync` |
| `Ledger` | Advance, with Replay of every Epoch stepped along | `internal/twab/` |
| `CacheShared` | several processes on one Cache file: lock, `--fresh`, kills | `cache/lock_unix.go`, `cache/`, `Engine.sync` |
| `AgreedRead` | abstract: what a cross-checked read promises | comments of `chain/reader.go` |
| `FanOut`, implements `AgreedRead` | inParallel, eachEndpoint, crossCheck, firstFailure | `chain/reader.go` |
| `LogPager` | Reader.logs | `chain/reader.go` |
| `Pinned`, extends `LogPager` | Head, then EndBlock or Transfers with its stamps, on a chain that moves | `chain/reader.go`, `internal/twab/twab.go` |
| `Endpoint` | blocksByNumber over callBatch, call, roundTrip and the pacer | `chain/rpc.go`, `chain/reader.go` |
| `Distributor` | the contract as the Verifier relies on it (external) | |
| `Carry`, extends `Distributor` | search for Roots, carry chain, assessment, verdict | `epoch/`, `internal/report/assess.go`, `cmd/nutz-verify/` |
| `Rules` | Allocate and the Merkle tree: from Holders to a Root and a proof | `internal/alloc/`, `merkle/` |
| `CacheProofs`, `SharedProofs`, `LedgerProofs`, `FanOutProofs`, `PinnedProofs`, `EndpointProofs`, `CarryProofs`, `RulesProofs` | theorems about the module they extend (`PinnedProofs` about LogPager too) | |
| `MC*` | the instances TLC checks | |

Definitions named in comments as *Mutant* are plausible bugs of the definition
below them. No action uses them; each shows that a property notices the bug.

### Cache

The chain is a set of branches with their hashes and transfer logs; a hash
commits to all that precedes it. The node follows one branch, which grows,
settles and is exchanged for another that keeps the settled part. A file is a
header and a sequence of slots, each a record or `Bad` (a failing CRC or a short
tail); `durable` counts the fsynced ones and `buf` is bufio's buffer. A run goes
through `Begin` (Head, OpenFile with O_TRUNC for `--fresh`, lock), `Open` (load,
scan, repair), `Verify`, `Probe` (one header read each), `TruncateAtFork`,
`Fetch` (a chunk, with a checkpoint when due), `Close`, `Reopen` and `Each`. A
read may fail anywhere, the process may be killed or the power lost with any
part of what was not yet safe kept, and a bit may flip.

A file whose header is someone else's ("other") is refused until it is replaced
with `--fresh`; a flipped bit in the header has the same effect.

`Fetch` reads a chunk of one branch in one step; its pages and block stamps are
separate reads in `Pinned`. Chunks of one run may come from different branches
(`ReorgMidRun`).

### CacheShared

What two runs on one file share, and no more: the chain only grows and no byte is
damaged, so that record `i` is simply the `i`-th transfer. Each process has its
own buffer, its own idea of what the Cache holds (`held`), and goes through both
Opens of `Engine.sync`, step by step: OpenFile (where O_TRUNC takes effect), lock,
stat, header, scan. A descriptor in O_APPEND writes at the end the file has by
then. The lock belongs to a descriptor: it is refused rather than waited for, and
goes when its holder closes the file or is killed. `undone` notes, for the
properties only, that another process opened with `--fresh` since this one started.

### Ledger

`Advance` is the actions `Open`, `Step` (a transfer), `Settle` (the end of a
second) and `Emit`, so that the Replay of every Epoch can be stepped beside it:
Replay walks the same sorted transfers, sees those before its own boundary, and
starts each standing in its own window. An address off the Ledger's active list
is written `since = Idle`. Addresses are a function instead of a map, and the
sort by time leaves ties open, as nothing may depend on them.

### FanOut and AgreedRead

`FanOut` has the dispatcher's select, the workers, and the goroutine each
cross-check starts per endpoint. A read ends in one step and records its failure
in another, because the lock of `firstFailure` lies between them. `AgreedRead` is
the caller's view: endpoints break, the caller may give up, and at some point one
step returns what all endpoints say of all batches, or an error for which there
is a reason. `ImplementsAgreedRead` is that FanOut, with its map and its error as
the answer, implements it, liveness included.

### LogPager, Pinned, Endpoint

`LogPager` computes pages in words of `MaxWord + 1` values. `Pinned` puts it into
a run: every endpoint gives its tip, the lowest is read again, and then either
EndBlock probes headers or Transfers reads pages and stamps the blocks it found.
The endpoints may move to another branch between any two of these reads
(`Reorg`), and any read may fail. What is `safe` is before the fork (`Common`).
`moved` notes whether the chain moved since Head. Times are int64 and wrap.
`Endpoint` is several calls against one endpoint that may answer, refuse, be busy
or break, and whose arrays may be short, repeated, permuted or about another block.
Whether it takes batches (`batches`) is fixed and unknown to the calls, which guess it
from its answers. At some point, or never, it may be over its troubles (`Recovers`,
`well`): from then on it answers what it is asked, refuses batches only if it takes
none, and is busy only beyond its budget. `relied[c]` notes that it was well when c
began. Until then every answer is possible, a throttle that looks like a refusal too.
The pacer is in it: `tokens` is its bucket, refilled by one call a tick (the code
refills when it is asked, to the same value), `due` what is left of a caller's wait,
and `budget` the limiter at the other end, which starts as full and fills as fast.
The code's bucket holds two full batches (`chain/rpc.go:71`), so a batch never exceeds
it (`EndpointAssumption`).

### Rules

Allocate's loops (weigh, divide, omit), New's two, Proof's and Verify's are steps.
Amounts are naturals: what checkAmount and putUint256 refuse (nil, negative, over
256 bits) does not come out of the ABI decoder. A hash is an operator without
collisions; TLC's instance writes out what was hashed, and orders leaves
differently from accounts.

### Distributor and Carry

The contract is not in this repository: its actions are what `epoch/roots.go`
(comment at line 18) and `internal/report` say they rely on. One token stands
for the five, the dust is `base % Dust`, and a Root is written as the base it
was built over. `fair`, a ghost of each log, says whether root, totals and carry
were right when it was posted. All reads of a run are pinned to its tip, so a
run is one step: `Run(target, chain, expect)` or `RunLatest`. The loops inside it
are recursive functions, one value a turn: `Page` over the logs of a page, newest
first; `SearchBack` over pages; `StandingRoots` over the stream; `Walk` over Epochs.

## Runs

| run | shows | bounds |
|---|---|---|
| `MCCacheLatest` | WholeBlocks, HistoryExact, ForkExact and Converges under faults at `latest` | 3 branches, 4 blocks, 2 faults |
| `MCCacheWild` | EveryRunEnds, RunsForward with everything allowed | 4 blocks, 1 fault |
| `MCLedger` | LedgerAgrees, IntegralExact, RefusalJustified | 3 Epochs of 2 s, 2 accounts, up to 3 transfers |
| `MCShared` | NeverInterleaved, ReadsBackItsHistory, EveryRunEnds | 2 processes, 3 blocks, any number of runs |
| `MCFanOut` | FanOut implements AgreedRead | 3 batches, 2 workers, 2 endpoints |
| `MCPinned` | RangeExact, RefusedOnlyIfDense, EndBlockIsLast, ReadsMatch, TipIsHeldByAll, CallReturns | words of 5 values, all ranges, all block times, 2 branches, 2 endpoints |
| `MCEndpoint` | HeadersAsAsked, BudgetKept, ServedOnceWell, Returns | a batch of 2 beside one of 1, 3 attempts, a bucket of 2 |
| `MCCarry` | RootJudgedAsPosted, WalkAgreesWithCompute, MatchedWalkConserves, ExpectationVouchedFor, UnpostedIsNoMatch, LatestIsLatest | 3 Epochs, 3 posts, 1 Void, 1 Draw |
| `MCRules` | Conserves, HoldingPays, ProofsVerify | up to 3 Holders of 8 kinds, trees of up to 7 leaves, 2 tokens |
| `MCCacheMixed`, `MCCacheReport`, `MCSharedFresh` | the disagreements below | 5 blocks and at most 1 fault; as MCShared |

Every run but the last three passes, and one run of each module checks its type
invariant. In words, the properties are:

- *WholeBlocks*: an opened Cache is whole blocks of one branch, from the start.
- *HistoryExact*: a run that succeeds returns the chain's transfers through its tip.
- *ForkExact*: Truncate drops exactly what is off the chain.
- *Converges*: once faults and reorganisations stop, the Cache stays at the chain's history.
- *EveryRunEnds*, *RunsForward*: whatever happens, a run ends, and what it returns
  is in order and without repeats.
- *LedgerAgrees*: Advance returns what Replay returns. *IntegralExact*: which is the
  integral of the balance, a second at a time. *RefusalJustified*: a walk fails
  exactly on a history that cannot be.
- *NeverInterleaved*: whatever processes ran at once, a file that opens as a Cache is
  whole blocks of one history. *ReadsBackItsHistory*: a run that succeeds returns
  the history through its tip, unless another process emptied the file with
  `--fresh` meanwhile. *EveryRunEnds* there: the lock makes nobody wait.
- *ImplementsAgreedRead*: a read returns; no error means every batch was read and
  agreed on; and nobody is blamed for a cancellation the Reader caused.
- *RangeExact*: the pages are the range. *RefusedOnlyIfDense*: narrowing gives up
  only on a block too dense by itself.
- *EndBlockIsLast*: the last block before the Epoch closes, whatever times repeat.
  *ReadsMatch*: logs and stamps, read one after another, are one branch's.
  *TipIsHeldByAll*: no endpoint lacks a block a run asks for. *CallReturns*.
- *HeadersAsAsked*: headers are never mixed up, and replies in any order will do.
  *BudgetKept*: the pacer never lets more calls go than an endpoint of the same rate
  and capacity takes. *ServedOnceWell*: a call begun since the endpoint is well
  succeeds unless it is cancelled, whatever was left behind by the calls before it
  (a latched `noBatch`, a debt at the pacer) and is done by those beside it. *Returns*.
- *RootJudgedAsPosted*: a posted Root passes exactly if it was right when posted.
  *WalkAgreesWithCompute*, *MatchedWalkConserves*: both computations of the carry
  agree, and a matching Walk accounts for all funding. *ExpectationVouchedFor*,
  *UnpostedIsNoMatch*: exit 0 only for what is finished and right.
  *LatestIsLatest*: the default target is the last Epoch with a standing Root.
- *Conserves*: claims and carry are what came in, and less than a unit per Holder is
  carried. *HoldingPays*: who holds no less for no less long gets no less.
  *ProofsVerify*: a claim's proof verifies for that claim and no other.

Why the bounds are enough. The three branches leave each other at different
blocks and carry several, one and no transfers per block, so that a cut falls
inside a block, a fork search takes two probes and ends at either end, and a
chunk (2 blocks) and a checkpoint (3 records) end at different places; two
faults allow damage during the recovery from damage. In `MCLedger` a transfer can fall
on every second of three windows, boundaries included, and Epochs are asked for
in every order with any of them skipped. Two workers and three batches are the
least with one batch left to hand out when both workers are gone. In `MCPinned`
every range of the word is asked for, its top included, over blocks that are
empty, fit and do not fit, and the branches differ in their logs and times beyond
the second block; EndBlock meets every non-decreasing sequence of times, one
Epoch's id wrapping. In `MCShared` a run writes at a checkpoint or at Close, and
each process starts again as often as it likes. `MCRules` has Holders a second to
either side of both thresholds, and fundings smaller than the number of Holders,
so that some are left out. Three Epochs and
three posts hold a passed-over Epoch, a void with a re-post, and a Root after
both; a search span of 1 makes every search take several pages. Where a result
matters beyond these bounds it is proved.

### Fairness

`Cache`: a run under way takes its next step (it waits for nothing but reads
that answer or fail), and someone starts another run, as the Signer does every
hour. Faults, growth and reorganisations are never forced; `MaxFaults` makes them
stop. `FanOut`: goroutines run, and a read ends, since the http.Client has a
timeout of 30 seconds. `Pinned`: a read is answered, however the chain moves.
`CacheShared`: a process that runs takes its next step, as nothing in it waits for
another. `Endpoint`: every call
takes its next step and time passes; that an endpoint becomes well is not assumed.

Deadlock is checked everywhere; a read that has returned stutters explicitly.

## Disagreements between the code and what it says

Each is a run TLC ends with a counterexample.

- **`MCCacheMixed`** (`cache/sync.go:88`). A run at `latest`, a reorganisation,
  a run at `safe`: the newest record held is past the new tip, so Sync reads
  nothing, and a transfer of the new branch between the last verified record and
  the tip is missing. "Sync advances the Cache to tip" (line 50).
- **`MCCacheReport`** (`epoch/engine.go:149`). A run that truncated or repaired
  and then failed is not reported, though three comments say it is.
- **`MCSharedFresh`** (`cache/cache.go:222`). `--fresh` is O_TRUNC in OpenFile, which
  comes before the lock: a second process empties the file under the holder and is
  refused only then, although "A single process writes it at a time" (line 198).
  The holder's next flush leaves a file without a header, which every later run
  refuses until `--fresh`; and if it had nothing more to write, its second Open
  finds an empty file, and the run succeeds with an empty history
  (ReadsBackItsHistory allows exactly this case).

More conditions under which the promises fail, not kept as runs. With
`AlignedCuts = TRUE`, WholeBlocks fails (`cache/cache.go:381`): a write cut exactly
between two records of one block is a clean end of file, and half a block is kept,
which the comment on Repair (line 334) says must not happen. The buffer is 1 MiB
and a record 124 bytes, so a cut between two writes rarely falls there; it needs
that, a short write or a file system that keeps a prefix, and it is permanent. With
`ReorgMidRun = TRUE` at `latest`, ForkExact fails: a reorganisation between two
probes of the fork search (`cache/sync.go:167`) makes "still on chain" not true up
to a point and false after it. At `safe` this cannot happen. With `"reopen"` in
`RotPoints`, HistoryExact fails: the second Open of a run (`epoch/engine.go:223`)
may repair the file, nobody asks it, and what it dropped is not refetched by this
run, which succeeds. In `Pinned` at `latest`, a reorganisation during Transfers
may join pages of two branches or stamp a log with another branch's time, and a
branch left and adopted again may hide that from a later hash check; this is why
ReadsMatch is stated at `safe` or for a chain that stands still. An Epoch id
whose window does not fit an int64 (`internal/twab/twab.go:27`) is refused, or
answered with the end block of the Epoch it wraps to. BudgetKept takes timers to be
exact: a caller that the scheduler wakes late sends beside the next ones, and the
endpoint may see more than its capacity at once; its 429 is then retried. And
`cache/lock_other.go` locks nothing on systems that are not unix: it is the mutant
LockOther, under which NeverInterleaved fails.

`noBatch => ~batches` fails in Endpoint. The comment in callBatch
(`chain/rpc.go:199-202`) says that a rate limit is not "no batches" and that one
blip must not turn into "every later read paying a request per header". That is so of
a 429. But `.scratch/verifier/spec.md:72` has the endpoint throttle with "a short
`403`" as well, which passes; a 403 is an httpFailure (line 352) and so a
batchRefused, and so is a rate limit sent as one error object for the whole batch
(lines 213-217). Either sets `noBatch`, which nothing sets back: a throttle that
passes takes the endpoint off batches for the rest of the run. ServedOnceWell says
what is left then: later reads still succeed, and within the budget, at a request
per header.

Also of callBatch: its comment (lines 184-185) has an endpoint that "answers with
something other than an array" fall back to single reads. The code asks for an error
object; any other body that is no array fails the call (`Breaks`).

What two of the properties do not notice: HoldingPays is about order, so a threshold
moved by a day passes it; and RunsForward does not notice a suffix dropped by the
second Open, which HistoryExact does.

Not a run either: `.scratch/verifier/spec.md:121` says `--chain` walks with the
recomputed carry throughout, and ticket 11
(`.scratch/verifier/issues/11-public-seam-for-the-indexer.md:64-65`) that the carry
expected is the recomputed chain's, "which is what makes this different from a series
of Computes". Both can be read as saying that a Walk may expect another carryIn than
Compute. The code computes each link over the carryIn it was posted with and compares
the carry separately (`epoch/engine.go:424-427`), as the same paragraph of the spec goes
on to say of Root and `totals`, so the two agree (WalkAgreesWithCompute): a Walk differs
in how many links it reports.

## Proofs

TLAPS proves, for every value of the constants allowed by the named assumptions:

- **`TypeCorrect`**: `Spec => []TypeOK` of Cache, with `TypeInv` (TypeOK and
  what a program counter says of the buffer).
- **`HistoryRunsForward`**: RunsForward of Cache with everything allowed: mixed
  finality, reorganisations during a run, cuts inside a block, damage at any time.
  `ForwardInv` says that what the file holds, damage left out, is in block order and
  has nothing twice (`Tidy`), and that the chunk loop only reads blocks after all of
  it. It does not say the file is a history: it need not be one.
- **`OpenedHoldsWholeBlocks`, `SuccessIsTheChainsHistory`,
  `SearchFindsTheFork`**: WholeBlocks, HistoryExact and ForkExact under `Steady`:
  one finality, no reorganisation during a run at `latest`, no cut between the
  records of a block, no damage between Close and the second Open. Each condition
  is needed: `MCCacheMixed` drops the first, and the section above says how the
  others fail. At `safe` the chain may reorganise at any step of a run:
  `HistoryOvertaken` shows that the new branch is the old one as far as the run
  looks (`SharedPast`). The inductive invariant `HistoryInv` says
  what each phase may rely on. Between runs the file need not be a history; it
  *shadows* one: slot for slot it is some branch's log or damage, and it ends in
  damage or at a block boundary (`DiskInv`). Faults keep a shadow a shadow;
  `ScanLeavesWhole`, the heart of it, says that what scan and repair keep of a
  shadow is whole blocks. The search is correct because a hash commits to its
  ancestors (`SearchInv`), and `FetchInv` extends the history by adjacent reads.
- **`FilesNeverInterleave`, `RunsReadBackTheirHistory`, `SharedTypeCorrect`**: of
  CacheShared, for any number of processes. `SharedInv`: while a process writes, what it
  believes it holds is a prefix of the history, and the file with its buffer is just
  that, unless the header is gone (`WriterInv`); what is read back is what was counted
  or nothing (`ReaderInv`); and only a `--fresh` of another process, which truncates
  *before* it asks for the lock, takes the header or synced records away (`KeptInv`).
  So a tail appended after such a truncation never stands behind a header that opens.
- **`LedgerAgreesWithReplay`, `LedgerTypeCorrect`**: the Ledger simulates every
  Replay still to come. `LedgerInv` says of the Epoch under way that its
  standings are `Like` those of its Replay, and of every later Epoch that they
  would be if its window were opened now (`LaterInv`); this is what makes
  skipping Epochs sound, and why LedgerAgrees alone is not inductive.
- **`HoldersAreTheIntegral`**: IntegralExact, for every history. The sums of the
  statement run along the transfers and along the seconds of a window (`SumTo`); what
  the proof needs of them (`SumSteps`, `SumFrom`, `SumSame`) follows from the
  well-ordering of the naturals. `IntegralInv` follows the Replay of each Epoch that
  has seen all transfers so far: what it accrued is the sum over the seconds before
  the open sub-interval, and since that opened the balance has not changed
  (`AccrualInv`); first buy and last sell are those applied (`StreakInv`). LedgerAgrees
  then takes this to the Ledger, whichever Epochs it skipped.
- **`RefusalsAreJustified`**: `RefusalInv`: who did not send in the block under way is
  not overdrawn, at the end of every second before it nobody was (`SolventInv`), and
  balances are the sums of the transfers applied. So judging only who moved, and only
  when the second ends, misses nobody; and a failure names a real overdraft.
- **`FanOutImplementsAgreedRead`, `FanOutTypeCorrect`**: the safety half of the
  refinement: Init implies `Agreed!Init` and every step is a step of AgreedRead or
  leaves its variables alone. `FanOutInv`: a batch that was handed out is in the map
  with what every endpoint says, or a worker is on it, or the context is done
  (`MapInv`); a cancelled read was cancelled for a reason (`ReadInv`); and the first
  failure kept is an endpoint's own, a real dispute, or the caller's cancellation
  (`BlameInv`). Without the last two an interrupted endpoint could be blamed.
- **`PagesAreTheRange`, `PagerTypeCorrect`**: what was read is the range up to
  `start` (`ReadSoFar`); page ends do not wrap because they are measured from
  the end of the range. The chain may change what blocks hold at any time.
- **`RunImplementsPager`, `RunReadsTheRange`**: every step of `Pinned` is a step of
  `LogPager` or leaves it alone, with a reorganisation as the pager's `Moves`;
  hence RangeExact of the run that MCPinned checks.
- **`TipIsHeld`, `EndBlockFindsTheLast`, `TransfersAreOfOneChain`,
  `NarrowingReachesTheBlock`, `RunTypeCorrect`**: of Pinned, from one invariant
  `RunInv`. Each tip an endpoint gave is one it holds, and settled at `safe` (`TipInv`). The search
  keeps the comment at `chain/reader.go:528`: lo is before the boundary, hi at or
  after it; each was read from *a* branch, and while the run is Steadfast that is the
  chain's. Every page and stamp read so far is the branch's, and stays so across a
  reorganisation at `safe`, which shares everything up to the tip. A span of one
  block is reached by halving, so a complaint about size there is about that block.
- **`HeadersAreAsAsked`, `PacerKeepsTheBudget`, `WellEndpointServes`,
  `EndpointTypeCorrect`**: of Endpoint (`EndpointInv`). A batch is posted once every
  request has an id and no two the same (`IdsInv`), so an array with as many replies as
  requests and one for each has, by counting, no other. Of the pacer, `PaceInv` places
  the reservations on one line of tokens: each call that waits has a stretch of its own
  there, below the endpoint's budget and above the tokens nobody took, so the budget
  never goes below zero, whoever gives up. It says of each pair of calls what a sum
  over all of them would. `WellEndpointServes` is a second invariant over these
  (`ServedInv`): a well endpoint is not busy, because the budget is kept; an array
  with every header matches, because ids are distinct; a refusal only ever meets a
  batch, which goes on without; and a single header is the next one wanted.
- **`RootsAreJudgedAsPosted`, `SearchAndWalkAgree`, `MatchedWalksAccountForAll`,
  `VouchedForIsRight`, `UnfinishedNeverMatches`, `LatestFindsTheLast`,
  `CarryTypeCorrect`**: every invariant of Carry, for any number of Epochs, posts and
  Voids, any funding and dust, and pages of any width. The argument has three parts.
  *The book is in order* (`BookInv`, inductive): logs are in block order, and the Roots
  among them in the order of their Epochs, where only the Epoch just past the mark may
  come again (`StreamInv`); a Root may be voided only where one stands (`MarkInv`); and
  a Root that stands was not passed over, is its Epoch's last log, and is as right now
  as it was when it was posted (`StandingInv`). The last holds because funding and posts
  lie above the mark and a Void takes the Root at it: while a Root stands, nothing
  before it is funded, posted or voided, so what was owed to it stays (`OwedStays`).
  *The loops find it.* Each recursive function has a run, a function on an interval with
  one value a turn (`LoopRuns`, by the well-ordering of the naturals), and each turn
  keeps an invariant: after a page, nothing above its lowest block is wanted, and a bound
  that sank still names the same log (`Clear`, `PageClears`), so that searchBack ends
  at the newest log wanted (`SearchFinds`); the table of standing Roots holds the last log
  of each Epoch read so far (`TableOK`); and the Walk's carry is, Epoch by Epoch, what
  the next is owed (`WalkOK`).
  *What is reported is so* (`Sound`, `OutcomeSound`), and stays so, since a run is over
  the state at its tip. `CarryInv` is `BookInv` with that.
- **`AllocateConserves`, `AllocateIsMonotone`**: of Rules, for any Holders, tokens
  and amounts. The sums of the code's loops are running sums in the invariant
  (`WeightInv`, `ClaimInv`: there is a function that starts at zero, adds a row at a
  time and ends at the code's total), so no sum over a set is needed. Each floor is
  less than a unit below its exact share, which bounds the carry by the number of rows;
  floors of a product by a positive total are monotone.
- **`TreeProvesItsClaims`, `RulesTypeCorrect`**: `TreeInv` says that every inner node
  filled so far is the hash of its children; `ProofInv` has the path from the leaf
  the proof was taken of. Verification climbs it: it agrees with the path exactly as
  long as the claim is the one the proof is for, because hashing loses nothing.
  Both take the hashes as `IdealHash` describes them.

Assumptions: on the chain, that logs are in block order with no log twice and hashes
commit (`LogAssumption`, `HashAssumption`), and on what its blocks may hold
(`PinnedAssumption`, `SharedAssumption`); that Go's nil is no error (`NoneAssumption`); otherwise only the types of the constants (`LedgerAssumption`,
`PagerAssumption`, `EndpointAssumption`, `RulesAssumption`, `SearchAssumption` and the
like; `DistributorAssumption` has funding positive and the ids of Draws not negative).
TLC evaluates them on every run. `IdealHash(H)` is a hypothesis of two theorems and
no assumption of the module, since it speaks of all hashes of an infinite set: no
collisions among leaves or among pairs, and a strict total order. Hashes that are
terms satisfy it, as the sequences of `MCRules` do; keccak256 does until somebody
finds a collision. That a leaf is never a pair is not needed: a proof has the length
of the path of its own leaf.

Only model-checked: liveness (Converges, EveryRunEnds, CallReturns, Returns and the
liveness of ImplementsAgreedRead), which is out of the prover's reach. Every
other property of a passing run is proved as well.

## Not modelled

Decoding of ABI words, hex and JSON, and the bytes keccak256 is given: conversions
without state, covered by the repository's fixtures. Comparison with published
artifacts, which looks at a finished Result; rendering, flags and the tree's dump;
deployment constants. The length of a backoff, which is any delay here. The fake node and scripts, which are test support.
Endpoints that agree on a false answer: the cross-check promises nothing then.

## Plan

Done: Cache, Ledger, FanOut, LogPager, Endpoint and Carry; then CacheShared, Pinned,
AgreedRead with its refinement, Rules, the pacer, and the theorem of the history at `safe`
with reorganisations mid-run; then the proofs about Pinned, CacheShared, Endpoint,
FanOut, Rules and the whole of Ledger, and RunsForward of Cache; then every invariant
of Carry. Worth adding as the code grows: a proof that the book memoizing ledger reads
(`epoch/roots.go:25`) answers as the ledger does, once its reads are steps of their
own; the comparison with published artifacts; and the five tokens side by side, should
the contract come to mix them.
