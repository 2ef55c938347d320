# TLA+ verification of the data marketplace backend

The marketplace sells datasets for download and compute-to-data jobs over them. A
buyer pays through Stripe, the money sits in escrow until the buyer confirms the
delivery, the seller is then paid by a transfer, and a dispute can send the money back.
Sellers upload versions that are examined before they go on the market, and withdraw
settled earnings; computations run on the platform under a privacy budget, alone or
over several parties' data; agents work in a metered workbench.

The Go backend (`src/backend`) is a set of modules that share one PostgreSQL database.
Almost nothing runs inside one transaction: a request is a sequence of statements and
provider calls, each atomic by itself, and other requests, background workers, webhooks
and crashes come between them. The modules here put a step at each statement and check
what survives that. Paths below are relative to `src/backend/internal/modules/`.

Contents: [inventory](#inventory) · [modules](#the-modules) · [runs](#the-runs) ·
[bounds](#bounds) · [fairness](#fairness) · [proofs](#proofs) ·
[disagreements](#where-the-code-and-its-comments-disagree) · [gaps](#known-gaps) ·
[not modelled](#not-modelled) · [plan](#plan)

## Inventory

### Components and what makes them correct

| component | state | hard part | correct when |
|---|---|---|---|
| order state machine (`order/`) | `orders.status`, `disputes` | one conditional `UPDATE` per transition, everything else beside it | an order is placed as offered, and the money agrees with its status |
| settlement and refund (`payment/`) | `payments`, `settlements`, the provider's transfers | check, insert, split, book and settle are six statements; so is a refund | nobody is paid twice, the seller only for a confirmed order, the books never run ahead of the provider |
| settlement outbox | `settlement_outbox`, an advisory lock per order | two instances, stale listings, retries | no two attempt one order together, every recorded job ends |
| payment and webhook | the `payments` row, charges | racing requests, duplicated and cut-off webhooks | one charge can be paid, and a captured one is booked |
| compute credit of an order | `compute_entitlements` | granted after paid, revoked after refunded, spent and given back by jobs | a refunded buyer's revoked credit stays so |
| delivery, evidence bundle | `deliveries` | overlapping downloads, replaced tokens, new versions | the quota holds per token, the purchased file is served |
| withdrawal | `withdrawal_requests` | the settled sum is read before the lock | what was and may be paid out never exceeds what was earned |
| compute jobs and worker | `compute_jobs`, credits, `dp_budget_ledger`, a bounded channel, leases | late workers, sweeps, restarts | credits balance, privacy is paid before output leaves, what is over stays over |
| federated jobs | the parent and its sub-jobs | the last sub-jobs finish together | one handler decides, and gives each credit back at most once |
| intersection, aggregation | the parties' secrets, masked sums | a party restarts between rounds | the intersection is never too wide; masks cancel |
| registry, offers, key broker | `algorithms`, offers, the broker's policy in memory | reviews, offers and jobs move separately | only audited algorithms release models, L2 output is attested |
| egress gate, results, certificates | outputs, registry of certificates | row and object are read separately | no unreleased bytes leave; certificate, bytes and registry agree |
| workbench quotas | reservations, leases, ledgers | expiry, reaper, late completion, month's turn | never oversold, each run metered once |
| workbench artifacts, approvals | objects, metadata, approvals | stores of one artifact race; replies are lost | an artifact is whole or absent, a command runs once |
| upload, quality, review | versions, retry rows, a channel | statuses are written unconditionally | what is on the market was examined and approved |
| watchlist, notifications | watches, mail log | late announcements, nothing tried again | watchers are told, and not twice, but in the ways named |
| questions, moderation | questions, answers, reports | answers race an operator's hiding | what was hidden stays hidden |
| certificates of datasets | the public register | three reads while versions appear and stale decisions land | a certificate describes one version |
| quality checks | text and columns | overlapping detectors, several tests | masks cover what was found, the verdict keeps its thresholds |
| sessions, second factor | lockout, denylist, tokens, codes | calls that read before a reset | old sessions end, codes work once |
| deletion, export, identity | requests, archives | crash between purge, scrub and completion | archives stay findable, only an approved request erases |
| API keys, billing, rate limiter | meters, plans, windows | reordered events, a month's turn | no meter lets through more than its plan |
| anomaly scan | open rows, alerts | scanners of several processes | one open row per actor and action |

`PROJECT.json` lists every component with its files, status and, where it is `partly` or
not modelled, the reason.

### How they interact

```
 buyer ──CreatePayment──► payment ──charge──► Stripe ──webhook──► payment.markPaid
                                                                    │ MarkPaid
 seller ◄─transfer─ Stripe ◄─split─ payment.settleOnce              ▼
                                      ▲    ▲   │ MarkSettled ──► order ──GrantForOrder──► compute
                  ConfirmDelivery /    │    │  GetSystem            │  ▲
                  Release (inline) ────┘    │                       │  └─MarkDelivered── delivery
                            outbox worker ──┘                       │
 ops ──ResolveDispute──► order ──Refund──► payment ──reverse, refund──► Stripe
                           └──RevokeByOrder──► compute
 seller ──Request──► withdrawal ──SettledCentsOf──► order (settled rows)
 seller ──complete──► dataset ──channel──► quality worker ──► review ──NotifyDatasetPublished──► watchlist
 compute worker ──ends a sub-job──► tryAdvanceFederated ──► parent ──aggregate──► certificate registry
 workbench ──reserve, meter──► workbenchusage          every request ──► auth, rate limiter
```

All calls are synchronous and in one process, except the announcement of a publication and its
mails, which run in goroutines. All shared state is in the database, except the channels, the key
broker's policy and the PSI parties' secrets. The payment service calls the order service back
(`MarkSettled`) from inside a call the order service made (`Settle`).

### Hard behaviours

Statements of two requests interleaving between a check and its use; a webhook that is
duplicated, late, reordered or cut off; a crash between two statements; an outbox worker
attempting what a handler attempts inline without the lock; stale listings; a bounded channel that
drops; a lease that expires under a running job; a status written whatever it has become.
`PROJECT.json` lists each under `hazards` with its line and the properties that watch it.

## The modules

| module | models |
|---|---|
| `Escrow` | the promise about an order's money: specification |
| `Settlement` | confirm, dispute, resolve, `settleOnce`, `Refund`, the outbox and its workers; implements `Escrow` |
| `Purchase` | `CreatePayment`, webhook, `markPaid`, grant and revocation of an order's credit |
| `Delivery` | `RequestDownload`, `Download`, the evidence bundle, over `Escrow` |
| `Account`, `Withdrawal` | a seller's balance: specification; `Request` with its lock and transaction, the operators' decisions |
| `ComputeJobs` | submission, cancellation, review, workers, channel, leases, budget of one entitlement |
| `Federated` | fan-out, the race to advance the parent, refunds, dropouts, aggregation, faults |
| `Intersection`, `Aggregation` | the two-round intersection; FedAvg, masked sums, the clipped noisy mean |
| `Registry` | algorithms, reviews, offers, the key broker's policy, what a job resolves and attests |
| `OutputGate`, `Results` | the gate's walk over an output; who may read output, certificate and attestation |
| `WorkbenchRuns`, `WorkbenchArtifacts`, `WorkbenchApprovals` | run quotas and metering; artifact stores; approvals |
| `DatasetQuality` | declaration, upload, version, the quality pool with its retry row, review, delisting |
| `Watchlist`, `Questions`, `Certificates` | announcements and mails; answers, reports and hiding; the public reads of a dataset |
| `Masking`, `Screening` | detection and masking of personal data; statistical screen and schema profile |
| `Sessions`, `TwoFactor`, `Erasure` | login, refresh, logout, reset; second factor; identity, export and deletion |
| `Metering`, `Anomalies`, `Orders` | API keys, plans and the rate limiter; the anomaly scan; placing, rating and reporting orders |
| `*Proofs` | theorems: `SettlementProofs` (with `Orders`), `DeliveryProofs`, `ComputeJobsProofs`, `JointProofs` (`Federated`, `Registry`, `Results`, `Aggregation`, `Intersection`, `OutputGate`), `WorkbenchProofs` (its three modules), `DatasetsProofs` (`DatasetQuality`, `Watchlist`, `Questions`, `Certificates`, `Purchase`, `Masking`, `Screening`), `AccountProofs` (`Withdrawal`, `Sessions`, `TwoFactor`, `Erasure`, `Anomalies`, `Metering`) |
| `Sums` | lemmas about sums, folds, ranks and extremes over finite sets |
| `MC*` | small instances and symmetry for TLC |

`Settlement` implements `Escrow` and `Delivery` is composed with it: in `Delivery` the order
behaves as `Escrow` allows (its `Elsewhere` action), so what is checked there holds beside
the settlement code. `Withdrawal` implements `Account`. The machines of `MCComputeJobs`, `MCDatasets`,
`MCJoint`, `MCWorkbench` and `MCAccounts` share no variable: one run explores them one after another, the
others at rest, which is the union of their separate state spaces.

### Conventions

- A process (handler, outbox worker, pool goroutine) has a program counter whose values
  are the names of the Go functions or statements to run next, and the locals that outlive a
  statement. An action is one SQL statement or one provider
  call, with the branches that follow it up to the next one. A conditional `UPDATE` is an
  action with two disjuncts: the row was there, or it was not. A transaction that takes its lock
  first is one action.
- A failure is a `Crash`, `Abort`, `Rollback`, `Stop` or `Hiccup`, depending on what the code
  does then: the process dies, the request is cancelled, a transaction rolls back, an error is
  logged and the rest goes on.
- A definition preceded by a comment that begins with "Mutant" is not part of any
  specification. It is a plausible bug in the definition after it, used to show that a property
  notices (`mutants` in `PROJECT.json`; each property of a passing run has one).
- Variables marked *history* exist for the properties only. Some excuse a property: it then says
  what the code keeps *unless* something known went wrong, and the [gaps](#known-gaps) say what.
  These are `raced` (Escrow, Registry), `moved`, `overlap`, `stranded`, `missed`, `noticeLoose`,
  `mailLoose`, `overtaken`, `hasty`, `replaced`, `early`, `overwritten`, `faults`, `disturbed`, `excused`,
  `unstamped`, `mixed`, `strays`, `turned`, `reordered` and `scanRace`. Each is set by the step that does the harm, and by no other.

### Money

`Escrow` says where the money of a paid order may be. Its status follows the order's state
machine, its holder is `escrow`, `seller`, `buyer` or `both`. The seller is paid only for a
confirmed order, the buyer refunded only for a disputed one. The code does not keep this for every
interleaving, so the promise says where it stops: an order enters `raced` when a dispute is accepted
while a payout is unfinished (an attempt has passed its status check, or has transferred without
booking it), or when a dispute is released while a refund has begun. From then on only the status
machine is promised. `ImplementsEscrow` shows that no other exception is needed.

In `Settlement`, `Deliver`, `ConfirmDelivery`, `Dispute`/`CreateDispute`/`ToDisputed`,
`ResolveDispute` and its two branches are the order service; `SettlementState` ..
`MarkSettled` are `settleOnce` in order; `RefundContext` .. `MarkRefunded` are `Refund`;
`Enqueue`, `DueOrders`, `WithLock`, `MarkDone`, `MarkRetry`, `RetryOutbox` are the outbox.
Stripe is `moved`, a set: the calls carry the idempotency keys `settle:<order>`,
`reverse:<split>` and `refund:<charge>`, so repeating one adds nothing (as long as the provider
remembers the key). Back-off only delays a listing, so `DueOrders` may list any pending job at any
time, and the listing is used later, after the job may have ended.

`Purchase` follows one order. Any charge the buyer has been shown may be captured; its webhook may
arrive at any handler at any time, any number of times. `MarkPaidByChannelTxn` is the conditional
update that decides `newlyPaid`. `ToRefunded` and `RevokeByOrder` stay separate, since the grant may
come between.

In `Delivery` a token is its generation, so a holder of an old token is a `Download` with a
generation the row no longer has. The count is consumed from the row by its id, not by the
token, as in the code. `pinned[o] = 0` is an order from before versions were pinned. A version is a row
with an object key, and the key is the dataset's and the file's name, without a version
(`dataset/upload.go:57`). So an upload is its number: `CompleteMultipart` lays its bytes under its name,
over what lay there (`stored`), and `AddVersion` records it later or never. `Serve` hands out a key, and `Fetch` is the
buyer with a presigned link, who gets what lies under the key by then. `PinnedVersionServed` therefore promises
the bought bytes or those of a later upload of the same name, and never another file's.

In `Withdrawal` `SettledCentsOf` reads before `Lock`, `Sum` and `Insert` run under it, and the row
becomes visible in `Commit`, which also releases the lock.

`Orders` has a step for each read of a purchase (standing, listing or offer) and for the insert.
Its reports are the SQL aggregates over the rows, day by day.

### Computation

`ComputeJobs`: `SubmitJob` stands for all the reads before the credit is spent. They are one action
because each condition read can only turn from acceptance to refusal, so a submission that
passes them one by one would have passed them all at its first. At `Run` a worker
has finished the runner, the output gate and the upload with any outcome. `LockDP`, `SpendDP`,
`InsertDP` are the budget's transaction under its advisory lock. `Update` is
the conditional update shared by `Release`, `StageForReview`, `Fail`, `Reject` and `Cancel`.
`Crash` restarts the process: rows stay, the channel is lost.

`Federated`: whoever ends a sub-job runs `tryAdvanceFederated` (`parent`, `list`, `take`); the call
that wins `TransitionFederated` refunds the dropouts and aggregates, or fails the parent and refunds
all. Any statement may fail, and a crash or stop loses what a process still owed, remembered in `faults`.
A sub-job of an offer with a privacy cost of its own (`Private`) charges it before its release (`SpendOwn`), beside
the charge of the joint output. A worker that rejected a sub-job reads it again to see whether it belongs to a joint
one. When that fails it gives the credit back itself and tells nobody (`RereadFails`, `early`;
`worker.go:354`), so the coordinator's refund may be a second one.

`Intersection`: a point is an element and the set of secrets that raised it, since exponents commute;
a restarted party draws a new secret. `Aggregation` keeps means as sums over whole numbers, and follows one
coordinate of the model: all are treated alike. A party reports its parameter and its sample count, and the code accepts
a negative count. `OutputGate` walks what the text decodes to, node by node in any order of members, as a Go map does, and
compares the verdict with the bounds over all of that. Of the members of an object with one name only the last is decoded
(`Replaced`), and text behind the object is not seen when it starts with a closing bracket (`rest`). `Registry` checks a job at submission, when a worker
starts it, and at the key broker, with reviews and offers edited between. In `Results` an output is its
bytes, which stand for their SHA-256. Its readers open outputs, certificates and attestation reports, and list the rows of
jobs, federated jobs and reviews, which carry the report. The report is written before the job is released. A worker whose
lease ended stores its own output and report all the same (`LateOutput`, `overwritten`).

### Workbench

`WorkbenchRuns` takes one transaction per action, because each takes the account's lock first; the
reaper's listing is outside any. Time is a small clock, months follow each other. In
`WorkbenchArtifacts` `reserve`, `upload`, `insert`, `commit` and their undoings are steps of
`StoreArtifact`. In `WorkbenchApprovals` every mutation carries the version its sender read, and replies
may be lost.

### Datasets and people

`DatasetQuality`: every `SetStatus` is unconditional as in the code, so what was read before it is kept
in the actor that read it. The pool's channel drops when full, the retry row has its scanner.
`Watchlist`: `NotifyDatasetPublished` lists, then tells watcher by watcher; mails are goroutines that look
up the log, send, then log. Nothing of it is tried again: a list, a lookup, a notice, a mark or a log row that fails,
in-app notices turned off, and the death of the process are all steps. `missed`, `noticeLoose` and
`mailLoose` name the watchers they hit. In `Certificates`, whoever moves the dataset's status has read something earlier and
then sets it unconditionally, whatever it is by then. `hasty` holds the versions moved by a job or a decision for another one,
`replaced` those whose object was overwritten under its own name, `overtaken` the requests under which the dataset
changed. `Masking` runs the real order of detectors, `resolveOverlaps` and the second
scan on files put together from fragments, with short token lengths; the code's sort is the permutation that puts the hits in its order.
`Screening` takes p-values as inputs and computes everything after them in whole numbers, with ranks for the code's sort.

`Sessions`: a second is the unit, because a JWT's issue time is cut to seconds while
`tokens_valid_after` is not. `TwoFactor` writes the secret and each code in a statement of its own.
`Erasure` keeps purge, scrub and completion apart, beside exports being written. `Metering`'s scans carry
the month they read from the clock. `Anomalies`' scanners count and insert in two statements behind a
partial unique index.

## The runs

| run | expects | properties: what they show |
|---|---|---|
| `settlement` | pass | `ImplementsEscrow`, `MoneyFollowsOrder`, `SettlementInv` (the inductive `IInv`, `BooksFollowProvider`, `RevertedIsReal`): two handlers and a worker interleaved statement by statement and stopping anywhere |
| `settlement_workers` | pass | `WorkersInv` (`WorkersApart`; stale listings add at most one attempt per worker), `JobFinishes` even when a worker dies holding its lock |
| `settlement_claw_back` | violation | `RefundClawsBack`: a refund does not find an unbooked payout |
| `purchase` | pass | `IInv` (`OneCharge`, `CreditNeedsMoney` and what each handler knows), `RevokedStays`, `ChargeBooked`: racing payment requests, duplicated and cut-off webhooks, refunds and jobs |
| `delivery` | pass | `DeliveryInv` (`QuotaHolds`, `DeliveredFirst`), `PinnedVersionServed`, `KeepsEscrow`: overlapping downloads and new tokens while the order changes and files are uploaded under the bought name or another |
| `delivery_bundle` | violation | `BoughtVersionOnly`: the archive holds the version published after the sale |
| `withdrawal` | pass | `WithdrawalInv` (`OneSummer`, `SumNotStale`), `PayoutsKept` (`ImplementsAccount`, `DecisionsFinal`): racing requests, settlements, decisions and rollbacks |
| `compute_jobs` | pass | `JobsInv` (`CreditsBalance`, `StatusFollowsCredits`, `BudgetHolds`, `OutputCharged`, `RunsOnce`), `JobsMove` (`ReviewKept`, `OverIsOver`): faults, expired leases and restarts; beside them `RegistryInv` (`ModelAudited`, `AttestedL2`, `PolicyFollows`) |
| `workbench` | pass | `RunsInv` (`NeverOversold`, `LedgerAccounts`, `LedgerCapped`, `EventsCounted`), `ReleaseFinal`; `ArtifactsInv` (`StorageHolds`, `WholeOrAbsent`, `NotUndone`); `ApprovalsInv` (`RunsOncePerApproval`, `DecisionKept`) |
| `datasets` | pass | `DatasetInv` (`PublishedChecked`, `NoJobLost`, `PinnedBytes`), `CheckingEnds`; `WatchInv` (`OneNotice`, `OneMail`), `WatchersTold`; `QuestionsInv`; `CertificatesInv` (`CertificateWhole`, `NothingOlder`, `RegistryBacked`); `MaskingInv`; `ScreeningInv` |
| `joint` | pass | `FederatedInv` (`OneDecision`, `BilledOnce`, `RefundsComplete`, `JointFromSurvivors`), `FederatedSettles`; `IntersectionInv`; `AggregationInv` (`MasksCancel`, `NoiseCoversReport`); `GateInv` (`GateExact`); `ResultsInv` (`OnlyReleasedShown`, `ReportsKept`, `CertificateBinds`) |
| `accounts` | pass | `SessionsInv`, `TwoFactorInv`, `ErasureInv`, `MeterInv`, `AnomaliesInv`, `OrdersInv` |

A `..Inv` is the conjunction of a module's type invariant with the named parts. Each part has a comment
that states it and names the code; what breaks each is in `PROJECT.json` (`mutants`). The passing runs
fire every action of the modules.

`CHECK_DEADLOCK FALSE`: the systems stop. An order ends settled or refunded, rows and attempts
are bounded, and a request may have nothing left to ask. That work does not get stuck before it
should is what the liveness properties say: `JobFinishes`, `ChargeBooked`, `CheckingEnds`,
`WatchersTold` and `FederatedSettles`.

## Bounds

| bound | value | code | why it is enough |
|---|---|---|---|
| orders (`Settlement`, `Purchase`, `Delivery`) | 1 | many | orders share no row, lock or provider object. The proofs hold for any set of them |
| handlers | 2, in `Purchase` 3 | many | two to race; in `Purchase` a request, a webhook and a refund together |
| outbox workers | 1 with two handlers, 2 with one | one per instance | handlers race one worker; workers race each other |
| `MaxSettleAttempts` | 2 | 6 | one failure that is retried, one that gives up |
| charges (`Txns`) | 2 | many | one that is booked, one that loses the race |
| `MaxDownloads`; `MaxMints`; `Names`, `MaxUploads` | 2; 2; 2, 2 | 3; unbounded | first, last and one too many; a replaced token; an upload under the bought name or another |
| withdrawal rows, amounts, earnings | 3, {1, 2}, at most 3 | cents | two requests that fit alone and not together, and one more after a decision |
| jobs, pool goroutines, channel | 3, 2, 1 | many, 2, 64 | two run and one waits; full with one; more jobs than the quota |
| `Quota`, `Budget`, `MaxAttempts` of jobs | 2, 1, 2 | seller's choice, 3 | exhausted with jobs to spare; one output too many |
| joint job | 3 datasets, at least 2, 1 that charges itself, 1 fault | configurable | a dropout that leaves enough, two that do not; the last two finish together |
| PSI | 3 parties, 4 lists, 1 restart each | many | a repeated element, a common one, one that only two have; a restart in each round |
| models | cohorts of 2 and 3, 3 weights, 3 sample counts, 2 masks | floats | both signs of a mask for the middle party; counts of -1, 1 and 3; a weight beyond the clip |
| gate | trees of four values, archives of three files, limits of 1 to 4 | 1 MiB, 5,000 keys, depth 12, ... | every limit met exactly and passed by one, at the root, nested, and over two files; members of one name or each its own; text after the object |
| registry | 2 algorithms (one model), 2 operators, 2 offers | many | an overlapping review; an offer that restricts and raises the trust level |
| results | 4 kinds, 2 readers, 4 users, 2 outputs | many | two reads around one release; buyer, seller, operator, stranger; a late worker's other output |
| workbench runs | 3 in 2 workspaces, time 0..2, lease 1, wall 2, month 1 | minutes, a month | a lease that ends in the run, a run that ends in a later month, a ledger opened above its cap |
| artifacts | 2 stores, 2 artifacts and a remote one, 3 bytes, 1 fault | MB | two stores of one artifact, one too large; a single failure anywhere |
| approvals | 2 owners, 2 executors, 2 hashes | many | decided twice, consumed twice, wrong arguments; a row that lapses at any moment |
| dataset | 2 uploads with 1 worker, 1 upload with 2 workers and 1 fault; channel 1, 2 attempts | 128, 3 | a version over open work; a job run twice; the second attempt is the last |
| watchers | 1 watcher, 2 versions, 2 reviews | many | watchers share only the announcement; a late announcement of an older version, or two of one; faults at every step |
| questions | 2 answers, 3 reports of 2 users | many | two submits; a second report after a resolution |
| certificates | 1 request, 2 versions | many | requests share only the registry; a version, a stale decision or an overwritten object between any two reads |
| masking | 3 fragments of 10, bank card 3-4, phone 3, passport 2, plate 1 | 16-19, 11, 8, 5 | every pair of detectors meets glued, nested and straddling |
| screening | 5 cells of 8, 2 columns, 5 p-values, thresholds of 2 to 4 | 30 rows and more | header, placeholder, duplicate; p-values on both sides of each threshold of the correction |
| sessions | 2 calls, 2 tokens, 1 reset, 2 failures, 2 seconds, 1 fault; logins and token calls in turn | 5 failures | a call that reads before the reset and writes after, in the same and in the next second |
| second factor | 2 enrolments, 2 verifications, 2 challenges, 2 codes | 8 codes | each overlapping; two challenges of one code; a code of an older enrolment |
| erasure | 1 export, 1 requester, 2 deletions, 2 executions, 1 identity record, 1 fault | many | an export under way while purged; a deletion executed again |
| metering | 1 key, 2 months, quotas 1 and 2, 2 scans, 2 events; window 2 calls in 3 ticks | many | a scan dated before the month's turn; events swapped; a window's edge |
| anomalies | 2 scanners, threshold 2 of 3 actions, 2 rows | many | count and insert of two processes interleave; a row resolved and opened again |
| orders placed | 2 purchases, 2 orders, 2 users, 2 prices, 1 edit, or 2 days | many | an edit between a read and the insert; fees of 9999 and 123456 cents are rounded; a window of one day and a longer one |

Names that begin with `Max` or `Last` and are not limits of the code bound what is unbounded in it;
they appear in guards and are marked as bounds where they are declared. Orders begin `paid`
in `Settlement` and `Delivery`, where `Purchase` leaves them.

## Fairness

Safety runs use specifications without fairness. The liveness properties use:

- `Settlement!FairSpec`. `WF` of each handler's and each worker's next statement: a
  goroutine that can run does. `SF` of `DueOrders(w, o)`: the ticker never stops and lists oldest
  first, so a due job is listed again and again until it is taken, however often the worker is
  busy with another. `FaultsCease` (`<>[][Work]_vars`): from some moment on nothing crashes and no call
  fails; without it a worker could die in every attempt before `MarkRetry` counts it, for ever. Nobody
  is obliged to confirm, dispute, resolve or retry.
- `Purchase!FairSpec`. `WF` of the handlers' statements; `SF` of `Notify`, because Stripe resends a
  webhook that was not acknowledged; faults cease. Nobody is obliged to pay.
- `DatasetFairness`. `WF` of a completion past its version, of each quality worker, of the retry scanner's
  listing and of its sending. A worker drains the channel while the process lives; the scanner ticks
  for ever. Sellers and operators owe nothing. Faults are bounded by `QFaults`.
- `WatchFairness`. `WF` of each announcement's next step: its goroutine is started by the approval. The step
  may be one that fails, or the process may die first: then `WatchersTold` asks only that the watcher is in
  `missed`. The mails may fail.
- `FederatedFairness`. `WF` of the submitter, of each sub-job's worker and of each process inside
  `tryAdvanceFederated`. A fault, or an id dropped by the full channel, sets `disturbed`, and
  `FederatedSettles` promises nothing from there on.

## Proofs

The theorems are proved by TLAPS for every value of the constants; the runs show the same
formulas on a small instance first.

**Assumptions.** Each is named where its constants are declared, and checked by the run that uses the module.

- Nobody is two things: handlers and workers are different processes (`ProcsAssumption`), and "no charge", "no
  handler", "no key", "nobody", "no upload" are not among the things they stand beside (`TxnAssumption`,
  `NoHandlerAssumption`, `NamesAssumption`, `QuestionConstants`, `NoExecutorAssumption`, `ResultConstants`,
  `DatasetConstants`, `ArtifactsAssumption`).
  In `Results` the buyer, the seller and the operator are users; in `Federated` the datasets that charge for themselves are
  among the parties.
- Limits are positive and bounds are natural numbers, as the code's constants are. In `Metering` so are the plans'
  quotas (5, 500 and 100000 in the code: the first scan of a month is let through unasked), and one plan has the largest;
  in `Orders` one price is the highest. In `Screening` a unique key takes two rows or more (20 in the code), without which a
  constant column of one row would be both alerts.
- Inputs have their type: submissions, reviews and offers are records (`AsksAssumption`, `RegistryAssumption`), an
  upload has a name, cohorts are finite sets of numbers, lists are sequences of two or more parties, an output's files
  are trees whose nodes come after their parents (`OutputsAssumption`), and a joint job asks for between two and all of
  its parties.
- Where a proof counts or sums, what it counts is finite: workers in `WorkersCorrect`, handlers in `DeliveryCorrect`,
  rows of `Withdrawal`, calls and resets of `Sessions`, challenges of `TwoFactor`, scanners of
  `Anomalies`, parties, runs and usage events, artifacts, and the handlers, workers and jobs of `JobsCorrect`. Other sets
  (orders, readers, reporters, uploads, keys, watchers, announcements) may be infinite.

Few of the properties are inductive. Each module's proof has its inductive invariant (`..IInv`), one
lemma for each part with one step per action, and theorems that follow from it.

**`Sums`.** The sums of the models are the library's `SumFunctionOnSet`, a recursion that takes an
element of its choice at a time. `Induction` and `SetInduction` state induction with what is proved held in a set, because
a theorem about an arbitrary predicate cannot be instantiated here. From them the recursion exists (`IterationExists`)
and gives the same in any order (`IteratesAgree`); then what the proofs use: adding and taking an element, unions, changed
values, sums of ones as cardinalities, bounds, and sums by key (`SumByKey`). A fold of a sequence is such a recursion too, over
sets of positions: once it exists within the values of what it folds (`FoldExists`), the fold has a value after each position
(`FoldSteps`), and an invariant of the steps is one of the fold. Counting predecessors in a strict total order numbers the
positions (`Ranks`), which makes a sort a bijection.

### Money

**Settlement.** That the money agrees with the status depends on where each process stands and what it knew.
`IInv` has four parts.

- `TypeOK`.
- `BooksInv`: what a process has established at each statement (a process at
  `MarkSettlementSuccess` has a transfer behind it, one at `GetSettled` a booked settlement, one at
  `MarkRefunded` a refund), and the order of the books that follows from it. It holds whether raced or not.
- `StandingInv`: for an order whose promise stands, an unfinished payout means a confirmed or settled
  order, a refund under way means a disputed or refunded one, and a refund is only sent with the seller's
  share not paid or clawed back. These exclude each other, which is the argument.
  `ToDisputed` and `ToConfirmed` could falsify it, and put the order in `raced` exactly then.
- `LockInv`: a worker that attempts an order holds its lock.

`TypeCorrect`, `BooksCorrect`, `MoneyCorrect`, `RevertedCorrect`, `MutualExclusion` and `SettlementCorrect` follow.
`WorkersCorrect` needs one part more, `AttemptsInv`: the attempts of an order at its limit and the workers that still
hold a listing of it (`Listed`) count together; a worker that adds an attempt leaves that set, and nobody enters it once
the job is no longer pending. `Refinement` shows `Spec => ImplementsEscrow`: `EscrowStep` takes each step that changes
status, money or `raced` to the `Escrow` action it is, and the others to a stutter.

**Orders** (in `SettlementProofs`). `OrderBooksInv` says what a purchase carries from one statement to the next was on
offer and its buyer verified (`Carried`). The fee is a whole tenth of the price however it is rounded (`FeeTenth`). The
reports are shown to be sums over the same orders: by column within a report, and by day across windows (`SumByKey`).
`OrdersCorrect`.

**Purchase** (in `DatasetsProofs`). `PurchaseInvariance`: `IInv` adds to the properties that the row exists before
anything is shown, and what each handler knows (a handler at `MarkPaid` has a paid row behind it, one at `GrantForOrder` a
paid compute order). `PurchaseTyped`, `OneChargeCorrect` and `CreditCorrect` follow; `RevocationFinal` is an action property.

**Delivery.** `HandlersInv` says what each handler has established (a handler at `Upsert` has an
order that left `paid`; one that serves, a version it may serve; one that streams an archive, a settled order).
`QuotaInv` counts: the downloads handed out, and those taken off and about to be, are no more than what
was ever taken off the row (`Taken`), which the row's generation and count bound. `ConsumeDownload`
adds one to both sides, `Serve` moves one from the second kind to the first, `Upsert` starts a new token.
`Objects` follows the bytes: what lies under a name is an upload of that name and no older than any version of it,
and the links of a pinned order are to the name it bought. From them `DeliveryCorrect` and `PinnedCorrect`; `EscrowKept` is the refinement, each step an `Escrow` action or a stutter.

**Withdrawal** (in `AccountProofs`). `OneSummerCorrect`: the lock keeps requests apart. `BalanceInv` sums: what is
outstanding was settled, and what a handler is about to insert is covered by what it has read, since nobody else inserts while
it holds the lock and earnings only grow. `WithdrawalCorrect` is `WithdrawalInv`; `PayoutsCorrect` is the refinement of `Account`
with `DecisionsFinalCorrect`, an action property over the rows.

### Computation

**ComputeJobs.** `CreditsUsable` from `EntInv`: `SpendQuota` and `RefundQuota` compute the status from the same count.
`FinishedJobsStay`, `ReviewsKept` and both together (`JobsMoveCorrect`) rest on `LeaseInv`: the sweep only lists running
jobs, so whatever ends a job takes it off the sweep's list. `JobsCorrect` adds that an id is in the channel once
and was not claimed (`SentInv`: what the sweep puts back is not sent again), so that a worker is alone with its job, and alone between the
budget's sum and its row (`WorkersInv`); that no output that costs privacy gets out before it is charged (`ChargedInv`); and
that the credits spent are those of the jobs that keep theirs (`Billable`), those still owed and those lost.

**Federated** (in `JointProofs`, as the next five). `FederatedCorrect` rests on `FederatedIInv`: `InPhase` ties the position of every call
to the parent's status (nobody is past the decision while it is `fanout`, and one call at most is after it, because
enough survivors and too few cannot both be read once all sub-jobs are settled); `Credits` gives, for each
of those positions, what was spent, owed and given back, by the coordinator and by a worker that could not read the job
it rejected (`early`); `Accounted` says where a refund not made is; `Charges` keeps a sub-job's own privacy charge apart from
that of the joint output. The guarded update of the parent is what the argument turns on.

**Registry, Results.** `RegistryCorrect`: while the offer and the algorithms stay as the job was checked against, its offer is the
offer; a review in hand is the only one for its algorithm, or they raced. `ResultsCorrect`: `Established` is what a reader between the
row and the object can rely on, and what no worker without its lease can change (a row once ready stays so) is kept apart from what
it can (the object and the report, `overwritten`).

**Aggregation.** What one party adds for a pair the other takes away, so the masks of any subset of the cohort add up to those
shared with the rest, and over the whole cohort to nothing. `AggregationCorrect` then says that the sum of the masked
contributions is FedAvg's, and that what one party reports, parameter and sample count, moves a coordinate of the clipped
mean by no more than the larger of the two sensitivities, when no count is negative: what one report adds is bounded
by the clip times its count (`ReportMoves`), and its count by the largest (`LargestCount`).

**Intersection.** All points of one list carry the same set of secrets (`RaisedBy`), and `Raised` says whose they are at
each point of the two rounds. Points of two lists raised by all parties are then equal when the elements are, or never,
if a party drew a new secret between. `IntersectionCorrect`.

**OutputGate.** In the walk there is a set of visited nodes that has the tally's sums and counts (`Tallied`) and is
all of the files before this one and, in this one, all but what lies below the members each frame of the stack
has left (`Walked`). At the end of the last file that is every node, so a walk that passes has seen the whole output within its bounds; a walk that
refuses has passed a bound with a part, and what a part passes the whole does. The whole is what is decoded: `KeptNodes` says that
this set, the largest that has with each node its parent and no replaced member, is what the walk's `Kids` reach. Levels of nodes exist by induction on their
numbers. `GateCorrect` is for any trees, any limits and any order of members.

### Workbench

**WorkbenchApprovals.** The parts of `ApprovalsInv` are inductive together (`ApprovalsCorrect`), since a consumed approval
can only be completed.

**WorkbenchRuns.** `LeaseInv`: a reservation is in one state, at times in range,
and the active ones are within the quotas, which an admission keeps because it counts what the
reconciliation of the same transaction left. `AdmissionsCorrect` and `ReleasesFinal` follow. For the ledgers, `Good` says that a
month's book is what the runs that ended in it and its usage add up to, up to the cap. Settling one more run keeps it, so
settling the expired ones in whatever order does, which is an induction over the set of them. `RunsCorrect`.

**WorkbenchArtifacts.** A step changes one artifact's part of the stored bytes, so the sums follow. `Shared` says what its
handlers may assume of each other while nothing has failed: until its reservation is released nobody undoes anything; once it is, somebody
who will undo what is there is on the way. `ArtifactsCorrect`.

### Datasets

**DatasetQuality.** `VersionsInv` says how far a version is when something else speaks of it. `BytesInv`: the object of a
name that is one version's own stays that version's. `RetryInv`: a dataset under checking has its retry row, or a session about to
write it; whoever deletes the row has taken its own version out of `checking` before. `AloneInv`: until a version is added over
open work, all that is under way, read or on the market is about the current version and its bytes. Each of its three parts (sessions,
checks, market) is kept by a lemma of its own. `DatasetCorrect`.

**Watchlist.** `PlacesInv` says where each announcement stands. For a watcher whose announcements did not overlap, one at a
time has the watcher, and who was told of the current version is marked with it or is about to be (`Settled`). For one whose mails
did not, one goroutine is past the lookup of the log, and a mail has its row or is about to (`MailSettled`). Failures
leave the watchers they hit out of these, and nobody else (`WatchDies` for the end of the process). `WatchCorrect`.

**Questions, Certificates.** `ThreadInv` says a question has at most one answer row as a
quantified fact (`OneRow`, to which `AtMostOne` relates the cardinality), and that an answer not marked yet has
a call that created it; `QuestionsCorrect` and `ResolutionsFinal` follow. What a certificate
request that was not overtaken has read is still `Current`: every step that sets the status, adds a version or lays an
object overtakes all requests under way (`Overtakes`). What any request has read is of the market and only moves forward (`Onwards`).
`ShelfInv` says why a version may be on the market: it was examined and then reviewed, or a job or decision for another one
moved it, and it is in `hasty`. `CertificatesCorrect` follows.

**Masking.** A sweep finds what starts at a place and no earlier hit covers; `InOrder` is a permutation of the hits (`Ranks`),
earliest first and longest of those. Each fold is opened by its steps: the spans kept are hits, apart and in order, and whatever is not kept
starts inside the last kept span, so that the start of every hit is hidden (`ScanFacts`). The masked text is the characters
in view in their order, with a mask where each span starts (`MaskFacts`); a stretch of it without a mask is a stretch of the file that no
span covers (`InTheClear`). A second hit holds no mask, so its characters stand in the file as they do in the masked text, where the
same detector finds at least as long a hit (`LuhnSame`, `PhoneSame`, `PlateSame`, `PassportSame`, `EmailSame`). That hit starts in no kept span, against `ScanFacts`,
unless a hit that started before runs on past the span that hid its start (a seam), or it is a passport whose flank the mask
took away. `MaskingCorrect` is for any file, checksum weights and token lengths.

**Screening.** `ScreeningIInv` says only that a report is the correction of some findings: the rest is about the
operators, for every file and all findings. Benjamini-Hochberg's running minimum is below alpha exactly when some test of at least the same rank is scaled below it; of equal p-values the
last has as rank the number of those not greater (`RankFacts`), so that is the step-up procedure (`StepUpTakes`). A score takes 20 at most for
each column (`ScoreOfColumns`). Mirroring a column changes the sign of its sum and nothing of its squares (`SentinelBothWays`). `Described` is the
invariant of the profile's loop, kept by every cell (`CellDescribed`). `ScreeningCorrect`.

### Accounts (`AccountProofs`)

**Sessions.** `CallsInv`: a call has its password and its lateness from the one token it exchanges. `EndInv`: what began with an older password is over since the last stamp, was read before
it, or the stamp is still due. `UsesInv`: one call exchanges a token. `LockoutInv` counts the attempts past the
lock's check with the failures; `ResetInv` the resets not yet carried out with the passwords changed. `SessionsCorrect`.

**TwoFactor.** `CodesInv`: a redeemed code is stored nowhere. `ApartInv`: while no calls overlapped, one enrolment or
one verification is under way, and the secret it works with is the stored one. `TwoFactorCorrect`.

**Erasure.** `EraserInv` and `DeletionInv` say that an execution is about a request that cooled and was approved, and one is active;
for `ArchivesFindable`, a key is
held by its row, its generator or a purge, and whoever loses it otherwise makes a stray. `ErasureCorrect`.

**Anomalies.** `AlertsInv` counts: the alerts of a row and the scanners that may still send one for it are no more than all scanners.
`RaceInv`: a row no other scan was storing is alerted by the one that inserted it. `AnomaliesCorrect`.

**Metering.** `SpellsInv`: a month is entered again only after a scan dated before it, and each stay in it serves no more than
a plan. `WindowInv`: a span of a window's length meets two windows at most, the open one and one before it. `MeterCorrect`.

### What is only model-checked

- Liveness: `JobFinishes`, `ChargeBooked`, `CheckingEnds`, `WatchersTold`, `FederatedSettles`. The prover has no rule for
  fairness and none for `ENABLED`.
- The two statements that are violated, `RefundClawsBack` and `BoughtVersionOnly`, have counterexamples.

## Where the code and its comments disagree

Two have a run and an entry in `findings`:

1. **Claw-back** (`payment/repo.go:175`, `settlement_claw_back`). A payout is looked up by its booking, so one whose
   booking did not run is not reversed and the refunded order has paid both parties.
2. **Bundle** (`order/bundle.go:50`, `delivery_bundle`). The archive resolves the dataset's current object,
   whatever version the order pins.
   A download has the same hole in another place: "must not swap the bytes under a paid buyer"
   (`delivery/service.go:123-126`) holds of versions under other names only, since the key has no version
   (`dataset/upload.go:57`). `PinnedVersionServed` says what is left.

The others are behaviours of the models, where a history variable or a weaker property marks them:

3. **Escrow invariant** (`payment/service.go:222-231`). "Money leaves escrow ONLY for an order in the settle-able
   'confirmed' state": the guard reads the order in one statement and splits in a later one; a dispute
   accepted in between is followed by the payout (`raced`).
4. **Durable retry** (`payment/service.go:214`). A settlement that was booked counts as done, though the order
   may not have been settled; no later attempt settles it.
5. **Paid exactly once** (`payment/service.go:129-138`). A webhook cut off after the payment row was booked leaves
   the order created: its retry is taken for a duplicate. `ChargeBooked` speaks of the row only.
6. **Revocation** (`order/service.go:233`). A compute order is disputable before its credit is granted; the credit
   of a refund that overtakes the grant stays active. `RevokedStays` speaks of a credit once revoked.
7. **Full queue** (`compute/worker.go:144`). The comment relies on a sweep that only looks at running jobs; the job stays queued.
8. **Audited models** (`compute/service.go:680`, "HARD INVARIANT"). It is checked at submission; the offer is read again
   at the run, and an algorithm or an offer edited in between escapes it (`moved` in `Registry`).
9. **Denylist** (`auth/service.go:180-183`) and **rate limiter** (`platform/middleware/ratelimit.go`). Comments say that an
   error of the store lets the call through; the code refuses it.
10. **Second factor off** (`auth/twofactor_service.go:94`). `DisableTOTP` sends two statements with
    parameters in one `Exec`, which the driver refuses: the factor cannot be turned off.
11. **Export download** (`compliance/handler.go:75`). It opens the key `j.ID`; archives are stored
    under `exports/<user>/<job>.zip`.
12. **Purge** (`compliance/deletion_service.go:126-129`). "A purge failure aborts (and is retried)": the retry no longer
    has the keys of rows already removed, and a job writing its archive meanwhile leaves one (`strays`).
13. **Retry of checks** (`dataset/upload.go:111`, the JKL task document). A crash between `AddVersion` and `EnqueueQualityRetry`,
    the last transient failure, or an older job's `DeleteQualityRetry` leaves a dataset in `checking` for good (`stranded`).
14. **Masking** (`quality/pii.go:11-14`, `:45-46`, `:168`). A second scan of masked text can find more; and the span that
    starts first wins, neither the earlier detector nor the longest one.
15. **Certificates of computations** (`compute/certificate.go:37`). They say "registered" also when the registration
    failed, and the federated one carries the algorithm's live version.
16. **Refunds exactly once** (`compute/federated.go:411`). A worker that cannot read the sub-job it rejected refunds it as an
    ordinary one (`compute/worker.go:354-357`); the coordinator refunds it again (`early`).
17. **Sensitivity** (`compute/dp.go:42`). Δ is called the L1 sensitivity; it is that of one coordinate, and dim + 1 are
    noised with it, so that the release as a whole costs (dim + 1)·ε. A negative sample count breaks the bound of one
    coordinate too (counts -5, 3, 3); `NoiseCoversReport` says where it holds.
18. **Output gate** (`compute/output_gate.go:20-26`). "Bounds the information content", "a single well-formed JSON object": what
    follows the object passes when it starts with a closing bracket, since `dec.More()` is false there, and an earlier member of a
    name used again is never counted. `GateExact` is about what is decoded.
19. **Attested output** (`compute/runner_tee.go:21`). "The exact output that was released": the report is stored before review and budget
    have decided, and stays on a refused job, so the buyer and the seller read the fingerprint of an output that was not released
    (`ReportsKept` says who and of what).
20. **Told of a version** (`watchlist/service.go:48-53`). A watcher is marked as told although the notice was not written, and a failed
    list tells nobody and is not repeated (`missed`); the e-mail's log key lets a second mail through when it cannot be read or
    written (`mailLoose`).

## Known gaps

The models contain these behaviours, or they follow at once from what they contain; no property
excludes them, as nothing in the repository promises otherwise or the loss is the fault itself.

**Money and orders.** A crash between a committed confirmation and its outbox row leaves no job
(`payment/service.go:192`). A failed grant or auto-delivery is logged and acknowledged, and never tried again
(`order/service.go:234`). A dispute row is inserted before the transition, so a lost race leaves an open dispute
(`order/service.go:310`). `Cancel` has no caller, `auto_confirm_at` no reader (`order/service.go:293`). A released order
finds its outbox row done or failed from before, so its new settlement has only the inline attempt and
an operator's retry. A download past its status check is served although the order is disputed meanwhile. An
order may be placed at a price or for a dataset withdrawn between read and insert. A verified buyer who
resubmits his identity becomes pending. The reports' days are the session's time zone's against UTC.

**Computation.** A job whose run outlives its lease (120 s, no heartbeat, while an offer allows 1800 s) is put back to
queued and then neither released by its own run nor run again. The privacy cost is charged against the offer's total
as it is then. A job runs on the dataset's current object. A disabled algorithm still runs if its job was queued. A crash or
stop while aggregating or fanning out leaves the parent where it is, and the sweep's reclaim of a sub-job never
advances the parent; sub-jobs of a failed fan-out run on, refunded. Dataset ids of a joint job are not made unique. A PSI party
restarted between rounds narrows the result silently. Masked sums have no recovery of dropouts; a negative sample count is accepted, and the noise then need not cover it.
Of the text of an output only its size is bounded: digits, escapes, replaced members, and an archive's names and comments are not counted.
The fingerprint of an output is told before its release. A worker whose lease ended overwrites the object and the report of a job
released by another.
The key broker's policy is empty after a restart, which admits every measurement; two
algorithms with one image share an entry. A failed `SetAttestation` releases an L2 output without its stored report. The object
of a rejected output stays in storage.

**Workbench.** A crash or failed statement can leave a stored artifact with its quota released, or a committed artifact without
object. Reserved bytes never expire. A lost reply to a consume leaves the approval consumed. A run
past its lease appends events unmetered until its wall time. Usage events and wall time are both metered as compute.

**Datasets.** A review read before a new version completes publishes that version unexamined, and a repeated quality job
moves a published dataset back (`overlap`, `hasty`). A declaration may be edited after its signature. A file of the same name overwrites the
object of an earlier version, for its buyers too (`replaced`). A notice, a list or a mark that fails is not repeated (`missed`,
`noticeLoose`). A watch added between a version and its publication is not told of it. The mail's key
has no version, so later versions are not mailed, and a failed mail is not sent again. Certificate and preview may read a newer version than
the one found published (`overtaken`). The header heuristic eats the first row of a text file without header. An answer whose
call was cut off leaves the question "open".

**Accounts.** A refresh or login that read the account before a reset's stamp issues a surviving
session; a reset whose `InvalidateSessions` fails leaves the old ones, its token used. Two overlapping
refreshes of one token both succeed. Overlapping enrolments mix their codes, or replace the secret being
verified. Deletion does not end sessions, and a later reset or identity review writes fields of the erased account. A crashed generator leaves
its job "generating", and no further export is accepted; zips of expired exports stay. `ReviewKYC` has no status guard.
A scan dated before the month's turn starts the count again (`turned`). A subscription event that arrives late sets an
older plan (`reordered`). Count-then-insert may alert twice (`scanRace`), and a row resolved within the hour opens again.

## Not modelled

- **Wiring, configuration, handlers, middleware, storage, database pool, search, static documents, frontend, algorithm images,
  sidecars, deployment.** I/O, read-only queries, layout or other languages. What a handler decides for a modelled service
  (the webhook's reply) is part of that module.
- **Runners, attestation and the remote key broker.** Processes, files and cryptography: a run is a choice of outcomes.
- **Amounts in the settlement.** An order's money moves as a whole; fee and share are `Orders`' `SharesExact`.
- **Invoices, seller onboarding, roles, agreements, payout accounts, projects and threads.** Single statements, read
  by nothing modelled.
- **Details of checks**: format and statistics checks, SimHash, addresses, positions, p-value functions, entropy, ZIP parsing.
- **Offers without a privacy total.** They have nothing to charge.
- **Ambiguous commits.** A commit that succeeded and was reported as failed, except where a reply may be lost
  (`WorkbenchApprovals`); a database that loses a commit.
- **Several compute processes.** The pool and its channel belong to one process, as deployed; a crash is its restart.

## Plan

Next, in this order:

1. Proofs of the parts of liveness that are safety (a decreasing measure for each run's work).
2. Composition of `ComputeJobs` with `Federated`, whose workers are reduced here to the end of a sub-job, and
   of `Results` with `OutputGate`, whose verdict is a choice there.
3. Invoices and seller onboarding; the remaining detectors.
4. Larger instances: two watchers, two keys, two entitlements over one dataset.
