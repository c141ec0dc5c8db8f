# A formal model of Cohub

Cohub runs AI agents in shared workspaces ("Spaces"). A Space has sessions, a
session has turns, and a turn is what a user (or a hook, a schedule, another
agent) asks and what the agent answers. This directory models the part of the
system where several processes work on one session at a time, checks it with
TLC and proves its main invariants with TLAPS.

Contents: [inventory](#inventory) · [plan](#plan) ·
[modules](#modules-and-the-code) · [runs](#runs) · [fairness](#fairness) ·
[what the code does against its documents](#disagreements) ·
[proofs](#proofs) · [limits](#what-is-only-checked-and-what-is-left-out).

## Inventory

Processes and stores, and how they interact:

```
 web, desktop, CLI ──HTTP──> apps/api ──BullMQ jobs──> apps/agent ──ws──> apps/sandbox
 chat channels ──> apps/gateway ─^ │                      │  ^
                                   │ Postgres: turns,      │  │ Redis: session lock,
                                   │ messages, tasks       │  │ abort keys and channel
 apps/worker <──BullMQ jobs────────┘ <─────────────────────┘  │
      └── generation, checkpoint, hook, wallet tasks ─────────┘
```

| Component | State it keeps | Operations | Interacts through | Correct when |
|---|---|---|---|---|
| Submission and steering (`packages/core/src/sessions/service.ts`, `prompt.ts`) | a row per turn: status, intent, sequence | submit, read the active turn, steer it away, enqueue a wakeup, fail the submission | turns table, abort key, queue | a turn is claimed once; a steer stops what runs; a failed submission does not undo a finished turn |
| Promotion, cancellation, stop (`spaces.route.ts`, `space-sessions.ts`) | the same rows | promote with a rollback, cancel, stop | turns table, abort key, queue | a rollback does not reopen a settled turn |
| Turn queue (`agent-turn-queue.ts`, `queue.ts`, BullMQ) | jobs by id | add, take, retry, retain failures | Redis | every turn that waits has a job or an active turn ahead of it |
| Claim (`apps/agent/src/batch.ts`) | a transaction over the rows of a session | recover a stale turn, claim a steer, or merge follow-ups | Postgres | at most one active turn, batches are prefixes of the queue, generations are not overtaken |
| Turn processing (`processor.ts`, `session.ts`, `persistence.ts`) | one job, its turn, an abort controller | precheck, run, persist, settle, fail, release, drain | all of the above | a claimed turn ends, exactly once, and the next one is woken |
| Session lock (`session-lock.ts`, `session-lease.ts`) | a Redis key with a TTL, a local deadline | set, renew, expire, release | Redis | one holder that still believes in its lease |
| Direct generations (`generation-session-execution.ts`, `tasks/generation-session.ts`) | a turn and a task | create, start, end, wake the agent | turns table, queue | later agent turns wait for it |
| Abort delivery (`abort.ts`, `active-turns.ts`, `turn-abort.ts`) | key, channel, controllers | publish, register, apply at a round boundary | Redis | a stop reaches the run whatever the order; billing stops do not replace user stops |
| Local runtimes (`runtime/recovery.ts`, `relay/runtime-relay.ts`, `native-turns.ts`) | recovery state in a turn's meta | execute remotely, detect a disconnect, replay, confirm a stop | gateway, turns table, lock | a confirmed stop is final |
| Messages (`message-sequence.ts`, `persistence.ts`) | message rows with a unique sequence | append with retry, upsert by idempotency key | Postgres | no lost and no doubled message |
| Sandbox lifecycle (`sandbox-controller`, `sandbox-idle-scheduler.ts`) | pods, leases, status rows | start, stop when idle, recover | Kubernetes, Postgres | no stop of a sandbox in use, no sandbox for ever |
| Sandbox client (`ws-client.ts`, `sandbox-pool.ts`, `sandbox-fs-mutation.ts`) | connections, pending requests | call, reconnect, repeat | websocket | a repeated mutation is applied once |
| Wallet transfers (`space-wallet/transfer.ts`) | debit and credit pieces by operation id | start, settle, refund, recover | billing provider, Redis lock | credits and refund together equal the debit |
| Generation billing | holds and charges | admit, charge, release, retry | billing provider | one charge per generation, no hold for ever |
| Checkpoints (`save-checkpoint-task.ts`) | archives and a head pointer | save, publish, lock | object storage, Postgres | the head is a complete archive |
| App rooms and media (`infra/app-room`, `sdk/apis/app-realtime.ts`) | seats with leases, publications | claim, renew, sweep, publish | Redis scripts | one seat per user, no more than the room has |
| Gateway outbound (`outbound-*.ts`) | streams of channel messages | consume, order, retry | Redis streams | order per conversation, at least once |
| Hooks, desktop commands, board, search, clients, edge | see `PROJECT.json` | | | |

What is hard in this system is the session: the API, several agent workers and
the generation worker change the same rows without a common lock; jobs are
deduplicated by id; the lock has a TTL; any call may throw after it was done;
and processes die. `PROJECT.json` lists these hazards at their lines.

## Plan

Order of the modules, most important behaviour first:

1. `TurnTable`, `WakeupQueue`, `SessionTurns`, `TurnService`, `SessionTurnsProofs`,
   `SessionOrderProofs` – the turns of one session. **Done.**
2. `SessionLease`, `SessionLeaseProofs` – the lock with time, which justifies what
   `SessionTurns` assumes of it. **Done.**
3. `AbortDelivery`, `AbortDeliveryProofs` – reasons of a stop, the registration race, round
   boundaries, a background command. **Done**, for cloud turns.
4. `RuntimeRecovery`, `RuntimeRecoveryProofs` – a local harness: disconnect, replay,
   acknowledgement, confirmed stop. **Done** for one turn.
5. `WalletTransfer`, `TransferLedger` – transfers into a Space wallet and the promise they
   refine, `WalletTransferProofs`. **Done.**
6. `RoomSeats`, `RoomSeatsProofs`, `RoomReplay`, `RoomReplayProofs` – seats and missed events of an
   app room. **Done.**
7. Left: `MessageSequence` (concurrent appends with four attempts), `SandboxLifecycle`,
   `SandboxClient`, `GenerationBilling`, `CheckpointSave`, `OutboundDelivery`,
   `HookDispatch`, the board.

Theorems next: every invariant and every action property that a run checks is proved (`TypeOK` as
`TypesHold`). What remains to be proved comes with the modules of item 7.

## Modules and the code

| Module | Code | What it holds |
|---|---|---|
| `TurnTable` | `v2.session_turns` and every statement on it | one operator per UPDATE or transaction, with the statuses of its WHERE clause; `stale` says that `updated_at` is older than half an hour |
| `WakeupQueue` | BullMQ as the code uses it (external), job options of `queue.ts`, `agent-turn-queue.ts` | the job with the session's wakeup id, and counters of the jobs without a shared id |
| `SessionTurns` | API calls, workers, generation task | composes the two; one action per handler step between two awaits |
| `TurnService` | – | what a session promises about its turns: absent, queued, serving, closed |
| `SessionLease` | `session-lock.ts`, `session-lease.ts` | dispatch, execution and answer of each Redis command, timers, clock |
| `AbortDelivery` | `turn-abort.ts`, `space-sessions.ts`, `abort.ts`, `active-turns.ts`, `processor.ts`, `run-command.ts`, `billing-stop.ts` | the stop key and channel, requesters, the executor of one turn, one background command |
| `RuntimeRecovery` | `processor.ts`, `runtime/remote-runtime.ts`, `exchange.ts`, `runtime/recovery.ts`, `runtime-relay.ts`, `packages/cli/src/runtime/` | one turn on a person's machine: row, lock, executor, two kinds of job, gateway, host, receipt |
| `WalletTransfer` | `space-wallet/transfer.ts` and its routes and job, the billing service by its operation ids (external) | calls of `start()`, recovery jobs, the user's lock, the ledger entries |
| `TransferLedger` | – | what a transfer promises: taken money is paid in or given back, once |
| `RoomSeats` | `app-room/scripts.ts`, `store.ts`, gateway `app-rooms.ts`, API `app-rooms.ts` | seats with leases in Redis, announcements per node, what the members see |
| `RoomReplay` | `app-room/scripts.ts`, gateway, `packages/sdk/src/apis/app-realtime.ts` | the event history with its limits, a join, the SDK's catch-up |
| `MC…` | – | small instances: constants, and plans of what a behaviour may contain |
| `…Proofs` | – | theorems |

Exact files and lines are in the "map" of `PROJECT.json`.

`SessionTurns`:

- `sub[t]` is the program counter of the call that submits `t`: the dispatch intent
  until it has read the active turn, then `abort`, `publish`, `enqueue`, and `fail`
  in the catch block of `submitSessionPrompt`; `behind` is a follow-up that returned
  early. `pro[t]` is the same for `promoteQueuedTurnToSteer`; `saw`, `pushed` and
  `stopping` are the local variables those calls use after an await.
- `wk[w]` is a job slot of a worker: `claim` after the lock, `precheck` after the
  claim, `run`, `replied` once the final message is persisted, `catch` and `unsaved`
  in the catch block, `finally`, `release`, `drain`, `end`. `lost` is the abort of the
  lease, `aborted` that of the turn's controller.
- `lock` is the Redis key: `free`, a worker, `orphan` (its token is nobody's any
  more) or `leaked` (its monitor outlives the job).
- `abortKey` holds the turns whose abort key is set. Keys live an hour and are not
  removed.

`AbortDelivery`: a requester's event is named by the requester, `req[r]` is its step between
marking the row, `SET`/`SET NX`+`GET` and `PUBLISH`. `armed` and `aborted` are the controllers
that are registered and those that are aborted; `active` is `activeAbortEvents`, `noted` is
`roundBoundaryAbortEvents`. `ex` is the executor's place, `got` and `cmdGot` what its last GET
answered before the await resumed.

`RuntimeRecovery`: `turn` is the row (status, `meta.runtimeRecovery`, kind of final message);
`agent[c]` is the executor, a recovery or a confirmation job; `up` and `down` are the frames between
gateway, host and agent; `receipt` and `native` are the files of the host, which a
restart leaves alone; `host` is its memory. `faults` is drawn at the start: which kinds of fault
may happen and how many.

`WalletTransfer`: no state of a transfer is stored but the entries of the billing service:
`debit`, `covered`, `credit[t][i]` per piece and `back`. `pc[a]`, `ok[a]`, `todo[a]` are an actor's
place and locals. `lock` expires at any moment that no guarded call is running.

`RoomSeats`: `seats` is the Redis hash with `lapsed` for an expired lease; `due[n]` is what the
callers on node `n` still have to announce, in the order of the node's connection;
`shown` is the member list of somebody who has been there all along. `RoomReplay`: `stream` and
`floor` are the trimmed history; `room` is the SDK's `AppRoom` with its cursor and join
buffer; `outbound` are published events the gateway has not received.

Abstractions, each with its reason:

- Sequence order stands for `updated_at` order among queued steers: a row gets a new
  `updated_at` exactly when it is inserted or promoted, and both also give it the
  highest sequence.
- The byte budget of a batch may end it at any earlier turn, since `one_by_one` and
  the message budget already cover shorter prefixes.
- A claim transaction is one step under the session row's lock. The two statements
  that do not take this lock and can hit a turn of the batch meanwhile, the failing
  of a submission and of a promotion, are `ClaimRaced`.
- A retry is a job without a shared id: its id changes with each delay.
- An agent slot is its own process; a crash loses one slot.
- In `SessionTurns` the lock expires only after its holder lost the lease. That is not assumed but
  theorem `HealthyLeaseIsStored` of `SessionLeaseProofs`.
- In `SessionLease` time is discrete; the process clock and Redis count at the same
  rate; an acquisition has its own fresh token, so a reacquisition is another element of
  `Tokens`.
- In `AbortDelivery` the channel loses an event only while nothing is registered in the process
  that would listen (`Lose`), and one agent process holds the turn.
- In `RuntimeRecovery` one recovery entry of the host stands for successive request ids, and the
  exchanges of other sessions appear as `ConnectRefused`.
- In `WalletTransfer` a billing call ends within what is left of the lock's TTL unless
  `LateCalls` is set; a crashed job is delivered again; `landed()` is its last read, since pieces
  never disappear; the wallet's usability check and the preflight are refusals. A job whose guard finds
  the lock lost goes for it again in the same attempt, up to five times in the code: here each time takes
  one of the counted faults, or the attempt ends.
- Interrupting a turn reads its row before the guarded UPDATE; `InterruptTurn` is the UPDATE, because a status
  that changed in between makes it find no row. Queued steers are claimed by `updated_at`, which the insertion or
  promotion writes with the sequence number that orders them here; no property orders two steers.
- In the rooms, Redis hands published messages and command replies to the gateway over
  two connections, so deltas may lag a snapshot, while the commands of one node keep their order. A lease
  lapses at any moment. A gateway connection claims once, a reconnection is another client with
  the same ticket.

## Runs

All bounds are constants of the modules, named where they are declared. Deadlock is not
checked: every instance has a bounded number of turns, faults, events or ticks, after which
nothing is left to do. Where one instance of everything would be too large, a behaviour follows a
*plan* of the `MC` module: which actors come and which faults it may have, drawn in the
initial state or, in `TurnRequests`, as an action constraint. Every state reachable under some plan
is explored.

| Run | Instance | Shows |
|---|---|---|
| `TurnCrashes` | 2 turns, each steer or follow-up, 2 workers, 1 failing call, 1 crash | `TypeOK`, `AtMostOneActive`, `OneHealthyExecution`, `RunKeepsItsTurn` |
| `TurnRequests` | 1 worker; two of a follow-up, a direct shell steer and a direct generation, with 1 failing call and 1 promotion, cancellation or stop (beside a second agent turn, the request first and a call of the API failing); or 3 follow-ups of two approval modes, the first of the one that two of them have, batches of 2, nothing fails | refinement of `TurnService`; `SettledTurnsStay`, `NothingOvertakesGeneration`, `MergedIntoClaimedOwner`, `FollowupsInOrder` |
| `TurnProgress` | 2 follow-ups, 1 worker, 1 request, fair | `FollowupBehindTurnIsServed` |
| `TurnRecovery` | 2 follow-ups, 2 workers, 1 failing call, fair | `ExecutionEnds` |
| `LeaseHung` | 2 acquisitions, TTL 10, renewal every 2, timers up to 1 late, answers up to 11 late, 1 error or resend, 12 ticks | `HealthyHoldsKey`, `OneHealthyHolder`; `PromptLeaseSurvives` where answers are prompt |
| `AbortHeard` | a user stop, a promotion, 2 billing stops (the second where nothing fails), a turn of 2 rounds or a shell, a background command, 1 failure | `StopIsHeard`, `KeyKeepsUserStop`, `BillingLetsRoundEnd`, `NextRoundNeverStarts`, `StoppedTurnEnds` |
| `RuntimeSafe` | 3 attempts of a job, 2 dials of an exchange; 2 faults of the session's side, or 3 of the machine's side, or 3 deaths of processes | `RunsOnce`, `OneOutcome`, `UnknownStaysActive`, `AckedIsDurable`, `StartedSurfaces`, `ConfirmedEnds`, `SavedIsRecovered` |
| `WalletTransfers` | one request sent twice with 1 failure or 1 crash, or two requests with 1 failure and 2 other expenses; 2 dollars in up to 2 pieces | `NothingStranded`, `OverageNeverFunds`, `OnlyPurchasedMoves`, refinement of `TransferLedger` |
| `WalletEnds` | one request of 3 dollars, 2 failures, 1 crash, 1 change of the denominations, 1 expense, 3 attempts, fair | `TransferEnds` |
| `RoomReplay` | history of 2 events and 3 bytes, pages of 1, join buffer 1, 4 events of two sizes, one lost connection, message and page | `MissedUnlessPaging`, `ReplayIsNew`, `WholeUnlessTruncated`, `CatchUpEnds` |
| `RoomSeats` | 3 of: two tabs, a reconnection, a second viewer, an agent; capacity 2, 2 nodes, 1 lapse, 1 failed announcement | `OneSeatPerUser`, `CleanupSparesSuccessor`; `LapsedLeaves` where no announcement fails; `QuietNoGhost` and `QuietLiveIsShown` where one node serves the room and announcements succeed |
| `TurnLostWakeup` | 2 follow-ups, 1 worker, fair | a violation, see below |

Why the bounds are enough. A safety property of `SessionTurns` relates at most
two turns and two workers, so a counterexample needs no third; merging and order
need three turns (a batch, its boundary and one more). One failure is the hypothesis
under which the code's fallbacks (a second write in the finally block, the stale
recovery) are meant to work. In `LeaseHung` an answer may take longer than the TTL, so a whole
lease passes while a command hangs, and the clock lets a second acquisition follow. In
`RuntimeSafe` a result has to get past a lost link, a dead executor and a dead recovery job: three
faults; the confirmation job races it in each. `WalletTransfers` has two pieces, the least
number of which one can fail, and two requests on one allowance. Denominations change in
`WalletEnds` only; that the ledger is kept across such a change is part of `TransfersKeepLedger`. `RoomReplay` has twice the
history's size in events, so that all of a history is replaced while a page is read.

## Fairness

- `SessionTurns.FairSpec`: the steps of an API call (`SubmitStep`, `PromoteStep`, `PublishStop`),
  BullMQ handing waiting jobs to free slots (`TakeStep`), the steps of a job (`WorkerStep`: a
  model run ends in a reply or an error, since provider calls have timeouts), the TTL of the
  lock (`LockExpires`) and the passing of half an hour (`TurnGrowsStale`, strongly, because
  it is disabled during a claim transaction that time does not wait for). Users, failures,
  crashes, the delivery of a published abort and the trimming of retained failed jobs are not fair.
- `AbortDelivery`: the event loop runs the executor and reads its socket (`ExecutorStep`, `Deliver`).
  No round, shell or command ends by itself, and nobody has to ask.
- `RuntimeRecovery`: the steps of executor, recovery, confirmation and host, the return of the link, the
  expiry of a dead holder's lock and the notice of a lost lease. A manager need not
  confirm, and nothing has to fail. Its three liveness properties are claimed where only the agent's
  and harness processes fail; the disagreements below say what happens otherwise.
- `WalletTransfer`: an actor's own steps and the end of a TTL weakly; a queued job gets the lock
  strongly, since another actor may hold it now and then and BullMQ keeps retrying.
- `RoomReplay`: the SDK's steps and the gateway's. Nobody has to publish.
- `RoomSeats`: a node's next announcement succeeds or fails; some ping, strongly, because pings
  are timers that go on while a connection waits for its node.

## Disagreements

`TurnLostWakeup` is a run that ends in a violation of what the repository says. The other
configurations named here are kept beside the runs; `tlc -config <name>.cfg <MC module>` shows each in
seconds or a few minutes. `PROJECT.json` quotes the sentence that each contradicts.

- `TurnLostWakeup`. A session has one wakeup id, and BullMQ ignores an add while a job
  of that id exists, also an active one. A prompt that arrives after the active job
  looked at the queue for the last time (its `noop` claim or its drain) and before the
  job is completed is left without a job. The agent is free, and the turn waits for
  the next message.
- `TurnFailedWakeup`. When both attempts of a wakeup fail (for instance on an invalid
  `agent.json`), the failed job is retained under the same id. The next message
  then adds nothing, against `docs/message-queue.md`.
- `TurnLeakedLock`. A reply that could not be persisted rejects the persistence chain.
  The turn is failed, then the finally block settles the handle in strict mode, which
  throws the same rejection before `lock.release()`. Nothing stops the lease monitor, so
  the lock is renewed for ever and every wakeup is skipped as locked.
- `AbortReplaced`. What a GET answered is kept after the await, over a user stop
  that the channel delivered meanwhile: the turn ends as stopped for billing.
- `AbortShell`. A stopped direct shell has settled its turn as interrupted; the finally block then
  fails it.
- `RuntimeBusy`. A full gateway answers a reconnecting exchange without `uncertain`: the turn
  fails while the host runs it.
- `RuntimeCrash`. The row says `executing` before the command is sent; an agent that dies in between
  leaves a turn that nobody asks about.
- `RuntimeAnnounce`. A saved result is announced while the last attempt of a recovery runs: the
  announcement is absorbed by a job that is about to be removed.
- `RuntimeQuiet`. A recovery without its lease reports attention that it did not write.
- `WalletLateCall`. A grant that outlives the lock is credited after the refund.
- `RoomPaging`, `RoomPageFails`, `RoomLateDelta`. A history trimmed between two pages is not
  reported; a gap of exactly one event is not reported; a delta that arrives after the join is
  emitted although the replay emitted it.
- `RoomStaleLeft`, `RoomLostLeft`, `RoomExpiry`. The late departure of an old connection hides its
  successor on another gateway; a departure whose announcement failed leaves a ghost; a room
  that ended by its own expiry is reported as revoked.
- `RoomTwoLapses`. One node, nothing fails, but two leases run out together. A claim announces their
  departures one by one and returns only then; meanwhile a reconnection takes the claimed seat over and leaves,
  and the claimant's own announcement, the last, lists a participant without a seat. This is why
  `Undisturbed` allows one lapse.

More behaviours are in the models without a document that says otherwise. A worker
crash or a failed release (which is only logged, `session-lock.ts:56`) leaves an orphan lock, and
the redelivered or drain job that meets it is skipped. A turn failed by its own submission while the
claim runs makes that claim a `noop` that drains nothing. The rollback of a promotion
(`spaces.route.ts:332`) puts `abort_requested` back to running although a user's stop asked for it
too; the stop key still stops the turn. A direct generation that fails before it was
queued (`generation-session-execution.ts:158`) wakes nobody for the turns behind it. An executor that lost
its lease just before `failSessionTurn` may turn an interrupted local turn into a failed one.

## Proofs

All theorems hold for every value of the constants that satisfies the named assumption of the
module.

`SessionTurnsProofs` (any number of turns, workers, failures, crashes, requests;
assumptions: `TableAssumption`, `QueueAssumption`, `SessionAssumption`):

- `TypesHold`: `[]TypeOK`. `TypeOK` is not inductive: what a call carries depends on
  where it stands. `CallsOK` adds that a call with an abort to publish has read a turn
  and that only generations have tasks; `TypeInv == TypeOK /\ CallsOK` is inductive.
- `OneActive`: `[]AtMostOneActive`, inductive together with `TypeInv`. Every step but
  `ClaimBatch` leaves the set of active agent turns the same or smaller
  (`NextActivates`); `ClaimBatch` runs when it is empty or holds just the stale turn
  which it settles (`ClaimLeavesOne`).
- `OneExecution`: `[]OneHealthyExecution`. The inductive invariant is `HealthyHolds`:
  a worker between the acquisition and the release that has not lost its
  lease is the holder of `lock`.
- `Implements`: `SessionTurns` implements `TurnService` under the mapping `Phase`. Each
  statement on the table closes turns or stutters (`TableServes`), an insertion is an
  arrival, a claim is `Serve`, for which `AtMostOneActive` is needed: the abstract
  service closes all that was served, the code only the turn it recovers.

`SessionOrderProofs` (extends `SessionTurnsProofs`, same assumptions). All steps but the workers' own
bookkeeping are a `TableStep`: an UPDATE of one row, an insertion, a promotion, a cancellation, or the
transaction of a claim. The first four theorems are about table steps only.

- `FollowupsStartInOrder` and `GenerationGoesFirst`: `OrderInv` adds to the types that inserted turns have
  distinct sequence numbers up to `lastSeq`. `BatchEffect` says what a claim does: the turns it takes, follow-ups
  before later ones, and none past an unfinished generation.
- `MergedIsAnswered`: `mergedInto` is written by the claim alone and points to a turn of the same batch that comes
  later and is started.
- `SettledStay`: a WHERE clause names statuses that are not final, or the turn of the worker that writes
  (`TableStays`).
- `RunIsNotTakenAway`: `RunInv` follows the workers. They own different turns, none of which waits
  (`OwnersOK`); a turn whose `updated_at` is old is active (`StaleActive`); a claim that is under way
  finds no turn old that a worker with its lease runs (`QuietClaim`: the claim began when the lock was free); and such a
  worker still has its turn (`Kept`: active, or failed by its own submission, the exception that
  `RunKeepsItsTurn` names). That no two workers have a lease is `HealthyHolds` again.

`SessionLeaseProofs` (any TTL, interval, lag below the margin, any delay of
commands; assumption: `LeaseAssumption`):

- `HealthyLeaseIsStored` and `OneHolder`. The inductive invariant `LeaseInv` relates the
  three clocks of a lease: the deadline of a healthy lease is at least `Margin` before
  the expiry that Redis has, `now` is at most `Lag` past the deadline, and a renewal that was
  executed moved the expiry to at least its dispatch plus the TTL. This is why the
  code counts from the dispatch: counted from the answer, `HealthyHoldsKey` fails (the
  mutants `RenewedOnAnswer`, `AcquiredOnAnswer`).
- `LeaseOutlivesOneError`: `[]PromptLeaseSurvives` for the specification `PromptOrNotSpec` of `MCSessionLease`, in which
  a behaviour chooses once whether its commands are answered in time, under `PeriodFits`: at most one command is refused, and
  two renewal periods with their waits fit between the TTL and its margin (the session lock's 120
  and 30 seconds do, and so does the instance of `LeaseHung`). `PromptInv` says
  that the next renewal is due, or was dispatched, one period after the dispatch the deadline counts from (`Counted`), or
  two periods if the one error has been spent (`OnSchedule`); both are before the deadline.

`RuntimeRecoveryProofs` (any plans of faults, attempts and dials; assumption:
`RecoveryAssumption`):

- `RuntimeTypes`: `[]RuntimeTypeOK`, in three parts that are inductive together: the session, the wire,
  the host.
- `OutcomeIsUnique`: `[]OneOutcome`, inductive by itself: the transaction of the result asks for an
  open and active row, the note for a confirmed and active one, and nothing else writes a message.
- `HarnessRunsOnce`: `[]RunsOnce`. The invariant `OneStart` says that the right to start the harness is in one
  place only: the executor that has not dialled, one first `turn.start` on the wire, or the host's
  entry that prepares a command that was not sent before; once used, it is nowhere.
- `ReceiptOutlivesResult`: `AckedIsDurable`. The invariant `ResultInHand`: an exchange that is about to
  acknowledge or has done so, and an acknowledgement on the wire, imply that the row has the
  result, which stays (`ResultStays`).
- `UnknownOutcomeStays`: `[]UnknownStaysActive`. While no lease is lost and no gateway is full (`Sober`), the
  lock keeps the executor and the recoveries apart (`Exclusive`), so that no recovery frame reaches the host while the
  executor is on and its own acknowledgement comes only after the result (`Alone`). What the
  executor takes for a definite failure then implies `Over` (`FailuresAreDefinite`): the host neither runs the turn nor
  holds a result, and no frame, entry or saved receipt is left that would start it. `OverStep` shows that this is
  final as long as nobody dials for the turn.

`RoomSeatsProofs` (any clients, nodes, seats, users, capacity; assumption: `SeatsAssumption`):

- `ViewerHasOneSeat` and `SuccessorIsSpared` follow from `SeatEffect`, which says in one formula what a step of
  any handler does to the seats.
- `QuietRoomHasNoGhost` and `QuietRoomShowsLive`: `[]QuietNoGhost` and `[]QuietLiveIsShown`. Seats change in the scripts
  and lists by the announcements that follow, so at rest nothing connects them but what was announced
  last. `ListsInv` therefore speaks of the commands under way (`SeatOK`): the last announcement of a seat that its
  node still has to send tells the truth of it (`LastFits`); if none is under way the list is right (`ListsFit`); and
  while an entry waits behind the departure of the lapsed seat, nobody else can say anything of the
  claimed seat: its hosted client is the one that waits, or its connection has not entered yet (`Waits`). One
  lapse makes at most one caller wait that way, two do not (`RoomTwoLapses`). The capacity is part of the invariant: a claim that a
  full room refuses has swept nothing, or it would have been let in. TLC checked the invariant on small
  instances before it was proved.

`RoomReplayProofs` (any limits of the history, page size, join buffer, number of events and faults;
assumption: `ReplayAssumption`, of which the proofs need that the limits are positive and that one event
fits into the history). `WholeUnlessTruncated`, `ReplayIsNew` and `MissedUnlessPaging` are not inductive: they speak of
the stream or of the app alone, while what the app will get is in pages on their way. `ReplayInv` has

- `HistoryWhole`: all recorded events above the floor are in the stream, and so is the newest event of the
  log if it is recorded (`TrimmedKeeps`: the trimming drops the oldest and never the event it was called for);
- `RoomOK`, `RequestOK`, `WireOK`: there is one request or one answer under way, it belongs to the state of the `AppRoom`,
  and `Progress` says of each page, and of what a catch-up has read so far, which range of the log it is: rising,
  within the range, and either truncated, with the gap at its start, or complete but for what was trimmed since the
  catch-up began (`Covers`), while the rest is still in the stream (`Kept`);
- `Accounted` and `AppOK`: the range from the first join to the last number seen is emitted, told or known as lost, and nothing
  newer was emitted.

`HistoryIsWhole`, `ReplayStaysNew` and `MissedIsAccounted` follow in one step. The invariant was checked by TLC on
the instance of `RoomReplay` before it was proved. The server's steps keep it by `Onward`: a growing log changes
nothing that was said of a range (`Longer`), and what is trimmed under a reader is noted as a loss
(`Saved`). The member's steps keep it by `FinishKeeps`. Its hard case is a truncated first page and a snapshot
one event later: `LostRange` reports nothing, and only since the newest event is never trimmed by its own
`PUBLISH` is that event known as overtaken. The provers cannot expand `SelectSeq` and `SortSeq`, so the model says
what they compute in closed form (`Ascending`, `Picked`), and what handling several deltas in turn
changes as one operator (`Handled`).

`AbortDeliveryProofs` (any requesters and rounds; assumption: `RequestersAreApart`):

- `UserStopKeepsKey`: only `SetKey` writes the key, and a billing stop by `SET NX` or after comparing.
- `BillingWaits`: with `BillingAborts`, a billing stop is kept as the explaining event only
  together with the abort of the turn.
- `StopEndsRounds`: while nothing has failed, `StopsReach` follows a stop: written (`KeyIsKept`), arrived
  (`UserStopIsKept`), read ahead of its event (`KeptIsOnItsWay`), noted for the boundary (`BillingIsNoted`).
- `OneFailureLosesNoStop`: `[]StopIsHeard` if at most one thing fails. The invariant `UserStopIsHeard`
  says that the key still holds a user stop, and that whatever executes is aborted or has the
  read of the key before it; only a spent failure excuses a missing event.

`WalletTransferProofs` (any requests, amounts, purchases, lists of denominations, pieces, attempts,
failures and crashes; assumptions: `TransferAssumption`, and `~LateCalls`: a billing call that was
abandoned with its lock does not take effect later. With late calls `ReversalIsFinal` is false, see
`WalletLateCall`). The inductive invariant `WalletInv` has five parts:

- types, among them that an actor has operations to issue exactly while it issues some;
- `MoneyOK`, for each transfer: the debit is nothing or the amount; what was credited and given back is at most
  the debit; credits imply that the debit was covered; a return took all that was open; the credited
  pieces are the first ones;
- `Moved <= Purchased`;
- `LockOK`: a call is issued under the lock, and what the holder has read is still so (`HolderAt`): no debit yet and
  the amount within the allowance before `consume`, the pieces still to grant numbered after the credited
  ones and adding up to what is open before `grant`, the open rest before `reverseConsume`. Only actions of the holder
  move money, so nobody else can disturb this; that the lock is read again by `guard` is what makes it
  inductive when the TTL ends between two reads;
- `JobsOK`: a start that has not queued its recovery has taken nothing, and money that is open has a job that is
  going to look at it or has failed for good.

`WalletTypes`, `TakenMoneyHasJob`, `OverageIsReturned` and `AllowanceHolds` follow from it in one step.
`TransfersKeepLedger` is step simulation: an executed call is `Take`, `Pay` or `Return` of its transfer
(`LedgerStep`), everything else stutters. `ReversalEndsCredits` follows since a grant in progress has `back = 0`.
Sums of pieces, totals over transfers and the greedy plan are recursive functions whose meaning must be proved for
every amount: `PlanPays` says that a plan without rest consists of positive amounts that add up to the sum, and
`TotalChanges` that a change of one transfer changes the total as much.
The induction theorems of the library cannot be instantiated, but those about minimal elements
(`WFMin`) need no operator: each such lemma takes the least counterexample (`Least`, `Smallest`).
For this the model says `Plan` as one recursive function with a rest, as the loop of
`planSpaceWalletTransfer` does.

## What is only checked and what is left out

Only model-checked: the liveness properties, which need fairness and ENABLED. The type invariants `LeaseTypeOK`,
`AbortTypeOK`, `TransferTypeOK`, `SeatsTypeOK` and `RoomTypeOK` state the shape of the states; a
configuration that wants them lists them as INVARIANT.

Limits of the modelled components:

- Session: compaction, message contents, usage and billing of a turn, realtime publications (they
  change no state the properties see), database isolation below a transaction.
- Abort: the one-hour expiry of the key, stops of local turns, the abort handles of single tools
  (`run-command.ts:138`). `NextRoundNeverStarts` leaves out the moment in which a user stop is between
  key and listener.
- Local runtimes: a user's stop of a local turn, intermediate messages, context requests, archives
  (whose eviction holds the same lock, `session-archive.ts:37`), uncertain clean-up, changes of owner, turns of native
  clients, the admission of the next turn, results whose message is an error. `UnknownStaysActive` is about
  plans without lost leases and full gateways.
- Wallet: reading routes, what the billing provider does behind an operation id, and the refusal of an id that comes
  with another amount (`transfer_conflict`): an amount belongs to its id.
- Rooms: codes, quotas, tickets and invites, presence contents and rate limits, media
  publications and the member updates that presence and publications announce, the gateway connection of
  a hosted seat (`attachHostedRoomSeat`, which neither claims nor is announced, `index.ts:1328`), the polling reader
  of a hosted seat. `RoomReplay` follows one member. When the announcement of a swept seat fails, nothing tells of
  it again: `LapsedLeaves` is about behaviours without a failed announcement, `RoomLostLeft` shows the others.
- Message sequences (`message-sequence.ts:22`: two writers read the same maximum, and the loser
  retries at most four times) are the next module.

Not modelled: everything `PROJECT.json` lists as `not_modelled`, with the reason.
