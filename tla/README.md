# pi-freeflow in TLA+

A verification project kept beside the code of `pi-freeflow`: TLA+ modules
translated from `src/src/*.ts`, the TLC configurations that check them on small
instances, and TLAPS proofs of what matters most for all instances.  Paths below
are relative to `src/src/` unless they say otherwise.

## The system

Every session of the host (Pi / OMP) is a **client** of one detached **proxy
daemon** per user, on a loopback port.  The daemon translates the session's chat
requests, sends them upstream either through a pool of **relays** (workers that
users deploy on other hosts, to spread egress addresses), directly, or to Cline
with a pool of **logins**, and streams the answer back.  Sessions and daemon
share a directory of state files, each rewritten by whichever process changes
it.  Nothing but those files and the control endpoints connects the processes.

| component | state | operations | interacts with | what is hard |
|---|---|---|---|---|
| lease registry (`lease.ts`, control endpoints of `proxy.ts`, `daemon.ts`) | lease map, `emptySince`, in-flight count | attach, heartbeat, detach, sweep, shutdown | sessions (HTTP), proxied requests | sweep against late heartbeats, retirement against streams |
| session side of the daemon (`client.ts`, `client-recovery.ts`, `proxy-ports.ts`, bind loop of `proxy.ts`) | lease id, heartbeat, breaker, backoff; who holds which port | probe, spawn, replace, reclaim, attach, recover | daemon, ports, other sessions | races of several sessions and versions, time-outs, silent holders |
| relay pool store (`relay-state.ts`, `atomic-write.ts`) | main, `.bak`, `.lock` files; cached state and mtime per process | load, save, recover, edit, sticky switch | all processes, through files | interleaved file operations, crashes, stale caches |
| relay health (`relay-state.ts`) | per relay: failures, cooldown, EWMA, slow start | mark failure, mark success, time | failover, ordering | escalation and replacement of cooldowns, rounding |
| relay ordering (`relay-state.ts`) | the above, the sticky primary | candidate order of a turn | failover | partitions, challenger, pins, sharding |
| relay failover (`relay.ts`) | local state of each turn; shared cooling and primary | send, hedge, classify, roll, fall back, salvage | relays, upstream, caller | races of two legs, deadlines, aborts, kept responses |
| lanes and requests (`proxy.ts`, `proxy-lanes.ts`) | the turn under way | route, retry, fall back, answer | all of the above and below | order of fallbacks and retries |
| stream relay (`stream-pipe.ts`, `stream-cloak.ts`, `sse-aggregator.ts`) | held frames, tracked calls, stall cut, terminal | pipe, hold, replace, cut, terminate | lanes, relays, host | every way a stream can end, replacement against what was sent, parallel calls |
| tool call audit (`toolcall-audit.ts`) | the calls of a turn | observe, classify, log | stream relay | rewritten, repeated and late blocks |
| reasoning continuity (`responses.ts`) | issuer, refused blobs, dead items, pins on disk | remember, strip, restore | lanes | wrong issuer, items that expire, restarts |
| upstream gates (`upstream-health.ts`) | gate, strikes, canary, sessions, refusals; shared file | route, record, reset | lanes, other processes | reload over unsaved changes, canary windows |
| Cline logins (`cline-pool.ts`, `cline-roll.ts`, `cline-accounts.ts`) | pool file, backup, parked slots, usage | roll, refresh, park, patch, login, logout | all processes, Cline | rotating grants, lost updates, stale patches |
| Cline device login (`cline-device-auth.ts`, `commands-cline.ts`) | the login under way | ask, poll, exchange, store | Cline pool | slots chosen early, failed saves |
| catalog (`catalog.ts`, `models.ts`) | models on offer per process, shared cache | load, refresh, merge | Zen, other versions of the code | caches of another version, etags |
| updates (`update-checker.ts`, `updater.ts`, `update-core.ts`, `client-staging.ts`) | installed package, cached check, staged copies | check, install, kill, respawn | npm, daemon | sessions of old code beside a new daemon |
| sidecar transport (`zen-transport.ts`) | child process, pending requests | start, send, restart | upstream | crash with requests pending |
| token, log files, import, deployment, fingerprint, UI | files, or none | - | - | see *Not modelled* |

`PROJECT.json` lists every component with its status, and the hazards each is
exposed to with the line where it bites.

## Correctness of each component

* **Lease registry**: an acknowledged lease is held for its TTL; retirement
  abandons nobody; a daemon without sessions ends; the cap is never exceeded and
  a fresh daemon survives its re-attach window.
* **Daemon and sessions**: a session left alone, after whatever other sessions
  and faults have left behind, ends up at a server that answers and is neither
  outdated nor degraded; a program that is not this proxy is never killed.
* **Relay pool store**: after one fault there is a pool to load; edits come to an end; the
  lock is a lock; an acknowledged edit is not undone.
* **Relay health**: cooldowns are justified and never shortened by repetition;
  the average stays within its samples.
* **Relay ordering**: every relay once, cooling last, pin first, Vercel last in
  its partition; the primary yields only to a clearly better relay.
* **Relay failover**: all usable relays are asked before the upstream is; one
  answer; its true issuer reported; no body leaked; no relay blamed unjustly.
* **Stream relay**: the host always gets its terminal event; a streamed call is
  the call a whole-body caller would get; a turn whose call was forwarded is
  never generated again; a turn ends.
* **Tool call audit**: the record agrees with the answer of the upstream.
* **Reasoning**: the remembered issuer is the one whose answer the host kept; the
  host is never shown that a backend cannot read its history.
* **Upstream gates**: a restart or a reload finds the gate as it was left.
* **Cline logins**: a login is skipped only on Cline's word; a turn fails only
  after every usable login; nothing of a removed login stays or comes back; no
  connection leaks; a login reported as saved was on the disk.
* **Catalog and updates**: each process offers what its own code ships and bars
  nothing less; a listed model is offered; no session brings an older daemon back
  after an update.

## Modules

Times are kept relative: the code compares `Date.now() - t` with a limit, the
models keep the distance, saturated just above the limit, so that state spaces
are finite without a bound on time.  Operators ending in a mutated form (they
are commented `Mutation:`) are not part of any specification: each replaces the
definition that follows it, to show that a property fails when the code has the
corresponding bug.

| module | models | notes |
|---|---|---|
| `LeaseRegistry` | `startLeaseGC`, `registerClient`, `renewClient`, `unregisterClient`, `handleControlRequest`, `retire` | one action per endpoint, `Sweep` the whole timer callback, `SessionEnds` a session that dies without detaching |
| `DaemonLifecycle` | `ensureDaemonAttempt`, `shouldReplaceDaemon`, `killStaleDaemon`, `killPortHolder`, `spawnDaemonProcess`, `waitForReady`, `startProxy`'s listen, `attachTo`, `beatOnce`, `watchdogCheck`, `triggerRecovery`, `runDaemon` | one action per await at which a session reads or changes ports; leases are those of `LeaseRegistry` |
| `RelayStore` | `loadRelayState`, `saveRelayState`, `recoverFromBackup`, `withRelayState`, `tryAcquireRelayLock`, `getActiveRelayState`, the edits of the commands and of `relayFetch` | one step per file operation; a document is abstracted to pool and primary |
| `RelayCooling` | what ordering and failover know of health: who is cooling | shared by `RelayOrder`'s property and `RelayFetch` |
| `RelayHealth` | `markRelayFailure`, `markRelaySuccess`, `isRelayHealthy` | one action per call, `Tick` the clock |
| `RelayOrder` | `getOrderedRelayUrls`, `applyEwmaChallenger`, `orderedRelayCandidates` | operators over `RelayHealth`; `CandidatesAdmissible` shows what `RelayFetch` assumes of an order |
| `Failover` | the promise of `relayFetch` to its caller | abstract specification |
| `RelayFetch` | `relayFetch`, the classification of answers (`isRelayEdge404`, `isRelayDeploymentDisabled`, `isShapeVerdict429`, `isRelayAuthRejection`) | one action per way an attempt can end; refines `Failover` |
| `StreamCloak` | `rewriteChatBlock`, `chatTrackedCall`, `flushChatTerminalToolCalls`; `sseToChatCompletionJson` as what a caller without a stream gets | operators on a record of the calls of one stream |
| `BlockCloak` | `rewriteMessagesBlock`, `rewriteResponsesBlock`; `sseToMessagesJson`, `sseToResponsesJson` | the same for the dialects that announce a call and close it |
| `CallAudit` | `observeChat`, `observeMessages`, `observeResponses`, `classifyToolcalls` | what is recorded of the same blocks |
| `StreamPipe` | `pipeUpstreamStream` | one action per event of the two streams, the timer and the hook; `pipe` is its closure state |
| `Reasoning` | `responses.ts` | operators on what is remembered of one conversation |
| `UpstreamGates` | `upstream-health.ts`, `classifyZenFailover` | operators on memory and file, and the steps of other conversations and processes |
| `HostTurn` | the request handler of `startProxy`, `handleKiloRequest`, `handleClineRequest`, `handleOvhRequest`, `retryWithoutReasoningEncryption`, the refire hook | composes `StreamPipe`, `Reasoning` and `UpstreamGates`; `relayFetch` is what `Failover` promises of it |
| `ClineRoll` | `rollChat`, `refreshAccountInPlace`, `handleClineRequest`, `keepClineTokensAlive`, the edits of `cline-pool.ts` | one action per answer of Cline; each edit of the pool file is one step; caps of one model |
| `ClineStore` | `loadPool`, `savePool`, `addAccount`, `removeAccount`, `forgetAccountInBackup`, the patches; `loginCline` and the paste of a key up to the registered token | one step per file operation; `PoolAsEdited` shows when an edit is the one step `ClineRoll` takes it for |
| `Catalog` | `sanitizeCatalogModels`, `mergeCatalog`, `readCatalogCache`, `refreshCatalog` | one step per request and answer; several processes of different versions share the cache |
| `Updates` | `checkForUpdateInBackground`, `performAutoUpdate`, `runUpdateStep`, `materializeDaemonSources`, the daemon's start | extends `Catalog`: an update changes which code, and so which catalog, a process runs |
| `RelayEdits`, `RelayLatency`, `ClineParks`, `ClineEdits`, `UpdatesFloor` | `RelayStore`, `RelayHealth`, `ClineRoll`, `ClineStore` and `Updates` with history variables, which only remember what has happened | the properties that need a history, for TLC and for the proofs alike |
| `MC*` | constants, symmetry, and what comments promise that the code does not keep | no definition of code |
| `*Proofs` | theorems | see below |

How they fit: `HostTurn` uses `Failover` where the code calls `relayFetch`, which
`RelayFetch` refines; `RelayFetch` begins with any order `RelayOrder` proves
admissible; `DaemonLifecycle` takes a lease as held while its session beats, which
is `LeaseRegistry`'s `AckedLeaseHeld`; `ClineRoll` edits its pool in one step, which
`ClineStore` justifies for accesses that do not overlap; `HostTurn` sees the Cline
lane as one request, whose roll is `ClineRoll`.

## Runs

| run | instance | shows |
|---|---|---|
| `lease` | 2 sessions, cap 1, TTL 6, sweep 1 (+1 late), grace 2 ticks of 5 s, 1 request | the cap is contended and the TTL spans several sweeps |
| `daemon` | an older and a newer session, base port and one walked port, breaker at 2 failures, 1 event (call, request, crash, hang, degradation, time-out or opening of the breaker) | recovery under every interleaving of the two; what holds the base port at first may be a stranger |
| `store` | 2 processes, 2 relays of which 1 is saved, 2 edits, 1 fault | lock, recoverability, kept adds and progress: an edit, a view and a crashed or restarting process overlap in every way; the fault may leave main damaged, empty or with entries that are no relays, or keep the lock from being created or removed |
| `store_clobber` | 2 processes, 2 edits | **violated**: an edit is lost although all writers use `withRelayState` |
| `health` | 1 relay (records are independent), 5 kinds of failure, latencies 0..5, floor 3 | cooldowns and average |
| `order` | 3 relays, one on Vercel, latencies 0..3, margin 1, at most one failure on record | the candidate order; whether a relay cools and is in slow start is all the order reads of its failures |
| `fetch` | 1 turn, 3 relays, every kind of reply, any pool, order and pin | a race, a roll after it and a kept response need three relays; properties are per turn, other turns act through `cooling`, arbitrary at the start and only expiring |
| `fetch_ends` | 1 turn, 3 relays, one with a refused URL | liveness |
| `turn` | 2 relays, gate after 2 refusals, up to 3 turns of one conversation in each of 16 settings (below) | streams, replacement, tool calls, reasoning, gates and the end of a turn |
| `cline` | 1 turn, 2 slots, keep-alive, 2 logins, logouts at any time | marks, connections, completeness of the roll, parks, logouts |
| `accounts` | 2 processes, 2 slots of which 1 can be named, 2 operations, 2 faults (crashes, losses of the file, failed writes of the copy) | the file operations behind an edit, up to a crash while the recovery copy is all there is; a write of the file itself may always fail |
| `updates` | 2 sessions and the daemon, 2 versions, 3 models, 2 checks | installs and catalogs of mixed versions |

The settings of `turn` (`MCHostTurn`): reasoning carried over two turns by
streams and by whole bodies; a longer stream that may be replaced; parallel tool
calls in a chat answer on a lane with and without replacement, the same for
Messages and Responses; three turns with the failover of refused sessions, and one
of a Responses stream that fails over, cut short before its first chunk (`Gated`);
and one turn of each other lane.  Gates are followed only in the setting that reads
them.  Tool calls come as six deltas: two calls of repairable tools under one
index, one named whole and one in pieces, and a placeholder.

The two focuses of `updates` (`MCUpdates`): *installs*, with two sessions that come
and go and no cache; *lists*, with caches and every change of Zen's list, one
session at a time that starts in the middle of an install.  Their product is too
large.  Model `b` is shipped by version 1 and barred by 2, `c` shipped by 2, `w` only
listed.

Deadlock is not checked where the system may really stop: the daemon has exited,
the bounds on operations, checks and faults are used up, or all turns are over.

**Fairness.**  `LeaseRegistry`: the interval timer and the clock go on, and each
proxied response closes in the end (header deadline and stall cut).
`DaemonLifecycle`: every await of an attempt returns (all its requests have
time-outs), the beat and watchdog timers fire, a backoff and a halt end, a spawned
process binds or exits; nothing of sessions, requests and faults.  `RelayStore`: an
operation is a run of synchronous calls, which a live process executes to the
end.  `RelayFetch`: each fetch is bounded by its header deadline.  `HostTurn`:
requests time out before their headers, except those of the Cline lane, which
have no timer; a replacement is answered or fails; the stall cut does not stay
armed for ever; a pipe that is done is finished.  Nothing is assumed of
hosts, upstreams, users, crashes, or the expiry of cooldowns; `TurnEnds`
of `HostTurn` therefore exempts what nothing limits (`Unlimited`): a request to
Cline, a body that is read as a whole, and the replacement of a held stream.
The roll over Cline logins, the files of `ClineStore` and the updates have no
liveness property: the first is a loop over a finite list whose fetches have no
deadline but the transport's, the others wait for users and networks.

**Bounds.**

* `MaxActive` (`LeaseRegistry`): requests in flight; the code asks only for zero.
* `MaxPort`, `MaxEvents` (`DaemonLifecycle`): one walked port is enough to be beside
  the base port; two events exceed what liveness can be checked of, and one on top
  of two sessions that start, attach, replace and end at will reaches every action.
* `MaxEdits`, `MaxFaults` (`RelayStore`), `MaxOps`, `MaxFaults` (`ClineStore`): two
  edits are the least that can lose one another.  One fault is what the relays' backup
  is for; of the logins' file a second one matters, a crash at the recovery copy, or a
  write of it that fails and tears it, while the file is lost.  The proofs hold for any number of edits, and those about
  `ClineStore` for any number of faults.
* `MaxLatency` (`RelayHealth`) and the constraint `FewFailures` (`MCRelayOrder`);
  failures are counted to the escalation cap of 4 and samples to the floor, as the
  code compares them with nothing else.
* `MaxLogins`, `MaxReset` (`ClineRoll`): with one of two slots filled at first
  there is one login to make, over a turn that uses the old one, after a logout of
  it, or into the other slot; one reset tells a cap with a reset from one without.
* turns, items and chunks of each setting (`HostTurn`): a stream may be replaced
  until its first chunk that counts, so that the longest has four; two items are
  the least of which one may be refused and the other expired.
* `MaxExpiries`, `MaxRefreshes`, `MaxChecks` (`Updates`): one cache that expires, one
  refresh by hand, and a check by each session.

## Proofs

Every theorem holds for every value of the constants that the named assumption of
its module admits.  The argument is always an inductive invariant, which TLC
has checked on the instance of the run before it was proved.

| theorem | says | argument |
|---|---|---|
| `LeaseRegistryProofs!TypeCorrect`, `AckedLeaseSafe`, `RetireSafe`, `FreshDaemonSafe` | the properties of the registry for all sessions, timers and limits | `IInv`: types, acknowledged leases, and `ClockInv`, which ties the empty window to the age of the daemon (a window is only opened by a sweep, and no sweep precedes the first interval) |
| `LeaseRegistryProofs!CapSafe` | the cap, for finitely many sessions | the cardinality of the lease set changes by one, and grows only below the cap |
| `RelayStoreProofs!TypeCorrect` | types | one step per file operation |
| `RelayStoreProofs!LockSafe` | mutual exclusion before any fault | `LockInv`: without a fault no lock gets stale, so `lockRm` is never reached, and a holder implies a fresh lock file |
| `RelayStoreProofs!PoolSafe` | recoverability with one fault | `CurInv`: who is about to write a backup holds a pool with relays in it, unless main was junk, and who is past reading main one worth saving, unless an edit emptied it; `PoolInv`: before any fault main and backup are usable, after one fault main is, or the backup, or one about to be written, or, after junk, the pool of who writes junk over the backup or is about to replace main (`InMemory`) |
| `RelayStoreProofs!AddsSafe` | a reported add stays | `EditsInv`, as long as nothing fails and nobody saves without the lock: main has every relay kept so far (`PoolKept`), who saves holds the lock and what it saves has them too (`EditInv`), and with `LockInv` no other process saves meanwhile; `JobInv` ties the history to the edit under way |
| `RelayHealthProofs!TypeCorrect`, `CooldownsJustified`, `SlowStartExact` | types; a cooldown is owed to a failure of its length; slow start follows exactly a failure | `IInv`, kept record by record: each call replaces one record, and `Tick` ages all |
| `RelayHealthProofs!ChronicNeverShortened` | a repeated failure of one kind never shortens a cooldown | from the same invariant: the doubled base is capped by a constant no smaller than what is left |
| `RelayHealthProofs!AveragesSound` | the average stays between its samples | `SmoothBetween`: the rounded average of two latencies is no further out than they are |
| `RelayFetchProofs!TypeCorrect`, `BodiesAreSettled`, `ServedIsTheIssuer`, `NeverRawDisabled`, `BlameIsJustified`, `RequestNeverResent` | bodies, issuer, result, blame and requests of a turn, for any number of turns and relays | `TurnInv`, turn by turn, below |
| `RelayFetchProofs!FailoverKept` | `RelayFetch` implements `Failover` | each step of a turn is one of `Moves` (asking a relay, waiting, cancelling, returning, falling back, throwing), and each of these is a step of `Failover` or a stutter |
| `ClineRollProofs!TypeCorrect`, `MarksSafe` | types; nothing outlives a login | `PoolOK`, kept by each edit by itself: every patch asks whether its slot is there |
| `ClineRollProofs!BodiesSafe` | no connection leaks | `Connections`: while a turn waits its open bodies are that of the kept response and, during a refresh after a 401, that of the answer; the kept response is never that of a login still to be tried, so that cancelling one body never closes another |
| `ClineRollProofs!LogoutSafe` | only a login brings a login back | no other step adds to `saved` |
| `ClineRollProofs!RollSafe` | a turn fails only after every login, and asks none more than twice | `Rolling`: candidates before the present one have failed (`Tried`), those still to come have been sent nothing, and a second request needs a refresh first |
| `ClineRollProofs!ParksJustified` | a login is parked on Cline's word | `GrantsHeld`: only a login with a grant is refreshed, which holds although turns and the keep-alive renew, drop and reuse slots during the refresh |
| `ClineStoreProofs!ClineStoreTyped` | types | `Control`: where each file operation returns to |
| `ClineStoreProofs!SavedSafe` | a login reported saved was on the disk | `SavedInv`: while a save is checked the pool written holds the login, and what is loaded after a save that failed was read from the files, never from a cache (`Told`) |
| `ClineStoreProofs!PoolSafe`, `ForgottenSafe` | an edit is one step, and a logout is forgotten, while accesses do not overlap | `AtPeace`, below; after a crash or a failed write of the copy, `BrokenPeace` |
| `LeaseRegistryProofs!LifecycleTyped`, `ServersLive`, `StrangersSpared` | types of the daemon's life; an in-process server is that of a running session; no other program is killed | `LifeInv`, below |
| `RelayHealthProofs!EveryRelayOnce`, `StickyKeepsLead` | the candidate order of any pool, under any records, pin and key | a function of the records, below |
| `UpdatesProofs!OffersAreSound`, `ListedIsShown` | what each process offers, whatever other versions wrote to the cache | `CatalogInv`: the lists are sound, a file with the etag of the present list has everything in it that no version bars, and so have the copies of it that refreshes under way have read (`AskingInv`); that is what makes a 304 safe |
| `UpdatesProofs!DaemonNeverOlder` | no session brings an older daemon back | `FloorInv`: a staged copy is never older than its name (`StagedInv`), a daemon being started is never older than the floor (`ChildInv`) |
| `UpdatesProofs!TypeCorrect` | types of catalog and updates | the same |
| `HostTurnProofs!TerminalSent` | the host's terminal event, for streams and calls of any length | `PipeInv`: a stream that is over owes nothing (`Owed`), one that is not over has noted what it sent, and is only to be replaced before a tool call (`Steady`) |
| `HostTurnProofs!ToolsAreCalledOnce` | no turn is generated again once a call was forwarded | `Steady`, with `pending` set only by handlers that have looked at `tool` |
| `HostTurnProofs!GateSurvivesRestarts` | the gate in the file is the gate in memory | `GateInv`: the two agree on what matters unless the file was reset by another; a save that may be throttled changes nothing that matters |
| `HostTurnProofs!IssuerIsTheServer` | the issuer is the backend of the stream | `IssuerInv`: it is so from the moment a stream is piped, and a replacement changes both |
| `HostTurnProofs!HistoryIsHealed` | a mismatch is never shown | `SentInv`: each retry sends less that could be refused, the last nothing |
| `HostTurnProofs!CallsAreFollowed`, `StreamsAgree`, `RecordAgrees` | a streamed call is the aggregated one, and so is its record, in chat, Messages and Responses | `CallsInv`, below |

**The turn of `relayFetch`.**  None of the properties is inductive by itself.  A leg that
loses a race, times out or is withdrawn is settled by whoever looks at it next, so
that the invariant has to say who is still out at each phase: `OrderInv` (the order
names each relay once), `LoopInv` (before `pos` all are asked or refused, beyond the
race none), `RaceInv` (both legs out, or one gone and nobody blamed yet), `LastInv`
(the response kept is what its leg brought, and a 402 is remembered), `BodyInv` (until
the end its body is the only one open) and `BlameInv`.  An action changes two or
three of them; the lemmas between `Landed` and the actions say of each kind of
answer what it leaves of each.

**The refinement.**  The variables of `Failover` are read off the turns: the pool is the
order, asked is who has a leg.  The mapping needs the invariant: that the fallback comes only when every usable
relay has been asked (`Spent`) is `LoopInv`, and that the answer returned is that of
the relay reported is `BodyInv`.

**The stream.**  A chunk is a sequence of blocks, and most of what is proved does not depend
on what the cloak makes of them: it only changes fields of its own and may ask for what
`PipeInv` allows (`Keeps`, `Unmoved`).  That is why records are known by their fields
(`IsPipe`, `IsTurn`, `IsMemory`) and not by types, and why `HostTurn` has no `TypeCorrect`.

**The calls of a stream.**  Cloak, host, recorder and aggregation each keep a record of the
calls they have seen; what they make of a whole stream is compared block by block, as an
invariant over the four records, so that no induction over the stream is needed.  `CallsInv`
says of a pipe whose host is there (`Followed`):

* for every call, whatever its shape (`Tracks`): the cloak tracks each under an index of its
  own, which is claimed and below the next free one (`CloakInv`), and the host knows of
  no other calls (`CloakHeard`);
* as long as the stream is `Comparable` (`InStep`), of each call by itself: what the host has,
  with what is kept back put behind it, is what the aggregation has (`ChatCall`,
  `MessageCall`, `ResponseCall`); it has nothing of a placeholder; and the record differs
  only by a name said twice, of a call without arguments or of a tool that does not exist;
* a block begun in an earlier chunk still fits what came since (`Tailed`), and the response
  object of Responses is the last thing said (`WholeLast`);
* once the response is over nothing is kept back (`Drained`).

It is carried through the handlers in the order in which they call each other: one delta
(`Rewrite` beside `Aggregate` and the observers), a release, a block, a flush, each way in
which a stream ends, and the replacement, which starts the aggregation anew while the cloak
and the host keep what they have: there is then nothing the host has heard, as no call was
forwarded.  In the end the host's index is a bijection between the calls answered and the
calls heard (`Matching`), which gives their number.

**The file of the logins.**  While no accesses overlap, at most one process is at the files
(`Alone`), and the rest wait for users, Cline or nothing.  `Agrees` says of that one, phase by
phase, how the files and the pool it holds relate to the pool as it should be: equal until
the rename, and equal to what the edit leaves after it.  Which of the two holds cannot be told
when the read-back fails; that the answer then given is right rests on tokens being new: no
pool, copy or cache holds the token of an operation under way (`Issued`, `Sound`), so that a
login found again must have been written.  `CachesOK` ties a cache to the file by its
mtime.  The recovery copy holds, besides the pool, only slots whose last logout was cut short
by a crash or could not write the copy (`PoolsOK`, `cut` in `ClineEdits`); one lemma
(`BrokenPeace`) serves both faults, as each ends the edit with the copy as it was or torn.
The duplicates that `loadPool` drops are settled by the least slot with a token,
whose existence is the least-element principle (`WFMin`).

**The life of the daemon.**  `DaemonLifecycle` and `LeaseRegistry` are both extended by
`LeaseRegistryProofs`.  Besides the types, `LifeInv` says what the steps rely on: a stranger is at
the base port only; a session settling is above the base, so that the walked port it gives
up is no stranger's; a session about to kill knows why; and whoever serves in
process runs, although a kill meant for a silent daemon may end another session.  A stranger
is spared because the kill looks at its holder once more (`Freed`), whatever the session has
read of the port before.

**The candidate order.**  Nothing about it needs induction over steps but `TypeOK` and
`RecoveringIsLastFailed`.  `Keep`, the filter that all partitions are made of, takes the n-th
relay by counting those before it; the lemmas show from cardinalities that it keeps the
order and loses nothing.  `Lists` (each of a set, once) is then kept by filtering, moving one
relay to the front, turning to a key, and concatenation of disjoint lists, and `Before` by
each of them as far as the property needs.

**What the proofs changed in the models.**  `PoolAsEdited` held with one fault and is false with
two, if a loss of the file is followed by a logout whose saves fail and a crash while
`forgetAccountInBackup` rewrites the recovery copy in place (`cline-pool.ts:370`): every login is
gone.  The history calls that a loss (`Lost` in `ClineEdits`), and the run has two faults now.
The proof of the order found `RelayOrderAssumption` without `NoPin \notin Relays`, and a filter
written with `SelectSeq`, of which the prover knows nothing; the definition by rank is the
same function, as TLC confirms.  
`LockedAddsKept` was stated for two ways
around the lock, a lock that is held too long and the menu.  Its proof failed at a
third, which TLC then showed from an emptied pool: `recoverFromBackup`, run by a
process that only looks (`relay-state.ts`, `loadRelayState`), saves the backup over
main without the lock and undoes an add reported meanwhile.  `bypassed` has it now as
`"recovery"`.  `IssuerServed` did not hold of a conversation in Responses that fails
over to Kilo, whose stream has no backend to be remembered; the setting that shows
it, which no run had, is one of `Gated` now and the property excepts it.
`CatalogAssumption` says what the shipped lists satisfy and the model used silently:
no version bars a model it ships, and versions and lists are not empty.
`StreamedAsAggregated` did not hold of every stream: not of a placeholder whose name comes in
pieces, and not of a call without an id whose index a placeholder of the stream replaced
before had under an id.  The small instances have neither; `Shaped` and `Aggregate` name the
two now, and `MCHostTurn!VerdictsOwn` is the second.  `AuditAgrees` needs that no tool is
named by another name said twice, as the release of withheld arguments repeats the name;
`CloakAssumption` says so, and that no tool has an empty name.  

Assumptions are those named in the modules (`LeaseAssumption`, `RelayStoreAssumption`,
`RelayHealthAssumption`, `RelayOrderAssumption`, `RelayFetchAssumption`, `LifecycleAssumption`,
`ClineRollAssumption`, `ClineStoreAssumption`, `CatalogAssumption`, `UpdatesAssumption`, and for `HostTurn` `TurnAssumption`,
`PipeAssumption`, `CloakAssumption`, `GatesAssumption`), evaluated by TLC in every run.

**Only model-checked**, and why:

* liveness (`OrphanDaemonExits`, `EditsFinish`, both `TurnEnds`, `LoneSessionSettles`) and
  the fairness it rests on: ENABLED and fairness are beyond the prover;
* `EditsNotClobbered` is false.

## What the code does otherwise than it says

One disagreement is a run, with the comment quoted in `PROJECT.json`:
`store_clobber`, in which a writer that meets a fresh lock goes ahead without it.

The `MC*` modules state further comments as formulas, each under the quotation.
TLC refutes them when they are checked in a run of the same module:

| formula | what happens |
|---|---|
| `MCRelayStore!UpdatesPropagate` | a process records the mtime of a newer file with an older pool, and keeps the pool |
| `MCRelayStore!OnlyStaleTakenOver` | of two writers that judge a lock stale, the slower removes the fresh lock of the faster |
| `MCRelayStore!FilesRecoverable` | a main whose entries are all no relays is unusable, yet counts as non-empty (`relay-state.ts:291`) and is copied over the good backup, also by the save that heals it; until that save is done neither file can be loaded, and an edit that reads meanwhile starts from an empty pool |
| `MCRelayStore!StickyInPool` | a turn makes a relay primary that was removed while it was under way |
| `MCRelayHealth!ParkHolds` | a failure of another kind replaces the six-hour park by its own, shorter cooldown |
| `MCRelayOrder!UnknownAfterMeasured` | (pool `FourPool`) only the challenger is moved; unmeasured relays keep their place before measured ones |
| `MCRelayOrder!KeyKeepsRelay` | a conversation changes its relay when another relay's health changes |
| `MCRelayFetch!HedgeIntoHealthy` | (two turns) the second relay starts cooling during the grace wait and is hedged into |
| `MCRelayFetch!OnlyRateLimits` | a failure that is not held for later does not clear the flag |
| `MCRelayFetch!FaultsReported` | a leg lost to the network in a race the other wins is not reported |
| `MCRelayFetch!PinnedWinsFirst` | a pinned relay further down the order wins after others have failed |
| `MCRelayFetch!WithdrawnUnmarked` | an abort after one leg's network fault marks the other, withdrawn leg (`relay.ts:434-438`) |
| `MCClineRoll!ParkMeansRejected` | the keep-alive parks logins for a network that is down |
| `MCClineRoll!ParkNamesLogin` | a refresh that is rejected after the user logged in again parks the new login |
| `MCClineRoll!LoginNotReverted` | a refresh that succeeds after the user logged in again puts the old account back; so does the next refresh of a slot whose key was pasted over a device login, which keeps the old grant |
| `MCClineRoll!MaskedNeverServed` | the retry after a refresh is not looked into for a limit reported in the stream |
| `MCClineStore!NeverOverwritten` | the slot of a device login is chosen before the login, and by another process meanwhile |
| `MCClineStore!OthersKept` | the recovery copy holds the pool before the last save, without the login added by it |
| `MCClineStore!RemovedMeansGone` | the user is told a login is removed although the save failed |
| `MCClineStore!RemovedIsForgotten` | the scrub of the recovery copy fails, which is swallowed (`cline-pool.ts:372`), or is cut short: the user is told the login is gone, and its grant stays in the copy |
| `MCClineStore!CacheCoherent` | a process keeps a pool it cached while the file was missing or torn |
| `MCDaemonLifecycle!HealthyNotReplaced` | after its backoff a recovery replaces the healthy daemon another session has started |
| `MCDaemonLifecycle!NeverInterrupted` | a request begins after the health that showed the daemon idle |
| `MCDaemonLifecycle!NewerLeftRunning` | the daemon whose version was read has been replaced by a newer one before the kill |
| `MCDaemonLifecycle!NeverStranded` | attach finds the daemon gone, and the session stays without timers |
| `MCDaemonLifecycle!SessionsNotKilled` | `lsof` lists processes connected to the port, and the first is killed |
| `MCDaemonLifecycle!Settles` | two sessions replace each other's daemon, or one recovers from a newer degraded daemon, for ever |
| `MCHostTurn!ReplacementGuarded` | the replacement of a held stream has no stall cut (`stream-pipe.ts:449`) |
| `MCHostTurn!TerminalNeverReplaced` | a stream whose terminal event was forwarded is replaced (`stream-pipe.ts:310`) |
| `MCHostTurn!CutterBlamed` | a failure of the replacement is marked on the backend of the first stream |
| `MCHostTurn!DeadIdsNotSent` | items known as dead are sent to the backend that issued them (`proxy.ts:846`) |
| `MCHostTurn!PlainLaneKept` | a retry after the fallback to the plain path goes to the other path again (`proxy.ts:1232`) |
| `MCHostTurn!AnswerNotAskedAgain` | a relay's answer whose body breaks while it is read is asked for again directly (`proxy.ts:1093`) |
| `MCHostTurn!StrangerFailsOver` | a success of Kilo counts as proof that Zen knows the session |
| `MCHostTurn!VerdictsOwn` | the verdict on a placeholder of a broken stream is applied to a call of its replacement (`stream-pipe.ts:393`) |
| `MCHostTurn!NamesNotGlued` | a repairable call without arguments is recorded under its name twice |
| `MCUpdates!StagedAsNamed` | an install between reading the version and copying puts new sources under the old name |
| `MCUpdates!NoOldDaemonComing` | a daemon being started while the old one is killed stays old (`updater.ts:216-217`) |
| `MCUpdates!SuccessMeansInstalled` | a package manager that exits 0 has updated another copy (`updater.ts:215`) |
| `MCUpdates!NotModifiedUnchanged` | the doc of `refreshCatalog` (`catalog.ts:430-431`: a 304 "skips merge and returns the in-memory catalog unchanged") and a test title (`test/catalog.test.ts:59`, "skips merge on 304") say the opposite of the code and of the comment in it (`catalog.ts:483-486`), which merge the cached list; `ListingShown` is the latter |
| `MCUpdates!NewerListKept` | a slow 304 writes the list it had read over a newer one (`catalog.ts:490-494`) |
| `MCUpdates!OfferKept` | a failed refresh falls back to a cache that knows less (`catalog.ts:541-549`) |

More are prose only.  Logins: the recovery copy, which is kept for the loss of the file, is
itself written in place, and a crash at it while the file is lost costs every login
(`cline-pool.ts:339` and `370`; `ClineEdits!Lost`), and so does a write of it that fails then.  Relays and leases: the default cooldown's comment
(`relay-state.ts:492`) lists 502 and 503, which the code gives the 45 seconds of
other server errors; a lease taken and given back between two sweeps does not
restart the grace window (`lease.ts:94-98`).  Streams: a call named again after
its arguments began loses the fragments before (`stream-cloak.ts:117-120`), unlike
the aggregation; the release of withheld arguments sends the whole name again; a
`[DONE]` without finish reason releases arguments after the terminal event; a
placeholder whose name comes in pieces is not recognised; a raw error marks the
relay twice; a slow host makes the stall cut blame a healthy relay; fragments of a
Responses call resumed at a hidden index are lost, though its closing item is
whole; whole bodies of Messages and Responses are audited with the
placeholders in them (`auditFinalBody`).  Gates: a reset in a host leaves the
daemon's remembered refusals; without the opt-in no canary flies, and a closed gate
never opens; strikes that were not saved are forgotten by a restart.  Lanes: Kilo's
clamped retry leaves the body of the first answer open.  Updates: a failed
install is not tried again until the check expires; two sessions may install at
once; a model that Zen withdraws never leaves a running catalog.

## Not modelled

* **Declarations and formatting**: fingerprints, tool translation and argument
  repair (functions of one JSON value), deploy templates, commands, health page,
  `config.ts`, `types.ts`: no control whose interleaving could go wrong.
* **Token**: one file, created once; **trust store**: read once at the start.
* **Sidecar transport**: whether a child carries a request or Node does; a failure
  falls back to Node within the request of `HostTurn`, and nothing else depends on it.
* **Log files**: nothing reads the log.  **Relay import and deployment**: their
  results are edits of `RelayStore`.

Within the modelled parts the models leave out:

* the text of messages, log lines and widgets; labels and secrets of relays;
* `DaemonLifecycle`: a kill looks at the holder of a port and kills it in one step; the spawn throttle is a failed spawn; a request that has gone
  quiet stays so; a child binds or exits before its parent spawns again; leases by
  id, which are `LeaseRegistry`'s;
* `StreamPipe`: what is sent after the finish reason in the same chunk; `message`
  objects in the middle of a chat stream, and the calls that only the terminal
  object of a stream carries.  Upstreams name a call in one of two known shapes
  (`Shaped`), announce calls in the order of their indices, and end calls before
  the stream is over;
* `CallAudit`: budgets, the log file and the chain of retries over turns; an id
  stays with one host index;
* `HostTurn`: one conversation that has a key; `previous_response_id`; requests that
  are turned away before their body is read, which change nothing but the count of
  `LeaseRegistry`; the sidecar; in `Reasoning` the eviction of the oldest
  conversation; in `UpstreamGates` the cap and the term of sessions, writes
  of other processes between the load and the save of one call, and a forced persist
  that fails, which the code swallows (`upstream-health.ts:241`): the model's always
  succeeds, so that `GateSurvives` is about restarts after a save that did;
* `ClineStore`: one account; the read of a file with its mtime is one step, since a
  file that moves is read again; files are lost only while no process is at them;
  an old pool format is secured in the step of the edit; entries that are no logins,
  which `accountCountIn` counts all the same, so that a pool of them displaces a smaller
  copy that is good, and a read of the copy that fails; caps and usage, which are
  `ClineRoll`'s;
* `ClineRoll`: the earliest reset of a roll, which only words a message;
* `Updates`: a package manager changes the package in one step, so that no copy is
  taken of one half installed; a local version that cannot be read (`updater.ts:163`,
  `commands.ts:682`); how a runtime is found, the pruning of old copies, linked installs
  (which check nothing); how a daemon is lost and found is `DaemonLifecycle`'s.
  `Catalog`: a model is where its definition comes from; a missing cache and one
  that cannot be read are the same.

## Plan

The modules are written, and every invariant and action property that the passing runs check
is proved.  What is left, in this order:

1. `UpstreamGates` and `Reasoning`: lemmas on what each operator leaves of a body, which
   are steps of `HostTurnProofs` now, stated for themselves.
2. `RelayOrder`: that the primary comes first when it is not cooling and no pin, key or
   challenger says otherwise.
