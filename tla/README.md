# A TLA+ model of PegaProx

PegaProx (`src/pegaprox`) manages Proxmox clusters, and several installations
of it can form a group of which one acts on the clusters at a time.
Its web interface (`src/web/src`) is one page that lives on requests, a stream
of updates and timers. This directory holds TLA+ modules for the parts in which
processes, crashes, time and unordered answers meet, TLC runs that check them on small instances, and
proofs for every instance.

| file | what it is |
|---|---|
| `HaLease.tla` | who leads a group in automatic mode, and for how long |
| `HaLeader.tla` | what that promises: one lease, one term after the other |
| `HaLeaseInv.tla` | the inductive invariant behind it |
| `HaLeaseProofs.tla` | proofs: types |
| `HaElectionProofs.tla` | proofs: one winner per term |
| `HaExclusionProofs.tla` | proofs: one lease at a time, `HaLease` implements `HaLeader`, one instance acts |
| `MCHaLease.tla`, `MCHaLease*.cfg` | small groups for TLC |
| `BulkMigrate.tla` | bulk migrations: request, registry, worker |
| `BulkMigrateProofs.tla` | proofs: width, closed rows, registry, cancel |
| `MCBulkMigrate.tla`, `MCBulkMigrate*.cfg` | small instances for TLC |
| `VncSocket.tla` | the encrypted WebSocket of a console, both ends |
| `VncPoll.tla` | the console over HTTP: browser, session pool, reaper |
| `VncConsole.tla` | the console window: tickets, transports, retries, cleanup |
| `VncTransportProofs.tla` | proofs: both transports keep their streams |
| `VncConsoleProofs.tla` | proofs: the console window leaves nothing behind |
| `MCVncTransports.tla`, `MCVncConsole.tla`, their `.cfg` | small instances for TLC |
| `LiveUpdates.tla` | the stream of the dashboard and what reconnects it |
| `TaskList.tla` | the task list between polls, frames and switches |
| `VmList.tla` | the guests and the status shown before the answer |
| `ClusterView.tla` | lists, alerts and HA settings of the selected cluster |
| `MCDashboard.tla`, `MCDashboard*.cfg` | the four as parts of one page, for TLC |
| `DashboardProofs.tla` | proofs: the page of a cluster |
| `AuthSession.tla` | sign-in, session, sign-out in the browser |
| `AuthSessionProofs.tla` | proofs: page, cookie and session fit together |
| `MCAuthSession.tla`, `MCAuth*.cfg` | one browser, two users, for TLC |
| `PROJECT.json` | runs, mutants, map to the source, hazards, theorems |

`tlc -workers 2 -config MCHaLeaseFailover.cfg MCHaLease` runs one
configuration, `tlapm BulkMigrateProofs.tla` checks the proofs of one module.

## Inventory

### The HA group

* **Votes and leases** (`core/ha_vote.py`, class `Node`). *State*: role,
  epoch, `voted_for`, `led`, `released` and the voter config on disk;
  promise, hold, lease, rounds, campaign, allowance and transfer in memory.
  *Operations*: `tick`, `on_request` (vote, renew, campaign, snapshot),
  `on_answer`, `transfer_to`, `planned_restart`, `step_down`, `confirm`, and
  the switches between the modes. *Hard*: every pair of members runs
  concurrently; calls are lost, late and crossed; clocks differ by up to 10%;
  a process forgets its promises when it ends; a write can fail.
  *Correct*: one winner per term, one lease at a time, one member acting at a
  time, no term begins under a lease of an earlier one.
* **Config chain** (`ha_vote.py` `_cfg_work`, `newer_chain`, `chain_after`).
  *State*: up to a few configs, each naming its predecessor by digest.
  *Hard*: a change that is not committed when the leader changes.
  *Correct*: any two majorities that can decide at once intersect.
* **Freshness** (`cv`, `floor_cv`, `catchup_source`, and the snapshots of
  `core/ha.py`). *Correct*: nobody below an acknowledged version wins.
* **Confirm waiters** (`confirm`, `_confirm_round`, `_resolve_waiters`).
  *Correct*: confirmed only by a round that started later, and always answered.
* **Runtime** (`core/ha.py` `lease_boot`, `lease_step`, `_lease_deliver`,
  `_lease_answer`). One lock around the node, one thread for ticks, one call
  thread per member; answers to an older node object are dropped.
* **Wire** (`core/ha_wire.py`). Signed calls, a bitmap of nonces per stream.
  *Correct*: no call is taken twice.
* **Manual mode, pairing, removal, claims, snapshots** (`core/ha.py`).
* **Witness** (`witness.py`): the same `Node`, of kind witness.
* **Recovery journal** (`core/ha.py`, `core/recovery.py`): the steps of a node
  recovery, written by the leader and read by the next one.

### Work that runs on the server

* **Bulk migrations** (`core/bulk_migrate.py`, `api/vms.py`). *State*: a
  registry of runs, each with one row per guest, under one lock; a worker
  thread per run. *Operations*: plan, register, cancel, claim, begin, follow,
  finish. *Hard*: a cancel or the loss of the leadership at any point of the
  worker; plans made at the same time; lost answers of Proxmox. *Correct*: the
  width is kept, nothing is left open, what is reported as not started was not
  started, every run ends, one run moves a guest.
* **Batch restores** (`core/batch_restore.py`, `api/pbs.py`): the same shape.
* **Rolling updates** (`core/rolling_runs.py`): a run stored in the database
  that survives its process and changes leaders.
* **Site recovery** (`background/site_recovery.py`): who holds a plan.

### The web interface

* **Consoles** (`vnc_secure_socket.js`, `ConsoleModal` in `node_modals.js`;
  `utils/vnc_crypto.py`, `utils/vnc_polling.py`). *State*: sequence numbers and
  promise chains at the browser, counters and a pool of sessions at the server;
  per console window a ticket, a transport, an RFB object, a retry counter.
  *Operations*: open, send, receive, close, reap; start, retry, clean up.
  *Hard*: WebCrypto settles in any order, POSTs overtake each other, answers get
  lost after the buffer was drained, the window is closed during any await.
  *Correct*: the streams in order and without holes (upwards over HTTP: nothing
  accepted gets lost), a healthy stream never fails, one close event, no session
  and no plain connection left behind.
* **Live stream** (the SSE effect of `dashboard.js`). *State*: one shared
  `eventSource`, a token, three kinds of timers. *Hard*: each of them awaits a
  token before it goes on, and closes what `eventSource` names by then.
  *Correct*: updates come back after any failure; behind the cleanup nothing asks
  for a connection any more, and no more streams open than calls were waiting.
* **Task list** (`fetchTasks`, the `tasks` frames). *Hard*: polls, a shared
  request and frames carry the same tasks in any order, across switches of the
  cluster. *Correct*: one cluster's tasks, never back behind a later update, and
  polling alone is enough.
* **Guests** (`handleVmAction`, the `resources` frames). *Hard*: a status is shown
  before the answer. *Correct*: after a failure the row says what the server said,
  for guests with one action at a time.
* **Lists, alerts, HA settings** (the effect of the selected cluster,
  `fetchHAStatus`, `reloadHaStatus`, `handleSaveHASettings`). *Correct*: the lists
  in front are of the selected cluster, the form that is saved is of the cluster it
  goes to, an offline node gets its alert. Alerts, the status and the flag taken
  from it may be of the cluster before (findings).
* **Sign-in** (`contexts.js`, `auth.js`, `authFetch`). *State*: the session at
  the server, the cookie, what the page shows. *Hard*: the three move by requests
  that nothing orders, and a 401 may be somebody else's. *Correct*: the page shows
  the user of its cookie, a lost session shows, and only a lost one.

### The rest

Cluster managers, migration between hypervisors, backups, alerts, metrics,
checks, the database, the web API, and the forms and views of the web interface
talk to Proxmox, to storage or to a browser. Their state is elsewhere or their
logic is one thread over one table. `PROJECT.json` lists each with the reason it
is left out.

The parts meet in one question, `ha.is_active()`: every worker asks it before
it acts. `HaLease` says what the answer is worth across a group, `BulkMigrate`
what a worker does when it changes.

## HaLease and the code

The model has one variable per field of `Node` that the rules read, indexed by
member. `role`, `epoch`, `voted`, `led`, `take`, `sameBoot`, `released` are on
disk and survive `Forget`; the rest is memory of the process.

| actions | code |
|---|---|
| `Boot`, `BootAndLeave`, `BootFailed` | `Node.__init__`, `_boot`, `_boot_failed`, `_booted`, `lease_boot` |
| `StartVote`, `CampaignLost`, `Won` | `_maybe_campaign`, `_vote`, `_vote_progress`, `_vote_failed`, `_won` |
| `GrantVote`, `GrantAndLeave` | `_on_vote` |
| `StartRound`, `OnRenew`, `Majority` | `_start_round`, `_on_renew`, `_renew_answer`, `_majority` |
| `Lose`, `TermMovedOn`, `SeesHigherEpoch`, `ToldToStepDown` | `_lease_check`, `_lead`, `on_answer`, `step_down` |
| `TransferTo`, `TransferRefused`, `Release`, `SendCampaign`, `OnCampaign`, `TransferLost` | `transfer_to`, `_transfer_tick`, `_on_campaign` |
| `PlannedRestart` | `planned_restart` |
| `Tick`, `Crash`, `LoseCall` | the clocks, the operating system, the network |

**Time.** A deadline is kept as what is left of it. In one `Tick` (10 units of
true time) each clock runs 9 to 11 units. `PerRound`, `P`, `HoldAfterStart` and
`WTake` are the formulas of `Timings`. Actions happen at any time between
ticks, so a process that is paused or a call that is slow needs no action of
its own.

**What is more general than the code.** Pre-votes change nothing at a voter and
are left out, so candidates are bolder. The election timer is left out: a
candidate may campaign at any moment. A leader may be told to step down at any
time. Vote requests and renewals signed before the start of the receiver are
refused by the code and may be taken here. A vote refused for its freshness or
its config is a vote request nobody answers.

**What is narrower.** One voter config in automatic mode and one lease length.
`restart_on_win` is true, as in the product. At most `MaxInFlight` renewals of
one member to another are in flight. A round of a boot that is older than a
lease is dropped; the code would book a lease that is over and leave at the
next tick.

**The order of a start.** `_boot` itself sends its round whatever epoch the
disk holds; `lease_boot` runs a tick first, and `_lead` ends a leader whose
term moved on. `Boot` and `BootAndLeave` model that order. Swapped, together with a
role that could not be written, two members could hold a lease; the mutant
`OwnTermUnchecked` shows it.

`HaLeader` is the abstract specification: a term, its winner, and the holder of
the lease. `Elect` needs that nobody holds it. `HaLease` implements it under
the mapping `Newest`, `Holder` (`LeaderSpec`).

## BulkMigrate and the code

A request is two steps, `Plan` (up to the preflight) and `Register`, because
the code lets go of the lock in between. The audit entry and the start of the
thread, between the registration and the worker, are not a state: until its first
step nothing tells them from a worker that has not looked yet. A thread that
cannot be started is left out. The worker is a program counter,
`stage`: `Look` (top of the loop), `Claim` (under the lock `cancel` takes),
`Begin` (the call to Proxmox), `Wake`, `Follow` (one guest), `RoundOver`,
`Finish`. `BreaksOff` is an exception anywhere in the loop. `Cancel`,
`StopsActing`, `ClusterRemoved` and `TaskEnds` happen between any two of them.
Durations (`POLL_SECONDS`, `BLIND_SECONDS`, `LAND_SECONDS`) are steps that may or
may not come yet. `all` is the mode a request chose: started and not followed, or
followed with `Parallel` at a time (1 is the mode `sequential`). `others` counts
running runs of the cluster with guests of their own; they share the registry.

## The web interface and the code

JavaScript runs one callback at a time. An action is what runs between two
awaits, timers or events; a request is a state of its own and may be answered
late, in another order, or not at all. The head and the body of an answer are two
steps where something is done between them or looked at before the body only: the
cookie of a login and of the callback, `reloadHaStatus`. Elsewhere the code looks
again behind the body, and they are one.

* `VncSocket`: `sendChain` and `recvChain` are the promise chains, each link with
  the state of its WebCrypto call. Numbers wrap after `SeqSpace` (2^32 in the
  code). The server's ends are `VncCryptoSession.encrypt` and `decrypt`.
* `VncPoll`: `posts`, `recvPost` and `closePost` are requests under way, `sess` the
  session of the server and `pool` whether it is listed. Two sends may overtake
  each other, an answer may be lost after the buffer was drained. At the server a
  send looks at `_closed`, decrypts, waits for `_pve_io_lock` and writes, in steps of
  their own; a write that fails frees the lock before it stops the session.
* `VncConsole`: a run of the effect with its own `cancelled`; `rfbRef`, the retry
  counter and the status are shared. `conn` is one `connectVnc` with its WebSocket,
  timer and fallbacks. `Stable` names the runs in stable mode.
* `LiveUpdates`: `stream` are all EventSource objects, `eventSource` the one the
  shared variable names. Every delay is a timer that may fire at any time.
* `TaskList`: a task list is the version of it the server had; `stampAge` is the
  age of `taskUpdateTimestamp`, `callers` are the calls of `fetchTasks` under way,
  which may share one request (`_dedupeGet`).
* `VmList`: `shown` is `clusterResources`, `vmList` is `window.pegaproxVmList`, which
  frames are compared with. `crossed` remembers the guests that were clicked while
  another action of theirs was under way.
* `ClusterView`: `closure` are the alerts of the render in which the effect ran, which
  its interval keeps. `saved` is the last Save: the cluster it went to, and whose form
  and whose flag (`unsafe_two_node_recovery`, from the status) it wrote.
* `AuthSession`: a request is a record in a slot of `calls`, sent, answered or lost;
  `heard` says who still waits. A page that is loaded anew leaves its requests
  behind (`Orphans`); a dashboard that goes leaves its GETs to the next one, which
  joins them (`DashboardGone`, `JoinsLeft`), since `_inflightGets` belongs to the page.
  A new cookie comes with the headers, what the page makes of it with the body.
  `mixed` remembers that the page has something of another session: a GET it joined,
  or the cookie of a callback beside a login. Logins, lockouts and second factors are the answers of the
  server; one browser with one tab.

The four parts of the dashboard page keep separate state. `MCDashboard` puts them
into one specification in which the part that moves is chosen at the start, and
`MCVncTransports` does the same with the two transports, of which a console uses
one. That is the union of their behaviours, not their product.

## Runs

| run | shows |
|---|---|
| `failover` | Elections, planned restarts of the leader and a crash of any member, lost and late calls: `OneLeaderPerTerm`, `NoWinUnderALease`, `VotesMoveToTheWinner` and the refinement `LeaderSpec`. |
| `transfer` | Make leader, with roles that could not be written: `HandedOnStops`, also over a crash after the release; `LeaseExclusive`; the parts of the inductive invariant, `ElectionInv` and `LeaseInv`. |
| `takeover_wait` | A witness comes back without its hold after start. Leases may then overlap, but nobody acts at the same time (`ActingExclusive`), because of the takeover wait. |
| `bulk_worker` | One run of three guests, two at a time or all at once, one under Proxmox HA, next to other runs at the limit of the cluster. |
| `bulk_race` | A violation: two requests plan the same guest (below). |
| `vnc_transports` | Both transports: over the WebSocket what arrives is in order and without holes at either end, and a stream nobody touched never fails, numbers may wrap; over HTTP so at the browser, and at the server each payload that was accepted is written, waits or has failed (`PollingKeepsStream`); what is received is delivered, what is sent is taken, a session leaves the pool. |
| `console` | Three consoles one after the other, the last in stable mode: a plain one leaves no connection behind, every plain try ends. |
| `console_zombie` | A violation: a console in stable mode closed during `connectVnc` (below). |
| `auth` | `PageShowsOwner`, `OverlayMeansLost`, the callback of the single sign-on beside the check of the session (`CallbackUndisturbed`), and a dashboard whose session is gone says so or goes (`LostSessionSurfaces`). |
| `dashboard` | The task list and the views between two clusters, and guests with two actions under way: no task crosses, nothing goes back, a failed action is undone, the form of the HA settings that is saved is of its cluster (`SaveWritesOwnForm`). |
| `dashboard_poll` | The page without its stream and with lost answers: the task list comes up to date by polling (`ListCatchesUp`), and so do the alerts of offline nodes, of two clusters that share a node name (`OfflineNodeAlerted`). |
| `live_stream` | Two failures anywhere: `UpdatesComeBack`. |

**Bounds.** The HA runs have two data voters and a witness, the smallest group
that fails over, and two terms: one member leads, and one hand-over, failover
or return happens in every way it can. `SlowA` gives the first leader the
slowest clock and its voters the fastest, the only combination in which the
margins of `Timings` are tight. A tenth of a lease is one unit and a tick ten,
so that a lease ends after one tick and a promise after one. One crash per behaviour (`MaxCrashes`), of the members in `Crashing`. A call may be late for ever anyway; `Losing` names the members to which it may also disappear and make room for the next one, all of them where the run is not about hand-overs; restarts by a win, a
planned restart and a lost lease come on top and are not bounded. `D` and `G` are 0 where they are not needed: the
properties hold without the safety margin. `WonHold` is at least `P`, as `won_hold`
(L + 60 s) is in the code. The takeover wait does not cover a vote that is
counted after `T_vote`, which the code allows until the next tick:
`takeover_wait` sets `LateAnswers` to `FALSE` and the overlap it excludes is
shorter than a tick. With leases of one tick no run can show a lease that counts from the
answer instead of the start of its round; that is covered by the proofs only
(`LeaseCorrect`, `OneLease`), which hold for every length.

No deadlock is possible in the HA runs, since time can always pass. The other
runs switch the deadlock check off: when every run is over, the console closed or
the bounds used up, nothing happens.

Three frames over two sequence numbers pass the wrap at both ends; two POSTs can
overtake each other, and of two chunks one is delivered before the loss or lost, and the
other is behind the hole. Two plain consoles give a cleanup with a successor and one
without. `auth` has two sessions, one and another that comes beside or behind it by a
login or a callback, and two requests under way, enough for each pair that can race. In
`dashboard` there are two clusters, two versions of a task list, two guests with up
to two actions, of one guest or of both, three requests of the views, one more than a
switch sends, so that one of the cluster before is among them; the alerts of the nodes
are left to `dashboard_poll`, where both clusters have a node of one name. It has one
request of the task list, which a second caller joins, and two of the views. Guests and clusters
are alike, so `dashboard`, a safety run, uses symmetry. `MaxFaults` is 2: the
second failure meets whatever the first one set in motion. `MaxStreams` is one more
than the streams that can be alive with two calls of `connectSSE` (`MaxAsking`),
so that the bound holds nobody up.

**Fairness.** `HaLease` has no liveness property yet, so no fairness. `BulkMigrate`
assumes that a worker thread goes on (weak fairness of `Work`), that a migration
in Proxmox ends (`TaskEnds`), and that a guest whose task is over is not
followed for ever, which `BLIND_SECONDS` and `LAND_SECONDS` of the code
guarantee (strong fairness of `FollowedOut`, because the worker leaves and comes
back to `follow`). A cancel, an exception, the removal of the cluster and the loss
of the leadership are never assumed.

In the web modules a promise settles, a timer fires and a request is answered or
fails (weak fairness): the browser's event loop and its timeouts. Where an answer
may get lost for ever, some of the polls get through (strong fairness of `Answer`
in `TaskList`, of `PollHa` and `HaComes` in `ClusterView`, of the polls and probes in
`AuthSession`), and in `LiveUpdates` a stream opens and has its first message
between two health checks now and then. Failures, closes and what a user does
are never assumed.

**Mutants.** Each property has a mutant in the model, an operator next to the
one it replaces (`PerRoundUnscaled`, `NoHoldAfterStart`, `RenewingAfterRelease`,
`MayClaimUnasked`, ...), under which the run fails.

## Findings

`bulk_race`: `_start_bulk_run` (`api/vms.py`) reads `busy_vmids` before the preflight
and registers the run after it without looking again. The preflight talks to the
cluster. Two requests made in that time both find a guest free and both
migrate it, where the second should skip it with "Another bulk migration moves
it already" (`tests/test_bulk_migrate_runs_952.py`).

`console_zombie`: `startVNC` (`node_modals.js`) looks at `cancelled` behind the ticket
and behind the noVNC script, but not behind the await of `connectVnc`. A console
in stable mode that is closed in that time connects all the same, and no cleanup
comes for it any more.

**Further disagreements.** Each of these properties is defined in its module next
to the others, and TLC refutes it with the constants given. They have no run of
their own.

| property | what the code does |
|---|---|
| `VncSocket.NoMessageAfterClose` | The close listener dispatches `close` while received frames are still links of `_recvChain`; their `message` events come after it (`vnc_secure_socket.js:123`; line 17: "looks like a normal WebSocket from noVNC's perspective"). Constants as in `vnc_transports`. |
| `VncPoll.GuestTakesInOrder` | Two frames that are decrypted wait for `_pve_io_lock`, which lets them in in any order: the guest may get the second first (`vnc_polling.py:220`). As in `vnc_transports`. |
| `VncPoll.NothingBehindAFailedWrite` | `send` looks at `_closed` (`vnc_polling.py:210`), decrypts, and waits for `_pve_io_lock` without looking again. When the write of one frame fails, its lock is free before `stop()` runs, and a frame that was decrypted meanwhile is written behind it (line 112: "nothing may be written after it"). As in `vnc_transports`. |
| `VncPoll.SendRefusedOnlyAfterALoss` | `send` takes a number and posts without waiting for the send before it; the server refuses all but the next number, and every later frame of a healthy stream (`vnc_secure_socket.js:422`; line 238). As in `vnc_transports`, `MayLose = FALSE`. |
| `VncPoll.TunnelStoppedWithSession` | `_pump_loop` marks the session closed and `stop()` then returns at once: the tunnel stays up (`vnc_polling.py:244`; `vnc_tunnel.py:266`: "Caller MUST call .stop()"). As in `vnc_transports`. |
| `VncConsole.OneSessionPerConsole` | The timer of `connectVnc` closes the WebSocket and falls back, and its close event falls back again: two tickets of one guest. As in `console_zombie`. |
| `VncConsole.ConnectResolves` | A fallback without a handle returns without a word; the promise of `connectVnc` never settles. As in `console_zombie`. |
| `LiveUpdates.NoStreamBehindTheCleanup` | `connectSSE` looks at `isClosing` before it awaits its token and not behind it: a token that comes after the cleanup opens a stream that nobody closes (`dashboard.js:16509`). As in `live_stream`. |
| `LiveUpdates.DisconnectedReconnects` | When the first token request fails there is no stream that could look closed and no message that could be old: the health check never fires. As in `live_stream`. |
| `TaskList.PollNeverGoesBack` | A poll that joins a request under way is younger than that request: its old answer passes the check and takes the list back. As in `dashboard`. |
| `TaskList.HostListCatchesUp` | `fetchTasks` drops every answer that is not for the selected cluster; a Hyper-V host is selected without one, so its polls never fill the list. As in `dashboard_poll`, with a host. |
| `VmList.EveryFailureRestored` | A guest is shut down and started again before the first is answered. The start remembers the status the shutdown had flipped, and its `unflip` takes the mark away; both refused, the row stays at "stopped", and the list that is read next equals the last one and repaints nothing (`dashboard.js:19819`; line 19815: "a failed action puts the old status back itself"). As in `dashboard`. |
| `VmList.SkippedFrameIsANoOp` | Frames are compared with `window.pegaproxVmList`, but a click writes only what is shown: after an action that changes nothing the row stays wrong. As in `dashboard`. |
| `ClusterView.AlertsOfTheSelected` | `fetchHAStatus` starts from the alerts of the render of the switch, those of the cluster before, and writes them back. As in `dashboard_poll`. |
| `ClusterView.StatusOfTheSelected` | `reloadHaStatus` compares the selected cluster before it awaits the body. As in `dashboard`. |
| `ClusterView.SaveWritesOwnFlag` | `reloadHaStatus` compares the selected cluster before it awaits the body (`dashboard.js:16267`). A body that comes behind a switch replaces the status under the settings of the other cluster, and Save writes `unsafe_two_node_recovery` as that status has it (line 16204, of `fetchHAStatus`, which compares behind the body: "the HA settings would show it and write to the other"). As in `dashboard`. |
| `ClusterView.OwnNodeAlerted` | The interval starts from the alerts of the render of the switch, those of the cluster before, and adds one only where the name has none (`dashboard.js:16235`). Where both clusters have a node of one name, the offline node gets none of its own, and the banner, which filters by `cluster_id`, shows nothing (line 16228: "Include cluster_id to filter correctly!"). As in `dashboard_poll`. |
| `AuthSession.OwnCodeMeansLost` | The map of the GETs under way is one of the page (`dashboard.js:13056`). After a logout and a login the new dashboard joins a GET of the old one and takes its 401 for its own: the overlay of a lost session covers a live one (line 13936: "only a 401 with one of PegaProx's own codes means the session is gone"). As in `auth`. |
| `AuthSession.PageShowsOwner` without its condition | A login that is finished while the callback of a single sign-on is under way, and whose page shows its user, runs under the cookie of the callback from its headers to the reload, and for good if its body is lost (`auth.js:38`). As in `auth`. |

## Proofs

Every safety property of a passing run is proved, with an inductive invariant that
is stronger than it; the last paragraph says what stays with TLC.

### The HA group

Proved for every set of data voters and witnesses, every
lease length and margin, every clock that stays within 10% of true time and
every value of the bounds. The assumptions are the ones `HaLease` names: finitely
many voters, a lease longer than its margin (`PerRound > 0`), a hold of a winner
at least as long as a promise (`WonHold >= P`), and `Rates` within `9..11`.

| theorem | module | says |
|---|---|---|
| `TypeCorrect` | `HaLeaseProofs` | `TypeOK` |
| `ElectionCorrect` | `HaElectionProofs` | `ElectionInv`, inductive |
| `OneWinner` | `HaElectionProofs` | `OneLeaderPerTerm` |
| `VotesOnDisk` | `HaElectionProofs` | `VotesMoveToTheWinner` |
| `LeaseCorrect` | `HaExclusionProofs` | `LeaseInv`, inductive on top of `ElectionInv` |
| `OneLease` | `HaExclusionProofs` | `LeaseExclusive`, if `Forgetful = {}` |
| `LeasesOutlived` | `HaExclusionProofs` | `NoWinUnderALease`, if `Forgetful = {}` |
| `HandOverStops` | `HaExclusionProofs` | `HandedOnStops` |
| `Implements` | `HaExclusionProofs` | `LeaderSpec`, if `Forgetful = {}` |
| `OneActing` | `HaExclusionProofs` | `ActingExclusive`, if `LateAnswers = FALSE`; for every `Forgetful` |

`Forgetful = {}` says that every start is followed by its hold, as `Node.__init__`
has it. A voter that lost its promise all the same is what the takeover wait is for
("even if a voter forgot its promise", `ha_vote.py`): leases may then overlap, and
`OneActing` says that the acting intervals still do not.

**Types.** Inductive only together with two facts `TypeOK` includes: a witness
never leads or campaigns (`WitnessesFollow`), and a term that is handed on goes to
a data voter and leaves room for the next epoch (`TransfersNamed`). One lemma per
action, and one for `Forget`, which every action that ends a process shares.

**One winner per term.** `OneLeaderPerTerm` alone is not inductive: nothing in it
speaks of votes on their way. `GrantInv` says that a vote that counts is kept by
its voter until the term is won or a later one comes; `DisjointInv` that two
open campaigns of one term, or an open one and a won one, share no voter;
`WonInv` that who voted for a winner never votes against it in its term. Two
majorities share a voter (`QuorumsMeet`), so a second win would need a vote given
twice. `StepKinds` reduces the 23 actions of a member to the five ways in which
a step moves votes.

**One lease.** `BackedInv` says that a lease rests on a majority that protects
it to its end: each of them is promised to the leader, or holds after its start,
for at least 11/9 of what is left of the lease. That factor is what a tick keeps:
a leader's clock runs at least 9 while a voter's runs at most 11
(`TickedProtection`). To get there through `Majority`, `AckedInv` says the same of
everybody who answered a round that is still open, or that a later term was won
without them, in which case the round can no longer reach a majority. No rule lets a protecting
voter into a later term except an allowance, and `AllowInv` says that an
allowance means the leader wrote its hand-over down, after which `ReleasedInv`
says it has no lease (`Shielded`, `GrantShielded`, `KeepsProtection`). `OwnTermInv`,
`StagesInv` and `RoundInv` say what a process and its rounds know of themselves;
they are proved first, since `OthersUntouched` lets each be proved for one member
at a time. `OneLease` follows: two holders are both under no later win, so they
lead the same term, which has one winner.

**The abstract leader.** The holder of a lease is the winner of the newest term
(`HolderWon`), so every step that wins no term is `Gain`, `Lapse` or a stutter of
`HaLeader`. A step that wins a newer term finds no holder before or after
(`WinImplements`); one that wins an older term changes nothing.

**One acting instance.** `OneActing` uses no promise and no hold. A win comes at
most `T_vote` after its campaign began, so the wait the winner writes down outlasts,
on any two clocks within 10%, every lease and every open round there is
(`Outwaits`: `11 x <= 9 take`; `LaterWinUnanswered`). A round that starts later cannot end well: whoever voted for the winner
is in the later epoch and answers it no more (`TakeoverOK`). Who acts, or is about to, waited at
least as long as its disk says (`WaitOK`), over a restart and a reboot. So two who act lead one
term, which has one winner. A vote that is counted after `T_vote` breaks the first
sentence; that is why the theorem, like the run, leaves it out.

### Bulk migrations

Proved for every finite set of runs and guests, every width and every limit of the
registry (`RunsAssumption`).

| theorem | says |
|---|---|
| `BulkTypes` | `TypeOK` |
| `BulkCorrect` | `BulkInv`, inductive |
| `WidthIsKept` | `WidthKept` |
| `RunsLeaveNothingOpen` | `NothingLeftOpen` |
| `NotStartedMeansNotAsked` | `NotStartedNeverAsked` |
| `RegistryIsBounded` | `RegistryBounded` |
| `CancelStopsClaims` | `NoClaimAfterCancel` |

None of the four properties is inductive: a row says `migrating` from the claim on,
Proxmox is asked one step later, and an exception may come in between. `AloftInv`
says that what is in flight is what the rows say, up to that one guest, and
`RoomInv` that the claim left room for it. A step moves one run
(`OthersUntouched`), so each part is proved for one run. The registry is bounded by
the look under the lock in `Register`, whatever its `Plan` saw.

### Consoles and their transports

`VncTransportProofs`, for every length of the streams and every space of sequence
numbers with more than one number (`TransportAssumption`):

| theorem | says |
|---|---|
| `SocketCorrect` | `SocketInv`, inductive |
| `StreamDeliveredInOrder`, `StreamHoldsIfHealthy` | `DeliveredInOrder`, `HealthyStreamHolds` |
| `StreamTakenInOrder`, `SendHoldsIfHealthy` | `TakenInOrder`, `HealthySendHolds` |
| `PollCorrect` | `PollInv`, inductive |
| `PollingKeepsBoth`, `NoChunkIsLost` | `PollingKeepsStream`, `ChunksAccounted` |
| `ClosesOnce` | `OneCloseEvent` |

A frame carries the number of its payload modulo `SeqSpace`, and each end counts
what it took modulo the same. `DownInv` and `WireUpInv` say that chain and wire
continue what was taken without a gap; upwards one payload may be missing, the one whose
encrypt failed, and a gap of one is told from the next number because the space
has two. Over HTTP, the buffer of the session continues the answer on its way, and
the answer what was delivered (`FlowInv`), until an answer is lost. Upwards
`AcceptedAccounted` says where each accepted payload is; the order of the writes is free, as the
findings show, and so nothing is said of it.

`VncConsoleProofs`, for any number of runs, retries and stable consoles
(`ConsoleAssumption`):

| theorem | says |
|---|---|
| `ConsoleCorrect` | `ConsoleInv`, inductive |
| `PlainConsolesClose` | `PlainLeavesNothing` |
| `RefIsInFront` | `RefIsTheCurrentRun` |
| `RefusalEndsTries` | `AuthFailureEnds` |
| `CleanedUpRunsStop` | `CancelledAsksNoTicket` |

Only the run in front is not cancelled (`RunsFit`); a connection of a plain console
is therefore of the run in front, and `rfbRef` names it when the cleanup comes (`PlainFits`).
`ConnFits` bounds the handles and sockets one `connectVnc` has by the fallbacks
its WebSocket may have started by then; without it the counts have no type.

### The page of a cluster

Proved for every set of clusters, hosts, guests and nodes and every bound on requests, frames,
streams and failures (`PageAssumption`: the bounds are numbers, and a token may be asked for).

| theorem | says |
|---|---|
| `PageTypes` | `TypeOK` |
| `ListHoldsOnlyTheSelected` | `OnlyTheSelected` |
| `LaterPollsGoForward` | `LaterPollNeverGoesBack` |
| `FormIsOwn` | `SaveWritesOwnForm` |
| `ListIsOfTheSelected` | `ListOfTheSelected` |
| `FailuresAreRestored` | `FailedActionRestored` |
| `CleanupBounds` | `CleanupBoundsStreams` |

`PageInv` has a part for each part of the page, and a step of one leaves the others
alone. The hard one is the task list: `CallersInv` says that every caller who
waits shares a request that one caller made, and that what this request is answered with is not behind a list
that was there when it started. `ViewInv` needs that the settings that
are open are those of the selected cluster (`FormInv`), and `RestoreInv` that a marked row
belongs to the one action of its guest that is under way, which remembers what the server
said; with a second action of the guest that is no longer so, and the guest is in `crossed`.

### Sign-in

Proved for every set of users and every number of sessions and requests
(`SignInAssumption`).

| theorem | says |
|---|---|
| `SignInCorrect` | `AuthInv`, inductive |
| `SignOnIsUndisturbed` | `CallbackUndisturbed` |
| `OverlayIsTrue` | `OverlayMeansLost` |
| `PageIsOfTheOwner` | `PageShowsOwner` |

`AuthInv` ties the page to the requests that somebody still waits for (`ScreenFits`):
a check of the session runs alone on a page that loads, a login on a page that shows
nobody, a request of the dashboard under the cookie of the page, unless it was joined
from the dashboard before or a callback put its cookie in between (`mixed`). `CallFits` says that
what an answer said of a session is still so, or the session is gone: a session that
is gone never comes back.

### Only model-checked

Liveness is out of the prover's reach: `RunEnds`, `ReceivedIsDelivered`,
`SentIsTaken`, `SessionLeavesThePool`, `TriesEnd`, `LostSessionSurfaces`,
`ListCatchesUp`, `OfflineNodeAlerted` and `UpdatesComeBack` stay with TLC. So do the
properties that do not hold (findings), which have a counterexample instead of
a proof. `FALSE` for `LateAnswers` and `{}` for `Forgetful` are hypotheses of the theorems that
need them, each for a reason given above.

## Plan

The elections and the leases of a fixed group, bulk migrations and the core of
the web interface are modelled, checked and proved. What is left, in this order:

1. `HaFreshness`: config versions, floors and the snapshot a standby pulls; a
   winner holds everything a majority acknowledged.
2. `HaConfig`: the chain of voter configs, one change at a time; the pure
   functions `newer_chain`, `chain_after`, `floor_of` and `catchup_source`
   against reference definitions.
3. `HaConfirm`: the waiters of `confirm`, with liveness.
4. `HaSwitch`: from manual to automatic and back.
5. `HaStream`: `take_stream` against the set of nonces taken so far.
6. `RollingRun` and `BatchRestore`, then the plan holding of site recovery, the
   SSH pool and the recovery journal.
7. Manual leadership and `Force leader`.
8. The takeover wait with votes that are counted after `T_vote`: two instances act
   together for at most a tick; and the promises of the other components as abstract
   specifications of their own (a stream in order, a list of one cluster), as
   `HaLeader` is one for `HaLease`.
9. Composition of `HaLeader` with a worker: what `is_active()` read at the top
   of a loop still says when the call to Proxmox goes out.

## Not modelled

The contents of messages beyond what the rules read, signatures, storage
formats, the hypervisors themselves. Of the web interface the texts (a third of
its lines), the icons, the layout and the forms, which keep their fields until they
are sent: there is no state in them that a second actor moves. Components without
a module are listed in `PROJECT.json` with the reason.
