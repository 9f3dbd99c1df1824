# A TLA+ model of remote-dsh

remote-dsh makes a `dsh web` that runs on some machine reachable from a
browser: the browser talks to **rdsh-hub**, the hub talks through one WebSocket
**tunnel** to an **rdsh-gateway** on the machine, and the gateway talks to the
local `dsh web`. This directory holds TLA+ modules for the parts of the system
in which order, failure and concurrency decide, the TLC configurations that
check them on small instances, and proofs for TLAPS.

All paths below are relative to `src/packages/`.

## 1. Inventory

| Component | State it keeps | Operations | Interacts with |
|---|---|---|---|
| Tunnel, gateway end (`gateway/src/join.ts`) | state reported by `onState`, `currentClient`, one-shot `redirectTarget`, reconnection delay, timers | dial, follow a 307, classify refusals, reconnect, give way to a new lock holder, stop | hub endpoint, join lock, usage reporter, dispatchers |
| Tunnel, hub end (`hub/src/server.ts` handleTunnelUpgrade, `hub/src/tunnel.ts`) | `TunnelRegistry` (host -> connection), per connection the stream table and timers | look the token up, assign a node, register (and terminate the predecessor), unregister, push `host.online` / `host.offline` | stores, portal events, relay nodes |
| Heartbeat (both ends) | interval timer, deadline | PING, PONG, terminate | the connection |
| Stream multiplexer (`hub/src/relay.ts`, `hub/src/tunnel.ts`, dispatchers of `join.ts`) | hub: stream id -> handler; gateway: httpStreams, wsStreams, gatedHttp, rawStreams | OPEN, DATA, CLOSE, ERROR, abort, cleanup | browsers, `dsh web`, the tunnel |
| Frame codec (`tunnel/src/frame.ts`, `portal/src/e2ee-frame.ts`) | parser buffer | encode, push | both ends of the tunnel and of the inner channel |
| Join lock (`gateway/src/lock.ts`, `lock-report.ts`) | `~/.rdsh/join.lock`, `heldPaths` of each process | acquire, reap, release, forced unlock | gateway processes, plugin |
| Usage reporter (`join.ts` UsageReporter, `usage.ts`) | meter of the day, request in flight, `pendingFlush` | count, flush, change of hub, stop | hub |
| Gateway process (`gateway/src/serve.ts`, `spawn-dsh.ts`, `join()`) | the child dsh, `shuttingDown`, handlers installed so far | spawn, wait for the port, exchange, listen, watchdog, shutdown | dsh, supervisor, hub |
| Doors of the gateway (`server.ts`, `auth.ts`, `gate.ts`, `session.ts`, `access-gate.ts`) | users and version of the configuration, cookies, failure counters | login, access code, reload, unlock | `rdsh user`, `rdsh gate`, browsers |
| Script of end-to-end encryption (`hub/src/e2ee-shim.ts`) and the gateway's inner dispatcher | channel, nonce counters, handlers by stream | fetch, abort, seal, open, fail | page, tunnel |
| Plugin (`web-remote/src/index.ts`) and panel (`client.js`) | one JoinHandle, one reporter, direct listener, `host.json`, `bindSession` | connect, disconnect, revoke, access code, scan, teardown | gateway library, hub, panel |
| Usage accumulator (`hub/src/relay-usage.ts`) | rows of the day, dirty set, pending rows | add relayed bytes, take reports, flush | credits, `usage_daily` |
| Credit ledger (`hub/src/pg-store/credits.ts`, `hub/src/credits.ts`) | three balances, holds, watermarks, ledger keys | reserve, settle, release, charge relay and voice, post payments, renew, clear | LLM and voice routers, billing, accumulator |
| Billing (`hub/src/api.ts`, `billing/unicpay.ts`) | orders, payments, subscriptions, plan of the user | checkout, webhook events, verification, store receipts, refunds, sweep | payment platform, credits, tunnels |
| Presence and nodes (`hub/src/presence.ts`, `nodes.ts`) | host -> node with a time, node table, assignment | register, heartbeat, host events, sync, leave, assign, enable, disable | relay nodes, tunnels |
| Accounts and sessions (`hub/src/auth.ts`, `api.ts`, `admin.ts`, `serve.ts`) | users, refresh tokens, codes, lockouts, cache of users | register, verify, login, second factor, refresh, password, ban, delete | portal, command line |
| Login methods (`hub/src/api.ts`, `apple-login.ts`) | identities of an account, one-time tickets | authorize, callback, confirm, bind, unbind | WeChat, Apple, app |
| Hosts (`hub/src/api.ts`, `pg-store/hosts.ts`) | hosts, bind sessions, join tokens, shares, host keys | bind, approve, consume, register, revoke, remove, share, purge | plugin, tunnels, accounts |
| Routers for LLM and voice (`hub/src/internal-llm.ts`, `internal-voice.ts`, `llm-upstream-keys.ts`) | routers, join and service tokens, upstream keys, sticky choice | join, approve, disable, delete, configure, report | credits, administrators |
| Schema upgrade (`hub/src/db.ts`, `pg.ts`) | tables, `schema_migrations` | create, add columns, rebuild; lock, apply, record | every start of a hub |
| Portal (`portal/src/api.ts`, `pages.tsx`) | cookies shared by tabs, rows on screen, orders being paid | refresh, list, act, subscribe, recharge | hub |
| Command lines (`cli`, `hub-cli`) | none of their own | write the same files and tables as running processes | gateway, hub |

### What is hard

* **Interleaving in one process.** JavaScript runs a handler up to its next
  `await`. Between two awaits of one handler run close callbacks, other
  requests, timers. Nearly every handler of the hub reads, decides and writes in
  statements of their own; the plugin's functions share variables and a file
  without a lock; a page has several answers outstanding.
* **Several processes.** Gateways of one machine share only a lock file; a hub
  on PostgreSQL has many connections at READ COMMITTED; the command lines write
  what other processes hold in memory; tabs share cookies.
* **Connections that die without a word**, in one direction or both, or in the
  middle of a handshake or a frame, and close callbacks that come after the
  successor.
* **Repetition and reordering.** Cumulative usage reports, webhooks, settlements,
  releases, polls and list answers come twice, late and out of order.
* **Crashes** between two system calls on the lock file, two statements of an
  upgrade or of a handler, and of a child process at any step of the start.
* **Days and deadlines**: midnight between two awaits, timers armed before the
  reply to another request.

### What has to be true

* At most one live tunnel of a host is registered; portal and registry agree
  with it; a revoked host loses its tunnel and stays out; a gateway that may
  run gets its tunnel back and stops for good only when told so by the hub.
* A dead link is noticed in bounded time, a live one is never given up.
* No byte of one browser reaches another; frames arrive as sent; what nobody
  wants is released, what somebody wants is not; failures look like failures.
* One machine has one gateway; a dead process does not keep the next one out; a
  gateway that ends takes its dsh with it.
* Money: the books balance, nothing is charged, posted or delivered twice, holds
  are covered, bonus buckets do not go into debt, refunds are taken back.
* Usage: nothing is lost, nothing is counted twice, nothing is shown unpaid.
* Accounts: an old password or token opens nothing, guesses are bounded, a ban
  holds, a way in remains, and the cache follows the table.
* Hosts are where the directory says; a bind session makes one host.
* What the panel and the portal show and do is true of what the hub has.

## 2. Plan

| Step | Modules | Run | State |
|---|---|---|---|
| 1 | `Tunnel`, `TunnelProofs` | `tunnel`, `tunnel_revoke_race` | checked, safety proved |
| 2 | `Heartbeat`, `MachineProofs` | `machine` | checked, proved |
| 3 | `JoinLock` (the lock of `Tunnel` in system calls), `MachineProofs` | `machine` | checked, safety proved |
| 4 | `StreamMux`, `StreamMuxProofs` | `mux_safe`, `mux_raw` | checked, safety proved |
| 5 | `Frames` (the bytes under the tunnel) | `machine` | checked |
| 6 | `UsageReporter`, `Launcher`, `MachineProofs` | `machine` | checked, the safety of a stop (`UsageReporter`) and of every end (`Launcher`) proved |
| 7 | `Ledger` (abstract), `Credits` (implements it), `CreditsProofs` | `money`, `credits_all` | checked, safety and the refinement proved |
| 8 | `RelayUsage`, `HubProofs` | `usage`, `usage_midnight` | checked, safety proved |
| 9 | `AccountStore`, `Accounts`, `Identities`, `AccountsProofs` | `accounts` | checked, safety proved |
| 10 | `Directory`, `Hosts`, `HubProofs` | `hub` | checked, `HostsConsistent` proved |
| 11 | `Billing`, `HubProofs` | `money` | checked, proved |
| 12 | `Doors`, `PortalTabs`, `Migration`, `Routers`, `PayPages`, `PanelScan`, `ServicesProofs` | `services` | checked, proved |
| 13 | `Shim`, `PortalTables`, `PagesProofs` | `services` | checked, proved |
| 14 | `Plugin`, `PagesProofs` | `services` | checked, proved |

The plan is done. The properties without a theorem are liveness, speak of a
recursive function, or sum over all days (section 4).

Each module has its parameters as CONSTANTS with a named assumption, one action
per handler or step, and no RECURSIVE operator, so that it can be proved about.

## 3. The modules

An `XMC` module extends what it checks and adds what only TLC needs: symmetry,
scenarios, the composition of parts. An `XProofs` module holds theorems.
Definitions introduced by a comment "Mutant:" or "(a form ...)" are faulty
variants of the definition they name; no behaviour uses them. They document
which mistake each property would reveal.

**Composition.** `Identities` extends `Accounts`, which extends `AccountStore`:
their requests meet in the same rows. `Credits` implements `Ledger`. Modules whose
components share no state are checked in one run for economy, with a variable
`part` (`MachineMC`, `ServicesMC`) or with one of the scenarios on (`HubMC`,
`MoneyMC`): one part is at work in each behaviour and the others stay in an initial state, so the
state space is the sum of theirs and not the product, and no behaviour of a part
is lost.

**Scenarios.** `Accounts`, `Hosts`, `Directory` and `Billing` have many operations;
all of them at once exceed what TLC can visit. A scenario (a record that the
initial state chooses and no step changes) says which operations may be called
and how often. Each brings together the operations that touch the same rows; every
operation is in at least one.

**Deadlock** is not checked in `tunnel`, `mux_*`, `accounts`, `hub`, `money`,
`machine` and `services`: the operations of people are bounded there, and when they
are used up and everything has settled nobody has to do anything. It is checked in
`credits_all` and `usage*`, where a step that nobody can take would be a deadlock of
transactions or a flush that never returns.

### Tunnel (run `tunnel`, 176,233 states)

*State and actions.* `gs`, `cur`, `redir` are the variables of `startJoin`:
reported state, `currentClient`, `redirectTarget`. A connection is a slot with
the view of either end (`ga`, `ha`), the answer to its handshake and the reason
for which it was refused. `registry` and `event` are the hub's entry for the
host and the last event pushed to the portal; `lock` is the pid in the lock
file. `Dial`, `GwOpen`, `GwUnexpected`, `GwRedirectFrame`, `GwDeadline`,
`GwClose`, `Stop`, `Crash`, `Restart`, `ForceUnlock` are the gateway's handlers;
`HubLookup`, `HubAssign`, `HubClearNode`, `HubUpgrade` are the parts of
`handleTunnelUpgrade` between its awaits; `HubClose`, `HubError`, `HubDeadline`
the events of `TunnelConn`; `RevokeRecord`/`RevokeDrop`, `AdminKick`/`AdminRecord`
and `CliRevoke` the three ways to revoke; `HubRestart`, `NodeFlip`, `NodeMark`
and the loss of links and requests the environment.

*What it shows.* The registry follows the live tunnel through replacements and
late close callbacks; only the hub's own code stops a gateway for good; a gateway
that is not running holds nothing; a host locked out stays out; a lock holder gets
a working tunnel again or is shut down; a takeover settles. Two gateways and two
slots, all three revocations, a node, `Follow` through nodes that die or refuse;
two is enough for a connection and its successor, and the safety part is proved for
any number. `HandshakeLoss` is off in the run, and `TakeoverSettles` excuses relay
nodes: section 5 says why. `MaxFaults` bounds what people and the network do at
will. `NamesInOrder` of `TunnelMC` leaves out behaviours that differ only in which
gateway starts first and which slot the first connection gets.
`tunnel_revoke_race` is a finding.

*Fairness.* Weak fairness of each gateway's and each connection's own steps
(timers, socket events, awaited queries, all of which come), of the sweep that
marks nodes, and of the second half of a revocation. Faults, operators and
redirect frames are never owed.

### StreamMux (runs `mux_safe`, 861,917 states, and `mux_raw`, 951,811)

`req` is the hub's side of each request and what its browser sees, `tab` the
gateway's tables, `up` the request to `dsh web`, `toG` and `toH` the frames in
flight. `Open`, `Body`, `BodyEnd`, `Abort` come from browsers, `UpHead`,
`UpData`, `UpEnd`, `UpFail` from `dsh web`; `HubRecv` and `GwRecv` take one
frame through `handleFrame` and the dispatchers; `Break`, `GwNotices`,
`HubNotices`, `Reconnect` are the life of the tunnel. Stream ids begin at 1 with
each tunnel, as in the code. Body data is one frame; `MaxQueue` bounds how many
are on their way when more is sent.

`mux_safe` (two requests, two tunnels, plain, gated and WebSocket requests) checks
that an upstream request lives exactly as long as somebody wants it and its entry
with it (`UpstreamIffWanted`), that no frame of one request reaches another, and
that a failure before the head is seen as one; `mux_raw` (raw and plain streams in
one tunnel) that a browser that waits hears of the end of its request. Two requests
are enough for one to meet the other's id, entry or upstream; two tunnels for ids to
repeat. Raw streams over two tunnels are left out of `mux_safe`, and a buffered
response that breaks off (`"cut"`) out of `FailureIsAnError`: section 5 says why.
*Fairness*: frames arrive while the connection lasts and both ends notice its
loss; browsers, `dsh web` and the network owe nothing.

### MachineMC (run `machine`, 354,484 states): what one gateway machine runs

* **Heartbeat.** The timers of one connection in discrete time, on both sides:
  `beat`, `deadline`, frames with the time they have left. What is due happens
  before time goes on, in any order. `Cut` makes one or both directions dead. A
  heartbeat of 3 below a timeout of 7 with a delay of 3: the deadline of an earlier
  PING is still armed when the next one is sent, once or twice; the proportion of the
  defaults (30 s and 10 s) is the easier case, and the theorems hold for both. All
  phases of the two heartbeats are initial states; time needs no bound.
* **JoinLock.** One step per file system call; `file` carries pid, inode, whether
  its content is complete and fresh, and which incarnation of the pid wrote it.
  `Link` or `Create`/`Write` publish, `Read`, `Snapshot`, `Compare`, `Delete` reap,
  `Release`/`ReleaseFile` give back, `ForceUnlock`/`Probe` are the forced unlock
  with the narrow gate (autoConnect) or the wide one (panel). Processes die at any
  call (`Crash`), and their ids go to another rdsh or to another program (`Reuse`).
  The run has two processes on both kinds of file system, the narrow gate, two
  deaths, and pids that another program takes. Two processes are enough for each
  race of a publisher with a reaper; a third that died makes two reapers possible,
  which is the flaw of section 5. *Fairness*: a process that has begun a call goes
  on; the clock goes on.
* **UsageReporter.** `count` and `meterDay` are the meter, `req` the request that
  the flush in flight waits for, `again` is `pendingFlush`, `patience`
  `inFlightTimeoutMs`. `Flush`, `Stop` and `SetTarget` are the methods, `Answer` the
  end of a request (well, with an error status that nobody looks at, or by timeout),
  `Deliver` its arrival at the hub, which keeps a maximum. Three bytes and three
  flushes are enough for a count that grows during a report, one that was reset,
  and a flush that finds two others. *Fairness*: every request ends, by its timeout
  at the latest.
* **Launcher.** `stage` goes through the steps of `serve()` or `join()`; `dsh` is
  the child; `exit` what a signal, a rejection, the watchdog or an error has begun.
  Every step of the start can fail, dsh can die and a signal can come at any of
  them. `EndsClean`: a shutdown that has begun ends, and nobody leaves a dsh behind
  but for the three causes named in the module, each of which the code has.
  *Fairness*: a killed child dies and callbacks of close come; dsh owes nothing.
* **Frames.** `sent` are the frames of a connection, `wire` their bytes, taken in
  any pieces by one of the four readers. A header has one cell for each field, so
  that magic, version, a length beyond the limit and a magic inside a payload are all
  distinguished. Two connections, two frames, one forged one.

The liveness properties of `machine` are stated of all behaviours: in those where
another part is at work their antecedents are false.

### Ledger, Credits, Billing (runs `money`, 532,847 states, and `credits_all`, 267,828)

`Credits` is the account of one user under several workers, each in a transaction
at READ COMMITTED: a step is a statement that reads what others can change, or the
locked rest of a transaction. Row locks follow from where the workers stand
(`pc`). `Reserve`, `Settle`, `Release`, `Expire`/`Sweep`, `Relay` and `Voice`
charges with watermark, `Post` (recharges and refunds), `Renew` (carry-over and
bonus), `Clear` are the functions of `pg-store/credits.ts` and `credits.ts`.
Spending takes current bonus, then carried, then purchased credits.

`Ledger` is the same account with every operation one atomic step, translated from
the synchronous methods of `hub/src/db.ts` (SAVEPOINT to RELEASE). `ActsLikeLedger`
says that Credits implements it, with the account's variables as they are and
transactions under way not yet happened; it implies that holds end once, that
payments are posted once and that holds granted are covered.

`money` checks that, `NoDoubleCharge` and `BonusNotOverdrawn` with two
requests, a relay, a recharge and its refund; `Overdraft` is as wide there as
relays can go, because the overdraft floor itself is passed by two hosts (section
5). `credits_all` has every operation beside every other, also voice, renewal and
clearing: the books balance and every call ends, although rows are locked in
sequence. *Fairness*: lock waits are served in turn (strong fairness of a worker's
progress), as PostgreSQL does; no `lock_timeout` is needed. Two workers suffice for
lost updates and double posting; amounts of 1 and 2 for partial spending of every
bucket.

`Billing` holds orders, payments, receipts, subscriptions and the user's plan. A
handler of the hub (an order, a webhook event, a verification, an administrator's
adjustment, `SweepBilling`) is a call with a step per await. `PaymentsExact`: goods
are delivered once and only if paid, through webhook, verification and store receipts
in any order; refunds that were acknowledged are taken back. `SubscriptionAdvances`:
a revoked subscription stays so and its end never moves back. The platform delivers
at least once and in any order; `excused` and `stale` mark the races of section 5.
One order of each kind, two calls in flight, a clock of two periods.

### RelayUsage (run `usage`, 512,223 states)

`rows`, `dirty`, `pending` are the fields of the accumulator; flushes have a
batch, charge its relay rows one by one, upsert it in one statement and clear.
`UsageKept` joins four things: no byte is lost, none is shown before it is
charged, none is invented, and what a day had is stored after it. Two flushes that
overlap and may fail, relayed bytes and reports that repeat and come late, two
days. `CalmMidnight` says whether the day changes only between flushes; without it
a flush can clear rows that rolled over behind it, which is the finding
`usage_midnight`. *Fairness*: the timer comes and queries end.

### AccountStore, Accounts, Identities (run `accounts`, 292,212 states)

A request is a row of `req`: it reads, decides, and then runs a list of awaited
statements (`todo`), each of which `AccountStore` translates; before that, requests
of `Identities` exchange a code with WeChat or Apple. What was read stays in `row`
until it is used, however old it is by then. `cache` is the map that
`authenticate` looks up; every mutation re-reads its row (`Reread`) and sets it in
a later step (`SetCache`), the reload reads all rows and sets them one step later.
Three users (a member, an administrator, a free place), one address each of e-mail,
phone, WeChat and Apple, three refresh tokens, one code of each purpose. Passwords
and tokens carry the version of the account they were made at, so that `SecretsHold`
can say that a refresh token from before a change of the password is dead when the
handler has ended, and that attempts at codes and passwords are bounded by the
limits plus the requests in flight. `lockedTries` counts the passwords that are compared
while the account is locked, from the lock until whatever ends it. A hub that dies
between the count that reaches the threshold and the lock leaves an account open for as
many more as there are requests, so failed logins are bounded by
`LockThreshold - 1 + Cardinality(Reqs) * (1 + crashes)`. `AccountKept`: a ban ends only by an unban or by
a verification that had read the row before; the last way in does not go except by
two unbindings that counted beside each other. `CacheConverges`: in the end the
cache equals the table. *Fairness*: a request's statements come to their end, the
timer reloads; requests are not owed.

### Directory, Hosts (run `hub`, 246,968 states)

* **Directory.** `home` is the assignment in the hosts table, `byHost` the
  directory of presence with its age, `link` where the tunnel really is, `node`
  the rows and `up` the processes of relay nodes. Handlers are requests in flight
  with a step per await. `DirectoryConverges`: when faults cease, every host's
  directory entry and route lead to where its tunnel is, or nowhere when it has
  none. `stray` marks the hosts for which a late request took the assignment
  away (section 5). *Fairness*: handlers end, gateways dial again and nodes that
  run beat again (strongly, as both compete for the two calls), sweeps come.
* **Hosts.** `HostsConsistent`: whoever consumes a session is told one host and
  every host made of it was told, at most one unless two consumers overlapped or
  the hub died between the two statements (`twice`); a host has at most one key and
  none after its revocation unless it was made meanwhile (`late`).

One host, two nodes, two owners, two calls in flight: two calls are enough for a
read before and a write after another's.

### ServicesMC (run `services`, 1,343,003 states)

* **Plugin.** Two calls under way, each with the synchronisation of the direct
  listener it started, over `tunnel`, `port`, `live`, `file` and the token.
  `CallsSettle`: after the teardown nothing runs; the file never says join without a
  token; and when all calls have come to an end, file, tunnel, listener and panel
  have the code set last. `excuse` records three situations in which the code goes
  wrong (module header, section 5).
* **PanelScan.** Panel, plugin and hub over a scan code with polls that overlap.
  A code can be renewed while it is shown, also twice at once. `ScanEndsWell`: one
  host for a session, a code called expired only when it is, no host without its
  token, and a code that is shown is the one the plugin asks about. The run has two
  codes; three and more are covered by the proof only.
* **Doors.** The password door and the access code with three limiters. `DoorsHold`:
  when the gateway has reloaded, no cookie of an old password opens; wrong answers
  are bounded. `flaw` records five situations of section 5.
* **Shim.** Two fetches, two channels, sealing and opening in steps of their own.
  `ChannelHolds`: what a page is told to be whole is whole, it is told the end
  (unless it was aborted before the head), and no nonce seals two frames. `Serial`
  = TRUE assumes that a browser ends decryptions in the order it began them; the
  code relies on it, and with FALSE the property is violated.
* **PortalTabs.** Two tabs and two calls over shared cookies. `LoginOnlyWhenEnded`:
  no tab goes to the login page while the session lives, except for the two cases
  of section 5.
* **PortalTables.** Eighteen pages of the portal as one program in several shapes
  (`Shapes` says which has filters, a delay, actions, dialogs, a socket). `TableShown`:
  rows that a settled page shows are of the filter it shows and include every change
  it was told it made; overtaken answers are the exception.
* **PayPages.** Orders, the two clocks that look for a payment, and cancelled
  dialogs. `PaidIsPaid`: "paid" is said of orders that are, once each.
* **Migration.** The SQLite upgrade statement by statement with deaths, and
  `migratePg` in two processes. `UpgradeKeepsAll`: a hub that is up has the whole
  schema and every row; files are committed once, in order, with their record.
* **Routers.** Join tokens, approvals, deletions and key updates as requests of
  single statements. `RetiredOut`: one token makes one router; what was deleted or
  revoked opens nothing for requests begun later.

Two of each actor are enough for one to act between another's read and its write,
and the counters (`MaxCalls`, `MaxLogins`, `MaxTurns`, ...) bound only how often
people act. All nine use the same names for their actors so that one symmetry set
serves; the properties are invariants and symmetry is sound for them. No fairness
is assumed.

## 4. What is proved

TLAPS proves the following for every value of the constants that meets the
named assumption of the module.

* **TunnelProofs.** `TypeCorrect`. `RegistryCorrect`: `RegistryMatchesTunnels`
  and `PortalAgrees` by `HubInv`, which adds `HandshakesAtHub` (a connection in
  one of the hub's handshake steps is not registered): without it the step that
  registers could meet its own entry. `StoppedHoldsNothing` is inductive with
  types. `RejectionIsAuthoritative` by `RefusalInv`: while the token is valid no
  answer says "revoked" and no connection was refused for that reason.
  `NoReconnectAfterRevoke`, an action property: from `LockedOut` no step of
  anybody gets past the token check.
* **MachineProofs**, on `Heartbeat`: `BeatTypes`; `DeadLinkNoticed` by
  `HeartbeatInv`, whose heart is `Watched`: the silence so far and what is left of
  the deadline (or of the heartbeat and the timeout) are together never more than
  allowed. `HalfOpenLinkEnds` adds `ToldInTime`: the side that notices says so, and
  its peer hears it within a delay. `LiveLinkNotKilled` assumes
  `2 * Delay < PongTimeoutMs`, a round trip below the timeout; its invariant
  `Answered` says that for each armed deadline the PING or the PONG that will disarm
  it in time is on its way.
  On `JoinLock`: `LockTypes`; `OneHolder`: with `MaxCrashes = 0` and only
  the narrow gate, `Exclusive` for any number of processes, with and without
  hard links. The invariant `LockInv` says that nobody is about to delete, and
  that a holder's file is its own. The assumption is needed: section 5 says what
  two reapers can do after a crash.
  On `UsageReporter`: `StopsReport`, that a stop which went well has reported what was
  counted before it and that a short one waits for no long request (`StopReports`,
  `StopIsBounded`). What a stop owes (`ReportFits`) is with the hub, or the meter still has it
  for that hub and day and the request in flight, or the round after it, carries it;
  `ChainPatient`: while a short patience is in force so is the request.
  On `Launcher`: `NoOrphans`, the safety part of `EndsClean`, by `LauncherInv`: a
  process that ended while its dsh runs has recorded one of the three causes
  (`OrphansCounted`).
* **StreamMuxProofs.** One invariant, `MuxInv`, for `MuxTypes`, `UpstreamLives`,
  `FramesStayApart` and `FailuresShow`: requests of the current tunnel have ids of
  their own, an entry of a table leads to the upstream of its request, a frame on its
  way belongs to a request of the current tunnel, the OPEN of a request is before
  all its other frames, and whoever has left is forgotten or the CLOSE that does it is
  on its way. All four assume
  that no stream is raw, since for raw streams two of the properties do not hold
  (section 5).
* **CreditsProofs.** `TypeCorrect`; `MetersChargeOnce` by `CreditInv`, which adds
  `CallsOK` (what a call holds fits its operation and its locks exclude others)
  and `ChargesFit` (what a worker is about to charge is below what the watermark
  will say); `HoldsEndOnce`, an action property; `BonusKept`: without the
  operations that use balances read outside the lock (voice, renewals,
  clearing), bonus buckets never go below zero.
  `AccountActsLikeLedger`, the refinement, under the same hypothesis and as long as
  no relay comes near the overdraft floor (`OverdraftFar`; the ledger knows of no
  floor being passed, and the code does pass it, section 5): `RefInv` says that one
  worker at most has the user's row, that it sees it as it is, and that a relay
  charge is all that its report leaves unpaid; each commit is then one step of
  `Ledger`, every other step a stutter. The mapping is
  `L == INSTANCE Ledger WITH ...` in `Credits`.
  `BooksBalance`: `Books` for any number of workers, holds, meters and payments.
  How a sum over a finite set changes with one of its terms is derived from the
  well-founded order of its subsets (`SumsExist`, `SumChanges`, `FoldIsSum`), without
  the library's induction. The theorem assumes that keys of payments and of periods
  differ, as their prefixes do (`apple:`, `refund:`, `bonus_sub:`).
* **HubProofs.** `PaymentsAreExact` by `BillInv`: what each request in flight relies on
  (`CallsKnow`; no step of another takes it away), one request initiates an order and
  one transaction delivers it (`OneEach`), nothing is given before that transaction
  commits (`NothingYet`), and the ledger's entries are what was delivered
  (`EntriesKnow`). It assumes that transactions of a store and orders have different
  keys, as the prefixes of `api.ts:4362` and `4585` make them.
  `SubscriptionsAdvance` is an action property, by `SubsInv`: a subscription of which
  no event has read too early has one row.
  `HostsStayConsistent` by `HostsInv`: the account that was told is the owner of the
  session and of its hosts (`ToldRight`); there is no host while one request is about
  to make it, and none while the session may still be consumed (`OneHost`); a key is
  made when the old ones are gone, and one of a revoked host is about to go (`OneKey`).
  On `RelayUsage`: `UsageInv` for `UsageTypes`, `ShownIsCharged` and
  `NothingInvented`, whatever overlaps and fails. `CalmNightsLoseNothing`:
  `NothingLost` if no flush is running at midnight (`CalmMidnight`), by `FlushHolds`:
  a flush that runs is of today, has all that is pending in its batch, and clears
  only what is displayed. The run
  `usage_midnight` shows that the hypothesis is needed.
* **AccountsProofs.** `AccountsSafe` is the invariant, `AccountInv`. A handler is a list of
  statements between which any other may run, so most of it speaks of lists: `Plan` says
  what may be in one, that a password is never set without the end of the sessions right
  after it (`Paired`), and that a statement has its reason in what its request is and
  has read (`Warranted`: who may set which status, and which methods an unbinding has
  counted). `RequestFits` says which operation is in which step with what row.
  `SecretsAreSafe` then needs what a list owes to the tables. For the sessions it is
  `SessionsEnding`: while a token of an old password is alive, some request has nothing
  but the cache to see to before it ends the sessions of that account. It is stronger
  than `OldSessionsEnd`, which asks only that the statement is somewhere in a list, and
  not inductive itself. For the tries it is the number of requests in flight
  that may still add one: `TriesCounted` adds to the counter of a code the requests about to
  count, `TriesLocked` to `lockedTries` those that compare with a row read before
  the lock, `FailsCounted` bounds the failures by the locks that are about to come and
  the crashes that lost one.
  `AccountsKept` is an action property, by who can write what: a row changes by one
  statement of one request, which is warranted, or by the command line (`RowWrites`,
  `WhoWrites`).
* **ServicesProofs.** `NobodyIsSentAway` (`PortalTabs`): while nothing excuses it, one
  tab at a time exchanges the token of the cookies, and the hub accepts it until it
  has replaced it (`OneExchange`).
  `RetiredStaysOut` (`Routers`): a join token has made one router or one request is
  about to (`OneRouter`), whoever writes to a router found it made (`WritesToMade`),
  and what was answered stays so (`Settles`).
  `UpgradeLosesNothing` (`Migration`): what the transaction of the constructor sees
  before each statement (`UpgradeAt`), and that the holder of the lock has found the
  files before its own recorded (`FilesInv`).
  `DoorsStayShut` (`Doors`): while no flaw is recorded, a cookie of the current version
  was given for a password that still stands, and the gateway knows that version or
  is about to read it (`Kept`); wrong answers are bounded by what the limiter has
  counted and the logins under way (`LimitKept`).
  `ScansEndWell` (`PanelScan`): where no two polls overlap a session is consumed when
  its host is made (`HostForEach`), a host that was made is on its way to the machine
  (`HostsTaken`), and the plugin asks for the code that is or will be shown
  (`ScanFollowed`).
  `PaidMeansPaid` (`PayPages`): as long as nothing was paid and nobody else moved the
  account, what pages know of it stands and no clock finds anything (`Unmoved`); as
  long as the last order has not been called paid there are fewer messages than
  orders (`NoticesCounted`).
* **PagesProofs.** `NoNonceTwice` (`Shim`), whatever the order of decryptions: the
  counter of a channel is ahead of every nonce it has given. `PagesAreTold` assumes
  `Serial` (a browser ends decryptions in the order they began): the parts that a
  fetch has got and those that are still to be decrypted are the parts its upstream
  has sent, and an end is the last frame of a call.
  `TablesSettleRight` (`PortalTables`): until the last request has come back it will
  bring what the page should show, afterwards everything under way is late
  (`LastFits`); a read list has all events or one that is missing is still to come
  or will never be told (`EventsFollow`).
  `CallsSettleRight` (`Plugin`) for any number of overlapping calls, each part as long
  as its excuse has not come up: `FileKnown` (a call that is still fresh holds the
  mode and the code of the file, or has written the file; needs no `"stale"`),
  `TunnelHandled` (handle and tunnel go together; no `"lost"`), `ListenerKnown` (one
  synchronisation at a time, and the variables of the listener agree with the open
  port at each of its steps; no `"overlap"`), and, without any excuse, `CodeKnown`:
  the tunnel has the code of the file or that of the one call which is about to write
  it, and beside a tunnel the listener counts or is being replaced by one that does.

The constants are constrained by the assumptions of the modules only. Two of them
were narrowed by the proofs to what the code has: the sets of orders a page pays and
of visits at a door are finite, and `Nobody` is no scan of `Hosts`.
The initial rows of `Accounts` are assumed to be rows (`UserRows`), not yet at the threshold,
and its sets of accounts and requests not to be empty.
The proof of `SecretsHold` failed at two places where the model was wrong: a lock that the
command line or the clock ends did not end the count of `lockedTries`, and
the bound of the failures allowed one more for each crash where there can be one for each
request. Both are corrected.
Preparing the proof of `ScansEndWell` showed a step that the model did not have, a
second renewal while the first is waiting; it is in `PanelScan` now, and in section 5.

Only model-checked:

* all liveness (fairness and ENABLED are outside what TLAPS does here): the temporal
  parts of `tunnel`, `machine`, `usage`, `accounts`, `hub` and `credits_all`;
* `FramesArrive`: what a recursive function computes for every sequence needs
  induction over data;
* `NeverTooMuch` of `UsageReporter`, a sum over all days.

The type invariants of Tunnel, Heartbeat, JoinLock, Credits, StreamMux and RelayUsage
are proved and need no run; `PortalAgrees` (Tunnel), `HoldFinal` (Credits),
`ChargedFirst`, `NeverTooMuch` (RelayUsage) and `NonceOnce` (Shim) are proved and no
run repeats them by themselves. Proofs hold for any number of slots of `Tunnel` and
for `HandshakeLoss = TRUE`, which the run `tunnel` does not have.

No module declares a RECURSIVE operator; the parser of `Frames` is a recursive
function.

## 5. Disagreements found

Two are runs of their own, with a counterexample:

| Run | What happens |
|---|---|
| `tunnel_revoke_race` | A handshake that read the host before its revocation registers after it: `RevokeDropsTunnel` does not hold. |
| `usage_midnight` | Rows that roll over at midnight during a flush are cleared with it: `NothingLost` does not hold. |

The others are why a run leaves something out or a property has an exception,
or were met while translating. The second column says how to see them.

**Tunnel, streams, machine**

| What happens | To see it |
|---|---|
| `rdsh-hub host revoke` says that the tunnel will drop; the live tunnel stays. | `RevokeDropsTunnel` with `RevokePaths = {"cli"}`, `MaxFaults = 0` |
| After a takeover with a relay node the old process stays connected to the hub and the new one to the node. | `TakeoverSettles` without `AtNode` |
| A handshake that is never answered leaves the gateway "connecting" without a timer. | `HolderConnects` with `HandshakeLoss = TRUE` |
| Leaving a raw stream leaves the inner upstream running. | `UpstreamIffWanted` with `Kinds = {"raw"}` |
| Such an upstream answers into a raw stream of the next tunnel with the same id. | `NoCrossTalk` with `Kinds = {"raw"}`, `MaxTunnels = 2` |
| A buffered response that fails looks like an empty 200. | `FailureIsAnError` with `"cut"` beside `"failed"` |
| A response that breaks off looks complete: the hub does not look at the code of a CLOSE. | `HubClose` of `StreamMux` |
| The gateway's one parser keeps a wrong frame: every later connection ends at its first message until the process restarts. The page's parser after an error stays deaf. | `FramesArrive` without `~inherited` (`gateway/src/join.ts:851`) |
| Two reapers of one dead lock: two holders. | `Exclusive` with three processes and `MaxCrashes = 1` |
| The meter of an ended day is reset although its report failed or was out of date. | `StopReports` with `clean` always TRUE at first |
| To another hub and back on one day: bytes up to the former count are never added. | `SetTarget`: the count begins again, the hub keeps a maximum |
| dsh dying between its ready line and the installation of the watchdog is missed; the comment says "永久 502、无自愈" of what the watchdog is for (`gateway/src/serve.ts:160`). | `DshDies` before the watchdog in `Launcher` |
| A signal before the handlers are installed, an error of `join()` after spawnDsh, and a rejection before `const shutdown` leave dsh running. | `orphans` of `Launcher` |

**Money**

| What happens | To see it |
|---|---|
| Two hosts charged beside each other pass the overdraft floor. | `Total(bal) >= Floor` after `CommitRelay`, two relays |
| A relay charge beside `clearUserBonus` leaves a bonus bucket in debt. | `BonusNotOverdrawn` with `Ops = {"relay", "clear"}` |
| The first event of a subscription is written as it is, but one that read before another's commit can revive a revoked one. | `SubscriptionAdvances` without `stale` |
| A refund whose order was read before the payment committed is acknowledged without a reversal; an administrator's refund makes the platform's later one take nothing. | `PaymentsExact` without `excused` |
| Two orders of one user delivered beside each other lose a month; the end of one subscription puts the plan to grace though another is valid; the sweep acts on a list read before. | `DeliverPaidOrder`, `SubscriptionCommit`, `SweepBilling` of `Billing` |
| Inside WeChat the page orders before it has loaded: a member is told "订阅成功" at the first poll, against the comment at `portal/src/pages.tsx:2439`. | `PaidIsPaid` without `blind` |
| The clocks of cancelled orders go on for five minutes and close the dialog of a newer order. | `PaidIsPaid` without its exceptions |

**Accounts**

| What happens | To see it |
|---|---|
| `rdsh-hub user passwd` prints "all their sessions revoked", but refresh tokens stay (`hub-cli/src/bin.ts:402`). | `SecretsHold` with `cliPasswd` not excepted |
| A refresh in flight during a change of the password makes a live token after it; a crash between the two statements leaves the old ones. | `refresh[t].late`, `crashes` in `OldSessionsEnd` |
| A verification that read "pending" undoes a ban or a deletion. | `BanHeld` without its second exception |
| Two unbindings that count beside each other leave no way in. | `LoginMethodKept` without its exceptions |
| A row that another process deletes stays in the cache (the reload only sets), and a reload older than a write hides it for up to five seconds. | `CacheConverges` for removed rows |
| Both sign-in by WeChat and by Apple and the verification of an address skip the second factor. | `WechatLoginCallback`, `AppleLogin`, `Verify` |

**Hosts and nodes**

| What happens | To see it |
|---|---|
| Two consumers of a session, or a crash between `createHost` and `consumeBindSession`, make two hosts. | `HostsConsistent` without `twice` |
| The LLM key of a host is made after its revocation, or two are. | `HostsConsistent` without `late` |
| A late offline event or leave of the old node takes the new assignment. | `DirectoryConverges` without `stray` |
| A node created by the administrator and never started stays online and is given hosts; a draining node without another keeps its hosts, whose requests then go to the hub. | the exceptions of `Settled` in `Directory` |

**Plugin, doors, encryption, portal**

| What happens | To see it |
|---|---|
| Calls that read, wait and write `host.json` lose each other's changes; setAccessCode beside revoke leaves join mode without a token, the state the comment in `revoke` excludes. | `CallsSettle` without `"stale"` |
| Two synchronisations of the direct listener: the one that finds the port taken gives up and forgets the listener of the other. | `CallsSettle` without `"overlap"` |
| A tunnel started while disconnect or revoke wait for the last report is forgotten and runs on. | `CallsSettle` without `"lost"` |
| Overlapping polls of a scan consume twice: two hosts, or "expired" while the first connects; an old poll forgets a newer code. | `ScanEndsWell` without `overlapped`, `crossed` |
| The button that renews a scan code is not disabled while it waits (`client.js:628`): of two renewals at once the panel may show the code that the plugin no longer asks about, which nobody can use. | `ScanEndsWell` without `strayed` |
| `rdsh gate set` and concurrent `rdsh user` commands write what they read before: a changed password comes back. A removed and re-added user keeps old cookies. A login that began before a change gets a new cookie. Two reloads end in the other order. A change between the reading and the watch is missed. | `DoorsHold` without `flaw = {}` |
| Changing the access code does not end direct tickets and cookies, whose secret is another ("改口令即吊销未用票"). | `SetGate` of `Doors` |
| An abort before the head leaves a fetch pending for ever; a CLOSE without OPEN resolves as 200; decryptions are not awaited in order. | `NoSilentHang`, `WholeIsWhole` with `Serial = FALSE` |
| Two tabs exchange one refresh token, or an answer is lost: login although the session lives. | `LoginOnlyWhenEnded` without `twice`, `mishaps` |
| An overtaken answer stays on screen, also that of another user's details, against the comment at `portal/src/pages.tsx:2944`. A reload after an action uses the page or filter of the rendering it began in. | `TableShown` without `table.late`, `table.old` |
| An approval or enabling that began before a deletion sets the router active again; its token stays revoked. An update of a key that began before its revocation writes the old row; the revocation's time keeps it unserved. | `SetStatus`, `WriteUpdate` of `Routers` |
| `rdsh-hub db migrate` copies 21 tables and leaves out those of LLM keys, service tokens, trusted devices and voice; its verification compares counts of the same 21. | `hub/src/migrate.ts`, not modelled |

## 6. What is not modelled

* Cryptography (Noise, HMAC, JWT, TOTP), encodings other than the frames, texts,
  forms and layout: no protocol state of their own, or data that no property
  here distinguishes.
* Of the streams: a response that ends before its request, the wrap of the uint32
  stream counter after 2^32 streams of one tunnel, backpressure (the code has
  none: `hub/src/tunnel.ts:136` sends whatever the socket's buffer holds).
* Of the reporter: the report of versions, and the seconds of a session.
* Of the stores: row mappers, analytics and the SQLite twins of statements. The
  SQLite store awaits inside transactions on one shared connection
  (`hub/src/store.ts:20`), but those awaits resolve in microtasks, between which no
  other request runs; with `Ledger` its operations are atomic.
* Account LLM keys, agents and the catalogue (single statements); one-time direct
  tickets (one map in one process) and the copying of headers and bodies;
  configuration, service units, metrics, the copy between databases, voice
  tickets; limits per address, which only refuse requests.
* Relay nodes, `dsh web`, browsers, WeChat, Apple and the payment platform are
  environment, modelled by what the code lets them do; definitions for them are
  marked external.
* `agent-mesh` and `whale-link` are placeholders without behaviour.
