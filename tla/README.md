# A TLA+ verification project for Prime Continuim

Prime Continuim is an Electron desktop over `prime-agent-hostd`, a per-user host
service that owns projects, threads and the sessions of the Prime Agent daemon.
Its hard promise is about *authority*: which upstream session a saved thread may
command, who may change that, and what survives when a process stops between two
writes or an answer never comes. This directory holds TLA+ models of that code,
TLC configurations that check them, and TLAPS proofs of what matters most.

Line numbers below are those of the repository at the commit beside which this
project is kept; `PROJECT.json` maps every definition to the lines it models.

## 1. Inventory

```
renderer ──IPC──> DesktopControlService ──frames──> hostd ──> Prime Agent daemon
(projection)      outbox, ledger, cache             Store      owned / resident
                                                    │           sessions
                                        coordinator ┴ adapter
```

| Component | State it keeps | Operations | What is hard |
| --- | --- | --- | --- |
| **HostStore, resident lifecycle** (`src/hostd/store.ts`) | operation records (15 phases), binding records, the published snapshot, leases held in memory | prepare / begin / observe / fail / commit / end / acknowledge / quarantine, recovery in `initialize()` | several durable writes per method, a crash between any two; recovery that must agree with a hand-written cross-check; a bounded registry |
| **Lifecycle coordinator** (`resident-lifecycle-coordinator.ts`) | running jobs, held candidates, `closeRequested` | `provision`, `end`, `close` | every `await` interleaves with other jobs, faults, close and late answers |
| **Adapter and gateway** (`prime-agent-resident-adapter.ts`, `verified-resident-gateway.ts`) | connections, candidates, prepared and attached bindings | create, promote, kill, list, prompt, abort, projection | mutations with unknown outcome; custody checks between a lease and its use |
| **HostStore, dispatch** | dispatch attempts, receipts, journal, prompt and abort locks | admit, begin, finalize, idle proof, reconcile, recovery; superseded by an end | an acknowledgement is not a completion; abort races prompt |
| **HostStore, projections** | snapshot, catalog, lineage, write-ahead file | publish, project an end, replay, retire | a write-ahead file that carries the whole catalog; two public files made visible by one transaction |
| **HostStore, bootstrap** | bootstrap records, workspace authorities, reservations | bootstrap, adopt, commit, roll back, reactivate, release, compact | five files and a rollback; a reservation and the record it reserves are two writes; every check reads another file |
| **HostStore, preferences** | model, thinking and extension-UI attempts | select, respond, recover | an interrupted attempt becomes `uncertain` |
| **Desktop control service** (`src/main/control/service.ts`) | outbox, command identity ledger, projection cache, connection epoch | enqueue, send, reconcile, poll, take a proof, switch target | a cut-off submission; a connection lost between an entry and its transmission; a proof that overtakes its answer |
| **Relay server** (`packages/relay-server`) | grants by digest, connections, one host and some devices per route | admit, route, report, detach, stop | the grant store is awaited between the limits and the admission; a peer that goes away is announced by one frame |
| **Reliable tunnel** (`src/shared/reliable-relay-byte-tunnel.ts`) | one outstanding chunk per direction, buffered reads, a receipt deadline | write, read, receipt, timeout, close, abort | a receipt says only that the relay's socket took the chunk; there is no retransmission |
| **OAuth attempts** (`src/hostd/oauth-*.ts`, `src/main/control/*oauth*`) | a journal on each side, a session and a helper process per sign-in | start, poll, cancel, reconcile, recover | every effect follows its durable mark, an answer may be lost, either side may restart |
| **Pairing authority**, **endpoint ownership**, **runtime initialization** | durable journals of their own | see `PROJECT.json` | restart, single-use, takeover races |
| **Renderer, packaging, browser bridge** | presentation, build artefacts | – | no authority; not modelled |

What makes each of the authority-bearing components correct:

* *Lifecycle*: one nonterminal operation and one commandable session per thread;
  authority revoked before a kill can leave the host; a settled end is published
  and stays so; no mutation is replayed; no resident session is forgotten; a
  restart serves unless a workspace is missing; every request returns.
* *Dispatch*: the marker precedes the effect; nothing is completed without the
  idle proof of its own generation; an end turns what is unsettled into
  `uncertain`.
* *Projections*: readers see a snapshot and a catalog of one publication; a session's
  cursor never goes back, and no generation it has left returns.
* *Bootstrap*: the catalog is closed at every instant; nothing another operation needs is rolled
  back; a reservation keeps its workspace until exactly its provision was retired.
* *Relay*: a grant admits once; a route has one host; a slot belongs to a
  connection the relay still has.
* *Tunnel*: the delivered chunks are a beginning of what one writer wrote; an
  acknowledged chunk is not lost while both ends stay open; the end of a peer is
  known, or on its way to be known.
* *Desktop*: an identity is bound to one envelope; an entry stays until its
  outcome is known; nothing is sent to another host than its own, or a second
  time without reconciliation; a proof is final; the outbox drains.
* *OAuth*: no login, and no storing of credentials, is started twice; what the host
  was heard not to know never runs; what both sides record is what happened; neither
  journal turns down what the other faithfully produced.

`PROJECT.json` lists the hazards, each at its line, with the property that
covers it or the reason none does yet.

## 2. Modules

| Module | Role |
| --- | --- |
| `SessionAuthority` | abstract specification: Grant, Revoke, End over threads and sessions |
| `LifecycleStore` | the Store's lifecycle half: every durable write is an action |
| `LifecycleStoreInvariant` | its inductive invariant |
| `LifecycleStoreProofs` | the invariant, the safety theorems, and `StoreSpec => AuthoritySpec` |
| `ResidentLifecycle` | coordinator jobs and the daemon over `LifecycleStore` |
| `ResidentLifecycleInvariant` | its inductive invariant, beside that of the Store |
| `ResidentLifecycleProofs` | the invariant and the safety theorems |
| `CommandLedger` | abstract specification: what becomes of one thread's prompts and Stops |
| `ResidentDispatch` | the Store's dispatch half: admission, attempt, receipt, idle proof, supersession, recovery |
| `ResidentDispatchInvariant` | its inductive invariant |
| `ResidentCommands` | request handlers, the mutex's queue, adapter, gateway and daemon over `ResidentDispatch` |
| `ResidentCommandsInvariant` | its inductive invariant, beside that of the Store |
| `ResidentDispatchProofs` | the invariants and safety theorems of both, and `CommandsSpec => DispatchSpec => LedgerSpec` |
| `PublishedThreads` | abstract specification: what each thread shows a reader, one change at a time |
| `StoreState` | the files, the mutex and the life of the Store, for the three modules below |
| `WorkspaceBootstrap` | bootstrap of a thread, its reservation, its rollback |
| `ResidentProjections` | publications and end projections behind a write-ahead file, lineage, replay |
| `StoreFiles` | the two together with terminal retirement, restart and validation; `PublishedSpec` refines `PublishedThreads` |
| `StoreFilesInvariant` | the inductive invariants of the three: of the files, of the records, bindings and views, and of what a recovery pass needs |
| `StoreFilesProofs` | the first of them and its safety theorems |
| `StoreFilesRefinement` | the other two, reservations, `FilesSpec => PublishedSpec`, and that `initialize()` can finish |
| `ByteStream` | abstract specification: each reader is given the chunks of one writer, in order and without a gap |
| `RelayServer` | grant store, upgrade admission, slots, routing, closes, and the sockets between relay and clients |
| `RelayTunnel` | the tunnels of both ends over `RelayServer`; `StreamSpec` refines `ByteStream` |
| `RelayInvariant` | the inductive invariant of both |
| `RelayProofs` | the invariant, the safety theorems, and `TunnelSpec => StreamSpec` |
| `DesktopOutbox` | the desktop's outbox, identity ledger, submissions, reconciliation, poll and idle signals, and the hosts as it sees them |
| `DesktopOutboxInvariant` | its inductive invariant, and that of accepted proofs |
| `DesktopOutboxProofs` | the invariants and the safety theorems |
| `OAuthBroker` | the host's attempt journal, broker, helper processes and framed requests |
| `OAuthAttempts` | the desktop's ledger and its sign-in operations over `OAuthBroker` |
| `OAuthInvariant` | the inductive invariant of both |
| `OAuthProofs` | the invariant and the safety theorems |
| `MCLifecycleStore`, `MCResidentLifecycle`, `MCResidentDispatch`, `MCResidentCommands`, `MCStoreFiles`, `MCRelayTunnel`, `MCOutbox`, `MCOAuthAttempts` | the instances TLC runs |

### LifecycleStore

State and code:

| Variable | In the code |
| --- | --- |
| `phase`, `from`, `reason`, `sess` | one JSON record per operation: `phase`, `quarantinedFrom`, `quarantineReason`, the identity in `binding` (or of the candidate). `"none"`: no file; `"retired"`: the file was compacted away and the retired fence knows the id |
| `bind` | `resident-session-bindings.json`: the state of each session's record and the operation it is linked to; `"retired"` is the fence |
| `proj` | what the thread's public snapshot and catalog show: a resident session, or its end |
| `ws` | does the thread's canonical workspace directory resolve now? |
| `mode` | `down`, the two recovery passes `before` and `after` projections, `up`, `degraded` (`residentSubsystemFault`), `faulted` (`initialized = false`, or `initialize()` threw) |
| `call` | the method holding the `exclusive` mutex and the durable write it makes next |
| `lease` | the process-local lease maps, `authorized` being a kill lease consumed by `authorizeResidentKillInvocation` |
| `todo` | records a recovery pass has still to visit |

A method with one durable write is one action. A method with several is begun by
one action and continued by one action per write (`CallStep`), so that `Crash`,
`StoreFault` and `WorkspaceChange` fall between any two of them; nothing else
can, because of the mutex. Recovery is modelled write by write too
(`RecoveryStep`), and `FinishAfter` evaluates `ValidResidentState`, the
translation of `validateResidentStateUnlocked`, to decide between `up` and
`degraded`. The environment is *any* caller: the Store is not protected by what
the coordinator happens to do.

Abstractions. A session stands for the pair of `activeSessionId` and
`sessionId`. An operation's envelope is immutable and its digest fixed, so a
reused id with another envelope (refused at once) is not modelled and the
operation's thread is the constant `ThreadOf`. Timestamps, digests and runtime
fingerprints are left out; no decision modelled here depends on them. The
projection transaction and the terminal retirement have write-ahead files of
their own and are one atomic write each here; `StoreFiles` takes them apart. The retired fence is a Bloom filter in
the code; its false positives (a fresh identity refused) are left out. Detach, the
owned-create cleanup and the deprecated direct binding have no caller in the
lifecycle path. Records of one recovery pass are visited in any order.

### ResidentLifecycle

It EXTENDS `LifecycleStore` and adds the coordinator (`job`, `held`, `closing`)
and the daemon (`up`, `owner`, `req`, `effects`). A job's program counter names
the await it stands at. Two jobs of *different* operations interleave freely; a
second request for a running operation shares the first one's promise in the code
and is no step here. `req` is the mutation an operation has in flight (a late one
included), and `effects` is a history variable: mutations sent and not proven to
have had no effect. The daemon lands a request at any time, or never, answers
only if its job still waits, cleans up owned sessions whose connection is gone and
passivates resident ones; a kill can be rejected before effect. What a saved
session can become after passivation (resume under another active id) is cut
down to `LandCreate` reusing a `gone` session.

### ResidentDispatch

| Variable | In the code |
| --- | --- |
| `wal` | the admission write-ahead file of a command, with the verdict it carries |
| `known` | the exact command identity record |
| `doc`, `held` | the dispatch attempt: `admitted`, `dispatching`, or `settled` with the status of its final receipt (`proven` once it carries an idle observation), and the binding in it |
| `receipt` | the public receipt; `unsent` and `superseded` are `failed` and `uncertain` with the error code that says so |
| `proof` | the idle-observed event journal |
| `active`, `ending`, `endof` | the thread's binding and its End: `LifecycleStore` cut down to what dispatch reads. `gen` is the supervisor generation, the one part of a binding a reconnect may refresh |
| `busy` | whether the published snapshot reports activity |
| `mode`, `degraded`, `call`, `todo` | as in `LifecycleStore`; the recovery passes are `admissions`, `ends`, `dispatches`, and `refused` is an `initialize()` that threw |
| `lease`, `idle`, `granted` | the dispatch leases returned by this process, the reconciliation leases with their binding, and, as history, every lease ever returned |

Prompt and Stop locks are no state of their own in the code: they *are* the
attempts of the thread (`PromptLock`, `AbortLock`). As in `LifecycleStore`, every
durable write is an action and the environment is any caller, in any order.
`LedgerSpec` is the refinement of `CommandLedger`: `Stage` reads what has become
of a command from its receipt, its write-ahead file and its attempt.

Abstractions. One thread. A snapshot is one bit here (its cursor comes with
`ResidentCommands`). An exact duplicate of a command only reads and is no step;
a reused id with another envelope is refused at once. Left out: capacity limits,
foreign or corrupt files, journals other than the idle event, the turn outcome,
and model, thinking and dialog attempts.

### ResidentCommands

It EXTENDS `ResidentDispatch`, drives its methods from the `command.submit`
handler and adds the rest of the path.

* `pc`, `queue`, `answer`: each request's handler stands at an await. Store calls of
  handlers are served in the order they were made (`exclusive` chains promises): a new one
  goes to the end of the queue (`CallStore`), the one served leaves its head when its method returns (`Leave`,
  `LeaveAndCall`), and calls of everybody else come between any two.
* `flight`, `turn`, `cursor`: the daemon. A prompt lands only when nothing runs;
  the handler may have given up on it (`OutcomeUnknown`) long before. A Stop ends
  whatever turn runs. Somebody else may run turns too, `MaxCursor` of them.
* `seen`, `shown`, `evidence`, `settledAt`: the adapter's last reading, the cursor of
  the published snapshot, the idle evidence the adapter keeps for a command while
  its connection lives, and the cursor the Store records with an acknowledgement.

A restart loses handlers, leases and evidence; what was sent may still land.
Closing a connection without a restart, child agents and dialogs are left out.

### StoreState, WorkspaceBootstrap, ResidentProjections, StoreFiles

| Variable | In the code |
| --- | --- |
| `project`, `snapshot`, `catalog`, `authority` | `projects.json`, the snapshot file of each thread, its row of `threads.json`, its row of the private workspace authorities |
| `boot` | one JSON record per bootstrap: phase, claims, artifacts placed, provenance (`adopted`), rollback plan and progress, release |
| `life`, `held`, `bind`, `target` | lifecycle records, why one is quarantined, bindings, the session an end names |
| `lineage`, `wal` | cursor lineage of each session; the pending publication of a thread, with the catalog it carries |
| `fenced`, `marker` | the retired fence; the retirement transaction, by its terminal operation |
| `ws`, `mode`, `call`, `todo` | as in `LifecycleStore`; the passes of `initialize()` are `retirement`, `bootstrap`, `before`, `replay`, `after`; `failed` is an `initialize()` that threw |
| `retiring` | the next write of a retirement, which runs *inside* another method |

Each action is one file written or removed, or one check that decides between going on and
throwing. A method holds the mutex from its first action to its last; a retirement is nested
in the method that needs room (`Retirable`). `Crash` and `WorkspaceChange` fall anywhere.
A recovery pass visits its records in any order, except that the passes follow one another as
`initialize()` has them; a foreign error in a pass either degrades the resident subsystem or, when
a publication or a bootstrap waits behind it, ends `initialize()` (`Degrade`).

A bootstrap claims an artifact in its record, writes it, and then records it as placed; what was
there before is adopted and never removed. Rollback happens only at a restart that finds the workspace missing,
along a plan that is fixed first and compared with the files before each removal (`PlanCurrent`).

Abstractions. One project and one workspace directory. A session is named by the provision
that made it. Lifecycle records are at the grain of `creating`, `promoted`,
`published`, `committed`, `failed` and `ending`, `acknowledged`, `completed`, and a record and its
binding change together: what lies between is `LifecycleStore`'s. A
snapshot is what it shows and its cursor. Left out: two digests at one cursor (Stop and
model proofs), the prompt locks a publication retires, the control projection, every limit but that of the
bootstrap registry, divergent requests under a used operation id, records without provenance.

`FilesAgree` holds of a Store that serves. Its one exception, `LeftBehind`, is the code's: a bootstrap
that came no further than the snapshot and is rolled back keeps it when another bootstrap record names the thread. What a reader may rely on *across*
restarts is `PublishedSpec`. Its mapping takes a thread to show what its write-ahead file says
from the moment that file is written: no reader is served between that write and its materialization.

### RelayServer and RelayTunnel

| Variable | In the code |
| --- | --- |
| `grants` | digests the grant store holds; `consume` deletes one |
| `attempt`, `grant` | an upgrade request, whose handler awaits the store between the limits and the admission, and the grant it was answered with |
| `conn`, `host`, `devices` | `connections`, and the host and devices of each `RouteState` |
| `alive`, `up`, `down` | the client's end of each socket, and the frames on the way each way; `down` fills at `MaxBuffered` |
| `tun` | a `ReliableRelayByteTunnel` per connection and channel: what it wrote, the receipt it waits for, what it buffered, read and closed |
| `written`, `stream`, `ended` (in `ByteStream`) | mapped from `tun` |

A WebSocket delivers in order and may go silent at either end; the relay answers each
chunk with a receipt (`delivered`, `no_route`, `backpressure`) when its own socket to the
peer took the frame, and a tunnel's `send` returns on that receipt. There are no
windows and no retransmission: a chunk that was not delivered closes the tunnel.
`PeerEndOnItsWay` is the safety form of "a reader learns that its peer is gone": a tunnel whose
peer is over has the news before it, in its socket, or in a socket that is closing.

Abstractions. A write is one chunk, the write-side byte budget only refuses a `send`.
Bad frames and the rate budget close a connection as the idle timer does, and
`Idlers` names the connections the relay may close by itself. Exhausted message
ids, refusals of the connector and `abort` are one action, `LocalClose`. The
connector is not in the repository, and nothing under `src/` wires the relay to hostd or desktop yet;
how the tunnel uses a connector is what is modelled. TLS, HTTP and logging are left out.

### DesktopOutbox

| Variable | In the code |
| --- | --- |
| `outbox`, `order`, `identities` | the outbox file: the state of each entry and the order of its list; the command identity ledger |
| `authority`, `link` | the host last verified, and the one connected now |
| `pc`, `cmd`, `live`, `want` | the tasks: a submission per command, the reconciliation of a connection, the poll, idle signals; the await each stands at, and whether the connection it captured is still current |
| `queue`, `turn` | the promise chains that serialize writes of the outbox file and the lifecycle of one command |
| `fence` | `completedResidentProofs`: a proof that arrived while a submission was under way |
| `todo`, `seen`, `gone`, `later` | what a reconciliation has read, will ask about, remove and submit |
| `status`, `wire`, `asked`, `owed`, `down` | the host: what it knows of a command; submissions, answers and signals on their way |
| `sent`, `proven`, `givenUp` | history |

The host is what the desktop can rely on: it admits a command once and answers the same
ever after, and an idle signal comes after the answers before it.
Two envelopes may bear one id, which is what the ledger is for. `Left` names the commands an earlier process
was cut off in: their entries are in the file at the start, and their submissions may still arrive.

A poll asks about the first `BatchLimit` (32 in the code) of the entries it may ask about (service.ts:3640-3645). A put moves
its entry to the end of the list, a hold rewrites it where it is (`Placed`), and an entry the host does not know is left as it
is. So whatever gets an answer makes room for what is behind it, and only entries that were never admitted keep
the head of the list.

Abstractions. The diagnostic of a retired entry is written with its removal. Commands
of one host share a thread. A new connection is tried once the previous reconciliation has
noticed its loss. The limit of the fence is left out, and a submission under way keeps its
fence. The first answer to a prompt is never `completed`. Capabilities,
legacy and quarantined entries, the capacities of the two files (1 000 entries and 10 000 identities), dialogs, the ledger of Ends and `reconcileCommands`
(which no renderer calls) are left out.

### OAuthBroker and OAuthAttempts

| Variable | In the code |
| --- | --- |
| `rec`, `sick` | the host's attempt journal, and whether one of its writes was ambiguous |
| `process`, `secure`, `run`, `helper` | the host process, the custody of its credential directory, each session of the broker and the helper process alive for it |
| `open`, `inbox`, `at`, `answer` | the connections of a desktop and the requests on each, served one by one |
| `led`, `link`, `op`, `eligible`, `owed` | the desktop's ledger, its connection, the operation under way on an attempt, the attempts whose page may be opened, and those to reconcile |
| `logins`, `kept`, `refused`, `told`, `born`, `pages`, `absentSeen` | history |

A write of the journal may be ambiguous: it fails, and a restart finds the old or the new
record. Either side may stop between any two steps. The two tables of phases that may
follow one another, one on each side, are translated apart; `NeverRefused` is that
they agree on everything the two programs do.

Abstractions. Time is left out, so a sign-in expires at will; a login that returns after
its time is one that expired just before. Compaction, limits of the journals, challenges
and their answers, and failures of the desktop ledger's own writes are left out. A start's
own polling is merged with the renderer's status requests, and a settled attempt is not asked
about again. The end of a helper and its entry are one step, a read nobody waits for is none. The
desktop's timeouts fire at any time, and an error is no answer.

## 3. Runs

| Run | Instance | Checks | States |
| --- | --- | --- | --- |
| `store_safety` | two threads, three provisions and three ends between them, three sessions, registry limit 3, workspaces come and go | the inductive invariant, safety, acknowledged ends, recovery, refinement | 127 000 |
| `lifecycle` | one thread, two provisions, one end, one session, the workspace comes and goes | safety and liveness of the composition | 46 000 |
| `dispatch_safety` | two prompts, one Stop, one session, two supervisor generations, the workspace comes and goes | the inductive invariant, safety of dispatch, recovery, refinement | 387 000 |
| `commands` | one prompt, one Stop, one session, one foreign turn, the workspace comes and goes | safety of the composition, liveness of handlers | 1 216 000 |
| `store_files` | two threads of one workspace, four bootstraps (two reserve), three provisions, one end, two generations, two bootstrap records at most | catalog, files, reservations, restart, refinement | 528 000 |
| `relay_streams` | one route, a device and two connections of its host that may present two grants, two writes | single use, slots, streams, refinement | 139 000 |
| `outbox` | a prompt and a follow-up of two hosts with one id, four moves | safety of the outbox | 618 000 |
| `outbox_batch` | a prompt left by an earlier process and a follow-up, of one of two hosts, a batch of one, one move | liveness of the outbox: entries compete for the poll | 258 000 |
| `oauth` | two sign-ins, two connections, two requests outstanding on each | effects, absence, outcomes, agreement of the journals | 1 434 000 |
| `acknowledged_end_lost` | one provision, one end, one session | a violation, see 5 | small |
| `end_refused_after_refresh` | one prompt, one Stop, two generations | a violation, see 5 | small |
| `proof_never_completes` | one prompt, one session | a violation, see 5 | small |

Why the bounds are enough to be interesting. Two provisions and two ends on one
thread give a full generation change: provision, commit, end, complete, retire, provision
again, with any of them failing, being quarantined or retired. The second
thread matters for one thing only, the shared registry: the limit of 3 is
reached with operations of both threads, so compaction of another thread's
history, and the refusal of a full registry, both happen. Three sessions let
every provision of the run own one and leave one that was used and fenced. The
numbers of crashes, restarts, faults, retries and workspace changes are *not*
bounded. `lifecycle` sets the registry limit out of reach (9): its question is
interleaving, and compaction by the next provision on the thread still occurs. One session suffices for it: either provision
may come to own it, the second after the first failed, was quarantined or never created it; what a second session adds
to safety is covered by the theorems, which hold for every number of them.
In `dispatch_safety` the second prompt is what a lock is for: it can be refused
under the first one, follow it, or be admitted after a crash left the first
uncertain. One session suffices there, because a session is never bound again
once it was ended and a thread has one at a time; two generations make a refresh.
In `commands` one prompt and one Stop are the race, and one unasked turn is enough
for evidence to be overtaken. Its binding is not refreshed (one generation): what a refresh does to an
attempt is the Store's, and `dispatch_safety` and `end_refused_after_refresh` have two. `MaxCursor` bounds only the daemon's *spontaneous*
changes; those of prompts and Stops are bounded by their number.
In `store_files` `b1` and `b4` bootstrap `t1` from a local path, `b2` bootstraps `t2` through `t1` and
reserves `p2`, `b3` adopts what one of them made on `t1` and reserves `p3`, and `p1` and `e1` are a plain
provision and an end on `t2`: a second thread that shares the project, a reservation that meets another's
session, an adoption that meets a rollback, a rollback that leaves what another record of the thread names, an end of a
reserved or of a plain session, and a registry of two that a third
bootstrap can enter only after a retirement. Two cursors are two generations: after the second
the first must not return. Crashes and workspace changes are not bounded.
In `relay_streams` the two connections of the host compete for one slot and one of
two tokens, or follow each other, which is how a device meets a second host; buffers of two
frames fill. Devices are not limited by the endpoint there (one device has one). In `outbox`
`MaxMoves` bounds submissions, losses, restarts and requests given up together: four are a
submission, a loss, a second command and a second loss. With one id only one of its two commands is ever
sent, so its entries never compete for a poll. In `outbox_batch` they do: the prompt's entry is in the file from the start, so that one
move, the submission of the follow-up (or a fault in its place), is enough; the prompt's own submission is lost, or
arrives late and ends in any way. One entry fills a batch. In `oauth`
two requests on a connection let a status wait behind a start, or a cancellation behind
a status; a second connection lets an answer come from the first.

`store_safety` takes sessions, the provisions and the ends of a thread as interchangeable,
`dispatch_safety` the prompts and the generations, `relay_streams` the host's connections and
their grants, `oauth` the sign-ins, `store_files` the two local bootstraps of `t1`: nothing in those modules tells them apart, and
their properties are invariants or speak of single steps. The runs that check liveness use no
symmetry, and none uses a state constraint. Only `relay_streams` may stop: attempts run out.

Every property of a passing run has a *mutant* in `PROJECT.json`: a definition
of the same module with one plausible bug (a dropped check, a swapped field, a forgotten
release) under which TLC finds that property violated. They stand before the
definition they replace, under a comment that begins with "Mutant".

### Fairness

`FairSpec` asks strong fairness of `JobStep(o)` and weak fairness of the Store's
continuation of a method. Every await of a job is a Store call or a daemon
request. The mutex is first come, first served, and a Store method ends with a
return or a throw, so a job waiting for it gets its turn although other calls
take the mutex in between: strong, not weak, fairness. Every daemon request has
a timeout (`requestTimeoutMs`), after which the job continues with an unknown
outcome. Nothing is assumed of the daemon: it may never answer. Nothing forces a
crash, a restart, a request or a close.

`FairCommandsSpec` asks weak fairness of each handler's next step and of each
command's reconciliation: while a handler's call waits in the mutex's queue it is
not enabled, and once it is at the head it stays enabled until it is served. An
upstream call has a timeout (`OutcomeUnknown`), so a handler leaves `sent`
though the daemon be silent. The daemon ends its turns; the adapter reads and
publishes what it is told of; an End, once its revocation is begun, is
finished. `WorkspaceMoves`, faults, crashes and new requests are never forced. `commands` needs
only the handlers' fairness and that of a method that holds the mutex (`FairHandlersSpec`); `proof_never_completes` grants everything, so that its
counterexample is no matter of scheduling.

`FairOutboxSpec` asks strong fairness of each continuation (`Work`), for tasks take turns at the
promise chains and a task at the head is served whatever comes behind it; and weak fairness of
the poll's timer and of the arrival of what the host has sent. A lost connection, a restart and a
request given up are never forced. `OutboxDrains` says that on a connection that stays up nothing
remains but what this connection has tried and given up (`givenUp`), and what a whole batch of entries that were never
admitted keeps from the polls (`Starved`); that a signal or an answer comes is the host's
part, and is assumed only for what it has sent.

## 4. What is proved

For every set of threads, operations and sessions, every registry limit and both
values of `WorkspaceMayVanish`, under the assumptions of `LifecycleStore`
(provision and end ids are disjoint, each names a thread, the limit is positive):

| Theorem | Says |
| --- | --- |
| `StoreInvariantHolds` | `StoreSpec => []StoreInvariant` |
| `TypeOKHolds` | `StoreSpec => []TypeOK` |
| `SingleAuthorityHolds` | one nonterminal operation and one commandable session per thread |
| `RevokedBeforeKillHolds` | authority is gone before a kill may leave, and stays gone |
| `EndedIsPublishedHolds` | a completed end on record is what the thread publishes |
| `RetiredUnreferencedHolds` | no record names a retired session |
| `RecoveryInvariantHolds` | `StoreSpec => []RecoveryInvariant` |
| `AcknowledgedNotServedHolds` | no caller finds an end between its acknowledgement and its completion |
| `RecoveryServesHolds` | a restart degrades only over a missing workspace, now or at an earlier restart |
| `StoreImplementsAuthority` | `StoreSpec => AuthoritySpec`, the refinement |

Of the coordinator's jobs, the daemon and the Store together, for the same constants and under the same assumptions:

| Theorem | Says |
| --- | --- |
| `LifecycleImplementsStore` | `Spec => StoreSpec`: all of the above holds of the composition |
| `LifecycleInvariantHolds` | `Spec => []LifecycleInvariant` |
| `NoMutationReplayedHolds` | no create, promotion or kill is invoked twice unless the first provably was not |
| `ResidentTrackedHolds` | what outlives hostd is named by an open record, and no candidate is kept for nothing |
| `EndedMeansGoneHolds` | a session whose end is recorded or compacted is not resident, nor revived |
| `KillTargetsRevokedHolds` | a kill, however late it lands, finds no command authority |

For every set of prompts, Stops, sessions and generations and both values of
`WorkspaceMayVanish`, under the assumptions of `ResidentDispatch` (prompts and
Stops are disjoint, `NoCommand` and `NoBinding` are neither commands nor bindings); for `ResidentCommands` also
for every `MaxCursor`, no command being `Nobody` or `Somebody` (`TurnAssumption`):

| Theorem | Says |
| --- | --- |
| `DispatchInvariantHolds` | `DispatchSpec => []DispatchInvariant` |
| `DispatchTypeOKHolds` | `DispatchSpec => []DispatchTypeOK` |
| `ReceiptsTruthfulHolds` | a receipt of a serving Store stands for an attempt, or says what is true of its command: the three below together |
| `ReceiptsHaveAttemptsHolds` | attempts and receipts agree while the Store serves |
| `UnsentNeverGrantedHolds` | a receipt that says nothing was sent tells the truth |
| `CompletedIsProvenHolds` | completion is exactly a durable idle observation |
| `EndRetiresAttemptsHolds` | no attempt outlives the session it was begun under |
| `InitializeServesHolds` | recovery neither throws nor degrades while the workspace stays |
| `DispatchImplementsLedger` | `DispatchSpec => LedgerSpec`, the refinement |
| `CommandsImplementDispatch` | `CommandsSpec => DispatchSpec`: all of the above holds of the composition |
| `CommandsInvariantHolds` | `CommandsSpec => [](DispatchInvariant /\ CommandsInvariant)` |
| `FailedNeverRunsHolds` | what is reported rejected, queued, unsent or failed has not run and never will |
| `CompletedIsOverHolds` | what is reported completed is over upstream |
| `StopNeverOvertakesHolds` | no prompt is begun while a Stop admitted behind it is already across its own boundary |

For every set of attempts, grants, routes, roles and endpoints and every limit on
connections, devices, buffers and writes, under the assumptions of `RelayServer` and
`RelayTunnel` (`GrantAssumption`, `RelayLimitAssumption`, `TunnelAssumption`):

| Theorem | Says |
| --- | --- |
| `SlotsExclusiveHolds` | a grant admits once, a route has one host, the tables hold just the connections that are there, within the limits |
| `RelayInvariantHolds` | `TunnelSpec => []RelayInvariant` |
| `TunnelImplementsStreams` | `TunnelSpec => StreamSpec`, the refinement of `ByteStream` |
| `PeerEndOnItsWayHolds` | the end of a peer is known, or on its way |
| `AckedNotLostHolds` | a chunk whose `send()` succeeded is at its reader or on the way there, while both ends are open and no end is on its way to the writer |

For every set of prompts, follow-ups and hosts, with ids shared as they like, and any
number of losses, restarts and requests given up, whatever an earlier process left in the file and however many entries a poll
takes, under `OutboxAssumption` and `FileAssumption`:

| Theorem | Says |
| --- | --- |
| `OutboxInvariantHolds` | `OutboxSpec => []OutboxInvariant` |
| `OwnedUntilSettledHolds` | what was sent keeps its entry until its host has reached an outcome |
| `AuthorityExactHolds` | an id stands for one envelope, and only its own host is told of a command |
| `NoBlindResendHolds` | no step sends a command again while its outcome is open |
| `ProofIsFinalHolds` | no step makes the entry of a prompt anew once its proof was accepted, but for a submission by the user |

For every set of sign-ins and every number of connections and of requests outstanding, under
`OAuthAssumption` and `QueueAssumption` (both numbers are positive):

| Theorem | Says |
| --- | --- |
| `OAuthInvariantHolds` | `OAuthSpec => []OAuthInvariant` |
| `EffectsOnceHolds` | no login and no page twice; two helpers alive only after a drift during storage |
| `AbsenceIsFinalHolds` | what was heard to be absent, or ended as never begun, has no record |
| `OutcomeTruthfulHolds` | a recorded outcome is what happened, and the desktop reports the host's |
| `NeverRefusedHolds` | neither journal turns down what the other, or its own past, faithfully produced |

For every set of threads, bootstraps, provisions, ends and cursors, with threads, reservations and
references assigned as they like, and every limit of the bootstrap registry, under the assumptions of `StoreState` and
`ResidentProjections` (ids are disjoint, a reserved provision is one bootstrap's and of its thread, cursors are pairs):

| Theorem | Says |
| --- | --- |
| `FilesInvariantHolds` | `FilesSpec => []FilesInvariant` |
| `CatalogClosedHolds` | at every instant an authority has its thread, a thread its snapshot, any of them its project |
| `FilesAgreeHolds` | a Store that serves shows one state: the public files agree, and nothing is half done |
| `ResidentInvariantHolds` | `FilesSpec => []ResidentInvariant` |
| `ReservedExclusiveHolds` | while a reserved provision is open or commands, nothing else does; a served reservation has its record |
| `FilesImplementPublished` | `FilesSpec => PublishedSpec`: the files refine `PublishedThreads` |
| `StartsUnlessMissingHolds` | `initialize()` throws, or gives up its residents, only for want of the workspace, whatever a crash left |

The argument for `LifecycleStore`. None of the safety properties is inductive: what a kill may find,
for instance, depends on what an end's earlier write left, what a crash
interrupted and what recovery did with it. `StoreInvariant` closes the gap.

1. `Stage(o)` is the phase of a record, or the one it was quarantined in. Nearly
   all of the invariant speaks of stages, so a quarantine, the most frequent and
   most scattered transition, changes nothing.
2. `DurableInvariant` holds of the files alone: the shape of each record, the
   fact that two records share a session only as a provision and its end, what
   each binding state says of the record it names (`BindingFacts`) and what each
   stage says of its session's binding (`RecordFacts`), single authority
   pointwise, and that a thread with a completed end on record is quiet. A crash
   leaves it untouched by definition.
3. The first lemmas of `LifecycleStoreProofs` show for each of the 21 kinds of durable write that
   it preserves `DurableInvariant` from a precondition on records and bindings.
4. `CallFacts` says what the method that holds the mutex has established before
   its next write. The proof of a step has one case per action: its guard, or
   `CallFacts`, gives the precondition of the effect lemma.
5. The properties follow from the invariant. For the refinement, `BindingStep`
   shows that a step changes the bindings in one of five ways, and each maps to
   `Grant`, `Revoke`, `End` or a stutter.
6. That recovery serves needs more: recovery degrades where a record, its binding and its snapshot disagree, or where a
   quarantined end is not yet revoked. `RecoveryInvariant` adds what rules each of these out. Snapshots stay those of the
   sessions records speak of (`PublishedFact`, and `PublishingFact` for the method between its two writes); a
   committed provision keeps its binding until an end is on record (`CommittedFact`); only a missing workspace
   quarantines an operation between two of its mutations (`ReasonFact`); an acknowledged end is met by its own
   method alone (`SettlingFact`); and what the two passes have repaired for the records they have visited stays repaired
   while they go on with the others (`PassFacts`). `RecoveredIsValid` then shows that the closing cross-check
   has nothing to object to, and `ServesStep` that no earlier refusal is reached.

The argument for `ResidentLifecycle`. Its properties are about requests that nobody waits for any more, so they need what a
request on its way says of the Store's record, and that no step of anyone changes the record under it.

1. Every step is one of `StoreNext` or leaves the Store alone (`StepIsStoreStep`): `StoreInvariant` is there to lean on.
2. `JobFact` ties the place of a job to its record's phase. It survives because nobody else moves a record on while a job is at
   work on it: the Store's own steps only finish what a method began (`RecordMove`), and recovery runs when no job does (`ServeFact`).
3. `EffectFact` says that a record which can still lead to a mutation has had none invoked. Stages never go back past a dispatch, with
   two exceptions, and these are where the code has proof that nothing was invoked: a promotion abandoned before it was sent and a
   kill that was rejected, which takes its count back.
4. A promotion can land only while its record is at `promotion_dispatching` (`RequestFact`), and then its session has no
   binding and no end (`PromotionLands`). So it never revives a session whose end is evident (`GoneFact`) or behind the
   fence (`TrackedFact`), although neither the daemon nor the coordinator looks at either.
5. A job's step writes only its operation's part of the state (`StoreOwn`, `CoordOwn`), can orphan but not promote a session, and
   can make the Store fault; so each of the 45 actions is looked at for one operation.

The argument for `ResidentDispatch`. Its properties speak of a Store at rest;
between two writes of one method, and in a Store that is recovering, they are
false. `DispatchInvariant` says what is true instead.

1. `RecordShape`, `EndShape`, `AttemptAuthority` and `GrantedIsPast` hold of the
   files alone. `Beside` is their heart: for each state of an attempt, the receipts a
   host that stops at any moment can leave beside it. A command whose lease was ever
   returned is past admission for good.
2. `CallEstablished` says what the method that holds the mutex has written before its
   next write; `ModeFacts` says which commands are `AtRest`: in a serving Store all but
   the one a method is at work on, in recovery those it has visited.
3. Most steps are about one command. `OneCommandPreserves` is the frame: such a step
   (`OnlyCommand`) keeps the invariant when it keeps it for that command, so each of
   their lemmas has four obligations and none of them a quantifier. An End, a
   binding, a crash and the passes of recovery speak of every command and are
   proved for an arbitrary one.
4. `InitializeServes` is an action property of the invariant: what `RefuseToServe`
   looks for is, by `Beside` and `AttemptAuthority`, nowhere on disk unless the
   workspace is missing, and by `AttemptAuthority` an End always validates its set.
5. For the refinement, `Stage` reads three records of one command, so a step that
   writes those of one command moves at most that one (`Moved`, `Unmoved`). That a
   command is open only while a lock is held (`OpenIsLocked`) is what makes an admission an
   `Admit` of the ledger.

The argument for `ResidentCommands`. What a receipt says of a command upstream may be written by recovery or an End, long
after the handler that sent it is gone; so each record, answer and piece of evidence has to carry what is true upstream.

1. Every step is a call of the Store (`StoreCall`), a crash, or leaves it alone: `CommandsSpec => DispatchSpec`, so
   `DispatchInvariant` is there to lean on. The one thing to show is that a handler records only an answer it has, which is
   a conjunct of the invariant (`AnswerTruthful`).
2. `InvokedUnderLease`: a command is invoked from `send` alone, a station no handler comes back to, under a lease; and what is leased is past
   refusal (`GrantedIsPast`). So nothing flies of a command that was rejected, queued or is unsent, then or later.
3. `RecordTruthful`: an attempt that failed, runs or is proven was answered, so its handler is past sending and no second
   invocation can follow. Evidence was read while nobody's turn ran and the command was no longer flying; as only a flying prompt
   takes a turn, evidence stays true however old it is when it completes the command.
4. `StopBehind`, for `StopNeverOvertakes`: while a prompt waits to begin, a Stop admitted after it stands behind it in
   the queue. `OneAdmission` gives that no Stop was there before it: a prompt's transaction
   is the only one pending and finds no Stop with an attempt. `CallJoins` and `CallReturns` are what a queue does.
5. Most steps only settle what is there (`AllSettle`) and share one lemma (`SettlingStepPreserves`); six writes of the
   Store, the moves of the queue and the daemon's have their own.

The argument for the relay goes from the tables outwards.

1. `SlotsInvariant`: a grant a lookup has found is spent, and one attempt's alone, from the
   lookup on; a route's table is just the connections that have not left it. A delivery can
   only begin to close connections (`Quiet`), so only an admission and a close touch the tables.
2. `TunnelShape` and `FramesTrue`: what a tunnel puts on the wire fits its channel, and a frame
   that fits goes on fitting, because writers only write more. Each step is one of a few moves of
   the two directions of the sockets, and `Attached`, `Left` and `Forwarded` deliveries are treated once.
3. `StreamsWhole`: a host's tunnel has one writer. A device may meet several hosts, one after the other, and the
   invariant is about order: between the data of two hosts in front of a device there is the notice that the
   first has left, and reading it ends the tunnel (`OneHost`). A tunnel advances in five ways
   (`Advances`), each of which keeps what was read a beginning of one writer's chunks; the refinement reads off.
4. `EndsTold`, for `PeerEndOnItsWay`: a host has the notice of a device that left in front of it,
   behind every `peer_open` it answers, or has read it; a device has it for each host that knew of it. That a
   buffer is full is no exception: the relay closes a connection it cannot tell.
5. `AcceptedKept`, for `AckedNotLost`: the relay puts a frame on its way and its verdict on the way back in one step, so
   every chunk a writer has, or will read, as accepted is with its reader or in front of it (`RelayKept`); what the clients
   read tells a writer nothing more (`ClientLearns`) and takes no chunk from a reader but into its stream (`ClientReaches`).
   What has to be shown is that this reader stays the same: that none opens to which nothing was sent, while the writer
   hears of no end. It rests on the two parts before (`HearingKept`), and on the order of what a host hears: a
   `peer_open` comes before anything else of its channel (`Knows`). Counting frames is the last step only (`AckedFollow`).

The argument for the outbox. What the file says is behind what was sent, and what an answer says may be behind what the
host has done since; the invariant relates them through the tasks that hold each.

1. `Reservations`: what is in the file, was sent, or is in the hands of a task at work has its id reserved for
   that very envelope. `Connected`: a task that has asked captured the connection that is still up, and
   its host is the command's.
2. `AnswersTrue`: an answer on its way is for a task that still awaits it, is the only one for
   it, and if it is an outcome, it is the host's. Host outcomes are for good (`OutcomesKept`), so it stays true.
3. `RemovalsEarned`: who is about to remove an entry, or has taken a proof, knows an outcome. `SentOnce` then follows
   for each step: what was sent is over, or it is in the file as other than waiting and its submission is not before
   its transmission.
4. A step moves one task (`OnlyTask`), so each part is shown for that task alone; the two
   channels are handled by `MessageSent` and `MessageGone`. `NoBlindResend` is an action property of the invariant: only
   `FirstWritten` sends, and `SentOnce` says that it then has nothing open.
5. `ProvenInvariant`, for `ProofIsFinal`. Four actions write the file (`EntriesWritten`). What keeps the two that hold the entry
   of a proven prompt from making it anew is the fence, and who may drop it: a task that writes under the lifecycle lock is the first
   in its order (`LocksHeld`), so no other task leaves the lock meanwhile; a submission at work keeps the fence until
   its own end, or its entry is still there (`RemovalsKnown`). A put without the lock has no such protection. What the
   host sends behind a proof says that the prompt has completed (`ProofsLast`), so a reconciler starts no such put afterwards; one
   it had queued before stands in the file's queue before the update of the proof (`PutsOvertaken`), while the fence is
   up. That last fact rests on the order of the connection (the host answers requests and signals in turn) *and* on that of the
   promise chain of the file: the code is correct because both are first in, first out.

The argument for OAuth. Each of the four properties relates one side's journal to something that is on its way: a session
to its record, an answer to the ledger, a queued start to an absence.

1. Records move on in an order, `Became`: each write the code makes is one the journal takes (`Moved`), its revision
   follows from its phase, and the desktop's own table of phases contains that order. So what the desktop noted, or was
   answered a while ago, stays a past of the record (`Follows`, `AnswerFacts`), and `NeverRefused` is a conjunct of the
   invariant rather than a consequence: no write and no answer falls outside a table.
2. `SessionFacts` says which phases a record has while a session or a helper of it is alive. It must allow what a crash
   and a drift of the credential directory leave: a helper without a session, a record past its helper. `OneBarrier`, `LaneFacts` and `OneLane`
   are why a second sign-in does not start beside it.
3. `RequestFacts`: a request somebody waits for is the one its operation sent on the present connection, one
   per attempt, and no start comes after a read of the same attempt. What nobody waits for is dropped in order
   (`Thins`); that is shown of the recursive function `Remaining` by a least counterexample in the length of the queue.
4. `NeverBegins` is what an absence establishes: no record, no operation that would send a start, and no start
   queued but on connections older than the one that was told, which `Entitled` turns away. That a read is
   answered behind the starts before it is `Orderly`; that a newer connection is not told while an older start is already in the lane is
   `LaneFacts`.

The argument for the Store's files. `CatalogClosed` speaks of every instant and `FilesAgree` of a Store at rest; what
connects them is how far the transaction or the pass in between has come.

1. `DurableFacts` hold of the files alone, so a crash keeps them by definition. A rollback plan removes only what comes
   after all it retains (`PlanFact`): that is why the catalog stays closed while `removeArtifact` takes files away one by
   one, and why a plan that no longer matches the files must throw rather than go on. Resident state is only of
   threads with an authority (`AuthorityFacts`), which rollback checks for in turn. A pending publication is the only one and
   replaces one row of the catalog *as it still is* (`PendingFact`): the file holds a whole catalog, and replaying one that
   was older than another bootstrap's row would take the row away. `AgreementFact` is `FilesAgree` thread by thread, with
   the exception of a bootstrap under way.
2. No bootstrap is open while a publication is pending. It is the fact the first three rest on, and nothing in one method shows it:
   bootstraps are begun and publications prepared by a serving Store only, one at a time, and `initialize()` settles
   the one kind before it replays the other.
3. `ModeFacts` says what each pass of `initialize()` has established for the next, `CallFacts` what the method that
   holds the mutex has written before its next write, `RetiringFacts` the same of the retirement nested in it: that the group is fenced
   before a record goes, and that the thread's end was published before its history is dropped.
4. A step writes few variables; `Writes` names for each action those it leaves alone, so that each of the parts above has an obligation
   only for actions that can disturb it. `OneRecord` and `PlannedIs` do the same for the records of bootstraps.
5. `ResidentInvariant` is about what the files *mean*: which binding each phase of a record has (`RecordFacts`), what a fence says
   of the group it was written for (`FenceFacts`), and whose session a thread shows (`ViewFact`, of `View`, which is what the thread
   shows once its pending publication is materialized). Two records of a thread are never open together, but for a
   completed end and its provision, which are past being open; that is why `Open` counts a committed provision only while its binding
   commands. `ReservationFact` speaks of the registered bootstrap from before its reservation has a record until after an exact
   retirement has taken it; the window between the record's commit and its reservation is `Kept`'s exception in `ResidentModeFacts`.
6. For the refinement, a thread shows its `View`: the write of a pending file, and nothing that materializes it, is the step. `Shown` lists the
   four steps that change a view. A session is `Spent` when its end is shown, its binding completed or its operation fenced. `ReachedMoves`
   shows when a cursor changes, `SpentStays` that a spent session stays so and is not published again, `SpentGrows` which steps
   spend one. A retirement drops the history of a session that is spent, which is
   `Forget`; the fence of a failed provision is `GiveUp`, and everything else stutters.
7. `StartInvariant` adds what each check of a recovery pass rests on. Most of it was settled long before the crash, by another
   method. A rollback throws unless its plan is current, and it is to the end (`UndoFact`), for nothing new begins beside a
   bootstrap under way: it is the only one, and no reservation but its own waits for a record (`AloneFact`). A reserved record can
   be prepared because the workspace was free when the request was admitted (`WriteFact`) and stays so until the
   bootstrap commits and its record is written (`OpenFact`, `DueFact`; `FreeStep` carries it over every step in between).
   A replay is authorized because the cursor and the two files of its thread are among those it was read from
   (`OverFact`), and no dispatch is unknown past its evidence (`UnknownFact`). A retirement finds its public proof because a completed
   end stays what its thread shows, with nothing open there, until it is retired (`EndedFact`, `QuietFact`), and
   the marker keeps the proof it was written with (`ProofFact`). `GivingUp` lists the steps that give up; the `...Works`
   lemmas refute them one by one.

`store_safety` checks `RecoveryInvariant`, of which `StoreInvariant` is a conjunct, and `dispatch_safety` checks
`DispatchInvariant` with TLC, so proof and check speak of the same formulas. `TypeOK` and
`DispatchTypeOK` are conjuncts of them, and `RetiredUnreferenced` follows: they have theorems but no run of
their own. `LifecycleInvariant`, `CommandsInvariant`, `RelayInvariant`, `EndsTold`, `AcceptedKept`, `OutboxInvariant`, `ProvenInvariant`, `OAuthInvariant`, `FilesInvariant`,
`ResidentInvariant` and `StartInvariant` were checked with TLC on the instances of `lifecycle` (with two sessions), `commands`, `relay_streams`, `outbox`, `oauth` and `store_files`
(whose MC modules extend theirs) before they were proved (`AcceptedKept` for counts up to five); the runs keep the properties that follow from them.

Only model-checked: liveness, which the prover does not treat. Every invariant, action property and refinement a
passing run checks has a theorem.

## 5. Findings

1. `acknowledged_end_lost`. Recovery (store.ts:12810-12817) re-checks the
   workspace authority of every nonterminal record. An end in
   `kill_acknowledged` whose directory is missing at that restart becomes
   `quarantined / authority_changed`. Nothing settles it later: reconciliation
   accepts only an unknown kill. Its detached binding is then rejected by
   `validateResidentState` (13010-13016) and the resident subsystem of the host is
   degraded at that very restart and every later one.
2. `end_refused_after_refresh`. A retained attempt holds the binding it was
   settled under; a reconnect may refresh the active binding's supervisor
   generation meanwhile (store.ts:4591-4607 refuses only a change of the stable
   authority). `assertResidentEndDispatchTransitionsUnlocked` (9471) compares the two
   for deep equality and refuses the End. An acknowledged attempt may still be
   completed by its proof; an uncertain one can only be retired by an End.
3. `proof_never_completes`. Idle evidence must be strictly newer than the cursor
   the Store recorded with the acknowledgement (adapter 3153-3161), and that is
   the cursor of the published snapshot (store.ts:5674-5678). If the turn is over and
   its terminal projection is published before the acknowledgement is
   recorded, no evidence of that turn is newer. The prompt keeps its lock until the session
   changes once more, hostd restarts or the thread is ended.

`completeAcknowledgedResidentEnd`, which takes up an end between its
acknowledgement and its completion, is not an action: `AcknowledgedNotServed`
shows that no caller of a serving Store ever finds such an end, because the method that
acknowledges it, and the recovery that finds it, finish it or stop serving.

Two observations are modelled as the code has them and are no findings: a full
registry is refused inside the boundary that clears `initialized`
(`RefuseRegistryFull`), and repeating the request of an end quarantined after its
acknowledgement faults the Store (`CanSupersede`).

Four more of the dispatch path. Evidence that was read once is handed out for
as long as the connection lives (adapter 2736-2760), so when a newer snapshot
has been published meanwhile every retry is refused as superseded until a
restart (`ObserveIdle`, `ProveIdle`). A thread with a retained attempt and a missing workspace
directory makes `initialize()` throw for the whole host (`RefuseToServe`), although a
missing directory alone only degrades resident continuity; `InitializeServes` is
stated for workspaces that stay. `beginResidentDispatch` does not look at the Stop
lock: `StopNeverOvertakes` holds because of the mutex's order alone. A refused
settlement leaves its attempt `dispatching` until the next restart
(`RefusedAnswer`).

Two of the lifecycle that earlier had runs of their own. A commit that stopped after its active binding and
before its record, restarted once without its directory, is quarantined from
`projection_committed` with an active binding; one half of the cross-check has a case
for this (13072, `crashSafeActive`), the other (13033-13040) refuses it at that restart and every
later one (`RecoveryServes` is stated for histories without it). The gateway's custody check
runs between the kill lease and
the adapter (verified-resident-gateway.ts:583-587); its error is no runtime
contract error, so the coordinator asks for a quarantine, which the Store
refuses because the record is still `ending`, and the lease stays: each later end is refused with
`RESIDENT_LIFECYCLE_LEASE_ACTIVE` until hostd restarts.

Three of the files of the Store. An end whose projection was prepared and whose workspace is
missing at the next restart is quarantined as `authority_changed` by the pass before the replay (12807-12813); the
replay then demands an `acknowledged` record (7038-7104), so that restart throws, and so does every later one, with the
directory back (`EndProjectionAuthorized`): `StartsUnlessMissing` excepts histories with such a record. A registered bootstrap that
committed, whose reserved record is not yet written and whose workspace is missing at a restart, costs the resident subsystem, for a
committed record admits no rollback; it recovers when the directory is back (`PlanRollback`). `ReservationFree`
of a new bootstrap looks at every open operation of the workspace, `WorkspaceUnreserved` of a plain provision only
at reservations: two plain provisions of two threads may be open in a workspace whose reservation
is settled, and `ReservedExclusive` says no more than the code ensures.

Of the outbox. A proof that was taken by the idle signal while a poll for it is in
flight leaves the poll neither entry nor fence, and `completed` ends the connection with
`protocol.prompt_idle_identity_ambiguous` (service.ts:6479, `CommitAmbiguous`); the same befalls a
signal that waits for the lifecycle lock while `endCommandSubmission` deletes the fence (6093-6101),
although the comment at 6376 and control-service-recovery.test.ts:1724 expect the repetition to be harmless. A
follow-up put to wait after a new connection has read the outbox waits, while online, for the next
connection (2809). An entry whose idle signal was lost and whose one
reconciliation timed out stays until the next connection. So does a finished entry behind 32 that the host does not know: a poll takes
the first 32 (3645) and leaves those where they are (3683-3692). No document promises otherwise; `OutboxDrains` excepts
exactly this (`Starved`), and without the exception TLC shows the starved entry on the instance of `outbox_batch`.

Of OAuth. The `start_dispatching` barrier that a start left which never reached the host blocks
sign-in on that desktop, for the host can never speak of it. A crash during login or storage, or a
connection lost between the `login_dispatching` mark and the session, leaves
`recovery_required`, and the resolutions that would settle it have no caller. When the
credential directory drifts while credentials are stored, `getAuthStatus` records
`persistence_failed` with the storing helper alive (`CustodyDrifts`); `EffectsOnce` excepts exactly
that helper. After an ambiguous journal write `cancelAttemptSession` throws before it
interrupts, and `close()` can wait for a login nobody interrupts. An attempt is added to
`runtimeOAuthBrowserEligibleAttempts` after writes during which its connection may have closed;
no page follows only because the renderer never learns the session id of that failed start.

## 6. Plan

1. **done** `LifecycleStore`, `SessionAuthority`, proofs; `ResidentLifecycle`.
2. **done** `ResidentDispatch`, `CommandLedger`, `ResidentCommands`, proofs.
3. **done** `RelayServer`, `RelayTunnel`, `ByteStream`.
4. **done** `DesktopOutbox`.
5. **done** `OAuthBroker`, `OAuthAttempts`.
6. **done** `ResidentProjections`, `StoreFiles`, `PublishedThreads`: publication, end projection, retirement.
7. **done** `WorkspaceBootstrap`: bootstrap, adoption, rollback, reservations.
8. `EndpointOwnership`: two hostd processes that start at the endpoint of a dead one (`acquireUnixEndpointOwnership`,
   server.ts:1001-1110); preference attempts on the pattern of `ResidentDispatch`.
9. Proofs. **done** the relay's streams, the outbox's and OAuth's invariant, the Store's recovery,
   `CatalogClosed`, `FilesAgree`, `ReservedExclusive` and the refinement of `PublishedThreads`. The safety of `ResidentLifecycle` and
   `ResidentCommands`, `AckedNotLost`, `ProofIsFinal` and `StartsUnlessMissing`. What is left of the properties is liveness.

## 7. Not modelled

* *Renderer, preload and Electron shell* show projections and call the control service; they decide
  nothing about authority. *Browser bridge and build scripts* are packaging and a browser
  controller outside the host's protocol.
* *Runtime catalog, provider setup, security and probes* inspect the host and parse what child processes print:
  their state is what was last read.
* *Framed transport*: only what the outbox and OAuth rely on (requests served in order, one answer or none, a connection that
  ends) is modelled; chunk reassembly and codecs are conversions.
* *Resident worker proxy* multiplexes the adapter's calls over a pipe to a worker process; what the adapter
  can observe of it, a lost or late answer, is in `ResidentLifecycle` and `ResidentCommands`.
* *Pairing authority* and *handoff receipts* have no production caller in this build.
* *Endpoint ownership and runtime initialization*, *preference attempts* and *candidate evaluation* are state machines of
  their own worth a model; the first two come next in the plan.
