# TLA+ models of devtools-shared

This directory holds specifications of the stateful parts of the packages in
`src/packages`, configurations that model-check them with TLC, and proofs that
TLAPS checks. Line numbers are those of the sources at this commit.

## 1. Inventory

devtools-shared is a monorepo of packages that MongoDB's developer tools (mongosh,
Compass, the VSCode extension) are built from. Many packages are data, generators
or pure functions. These have state that outlives a call, or a step that can
fail half-way:

| Component | State | Operations | Interacts with |
|---|---|---|---|
| SSH agent, `devtools-proxy-support/src/ssh.ts` | one `ssh2` client, `connected`, `connectingPromise`, `reinitializingPromise`, failure counter, `closed` | `initialize`, `connect` (retried once), `destroy`, events of the client | an SSH server; called by the tunnel, by fetch and by the HTTP proxy agent |
| Socks5 tunnel, `devtools-proxy-support/src/socks5.ts` | local server, set of connections, `closed`, `agentInitialized`, `agentInitPromise` | `listen`, `close`, `socks5Request` | an agent; created and closed by devtools-connect, used by the driver |
| Proxy agent and fetch, `agent.ts`, `fetch.ts`, `system-ca.ts`, `proxy-agent.ts` | request lock around `getProxyForUrl`; promises of the CA list and of the initialized agent; an LRU cache of agents | `connect`, `initialize`, `destroy` | the SSH agent, the system's certificate store |
| Connection establishment, `devtools-connect/src/connect.ts` | failed servers per attempt, list of cleanups, agent, tunnel, OIDC state | `connectMongoClient`: an attempt with and one without the system CA | driver, tunnel, agent |
| State share, `devtools-connect/src/ipc-rpc-state-share.ts` | HTTP server on a local socket, abort contexts of its calls | OIDC callback and its abort as separate requests, `destroy` | other processes |
| Log retention, `mongodb-log-writer/src/mongo-log-manager.ts` | a directory of log files shared by every process of a user | `cleanupOldLogFiles`, `createLogWriter` | the other processes, through the directory |
| Log writer, `mongo-log-writer.ts` | a stream with a target, possibly behind gzip | log, `flush`, `end` | the file |
| Downloader, `mongodb-downloader/src` | a directory per version, `.artifact_info`, a lock file | `downloadMongoDbWithVersionInfo`, `withLock` | other processes through the directory; `download-url` |
| Version list, `download-url/src/version-list.ts` | `full.json` in memory and in a cache file | `getFullJSON`, `clearCache` | the network, other processes through the file |
| Cluster runner, `mongodb-runner/src` | server processes, clusters, files that describe them | start, exec, stop, prune, restore; the arguments, ports and shards that options ask for | mongod processes, docker, disaggregated storage |
| Start of a server, `mongoserver.ts` | the log stream and the filters on it | `start`, retried by a mongos | the server's standard output |
| Log checker, `mongodb-server-log-checker/src` | contexts to ignore, filters, collected warnings | `allowWarning`, `noServerWarningsCheckpoint`, `close` | a cluster of the runner |
| Device id, `device-id/src` | a race of three outcomes | `getDeviceId` | native-machine-id |
| Schema analyzer, `mongodb-schema/src` | accumulated types and values, a cache of the result, schemas converted from it | `analyzeDoc`, `getResult`, the accessor | - |
| OIDC mock provider | codes, each usable once | HTTP endpoints | tests |
| Completion, `mongodb-ts-autocomplete`, `ts-autocomplete` | what is known of collections and schemas, files of a language service | `autocomplete`, `updateCode` | a server, the TypeScript language service |
| Release tooling, `monorepo-tools/src` | the `package.json` files of a repository | `bump-packages`, `depalign` | git, npm, a run that was killed before |
| Vulnerability report, `sbom-tools` | tickets in Jira | `generate-vulnerability-report` | Jira, a second build |
| Proxy options, `proxy-options.ts`, `socks5.ts` | - (a translation, of which an agent, a tunnel and Electron see different forms) | `getProxyForUrl`, `createSocks5Tunnel`, `translateToElectronProxyConfig`, secrets | the environment, the SSH agent |
| Queries as text, `shell-bson-parser`, `query-parser` | - (text, value and text again) | `parseFilter`, `validate`, `toJSString` | the user, Compass |
| Signing, `signing-utils/src` | a working directory on a signing server | `sign` | ssh, docker |

The rest (`components` in `PROJECT.json` lists every package) has no state between
calls, or is generated code, data, user interface or batch I/O.

What is hard here is the same everywhere. JavaScript runs one piece of code at a time,
so the races are those of state read before an `await` and used after it, of promises
shared between callers, and of events that arrive when the object they concern has
been replaced. Where several processes share a directory, a server or a Jira project,
every operation on it is a step of its own, and a process can be killed between
any two of them. `PROJECT.json` lists the hazards, each at its line, with the
properties that cover it. Where a property leaves out a case of a hazard by name, the hazard has a
note that says so; where it leaves out the hazard itself, or holds because it is assumed away,
the hazard has no property, only the note.

What makes each modelled component correct:

- *SSH agent*: callers share one session; a dead server costs a bounded number of
  clients; nobody joins an attempt that is over; every call settles; closed is final.
- *Tunnel*: one initialization at a time, nothing forwarded before it succeeded;
  `close()` returns, and when it does nothing is connected.
- *Proxy agent*: a proxy is chosen from the headers of the request it is for; an agent
  that nobody can get at any more has been ended.
- *Proxy options*: a request, the tunnel and Electron treat the same target alike, and no
  secret is left where secrets were taken out.
- *Connection*: a failed attempt leaves nothing up; a client that was returned keeps the
  agent and the tunnel it runs on until it is closed, and takes them with it; giving up
  early is justified; the call ends.
- *State share*: after `destroy()` nothing serves; an abort ends its call.
- *Log retention*: a recent file is deleted only if the most recent ones that the
  limits allow are still there, whoever else deletes; an undisturbed cleanup
  leaves the directory within its limits.
- *Log writer*: the file holds the entries in their order, and a `flush()` that
  resolves says that those before it are there.
- *Downloader*: one process at a time writes the directory; the marker is only
  ever beside a complete directory, and a directory that was handed out is not
  written again; nobody waits for ever.
- *Version list*: whoever reads the cache file reads a whole list, and none is
  returned that is older than twice the cache time.
- *Choice of a download*: what is handed out runs on the host, and is the newest that
  does.
- *Runner*: while a server runs there is a file that says so; a cluster started
  with strict checks can be recognised by `prune`; a server that was started has its log read,
  and a start that fails leaves no server, unless it was for the log file.
- *Cluster options*: the port that was asked for is given to one server, the storage knows
  the members that run, a set that waits for a primary is initiated with one that can be elected, every shard is added
  once.
- *Log checker*: a checkpoint throws the warnings since the one before, those that were
  not allowed, once each.
- *Device id*: `onError` is told of the one outcome that came first.
- *Schema*: the result counts the documents that were analyzed, and every schema made
  from it is a valid one and admits them, if its format can express what they hold.
- *Queries*: a value that is shown as text is read again as the same value, and what is
  called valid can be used.
- *OIDC provider*: one token for each code, none after a wrong verifier.
- *Completion*: the files an answer is made from say what is known by then.
- *Release tooling*: after a run that ends, ranges are in step with versions; a run
  after one that was killed ends where that one would have.
- *Vulnerability report*: one ticket for each vulnerability that deserves one.
- *Signing*: a job that meets no fault and no other job signs its own file; a remote one that
  resolves takes the file it uploaded off the server and closes its connection.

## 2. Modules

| Module | Models | Model-checked by | Proofs |
|---|---|---|---|
| `SshAgent` | `ssh.ts` | `MCSshAgent` | `SshAgent_proofs` |
| `Socks5Tunnel` | `socks5.ts` | `MCSocks5Tunnel` | `Socks5Tunnel_proofs` |
| `LogCleanup` | `mongo-log-manager.ts` | `MCLogCleanup` | `LogCleanup_proofs` |
| `Downloader` | `mongodb-downloader/src/index.ts`, `with-lock.ts` | `MCDownloader` | `Downloader_proofs` |
| `Publication` | what the downloader promises (abstract) | through `Downloader` | implemented by `Downloader`: `Downloader_proofs` |
| `Connect` | `connect.ts` | `MCConnect` | `Connect_proofs` |
| `StateShare` | `ipc-rpc-state-share.ts`, the state in `connect.ts` | `MCConnect` | `Connect_proofs` |
| `DevtoolsConnect` | a connection and its state share (composes `Connect`, `StateShare`) | `MCConnect` | `Connect_proofs` |
| `Runner` | `mongocluster.ts`, `mongoserver.ts`, `runner-helpers.ts` | `MCServices` | `Runner_proofs` |
| `ServerStart` | `MongoServer.start`, `_start`, `mongologreader.ts` | `MCServices` | `Runner_proofs` |
| `ClusterPlan` | the options of `mongocluster.ts`, `sls.ts` | `MCServices` | `Runner_proofs`, in part |
| `LogChecker` | `mongodb-server-log-checker`, events of `mongocluster.ts` | `MCServices` | `Runner_proofs` |
| `Servers` | servers and those who read their logs (composes `ServerStart`, `ClusterPlan`, `LogChecker`) | `MCServices` | `Runner_proofs` |
| `VersionList` | `version-list.ts` | `MCServices` | `Releases_proofs` |
| `DownloadChoice` | `download-url/src/index.ts`, `linux-distro.ts`, `getVersion` | `MCServices` | - |
| `ProxyFetch` | `agent.ts`, `fetch.ts`, `system-ca.ts` | `MCServices` | `Services_proofs` |
| `AgentCache` | `proxy-agent.ts` | `MCServices` | `Socks5Tunnel_proofs` |
| `ProxyRoutes` | `proxy-options.ts`, `createSocks5Tunnel` | `MCServices` | `Socks5Tunnel_proofs` |
| `Proxies` | which agent serves a request and where it sends it (composes `AgentCache`, `ProxyRoutes`) | `MCServices` | `Socks5Tunnel_proofs` |
| `DeviceId` | `get-device-id.ts` | `MCServices` | `Services_proofs` |
| `OidcProvider` | `oidc-mock-provider` | `MCServices` | `Services_proofs` |
| `SchemaAnalyzer` | `schema-analyzer.ts` | `MCServices` | `Services_proofs` |
| `SchemaConvert` | `schema-accessor.ts`, `schema-converters/` | `MCServices` | - (uses `RECURSIVE`) |
| `QueryText` | `shell-bson-parser`, `query-parser` | `MCServices` | - (uses `RECURSIVE`) |
| `Autocomplete` | `autocompleter.ts` and its caches | `MCServices` | `Services_proofs` |
| `TsService` | `ts-autocomplete` | `MCServices` | `Services_proofs` |
| `Completion` | the autocompleter and the language service (composes `Autocomplete`, `TsService`) | `MCServices` | `Services_proofs` |
| `PackageBump` | `bump-packages.ts` | `MCServices` | `Releases_proofs` |
| `Depalign` | `depalign.ts`, `semver-helpers.ts` | `MCServices` | `Releases_proofs` |
| `VulnTickets` | `generate-vulnerability-report`, `jira.ts` | `MCServices` | `Releases_proofs` |
| `Signing` | `signing-clients/`, `garasign.sh` | `MCServices` | `Releases_proofs` |
| `LogWriter` | `mongo-log-writer.ts`, `createLogWriter` | `MCServices` | `LogCleanup_proofs` |

`MCConnect` and `MCServices` put components that share nothing into one run each: `part`
names the one that takes steps, the others keep their one initial state. `MCServices`
looks at states through `View` (what the part that is running can tell apart), and
cuts off by `Bounds` what is interchangeable; a reader of one component can ignore
the others.

Each module names a few *deviations*: operators of the form a small slip in the code
would give (a missing check, an off-by-one, a promise that is not cleared). No
specification uses them; they are there to see that the properties notice them.

### SshAgent

`call[p]` is one call of `initialize()` or `connect()`. Its `pc` says where it waits
(reading the key file, for a client's event, for somebody else's reinitialization,
for a channel), its `at` which of the four places that call `initialize()` it came
through. An action is the code between two awaits. Continuations of settled promises
run before the next event of a socket is served, as microtasks do (`Quiescent`).
Retrying (`Retry`), replacing the client (`Reinitialize`, which is `initialize(true)`
with the synchronous part of `_doReinit`) and dialling (`Establish`) are operators,
used by every action whose code runs through them.

`cl[k]` is an `ssh2` client, reduced to its socket: idle, dialling or up, with the
close event of an earlier socket still to come or not. `connect()` on a client with a
live socket ends that socket first, as `ssh2` does. Clients are reused once they are
silent (no event is to come and nobody refers to them), so that a few identities
stand for any number of clients. The constant `SilentClose` says whether a client that
was ended while dialling may close with neither `ready` nor `error`; with `TRUE` a
caller may wait for ever, so `CallsSettle` and `NoOrphanedWait` are checked with
`FALSE`, everything else with `TRUE`, which has the larger set of behaviours.

A target that is no URL, a channel the server refuses, a fatal client, a lost
connection and a key file that cannot be read are nondeterministic outcomes.

### Socks5Tunnel

Users of `ensureAgentInitialized` are `listen()` and the requests. `init[u]` is where
each of them is, `req[p]` and `sock[p]` are the request and the socket of each peer.
`close` holds what a running `close()` still waits for: the server's close event and
the sockets that were in `connections` when it started. Node's `net.Server` is
modelled by what `socks5.ts` uses: `close()` stops listening at once, its event comes
when every socket is gone. The agent is external: `initialize()` succeeds or
fails, a channel is there or not. `close()` is called once, after `listen()`
resolved, by the one owner of the tunnel, as in `connect.ts:557`.

`TunnelSettles` names one exception for each call. A peer that hung up while its
channel was being opened is accepted as a dead socket, and `closeOpenConnections`
(line 272) waits for a close event that has been already (`Stuck`). And a `listen()`
whose `initialize()` failed waits for the server to close, which waits for
every peer, so that a peer forwarded after a second `initialize()` succeeded holds it up.

### LogCleanup

`cleaner[p]` is the call of `cleanupOldLogFiles` of a process, with one action per
file operation: `Open`, `NextEntry`, `Stat`, `Unlink`, and `Trim` for the loop over
the heap. The heap is the set of its files; `Victims` are those it may pop, the ones
with the least stamp. That is more than one when stamps are equal: which one `heap-js`
pops depends on the order of the listing. `ScanFails` is the nested call after a
failed scan, `outer` what the outer call goes on with. The time limit may end a loop
at any point. `CreateLog` adds a file of this second. The ghost `listed` remembers
what an undisturbed scan saw, and is emptied by whatever cuts a cleanup short
(time limit, failed `unlink` or `stat`, failed scan). Files are created in the order
of their stamps, for a stamp is the second of creation.

### Downloader and Publication

`pc[p]` is where a process is between the check before the lock and the release.
Writing the marker takes two steps, for `fs.writeFile` empties the file first.
`Crash` kills a process anywhere. The lock file of `proper-lockfile` is modelled by
what `with-lock.ts` relies on: it is refreshed while its holder runs, may be taken
over once it was not refreshed for `stale`, and a holder that finds that out is told
through `onCompromised`, whereupon `withLock` rejects while the callback goes on.
The ghost `overslept` says that a holder did not run for that long.

`Publication` is the abstract specification: a directory is prepared in any order of
attempts and failures, published once, when it is whole, and never touched again, and
nobody is told of it before. `PublishesOnce` maps `content` to `files`, `published`
to a whole marker and `told` to `outcome`, and says that every step up to the first one
in which a holder oversleeps is a step of `Publication` or a stutter.

### Connect

One action is the code between two awaits that wait for I/O; an `await` of a promise
that is settled is not one. Each call makes at most two attempts (with the system CA
and, after a TLS error, without). `pc[a]` is what an attempt awaits: the agent, the
tunnel, the client that checks for encryption, the resolution of the host, or the main
client. Driver, agents and tunnel are external: each may fail wherever the code awaits it,
the driver sends heartbeats of each server and changes of the topology until a
client is closed. `failed` is `failedConnections` in the order of the `Map`, `early`
the promise of `connectWithFailFast`. `todo[a]` is `cleanupOnClientClose`, `runner[a]`
the cleanup that each of the two `runClose` awaits, the one of the catch block and the one
of the client's close event: both work off the same list. The ghost `broken` holds the
attempts one of whose cleanups rejected, `down` the servers whose last telling
heartbeat was one that fails fast. `EarlyMeansAllDown` relates `early` to `down`.

### StateShare

Getters of `getStateShareServer()` create servers and store them in the state, whose
`destroy()` closes the one it holds. A callback is a request; its abort is a request of
its own that may arrive before it, after it, or never. `contexts` are the abort contexts
of a server, `signalled` the calls whose context was aborted. The ghosts `missed` and
`overlapped` name what the properties leave out: aborts that arrived after the
context was gone or before `randomBytes` had given the call its id, and
servers that a second getter overwrote.

### Runner and ServerStart

`main` is where `start()` or `exec()` is, `grp` the start of each group (replica
set, shard, mongos processes), `srv` the object and `proc` the process of each server.
`entry` are the servers whose database holds the entry that tells a server
of this runner from another one that took over its port (`foreign`). `file` is
the description that `stop` and `prune` read; these are `cmd`, run by other processes,
which restore each server from the file and stop it, or take it for dead. The
ghosts are `mistaken` (a server ran when a command took it for dead: its port did not
answer in time) and `pruned`. `ClustersAreFound` says that a server whose file is gone runs
on only if it is one of those, and that a cluster that was started with
strict checks has its entry on each server that can hold one.

`ServerStart` looks into `start()` of one server: the lines it writes, the stream of
entries that is piped to two filters, which take themselves off in an order that
depends on the server, and `errors`, by which a mongos decides to try the next port.
Between the spawn and all that the log file is opened; if that fails, `start()` rejects and the
server is `abandoned`, which is `LogFileFails` of `Runner`. The two modules share nothing but
the outcome.

### VersionList

A list is the time it was fetched at. Each process has its `memory`, all share `cache`,
and the calls of a process share the temporary `partial` file, which is named after the
process. Opening, reading, writing, renaming and unlinking are steps. The clock ticks
only while no call runs (`CacheTime` is ten days). Ghosts: `clashed`, when a call
removed the temporary file of another one, and `resaved`, when the list that is saved
is not the one the call has fetched; `CacheIsSound` holds up to those.

### The other parts of MCServices

- `DownloadChoice`: `getDownloadURL()` on one host with a list of versions. A system is
  its name and the two parts of its release, a target a family with the digits behind
  it, as in `rhel83`. What the names mean (`Since`, `RunsOn`) is the specification,
  in the order of the releases; the code compares digits.
- `ProxyFetch`: requests wait for the CA list and the agent's `initialize()`, take the
  request lock, and release it in `getProxyForUrl`, which reads the headers of `_req`.
  `stuck` are those that failed before they asked and never release it.
- `AgentCache`: the import is awaited between lookup and entry. `created` numbers the
  agents, `ended` those that were destroyed.
- `ProxyRoutes`: options, environment and target are members of small sets; where a
  request goes is a route (direct, a proxy, an SSH server). The rules of `noProxyHosts` are
  sequences of items, each a host, a suffix or everything. Electron and the driver, which only sees the tunnel,
  are external.
- `ClusterPlan`: arguments are the values of `--port` in their order, the roles and the
  name of the set. `sets[g]` is where the start of a replica set is, `told` the ports that
  the storage was told of before the servers start. A port that `allocatePort()` has found
  is free until somebody listens on it. Servers are external: one that is given two ports,
  or one that is taken, does not start.
- `QueryText`: a text is its syntax tree, a value a tree of BSON types. What is typed is
  checked (`Safe`), executed (`Walk`) and, shown by `ToJSString`, read again. Arithmetic
  and the results of most methods are one value. Of the methods that any object inherits there
  are three, of the others those that a branch of the code looks at.
- `DeviceId`: id, timer and signal in any order; hashing is data.
- `OidcProvider`: codes are numbers; every request is served in the steps its
  handler awaits.
- `SchemaAnalyzer`: a document is the sequence of nodes (fields and types of a tree)
  that it visits, one step each; `getResult()` may run between any two.
- `SchemaConvert`: the internal schema of a few documents, the three converters, what it
  takes for their results to be schemas (`IsSchema`: Ajv and the server refuse empty lists of types
  or alternatives, and a type that is named twice) and for a document to be valid under
  them (`Validates`). Excepted is what a format has no schema for (`Expressible`). The schema
  is a finite tree and the recursion over it is `RECURSIVE`.
- `Autocomplete`: calls that overlap; `names` and `serverSchema` are the server,
  `cachedNames` and `cachedSchema` the cache in front of it, `connectionSchemas` what the
  connection knows, `schemaFile` and `globals` the files. The ghost `last` is a call
  that was answered with no other call running.
- `TsService`: the service keeps a text until the version of the file changes.
- `PackageBump`: packages in an order that the dependencies allow (any linear
  extension), one write at a time, which may be cut off; a run starts from whatever was
  left. Versions are records of three numbers.
- `Depalign`: one dependency; a range is the set of versions it admits, and whether
  it is an exact one. The order of the packages is that of `package.json`.
- `VulnTickets`: two builds over one Jira project. The vulnerabilities of a report are
  numbered in their order in the list. Jira's `~` search finds words, not phrases.
- `Signing`: script and file are copied to a directory that all jobs share, docker is
  external, the script may be cut off. `copy` is the uploaded file, `signatures` are the jobs
  whose detached signature (gpg) is beside it, where it stays. `unharmed` are the jobs that met neither a
  fault nor another job.
- `LogChecker`: connections are given names that several servers use; listeners of the
  cluster come and go. `unseen` are connections that came before the checker.
- `LogWriter`: entries and flushes wait in the buffer of the stream, then in gzip,
  then are in the file; an invalid entry destroys the writer.

## 3. Runs

Each run states its properties in the `.cfg`; `PROJECT.json` has a sentence for each
run and the deviation that breaks each property.

| Run | Bounds | Shows |
|---|---|---|
| `ssh_agent` | 2 callers, 3 clients, limit 2, with and without key file | `TypeOK`, `ReinitSerialized`, `ReinitBudget`, `AttemptIsPending`, `NoDialOnceClosedNoKey` |
| `ssh_agent_live` | 2 callers, 2 clients, limit 1, `SilentClose = FALSE` | `NoOrphanedWait`, `CallsSettle` |
| `ssh_agent_key_file` | as `ssh_agent` | violates `NoDialOnceClosed` |
| `ssh_agent_stale_close` | as `ssh_agent` | violates `SessionIsReused` |
| `socks5_tunnel` | 3 peers | `TypeOK`, `AgentIsReady`, `ClosedIsQuiet`, `TunnelSettles` |
| `socks5_tunnel_late` | 2 peers | violates `NoForwardOnceClosed` |
| `log_cleanup` | 2 processes, 4 files with distinct stamps, one too old, limits of 2 files and size 2 | `TypeOK`, `MissingIsExcess`, `CompleteIsTidy` |
| `log_cleanup_same_second` | 2 processes, 4 files of one second, limit of 2 files | violates `KeepsMostRecent` |
| `downloader` | 3 processes, 1 crash | `TypeOK`, `HeldWhileAwake`, `MarkedIsWhole`, `PublishesOnce`, `WaitEnds` |
| `downloader_oversleep` | 2 processes, no crash | violates `HeldForCallback` |
| `connect` | 1 call with every set of options, 2 servers; 2 getters, 2 callbacks | `ConnectTypeOK`, `ProxyFollowsClient`, `DestroyedIsQuiet`, `EarlyMeansAllDown`, `BothSettle` |
| `services` | see below | `ServicesTypeOK` and the properties of the table below |

| Part of `services` | Bounds | Property |
|---|---|---|
| `Runner` | 2 servers (one holds data, one does not) of one group, 1 command, 3 sets of options | `ClustersAreFound` |
| `ServerStart` | 2 ports, 2 starts, 1 line that nobody asked for | `ServersAreSound` (`StartIsSound`) |
| `LogChecker` | 2 servers, 1 warning id, 2 checkers, 2 subscriptions of one function | `ServersAreSound` (`UnexpectedIsReported`) |
| `ClusterPlan` | 61 sets of options and compose files, 4 ports, 1 other process that listens | `ServersAreSound` (`ClusterIsWhole`, `PortsAreAsAsked`) |
| `VersionList` | 3 calls in 2 processes, cache time 1, clock to 3 | `CacheIsSound` |
| `DownloadChoice` | 18 hosts, every subset of up to 5 builds, 3 versions, 12 sets of options | `DownloadIsBest` |
| `ProxyFetch` | 3 requests, agents with and without `initialize()` | `LockServesItsHolder` |
| `AgentCache` | 2 requests, 3 keys, a cache of 2, 5 agents | `ProxiesAreRight` (`OthersAreEnded`) |
| `ProxyRoutes` | every combination of options, environment and target that the code branches on | `ProxiesAreRight` (`RoutesAgree`) |
| `DeviceId` | every timeout and signal | `ToldWhy` |
| `OidcProvider` | 2 requests, 3 codes | `CodesAreSpentOnce` |
| `SchemaAnalyzer` | 3 documents over 3 fields, limit of 2 fields | `DocumentsSurvive` (`ResultIsTrue`) |
| `SchemaConvert` | 9 sample documents, up to 2 in a schema, 2 calls of the accessor | `DocumentsSurvive` (`SchemaAdmits`) |
| `QueryText` | texts and values of every kind that is branched on, each shown and read again, 9 fields | `DocumentsSurvive` (`QueriesAreRead`) |
| `Autocomplete` | 2 calls, 2 databases with 2 collections, 2 schemas, 3 changes | `CompletionsAreCurrent` (`AnswersAreCurrent`) |
| `TsService` | 3 files, 2 texts, 3 updates | `CompletionsAreCurrent` (`ServedIsCurrent`) |
| `PackageBump` | 3 packages, one a dev dependency, 2 runs | `BumpsFollowDependencies` |
| `Depalign` | 2 packages and the root, 2 groups, 3 ranges, `*` and a path, 2 sets to ignore, 3 command lines, 2 runs | `RunsConverge` |
| `VulnTickets` | 2 builds, 3 vulnerabilities (one a license), 3 reports | `TicketsMatch` |
| `Signing` | 2 remote or 2 local jobs | `SigningIsSound` |
| `LogWriter` | 3 entries, 2 flushes | `LogIsInOrder` |

Why the bounds suffice for what they are meant to show:

- Two callers are enough for one to reinitialize while the other joins it, and
  for a stale one to clear the promise of the other; three clients let two superseded
  ones still be closing while a third is dialled. The limit 2 is the least that has
  a failure below it. `ssh_agent_live` has the limit 1, so that two clients suffice.
  Its exception `Exhausted` (no client left to create) is the bound of the model.
- Three peers: one that initializes, one that joins, one that comes later.
- Two processes suffice for deletions under each other's hands; four files with a
  limit of two let either process delete twice, and file 0 is past the retention
  period, file 3 as large as the whole limit.
- Three processes: the holder, one that takes over, and one that waits. One crash
  hits any of them anywhere.
- A call of `connectMongoClient` makes up to two attempts, each with two clients and
  two cleanups at once. Two servers are the least of which one can be down alone. Two
  getters overtake each other; of two callbacks one is aborted and the other is not.
- A cluster of two servers has one that is started after the other and one that cannot
  hold an entry; a command that takes one of them for dead finds the other.
- Two calls of one process and one of another: the first two share a temporary file,
  the third replaces the file they read. A clock of 3 makes a list older than twice the
  cache time.
- Three requests: the holder of the lock, one that waits, one that comes while the
  lock is passed on. Two requests with three keys evict what the other has looked up.
- Two overlapping calls per shared variable everywhere else; where an order matters
  (entries, vulnerabilities, packages, commands) there are three, a first, a middle and a
  last one. Two runs: one that is killed or meets a change, and one that repairs it.
- One document of each kind the converters branch on: one type, several, types with the
  same name, only `undefined`, an empty array, an array of documents, nesting.
- The plans of `ClusterPlan` are one for every way to name members, shards, ports and
  roles; four ports are as many as the largest plan has servers that live at once, and one less
  than it needs when another process listens.
- Proxy rules, texts and values are one of each kind that the code tells apart, alone and
  in pairs where one branch looks at the one before.
- The hosts of `DownloadChoice` are one for every path through the table of systems, on
  both sides of its thresholds.

`CHECK_DEADLOCK FALSE` stands where the system may stop: calls of the SSH agent may
all have settled with the agent closed, each socket of the tunnel is used once,
cleanups end, a connection is made and closed once, and the parts of `services` do a
bounded number of things. Symmetry is used in runs without liveness properties only.
In `services` what is interchangeable is fixed in the initial state instead (which
database is in use first, which schema a collection has), or cut off by `Bounds`: of two
subscriptions of one function, of two calls in one process and of the ports that nobody asked
for the first is used first; and as a call of `getDownloadURL()` does not read what another
one returned, the next is made after one of them only.

### Fairness

- `SshAgent`: continuations run. Each source of events is strongly fair, because the
  event loop serves every source again and again but gives continuations precedence,
  which disables the source meanwhile. That an attempt concludes is justified by
  `readyTimeout` (line 112). New calls, `destroy()` and lost connections are not fair.
- `Socks5Tunnel`: the server's events, the agent's `initialize()` and the opening of a
  channel are weakly fair (each of them has a time limit of its own). Peers
  leave what is not answered, and leave when the tunnel is closed: the owner closes the
  driver's client first (`connect.ts:646`). Nothing makes peers connect or stay.
- `Downloader`: processes that are not killed run. A process that waits polls the
  lock often enough to see it free before its 100 retries (`with-lock.ts:28`) are used
  up: strong fairness of `Acquire`. Crashes are bounded and not fair.
- `Connect`: what an attempt awaits ends (`Step`), for the driver, the agents and the
  resolution of a name have time limits; a cleanup that was called ends, and a
  client that closes emits its event. Heartbeats, changes of the topology and
  the user's `close()` are not fair.
- `StateShare`: requests are sent, served and answered, and an abort signal is seen.
  Nothing makes a user abort, so a callback alone need not end.
- The parts of `services` are checked for safety only: what they promise to do at last
  is a matter of the externals they wait for.

### Findings

Five runs end in a violation of something the sources say; `PROJECT.json` quotes it.

1. `ssh.ts:119`: a `destroy()` during the read of the key file does not stop the agent
   from dialling.
2. `ssh.ts:66`: the close event of a replaced client clears `connected` of the agent,
   which then dials again over a live session.
3. `socks5.ts:239`: a request that comes in after `close()` is handed to the
   agent if the agent had been initialized.
4. `mongo-log-manager.ts:114`: files of the same second are ordered differently by
   different processes, which together delete more than the limit asks for.
5. `with-lock.ts:34`: a callback whose lock was taken over goes on.

The properties that hold are stated beside these: `NoDialOnceClosedNoKey` (without
a key file there is no await between check and dialling), `HeldWhileAwake`,
`MissingIsExcess` (with distinct stamps).

### Observations

Modelling the code met more that a maintainer may want to look at. The models follow the
code; where a property had to leave a case out, the case is named in the
property and listed here.

Connections:
- `connect.ts:403` says that an agent passed in by the caller can be shared; `runClose` (528) of a
  failed attempt destroys it, and the second attempt runs with the destroyed agent.
- `connect.ts:632`: if the build info of the encryption check cannot be had, the first client
  stays open. `connect.ts:481` stops at the first cleanup that rejects (`broken`).
- `ipc-rpc-state-share.ts:157`: `close()` waits for a request that waits for a user.
- `agent.ts:105`: the request lock is never released when `super.connect` throws before it has
  asked for a proxy (`stuck`).
- `proxy-agent.ts:198`: of two requests that import at once the second replaces the agent of the
  first, which is destroyed under its request (against line 131); an import that ends after
  `destroy()` leaves a live agent.
- `ssh.ts:217`: a channel that the server refuses clears `connected` although the session is up.
- `get-device-id.ts:43`: `timeout: undefined` does not disable the timeout (line 6).
- `proxy-options.ts:68`: a rule of `noProxyHosts` with a port never matches, though Electron honours it;
  `"a, b"` contains an empty item, which equals the empty host of the tunnel's target, so that no
  proxy is used at all; with a socks5 proxy that target ignores `noProxyHosts` (against 227);
  an empty environment variable gives `direct://`, at which the Electron translation throws.
- Refresh tokens of the OIDC provider can never be redeemed.

Servers:
- `mongoserver.ts:139`: a restored server never reads back that its metadata were inserted, so that
  the comparison of line 520 does not run for it.
- `mongocluster.ts:567`: when a server fails to start, the others stay, and no file describes them.
- `mongocluster.ts:396`: the forwarders of log entries are added again for the first listener that
  comes after all have left; entries are then passed on twice.
- `mongoserver.ts:216`: `start()` of a mongos throws a `TypeError` when the error of the failed
  start has no `errorLogEntries`.
- `mongoserver.ts:309`: when `logDir` cannot be made, or the file in it not be opened, the server was
  spawned already (289) and the `try` that closes it comes later (327): it runs on without
  a reader, and `start()` rejects. `FailureIsClean` excepts it.
- `mongocluster.ts:283`, `:676`: `??` binds weaker than `>=`, so that the first member with a priority
  other than 0 is taken for the primary, not the one with the highest (against 64): also an
  arbiter that was given a priority. With disaggregated storage and members without priorities
  nobody can be elected (651). `FirstIsElectable` excepts both (`AreMeant`).
- `mongocluster.ts:291`: a member with a port of its own also gets the cluster's, and does not start;
  `:721`: after 60 polls a set goes on without a name; `:765`: shards none of which is a config server
  throw a `TypeError` while sets run; `:769`: a second config server set is not owned by the cluster,
  and `close()` does not reach it; `util.ts:69`: a port that was found free may be found twice.
- `mongologreader.ts:15`: after a line that is no entry a log cannot be read any further.
- `mongodb-server-log-checker/src/index.ts:114`: connections that were opened before the checker was
  attached are not known as internal; `index.ts:156`: unsubscribing twice removes the
  registration of another one.

Files:
- `version-list.ts:77`: the list in memory is one for all URLs; `:134` saves what is in memory, not
  what the call has fetched (`resaved`); `:131` lets a call unlink the temporary file of
  another one (`clashed`).
- `download-url`: RHEL 8.10 is read as 810 and gets builds for RHEL 9 (`linux-distro.ts:140`);
  from RHEL 8.1 on builds of the host rank as high as the `distro` that was asked for, or higher
  (priority 1000, `index.ts:134`, up to 1500 at `linux-distro.ts:154`); a Debian host with a
  codename alone is offered no build for an earlier release (`linux-distro.ts:99`); Ubuntu after 24.04 and Debian after 10
  fall back to an older build although a newer one is there; `latest-alpha` for arm64 is
  reported as x86_64 (`index.ts:216`).
- `mongo-log-writer.ts:190`: `flush()` resolves although entries behind an invalid one were dropped.
- `remote-signing-client.ts:84`: errors are swallowed, and `sign()` resolves with nothing signed
  (against `signing-utils/src/index.ts:7`). `:87` removes the uploaded file only: the `.sig` that gpg
  puts beside it (81) stays on the server. If that removal fails, `disconnect()` (89) is not called.
- `jira.ts:215`: the report returns at the first vulnerability to ignore (against
  `sbom-tools/README.md:63`).
- `bump-packages.ts:132`: exact pins of versions with two digits are not updated.
- `depalign.ts:223`: `--align` stops at the first package without the dependency; `semver-helpers.ts`
  takes ranges that intersect pairwise for ranges with a common version (4), and a set without a
  fix for one that was fixed (24).

Completion and schemas:
- `autocompleter.ts:297` uses the result of `isEqual` the wrong way round (58): schemas are
  written when they are the same.
- `ts-autocomplete/src/index.ts:63`: a file that was first read from the fallback host keeps its
  version when it is first updated, and the service its old text.
- The converters of schemas make some that are none, against the comment at
  `internal-to-mongodb.ts:63` and the round trip of `generate-and-validate.test.ts:44`: `Undefined` alone,
  or an empty array, gives `type: []`, `bsonType: []` or `anyOf: []`, and `Int32` with `Long` gives
  `type: ['integer', 'integer']`. `SchemaAdmits` excepts them (`Expressible`).
- `stringify.ts:100`: halves of a timestamp from 2^31 on are shown as negative numbers, which cannot be
  read again; a date after the year 9999 or an invalid one, a symbol, a regular expression that
  JavaScript cannot read and its flags `s`, `u` and `y` are lost, and the scope of a `Code` becomes
  JSON, without BSON types, with `null` for `NaN` and the infinities, and without what is undefined.
- `shell-bson-parser/src/index.ts:43`: rejected text becomes `''`, which is a valid filter, hint and
  collation and means "no sort" (against the comments of `query-parser/src/index.ts`, "false if not
  valid"); the collations `5` and `[]` are valid. The check accepts `typeof`, `void`, `delete`
  and `instanceof`, at which the evaluation throws. The methods of `Binary` are looked up in an
  object with a prototype (`scope.ts:317`), the only one: what any object inherits counts as listed.

## 4. Proofs

All theorems hold for every value of the constants that satisfies the assumptions
named in the modules. Each is proved the same way: an inductive invariant
that implies the property, one lemma per action or group of actions, and a final
temporal step.

- **SshAgent_proofs** (`TypeCorrect`, `OneReinit`, `Budget`, `ClosedForGood`, `NoStaleAttempt`,
  `NobodyOrphaned`): `IInv` is `TypeOK`, `ReinitSerialized`, `CallShape` and `Accounting`.
  `ReinitSerialized` is not inductive alone: a call that has returned, waits for a
  channel or for somebody else's reinitialization must not be one that counts as being
  inside `_doReinit`; `CallShape` says which places a call can be at in each phase.
  `ReinitBudget` counts clients while the code counts failures; `Accounting` relates
  the two: while the agent is open, the clients that did not come up are those of the
  failures counted and the one being tried, and the failures are below the limit.
  `ClosedForGood` is an action property and follows from a case split over the actions.
  `Pending` adds what a call that waits for its client's event knows of it (`Waiting`). The last
  two theorems follow from it, `NobodyOrphaned` under `~SilentClose`.
- **Socks5Tunnel_proofs**, the tunnel (`TypeCorrect`, `ReadyBeforeUse`, `CloseIsFinal`): `Early`
  says what cannot have happened before the server is created, `Places` where a request can be in
  `init` and `sock`, `Known` that the agent is up wherever the code takes it to be, `Course` how
  `listen`, `handle` and a running `close()` go together: once the server's close event has come,
  no socket is left, whichever were accepted after `close()` took its snapshot.
  The cache of agents (`NoAgentForgotten`): `CacheInv` says that the cache is a list of different
  keys and different agents, no longer than its size, and that what was created is in it or has been
  ended; lemmas about `Touch`, `Without` and `Evict` carry it over the LRU operations.
  The options (`ReadersAgree`): the steps are a translation each, so that `RouteInv` only says
  whose result is in which variable; the work is in the lemmas about the translations, the
  sides of which are compared case by case. `ProxiesRight` is both.
- **LogCleanup_proofs**, the cleanup (`TypeCorrect`, `CleanupIsTidy`, `RecentFilesStay`,
  `MostRecentAreKept`), for any combination of the limits on age, number and size. `CleanupInv` is
  a conjunction about each cleanup and the directory: a file that it has met is in one place
  (`Places`); the size it counts is that of its heap and of what is being taken off it (`Account`),
  which needs sums over sets: `TotalSize` is the number of units of the files together, and the
  library's theorems about cardinalities do the rest; whatever is about to be unlinked deserves it
  (`Operand`); the heap is within the limit between two entries (`Room`); and what an undisturbed
  scan could see and is still there is yet to come, in the heap or about to be deleted (`Seen`), so
  that when it returns what is left is within both limits (`Counts`, `Weighed`).
  `RecentFilesStay` and `MostRecentAreKept`, under `DistinctStamps`, are about several cleanups: one deletes
  a file because it knows of `MaxCount` more recent ones, or of too large ones, which others may
  have deleted meanwhile. `KnownIsEnough` is the core: if one of those is missing, then by
  `MissingIsExcess` itself `MaxCount` files more recent than that one are on the disk, or it is
  over the limit and so is everything older. `DeletionIsSafe` and `GrowthIsSafe` carry the
  property over deletions and new files. `KeepsMostRecent`, the property that the run
  `log_cleanup_same_second` violates, holds in every model in which no two files have one stamp.
  The log writer (`WriterKeepsOrder`): `Placed` says that file and gzip hold the first entries in
  their order, `Queued` that a flush in the buffer has before it the entries that were logged before
  it, `Complete` that nothing is missing between what was taken and what is in the buffer,
  `Stages` how far the end of the stream has come.
- **Downloader_proofs** (`TypeCorrect`, `Exclusion`, `Complete`, `Final`, `Refinement`): `IInv` is
  `TypeOK` and, as long as no holder overslept, that whoever is in the callback holds the lock and
  how `files` and `marker` correspond to the phase the holder is in (`Awake`), and that a caller
  was told of success only if the marker is there (`Honest`). `Exclusion` and `Complete`
  follow; `Refinement` (of `Publication`) and `Final` are proved from it step by step.
- **Connect_proofs**, connecting (`TypeCorrect`, `EarlyJustified`, `FailureIsClean`,
  `ReturnedServed`, `ProxyFollows`): `Building` says that before there is
  a main client nothing has begun to clean up, so that the tunnel stands, `Serving` the same
  of an attempt whose main client is connecting, open or closing; `Covered` that what is up is
  in the list of cleanups, is being taken down, or belongs to an attempt one of whose cleanups
  rejected. The state share (`QuietOnceDestroyed`): `Owners` says that
  a server is in the state, and nobody is creating another, unless getters overlapped, `Closings`
  which servers a `destroy()` has begun to close, `Targets` that a callback is served by a server
  that is up or closing. `ConnectTypes` puts the types of both together.
- **Services_proofs** has one section for each of six components, each with an invariant of its own.
  The request lock (`LockIsServed`): `Together`, the holder of the lock is the request that `_req`
  is of, and the only one that asks. The device id (`ReasonIsTold`): `Race`, the timer
  runs until the call is decided, and what was told belongs to what decided it. The OIDC provider (`SpentCodes`): `OnePlace`, a code is in one of
  the maps, in one handler, or gone. The language service (`Served`): `HeldIsCurrent`, a
  text that the service holds under the current version of a file is the current one, the files that
  first came from the fallback host excepted. The autocompleter (`Current`): `CallIsSound` says what
  a call knows between two of its awaits, `LastIsKnown` that the files agree with the call that
  was answered last, `ListedIsKnown` that a database is known of which all listed collections are.
  `CompletionsCurrent` is the last two. The schema analyzer (`SchemaOfAll`, from `SchemaInv`): the
  counts are those of the visits made so far (`NodesMatch`, `TypesMatch`, `RootMatches`), however
  documents interleave; when no walk is half done, every visit of a field is followed by one of its
  types (`TypesFollow`) and has a visit of its parent, or a document, of its own (`ParentsCover`).
- **Runner_proofs**, the cluster (`TypeCorrect`, `ClustersFound`): `Marks` relates entries in the
  servers' databases to the phase of their group, `Course` the phases of the cluster's start to those
  of its groups and helpers, `Stops` what a command has found out about a server to what the server
  does. The start of a server (`Started`, from `StartInv`): a mongod logs its version
  before its port (`VersionComesFirst`), once the port is found its filter has gone and the filter
  for the version goes with what it has found (`PortIsLast`), and a start that failed has left no
  server that runs, but for one whose log file cannot be opened (`NoOneReads`). The log checker (`Reported`, from `CheckerInv`): the cluster has its
  forwarders exactly while it has listeners, unless all of them had gone once (`ForwardersMatch`), and
  a warning was collected as often as it should be so far (`WarningIsRight`); for that, the
  connections known as internal must be internal (`InternalIsIgnored`) and the filters count the
  subscriptions (`FilterMatches`).
  The plan of a cluster (`Whole`, from `PlanInv`): the storage was told of a member's
  port before the member has it (`KnownToStorage`), which holds although members without a port
  choose theirs while others start, for an argument replaces a port and does not add one;
  `MeantIsElectable` that the first member of a set that can be meant is one that can be elected,
  with the priorities that the set is given when it comes to the election (`Prioritized`); `CourseOfPlan`
  that sets no longer change when the mongos processes start; `Added` that the shards
  added so far are those of the sets, each once.
  The ports (`PortsGiven`): who has the port of the cluster is decided in the one step that makes
  the plan (`PortOfMembers`, `PortOfShards`, `PortOfMongos`), and no later step changes the arguments
  that say so (`PortGiven`, `SamePorts`). For the compose file `ReadsRight` says what is known after n
  lines: which key of the top level and which service they end under, and that every port found
  is in a list of a service. `ParseServices` is a recursive function, so the proof shows that
  such a function exists for any number of lines (`SomethingIsFound`) and goes from line to
  line. `ServersSound` puts the four together.
- **Releases_proofs**, the version list (`TypeCorrect`, `WholeCache`, `FreshList`, `CacheSound`): `Owned`
  says that a call that writes or renames has its own temporary file, unless calls clashed, `Numbered`
  in which round of its call a file was written, `Dated` and `MemoryOK` how old the list in a
  file and in memory can be. Bumps (`BumpsInStep`): a run goes through the packages in an order of their
  dependencies, so that what was written behind it stays in step with what it writes
  (`BumpInv`). Alignment (`Converge`, from `DepalignInv`): the range
  that a run writes is the highest of those in use and of its height the first (`LeadsAll`), and it
  stays that while packages are written, also when the run is killed between two of them; so the next
  run with the same command line chooses it again (`MayFix`) and ends where that one would have.
  Tickets (`Ticketed`, from `VulnInv`): a build that is about to create a
  ticket has not created it yet, so that tickets and those about to be created are no more than
  there are builds (`SummaryIsBounded`), and what is listed below the vulnerability that a build is at
  has been settled (`ReportIsSound`). Signing (`SignedAndTidy`, from `SigningInv`): a job that met
  no other is alone in its directory (`Alone`), what is there follows from its step (`RemoteEnd`, and a
  gpg job is signed by a signature that stays on the server: `HasSigned`).

The induction theorems of the library cannot be used, as none of the installed provers can
instantiate an operator parameter. Where a proof goes through data one by one (`AllNumbers`,
`Smallest` in `Runner_proofs`), it uses that a set of numbers has a least member, stated about
sets.

The hypotheses of theorems are `DistinctStamps` (no two log files of one second, which finding 4
shows to be needed) and `~SilentClose`. Everything else they assume is in the `ASSUME` of the
modules, which TLC evaluates: mostly that markers such as `None` are none of the values they stand
beside, that bounds are numbers, and what the types of the sources say of options
(`PlanAssumption`, `RouteAssumption`, `RunnerAssumption`). Those that say more: `PlanAssumption`
has no empty lists of members, shards or mongos processes, for which the code throws a `TypeError`
before or while it starts them, and compose files are lists of keys and ports;
`DepalignAssumption` takes a range for the set of versions that it admits, which is not empty;
`VulnAssumption` has finitely many builds; `SchemaAssumption` says that the visits of a document
are the walk of a tree (`IsWalk`).

Model-checked only:

- `CallsSettle`, `TunnelSettles`, `WaitEnds` and `BothSettle`, which hold under fairness: liveness
  and `ENABLED` are out of the prover's reach.
- `DownloadIsBest`: it is about a finite table of releases and builds, which TLC goes through; a
  theorem would have to assume that the lists contain no build that the table does not know.
- `DocumentsSurvive`, whose schemas and values are recursive (its part `ResultIsTrue`, about the
  analyzer, is proved), and `ServicesTypeOK`, which includes their types.

## 5. What the models leave out

- Data that no property depends on: host names, credentials, file contents, log lines.
- `ssh2`, `net.Server`, `heap-js`, `proper-lockfile`, docker, git, npm and Jira are modelled by
  what the code relies on; see the definitions marked external in `PROJECT.json`.
- TLS on top of a channel (`ssh.ts:190`): it fails outside of the agent.
- Directories that disappear while they are being cleaned; `useLockfile: false`.
- `close()` of a tunnel while `listen()` awaits its credentials (`socks5.ts:280`): the one owner
  closes what it has.
- Calls of a state share server whose socket is gone, which the operating system refuses.
- What runs between two awaits of promises that are settled, where nothing else can.
- In the runner: `requireApiVersion`, keys for TLS, the binaries' download. In the version list:
  the check of the file's owner. In the schema analyzer: semantic types and stored values.
- `toposort` is any order that respects the dependencies; ranges start out current.

About a third of the repository is data (`mongodb-constants`, the driver's schemas and types in
`mql-typescript`, code points in `saslprep`, licenses, icons), and another large part is generators,
command lines, configuration and user interface, in which nothing happens in an order that
matters. That is why the models cover a modest share of all lines although every package that
keeps state has its module.

## 6. What could follow

- Server and cluster together: `ServerStart` as the refinement of the start step of `Runner`.
