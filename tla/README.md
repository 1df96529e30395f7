# Formal models of the SmartAgentic PMS

TLA+ modules about the parts of this repository that have behaviour: state that
several callers, callbacks or machines change in an order nobody fixed. Each
module is translated from the TypeScript source; `PROJECT.json` ("map") names the
lines every definition stands for.

    tlc -workers 2 -config MCLanSync_push.cfg MCLanSync      # one run
    tlapm LanSync_proofs.tla                                 # one proof module

## 1. Inventory

Most of the repository is documentation (ADRs, governance), type contracts
(`packages/sdk`) and a declarative schema (`packages/db`). The code that keeps
state is small, and it is asynchronous.

| component | state it keeps | operations | hard part | correct when |
|---|---|---|---|---|
| **LAN synchronisation**, `spikes/SPIKE-01/src` | per node a SQLite table, a client (9 states, socket, reconnect timer, pending acks), per connection a server state and queue; harness counters | connect, handshake, replay, pull, writeRecord, ack, ack timeout, disconnect, reconnect, restart | sockets of one client overlap, the replay awaits `drain`, connections are lost, INSERTs throw, processes restart over old files | acknowledged records are stored, tables converge, clients come back |
| **In-memory memory store**, `ai/src/in-memory-memory-store.ts` | records and events in two Maps | read, write, update, confirm, forgetUser, exportUserMemory, logEvent | update awaits a digest between its read and its write | tenants and scopes are isolated, legal hold survives, erasure lasts |
| **Feature flag provider**, `ai/src/sqlite-feature-flag-provider.ts` | TTL cache over a database | getFlag, isEnabled, resolve*Value, setFlag, invalidateCache, listByTier | a cache filled after an await; a signed 32-bit hash, rules in order | nobody sees a flag older than the TTL and a query; evaluation is a monotone percentage, then the first matching rule |
| **Tool registry**, `ai/src/static-tool-registry.ts` | tools and permissions in Maps | register, revoke, setPermission, get, list, byRiskClass, getPermission, invoke | invoke awaits twice before it answers | an answer is right at one moment of the call; the queries agree whatever the names; tenants are isolated |
| **RRF retriever, reranker**, `ai/src/rrf-retriever.ts`, `noop-reranker.ts` | none | retrieve, rerank | two providers that answer or reject in any order; ranks | fused order respects both lists; only the caller's tenant |
| **Simple chunker**, `ai/src/simple-chunker.ts` | none | chunk | boundaries of windows, header levels that jump | no text is lost, repeated or filed under a wrong header; blocks that belong together stay together |
| **Engineering assurance engine**, `engineering-assurance/src` | reports and a history in `evidence/` | ten verifiers, the benchmarks, aggregation, 16 reports, exit code | a run lasts minutes and writes file by file: edits, exceptions, failing writes, kills | the exit code has its reasons, reports tell what it tells, the history keeps its entries |
| replication tracer, no-op sync engine, schema, SDK types, apps, shared, dev-config | none or trivial | - | - | - |

**Interactions.** The harness calls both LAN clients; each client talks to the
peer's server over TCP (`hello`, `ready`, `record`, `ack`, `sync_request`), and
client and server of a node share its table. The AI package's classes are
independent of each other and are called by applications not yet in the
repository; calls interleave at awaits. The assurance engine reads the repository
itself; its runs meet only in `evidence/`.

The hazards these raise are in `PROJECT.json` ("hazards"), at their lines, with
the properties that cover them; five are without one, for the reasons noted there.

## 2. Modules

| module | what it is |
|---|---|
| `LanSync` | client, server, table, network and harness of SPIKE-01 |
| `LanSyncProperties` | what they are meant to ensure, and the refinement |
| `Replication` | abstract specification: stores that grow, copies, confirmations |
| `LanSync_proofs` | type correctness, `AckedKeyIsStored`, `OwnerHoldsKey`, `AckedRecordIsStored` and the refinement, proved |
| `LanSyncDelivery_proofs` | that sockets and records stay in order: the five other safety properties, proved |
| `MCLanSync` | nodes A and B for TLC |
| `MemoryStore` | `InMemoryMemoryStore` |
| `MemoryStoreProperties` | its properties |
| `MemoryStore_proofs` | all its properties that hold, proved |
| `MCMemoryStore` | two tenants, two scopes, four identities for TLC |
| `FeatureFlags` | the TTL cache of `SQLiteFeatureFlagProvider` over its database |
| `FeatureFlagsProperties` | how stale it may be |
| `FeatureFlags_proofs` | its safety properties, proved |
| `MCFeatureFlags` | one flag, two callers for TLC |
| `ToolRegistry` | `StaticToolRegistry` |
| `ToolRegistryProperties` | what it promises its callers |
| `ToolRegistry_proofs` | all its properties that hold, proved |
| `MCToolRegistry` | names that collide, for TLC |
| `Selections` | `filter`, `push` of lists and `sort`, in a form that proofs can unfold |
| `Selections_proofs` | what they return, for every sequence, proved |
| `Verifiers` | the ten verifiers, as functions of what they read |
| `AssuranceEngine` | runs of the command: verifiers, benchmarks, reports, history |
| `AssuranceProperties` | what its verdicts, exit code and reports are worth |
| `AssuranceEngine_proofs` | all its safety properties that hold, proved |
| `MCAssurance` | ten trees for TLC, and four that documents and code judge in different ways |
| `Chunker`, `RankFusion`, `FlagEvaluation` | `SimpleChunker`, `RrfRetriever`'s fusion and `NoopReranker`, `evaluateFlag`, as functions |
| `AiCalls` | calls of these stateless classes, the wait for the providers |
| `AiCallsProperties` | what the calls return, against definitions without algorithms |
| `AiCalls_proofs` | all its properties that hold, proved |
| `MCAiCalls` | documents, result lists and flags for TLC |

### LanSync

*One action is one JavaScript callback*: a timer, a socket event, one line of
data, one call of the harness. `replayQueuedRecords` is the one function with an
await that other callbacks can use: when `socket.write` returns false it waits
for `drain`, or 5 s, and then goes on with `socket` and `state` as they are by then
(`RunReplay`, `suspended`, `ResumeReplay`). `Backpressure` says whether `write` may
return false on a live socket; on a destroyed one it always does.

| code | model |
|---|---|
| `sync_records`, `INSERT OR IGNORE` | `db[n]`, `Insert`, `InsertAll` (ignores a repeated idempotency key) |
| `sequence` in the harness | `seq[n]`; 0 again after `Restart` |
| `state`, `transition`, `unexpectedTransitions` | `cstate`, `Transition` (a wrong step is noted and taken), `unexpected` |
| `socket`, old sockets with their callbacks | `cur[n]`, `link[<<n, k>>]` for the k-th socket |
| `reconnectTimer` | `timer[n]`, `Reconnect` |
| `writeTimestamps`, `pendingAcks` | `stamps`, `pend`; `acked` keeps what resolved `acked: true` |
| connection of the server, `pendingQueue` | `srv[c]`, `queue[c]` |
| TCP | `up[c]`, `down[c]`: FIFO, lost with the connection; `NetFault` |
| `processRecord`, its catch block | `Process`: any subset of INSERTs may throw, all are acknowledged |

Several transitions that one callback makes in a row are one `Transition` along a
path, each step of it tested against the table.

Left out: `sync_complete` (the client ignores it), the tracer, schema validation
(both senders only send valid records), latencies and time stamps, `peerLastSequence`
(never changed from 0). Timeouts are untimed: they may fire at any moment, which
allows more than the code does. The harness connects A before B; here each client
connects at any time. The promise of `connect()`, which never settles if the first
attempt is refused, is a hazard of the list and not in the model. Lines of one data
chunk after `ready` are treated as chunks of their own.

### MemoryStore

Every method but `update` does its work in one piece. `update` is split at
`await hashContent`: `StartUpdate` reads the record, `FinishUpdate` stores the copy
of what was read, with the new content and digest, over whatever is there by then.
SHA-256 is the content itself (no collisions), and `Hashes` has others beside it: `write`
stores the caller's record as it is, with whatever `contentHash` and `deletedAt` it
brings (the repository's tests write `'hash-placeholder'`), and only `update` computes a
digest. `read` is the set of records it may
return: tenant, soft deletion and the scope model are kept; its query filters, its
cosine ranking and its limit only drop records and are abstracted. A rejected call
throws before it changes anything and is no action. `confirmations`, `forgotten` and
`raced` are history for the properties.

### FeatureFlags

`getFlagInternal` and `setFlag` await the database. A call is sent (`StartGet`,
`StartSet`), the database executes it at some moment (`DbRead`, `DbWrite`: external) and
the method goes on at a later one (`FinishGet` caches the answer, `FinishSet` deletes the
entry), or it is rejected (`FailGet`, `FailSet`). `listByTier` and `invalidateCache` clear the cache.
A call the cache answers changes nothing: what it answers is `cache[k].flag` while
`Valid(k)`. Time is relative: an entry has `left` = `expiresAt - Date.now()`, and a
`Tick` takes one from it. `Tick` lets no query take longer than `MaxLatency`, which is
how that constant gets its meaning. `gone` and `late` are history. With `LostAnswers` an
update may be reported as rejected although the database executed it
(`FailExecuted`: the entry is then not deleted). `CreateRow` is external:
the provider never creates rows, others do. ADR-102 (lines 86 and 170) promises that Prisma
middleware invalidates the cache on any mutation of a flag; there is none in the code, so
neither `CreateRow` nor another process's update touches the cache here. What a flag that was read evaluates to is
`FlagEvaluation`.

### ToolRegistry

Every method but `invoke` does its work when it is called (`Register`, `Revoke`,
`SetPermission`, and the queries as operators). `invoke` is three actions: `Invoke` looks
the tool up, `CheckPermission` reads the agent's permission, `Answer` gives the
result. Keys are strings joined with colons: a name is the sequence of its parts between
colons, joining is concatenation (`toolKey`, `permKey`), and a prefix match is one on parts
(`StartsWith`), so that names with colons collide and match here as they do there. A tool is
its own tenant and id and its risk class: `List` goes by the tenant field, `ByRiskClass` by the
key, as in the code. Descriptions, versions and the invocation record are left out, the log
is its length. Permissions have no tenant in their key. `seen` and `revoked` are history: what
each moment of a call says of its tool and its agent.

### Verifiers and AssuranceEngine

A working tree is a record with one part per verifier: the documents there are, ADR
files in directory order, source files with the patterns each of their lines
matches, commits from the newest, what `npm audit` answers, the stages of the
serialization check that succeed, the baseline. Regular expressions are left out:
which pattern a line matches is data, what a verifier makes of the matches (windows,
exemptions, limits, order, severity, and which file-system errors it lets out) is
modelled. `readable` says whether `statSync` and `readFileSync` work on a file.

| code | model |
|---|---|
| `main`, `requireVerifier` | `Start`; an unknown target exits 1 at once |
| `runAllVerifiers`, its catch block | `RunVerifier`, `Settle`: an exception is a FAIL in a run of all, and ends a run of one with exit 1 |
| `performanceRegressionVerifier.verify` | `LoadBaseline`, `Measure`, `WritePerformance` for each of its four files |
| `generateReports` | `WriteReport`, one `writeFileSync` each, 16 in order |
| `performance-history.json` | `history`: the runs with an entry; `Appended` reads, appends, cuts |
| exceptions of `writeFileSync` | `WriteFails`, before the file is opened or after (`Truncated`) |
| `readFileSync` of the history throws, its catch block | `ReadFails`: the history is given up |
| (external) the tree is edited, the process killed, in a write perhaps | `Edit`, `Kill`, `Truncated` |

Abstracted: a verifier reads the tree at one moment; edits fall between verifiers.
Runs do not overlap (the benchmarks' child processes run single verifiers, which
write no reports). The benchmarks measure arbitrary times from `Measurements`. A
history file that is JSON but no array is not modelled. `ok`, `failing` and
`refused` are history for the properties.

### Chunker, RankFusion, FlagEvaluation, AiCalls

The classes keep nothing between calls, so `AiCalls` has one call as its state; the
only interleaving is between the two providers of a hybrid retrieval, which resolve
or reject in any order (`Promise.all`). A document is its blocks, each with a level, a
length and a kind (text, table, code) that only the properties read; a line of a code block
that looks like a header is a block with a level, as the code takes it. A chunk refers to blocks and intervals of characters; ids, digests,
token counts and time stamps are left out, and so are `strategy`, `preserveHeaders` and
`atomicBlocks`, which the code accepts and never reads. A section with a header and
no body gives a parent without children. Scores are exact fractions. Chunk ids name
one row of one tenant, and a provider does not list a row twice: that a result is in no answer
twice rests on this for a single strategy (the fusion merges rows by id). A
hybrid retrieval of which a provider is missing goes on with an empty list in its place, as
in the code (`rrf-retriever.ts:136`), although its comments (lines 47-50 and 80-81) call the provider required
and say that `retrieve` throws. `NoopReranker` is one slice of a list (`Rerank`); it is modelled,
and no property speaks of it. `SplitMarkdownSections` and
`GroupParagraphs` are the code's loops over lines and paragraphs as recursive functions, one
iteration each in `Read` and `Take`; `Flat` is the `push` of one list after the other. `simpleHash` works at width
`HashBits`: with 8 bits instead of 32 the wrap-around, the negative hashes and the
absolute value of the least integer all occur for small inputs. Keys, users and tenants are
single characters. A value of a context or of a rule is a number, a string or undefined,
with its type: identifiers are never numbers, attributes may be anything and come before
them, and only two numbers are ordered (`typeof`), so that `lte` on a user never matches.

## 3. Runs

| run | question | bounds |
|---|---|---|
| `MCLanSync_push` | are a client's records at the peer or on their way whenever it says NORMAL_OPERATION over a live socket; do equal keys mean equal records | one client and writer, 1 write per lifetime, an interruption, a loss, a restart, 4 sockets |
| `MCLanSync_adverse` | do acknowledged keys and copies without originals stay impossible when everything goes wrong at once | both clients, backpressure, an INSERT that throws, a loss, a restart, pull limit 1 |
| `MCLanSync_live` | without interruptions and with fairness: reconnection, convergence, prefix copies, only listed transitions, NORMAL_OPERATION over a socket not known to be gone, refinement of `Replication` | both clients, 2 writes, a loss, 2 sockets each |
| `MCLanSync_lost` | *violation*: a record written while a replay waits for `drain` is not sent | 2 writes, no fault at all |
| `MCLanSync_falseack` | *violation*: an INSERT that threw is acknowledged | 1 write, 1 failing INSERT |
| `MCMemoryStore_race` | overlapping updates against confirm and forgetUser; reads of two tenants, scopes and identities | 1 record id, 2 tenants, 2 callers, 2 contents, 4 combinations of identities |
| `MCMemoryStore_undone` | *violation*: an update brings an erased record back | as `race` |
| `MCFeatureFlags_cache` | how far may the cache and the table differ, and for how long (with fairness) | 1 flag, 2 values and no row, 2 callers, TTL 2, queries of at most 1 tick, 3 changes, lost answers |
| `MCFeatureFlags_stale` | *violation*: a single instance serves a stale flag with no call under way | as `cache`, 1 change, no lost answers |
| `MCToolRegistry_calls` | is an answer of invoke right at one moment of its call; do list, get and byRiskClass agree where names collide | tenants `b`, `global`, `global:x`, ids `x`, `x:x`, 1 agent, 1 role, 1 caller, 3 changes, 1 invocation |
| `MCAssurance_gate` | are the verdicts those of the rules as far as these are undisputed; has the exit code its reasons; what do the files say after kills, failing writes, failing reads and edits; does every run end | 10 trees, 4 targets, 2 runs, 1 edit, 1 fault, a history of 2, 3 and 2 commits searched |
| `MCAiCalls_calls` | chunks, fused ranks and evaluations against their definitions | 4 blocks of text or up to 3 of any kind, 6 configurations, lists of up to 3 results, up to 2 of 10 rules, 8-bit hash |

**Why the bounds are enough.** A loss needs two sockets (the lost one and its
successor); an interruption and the timer racing it need four. Two writes tell
order and gaps; one write per lifetime and one restart suffice for keys to repeat. Without
interruptions sockets follow one another, so that a loss lets neighbours meet in every state; what
`live` claims of sockets has also been checked with three losses, four sockets, a restart and a
failing INSERT (`MCLanSync_losses.cfg`) and is proved for any number.
Two callers of update are what overlapping means, a third adds a copy of the same
kind. Two identities per scope, and a record without one, are what the scope test
can tell apart. What a read may return is decided record by record, and what the flag
cache does flag by flag (but for clearing it whole), so one of each is enough. A TTL of 2
leaves a tick inside an entry's time, a latency of 1 separates sending from answering, and
three changes let two updates and a creation meet. In the registry a call sees at most
the changes between its awaits: three let a tool be registered, revoked and
registered again, or a permission be set before and after; tools of other ids meet only
where keys collide or a prefix matches, for which three tenants, two ids and two changes are
enough, and the proofs hold for any number of each. Calls of invoke change nothing that another
reads, so that one caller is as good as many. Between the trees of `MCAssurance` each verifier passes, fails,
warns and throws where it can; two runs let reports of two runs lie side by side,
one edit separates two verifiers of a run, one fault hits one of the two runs anywhere,
and a history of two is full after the first run. Windows of 3 and 2 commits
have commits inside, outside and skipped. Four blocks let header levels rise, jump,
fall back and enclose; three of any kind put a table or a code block, or a line of code taken
for a header, before, between and behind others. The configurations have windows that fit, overlap by all but
one character and are refused. Three results are enough for a result to be better placed
on one side, found by both, cut, or of another tenant.

The LAN, registry and assurance runs set `CHECK_DEADLOCK FALSE`: when everything is
delivered or the bounds are spent, the system stops. The other
runs check deadlock: there is always another call to make.

**Limits that show something.** With backpressure `NoGaps`, `NormalMeansSocket`,
`Reconnects` and `NothingLeftBehind` are out of the code's reach: a resumed replay
writes to whatever `socket` is by then, and takes the client to NORMAL_OPERATION
from any state. So `push` and `live` are without backpressure, and `lost` shows the
one consequence that needs no fault and that a document denies.

An interruption of the harness while the timer is set makes connections overlap, and the
callbacks of both change the one `state` and use the one `socket`. Then CONNECTING may follow
CONNECTING, with a loss more the client may wait in HELLO_SENT for ever, and with two losses and four sockets NORMAL_OPERATION may be over a socket that is gone
(the older callback says hello on the newer socket, both are lost, and the `ready` on its way
arrives). So `live` has losses but no interruption: `NoUnexpectedTransition`,
`NormalMeansSocket`, `Reconnects` and `Converges` are claimed, and the first two proved, for clients
that nobody interrupts, and for no others. `NothingLeftBehind` and `SameKeySameRecord` hold with
interruptions, and are checked (`push`) and proved with them.

**Fairness** (`FairSpec`). Timers fire, sockets deliver what they hold and report
that they closed, connection attempts end: weak fairness of these, which Node's
event loop and TCP give. Faults are bounded, so attempts succeed in the end.
Nothing obliges the harness to write, interrupt or restart. `FeatureFlags`'s `FairSpec`
lets time pass and has every awaited call answered, one way or the other; nobody has
to call anything. That the clock goes on is what makes a stale entry expire.
`AssuranceEngine`'s `FairSpec` is weak fairness of a run's own steps: they are synchronous,
and the commands they start are stopped after 10 or 30 s (`git log` has no limit and
is taken to answer). Nobody has to start a run, edit or kill.

## 4. What the violations say

- **A record written while a replay waits is not sent** (`sync-client.ts:119`). The replay has
  selected its rows and awaits `drain`; the state is REPLAY_IN_PROGRESS, so `writeRecord` stores the
  new record and does not send it; the replay ends, NORMAL_OPERATION follows, and nothing sends
  the record until some later connection. No socket is lost or replaced. `SPIKE-01/README.md`
  (20-27) expects zero data loss, `harness.ts:195` too.
- **A failed INSERT is acknowledged** (`sync-server.ts:74`); the life cycle
  `trace.ts:5-7` tells has the insert complete before the ack.
- **update undoes forgetUser** (`in-memory-memory-store.ts:272`) when the erasure
  falls into its await.
- **A stale flag is cached after setFlag** (`sqlite-feature-flag-provider.ts:63`): a query
  that was answered before the update and goes on after it fills the cache with the old
  flag for a whole TTL; ADR-102 (line 171) says a single instance has no staleness.

Further disagreements between code and documents. The models have them as the code does; each
of the first ten is a definition of a Properties module and a configuration that TLC
refutes it with, kept to be looked at and not among the runs of `PROJECT.json`.

| what a document says | what the code does | to see it |
|---|---|---|
| "Zero loss (interruption)" (`harness.ts:200`) | the timer and the harness both connect; the later socket connects and is lost first; the callback of the earlier one says hello on the lost one (`sync-client.ts:136`); the timer finds HELLO_SENT and does nothing, for ever | `Converges`, `MCLanSync_interrupted.cfg` |
| transitions beyond the table are unexpected (`sync-client.ts:51-61`), none seen (`results-run6.json:46`) | CONNECTING follows CONNECTING when both connect (`sync-client.ts:131`) | `NoUnexpectedTransition`, `MCLanSync_unlisted.cfg` |
| "Tenant isolation enforced on every operation" (`static-tool-registry.ts:5`) | permissions have no tenant; `revoke` (98) takes the DENY another tenant's tool relies on | `TenantIsolation`, `MCToolRegistry_isolation.cfg` |
| the last 10 source-modifying commits (`traceability-verifier.ts:4`) | the last 10 are taken and then filtered (65) | `LastSourceCommitsTraced`, `MCAssurance_traced.cfg` |
| evidence within 5 lines (`forbidden-code-verifier.ts:199`) | two above to seven below (206) | `EvidenceWithinFive`, `MCAssurance_five.cfg` |
| a bare claim in a message causes WARN (`forbidden-code-verifier.ts:21`) | it causes FAIL (226), as the comment at 220 wants | `BareMessagesWarn`, `MCAssurance_messages.cfg` |
| sections must be in order (`prompt-structure-verifier.ts:32`) | their order is not looked at (164) | `SectionsInOrder`, `MCAssurance_sections.cfg` |
| tables and code blocks are atomic (`sdk/src/ai/chunker.ts:31`, ADR-026:126-128) | every paragraph that is too long is cut (`simple-chunker.ts:176`) | `BlocksWhole`, `MCAiCalls_atomic.cfg` |
| adjacent children overlap (`sdk/src/ai/chunker.ts:24`, ADR-026:76) | only the windows of one paragraph do (`simple-chunker.ts:253`) | `ChildrenOverlap`, `MCAiCalls_overlap.cfg` |
| sections are those of markdown headers (`simple-chunker.ts:4`), fenced blocks are atomic (ADR-026:128) | a `# ...` line of a fenced block is taken for a header (106) | `HeadersOfText`, `MCAiCalls_fenced.cfg` |
| the insert of a record completes before its ack (`trace.ts:5-7`) | after a restart `harness.ts:52` starts the sequence at 0 again: keys repeat, new records are ignored by both tables and acknowledged | `AckedRecordIsStored` with a restart in place of the INSERT error of `MCLanSync_falseack.cfg` |
| `strategy`, `preserveHeaders`, `atomicBlocks` are options (`sdk/src/ai/chunker.ts`); a section is kept whole and split at `####` (ADR-026) | the options are never read; six levels, and a ceiling for parents, as the SDK says | - |
| Prisma middleware invalidates the flag cache on any mutation (ADR-102:86, 170) | there is none | - |
| a hybrid retrieval without one of its providers throws (`rrf-retriever.ts:47-50`, 80-81) | it goes on with an empty list (136) | - |

So the properties of the runs claim only what is left: `VerdictsRight` what all readings of a rule
share, `ChunksFaithful` coverage of every block, size and overlap of texts, and enclosing headers where no
line of code is taken for one, `QueriesAgree` nothing of permissions.

## 5. Proofs

TLAPS checks these for every value of the constants that meets the named
assumptions (`NodesAssumption`, `BoundsAssumption`; `ScopesAssumption`,
`PoliciesAssumption`, `ConfirmsAssumption`; `FlagsAssumption`, `TimesAssumption`;
`RegistryAssumption`; `EngineAssumption`, `FileAssumption`, `WindowAssumption`; `HashAssumption`,
`EvaluationAssumption`, `ChunkingAssumption`, `RetrievalAssumption`). The
inductive invariants were checked with TLC before they were proved.

**LanSync.** `TypeCorrect`: `Spec => []TypeOK`. The inductive invariant `Types` adds to
`TypeOK` the finiteness the ordered queries need. `AckedKeyStored`:
`Spec => []AckedKeyIsStored`. It is inductive given the types because it
speaks of acknowledgements in flight too: an ack is only put on the wire by `Process`,
which has stored the key unless an INSERT threw; tables only grow; `ClientAck`
moves a key from the wire to `acked`. It holds with backpressure, losses,
overlapping sockets and restarts, so none of these can make an acknowledgement false;
only an exception of INSERT can.

The second half of `LanSync_proofs` is where records come from. `OwnerHoldsKey` is not inductive:
a copy may come out of a channel, a server's queue or a replay that waits. `Provenance`
says of all of these that their records are kept by their owner, that what travels up
from a client, waits in its queue or in its replays or is pending was written at its
own node, and that `socket` names one of its own sockets. Its parts take the tables as
a parameter, so that a step is shown in two halves: what was there is restated for the
tables after the step (`Restated`, because tables only grow), then what the step moves is
looked at. From it `OwnerAlwaysHoldsKey`, whatever the bounds. With
`MaxRestarts = 0` and `MaxInsertFaults = 0` a key stands for one record
(`OneRecordPerKey`), so that keeping a key is keeping the record: this gives
`AckedRecordStored`, and `Implements`: `Spec => ImplementsReplication`, each action
mapped to `Write`, `Copy` from the node the records were written at, `Confirm`, or a
stutter. The two conditions are those under which the code keeps the promise
(section 4).

`LanSyncDelivery_proofs` is about order. Its first part says what one client's sockets
look like: `Orderly` keeps `OneSocket` (all sockets but the last are closed, the timer is
set only in DISCONNECTED, no replay waits, the client's state fits the last socket's, `StateFits`)
and that no unlisted transition was taken. It is inductive as long as nobody interrupts a client and
`write` never returns false on a live socket (`Calm`); `NormalHasSocket` and
`OnlyListedTransitions` follow, for any number of losses and restarts. Without `Calm` both are
false (section 3).

The second part is about records. `Delivery` says of every client that what travels up a
socket and waits behind it is, in the order of writing, everything the peer's table lacks:
a record under way has all earlier ones in the table or ahead of it (`Ahead`, `Backed`, stated
for rows, lines, queues, requests and replies), a client in NORMAL_OPERATION has sent
everything (`AllSent`), the queue of a synchronized server is empty (`QueueEmptied`) and a key
stands for one record wherever it is (`OneMeaning`). None of the three properties is inductive
without it: a copy can be followed by a gap unless the line was in order. A step keeps it by one
of a few movements (`Quiet`, `Written`, `Copied`, `NewRecord`, `Left`), each treated once. It holds in every behaviour that is `Undisturbed`: no
INSERT throws and no replay waits for `drain`; interruptions, overlapping sockets,
losses and restarts are all allowed. The theorems say so for the behaviour
(`Spec /\ []Undisturbed => ...`: `LeavesNothingBehind`, `CopiesHaveNoGaps`, `KeysAgree`), and
`CalmDelivery` names the constants under which every behaviour is one. Without restarts
`KeysAgreeInOneLifetime` needs none of this. A waiting replay really breaks all three: it is the
violation of `MCLanSync_lost`, and after a restart a new record under a repeated key can overtake it.

**MemoryStore.** One inductive invariant `Inv`: the types, the state properties, and
`CopiesOK`: the copy an update holds has its record's identities and retention policy,
is deleted under legal hold only if the record is, and can be behind the record only in confirmations
and the deletion mark, and only if a call raced it. Without this nothing is known
of what `FinishUpdate` stores. From it: `MemoryTypes`, `LegalHoldAlwaysKept`,
`HashAlwaysOfContent` and `NothingEverVanishes`, which speak of steps, and
`NothingIsLostUnlessRaced`, `ErasedAlwaysExportedNotRead`, `ReadsAlwaysScoped`. A legal hold and a
hash are properties of steps because `write` stores a deletion mark and a hash as they come.

**FeatureFlags.** `Inv` bounds ages before they count: an answer under way was in the
table since its query was sent (`AnswersNotOld`: gone for no longer than it waited), so
an entry that starts with the TTL ages to at most `Horizon` = TTL + MaxLatency just as its
time ends (`EntriesNotOld`). A valid entry has time left, hence `StalenessAlwaysBounded`.
`FreshOrOverlapped` needs the same of answers (`AnswersFresh`): only an update between
reading and caching makes one wrong.

**ToolRegistry.** `Inv`: a call under way has seen the present moment (`SeesPresent`); one
that found its tool and was not revoked still has it (`FoundIsThere`); one that decided,
decided rightly at a moment it saw (`DecidedRightly`). From it `TypeCorrect` and `Atomic`.
`QueriesAlwaysAgree` needs that a tool is kept under the key its own tenant and id give it, and
nowhere else: that two names may give one key makes it a fact about concatenation, of which the
prefixes are the other half.

**AssuranceEngine.** `GateInv` connects the results collected so far to the trees the run
has met: each verifier asked so far passed or failed at a moment in `ok` or `failing`
(`MeetsTree`, `Progress`, `Reasons`, `Remembered`), so that the exit code has its reasons
(`ExitCode`). `ReportInv` adds that within a series the files before the one at work are
of the present run and those behind it not newer, in whatever state a kill or a
failing write of an earlier run left them. From these `TypeCorrect`, `GateCorrect`,
`EvidenceCorrect` and the action property `HistoryCorrect`, for any trees, edits,
measurements, numbers of runs and faults, and any cap of the history. A fault of the step
that reads and writes the history, be it a kill, a write or a read that fails, may cost all of it:
`HistoryKept` says that nothing else does.

`VerdictsCorrect` is about the verifiers as functions: for every working tree of the type
`EngineAssumption` names, of any number of ADR files, commits, source files and lines, the
verdicts are those of the rules where the verifier goes a way of its own (sorted numbers, newest
commits, context lines, medians), as far as comments and documents agree about the rule: a claim
whose evidence is more than seven lines away is bare on every reading, one with evidence within
two lines on none. Where they disagree, see section 4. The verifiers concerned work on
sequences, and `Selections_proofs` says what they need. The newest `n` commits of a kind are
those with fewer than `n` of the kind before them (`FirstOfOnly`); numbers in ascending order grow
by one exactly if they fill an interval (`GrowByOne`); the `m`-th value of a sorted list
exceeds a limit exactly if enough values do (`MoreThanPlace`), which makes a median above the
threshold a majority of slow runs. The library has no induction that the installed provers can
use; where these lemmas need one, they take the least number at which a claim fails (`LeastOf`).
`filter` and `sort` are written in `Selections` and not with the library's `SelectSeq` and `SortSeq`,
because the prover cannot unfold those.

**AiCalls.** `EvaluationCorrect`: `Spec => []EvaluationSound`, for every flag with any number of
rules, every context and every width of the hash. `EvaluationInv` ties the outcome of a call to
what was evaluated; the rest is about the functions. The hash is an integer at every prefix of
its input (`HashedType`, again by the first prefix where it is not), so that after `Math.abs` its
remainder is one of the hundredths (`BucketRange`) and depends on nothing but the identifiers
(`WithRollout`). The first rule that decides is named (`TargetingDecides`): a rule behind it
moves no place (`RuleBehind`), one in front moves all of them by one (`RuleInFront`), and its
opposite matches exactly where it does not (`OppositeMatches`, operator by operator) unless the
two order what is not a number or list no array: then neither does.
`EvaluationAssumption` says of `Flags` and `Contexts` what the types of the SDK say: the
operators are the eight there are, a rule's value is an array or one value.

`RetrievalCorrect`: `Spec => []RetrievalSound`, for all lists, options, weights and RRF
constants. `RetrievalInv` ties the outcome to what the providers have answered so far, in
whichever order. Scores are compared by products (`ExceedsOrders`), so the proof needs that a
product with a positive factor keeps an order and can be cancelled (`Monotone`, `Cancel`), that a
contribution falls with the rank (`ContributionFalls`), and that a row lower in neither list
scores at least as much (`ScoreFalls`). That a row of both lists beats a row of one
is arithmetic on ranks: with equal positive weights the sum of two contributions exceeds any
single one as long as no list is longer than `rrfK + 1` (`TwoBeatOne`). For longer lists it is
false, which is why the property says so. The cut and the tenant filter keep the order
(`OnlyOrder`, `FilterTenantRanks`, `TopKCut`). The conditions of the property are the
algorithm's: with a negative weight a better rank lowers a score. The theorem is about exact
fractions; that floating point orders them alike is the model's reading of small ranks.

`ChunksCorrect`: `Spec => []ChunksFaithful`, for every document and every configuration.
Each loop of the code has its invariant. After `n` blocks (`ReadUpTo`) the stack holds exactly
the headers that enclose block `n`, the sections so far and the open one hold every paragraph and
header up to `n`, in order, each under its path; a header pops exactly those it closes
(`PushOpens`, from `OnlyOrder`). After some paragraphs of a section (`Taken`) the buckets
and the open one hold them in order, none too large but for a single paragraph, and `len` is the
length of the open one's text (`TextLenLonger`). The windows of a paragraph cover it
(`WindowsCover`): the first one that reaches the end exists and is the last.
`FlatLays` says that `push` of lists one after the other keeps all and their order, which joins
windows to children and parents to the result. The library has no usable induction and does not
say that a recursive function exists, so `Recursion` and `UpTo` in `Selections_proofs` do, for
functions over places, from the least-number principle. `ChunkingAssumption` says
that a block has a level and at least one character (a header line has its `#`, and empty
paragraphs are dropped) and that a configuration's numbers are whole; `RetrievalAssumption` says
the same of the options' numbers and that a provider lists no row twice.

**Only model-checked**: liveness (`Reconnects`, `Converges`, `EventuallyFresh`,
`EveryRunEnds`), which the prover does not reach; and the violations, which are counterexamples. Every invariant and every other action
property the passing runs check is the statement of a theorem.

## 6. Plan

1. *(done)* SPIKE-01, with its abstract specification.
2. *(done)* The in-memory memory store, with all its properties proved.
3. *(done)* The feature flag cache, its lost answers, and the evaluation of flags.
4. *(done)* The tool registry, with all its properties proved.
5. *(done)* Chunking, rank fusion, reranking.
6. *(done)* The assurance engine: verifiers, gate, reports, history.
7. Proofs: *(done)* `OwnerHoldsKey`, `AckedRecordIsStored`, the refinement of `Replication`.
   *(done)* sockets in order, nothing left behind, no gaps, equal keys.
   *(done)* the verdicts, the evaluation of flags, the retrieval, the chunks.
   *(left)* liveness, for a prover that reaches it.

## 7. Not modelled

- `trace.ts`, `evidence-phase1.ts`: they observe and change nothing.
- The promise of `connect()` (`sync-client.ts:137`), which never settles when the first
  attempt is refused, and what a pull of more than its limit would miss
  (`sync-server.ts:115`; the limit itself is `SyncLimit`): hazards without a property.
- `packages/db`: a declarative schema and a generated client.
- `packages/sdk`: interfaces; those of modelled components appear as record types.
- The no-op sync engine: constants, and a flag `closed` that makes three methods throw.
- `apps/*`, `packages/shared`, `packages/dev-config`: placeholders without behaviour.
