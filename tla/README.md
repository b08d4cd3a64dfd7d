# A TLA+ verification of rocketmq-exporter-go

The exporter polls a RocketMQ cluster on cron schedules, keeps what it reads in
a store with a time to live, and serves it on `/metrics`; beside that it probes
every cluster by producing and consuming messages and serves the verdict on
`/healthz`. This directory models the way of a sample from the broker's answer
to the scrape, the concurrent parts and the process around them in TLA+, checks
them with TLC on small instances, and proves with TLAPS, for every value of the
constants, every safety property that a passing run checks but one
(`Normalized`).

To check a run: `tlc -config <cfg> <module>` with the pair that `PROJECT.json`
lists. To check the proofs: `tlapm WorkerPool_proofs.tla` and so on; the longest,
`RpcCall_proofs.tla`, takes about half an hour. The `map` of `PROJECT.json` gives
the source lines behind each definition.

## 1. The system

| part | source | state | operations |
|---|---|---|---|
| worker pool | `internal/task/workerpool.go` | a bounded buffer, a condition variable, `stopped`, a wait group | `Start`, `worker`, `Submit`, `Shutdown` |
| remoting client | `internal/rmqremote/remote_client.go` | per address a channel of idle connections; connections | `InvokeSync` (take, dial, write, read, retry, put), `Shutdown` |
| codec and signature | `internal/rmqremote/codec.go`, `acl.go` | the bytes of a frame | `encode`, `decode`, both header protocols, `SignACL` |
| answers of the brokers | `internal/rmqremote/fastjson.go` | the scanner's place in a body | `normalizeKeys`, `captureValue`, `scanNumber`, `scanKeyword`, `escapeForString` |
| admin service | `internal/service/*.go` | the brokers of a route still to ask | a call, the methods that ask a route's brokers and merge, the pull |
| broker runtime stats | `internal/model/broker_runtime_stats.go`, `internal/util/utils.go` | - | the loaders of a runtime table |
| metric store | `internal/collector/store.go` | per family a map of entries with their time of writing | `put`, `snapshot`, `sweep` |
| collection jobs | `internal/task/collect.go`, `internal/collector/collector.go` | rounds under way, semaphore, wait group, the cached cluster name | the seven `Collect` methods, `parallel`, `cluster`, the `Add` methods |
| health probe and health store | `internal/health/probe.go`, `internal/collector/health.go`, `internal/health/http.go` | times of the last successes, statuses, latencies, errors | `sendOne`, `handleMessage`, `evalTick`/`evalOnce`, `/healthz` |
| prober lifecycle | `internal/health/lifecycle.go`, `internal/health/probe.go` | the map of probes; per probe its loops and its consumer | `Start`, `Shutdown`, `refreshLoop`, `reconcileClusters`, `addProbe`, `removeProbe`, the loops |
| configuration | `internal/config/config.go` | the settings | flags, environment, file, defaults, validation |
| exporter process | `cmd/rmq-exporter/main.go` | which parts are up; deferred calls | `run`, its early returns and its deferred calls |

How they interact: `run` reads the settings, starts the client, the pool, the
cron, the prober and the HTTP server in this order and stops them in the
opposite one. The cron starts a goroutine per firing; a job calls the admin
service from up to 30 goroutines (`parallel`), which asks the brokers of a route
one after the other; a call is signed, encoded and sent over a pooled
connection, and the body of its answer is made standard JSON before it is
decoded. The job puts what it reads into the store and submits a client-metric
task per group to the pool. A scrape takes a snapshot of every family. The
prober's loops and the message callbacks write the health store, which
`/metrics` and `/healthz` read.

What is hard about it, with the line where it bites, is the list `hazards` of
`PROJECT.json`. In short: wake-ups of the condition variable; the ownership of
pooled connections across time-outs, retries and a shutdown; answers that are
cut off; brokers that move, fail or go on working while they are asked one by
one; callbacks, sends and evaluation that share a probe's state while the probe
is being removed; clocks read before a lock; rounds that overlap or are slower
than the TTL; and deferred calls that stop parts which others still use.

## 2. The modules

* `DiscardOldestExecutor` is what the pool promises: a queue of bounded length
  that drops its oldest task when it is full, runs at most `Parallelism` tasks
  at a time, and when closed finishes what it has. `WorkerPool` is the code:
  every lock section is a step, and a worker is starting, parked, notified,
  running or gone. A signal wakes one parked worker, chosen by the runtime, and
  wakes none when no worker is parked. `ImplementsExecutor` is the refinement.
* `RemotingClient` has callers of `InvokeSync`, channels and connections. The
  step between `poolFor` and the channel operation is split, since the mutex
  is released there. `wire` holds the requests that a peer may still answer on
  a connection: a deadline ends a call and leaves the answer unread. `Shutdown`
  holds the mutex while it drains one channel after the other.
* `RemotingCodec` has the frame, the two header protocols and the signature
  over bytes of `Base` values; numbers keep their width in bytes and wrap. A
  text is a sequence of letters, and a digest is known by what it is of.
  `NormalizeKeys` is the scanner that quotes the bare keys of a broker's answer,
  one step per turn of its loop; `BrokerJson` is what a broker writes and the
  same in standard JSON. `RpcCall` composes codec and scanner into a call: sign,
  encode, the server's decode and answer, a connection that may end after any
  byte, decode, scan. It says what a frame can hold (`Sendable`).
* `RouteJobs` is the work on a topic (`CollectTopicOffset`) or on a pair of
  topic and group (`CollectConsumerOffset`), with the data: the brokers of the
  route asked in turn, the merging, the sums, and the pulls that find how long
  the oldest unread message has waited. Messages are stored, consumed and
  deleted between the answers. Clients may have no id (`Unnamed`), and an answer
  to a pull may be a refusal, an error or a message that cannot be read.
* `RuntimeStats` says which runtime table gives numbers, which an error and
  which a panic. `BrokerJobs` has the five jobs that go over the brokers of the
  cluster info, the topology changing under them, and the keys and labels of
  their samples.
* `TtlCache` is one family of the store. `snapshot` and `sweep` read the clock
  in one step and take the lock in another; `last` is a history variable.
  `CollectRounds` extends it by the rounds that write a series: what the brokers
  say changes at any time; a round reads it, or fails, and stores it later.
  `Period` and `MaxCycle` bound the time; `said` is a history variable, when the
  brokers last said something.
* `Collection` puts `CollectRounds`, `BrokerJobs` and `RouteJobs` side by side.
  They write different families and share no state, so a behaviour is one of
  the three.
* `ConsumerOffsetJob` is a round of the largest job with its two fan-outs,
  token by token; every call may fail or answer anything of its type. What a
  goroutine does with the answers of a pair is in `RouteJobs`. `MCTask` puts it
  beside the pool for TLC: the pool sees only its submissions, and the pool's own
  `Submit` may happen at any time.
* `ClusterName` is the unsynchronised field the jobs share. A Go string is two
  words; a data race is modelled by loading and storing them one at a time.
* `HealthProbe` interleaves `sendOne`, the callbacks and `evalOnce` store write
  by store write over a discrete clock, and has what `/healthz` answers.
* `Prober` has the lifecycle of probes. What a probe writes is abstracted to
  whether its cluster has counts and whether it has statuses. The push
  consumer's `Shutdown` ends the deliveries and does not wait for the callbacks
  in flight: its interface does not ask for that. `Watched` bounds the clusters
  whose callbacks and samples are followed.
* `Config` is how settings are read: which source decides, which text is an
  error and which is passed over. One setting stands for each way of reading a
  text. `Exporter` is the process: it loads the settings with `Config`, and its
  parts are seen through whether they are up and who is inside a call of the
  client. The HTTP server may fail by itself, which is logged and no more.

Definitions whose comment begins with "Mutant" or "Mutation" are plausible
mistakes in the definition that follows. No specification uses them; each shows
that the property it is listed with in `PROJECT.json` depends on the code.

## 3. The runs

| run | instance | shows |
|---|---|---|
| `task` | pool: 3 workers, buffer of 2, 5 submissions; round: 2 topics, 1 dead-letter topic, 2 groups, 2 tokens | pool: no lost wake-up (`NoIdleWithWork`), the newest tasks kept in order, each task run or displaced but not both and not twice, nothing left when `Shutdown` returns, the refinement; every task is settled and `Shutdown` returns; round: bounded fan-out, every pair processed, a group submitted exactly once, the round ends |
| `client` | 2 callers, 1 address, pool of 1, 3 calls, 1 `Shutdown` | one owner per connection, none leaked, no caller reads another's answer, a request is written twice at most, the second time on a fresh connection; every call returns and `Shutdown` is not kept busy |
| `rpc` | bytes of 4 values, 24 requests, 48 headers, about 8000 documents and every body of at most 3 bytes | the server gets the command that was meant with a signature that verifies; the client gets the whole answer or an error wherever the connection ends; an answer comes out as the same document in standard JSON, and no body loses a byte |
| `samples` | rounds: 2 series, period, cycle and TTL of 1, 3 ticks, 2 rounds at a time; brokers: 2 names, 2 addresses, 1 change, 2 rounds; routes: 2 brokers, 2 queues, a client with an id and one without, 2 events | the store loses nothing live and a snapshot is right between its clock and its lock; what a scrape shows was said within the last TTL and a round; a commit-log difference covers the lag; one sample per series; clients count once; totals are of one window; the latency is that of the oldest unread message |
| `latest_lost` (violated) | as `samples`, with one series, TTL and period of 2, cycle of 1, 6 ticks | see section 6 |
| `runtime_panic` (violated) | as `samples`, with one series, one client and a disk that may be full | see section 6 |
| `name_torn` (violated) | 2 jobs | see section 6 |
| `prober` | 2 clusters, 2 probes, one cluster watched | a cluster that is gone has no status and gets no count but from a callback in flight, no consumer without a probe, a discovery that fails or is empty removes nothing; `Shutdown` returns whatever was under way; a consumer that failed to start is started in the end |
| `prober_ghosts` (violated) | the same | see section 6 |
| `health_safety` | 1 cluster, 1 callback, window of 2, 3 ticks | a healthy status was earned within the window, overall agrees with its checks, the produce gauge mirrors the state |
| `health_ready` (violated) | 2 clusters | see section 6 |
| `exporter` | any text of one setting in each source, every way to name the file; 2 jobs, queue of 2 | a setting is that of its best source, the client outlives the pool and the prober, everything started is stopped on every way out, a signal ends the process unless a request never ends |

Why the bounds are enough. The pool has more submissions than workers and buffer
together can hold, so tasks overflow while workers are parked, notified and
busy. The client has more calls than callers, so two callers meet at one pooled
connection, and a call finds a connection that an earlier one left. In `rpc`,
four values for a byte let every width of number wrap; the opaque counter is
taken at both ends of its range. The scanner's state is the kinds of the open
containers, where it is in the innermost one and whether it is in a string; two
levels with a member before and after a nested one meet every transition, and
strings with braces, quotes and backslashes occur in keys and in values. The
short bodies end in every state. In `samples`, a round may last as long as the
period and the TTL, so that rounds overlap, put in the wrong order, and fail
while what they should renew expires; a client with an id and one without are
listed by two brokers in every order; an address can go from one broker to the
other between two reads of a round, and two events can fall between any two of
the answers of two brokers or on either side of a second pull. The job has more
items than tokens in both passes and groups with several topics. A probe's
cluster can vanish only while another one stays (an empty discovery is ignored),
hence two clusters; what the probes of different clusters share is `evalMu` and
the goroutine that adds and removes, so it is enough to follow the callbacks and
samples of one of them. Health needs a success, its lapse and another success:
window 2 and 3 ticks. Settings are read one by one, and only the path of the
file and the outcome are shared, so one setting at a time is enough.

What the properties leave out. `FreshSamples` bounds the age of what is shown
for every period, TTL and length of a round; that the latest round is what is
shown is not true (`latest_lost`). `TotalsInWindow` and `LatencyOfOldest` are
about masters, as a slave that answers may be behind. `LatencyOfOldest` holds
with messages stored, consumed and deleted during the pulls; it names the queues
it exempts: from the lower bound those whose pull was put off, refused or
answered with an error, or found the message deleted between its two pulls; from
the upper one the brokers that gave an answer without a readable message
(section 6). `CountsClientsOnce` counts a connection without a client id by
itself, as `dedupConnectionsByClientId` keeps it (`route.go:134`), so that a
client without one counts at every broker. `OneSamplePerSeries` names its one
exception, and `OverallAgrees` and `ProduceMirrored` speak of the moments
outside `evalOnce` and between two sends. `ExitsAfterSignal` exempts a process
that waits for a request that never ends.

Deadlock is checked in `health_safety` and `rpc` (where it says that no byte
stops the scanner before the end); the other configurations of passing runs say
why their behaviours end (a process exits, a round is over, requests or the clock
run out).

Fairness. Weak fairness of a goroutine's steps: the Go scheduler runs every
runnable goroutine. Calls end, as reads and writes have deadlines. No fairness
makes a caller call, a job be submitted, a cluster appear or a signal arrive.
`Exporter` and `Prober` assume strong fairness of the exits of loops that tick:
`select` with several ready cases chooses at random, so a done context is not
missed for ever; and `Prober` that of the clear, since a Go mutex is not refused
for ever. `Prober` assumes that the topic exists in the end, so that a consumer
which is retried starts. No fairness makes a request end: a client that reads
slowly, or not at all, keeps its handler, and the server has no time-outs.

## 4. What is proved

All theorems hold for every value of the constants that satisfies the modules'
`ASSUME`s: positive sizes and bounds, a nil that is no object, at least one
cluster, finitely many queues and clients, messages of a queue that were stored
one after the other, a broker for every queue, bytes of at least two values, and
two that deserve a word. `SendableAssumption` says that a command fits in a
frame: the header in three bytes of length, the frame in an `int32`, a code in
an `int16`. The code does not check this; its commands have a few short fields,
and a server cannot frame an answer that does not fit either.
`CredentialAssumption` says that a client has at most one pair of keys.

| module | about | theorems of the runs' properties |
|---|---|---|
| `WorkerPool_proofs` | `WorkerPool` | `NewestKeptInOrder`, `OneFate`, `NoIdleWithWork`, `DrainedOnReturn`, `ImplementsExecutor` |
| `RemotingClient_proofs` | `RemotingClient` | `OneOwner`, `OpenIffOwned`, `NoCrossTalk`, `AtMostOneRetry` |
| `RpcCall_proofs` | `RemotingCodec`, `NormalizeKeys`, `RpcCall` | `RequestUnderstood`, `AnswerWholeOrError`, `NothingLost` |
| `Collection_proofs` | `TtlCache`, `CollectRounds`, `BrokerJobs`, `Collection` | `NothingLiveLost`, `SnapshotInWindow`, `FreshSamples`, `DiffCoversLag`, `OneSamplePerSeries` |
| `RouteJobs_proofs` | `RouteJobs`, `ConsumerOffsetJob` | `CountsClientsOnce`, `TotalsInWindow`, `LatencyOfOldest`, `BoundedFanOut`, `EveryPairProcessed`, `SubmittedOnce` |
| `HealthProbe_proofs` | `HealthProbe` | `OkIsEarned`, `OverallAgrees`, `ProduceMirrored` |
| `Prober_proofs` | `Prober` | `NoGhostStatus`, `NoStrayConsumer`, `NotWipedByFlap` |
| `Exporter_proofs` | `Exporter`, `Config` | `EveryPartStopped`, `ClientOutlivesItsUsers`, `BestSourceWins` |

`WorkerPool_proofs`. `PoolInvariant` is the inductive invariant. What it adds
to the properties: the buffer is a suffix of the accepted tasks from which only
running or finished ones are missing, so that displacing the head keeps "the
newest, in order"; and if a worker is parked, the buffer is no longer than the
number of workers that were notified and have not yet looked. This second part
is what makes `NoIdleWithWork` inductive: a signal is spent on a worker that
will look. `PoolImplementsExecutor` proves that every step is a step of the
executor or a stutter.

`RemotingClient_proofs`. `ClientInvariant` says of each caller what its program
counter implies (`Locals`: it owns a connection from the dial or the receive on,
it holds a channel between lookup and use), that open connections are exactly
the owned ones, each owned once, and that only a caller that reads has an
answer outstanding on its connection (`QuietUnlessReading`). `NoCrossTalk`
follows: no sequence number is compared, so it rests on connections with an
unread answer never being put back. `ClientRightPeer` is proved for any number
of addresses; the run has one. `ClientAtMostOneRetry` has an invariant of its
own, `Counted`: a request belongs to one call, and where the call stands says
how often and on what kind of connection it has been written.

`RpcCall_proofs`. `CallInv` says that what is on the connection is the frame of
what was meant (`RequestOnWire`, `AnswerOnWire`) and that the command received,
or the answer decoded, agrees with it. It rests on `EncodeFrames`: for every
base, protocol, command that fits and order of the fields, `ReadFrame` gives
back the command from the whole frame and nothing from less. Underneath, a
number that fits its width is read as it was written, negative ones included
(`SignedFits`, by Horner's rule); what was written one piece after the other is
found at its place (`PartsOf`); and each turn of the loop of `decodeMaps` reads
the next field (`MapsRead`). `SignatureHolds` adds that the fields which
`SignACL` signs, in order, are those that arrive. The counter wraps to a number
that fits (`OpaqueFits`), which is why `RequestUnderstood` holds at the end of
its range.

`ScanInv` is for `NothingLost`: the bytes that the scanner has read are within
what it has written, in order, given as a walk over the output (`Within`). Each
step writes at least the bytes it passes over: escaping and quoting keep a token
(`EscapeKeeps`, `QuotedKeeps`), and a number, a keyword or a captured key ends
inside the body (`EndOfEnds`, `CaptureEnds`). That the search `NothingLost`
describes finds all of them is `SearchFinds`: taking each byte where it first
can be taken is never behind another walk.

`Collection_proofs`. `CacheInvariant`: an entry of the map is the last put, an
entry that is missing had expired at some earlier clock, and a reader's clock is
not later than the current one. Since the clock does not go back, an entry that
a sweep takes for expired is expired. `RoundInv`: what a round holds was said
after it was fired (`InTime`), so what is put was said no longer than a round
before (`Recent`), however rounds overlap; an entry that is live was put within
the last TTL, which gives `FreshSamples`. `BrokerInvariant`: a round knows the
master of every broker that has had one master only, what it put of such a
broker is under that master's address, and what it has fetched of a slave and
then of its master differs by no less than the slave lacked.
`RoundsImplementCache` shows that the rounds use the store as `TtlCache` has it,
so what is proved of the store holds under the rounds; lemmas carry what is
proved of the parts over to `Collection`, where a behaviour is one of theirs.

`RouteJobs_proofs`. `JobInvariant` counts: the semaphore has a token for each
goroutine inside the function, the wait group one for each goroutine there is
(`Counts`); so a wait that is over separates the passes (`Passes`), a pair that
was named waits, runs or is done (`Progress`), and a group that is marked has
been submitted or is about to be, by one pair (`Marks`). `BoundedFanOut`,
`EveryPairProcessed` and `SubmittedOnce` follow, for any topics, groups and
number of tokens. `RouteInvariant` is about one topic or pair: offsets have only
grown since the work began (`Grown`), the clients found so far are those of the
brokers asked (`Connected`), what was summed so far is of the brokers that
answered and was true in between (`Asked`), and the latency of a broker is the
largest of the queues pulled so far, no shorter than the wait of what is the
oldest unread message now and no longer than that of the one at first (`Pulls`).
That what `dedupConnectionsByClientId` keeps is one connection of each client is
proved by following its loop. The sums are folds over finite sets; that they are
monotone and split at an element is proved in the module.

`HealthProbe_proofs`. `HealthInvariant`: a send began after the last success was
recorded (`Times`), a verdict on its way to the store is as good as one that is
there (`Verdict`, `Earned`), and how far `evalOnce` has come says which statuses
it has written (`Rated`, `Mirror`). `OkIsEarned` needs it because callbacks may
take the time of the last message back between the reading and the writes.

`Prober_proofs`. `ProberInvariant`: an object that exists is in the map or is
the one `removeProbe` is at work on (`Map`), nothing runs for one that does not
exist (`Nobody`), a running consumer is known to its probe or about to be
(`Known`), `removeProbe` is past a wait only when what it waited for is over
(`Waited`), `evalTick` holds the lock while it has probes to evaluate
(`Locked`), every status belongs to an object that exists (`Sampled`), and the
goroutines that add and remove take turns (`Work`, `Turns`). So the clear at the
end of `removeProbe` is the last word of `evalTick` and of the sends on its
cluster: `NoGhostStatus`, `NoStrayConsumer` and `NotWipedByFlap` follow, for any
clusters, probes and callbacks.

`Exporter_proofs`. `ExporterInvariant`: the stack of deferred calls is one of
seven, where `run` stands says which (`Stack`), a part is up exactly while its
call is on the stack (`OnStack`), and a part that is not up has nobody inside
the client (`Users`). `EveryPartStopped` and `ClientOutlivesItsUsers` follow
without unfolding how the settings are read. `BestSourceWins` unfolds it: on
every way through `Load` that goes on, each setting has the text of the first
source that counts.

Induction over data. The library's induction theorems take an operator as a
parameter, which these provers cannot instantiate. Where a recursive function is
written over `0 .. n`, the proofs do without them: a nonempty set of naturals has a
least member (`NatMin`, from the well-foundedness theorems of the library), so a
claim that held at 0 and passed from each number to the next cannot fail
(`Induct`), and a function with the recursion's equations exists (`Recursion`).

Only model-checked:

* all liveness (`TaskSettled`, both `ShutdownReturns`, `EveryCallReturns`,
  `RoundEnds`, `SelfHeal`, `ExitsAfterSignal`), which the provers here do not
  do;
* `Normalized`, that a broker's answer comes out as the same document in
  standard JSON: the documents are nested, and the proof would need induction
  over their structure together with the scanner's stack;
* the refuted properties of section 6, with `ClusterName`;
* that the library's JSON reader and writer undo each other, which
  `RemotingCodec` takes as given.

A module's `TypeOK` documents the ranges of its variables; no run lists it, and
the inductive invariants have it, or what they need of it, as a conjunct.

## 5. Not modelled

* Layout: the request headers and record types of `internal/service`, the offset
  of a store timestamp in a message (`firstStoreTimestamp`), the names, help
  texts and catalogue of the metric families, the text encoder of `/metrics`
  and the JSON body of `/healthz`. They have no state; a property of them would
  restate them.
* `client_metric.go` beyond the fact that a task calls the client for each
  connection: the six puts per client and topic, and `GetConsumerRunningInfo`.
  They write families that nothing else writes, with a key that is their labels.
* `adapter.go`: the options it hands to the RocketMQ client. What its producer
  and consumer do is in `Prober` as an external.
* `logging.go`, the rounding in `util`, `otlp/doc.go` (no code). `ttlCache.get`
  and `len` are not used by the exporter.
* In practice every command uses the JSON header; `rpc` checks both protocols.

## 6. Disagreements between the code and its comments

Checked by a run that TLC refutes:

* `name_torn`: `cluster` (`collect.go:97`) reads and writes `t.clusterName`
  without a lock from jobs that the cron fires at the same second. Besides two
  jobs both fetching it ("fetching it once", `collect.go:95`), a job can return
  a length without its pointer.
* `health_ready`: `/healthz` answers 200 while a cluster whose probe was added
  has no sample yet, as `HealthDetail` only knows clusters with samples;
  `README.md:116` promises 503.
* `latest_lost`: `store.go:38` says that a scrape reflects the most recent
  successful round. With the defaults, TTL and period both 60 s, a round that
  stores later after its firing than the one before leaves a gap in which the
  samples of that one have expired. Besides, a round slower than its period
  overwrites a later one, and a series whose key has a changing number in it
  (`diffKey.countOnline`) is shown twice until the TTL is over; `FreshSamples`
  is what does hold.
* `prober_ghosts`: a callback that is in flight when the consumer is shut down
  counts its message after `removeProbe` has cleared the cluster
  (`probe.go:434`), and the count stays, as the cluster has no probe any more;
  `health.go:105` says "so no ghost samples linger". `NoGhostStatus` is what does
  hold: `evalTick` and the sends leave nothing behind.
* `runtime_panic`: a broker whose commit-log disk is full writes "Free : 0 B.".
  The unit is then "B." with the full stop, for which `MachineReadableByteCount`
  (`utils.go:69`) panics in a goroutine of the cron, where nothing recovers;
  `broker_runtime_stats.go:94` promises an error and "no panic control flow".

Seen while modelling, each with a short behaviour of a model behind it:

* `main.go:124`: `defer sched.Stop()` drops the context it returns, so
  `RemotingClient.Shutdown` may run while a cron job is inside `InvokeSync`,
  which `remote_client.go:181` excludes ("so no InvokeSync is in flight").
  `Exporter` has these behaviours. (The client tolerates them: `client` checks
  that calls still return and nothing leaks that a caller owns.)
* `remote_client.go:29` says that the pool size is "also the max concurrent
  in-flight RPCs to one address - the rest wait"; a caller that finds no free
  connection dials.
* `probe.go:171`: callbacks run concurrently and store the time at which they
  began, so `lastConsume` may go back and the check turn unhealthy early.
* `probe.go:212`: `evalOnce` clears a latency on a verdict reached before the
  unlock; a send that succeeded in between shows latency 0 while healthy.
* `collector.go:500`: the key of a put rate has the address of the broker and
  its labels do not, so a broker whose master changes its address within the
  TTL is exposed as two samples of one series (the exception that
  `OneSamplePerSeries` names).
* `collect.go:575`: a commit-log difference of 0 is stored both for a slave that
  has caught up and when a fetch failed.
* `collect.go:296`: a connection query that fails stores a count of 0 for the
  group, over the count that another pair of the group has stored.
* `collect.go:378`: a pull answered with an error code, or refused a second time
  because the log was trimmed meanwhile, counts as no waiting. One that is found
  but has no readable timestamp counts as stored at the epoch, unless the group
  has read everything.
* `collect.go:354` promises a latency sample "for every broker that has a queue in
  the consume stats"; one without a master address in the cluster info is
  skipped, and `LatencyOfOldest` asks for the others only.
* `main.go:168`: `srv.Shutdown` gets a context without a deadline, so a request
  that does not end keeps the process after a signal.
* `main.go:165`: a server that cannot listen is logged; the process goes on
  collecting and probing without `/metrics`.
* `remote_client.go:183`: a connection that a caller puts into a channel which
  `Shutdown` has drained stays open until the process exits.
* `collector.go:270` mentions a janitor goroutine; nothing calls `Sweep`.
* `config.go:150`: a text in the environment that cannot be parsed is passed
  over silently; the same text in a flag or in the file is an error.
* `config.go:258`: `ValidateCron` takes an expression without seconds, which the
  scheduler (`cron.WithSeconds`, `main.go:119`) then refuses; `run` returns
  through `RegisterError`.
* `config.go:349`: `FindConfigPath` knows `--config=FILE` but not `-config=FILE`,
  which the flag package accepts.

Read in the code only:

* `route.go:173` says of `GetConsumerRunningInfo` "query the first broker that
  responds"; it returns the answer or the error of the first broker that has an
  address.
* `LanguageCode.UnmarshalJSON` (`codec.go:54`) compares the raw JSON, quotes
  included, with `JAVA` without quotes, so it never recognises that language.
* `encodeMetricFamilies` (`main.go`) stops in the middle of the output when a
  family cannot be encoded.

## 7. Plan

1. A proof of `Normalized`: induction over the documents a broker writes, with
   the stack of the scanner as the path to the open container.
2. The puts of the client-metric task, with `GetConsumerRunningInfo` over the
   route of the retry topic, as a part of `RouteJobs`.
