# A verification development for py-kafka-clone

TLA+ modules for the broker in `src/`, TLC configurations that check them on
small instances, and TLAPS proofs of what matters most for every size.
Section 1 is the inventory of the program, section 2 the modules and how they
correspond to the code, section 3 the runs, section 4 the proofs, section 5
what the models abstract from or leave out, section 6 the plan.

## 1. The system

py-kafka-clone is a single-node Kafka broker in asyncio Python. It serves seven
APIs over TCP, keeps each partition in one append-only file, and learns its
topics from a cluster metadata log that a separate command line tool writes.

| component | state | operations |
|---|---|---|
| Connection tasks (`app/main.py`) | per connection: a task, its read and write buffers; shared: the loaded metadata, the log directory | accept, read a message, dispatch on the API key, write the response, drain, end |
| Produce (`messages/produce.py`) | locals of the handler | per entry: check the partition, find the end of its log, overwrite the base offset, append |
| Fetch (`messages/fetch.py`) | locals | per entry: resolve the topic (by uuid from v13, else by name), read the end, then the data |
| ListOffsets (`messages/list_offsets.py`) | locals | per entry: check the partition, answer earliest or latest |
| Partition logs (`app/tools.py`) | a file per partition | `log_end_offset`, `read_log_from_offset` |
| Cluster metadata log (`messages/cluster_metadata_log.py`) | a file; the record batches of it in memory | load at start |
| Metadata, DescribeTopicPartitions | none | a loop each over the loaded records, which joins topics and partitions |
| Metadata tool (`tools/create_cluster_metadata.py`) | the file | generate anew, `--append` |
| ApiVersions, InitProducerId | none | constant answers: the versions a client negotiates from, and a producer id |
| Headers, keys and base classes (`messages/__init__.py`, `headers.py`, `mapping.py`, `api_key.py`) | none | two request headers, two response headers, the table of keys and advertised versions |
| Wire primitives (`app/connection.py`, `app/protocol.py`, `app/tools.py`) | a position in a buffer | framing, integers, varints, compact strings |
| Start script (`tools/start.sh`) | the data directory, the port | remove metadata and logs, generate, start a broker, wait for a listener, consume |
| Demo clients (`tools/producer.py`, `tools/consumer.py`) | in the client library | produce without retries, follow a topic from its beginning |
| Benchmarks, configuration, logging | none of the broker's | |

How they interact:

- One asyncio task serves each connection. It awaits in two places only, for
  the next message (`connection.py:16`) and for `drain()` (`main.py:133`). The
  handlers are plain functions and await nothing. They use blocking file calls.
- The handlers of all connections share the partition log files. No lock
  guards them; that a handler runs to its end before another begins is all
  that keeps "read the end of the log, then append there" correct.
- The metadata is read once, when the broker starts. The tool writes the file
  whenever somebody runs it and never asks whether a broker is running.
- Clients may pipeline: they send before earlier answers have come, and may
  close, be reset, or never read.
- The broker may die at any moment. The partition logs and the metadata file
  survive; everything else is gone.
- A client asks for the versions first and uses for each API the highest that
  both sides know. Parsers and encoders branch on the version; client and
  broker have nothing else in common than the bytes.
- The start script, the tool and broker processes share one data directory
  and one port, and none asks after the others.
- A client that gets no answer in time closes the connection and, if it
  retries, sends the same request on another. The broker does not know the
  second from the first.

What is hard to test in this is listed line by line in `PROJECT.json` under
`hazards`. In short: two appends that use the same end offset; a request that
fails at its second entry; death between append and answer; answers that
describe no single moment; pipelined requests answered out of order or not at
all; one client's full buffer that stops the others; a write cut short and what
the scans make of the file afterwards; fetch offsets at the edges of batches;
metadata that is read half-written, appended twice under one name, behind a run
that was killed, or generated anew while clients hold old topic ids; a metadata file cut inside a record, and
appended to behind the cut; versions that are advertised and parsed in another
layout; lengths at the edge of one byte; streams cut anywhere; log files removed
under a running handler; a port that another broker holds; requests repeated
after a lost answer.

What makes each component correct:

- logs: offsets are contiguous from 0; appended batches stay where they are;
- produce: an acknowledgement tells where the records are, once, for good, and
  a refusal means they are nowhere;
- fetch: from the fetch offset up to the high watermark, nothing is left out;
- ends: no client is told of an end before one that was reported earlier;
- connections: answers in request order, one each; a client that reads is
  answered whatever others do; connections that are gone are let go;
- scans: on whole batches they compute the end and the suffix; acknowledged
  batches stay readable whatever later writes leave behind;
- metadata: the tool's offsets follow on; the handlers' loops agree; a topic
  id once learnt never means another topic; appending takes nothing away; what
  the tool wrote is loaded value for value, and a torn file serves nothing that
  was not meant;
- wire: each side reads what the other meant, in every version negotiated (the
  code falls short of this in some, which are listed below);
- framing: messages are read as sent, and none that has arrived is lost;
- deployment: offsets follow on whatever is removed meanwhile, an acknowledged
  record stays until it is removed, and a topic that the script registers holds
  nothing of an older one;
- delivery: what was acknowledged is stored, copies never exceed attempts, and a
  consumer takes every record once.

## 2. The modules

| module | models | extends |
|---|---|---|
| `PartitionLog` | a partition log as a sequence of batches, the two scans as operators | |
| `Broker` | the process, its connections, Produce, Fetch, ListOffsets | `PartitionLog` |
| `CommitLog` | what clients are promised: streams and facts told about them | |
| `BrokerCommitLog` | the refinement mapping from `Broker` to `CommitLog` | `Broker`, instance of `CommitLog` |
| `MCBroker` | workloads and instances for TLC | `BrokerCommitLog` |
| `LogFile` | one log file cell by cell, writes cut short, the two scans as loops | `PartitionLog` |
| `ClusterMetadata` | the tool, the metadata file, loading, the handlers' loops | |
| `Numbers` | integers and varints as bytes, the `Buffer` | |
| `Wire` | lengths, and reading and writing by a list of fields | `Numbers` |
| `Formats` | the fields that the parsers and encoders of the broker use, by version | `Wire` |
| `KafkaProtocol` | the fields that clients use (external) | `Formats` |
| `Session` | a client and the broker: negotiate, ask, answer, read | `KafkaProtocol` |
| `MetadataBytes` | the metadata file byte for byte, its encoders and parsers | `Numbers` |
| `Framing` | messages on a byte stream, `Reader` | |
| `Deployment` | `start.sh`, the tool and broker processes on one directory and one port | |
| `Delivery` | producers that retry, a consumer that follows, connections that lose | `PartitionLog` |
| `MCClusterMetadata`, `MCSession`, `MCMetadataBytes`, `MCFraming`, `MCDeployment` | instances for TLC | the module of that name |
| `PartitionLogProofs` | lemmas about the operators of `PartitionLog` | `PartitionLog`, TLAPS |
| `BrokerProofs` | theorems about `Broker`, its logs and its answers, and that it implements `CommitLog` | `BrokerCommitLog`, `PartitionLogProofs` |
| `LogFileProofs` | theorems about `LogFile` | `LogFile`, `PartitionLogProofs` |
| `ClusterMetadataProofs` | theorems about `ClusterMetadata` | `ClusterMetadata`, TLAPS |
| `MetadataBytesProofs` | theorems about `MetadataBytes` | `MetadataBytes`, TLAPS |
| `DeliveryProofs` | theorems about `Delivery` | `Delivery`, `PartitionLogProofs` |
| `DeploymentProofs` | theorems about `Deployment` | `Deployment`, TLAPS |
| `FramingProofs` | theorems about `Framing` | `Framing`, `PartitionLogProofs` |

The definitions carry the names of the code where TLA+ allows it; `map` in
`PROJECT.json` names the lines of each.

### Broker

The disk is `logs` and `metadata_file`. The process is `up`,
`cluster_metadata` (the topics and the partitions registered in what it read at
start) and, per connection, where its task stands:

| `task[c]` | the code is |
|---|---|
| `none` | no connection yet |
| `read` | in `read_full_message` |
| `handle` | in a handler, before entry `part[c]` of the request |
| `append` | in `handle_produce_request`, between `log_end_offset` and the write |
| `fetch` | in `handle_fetch_request`, between `log_end_offset` and `read_log_from_offset` |
| `drain` | in `await writer.drain()` |
| `closed` | out of the loop of `handle_client` |

`partition_responses` and `leo` (`base_offset` in Produce) are the handler's locals, lost by
`Forget` when it returns or raises. `requests`, `responses` and `delivered` are
what was sent, written and read on each connection, kept whole so that
properties can speak about them; `taken` is how many requests were read.
A request's correlation id is its place on its connection.

| action | code |
|---|---|
| `Start`, `Crash` | `main()`; death of the process |
| `AppendTopics` | the tool's `--append`, also for a name that is there |
| `Accept`, `Send`, `Receive`, `CloseSocket` | the client and the network |
| `ReadMessage` | `read_full_message` returned; dispatch on the key (`AfterReading`): an unknown key is skipped without an answer, a parser that raises ends the connection |
| `ReadEnds` | end of file or reset while reading |
| `ProduceReject`, `ProduceLookup`, `ProduceAppend` | one entry of `handle_produce_request` |
| `FetchUnknownTopic` | a topic that does not resolve, a uuid without a topic record or an empty name (one error for all its partitions) |
| `FetchLookup`, `FetchRead` | the end and the data of one partition of a topic that does, two reads of the file |
| `ListOffsetsPartition` | one entry of `handle_list_offsets_request` |
| `HandlerFails` | `OSError` in any of the handlers' file operations, or a value that does not fit its field when the answer is encoded: the answer is lost, appends stay, the connection ends |
| `Reply`, `Drained`, `DrainFails` | `writer.write`, the two ways out of `drain()` |

`Scheduled(c)` is the event loop: a task takes a step only when no other one is
inside a handler. It is a guard and not an assumption; the properties about
offsets are violated without it (the variant `Scheduled_AnyTime`), which is the
reason to check them: the first `await` that anybody puts into a handler
turns this guard into that variant.

### CommitLog and BrokerCommitLog

`CommitLog` knows neither connections nor files. Its variables are `stream`,
per partition the sequence of single records, and `told`, the facts that
answers have conveyed. `Publish` puts all records of one entry to the end of
one stream, at most once, and never after a refusal. `Tell` conveys facts that
all hold at that instant: where an entry was stored, that it was refused, where
a stream ends, what it holds from an offset on. The mapping takes a log to the
records its batches stand for and the responses written to the facts they tell.

### LogFile

The file is a sequence of cells, one cell for each field: base offset, batch
length, record count together with all that precedes it, then the records. The
scans are loops over positions with the code's exit conditions: they stop when
the file ends before a record count, and never ask whether the records are
there. `ProduceTorn` leaves the first few cells of a batch, `ProduceNothing` is
an entry with an empty record set, of which `raw[0:8] = ...` makes eight bytes.

### ClusterMetadata

`file` is the sequence of what the tool writes, for each batch a header and then
its records; `pending` is what the running tool has still to write. So it can be
killed, or a broker started, between any two of them, and the next run appends to
whatever is there: `append_topics` has no guard but that the tool is not running.
A batch that was cut short announces more than it has. Whoever hops over it by its
length loses the place (`Lost`), since what was appended behind it lies within that
length. From there on the model is nondeterministic: `next_base_offset` may be that
of any header behind the cut or a stray number, and `Read` may find any of these
headers again or none, as the bytes happen to be.

The handlers go through the records each with a loop of its own, and so do the
models: `produce_record` (Produce and ListOffsets, whose loops are the same line
for line) overwrites the name of a uuid, `metadata_record` overwrites it, keeps the
partitions and filters by the names asked for while it joins, `describe_record`
keeps the first, `fetch_record` goes by uuid alone. `loaded` is what the broker made
of the file. `promised` remembers every pair of topic id and name that a client
learnt.

### Numbers, Wire, Formats, KafkaProtocol and Session

A message is a sequence of bytes, a layout a sequence of fields. `Write` and
`Read` go through a layout as the code goes through its `read_bytes` and its
concatenations; a parser becomes a layout, with `When(v >= 5, ...)` where the
code has an `if` on the version. What matters is kept: the width of each field,
and how each length is read. Those are not the same everywhere (`uint16` where the
protocol has a signed one, `byte` where it has a uvarint, `unchecked` where the
code takes no precaution against null). Reading past the end gives less or
nothing, as slices do in Python.

`Formats` is translated from the code. `KafkaProtocol` is the other side, the
published protocol, which is not in the repository. `Session` lets them meet:

| action | code |
|---|---|
| `Send` | the client: ApiVersions first, then any API in `Common(api)`, the highest version both know |
| `Parse` | `process_request` looks the key up; the request class parses |
| `Reply` | the handler's answer (`Answers`: known or unknown, any data, any count), encoded; a number too large for its field drops the connection |
| `ReadReply` | the client reads, and learns the ranges from ApiVersions |
| `Forget` | the next request |

`meant` and `asked` are what the writers had in mind, `parsed` and `answer` what
the readers made of the bytes. `Agree` compares the fields both sides know.

The broker advertises versions that it does not speak. Properties are claimed of
all advertised versions but those listed in `Misread` and `Miswritten`, each with
its reason, and of lengths and counts above 126 only where they are not read or
written as one byte (`FitsOneByte`). The run has clients of all advertised
versions that the protocol has, the listed ones included, and lengths on both
sides of 126; what happens behind a message that was misread is not followed up.

### MetadataBytes

The encoders of the tool (`_record`, `_topic_record`, `_partition_record`,
`_batch`, `_next_base_offset`) and the parsers of the broker (`read_varint`,
`parse_record`, `parse_records`, `batch_end`, `read_cluster_metadata_log`) on the
same bytes. Loops of the code are recursive functions, of which the proofs can
speak. `generate` and `append_topics` write all their bytes or, `MaxCuts` times,
only so many of them; a run that writes more than `MaxCutBytes` is not cut.
`whole`, `intended` and `intact` remember the values of the records that are whole
on disk, that were meant, and that lie in front of the first cut; `Served` is the
set of partitions that a handler takes for valid. The checksum is opaque:
nothing checks it.

Four things are claimed of the file. Without a cut, it is loaded value for value
(`WholeFilesLoadWhole`), and a run finds the offset to go on from
(`NewBatchesFollow`). With a cut, whatever was appended behind it, nothing that
was complete in front of it is lost (`CutsLoseNothingInFront`), and nothing is
served that was not meant (`TornFilesServeNothingElse`).

### Framing

`outgoing` is what the client wrote and TCP has not delivered, `buffer` what
asyncio's reader holds. `Arrive(n)` delivers any number of bytes. `ReadSize` and
`ReadPayload` are the two calls of `_read_exactly`, `ReadNothing` what becomes of
a size of zero, `ReadEnds` the two errors. `Close` and `Reset` may come at any
byte. `Broker` takes over the result: its `ReadMessage` takes whole messages in
order, its `ReadEnds` comes when no whole one is left.

### Deployment

The disk is `metadata_file`, `dirs`, `files` and `log`; `removed` counts how
often a log file was removed, so that a handler that has opened a file and the
file of that name are told apart. `process[b]` goes from `launched` by `Load`
(`get_cluster_metadata`) and `Bind` (`start_server`, which raises when the port
is taken) to `serving`. Produce is split at its file operations, `Make`
(`os.makedirs`), `Look` (`log_end_offset`), `Open`, `Write`: other processes step
in between them, although no other handler of the same process can. The
script is `Begin`, `RemoveFile` and `RemoveDirectory` per partition, `Generate`,
`StartBroker`, `FindListener`, `End`; at any step it may be killed, without its trap
(`Abandon`). The tool is also run by hand, at any time, under a live broker or
between two steps of the script (`GenerateTopic`, `AppendTopic`, the latter also for
a name that is registered). `fresh` is the id of a topic that the
script registered while no broker but its own was alive.

### Delivery

One partition. A message is named by its producer, its number and the attempt
(`src`). `Send`, `Retry`, `GiveUp` and `Acknowledged` are the producer's side,
`Produce` is `handle_produce_request`, `Lose` a connection that dies with a request
or an answer on it, `Fetch` is `handle_fetch_request`, `Consume` and `LoseFetched` the
consumer's side. A retry closes the connection with the earlier answer on it but
not the earlier request, which may be handled later, even behind the retry.
`InitProducerId` gives all producers the same id and epoch, and `Produce` looks
at neither: the variant `Base_IfNew`, which does, acknowledges offsets of other
producers' messages. That is why handing out id 0 is harmless only as long as
nobody adds the check for duplicates.

## 3. The runs

| run | checks | distinct states |
|---|---|---|
| `store` | `TypeOK`, `OffsetsContiguous`, `EndOffsetIsFresh`, `AcksTellTheTruth`, `LogsHoldWhatWasSent`, `FetchDeliversAll`, `EndsNeverRecede` | 1,229,000 |
| `answer` | `AnswersInOrder`, `RequestsAreAnswered`, `ConnectionsAreReleased`, `ImplementsCommitLog` | 250,000 |
| `log_file` | `TypeOK`, `ScansAgree`, `EarlierBatchesStayReadable` | 313,000 |
| `metadata` | `TypeOK`, `MetadataOffsetsFollow`, `HandlersAgree`, `TopicIdsStayTrue`, `AppendOnlyAdds` | 78,000 |
| `metadata_bytes` | `WholeFilesLoadWhole`, `NewBatchesFollow`, `CutsLoseNothingInFront`, `TornFilesServeNothingElse` | 6,100 |
| `session` | `RequestsUnderstood`, `AnswersUnderstood` | 4,800 |
| `framing` | `TypeOK`, `MessagesAsSent`, `NothingLostAtTheEnd`, `ArrivedMessagesAreRead` | 7,800 |
| `deployment` | `TypeOK`, `OffsetsFollowOn`, `AckedUntilRemoved`, `NoRecordsOfOldTopics` | 1,106,000 |
| `delivery` | `TypeOK`, `AckedIsStored`, `CopiesWithinAttempts`, `ConsumedIsTheLog`, `AckedIsConsumed` | 108,000 |
| `log_end_docstring` | `EndIsAfterLastRecord`, violated | |
| `fetch_v12` | `FetchSince12Understood`, violated | |
| `metadata_append` | `WrittenTopicsAreServed`, violated | |

### Bounds

- `Conns` (`store`, `answer`): two. The hazard is one task between two steps of
  another; `Scheduled` speaks of pairs. A connection is opened at most once: a
  client that reconnects is another one.
- `MaxRequests`: two on each connection, so that a request can be answered
  while another waits, a second follows an unanswered one, and up to four
  appends reach one partition.
- The workload of `store` has an entry that is refused before the tool has run
  and the broker restarted and accepted after, the same partition twice in one
  request, batches of one and two records, fetch offsets at the start, inside a
  batch and beyond the end, by name (version 12), without a name and by uuid (13),
  of a topic that has no partitions as well, and a listing of two partitions. That
  of `answer` has a produce and a fetch of two partitions, an unknown key, and a
  message that does not parse. Listings and refusals are not in it;
  `CommitLogImplemented` of section 4 covers what they tell.
- `HighWater`, undelivered responses above which `drain()` waits: 0 makes it
  wait whenever it can. The real one is in bytes.
- `log_file`: `MaxCells` 11 admits three to four appends, `MaxRecords` 2 cells of
  records, each 0 or 5: a 0 read as a length makes a scan creep, a 5 makes it
  jump. `Cuts` are all the places at which a batch can be cut.
- `metadata`: two names, at most one partition each, three topics ever created, up
  to two in one command: enough to register a name twice and have another one beside
  it, to generate anew after appending, and to append behind one cut and behind two.
  A batch of header, topic and partition can be cut in two places between them.
- `metadata_bytes`: two runs of the tool, one of them cut, at any byte up to the
  250th; names of up to 126 bytes, the longest whose length fits one byte; 64
  partitions, so that record numbers need two bytes; two topics in one command;
  a topic without partitions.
- `session`: one client for each version that the broker advertises and the
  protocol has: Produce 0–11, Fetch 0–16, ListOffsets 1–5, Metadata 0–5,
  ApiVersions 0–4, InitProducerId 0–4, DescribeTopicPartitions 0. `MaxRequests` 2 is
  the negotiation and one request; nothing is kept between requests. Names of 1,
  126 and 127 bytes, null and empty arrays, record batches of 126 and 130 bytes (one
  and two bytes of length), 0, 2, 126, 127 and 255 partitions in an answer.
- `framing`: three messages in flight, one whose bytes look like a frame and one
  that is empty; a fourth would meet no state of the reader that the third does
  not meet.
- `deployment`: two broker processes (a left-over or one started by hand, and the
  script's), three runs of script or tool, three records, two names, one partition
  each. A process is started once; a third would compete for the port as the
  second does.
- `delivery`: two producers with one message of two records each, one retry,
  two losses, a consumer that starts at the front or inside the first batch.
  The proofs of section 4 cover the larger instances.
- Symmetry is used in `store` (connections), `metadata` (names) and
  `deployment` (processes, names). No property and no workload tells them apart, and
  none of these runs has a liveness property. `answer`, which has, uses none.

Deadlock is checked wherever the system can always go on (`Broker` can crash
and restart for ever, `ClusterMetadata` likewise). It is switched off for
the modules that stop when a bound on their inputs is reached: `LogFile`,
`Session`, `MetadataBytes`, `Framing`, `Deployment` and `Delivery`.

### Fairness

- `FairSpec` of `Broker` (`answer`) has weak fairness of `Serve(c)` for each connection:
  asyncio runs every task that is ready, in turn, and a handler that has begun
  runs to its end. Weak is enough: while a task is ready it stays ready, except
  while another is inside a handler, and a handler ends after as many steps as
  its request has entries. The bound on requests sees to it that the other
  connections cannot keep the loop busy for ever; the loop's ready queue is first
  in, first out, so they cannot in the code either. `Receive(c)` is fair for
  `Readers` only: in the run one client reads and the other may never do.
  Nothing is assumed of `Send`, `Start`, `Crash`, `CloseSocket` or the storage.
- `FairSpec` of `Framing` has weak fairness of `Read`: asyncio resumes a task whose bytes are
  there or whose stream has ended. Nothing is assumed of client and network.
- `FairSpec` of `Delivery` has weak fairness of `Fetch` and `Consume`: the
  consumer polls for ever, and the broker answers whoever reads
  (`RequestsAreAnswered`). Losses are bounded. Nothing is assumed of producers.

### What they show

With at most one handler at work, pipelined and interleaved requests, crashes
and handlers that fail leave the offsets contiguous, every acknowledgement true and
every refusal final; fetches leave no record out; all entries of one response
describe one instant; no end recedes; a client that never reads stops nobody
else. Metadata read half-written, appended behind a run that was killed, or with a
name twice in it makes no two handlers disagree, and the tool leaves offsets out
rather than giving one to two records, until it appends behind a cut for the
second time. A metadata file cut at any byte still serves everything that
was complete before the cut, and nothing that was not meant. In all advertised
versions but those listed below, both sides read what the other meant. Whatever the network cuts, messages
are read as they were sent. Log files removed under a running handler lose
acknowledged records, which is what removing is for, but never give an offset
out twice. Handing out producer id 0 to everybody costs duplicates, at most one
for each attempt, and nothing else.

Three statements of the repository do not hold:

- `log_end_docstring`: `log_end_offset` promises "the next offset after the last
  record". It trusts each header it meets. After an append that was cut short
  behind the record count, the next append falls inside the range that the header
  announces; the scan jumps past its beginning, and the end it returns lies
  before a batch that was acknowledged. Offsets are given out twice from there
  on. `EarlierBatchesStayReadable` is what still holds then: batches before the
  interrupted write stay readable.
- `fetch_v12`: the docstring in `fetch.py` says that `replica_id` became a tagged
  field in version 12, and the parser skips it from there on. In the protocol it
  is a plain field up to version 14, so requests of versions 12 to 14, which the
  broker offers, are read four bytes off. Clients that know version 15 never
  negotiate these versions, and older ones than 12 do not either.
- `metadata_append`: the tool "registers one or more topics so our broker can serve
  Metadata and Produce requests for them". `append_topics` writes behind whatever
  the file ends with. Behind a torn batch its topics lie within the length that
  the torn header announces, the loader passes over them, and they are never
  served, although the tool reported them.

Smaller disagreements are modelled as the code has them, without a run:

- `read_log_from_offset`'s docstring says "all batches whose base_offset >=
  fetch_offset". From inside a batch the code returns that batch, as it should:
  `FetchDeliversAll`.
- Up to version 12 a fetch takes the topic's name as it comes, so that a topic
  unknown to the metadata is answered without error and with an end of 0.
- Advertised versions that one parser or encoder takes for a later one, found by the
  clients of `session`, with nothing in the repository that claims them one by one.
  Requests misread (`Misread`): Produce 0–2 (a transactional id is read that came
  with 3), InitProducerId 0–1 (read as flexible), besides Fetch 12–14. Answers
  miswritten (`Miswritten`): Produce 0–1 (append time), Fetch 0 and ListOffsets 1
  (throttle time), Fetch 4 (`last_stable_offset` came with 4; the encoder, whose
  docstring names versions 0 to 11, writes it from 5 on), ApiVersions 0–2 and
  InitProducerId 0–1 (flexible).
- `start.sh` says "Broker is up (pid ...)" of the process that it started when it
  finds any listener. Its own may have died of the port that a broker left running
  still holds; that one goes on to serve its old metadata. The condition `alone` of
  `NoRecordsOfOldTopics` is there for this reason.
- Compact strings and arrays of 127 and more are read with a length of one byte,
  and written with one or not at all (`FitsOneByte`). The names of `metadata_bytes`
  end at 126.
- An empty message is treated like an end of file: `_read_exactly` takes the
  zero bytes it asked for as the end.

### Faulty variants

Each property of a passing run is violated once a definition is replaced by a
faulty variant, as a plausible slip would change it. The variants stand before
the definitions they vary and no specification uses them.

| variant | the slip | noticed by |
|---|---|---|
| `Forget_FromZero` | a handler begins at entry 0 | `Broker`'s `TypeOK` |
| `Scheduled_AnyTime` | handlers interleave | `OffsetsContiguous`, `EndOffsetIsFresh`, `ImplementsCommitLog` (and `FetchDeliversAll`) |
| `Scheduled_DrainBlocks` | draining holds up the event loop | `RequestsAreAnswered` |
| `ProduceAnswer_LastOffset` | the answer carries the last offset instead of the base | `AcksTellTheTruth` |
| `Entry_AlwaysFirst` | each pass of the loop appends the first entry | `LogsHoldWhatWasSent` |
| `ReadLogFrom_ByBase` | the fetch loop compares base offsets, as the docstring has it | `FetchDeliversAll`, `ConsumedIsTheLog` |
| `ListedOffset_LastRecord` | latest is the last record instead of the end | `EndsNeverRecede` |
| `AfterReading_AnswersAll` | an unknown key is answered as well | `AnswersInOrder` |
| `DrainFails_Never` | `drain()` never notices the reset | `ConnectionsAreReleased` |
| `log_end_offset_LastRecord`, `next_pos_LengthOnly` | off by one; `pos` advances by the length field but not past the base offset | `LogFile`'s `TypeOK`; `ScansAgree`, `EarlierBatchesStayReadable` |
| `TopicBatch_FromOne`, `next_base_offset_ByRecords` | partitions from 1; the scan asks which records are there and not what the header says | `ClusterMetadata`'s `TypeOK`; `MetadataOffsetsFollow` |
| `describe_record_ByName` | the loop keeps the first of a name and not of a uuid | `HandlersAgree` |
| `produce_record_Renewed` | registering a name again drops its partitions | `AppendOnlyAdds` |
| `new_uuid_FromOne` | ids are numbered in each run of the tool | `TopicIdsStayTrue` |
| `batch_end_OfRecords` | the batch length counts from where it stands | `WholeFilesLoadWhole` |
| `base_offsets_ByPartitions` | the topic's own record is not counted | `NewBatchesFollow` |
| `read_record_AllOrNothing` | a record that does not parse takes the others of its batch with it | `CutsLoseNothingInFront` |
| `partition_id_NoVersion` | the version in front of the partition's number is not passed over | `TornFilesServeNothingElse` |
| `read_uvarint_KeepsFlag` | the continuation bit is not masked | `RequestsUnderstood` |
| `fetch_response_partition_legacy_StartOffsetLater` | a field comes one version late | `AnswersUnderstood` |
| `from_bytes_OfFrame`, `ReadPayload_KeepsSize` | the size counts itself; the size is not read anew | `Framing`'s `TypeOK`; `MessagesAsSent` |
| `Incomplete_AtEof`, `Needed_KeepsSize` | an end of file discards what is buffered; an ended stream is not noticed between messages | `NothingLostAtTheEnd`; `ArrivedMessagesAreRead` |
| `CanOpen_Always`, `log_end_offset_ByCount` | opening makes directories; offsets by counting records | `Deployment`'s `TypeOK`; `OffsetsFollowOn` |
| `Written_Truncates`, `Doomed_ExceptLast` | the file is opened for writing anew; one partition's directory too few is removed | `AckedUntilRemoved`; `NoRecordsOfOldTopics` |
| `Base_OfLast`, `Base_IfNew` | off by one; duplicates are looked for by producer id | `Delivery`'s `TypeOK`; `AckedIsStored` |
| `Handled_MayRepeat`, `Fetched_Aligned` | a request is handled twice; only batch boundaries can be fetched | `CopiesWithinAttempts`; `AckedIsConsumed` |

## 4. The proofs

`BrokerProofs` proves, for any connections, topics, partitions, workload and
bounds, from `WorkloadAssumption` (bodies are well-formed; a batch has at least
one record; fetch offsets are natural) and `BoundAssumption`:

| theorem | says |
|---|---|
| `Invariance` | `Spec => []IInv` |
| `TypeCorrect` | `Spec => []TypeOK` |
| `FreshOffsets` | `Spec => []EndOffsetIsFresh` |
| `ContiguousOffsets` | `Spec => []OffsetsContiguous` |

`OffsetsContiguous` is not inductive. An append keeps the offsets contiguous only
if the offset it uses is still the end of the log (`EndOffsetIsFresh`). That
holds only if nobody else appends between the two steps (`OneHandler`: at most
one connection is in `handle`, `append` or `fetch`, which the guard `Scheduled`
preserves). And to know what is appended where, an appending handler must be at
an entry of a produce request that it has read (`HandlersHaveRequests`), and
that entry must have a batch of at least one record (`TypeOK` with the
assumption). `IInv` is the conjunction of these five:

1. `TypeStep`, `OneHandlerStep`, `ServedRequestStep`, `AppendingStep` each take
   one conjunct through every action;
2. `AppendAtEnd` of `PartitionLogProofs` is the heart: a batch appended at the
   offset that `log_end_offset` returns leaves a contiguous log contiguous;
   `LogEndOffsetType` and `ReadLogFromType` say what the scans return, the
   latter from `LeastElement`, the least element of a set of naturals;
3. `Invariance` combines them, and the other theorems are its conjuncts.

### What the answers say

The same module, from the same two assumptions:

| theorem | says | inductive invariant |
|---|---|---|
| `OrderedAnswers` | `Spec => []AnswersInOrder` | `OrderInv` |
| `LogsHoldTheSent` | `Spec => []LogsHoldWhatWasSent` | `StoreInv` |
| `TruthfulAcks` | `Spec => []AcksTellTheTruth` | `AcksInv` |
| `CompleteFetches` | `Spec => []FetchDeliversAll` | `FetchInv` |
| `NoEndRecedes` | `Spec => EndsNeverRecede` | `EndsInv` |

None of the five properties is inductive. They speak of responses that were
written, and a response is right because the handler had the same thing right of
every entry it had answered by then. So each invariant adds to its property what
holds of the answer in progress, `partition_responses`:

- `PlaceInv`, under all of them, says where a handler is: its request has a known
  key, and in Produce and ListOffsets the entry it is at is the first without an
  answer. It needs `IInv` for the types.
- `OrderInv` adds that the request a handler is at has no answer yet: else
  `Reply` could give a second one.
- `StoreInv` adds that each stored batch is an entry that the handler has been
  through (`Past`). So the entry it appends next is not stored already, and comes
  behind everything stored from that connection.
- `AcksInv` has `AcksTellTheTruth` of the answer in progress too. An
  acknowledgement stays true since logs only grow, a refusal since no entry that
  is `Past` is appended again; that is why `StoreInv` and `OrderInv` belong to it.
- `FetchInv` rests on `ReadDelivers` in `PartitionLogProofs`:
  a read of a contiguous log covers each offset up to its end by one batch. That
  this end is the one looked up a step earlier is `EndOffsetIsFresh`.
- `EndsInv` adds that no end reported lies beyond its log and that an end in an
  answer in progress is not before any reported one. The second part is where
  `OneHandler` comes in: nobody else can answer in between.

The last part of `BrokerProofs` proves `CommitLogImplemented`,
`Spec => ImplementsCommitLog`. Its invariant `FactsInv` is `AcksInv` together with:
every entry of an answer in progress is still up to date with the logs. Ends
and contents change with each append, but no other handler runs meanwhile, and
one that reads appends nothing. Then the steps map as follows: `ProduceAppend` to
`Publish` (`PublishStep`: the entry is neither published nor refused, and the stream
grows by its records, `StreamOfAppend`); every step that leaves the logs alone to
`Tell`, which is a stutter unless it is a `Reply` (`TellStep`: what is told for the
first time is told by the handler at work, and holds).

### The log file

`LogFileProofs`, for any records, bounds and cuts, from `LogFileAssumption` (cells
are naturals; a batch has at least one record; a cut leaves at least one cell):

| theorem | says |
|---|---|
| `Invariance` | `Spec => []IInv` |
| `TypeCorrect` | `Spec => []TypeOK` |
| `ScansCompute` | `Spec => []ScansAgree` |
| `EarlierReadable` | `Spec => []EarlierBatchesStayReadable` |

`ScansAgree` entitles `Broker`, `Delivery` and their proofs to the operators on
batches, and this is the proof that it does so for files of every length. The
scans are loops, recursive functions in the model, and what a recursion computes
would be shown by induction, which the installed provers cannot apply. The proof
does without:

1. `Found(f, pos)` says which positions the loop visits: the members of the least
   set of positions that holds `pos` and that the loop cannot leave (`Closed`).
   `FoundUnrolled` and `HeadersAre` show that this is what the loop does; to
   show that something is not visited one gives a closed set without it.
2. `Laid(f, bs, n, ends)` says that the first `n` batches lie in the file one
   after another, and where each ends. The positions are a witness, so no sum over
   batches is needed; `EncodeAllIs` derives from it that such a file is `EncodeAll`
   of its batches.
3. `LaidHeaders`: of a file so laid, the loop visits the beginnings of these
   batches and nothing between them. `FirstHit` and `ScansOfWhole` take this to
   the two scans, `ReadBeginsWith` to a file whose end may hold anything.
4. The inductive invariant `PrefixInv`: the `intact` first batches have offsets that
   follow on and lie at the front, and without an odd write they are the whole
   file. `EarlierBatchesStayReadable` alone says what reads return, not why, and
   would not survive the next append.

### The metadata

`ClusterMetadataProofs`, for any names, partitions and runs of the tool, from
`ClusterMetadataAssumption` (the bounds and stray offsets are naturals):

| theorem | says |
|---|---|
| `Invariance` | `Spec => []IInv` |
| `TypeCorrect` | `Spec => []TypeOK` |
| `OffsetsFollowOn` | `Spec => []MetadataOffsetsFollow` |
| `IdsNameOneTopic` | `Spec => []TopicIdsStayTrue` |
| `TablesAgree` | `Spec => []HandlersAgree` |
| `AppendsOnlyAdd` | `Spec => AppendOnlyAdds` |

`IInv` adds two things to the types. `OffsetsInv`: batches follow on in the file
and in what the tool has still to write, and the one fits behind the other
(`Fits`), as long as the place is not lost. The heart of it is
`FollowedToTheEnd`: a file in which nothing was cut short before its last batch is
followed to its end, so that `next_base_offset` has one value, even if that batch
is torn; `LostStays` and `WriteLosesNothing` say that writing neither heals nor
moves a cut. `IdsInv`: wherever a uuid is known, on disk, about to be, in the
broker's memory or a client's, it goes with one name and is one that was handed
out. `TopicIdsStayTrue` speaks of memory and clients only and says nothing of what
the next start will load.

`TablesAgree` rests on that. It is not true of any list of records: with two names
for one uuid, the loop that overwrites and the one that keeps the first come apart.
A loop is a recursive function over the records; `LoopExists` shows, from the least
element of a set of counterexamples, that such a function takes the steps of its
body. Each loop is then shown to compute the same two relations (`ProduceLoop`,
`FetchLoop`, `MetadataLoop`, `DescribeLoop`): which uuid has which name (`Named`),
and which partition comes behind the topic record of its uuid (`Belong`). The
dictionaries are functions on the keys seen so far (`DictIs`). What the handlers
answer follows from the relations alone (`MetadataAnswers`, `DescribeAnswers`).
`AppendsOnlyAdd` needs that both relations only grow, whatever is lost behind a cut
(`ReadValues`, `BelongGrows`).

### The bytes of the metadata file

`MetadataBytesProofs`, for any names, numbers of partitions, sequences of runs and
cuts, from `MetadataBytesAssumption` (names have at most 126 bytes, beyond which
the tool and the broker disagree; a topic's records can be counted below `Huge`,
2^21, where the model stops counting; the fields of fixed width have their width):

| theorem | says |
|---|---|
| `MetadataBytesInvariant` | `Spec => []MetadataBytesInv` |
| `WholeFilesLoadWholeHolds` | `Spec => []WholeFilesLoadWhole` |
| `NewBatchesFollowHolds` | `Spec => []NewBatchesFollow` |
| `CutsLoseNothingInFrontHolds` | `Spec => []CutsLoseNothingInFront` |

Eight recursive definitions take part: `encode_uvarint`, `bytes_to_int`, the loop of
`read_varint`, those over records, over batches and over base offsets, the scan of
`_next_base_offset`, and `FlattenSeq`. What lets one speak of them is `Recursion`:
for a loop that shrinks some number with each step there is a function that
satisfies its definition. It is proved from
`LeastElement` and `LoopInduction`, in which the claim to be carried through the
loop is a set of positions instead of an operator. Each parser then gets a lemma that
says it comes to an end on all bytes whatever (`VarintIs`, `RecordsAre`, `LogIs`,
`ScanIs`). On top of that:

1. `At(data, pos, s)` says that the bytes `s` lie in `data` at `pos`. All lemmas
   about reading have this form: whatever lies around it, what was written at
   `pos` is read from `pos`, and the parser stops right behind it. They go from
   numbers (`FourBytes`, `VarintRead`, `ZigzagRead`) to the bodies of the three
   types (`FeatureParse`, `TopicParse`, `PartitionParse`), records (`RecordRead`),
   batches (`BatchRead`) and files (`FileRead`, `OffsetRead`).
2. What a run writes are batches that can be read, numbered from the offset that
   the run found (`AppendRun`, `GenerateRun`).
3. What is left of a run that is cut off are whole batches, then possibly the head
   and some whole records of one more (`CutRun`): the records that are whole by
   `WholeOf` are those. `Begins(file, 0, values)` says that a file begins so.
   It stays true under every append (`BeginsStay`), and such a file is loaded with
   these values in front, whatever the parsers find behind them (`BeginsLoad`).
4. The inductive invariant `MetadataBytesInv`: without a cut the file is batches
   numbered on from 1; and with or without, it begins with `intact`. The
   properties speak of what is loaded and not why, and would not survive the
   next append.

The numbering is claimed as long as the file has fewer than `Huge` records; the
loading has no such bound. `TornFilesServeNothingElse` is not proved, since it
depends on the names: behind a cut the parsers may come to read a record from
the middle of a name, and nothing in the format keeps a name from looking like
one. It is checked for the names of the run, with a cut at every byte.

### The stream

`FramingProofs`, for any messages and however they are cut, from
`FramingAssumption` (messages are bytes; the length of one fits into the four
bytes in front of it):

| theorem | says |
|---|---|
| `Invariance` | `Spec => []IInv` |
| `TypeCorrect` | `Spec => []TypeOK` |
| `MessagesReadAsSent` | `Spec => []MessagesAsSent` |
| `NothingIsLost` | `Spec => []NothingLostAtTheEnd` |

Where a message begins in the stream is a sum over those before it, which would
need induction. The invariant has no sum: `StreamInv` says that the bytes in the
buffer and those that may still come are together the frames of the messages not
read yet (with a witness, the rest of the stream behind each message, as in
`LogFileProofs`), `PlaceInv` that the task stands in front of the next message or
between its size and itself, `EndInv` why the loop was left. `FrameIs`: the four
bytes say the length, whatever it is. `NextPiece`: if a buffer and the bytes
missing from it begin with a piece, and the buffer is no shorter, then it begins
with that piece. `NothingIsLost` needs of the sums in `Arrived` only that they
grow (`LengthsGrow`, from `LeastElement`).

### Delivery and deployment

`DeliveryProofs`, for any producers, message sizes, retries and losses, from
`DeliveryAssumption` (messages have at least one record; the bounds are naturals):

| theorem | says | inductive invariant |
|---|---|---|
| `TypeCorrect` | `Spec => []TypeOK` | itself |
| `AcknowledgedIsStored` | `Spec => []AckedIsStored` | `StoredInv` |
| `StoredWithinAttempts` | `Spec => []CopiesWithinAttempts` | `CopiesInv` |
| `ConsumerFollowsTheLog` | `Spec => []ConsumedIsTheLog` | `ConsumedInv` |

`AckedIsStored` speaks of what a read returns, so it needs that the log is
contiguous (`BatchesInOrder`: then batches lie in order of their offsets;
`ReadBeginsAt`: then a read at a base offset begins with that batch), and that
answers under way are stored already. `CopiesWithinAttempts` needs where every
attempt is: under way, or stored, never both, and none with a number that its
producer has not reached (`Issued`). `ConsumedIsTheLog` needs that an answer under
way is still a part of the log that begins at the consumer's position
(`PartOfLog`), however much is appended meanwhile: `ReadIsPart`,
`PartHoldsTheLog` and `AppendKeepsRecords`.

`DeploymentProofs`, for any names, partitions, processes and bounds, from
`DeploymentAssumption` (`Nobody` is no broker):

| theorem | says | inductive invariant |
|---|---|---|
| `TypeCorrect` | `Spec => []TypeOK` | itself |
| `OffsetsAlwaysFollowOn` | `Spec => []OffsetsFollowOn` | `OffsetsInv` |
| `AcknowledgedUntilRemoved` | `Spec => []AckedUntilRemoved` | `AckedInv` |
| `OldTopicsAreGone` | `Spec => []NoRecordsOfOldTopics` | `OldTopicsInv` |

`OffsetsInv` adds that what a handler looked up is still the end of the log, or
the log was removed since (`AtEnd`): the two ways in which a write finds its
place. `AckedInv` adds that no handler holds a file of a later removal than the
last one. `OldTopicsInv` is the long one. It follows the script step by step
(`AloneInv`: while no other broker was launched, only the script's can be alive,
and what it has emptied stays empty), says which processes have the port and
know topics (`ProcessInv`), and, from when the script's broker listens, that whatever
anybody knows, in the file or in memory, was registered with that topic or later
(`FreshTopic`, `Since`): so nobody can append for an older one. A topic that
somebody registers by hand under the same name meanwhile goes to the same logs,
which is why the property speaks of older topics and not of others.

### Model-checked only

Every inductive invariant above was checked by TLC on the instance of a run
before it was proved, but for `MetadataBytesInv`, which speaks of batches that
TLC cannot enumerate. Left to TLC are:

- liveness under fairness: `RequestsAreAnswered`, `ConnectionsAreReleased`,
  `ArrivedMessagesAreRead`, `AckedIsConsumed`. It is out of the prover's reach.
- `TornFilesServeNothingElse`, for the reason given above.
- `RequestsUnderstood` and `AnswersUnderstood` of `Session`. They read and write by
  the recursive operators of `Wire`, which go through nested layouts: the prover
  takes no recursive operator, and what one computes for every layout
  needs induction over the layouts.

## 5. Abstractions, and what is not modelled

- Whole appends in `Broker`. One cut short is in `LogFile`; `ScansAgree` is what
  entitles `Broker` to the batch-level operators.
- In `Broker` a uuid and a name stand for each other: from version 13 on `Resolves`
  asks for a topic record, before that for a name that is not empty. Topics with
  several uuids are in `ClusterMetadata`.
- In `LogFile` a field is one cell whatever its width. A scan that has lost its
  place meets other numbers on disk than in the model, so of such scans only
  what holds for all data is claimed; the violation of `EndIsAfterLastRecord` uses
  a cut right behind the record count, where cells and bytes say the same.
- In `ClusterMetadata` headers and records are whole and each is a step; what a
  reader makes of bytes where it has lost its place is left open there.
  `MetadataBytes` has the bytes, and takes each run of the tool for one write. Its
  `Served` lets a name stay where a second topic record of the same uuid, which only
  bytes behind a cut could make up, would replace it. In `Deployment` the
  tool's writes are atomic and a batch is one record.
- In `Broker` request bodies are given as the parsers' result; a parser that
  raises is the message `Unparsable`. `Session` has parsers and encoders, with
  handlers that answer anything of the right form. ApiVersions, Metadata,
  DescribeTopicPartitions and InitProducerId touch no state: they are in
  `Session`, their tables in `ClusterMetadata`, and in `Broker` they would be
  requests without entries.
- `Session` keeps the fields that both sides know and those that must have a fixed
  value to be understood. Timestamps, checksums and host names are opaque.
  Requests have empty tagged fields, as clients send them; non-empty ones, which
  the code does not skip either, are left out. So are null client ids
  (kafka-python sends one always), and version 0 of Metadata with an empty list.
- The one replica and leader that the tool writes, broker 1, and the leader epochs
  are constants; files with other replica lists, which the code would take over,
  are not modelled. Neither is the order in which tables list their topics.
- `acks`, `max_bytes`, session fields and transactional ids are read and ignored
  by the code; they are fields of `Formats` and appear nowhere else.
- `Delivery` has one partition and an append that is one step, as `Broker` shows.
- Two brokers serving one directory at once cannot be: they compete for the port
  (`Deployment`). Edits of log files by hand are excluded.
- Not modelled: logging, benchmarks, containers and launch files, and the
  configuration, whose values are constants here.

## 6. The plan

The order was by what can go wrong: the shared logs first, then what is promised
about them, the files under them and the metadata; then the bytes on the wire and
in the metadata file, the stream they come on, the processes around the broker,
and the clients end to end. What is left:

- A consumer in `Deployment`, whose position outlives the log it was taken from.
