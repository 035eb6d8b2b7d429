# A TLA+ model of Astaire and its proxy

This directory models the two daemons of the repository in TLA+: **astaire**, which
streams records into the local memcached when the cluster is resized or memcached has
restarted, and **rogers**, the proxy that clients use to reach the replicas. TLC checks the models on small instances. TLAPS proves the
most important properties for every instance.

`PROJECT.json` lists the runs, their properties, the lines each definition models
(`map`), the hazards and the theorems. Source paths below are relative to `src/`.

## 1. The system and its parts

| Part | State | Operations | Talks to |
|---|---|---|---|
| Work list (`src/astaire.cpp` 484-544, 625-651, 710-764) | the outstanding work list: per vbucket, the replicas still to be tapped | calculate, take the next round of taps, blacklist a server, count, test for empty | the view |
| Resync (`do_resync`, `process_worklist`, `perform_single_tap`, `complete_single_tap`) | work list, unstreamed vbuckets, thread handles, gauges, alarm | plan, start a round, join a thread, blacklist, report | tap threads, statistics, alarm |
| Tap thread (`tap_buckets_thread`) | two connections, the current message, a CAS id, `success` | connect, receive, Get, Add or Replace, end | the tapped memcached, the local one |
| Astaire object (`src/astaire.cpp` 33-186, 780-920) | `_terminated`, `_view_updated`, `_full_resync_requested`, `_view`, mutex, condition variable | control loop, SIGHUP and SIGUSR1 handlers, tag, untag, poll, destructor | updater threads, local memcached |
| MemcachedBackend (`src/memcached_backend.cpp`) | replica lists, per-vbucket communication state and count, time of the next alarm update | read, write, delete, `new_view`, `update_vbucket_comm_state` | connection pool, memcached, alarm |
| ProxyServer (`src/proxy_server.cpp`) | listening socket, thread count | start, accept, serve, end | clients, backend |
| Connection and wire format (`src/memcached_tap_client.cpp`) | socket, `_buffer` | connect, send, recv, `to_wire`, `is_msg_complete`, `from_wire` | the network |
| Statistics (`src/astaire_statistics.cpp`) | atomics without a lock, connection records under one, the last report of each | set, increment, reset, refresh, report, delete | control and tap threads, refresh thread, last-value cache |
| `resync_main`, `proxy_main` | none that lasts | start, wait for SIGTERM, delete | everything |
| wait-sync (`debian/astaire.init.d`) | counters of its polling loop | poll the statistics, give up | Statistics |
| Packaging, problem definitions | none | none | none |

What is hard about each, and the properties that follow:

* *Work list and Resync.* Several taps run at once and any of them may fail, or get no
  thread. A vbucket must be streamed by one tap at a time, from its replicas in order;
  a failed server must not be tapped again; no replica may be forgotten when another
  server is blacklisted; the loop must end; the report must be true; no thread may
  outlive the statistics record it points to.
* *Tap thread.* Clients write to both nodes while it runs. It compares 32-bit
  timestamps that wrap, and it reads a record before it replaces it. Nothing newer may
  be replaced and nothing lost.
* *Astaire object.* Handlers, the control thread, the constructor and the destructor
  meet at one lock and one condition variable. Both daemons may crash and restart. The
  tag must mean what the next process takes it to mean.
* *MemcachedBackend.* Replicas fail, restart empty and number their records
  separately. Connection threads share the view and the alarm's state.
* *ProxyServer and the wire format.* Bytes arrive in any pieces; clients pipeline and
  disconnect. Every integer changes its byte order on the way in and again on the way
  out, and each kind of message has its own extras.
* *Statistics and wait-sync.* Several threads change and report the same numbers without
  a lock, and an operator's script decides from one of them that a resync is over.

## 2. Modules

| Module | Models | Lines of code stand for |
|---|---|---|
| `Worklist` | the pure functions on work lists | operators on sets of `<<position, server>>` pairs, so that no recursion is needed |
| `BucketResync` | nothing by itself: the abstract specification of a resync | a set of vbuckets is taken on, each is dealt with, then the resync is over |
| `Resync` | one resync after another | one action per step of the control thread, one for the end of a tap thread |
| `TapBuckets` | one tap | one action per request of the thread, each with its error branches; clients and servers as environment |
| `Astaire` | the Astaire object | one action per critical section of a handler, one per request of the control thread |
| `MemcachedBackend` | the backend and the `ProxyServer` handlers that call it | one action per request to a replica; `req[t]` holds a thread's local variables |
| `ProxyServer` | listening and connection threads, framing | one action per system call or handled message |
| `Statistics` | the global and per-connection statistics | one action per load, compare-exchange, store or report of an atomic; one per critical section of the connection lock |
| `WaitSync` | `do_wait_sync`, on top of `Statistics` | one action per cycle of the script |
| `WireFormat` | the messages byte by byte | an operator per message class and conversion; one action per `recv` and per message handled |
| `MC*` | instances for TLC | sets of nodes, views, keys and messages |
| `*Proofs` | theorems for every component | see section 6 |

How the parts fit together. `Astaire` sees a resync vbucket by vbucket (`StartResync`,
`StreamBucket`, `FinishResync`) and uses `Worklist` to know which vbuckets; `Resync`
is the same code seen tap by tap, with a tap reduced to its result; `TapBuckets` is the inside of
one tap. `ProxyServer` is the outside of a connection thread, and
`MemcachedBackend` the inside of its handlers. `BucketResync` is a resync as the control
loop sees it, with the steps `Astaire` has; `Resync` implements it
(`ImplementsBucketResync`), under the mapping that takes
`todo` to the vbuckets with a replica still to be tapped. So what the control loop takes
for granted of a resync is what the rounds of taps provide. `Statistics` is what `do_resync` and the taps do to
the statistics, and `WaitSync` reads the reports. `WireFormat` has the bytes of the
messages that `TapBuckets`, `ProxyServer` and `Astaire` send and receive.

Abstractions worth knowing:

* A replica list in a work list is the set of its `<<position, server>>` pairs. Erasing
  an entry keeps the order of the rest.
* In `Astaire` the control thread holds `_lock` everywhere but in
  `pthread_cond_timedwait` and before its first step. So a handler, whose body is one
  critical section, is one step that needs `LockFree`.
* `settled` in `Astaire` is history: the vbuckets whose taps have ended (or that have no
  replica to tap) since memcached started. A vbucket that could not be streamed is
  settled too: the code logs the failure and goes on, and the tag is written all the
  same. `trusted` is history: the last poll that found no tag had a configuration.
* In `TapBuckets` a record is the time of its write; the thread sees the time modulo
  `2 * Half`. The signed subtraction of `src/astaire.cpp` 340 overflows, which is undefined, for
  differences beyond 31 bits: there the outcome is either Boolean.
* In `MemcachedBackend` a replica list read while `new_view` assigns it is any mixture
  of the two (`Torn`): a data race. A request that libmemcached reports as failed may
  have been carried out.
* `quiet` and `laps` in `Astaire` are history: SIGTERM came when there was nothing to do
  and nothing has turned up since; the resyncs since the control thread last waited.
* In `Statistics` one counter stands for the three, which are changed and reported alike.
  `compare_exchange_weak` fails only when the value differs, as it does on x86.
  `overtaken` is history: the last report carries a total that had changed since it was loaded.
  A tap that could not be given a thread is one that fails at once.
* In `WireFormat` an integer is the sequence of its base-256 digits, and the host's memory has
  them in reverse. `ProtocolFrame` is what the peers are taken to send: fields of their
  widths, lengths that fit the fields that hold them, the extras of each kind of message,
  a key in a GETK. `Layout`, `Reference` and the other `external` definitions are the
  protocol's side, written without the code's conversions. A word read beyond the
  extras is `Unknown`.
* In `ProxyServer` a message is a start and a length in its client's byte stream. A
  header read at any other place is `Misread`.

## 3. Runs

Passing runs:

| Run | Instance | States | What it shows |
|---|---|---|---|
| `resync` | 4 servers, 3 vbuckets, 4 views (stable, growing, re-homing, not loaded) | 2,935 | `InTurn`, `BlacklistHolds`, `AllReplicasTried`, `ReportIsTruthful`, `ProgressBounded`, `ImplementsBucketResync`, and `ResyncTerminates` |
| `astaire` | 3 servers, 2 vbuckets, the three stages of a resize, 2 faults | 50,471 | `TrustedTagMeansUpToDate`, `NoLostWakeup`, `QuietShutdown`, `ResyncsNotRepeated`, `ViewFixedDuringResync`, and `HandlersRun`, `ShutdownCompletes`, `ReloadLeadsToResync`, `UntaggedIsResynced`, `AlarmClears` |
| `tap` | a record asked for, one of another vbucket, a tag; 2 client operations, 1 fault | 534,522 | `NoRecordLost`, `TapNeverGoesBack`, `TapEnds` |
| `backend_failover` | 3 servers, 1 client, 4 changes, 1 restart | 23,640 | `AckedIsRead` |
| `backend_cas` | 2 servers, 2 clients, 3 changes | 359,278 | `NoLostUpdate` |
| `backend_errors` | 2 servers, 2 vbuckets, 2 failed requests, two views that order the replicas of a vbucket differently and one without replicas | 486,720 | `FailureMeansNoAnswer`, `FailCountIsExact`, `AlarmIsCleared` |
| `proxy` | 1 client, 3 messages of 2 or 3 units, 1 fault, 1 thread that is not created | 155,421 | `FramingKept`, `AnswersInOrder`, `NoClientLeftWaiting`, `DeadConnectionIsClosed` |
| `stats` | 1 tap, 2 resyncs, 1 period, wait-sync with a limit of 2 cycles | 264,183 | `LostTickIsReported`, `RecordsOutliveTaps`, `FinishedIsResynced`, and `ReportsSettle`, `DestructorReturns`, `WaitSyncEnds` |
| `wire` | a message of each kind the peers send, 2 per connection, in any pieces | 130,733 | `DecodedAsSent`, `SentIsProtocol`, `RecordKept` |

Runs that find a disagreement between the code and its comments:

| Run | The comment | What the code does |
|---|---|---|
| `astaire_boot` | `src/astaire.cpp` 784: a tag means memcached is up to date | The control thread starts before the first configuration is loaded. It may do a full resync of nothing and write the tag. |
| `tap_cut` | `src/astaire.cpp` 598: a successful tap has streamed its vbuckets | A connection closed early looks like the end of the dump. The shortest trace is a `TAP_CONNECT` whose send failed; the exit of the server does the same. |
| `backend_sole` | `src/memcached_backend.cpp` 375: all replicas returned an error | A sole replica is tried twice, and the failures are compared with the number of replicas: NOTFOUND after a dropped connection is reported as a failure. |

Other behaviour met while modelling, which the models have and no run singles out:

* memcached restarts during a resync and is tagged at its end (`src/astaire.cpp` 169);
  `TrustedTagMeansUpToDate` excludes it by `trusted`.
* The signed subtraction of timestamps (340) overflows when the flags lie on either side of
  2^31, and the earlier record may then be kept; the comment at 338 says it is replaced.
* `get_replica_addresses` does not take `_view_lock`, which
  `include/memcached_backend.hpp` 130 says protects the lists (`src/memcached_backend.cpp` 161): a thread may
  use servers of two views. `FailureMeansNoAnswer` holds all the same.
* `resync_main` deletes the statistics before the Astaire object (297-300). `QuietShutdown` says when
  that is harmless; a SIGTERM during a resync is not.
* `do_resync` calls `AstairePerConnectionStatistics::reset` without the lock its header
  asks for (`include/astaire_statistics.hpp` 291); `RecordsOutliveTaps` shows that no tap is left to mind.
* A report that is overtaken can leave the last-value cache at 0 after a resync has
  begun, until the refresh thread reports again; wait-sync may then end early
  (`FinishedIsResynced` names exactly this case). It also reads 0 while a reload still waits for the lock.
* `total_buckets` does not fall during a resync, so wait-sync gives up on any resync of
  more than ten minutes, progressing or not (`debian/astaire.init.d` 222).
* A new connection is not in the per-connection report its own constructor forces
  (`src/astaire_statistics.cpp` 163-169), only in the next one. The end of a successful tap
  forces one; a connection that fails at once may never be listed.
* The CAS id of a GET for a vbucket without replicas is uninitialized when it is sent
  (`src/proxy_server.cpp` 327), as only `get_from_replica` sets it, to 0 at first
  (`src/memcached_backend.cpp` 680); `MCWireFormat` gives the CAS id of a temporary failure
  an arbitrary value.
* The result of the untag is ignored (150), so a requested resync may run with the tag
  in place.
* The status of an Add or a Replace is ignored (370, 390); `NoRecordLost` exempts what
  was refused.
* A record deleted on both nodes after the tapped server has sent it is added back (346).
* A CAS id read from one replica is sent to another after a failover
  (`src/memcached_backend.cpp` 509), which then reports contention. `NoLostUpdate` is
  therefore checked without failed requests or restarts.
* `pthread_create` returns a positive number on failure and the code tests `rc < 0`
  (`src/proxy_server.cpp` 111, 198): the connection stays open and is never served.

## 4. Bounds

Every bound is a constant of its module, with a comment.

* `resync` needs no bound: a resync ends by itself, and any number follow one another.
  Three vbuckets with up to three replicas give rounds in which one tap fails while
  others go on, and lists of unequal length.
* `astaire`: two faults (crash, restart of memcached, failed request, unreadable
  configuration, refused start) allow any pair, the second while recovering from the first; the proofs are for any number. The three
  configurations are the ones of a resize.
* `tap`: two client operations put two in flight on one key, to different replicas and in
  either order. `Half` = 4 and `StartTime` = 8 make the flags wrap between the two
  initial times. The instance begins with no tag and no foreign record on the local
  node (`MCInit`), which is where storing one would do harm.
* `backend_*`: as many errors as there are replicas let every replica of an operation
  fail, or two operations fail in part; an operation in the view without replicas fails
  by itself. A list read while one view replaces the other may have the same server twice, a list of
  neither view. In `backend_failover` and
  `backend_cas` no request fails, and the first read and the first write replica are the
  same server. The view without replicas is reached only if the configuration cannot be
  read when the backend reads it.
* A restart of memcached does not by itself fail the next request on a connection made
  before it (`src/memcached_backend.cpp` 273-277 says one does): failed requests are a
  bound of their own. `backend_failover`, which restarts a server, has none; `backend_errors` and
  `backend_sole` have failed requests at any time.
* `proxy`: a header of two units can be split; bodies of zero and one unit put the next
  header at either parity. Three messages allow one in progress, one behind it in the
  buffer and one on the way. Connections share only the thread count and the
  process, so one client suffices for the properties of a stream.
* `stats`: the tap, the control thread and the refresh thread can all be in `refresh` at
  once, and a report held back in one resync can come out in the next. The theorems are
  for any number of taps, records and periods; what the single tap leaves to them is a tick
  contested by two taps.
* `wire`: two messages on a connection, so that the second begins in a buffer the first was
  trimmed from; the theorems are for any number of messages and any keys and values. Here
  they are of three bytes or fewer; the bytes of the
  opaque, the CAS id, the flags and the expiry all differ, so that a swap shows.
* `backend_cas` uses the symmetry of the two threads; it checks no liveness.

`CHECK_DEADLOCK FALSE` is given where the system comes to rest: a tap that has ended,
and a proxy whose client has sent everything.

## 5. Fairness

* Threads that can go on do (`WF` of the control thread, the tap thread, connection
  threads, `accept`). A blocking receive of a client connection returns within ten
  seconds, because of its `SO_RCVTIMEO`.
* In `Astaire`, `SF` of the handlers and of `Terminate`: a thread blocked on `_lock` gets it at some
  time the control thread waits, which is for ten seconds unless it is signalled.
* `WF` of `MemcachedStarts`: monit restarts memcached.
* In `TapBuckets`, the tapped server makes the dump it was asked for; if it stalls, the
  receive times out, which is `RecvError`.
* In `MemcachedBackend`, `SF` of reads of every key, for `AlarmIsCleared` only: the alarm
  is updated by operations, so without traffic it stays as it is. `new_view` returns and
  time passes.
* In `Statistics`, `WF` of the refresh thread, of the control thread's refresh and of the
  destructor's join. Taps and the resync itself need not go on: a tap may hang. `WF` of
  `Poll`: the script's loop sleeps and goes on.
* Faults, signals, clients' writes and configuration changes are never fair.

## 6. Proofs

All are checked by `tlapm` for every value of the constants that meets the named
assumptions.

**`ResyncProofs`**, from `SelfAssumption`, `VBucketAssumption` (there are finitely many
vbuckets) and `ViewsAssumption` (views are well formed and list a server once per
vbucket):

* `TypeCorrect`, `OneTapAtATime`, `BlacklistIsKept`, `NoReplicaForgotten`,
  `ReportsAreTruthful`, `ConnStatsKept`, `Refinement`, `TurnsAreKept`, `ProgressIsBounded`.
* None of the properties is inductive. `RoundInv` ties threads to the taps of the round:
  a thread that exists is still to be joined, each handle is there once, and the taps
  share no vbucket. `TurnInv` says where each replica of the original work
  list is: dealt with, still in the work list, or in a tap of this round not yet joined.
  `ReportInv` ties `unstreamed_buckets` to the taps that succeeded.
* `FirstIsThere`, `WorklistType` and `TapsOfRound` are the facts about `Worklist` they
  use: a non-empty list has a head, a work list is well formed and finite, and
  the taps of a round partition the vbuckets that have a replica left.
* `Refinement`: `Spec => ImplementsBucketResync`. A round that takes the last replica of some
  vbuckets off the work list settles nothing yet, as they are in its taps; joining does.
* `TurnsAreKept`: `TurnsInv` adds that the replicas before the one being tapped are settled.
* `ProgressIsBounded`: `ProgressInv` has `resynced_bucket_count` as the size of the set of
  pairs streamed (`Done`) and `total_buckets` as that of the work list (`Work`). Nothing is
  done twice, so the first set maps into the second.

**`AstaireProofs`**, from `ConfigAssumption`, `ResizeAssumption` (what a node holds before
a step of a resize is what it was to hold after the step before) and `BoundsAssumption`:

* `TypeCorrect`, `WakeupsArrive`, `ViewIsFixed`, `TrustedTag`, `QuietShutdownIsSafe`,
  `ResyncsArePaidFor`.
* `FlagsRead` says that the flags are clear wherever the control thread has read them and
  not released the lock; with it `NoLostWakeup` is inductive. `TagInv` follows a trusted
  memcached through a resync: unless a resync from scratch is under way (`Fresh`), what the
  node already held is settled; unless a resync is due (`Due`), all that it is to hold is;
  and during the streaming the rest is still to do.
* `QuietInv` keeps the tag in place and the triggers clear through the polls of a quiet
  shutdown. `LapsInv` accounts for resyncs: a second one needs the tag to be missing at the
  poll after the first wrote it, which costs a fault.

**`TapBucketsProofs`**, from `KeyAssumption` and `TimeAssumption`:

* `TypeCorrect`; `TapKeepsNewest` and `NoRecordIsLost`: if `NoOverflow` holds,
  `TapNeverGoesBack` and `NoRecordLost` do. `NoOverflow` says that the comparison of the
  code orders the times in use.
* `FlagsOrderTimes` says when it does: the times lie between two of the instants, 2^32 ms
  apart, at which the sign of the flags changes, and span less than 2^31 ms
  (`OneEpoch`). The `tap` run's constants are such, across a wrap of the unsigned field.
* `CasInv` is the argument: CAS ids are never used twice, so when the id of the Get still
  matches, the record is the one the Get returned, which is older than the message.
* For `NoRecordLost`, `DumpInv` says where each record of the dump is: the local memcached
  has it or a later one, or it is still to be sent, in the stream or in the thread's hands
  (`Accounted`). All that may come of a key is as recent as the record of the dump, and a
  write memcached is about to refuse meets a record as recent (`FloorInv`). A tap that has
  ended well has read the stream to its end (`EndInv`).

**`StatisticsProofs`**, from `StatisticsAssumption` and `MaxUnchangedAssumption`:

* `TypeCorrect`, `LostTicksAreReported`, `RecordsAreKept`, `FinishedMeansResynced`.
* `StatInv` is the argument that leaving a tick to another thread is sound: a thread that
  finds the timestamp changed since it counted knows that whoever changed it had not
  loaded the counter yet. `Truthful` says the report of a resync that has begun is its
  own unless it was overtaken.

**`ProxyServerProofs`**, from `KindAssumption` and `SizeAssumption`:

* `TypeCorrect`, `FramingIsKept` and `AnswersAreInOrder`.
* `CountInv` ties `num_active_threads` to the set of connections served, so that it is
  never decremented at 0, which `TypeOK` needs. `StreamInv` lays the messages
  of a client end to end, has `consumed` at a boundary between two, and, while the socket
  is open, at the boundary after the last one answered.

**`MemcachedBackendProofs`**, from `ViewAssumption` and `BoundAssumption`:

* `TypeCorrect`, `FailCountCorrect`, and `FailureMeansNoneAnswered`, which assumes
  `Replicated`: no vbucket has a sole replica in any view. The run `backend_sole` shows
  why it is needed.
* `Tried` and `Written` relate the failures a request has counted to its attempts.
  `Replicated` carries over to torn lists, which have the length of one of the two they are
  made of.
* `UpdatesAreNotLost`: `NoLostUpdate`, if `NoServerFails` and `SteadyPrimary`, that is,
  every list for a vbucket begins with the same server in every view. It holds for any
  number of threads, through changes of view and with torn lists. Without the first, a retry
  goes to a server whose ids are unrelated; without the second, so does the write after a
  change of view.
* `UpdateInv` is the argument. `Vouches` says of a CAS id that a server has given for a
  record: as long as the record has that id, its data are those that were read. It holds of
  the id a read is about to return, as `read_data` returns 0 instead of an id once a replica
  has not had the record, and of the id a client keeps; and a write with an id asks the
  first replica before any other (`ReaderInv`).

**`BackendAckProofs`**, from the same assumptions:

* `AcknowledgedIsRead`: `AckedIsRead`, if `OneClientSurvives`: one thread, one view, no failed
  requests, and fewer restarts than any vbucket has write replicas. With two clients, or when
  the first replica of a write fails, what was acknowledged last is not well defined.
* `AckInv` is the argument. `Holds` says what a server will have under a key once it has
  processed the no-reply writes queued on the connection, which it does before it answers
  the next request. Between requests, every write replica holds the last acknowledged data
  or, if it has restarted, nothing; no other server holds anything; and no more replicas
  have lost the data than servers have restarted (`Located`, `Settled`). So one replica has
  it, and `read_data` goes on until it finds that one. `WriteInv` and `DeleteInv` say the
  same of the replicas a write or a delete has reached so far.

**`WireFormatProofs`**, from `FramesAssumption` (the peers send `ProtocolFrame`s),
`ResultsAssumption` (a result has fields of their widths, its status is below 256, as
`SetAddReplaceRsp` and `DeleteRsp` take it for a `uint8_t`, and its value fits a message) and
`BucketsAssumption` (vbuckets are of two bytes):

* `AlwaysDecodedAsSent`, `AlwaysSentIsProtocol`, `AlwaysRecordKept`, for any set of frames,
  keys and values of any length, any number of frames on a connection and any pieces.
* Byte order: `HostToNetwork` and `WriteKeeps` say that `Utils::write` puts an integer of any
  width on the wire with its most significant byte first, the two halves of a CAS id
  included, and `LoadKeeps` that `HDR_GET` undoes it. `NumberOfDigits` says that a length that
  fits its field is read back.
* Reading: `HeaderRead` and `LayoutPieces` give every field of a frame at the offsets the
  constructors use, `ParseFrame` the message made of it. `Complete` says that
  `is_msg_complete` holds of a buffer only if it has the whole frame, and then `Trim` leaves
  what follows it.
* Writing: `ToWire` says that a message has the bytes of the frame with its fields;
  `RequestBytes` and `AnswerBytes` that the frame is the one the protocol has, class by class.
  `LocalAnswerFields` uses `ParseFrame` once more, for the answer of the local memcached.
* `Inv` is the inductive invariant. `Stream` says that the buffer and the bytes on the wire
  are the frames not yet handled, end to end: `rest[i]` is what follows the i-th frame. It is
  what makes the message taken from the buffer the next one sent. The properties
  alone are not inductive, as they say nothing of the buffer. A function `rest` rather than
  a fold over the frames, so that no induction over data is needed.

Proved, and checked by no run: the type invariants (`TypeOK` of each module above, part of
every inductive invariant), and `OneTapPerBucket` and `ConnStatsAlive` of `Resync`, next to
`InTurn` of the same run and `RecordsOutliveTaps` of the run `stats`.

Model-checked only: all liveness, which is out of the prover's reach, as is `ENABLED`. Every
invariant and action property that a passing run checks is a theorem.

## 7. Not modelled

* The collated bandwidth statistic, and the figures inside a connection record. They are
  sums nothing else depends on; the lock they are under is modelled.
* Freed memory itself. `Astaire` has the time between the deletion of the statistics and
  the end of the control thread; `proxy_main` deletes the backend while detached connection
  threads may still use it (297-300), which no property could hold of.
* How far a failover weakens CAS: ids of different servers are unrelated, and the code
  makes no promise to check.
* `SetVBucketReq`, which nothing uses.
* The failure of `pthread_join` in `complete_single_tap` (692-696): the handle is that of a
  joinable thread, joined once.
* The failure of `pthread_create` for the refresh thread
  (`include/astaire_statistics.hpp` 80-84). `ReportsSettle` needs the thread, and the
  destructor would join a handle that was never set.
* The hash from keys to vbuckets, address parsing, the communication monitor, option
  parsing, logging, packaging: pure functions of their input, or no state at all.
* memcached, libmemcached, `MemcachedStoreView`, `Updater` and the connection pool are not in this
  repository; they are modelled from how this code uses them.
