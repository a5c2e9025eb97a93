# A TLA+ verification of esp-nimble-cpp

This directory holds TLA+ modules that model the library in `src/src/`, TLC
configurations that check them on small instances, and TLAPS proofs of the main results
for every value of the constants. Line numbers below are those of the files under
`src/src/`. `PROJECT.json` maps each definition to the lines it models.

## 1. The system

esp-nimble-cpp is a C++ wrapper of the NimBLE Bluetooth LE host stack. Three kinds of
threads meet in its objects:

* **application tasks** call the API. Some calls block on a `NimBLETaskData` object
  (`NimBLEUtils::taskWait`, NimBLEUtils.cpp:120) or on a semaphore;
* **the host task** runs the stack. It calls the GAP, GATT and L2CAP handlers of the
  library, the callouts (timers) and, from within them, the user's callbacks. Its
  event queue is served in order, one event at a time;
* **worker tasks**: one for the deferred reads of all L2CAP channels.

There is no lock around most of the objects' state: correctness rests on the order of
the assignments, on the host task being one thread, and on what is copied before a
callback and used after it. The rest of the library is sequential but intricate: payloads
built and parsed byte by byte, UUIDs in three sizes, lookups that fall back from one form to
another.

### Inventory

| Component | State | Operations and events | Talks to | What makes it hard, and what correct means |
|---|---|---|---|---|
| Client connection (NimBLEClient) | `m_connStatus`, `m_connHandle`, `m_pTaskData`, the establishment flag and timer, retry and failure counters, self-delete flags | `connect`, `secureConnection`, `disconnect`, `cancelConnect`, `deleteClient`; `handleGapEvent`, `connectEstablishedTimerCb` | stack (GAP), device, task wait | a handler and blocked tasks share one waiter pointer; retries inside the handler; eight ways to complete a connection. No stale handle, one `onConnect` per link, no lost waiter, every attempt answered |
| Table of clients (NimBLEDevice) | `m_pClients` | `createClient`, `deleteClient`, the lookups by handle, address and status | client, stack | events are matched by handle and address, both of which are used again. An event finds the client it is meant for |
| Task wait and release (NimBLEUtils) | a task, `m_flags`, the notification bit of the FreeRTOS task | `taskWait`, `taskRelease` | client, scanner, remote attributes | a release before the wait must count, one meant for another wait must not |
| Scanner (NimBLEScan) | result vector, intrusive waiting list, scan response timer, `m_pTaskData` | `start`, `stop`, `clearResults`, `erase`, `getResults`, `setScanResponseTimeout`; discovery events, timer, host sync | stack, user callbacks | objects are deleted while on a list; the timer belongs to a head that changes. Every device reported, in time, list without dangling nodes |
| L2CAP channel | `channel`, `stalled`, status, semaphore, memory pool, count of deferred reads, the queue shared with a worker | `write`, `connect`, `disconnect`; accept, connection, unstall, data events; `deferredReadWorker` | stack (L2CAP), worker | a blocking writer against events; a full queue; buffers that change hands. One SDU in the stack, every SDU read once, exact counts, one worker |
| L2CAP server | list of channels | `createService` | L2CAP channel | services that several peers open |
| Stream buffers (NimBLEStream) | `ByteRingBuffer`: storage, head, tail, size | `write`, `read`, `peek`, `drop`, `pushRx` | stream server and client | wrapped copies at the boundary. A bounded FIFO |
| Stream server and client | TX and RX buffers, chunk buffer, drain event and callout, subscriber | `begin`, `end`, `write`, `flush`, drain events, GATT callbacks | stream buffers, GATT | `send()` peeks, sends and drops in a task or in the host task. Bytes sent once, in order, and none forgotten |
| GATT server, services (NimBLEServer, NimBLEService) | `m_gattsStarted`, `m_svcChanged`, services with `m_removed`, connection slots | `addService`, `removeService`, `start`, `resetGATT`; GAP events | stack, local attributes | changes between starts while peers are connected. Handles of the registered table, changes indicated |
| Local attributes | value, handle, `m_removed`, subscriptions | `setValue`, `notify`, `indicate`; read, write and subscribe events | GATT server | values read by the host task while a task writes |
| Remote attributes | containers of services, characteristics, descriptors | lookups, discovery, `readValue`, `writeValue`, `subscribe` | client, task wait | containers filled by callbacks while a task waits; retries after securing the link. What is found is what the peer has; calls end |
| Advertising, extended advertising | data, `m_advDataSet`, duration, status of instances | `start`, `stop`, data, `onHostSync`, completion | stack, server, device | restart after a host reset, flags that mirror the stack. Data served are the data set; endless advertising comes back |
| Device (NimBLEDevice) | `m_synced`, `m_initialized`, white list | `init`, `deinit`, `onReset`, `onSync`, white list | all | resets between any two steps; order of set-up and tear-down |
| Advertised device, payloads | bytes | setters, removers, field lookup, getters | scanner, advertising | lengths and limits. What is read back is what was set |
| Values, addresses, UUIDs | bytes | conversion, comparison, growth | all | limits, failing allocations, forms of one UUID |
| Beacons | packed records | setters, getters | payloads | byte orders |
| HID device, logging | tables, text | formatting | GATT server | none of its own |

The host stack itself is not in the repository. Each module models as much of it as
the code calls and handles, and marks those definitions external.

## 2. Modules

| Module | Models | Runs |
|---|---|---|
| `NimBLEClient` | client connection, with the task wait, `deleteClient`, `startSecurity`, host sync | `client_*` through `MCNimBLEClient` |
| `Lists` | lists that are made of other lists and of sets: what is left of one, a set in an order, the first element that fits, each by where its elements are | |
| `ListLemmas` | lemmas about these, about lists without repetitions (waiting list, read queue, white list), and of the first free position | |
| `NimBLEClientTable` | several clients in the device's table, and how events find them | `peers_safety` through `MCNimBLEPeers` |
| `NimBLEClientProofs` | inductive invariants of the client and of the table of clients, seven theorems | |
| `ByteFifo` | abstract bounded FIFO of bytes | |
| `ByteRingBuffer` | the ring buffer and `pushRx` | `byte_stores` through `MCByteStores` |
| `NimBLEAttValue` | the value of a local attribute, set and read by tasks and peers | `byte_stores` through `MCByteStores` |
| `AttributeProofs` | the ring buffer implements the FIFO; four theorems about an attribute's value; inductive invariant of the remote attributes, three theorems | |
| `NimBLEScan` | the scanner | `scan_*` through `MCNimBLEScan` |
| `NimBLEScanProofs` | inductive invariant of the scanner, five theorems | |
| `NimBLEL2CAPChannel` | an open L2CAP channel and its read worker | `l2cap_safety` through `MCNimBLEL2CAPChannel` |
| `NimBLEL2CAPServer` | the life of channel objects: construction, worker, memory pool, connections, server | `l2cap_safety` through `MCNimBLEL2CAPChannel` |
| `NimBLEL2CAPProofs` | inductive invariants of the worker's creation, of the blocks and channels of objects, and of writers and reads; eight theorems | |
| `NimBLEServer` | services, characteristics and descriptors around `start` and `resetGATT`; lookups; peers and advertising | `gatt_server` through `MCNimBLEServer` |
| `NimBLEServerProofs` | inductive invariants of the server's start, peers and indications, and of the attribute table; seven theorems | |
| `NimBLEStream` | transmit side of the stream server and client, subscriptions of a characteristic | `peers_safety` through `MCNimBLEPeers` |
| `NimBLEStreamProofs` | inductive invariants of subscriptions, sending and the order of the bytes; three theorems | |
| `NimBLEUUID` | sizes, conversions and equality of UUIDs | below the others |
| `NimBLERemote` | discovery, lookup, read, write and subscribe of a peer's attributes | `remote` through `MCNimBLERemote` |
| `AdvertisementFields` | what an advertisement means: a sequence of fields | below the others |
| `NimBLEAdvertisementData`, `NimBLEExtAdvertisement` | how the legacy and the extended payload are built | `adv_payload` |
| `NimBLEAddress`, `NimBLEBeacon` | forms of an address; records of the two beacons | `adv_payload` |
| `NimBLEAdvertisedDevice` | how a received payload is read | `adv_payload` |
| `AdvertisementPayload` | calls of the application on both payloads, with the fields they stand for | `adv_payload` through `MCAdvertisementPayload` |
| `NimBLEDevice` | `init`, `deinit`, `onReset`, `onSync`, the white list | `advertising` |
| `NimBLEAdvertising`, `NimBLEExtAdvertising` | the advertising of the two builds | `advertising` |
| `DeviceAdvertising` | composes the device with the advertising of its build | `advertising` through `MCDeviceAdvertising` |
| `DeviceAdvertisingProofs` | inductive invariants of the flags that mirror the stack, and of the data that is served; two theorems | |

Operators whose comment begins with "Mutant:" are changed forms of the definition
after them. No specification uses them; they serve to show that a property notices the
change. Three MC modules hold two state machines that share nothing; a behaviour then is one
of either, chosen by a variable (`part`, `store`).

### NimBLEClient

`clt` is the object, `stk` what the stack knows of the peer, `hst` the host task, `pc`
and `td` the application tasks with their `NimBLETaskData`, `hist` history variables.

* `connect()` is `ConnectBegin` (the checks, lines 249-278), `ConnectStart` (the call of
  the stack, 280-292), `ConnectArm` (294), `ConnectWake` or `ConnectTimeout` (296-306) and
  `ConnectDone` or `ConnectError` (308-325): the places between which the handler can run.
* `secureConnection()` is `SecureBegin`, `SecureStart`, `SecureWake`, `SecureRetry`,
  `SecureReturn`; the asynchronous form is `SecureAsync`.
* `handleGapEvent` is not atomic. `Deliver` is its entry, where `m_pTaskData` is copied
  (1015); each `case` is an action; where the user's callback runs the action ends
  (`ConnectFails` / `AfterConnectFail`, `DisconnectCallback` / `DisconnectCleanup`,
  `Establish` / `Established`), and `FinalRelease` is the `taskRelease` at the end.
* `taskWait` and `taskRelease` are their FreeRTOS form: a notification bit that stays set
  until it is taken, so a release before the wait is not lost.
* A client that is freed is `alive = FALSE`. Events that the stack still delivers for it
  end in `ClientGone`.

### NimBLEClientTable

`obj` are the clients, `table` is `m_pClients`, `gap` the stack's attempt and links. A call or
an event of one client is one step here, as `NimBLEClient` has the steps within. The event of
a lost link comes after the stack has removed the connection, so that in between its handle
may be free and another client may connect to the same peer; `FindClient` is the search by
handle and then by address (1020-1034). `strayed` are the clients that the code made
DISCONNECTED, or deleted, though the stack had an attempt or a link for them: a `connect()`
that times out or is refused a second time (319-325), and the loss of a link that was refused
when it came up, whose event is matched by address. Nothing is claimed of those.

### ByteRingBuffer and ByteFifo

One action per method; the copies in up to two parts are `Written` and `Copied`, with the
indices of the code. The refinement maps the `size` bytes from `tail`, modulo the capacity,
to the queue of `ByteFifo`. The mutex of the buffer makes each method one step.

### NimBLEAttValue

`m_value` is the object with its length and capacity, `heap` the allocated block, `caller`
the place and locals of each thread. `setValue()` is `SetEmpties` (108-109), `SetAppends` (the
allocation, 115-135), `SetCopies` (the critical section), `SetReturns` (the comparison); a copy is
`CopyValue` and `CopyBytes`. A read of a peer begins with `HostReads`, `OnRead` and `ReadBytes` for its first
part; each further part is an event of its own, `HostReadsOn` and `ReadBytes`, without `readEvent()` (742-744), and
between two of them the host task serves what comes, other peers' reads and writes too. `reads` has, for each
reader, what it got so far. A write is `HostWrites`, the same steps of `setValue()`, and `OnWrite`.
Allocations may fail. `races` records that two threads met where the code has no protection, `fault` an access
outside the value's bytes: `"compare"` that of the comparison at the end of `setValue()` after `append()` has
refused a value as too long (111), which needs no race, and `"access"` all others.

### NimBLEScan

`sc` is the scanner and the discovery procedure of the stack, `hst` the host task, `opt`
how the scanner is configured. The methods are functions from scanner state to scanner
state (`ResetTimer`, `RemoveWaiting`, `Clear`, `Erase`, `Stop`, `Prepare`), composed by the
actions the way the code calls them. The handler is cut where it calls back. `HostSync` is the end of the
synchronization (`m_synced`, NimBLEDevice.cpp:857), after which tasks may start a scan, and `OnHostSync` the call of
`onScanEnd()` that follows, without a flush (672-674). `age` is the
time since a device's advertisement, `left` the time to the timer's expiry, `event` its
event in the queue of the host task.

### NimBLEL2CAPChannel and NimBLEL2CAPServer

In the channel `ch` is the object, `stk` the stack's channel and whose SDU it holds, `wr` each
writing task in `writeFragment`, `rx` the received SDUs with the queue and worker. The three
steps of a stall (call, clearing of semaphore and status, wait) are separate actions
(`SendStalled`, `ClearStatus`, `Wake`), so that `TX_UNSTALLED` can fall in between.

The server module has the objects' life. `maker` are the tasks that create objects, each in
its step of `ensureDeferredReadWorker()` (99-135); `coc` the objects with the free blocks of
their pools; `lnk` the stack's channels and the receive buffers they hold; `held` what writers
hold. `seen` records what the code does not expect: two makers that create the lock at once
(`raced`), peers that share the one object of a service (`shared`), a connect event with an
error status (`refused`).

### NimBLEServer

`att` holds the attribute objects with `m_removed` and `m_handle`, `vec` the containers (of
services by `Server`, of characteristics by service, of descriptors by characteristic), `srv`
the server's flags and slots, `stk` the stack's connections, advertising, definitions and
attribute table. Characteristics and descriptors are both `Children`: `addCharacteristic`,
`removeCharacteristic` and `addDescriptor`, `removeDescriptor` are the same code.

* `start()` is `Start` (279-289), `ResetStack` (887-894), one `EraseService`,
  `RegisterService` or `RegisterFails` for each turn of the loop in `resetGATT()` (896-937),
  `GattsStart` or its failure (297), `RegisterCallback` for each entry of the table, and
  `Started` (320-327). Events of the host task come between these steps; `run.by` says which
  thread runs them, since a disconnection with `advertiseOnDisconnect` starts the server too.
* The stack refuses a reset, a registration and `ble_gatts_start` while there is a
  connection; `ResetStack` goes on all the same, as the code ignores that result (892).
* The lookups by handle and by UUID, and of peers by index, are operators over that state. They, and what
  `resetGATT()` leaves of a vector, come from `Lists`.
* `stk.hidden` are the services that `removeService()` has hidden from connected peers at once
  (`ble_gatts_svc_set_visibility()`, 843), until the next reset of the attributes.
* `hist.told` is the table of which the peers were last told, `hist.missed` that an object
  was added without `setServiceChanged()`.

### NimBLEStream

`str` is the stream, whose TX buffer is the FIFO of `ByteFifo` with its bytes numbered as
`write()` accepted them; `sub` the subscriptions of the characteristic; `stk` links, encryption,
subscriptions of the peers and free buffers; `thr` where the host task and the application's
task are in `send()`. `send()` is cut between `peek()` (766), the call of `notify()` (771) and
`drop()` (781). So is `sendValue()`: `SendValue` copies the subscribers (NimBLECharacteristic.cpp:283) and picks those the
value is for, and each is notified in a step of its own (`NotifyPeer`, `NotifyFails`), or the value is given up after the
wait for a buffer (`NoBuffer`, 304-313). Links may end in between and their handles be used again; `thr[t].to` is
what is left of the copy, `thr[t].ended` those of it whose link has ended. A value counts as sent once all it was
for have been notified. Subscriptions follow `processSubRequest()`, `updatePeerStatus()` and
`ChrCallbacks::onSubscribe()`. `hist` tells of each byte whether it was sent or given up, and why
the last `send()` left some.

### NimBLERemote

`cache` holds the containers of the client, `app` the call in progress with its locals, `stk` the
link and the procedure of the stack with the results it has yet to report. A call is the cache
lookup, `Start` of the procedure, one host step for each result, and what the task does with the
end: the same again with the other form of the UUID (`GetAgain`), a retry after
`secureConnection()` (`ValueSecure`, `SecureReturns`), or the answer. `blind` are the characteristics
whose descriptors were searched before the client knew all characteristics of the service. `Declared` is
the type of a characteristic's declaration: the procedure for descriptors reports every attribute of its range,
so an object with that UUID (`UUIDOf`) may be in the vector of the descriptors.

### Payloads

`NimBLEAdvertisementData` and `NimBLEExtAdvertisement` take the bytes of a payload and give the
result and the bytes of each setter and remover; `NimBLEAdvertisedDevice` has `findAdvField()` and the
getters. `AdvertisementFields` says what the calls mean on a sequence of fields. In
`AdvertisementPayload` an application calls both builds' setters, each step changes `data` by the
code and `fields` by the meaning, and `ReadBack` compares what the getters return. `spoiled` is set
by a call that the code leaves half done, and ends what is claimed.

### NimBLEDevice, NimBLEAdvertising, NimBLEExtAdvertising

`call` is where the two threads are in `start()`, `setAdvertisementData()`, `onSync()` and
`onHostSync()`; a host reset may fall between any two of those steps. `stackAdv` and `stackExt` are
the data and activity that the stack has. Calls that change the data clear `m_advDataSet` (`CallChange`), but for
`setConnectableMode()` and `setDiscoverableMode()` (`CallSetMode`); `stackAdv.old` records such a change since the stack got the data. `DeviceAdvertising` composes the device with the
advertising of one build: a reset stops advertising and loses the data in the stack, `deinit`
keeps or deletes the object. `misled` and `raced` record that a step fell into a window in which
the code's flag and the stack part; `listLost` that a reset cleared the controller's white list.

## 3. Runs

Passing runs:

| Run | Instance | Shows |
|---|---|---|
| `client_safety` | two tasks: one makes every blocking and non-blocking connect and secure call, one disconnects, cancels and deletes; 1 retry, 2 connects, one handle; 2.4 million states | `TypeOK`, `ConnectedOwnsLink`, `TimerBelongsToLink`, `OnConnectOnce`, `WaiterNotForgotten` |
| `client_liveness` | two tasks, asynchronous connect, both forms of secure, cancel; 2 retries; `FairSpec` | `SecureReturns`, `ConnectingEnds`, `AsyncConnectAnswered` |
| `byte_stores` | ring of capacity 3, 2 byte values, calls of 0 to 4 bytes. And a value of at most 2 bytes, one task and the host task, texts of 1 to 3 bytes, two readers that read one byte at a time, failing allocations | `IsFifo` (refinement), `HeadFollows`, `MemoryIsSafe`, `SetIsStored`, `ReadIsWhole` |
| `scan_safety` | 2 advertisers, timeout of 2 ticks, passive and active scans, unlimited, limited and no stored results, every call and host resets | `WaitingOwesResult`, `HeadIsOldest`, `HeadIsTimed`, `ScanEndReportsAll` |
| `scan_liveness` | 2 advertisers, duplicates filtered, `FairSpec` | `GetResultsReturns`, `WaitingIsReported` |
| `l2cap_safety` | 2 writers of up to 2 fragments, 3 attempts (the code's `RetryCounter`), a queue of 1 and 2 SDUs, reconnections. And 2 objects, 2 makers, one writer, 2 channels of the stack, pools of 3 blocks | `NoSendWhilePending`, `ReadsConserved`, `PendingCountsQueue`, `OneWorker`, `BuffersConserved`, `ChannelIsOpen` |
| `gatt_server` | 2 services of one UUID, the first with a characteristic and a descriptor, two peers, 2 slots, starts by the application and by the disconnect handler, each of which may fail; 1.9 million states | `HandleIsOwn`, `StartApplies`, `ChangeIsIndicated`, `PeersAreCounted` |
| `peers_safety` | 2 peers, a stream server that is secure or not and a stream client, buffer of 2 bytes, chunks of 1, 3 bytes written. And two clients in a table of two, two peers, two handles | `BytesInOrder`, `DataIsScheduled`, `SecureGetsData`, `ClientsAreFound` |
| `remote` | a peer with 2 services, 3 characteristics and a descriptor, UUIDs of 16 and 128 bits, a guarded and a too long value; `FairRemoteSpec` | `LookupFinds`, `DescriptorsAreOwn`, `CallsReturn` |
| `adv_payload` | every 3 calls on an advertisement and its scan response of 31 bytes, both builds, four UUIDs of three sizes (two of them one service), names that fit and do not | `ReadBack` |
| `advertising` | both builds, two threads, 2 resets, two versions of the data, 2 instances, 2 addresses on the white list; `FairSpec` | `DataIsServed`, `MirrorIsExact`, `EndlessIsResumed` |

One run refutes what a comment says (`findings` in PROJECT.json): `client_secured` shows that
`secureConnection()` returns true on a link that is not encrypted, as the first event that
establishes the link, or an MTU event, releases the task that waits for security.

Types are checked by `TypeOK` in `client_safety`; elsewhere the type predicate is a conjunct of one of
the listed invariants (`HeadIsOldest`, `BytesInOrder`, `LookupFinds`, `MirrorIsExact`, `PeersAreCounted`,
`BuffersConserved`, `ClientsAreFound`).

### Bounds

* `MaxConnects = 2`, `MaxSecures = 1`: a second attempt meets what the first left behind
  (timer, handle, waiter, queued notification). Retries multiply the attempts on top.
* One handle in the client: the object has one link at a time, and a later link with the
  same handle is the harder case, as a stale handle then looks right. With it
  `ConnectedOwnsLink` says that no handle is kept when there is no link; the proof covers
  any set of handles. The table has two handles, which two clients exchange.
* Two clients, two addresses: a client that waits for a link to the peer whose other link is
  lost. The table's behaviours end when every client has strayed. `setSelfDelete()` sets both
  flags in the instance. Callbacks make no calls in the table's module; in the client's they do.
* Two advertisers: order, head and non-head of the waiting list. A timeout of two ticks
  lets the timer, the age of the head and that of the second device all differ.
* Capacity 3 with calls of up to 4 bytes: every wrap of head and tail, full and empty
  buffer, data longer than the buffer. For values: one byte, as many as are allocated, more than
  that, more than is allowed. The values of bytes in the ring that were never written make no
  difference to the attribute value, so behaviours of the latter begin with an even ring. Two readers: one that is
  served between the parts of the other. States after a race are checked and not continued (`NoRace`), as nothing is claimed of them.
* Queue of 1 and 2 SDUs in the channel: the queue is empty, full, and full with one in the
  worker's hands. Two fragments: a fragment after one that stalled. Pools of 3 blocks with a
  writer that takes 2: the pool is empty and the receiver needs its block.
* Two services of one UUID, one attribute below the other: every loop of `resetGATT()` and
  every branch of the registration callback, with duplicates. Each object is created once, so
  the containers are bounded. Two peers with two slots: they connect and leave in either order, so that a slot is
  free before an occupied one, `getPeerInfo()` has an index of 1, and a peer that took two slots, or left one
  occupied, is seen. The peers are interchangeable (`AnyPeer`). `SmallWhenFull` bounds what is explored: while
  there is a second connection, or its slot is taken, two of the four objects at most have been created. A slot is chosen
  and cleared without a look at the objects, and `start()` only asks whether there is any peer (280).
* Stream: two peers compete for the one subscriber; a buffer of two chunks is full, half empty
  and empty between peek and drop; the third byte meets a buffer that was full. `Overlap = FALSE`
  keeps `flush()` and the drain event apart (see section 5).
* Remote: `MaxChunks = 2`, one longer value, so that reading in one and in several parts and
  ATTR_NOT_LONG occur. Every call is followed by every other, so caches are in every state.
* Payloads: 3 calls suffice to add, to add a second field or entry, and to remove or replace
  with something behind it; the size of 31 is the real limit, and the names are cut by it. The
  extended limit is larger in reality; at 31 its refusals occur.
* Two resets: one within a call and one within the resynchronization of the other. The white list,
  which advertising does not read, changes in the extended build only.
* `CHECK_DEADLOCK FALSE` where the system may stop: a client, a table of clients or channel
  objects that are all deleted or used up (`client_safety`, `peers_safety`, `l2cap_safety`),
  payloads after their three calls, and `init()`, which waits for ever if `onSync()` finds no
  address (835-842) and no reset is left (`advertising`). All other runs check deadlock; a
  call of the client that waits for ever is what `WaiterNotForgotten` excludes.

### Fairness

* Application tasks and the host task keep running (weak fairness of their steps).
* The host task's event queue is FIFO (`ble_npl_eventq`): an event that is queued is not
  overtaken for ever. Since the models put no queue in front of the handler but let the
  stack deliver when the handler is idle, this is strong fairness of `TimerFires`,
  `TimerEarly`/`TimerExpires`, `ScanExpires` and the outcome events of procedures that
  the stack ends by its own timers (connect, security, termination).
* An application task is never assumed to make a call. The one exception is `GetStart`, a
  task already inside `getResults()`.
* `remote`: the task and the host task run, and the stack ends every procedure it has begun
  (the ATT transaction timeout); faults, encryption and the loss of the link are never assumed.
* `advertising`: the host synchronizes after a reset and its task finishes what it has begun
  (`HostRuns`); no call of the application is promised. `EndlessIsResumed` is about advertising that was active
  with `m_duration` endless when the reset came, and a `start()` of the application that comes before the restart,
  even one that fails, counts as its answer.
* `SecureReturns`, `ConnectingEnds` and `AsyncConnectAnswered` hold with the calls listed in
  the instance. With `disconnect()` from a second task `AsyncConnectAnswered` fails: the call
  writes DISCONNECTING (NimBLEClient.cpp:383) after a retry of a failed establishment set
  CONNECTING, the failure of that retry then counts as unwanted (1106), and the client stays
  DISCONNECTING. No text in the repository says what should happen, so this is recorded as
  a hazard and not as a finding.

## 4. Proofs

`tlapm` proves every theorem below from the modules' named assumptions about their constants.
Four of them have a hypothesis beside these, which they state: `OneTaskBlocks` (one), `LookupsArePlain` (three).

**Client** (`NimBLEClientProofs`, from `ClientAssumption`). `TypeCorrect` comes first, since
every other step uses it. The three safety invariants are not inductive: that a link's
timer is running says nothing unless one knows that connecting and connected exclude each
other, and that `onConnect` was not called unless one knows that nothing has been announced
while the link is pending. `IInv` adds `HandlerPhase` (which event the handler is in and what
it has already cleared), `OneProcedure`, `NewLink`, `Due` and `DeadHasNoTimer`. The steps of
tasks are shown `Quiet` (they leave the handler, the link and the history alone and only
take away from the client), stack and handler are done action by action. Results:
`ClientOwnsItsLink`, `TimerEndsWithLink`, `OneOnConnectPerLink`, for any number of tasks,
handles and retries and for any set of calls of each task.
`TheWaiterIsKnown` states `WaiterNotForgotten` under one hypothesis, `OneTaskBlocks`: one task makes the calls that block
in the client, as `m_pTaskData` has room for one; two of them do lose each other. The run's tasks are so. Its invariant,
`WaiterInv`, says of a task anywhere in `secureConnection()` that it is in `m_pTaskData`, or in the
hands of the handler that calls `onConnect`, or was released after it, when it can only return: the retry for a
missing key is the step that could make it wait again unknown, and it needs a code that such a release overwrites.

**Table of clients** (`NimBLEClientProofs`, last part, from `TableAssumption`). `TheClientsAreFound`: the client that
an event finds is the one whose link it is about, for any number of clients and addresses. `TableInv` adds to it what a
lookup relies on: the table holds the clients that live, each in one place (`Placed`), and a dead one keeps
nothing of the stack (`DeadIsBare`); a handle is that of a link of the client itself, even if the client has
strayed (`HandlesAreOwn`); and what the stack has of a client that has not strayed, its attempt or its
link, the client knows (`Knows`).

**Ring buffer** (`AttributeProofs`, from `BufferAssumption`). `HeadAlwaysFollows` and
`RingIsFifo` (`Spec => Fifo!Spec`). The invariant is `TypeOK /\ HeadFollows`. The lemmas show,
for every position of head and tail, that a copy in two parts moves exactly the oldest
bytes (`CopiedIsFirst`), a drop removes them (`DroppedIsRest`), and a write appends a prefix
(`WrittenIsAppend`); the refinement then goes method by method.

**Attribute values** (`AttributeProofs`, from `ValueAssumption`). `MemoryStaysSafe`, `WhatIsSetIsStored` and
`ReadsAreWhole` have one invariant, `AttInv`: the types, and `Safe` while `races` is empty. That no byte is accessed
which is not the value's, but for the comparison with a value that `append()` refused, needs `BufferOK`: the block has room for the capacity and the final 0, but between
the `realloc()` of `append()` and its critical section (`Dangling`). That what was set is stored needs to know of
a thread at each point of `setValue()` what it found: a length of 0, and room (`SetterOK`), which is still so
because it is the only one there (`OneSetter`). That a read in parts is whole needs that what each open read has so
far is the beginning of the value (`ReadOK`), through all that the host task serves between two parts; this lasts as long
as nobody sets the value but the read's own `onRead()`, which comes before its first part (`AloneOK`). The lemmas
about bytes say what a copy into a block does to its first bytes (`FirstOfPut`), what `realloc()` keeps of them
(`GrownIs`, `ReallocIs`) and that the next part of a value continues the parts before (`PartIs`).

**Scanner** (`NimBLEScanProofs`, from `ScanAssumption`). One invariant, `ScanInv`, gives the four
safety properties, for any number of devices, any timeout and any subset of the settings and calls.
None of the four is inductive, and they need one another. That the list holds only what owes a
report needs that the list has no repetitions and that each entry is in the vector (`ListOK`); that its
order is by age needs to know, between an advertisement and its place at the tail, that the device in the
handler's hands is the youngest (`HeldOK`); that the end of a scan leaves nobody out needs that
a device that was seen and not reported waits, or is held by the handler (`SeenOK`), which is the fact that
ties vector, list and handler together. It is also all that can be said when `onHostSync()` calls `onScanEnd()`, which
flushes nothing: the devices that were not reported are on the list still. `TimedOK` is `HeadIsTimed` for every point inside a handler: the head
is timed but while the list is flushed, or while the head is the device that the handler is about to
time. The invariant is stated of the parts (vector, list, timer, handler), so each method is proved to
keep it once (removal from the list, erasure from the vector, start of the timer) and the actions are put
together from the methods, as the code is.

**L2CAP** (`NimBLEL2CAPProofs`).
The open channel, from `ChannelAssumption`: `OneFragmentAtATime` needs `PendingIsAwaited`: the stack holds
a task's SDU only while that task waits, and the semaphore is not given in between. `PendingIsExact`
needs `InHands`. `EverySduIsReadOnce` needs `EachInOnePlace`: an SDU is read, in the queue, or in the
hands of the worker or the handler, and in one of these only; that the concatenation of the four is then
a list without repetitions is `ConcatLemma`. Writer and reads share no variable but the channel, so the
invariants are proved apart and joined.
The objects, from `PoolAssumption`: `WorkerIsOne`, for any number of tasks that create objects:
`OneWorker` alone forgets what each task has read. `LockIsHeld` says that there is one lock and that whoever is
between its take and its give has it alone, `SeenIsSo` that what the holder saw of queue and task is still
so. Both are under `~seen.raced`: two tasks that create the lock at once defeat the code.
`BuffersAreConserved` adds up, for each object, its free blocks, those of its channels, its writers and
the handler that accepts (`Balanced`). The sum is of cardinalities of sets of blocks, so each action
is a use of one lemma, that a block moved from one to another. Which object a block belongs to must
not change, nor an object go while something is of it: `MakersHaveObjects`, `UsersHaveObjects`,
`HandlerOK` and `ChannelsOK` say so. `TheChannelIsOpen` is `ChannelsOK` and, for the assertion in
`handleDataReceivedEvent()` that a buffer is there, the sum again: writers have two blocks each at most, and
`PoolAssumption` gives the pool one more than all of them. The pool has three by default, so the
assertion is safe with one writing task; with two tasks that write to one channel it is not, and the
theorem does not say so.

**Stream** (`NimBLEStreamProofs`, from `StreamAssumption`). `SecureDataStaysSecure` is about a step,
and needs of the state `EntriesAreSubscribers`: an entry is that of a subscriber, and one that is
marked secured is on an encrypted link, because entries go with their links. The copy that `sendValue()` works on
does not: `CopyOK` says that of the subscribers it still has to notify each is on an encrypted link or has lost, since the
copy, the link that was; those, and only those, the property excepts. `DataStaysScheduled`
is inductive once the types are known. It does not allow that a lack of buffers ends the sending, but where the lack
is over when `send()` asks for it (`"freed"`); its steps are those of `send()`, for each thread, against
events that leave the drain alone. Both hold with `Overlap` as well, which the run excludes.
`BytesStayInOrder` is under `~Overlap`. Its invariant `ByteInv` says that the buffer holds the last of the
bytes that were accepted, without a gap (`RunOK`); that what a sender has copied is still the buffer's
head when it drops it (`ChunksOK`), which is so because nobody else sends (`AloneOK`) and what others may do to
the buffer, `write()`, is at its tail; and that all bytes before those are sent in order or lost, never
both (`Settled`).

**GATT server** (`NimBLEServerProofs`, from `ServerAssumption`). `EveryChangeIsIndicated`: that a started
server serves what the peers were told of is inductive only with what is so before it is started (`Telling`): nobody
serves while `start()` runs, and a server that was stopped for a change has `m_svcChanged` set, so that the end
of `start()`, the first or a later one, indicates it. A service that is hidden is such a change: the flag that
`removeService()` sets stays until a `start()` has reset the attributes. `PeersAreHeld` is the half of `PeersAreCounted` that needs no list: each link has one slot of
`m_connectedPeers`, and a peer has an index as long as it has a link. Its invariant `SlotsOK` ties the slots to the
links up to the one link that the handler is adding and the one it is removing; that a new link finds a free
slot is then counting, as the stack has no more links than there are slots, and that the loop stops at the
first such slot is `LeastIs`. `PeersCounted` is the whole property: the list of peers is `Kept` from the slots, so the index
of a peer is the number of occupied slots before its own.

`HandlesAreOwn` and `StartsApply` need to know the containers and the table, `TablesInv`, which TLC checked on the
instance of `gatt_server` before it was proved. `Contained` says that the vectors are the tree of the live
attributes, each in the vector of its parent once, and that an attribute which is not live has no handle.
`Registering` is the loop of `resetGATT()` after some turns: with no link, the stack's definitions show the wanted
attributes of the services before the turn, in the order of the loops, and what was handed over has lost its
handle. `Reporting` is the callback after some entries of the table: the entries before have their handles, no
others have one, and an entry still to come whose parent has been reported finds that parent, though its UUID
may be that of other services (`CallbackFinds`; it is what the search for a handle of 0 in
`NimBLEServer.cpp` is for). `Served` is what is left of both while the server is started.
What a list shows is said by `Shows`: the attributes, each once, in the order of the nested loops. That order is
`Before`, on the places of an attribute and its parents in their vectors; it is total on the live ones
(`TotalOn`), and a deletion from a vector keeps it (`DeletionKeeps`), so the list that the loops produce in parts is the
one list of the set in that order. For this the model's lists are made by `Lists`, which says where each element
of the result comes from, and `ListLemmas` proves of each (`InOrderIs`, `NthIs`, `PickedIs`, `KeptIs`, `FirstIs`) what it
returns: members, length, order, absence of repetitions.

**Remote attributes** (`AttributeProofs`, last part, from `PeerAssumption` and `SizeAssumption`). `DescriptorsAreOwnAlways` and
`LookupFindsAlways` hold for any attribute table of a peer, and whatever was looked up, refreshed, deleted, refused or lost
before. Their invariant is `RemoteInv`, whose parts TLC checked on the instance of `remote` first. `VectorsAreOf` is
what a client keeps: the characteristics of a service in the order of their handles (that `InsertChr` keeps this is
`InsertIs`), services and descriptors once each. It is not inductive, as it says nothing of the results that are on
their way: `TodoIs` says that the stack reports in the order of the handles, only what is sought, and nothing the client
has. For a search that is repeated in the other form this is so because the first form found nothing, and no
object of the other form was in the vector when the call began (`NotYet`). A refresh begins with an
empty vector, and `discoverAttributes()` with all vectors empty, which it fills in the order of the handles, so that
those behind its place are still empty (`DiscoverIs`). Why descriptors are a characteristic's own is `RangeIs`: if the client
knows all characteristics of the service, the next in the vector is the next in the table, and the range before
the value of that one holds the descriptors and one declaration.
Of a lookup, `FoundIs` says that what it has found is in the vector and equals what was sought, and `MissIs` that while it
has found nothing, whatever it looks for is among the results to come, or there is none, and that an attribute
in another form than the last one tried would have been found before. `PlaceIs` and `AskedIs` tie the fields of a call
together. The retries of reads and writes are in the steps but do not matter to either property.

Both have a hypothesis, `LookupsArePlain`, which the constants of the instance satisfy (`PlainAssumption`), and which the
code needs. `to16()` tests the last 96 bits of a UUID for the base and takes the lower 16 of the 32 that are left
(NimBLEUUID.cpp:254-266), so a lookup of 128 bits whose value needs 32 is repeated for another UUID: it may return an
attribute that is not the one sought, and store it a second time. An attribute of 16 bits is not found by the
UUID of 32 bits that equals it, as only the form of 128 bits is tried then (NimBLEClient.cpp:687). And a descriptor
sought by 0x2803 would be the next characteristic's declaration.

**Device and advertising** (`DeviceAdvertisingProofs`, from
`VersionsAssumption`). `MirrorHolds` covers the white list (`ListOK`: a list without repetitions,
equal to the controller's until a reset of the controller loses it), the
data of the legacy build and the flags of the instances. `MirrorInv` adds what each thread may be
about to write: a flag may be wrong only between the stack's start and the assignment
(`MarkingInstance`), before `onHostSync()`, or where two threads met (`raced`). `DataIsAlwaysServed`
builds on it. `DataOK` says that one thread at most is about to set `m_advDataSet`, that the stack
then has its data, or had them before a call of `setDiscoverableMode()` or `setConnectableMode()` (`old`), and that
whoever starts on the strength of the flag finds data; `PhaseOK` that
nobody starts before `init()` has returned. Both builds are covered, for any number of resets.

**Only model-checked.** All liveness (`SecureReturns`, `ConnectingEnds`, `AsyncConnectAnswered`,
`GetResultsReturns`, `WaitingIsReported`, `CallsReturn`, `EndlessIsResumed`), which the provers cannot do; and
`ReadBack` of the payloads: what their recursive and folded definitions compute for inputs of any length would
need induction over data. Every other property of a passing run is a theorem.

## 5. Not modelled, and limits

* Data races on plain members: each action is atomic, so torn reads are outside.
* Use after free. `deleteClient()` by a third task while the handler runs, or `stop()` from
  `onDiscovered()` with `maxResults == 0`, lets the code go on with a freed object. The models
  stop there (`ClientGone`), or the instance makes no such call (`midway` in the scanner).
  The callback of a read that `readValue()` leaves behind is `StrayEnds`, without its write to the
  freed `NimBLETaskData`.
* Two tasks in blocking calls of one client: the second overwrites `m_pTaskData`.
* `write()` of the L2CAP channel may block for ever if `TX_UNSTALLED` comes between the
  stack's ESTALLED and the clearing of the semaphore, or on a disconnection. The model has
  these behaviours; no property claims otherwise.
* Whether the stack reports the end of a scan on a host reset is not visible in `src/`; both
  are allowed in `scan_safety`, and the liveness run has no resets.
* In the GATT server the application's calls do not overlap a `start()`: the containers are
  plain vectors that `resetGATT()` iterates. A link for which the reset was refused does not
  end within the same `start()` (`LinkDown`): if it did, registration would succeed upon the
  old definitions. `addService()` of an object that is in the list already, and use by the stack
  of a removed object that the application deleted (NimBLEServer.cpp:833), are left out. That
  `removeService()` also takes the UUID from the advertisement (851) is a call of `AdvertisementPayload`.
* `NimBLEServer::getClient()` sets its client CONNECTED from a `connInfo` that may be stale, and
  the disconnect event clears only its handle (NimBLEServer.cpp:510, 1114); left out.
* In the stream `flush()` does not overlap the drain event (`Overlap`): both would run `send()` on
  one `m_txChunkBuf`, a chunk is sent twice and another dropped unsent, and `BytesInOrder` fails.
  `end()` while another thread sends, and the service that `begin()` may create, are left out.
* In the extended payload the spoiled cases end the behaviour; what a reader makes of a broken
  payload is not followed.
* Durations are ticks or pure order. Statistics, logging, formatting and plain getters are left out,
  as are bonds, security settings, power, connection parameters, PHYs and the HID device: one call
  of the stack each, or fixed tables.

### Where code and text part, and where the properties make exceptions

Each was met while modelling. The properties state what holds beside them.

* Client: a second `connect()` during an attempt is refused but makes the client DISCONNECTED
  (NimBLEClient.cpp:319), so the link of the first is terminated, while the changelog says that it
  no longer cancels connections in progress (CHANGELOG.md:290); with `deleteOnConnectFail` the client
  is deleted with its attempt pending (322). In between its table entry is `strayed`.
* Scanner: with duplicates reported, a device that advertises faster than the scan response
  timeout and never answers is not reported in an endless scan (NimBLEScan.cpp:295, against 386);
  `getResults(duration)` during a scan is released by the `stop()` in its own `start()` and returns at
  once (693, against 677); a passive scan puts a scannable device that advertises again on the waiting list
  although it reports it at once, so that `onResult()` comes a second time when it times out
  (NimBLEScan.cpp:294-301, against "during active scanning" at 294); `onHostSync()` calls `onScanEnd()` without
  reporting the devices that wait, and possibly while a scan runs that was started since the reset (672-674).
* L2CAP: `write()` returns true although a fragment was refused, as it tests for negative codes and
  the stack's are positive (NimBLEL2CAPChannel.cpp:348, against NimBLEL2CAPChannel.h:55-56). The memory
  pool and the worker are set up inside `assert()` (142, 144), which a build with NDEBUG removes. A
  connect event is taken as a connection whatever its status (381). One object serves every peer of a
  service (469). `createService()` that the stack refuses leaks the object (NimBLEL2CAPServer.cpp:31).
* Stream: a second client that subscribes is ignored, but when it unsubscribes or disconnects the
  stream forgets the subscriber it serves (NimBLEStream.cpp:854, against 834); `end()` leaves its service
  if that was not registered (653). `processSubRequest()` does not update an existing entry.
  A value that found no buffer is not sent again if buffers are free by the time `send()` asks (772): `sendValue()`
  reports no status for that failure, so `m_rc` says nothing of it, and the data stay without event or callout
  until the next `write()`, against the comments that a lack of buffers schedules a retry (NimBLEStream.cpp:379-380,
  748-751). `sendValue()` works on a copy of the subscribers (NimBLECharacteristic.cpp:283): a link that comes up under
  the handle of one of them before its notification (316) gets the value, encrypted or not, subscribed or not. And a value
  for several subscribers that fails at one is sent again to those that have it, as its bytes stay in the buffer.
* Remote attributes: the search for descriptors passes the declaration of the next characteristic, and
  ends at the service's end if that one is not known (NimBLERemoteCharacteristic.cpp:106, against 90);
  `readValue()` starts a read after ATTR_NOT_LONG and does not wait for it
  (NimBLERemoteValueAttribute.cpp:149, against 144); a descriptor that is found before the vector is
  counted (NimBLERemoteCharacteristic.cpp:135) is not returned. A lookup of 128 bits with the base UUID and a value of
  32 bits is repeated with that value cut to 16 (NimBLEUUID.cpp:258), and one of 32 bits is not repeated with 16
  (NimBLEClient.cpp:687); the lookups of the instance are others.
* GATT server: putting back a removed characteristic or descriptor (NimBLEService.cpp:239,
  NimBLECharacteristic.cpp:126) and `addService()` of a new service (NimBLEServer.cpp:871) do not set
  `m_svcChanged`; `StartApplies` excepts these calls. `removeService()` hides the service from connected
  peers at once and indicates nothing until a later `start()` applies the change (NimBLEServer.cpp:843, against "sends a
  service changed indication" at 810); `ChangeIsIndicated` says that until then the change is pending.
* Attribute values: `append()` sets `m_capacity` before `realloc()` has succeeded (NimBLEAttValue.cpp:129),
  `deepCopy()` reads the source's capacity before its critical section (89), and a value that is too long
  leaves the old one empty (108) and is then compared, in its whole length, with a buffer that may be shorter
  (111): `MemoryIsSafe` says that this is the only access outside the value that one thread alone can cause without
  a failed allocation, and no peer. A read in several parts gets a mix if a task, another peer's write or another read's
  `onRead()` sets the value between them (NimBLEServer.cpp:742-777); `ReadIsWhole` excepts that.
* Reading payloads: `getServiceUUID()` is wrong where a later list of a type is longer than those before
  (NimBLEAdvertisedDevice.cpp:447); `getTargetAddress()` gives the bytes reversed, with the field's type
  as the type of the address (291, 297); an index past the count is not refused for single fields (228).
* Building payloads: removal of a UUID searches past its list (NimBLEAdvertisementData.cpp:227,
  NimBLEExtAdvertising.cpp:785); `removeServices()` does nothing (259); `setFlags(0)` adds a field (95);
  the length of service data is cut to 8 bits (462). In the extended build name, URI and manufacturer data may
  fail half way (NimBLEExtAdvertising.cpp:628), `setFlags()` adds a second field (605), `setServices()` counts
  UUIDs that it skips (885), and removing service data needs room for it (941).
* Beacons: the setters of NimBLEBeacon swap bytes and its getters do not; NimBLEEddystoneTLM does the
  opposite, and its time has different units in setter and getter.
* UUIDs and addresses: a text of 36 digits after `0x` gives an empty UUID, the texts that `toString()` makes of
  short UUIDs are refused, and so is an address of 12 digits.
* Advertising: `getScanData()` returns the advertisement (NimBLEAdvertising.cpp:376); a restart after
  a reset comes also when the application had stopped endless advertising (282); a refused scan response
  leaves `m_advDataSet` set (209-215); `setConnectableMode()` and `setDiscoverableMode()` change the flags in the data and
  leave it set (82-84, 98-107), so that advertising goes on, and starts again, with the old flags; with `deinit(false)` that flag outlives the stack; starting between
  `m_synced` and `onHostSync()` (NimBLEDevice.cpp:857) uses flags of the time before the reset. The white
  list is not sent again after a reset; `whiteListRemove()` goes on with an iterator into a vector that was
  swapped away (755); `deinit(true)` deletes the objects even if the stack could not be stopped (1036). An
  error between allocation and hand-over leaks the extended data's buffer (NimBLEExtAdvertising.cpp:103).

## 6. What could follow

* Bonds and security settings of the device, connection parameters of the client, the status of
  indications: short calls of the stack, for which the stack's side would be most of the model.
* The scanner's fragments of extended advertisements.
* Liveness of `write()` of the L2CAP channel and of the stream's drain under a stack that frees its
  buffers, once the code closes the window between ESTALLED and the clearing of the semaphore.
* A proof that what the setters of a payload write is what `findAdvField()` reads, for payloads of any length, with a
  prover that can instantiate the induction theorems.
* Lookups of UUIDs that are not plain, once `to16()` refuses what it would cut.
