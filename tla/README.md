# TLA+ models of the iPhone graphics firmware

The firmware (`src/src/`) runs on an ESP32. It renders GPS telemetry with the
Adafruit GFX interface, encodes each drawing call as a length-prefixed frame and
streams the frames to an iPhone over TCP or BLE; the phone sends pongs, keys and
touches back. These modules model the parts of it that run concurrently or keep
state across calls. Each is checked with TLC on a small instance, and what
matters most is proved with TLAPS for all values of the constants.

## 1. Inventory

| Part | State it keeps | Operations | What is hard, and what makes it correct |
|---|---|---|---|
| `WiFiManager` | `_client`, `_writeMutex`, `_lastPingSentMs`, `_waitingForPong`, `_pingNeeded`, `_apMode`, `_server`, the state of the station | `send`, `update`, `switchToSoftAP`, callbacks of AsyncTCP | Three tasks share `_client`; only writes are under the mutex. Messages must arrive whole, a due ping must go out, only a silent client may be dropped, no open session may be lost, `send` must return. |
| `BLEManager` (transmit) | `_txStream`, `_txDone`, `_connected`, `_notifySubscribed`, `_lastStatusCode`, `pendingN` of the drain task | `sendBytes`, `runDrainLoop`, NimBLE callbacks | A binary semaphore handed between the drain task and callbacks that also give it. No byte skipped or held for ever, through refusals, errors, late statuses and reconnections. |
| `loop()` of `main.cpp`, `ActiveTransport` | `phoneReady`, `transportReadyMs`, `wifiReconnectPending`, `bleSubscribePending`, `pendingTest`, GPS state | `loop`, `updateActiveTransport`, `initPhoneUI`, `pollConsole`, tests | What was read at the top of an iteration is used seconds later. A phone that stays gets its UI, and telemetry lands on labels of its own session. |
| `WiFiTransport`, `BleGraphicsTransport` | `_txBuf`, `_buf` | `send`, `flush`, `reset`, `tick` | Bytes of one session must not wait for the next; the BLE buffer is fixed and must not be overrun. |
| `BackChannelParser` | `_buf`, `_len` | `feed`, `dispatch`, `reset` | Finding the frame boundary again after lost bytes; never overrunning 16 bytes. |
| `Adafruit_iPhoneTFT` | text state: GFX members, cache `_r…`, flags `_dirty…` | setters (hidden, not virtual), `write`, `setRotation`, `begin` | Three copies of the text state; a setter through `Adafruit_GFX&` passes the flags by. |
| `Graphics` | none that matters | one encoder per drawing call | 16-bit lengths; a bitmap is two calls of `send`. The phone must find a frame wherever it looks for one. |
| `GPSModule` | ring of samples, `_newData` | `update`, `hasNewData` | The ring before and at its wrap; each fix handed out once. |
| `iPhoneTouchScreen` | `_point` | `handleTouch`, `getPoint` | Torn reads. Not modelled: nothing includes it (section 7). |
| `DisplayModule`, `GFXTest` | none | drawing | Parts of a frame in `MainLoop`. |
| `TelemetryPrinter`, `Display_iphone` | none | formatting; legacy driver nothing includes | Not modelled. |

How they interact: `loop()` renders through `Adafruit_iPhoneTFT` → `Graphics` →
`ActiveTransport` → one of the two transports, whose `flush` calls
`WiFiManager::send` or `BLEManager::sendBytes`. The heartbeat task calls
`WiFiManager::update` every 100 ms. AsyncTCP and NimBLE call back on tasks of
their own; they set flags (`wifiReconnectPending`, `bleSubscribePending`,
`pendingTest`) that `loop()` consumes, and feed the parser.

The hazards found in the code, each at its line and with the properties that
cover it, are listed in `PROJECT.json`.

## 2. Modules

| Module | Models | Runs | Proofs |
|---|---|---|---|
| `WiFiManager` | `WiFi/WiFiManager.*` | `MCWiFiManager`, `MCWiFiLive`, `MCWiFiEarlyDrop`, `MCWiFiPanic`, `MCWiFiSilence` | `WiFiManagerProofs`, `WiFiLinkProofs` |
| `BleManager` | `ble/BLEManager.*`, transmit path | `MCBleManager` | `BleManagerProofs` |
| `MainLoop` | `main.cpp`, the transports | `MCMainLoop`, `MCMainShown` | `MainLoopProofs` |
| `GfxStream` | `graphics/Graphics.*`, the transports with their sizes | `MCGfxFrames` | `GfxStreamProofs` |
| `GpsModule` | `GPS/GPSModule.*` | `MCGpsModule` | `GpsModuleProofs` |
| `BackChannelParser` | `Backchannelparser.*` | `MCBackChannelParser` | `BackChannelParserProofs` |
| `IPhoneTFT` | text state of `Adafruit_iPhoneTFT` | `MCIPhoneTFT` | `IPhoneTFTProofs` |

Three modules are abstract: they say what a component promises, with no task,
buffer or index in them.

| Abstract module | Promise | Implemented by | Shown by |
|---|---|---|---|
| `WifiLink` | one client at most; it can be sent to while it is held, closed or not, and the station is up; one that replaces another is announced after that one was let go and before it is in place | `WiFiManager`; `MainLoop` takes the behaviour of its WiFi phones from it | run `wifi_safety`, and for all constants `WiFiLinkProofs` |
| `GfxPipe` | units handed over in a session reach its phone in order, none missing, while the link is sound | `BleManager` | run `ble_delivery`, and for all constants `BleManagerProofs` |
| `GpsWindow` | speed and course are means over a sliding window, each fix handed out once | `GpsModule` | run `gps_window`, and for all constants `GpsModuleProofs` |

An `MC…` module gives the constants values; each `.cfg` is one run. Definitions
whose comment begins with "Fault:" are deliberate mistakes, not part of any
specification: substituted for the definition after them, they show that the
property they are for would notice.

### WiFiManager

One program counter per task: `pcL` (the loop task in `send` or
`switchToSoftAP`), `pcH` (heartbeat in `update`), `pcT` (AsyncTCP in
`onClientConnected`, whose `wasConnected` and the call it leads to are
`announce`). A task's step is a stretch of code that touches shared state once.
So `sendPingNow` is the test of the client, the write and the bookkeeping; the
test of the flag before it, the interval and the mutex are steps of their own;
and `update` decides to drop a client (`UpdateLate`) before `dropClient` reads
the pointer (`UpdateDrop`), so that a client that came in between is the one
dropped. Joined are only the reads of `_client` within one condition or one call
(`_client && _client->connected()`; the test and the close of `dropClient` and
of `onClientConnected`) and the assignments that end a handler. A call on the
client object is one step: the object's lifetime (`delete c` while another task
is inside a call) is below this granularity. `close()` may call `onDisconnect`
before it returns; in the model that is the run in which nothing comes between
the close and `OnDisconnect`.

`isConnected()` is `apMode \/ joined`. The station may lose its access point and
join it again at any time (`StationLost`, `StationBack`); `_client` is not
touched by that, and the connection is left to TCP.

A frame is `FrameLen` units and a ping `PingLen` units; a unit is a group of
bytes the socket takes or refuses together. `write` may accept less than asked,
or nothing. `phone[s]` is what a stream parser at the other end has seen:
its last unit, and whether a unit ever came out of place. `cut[s]` records that
the device itself put part of a message on the session: a `send` given up
half-way, a ping for which there was no room, or a half-written frame whose rest
went to a new client. `FramesIntact` holds for sessions that were not cut; that
they can be cut is plain from the code and accepted by it.

Time: a stamp is modelled by its age. Ages stop growing at `AgeCap`, above every
threshold; a stamp of 0 ("never") is `Uptime`. `update` captures `now` once;
`hbAge` counts the ticks since, at most `MaxLag`, and `SnapshotElapsed` is the
unsigned subtraction with its wrap.

A null `_client` in the write loop is `SendPanic`, as it is between the test and
the write of a ping (`UpdatePanic` in the heartbeat task): the chip restarts
(`Reboot`) with everything lost.

### BleManager

Producer (`pcP`), drain task (`pcD`) and the NimBLE task (`pcN`): a callback
that gives the semaphore first assigns its fields, then, in `OnDisconnect`,
resets the stream buffer, then gives. `inflight` holds the chunks `notify` took
whose `onStatus` is due; NimBLE reports on each in order, unless the link goes.
`DrainTimeout` covers a status that is late as well as one that never comes.
`xStreamBufferReset` does nothing while a task is blocked on the buffer
(`SomeoneBlocked`). The three `canSend()` tests of the drain loop share
`DrainDiscard`. A batch is assumed to fit the empty stream buffer (4 KB in
8 KB).

Units are numbered within the session in which `sendBytes` was called, so the
phone knows what it missed (`gap`). `slipped` records that a wait of the drain
task ended although its chunk had no status yet. That happens: the token given
by `onSubscribe`, or by a status that came after the timeout, is still there.
If an error status follows, the chunk is lost although the comment at
`BLEManager.cpp:329` says "Ordering guaranteed". `NothingSkipped` says that this
is the only way, and `ImplementsPipe` that nothing else goes wrong either: with
`sent` the units handed over, `lost` the gap and `sound` the negation of
`slipped`, the tasks, the buffer, the retries and the callbacks implement
`GfxPipe`.

Old units do reach a new session, although `onDisconnect` flushes the buffer
(`BLEManager.cpp:29`): the producer may be between its `canSend()` test and its
write when the flush comes, or blocked in the write, which makes the reset do
nothing, and the drain task may hold a chunk. The properties are about the units
of the phone's own session. `SendBytesReturns` says that `sendBytes` does not
stall `loop()` while the phone stays. It has to be put that way: when the phone
goes while `sendBytes` is blocked on a full buffer, it stays blocked until a
phone subscribes, whatever the comment at `BLEManager.cpp:194` says.

### MainLoop

`pc` walks through `loop()`; each action reads shared state once. A rendered
part (`begin`, `labels`, `values`, `status`, `test`) is marked with the session
its link had when it was drawn. `flush` delivers to the session the link has
then; delivery inside the managers is the subject of the other two modules. What
a phone shows follows from the parts it got, and nothing before `begin`.

The WiFi side is composed with `WifiLink`: each action of a WiFi phone and of
the station (`WifiAccept`, `WifiTakeover`, `WifiAnnounce`, `WifiTaken`,
`WifiLeave`, `WifiUnlink`, `StationLost`, `StationBack`) is a conjunction with
the action of the abstract link, so that `onConnected` fires where `WiFiManager`
fires it and nowhere else. `WiFiLinkProofs` shows that the manager allows no
more. The restart after a panic (`up`) is left to `WiFiManager`.

`canSend()` of the WiFi transport is `isConnected() && clientConnected()`
(`WiFiTransport.cpp:14-17`), that is, the station and a pointer: `Up`. A client
that is closed and still held can be sent to, and nothing of it arrives: only
`Heard` gets anything. And the same client can be sent to, not, and again, as
the station goes and comes.

`setup()` is one action, after which the callbacks are registered; what it
starts before is up from the beginning. `pendingTest` is read (`TestRead`) and
cleared (`TestStart`) in two steps, with `which` between them; a key pressed in
between is lost.

Three constants say what phones may do. `Overlap`: one comes on one link while
`loop()` still has the other. `Blink`: the links on which one may be back before
`loop()` has seen it gone. `Early`: the links on which one may come while
`setup()` runs. A WiFi client that *replaces* another is always possible
(`WifiTakeover`, the case `onConnected` exists for).

- A phone that is back between two looks at the links (`Blink`) is no change of
  transport: `loop()` takes it for the one before, gives it the rest of what it
  was drawing, and does not init its UI unless the GPS gets a fix, a test runs or
  a WiFi client takes over.
- The station lost and back between two looks is none either. What is drawn
  meanwhile is dropped. A frame of telemetry is no loss; but when it is BEGIN or
  the labels of `initPhoneUI`, which takes half a second, `phoneReady` is set all
  the same (`main.cpp:112`), and the phone stays blank or without labels until
  the next init. So it does when the GPS gets its fix while `canRender` is FALSE
  (`main.cpp:395`): the labels of the fix are then never drawn for a phone that
  is there again a moment later.
- `unseen` is the history of both: the links whose phone came while they were
  active, or missed a part of its UI in one of these ways, until `initPhoneUI`
  next begins with the link up. The properties are about all other phones, and
  `Blink` may be anything.
- With `Overlap` a phone may never get its UI (`MCMainShown`).
- The same comes of `Early = {"ble"}`, since `onSubscribed` is registered
  (`main.cpp:267`) after advertising has begun. No run repeats it. An early WiFi
  phone needs no callback to be shown (`MCMainLoop`).

`PhoneShown` is stated as "again and again each phone is gone, overlooked or
shown": a session ends for good and there are finitely many, so that in a
behaviour one of them stays or none, and it then says that the one that stays is
shown.

`ValuesOnLabels` is about a fixed GPS. With a weak fix the code draws telemetry
over the status page too (`main.cpp:435`).

A test is one scene; on BLE it may fill the 4 KB buffer, which is then sent
early.

### GfxStream

Bytes are counted, not kept. A piece is what one `send()` is given: its size,
the bytes that continue the frame of the piece before, and the bytes its last
frame still lacks, from the length its header announces (`Head`, with both
casts to 16 bits). The buffer is several pieces joined; `framed` is lost when one
does not continue what the one before lacks. The phone's stream is the same,
over what was handed over in its session. A drawing call is two or three steps
(`send` tests the link, then appends, then flushes a full buffer), and phones
come and go between any two of them. The transport is one of the two, chosen at
the start (`ble`); delivery of what is handed over is the subject of the
managers' modules. A piece longer than the BLE buffer fails an assertion, which
restarts the device (`SendAsserts`).

Every command but a bitmap is one piece. A bitmap, which the library offers and
nothing in the repository draws, is two, and a link that changes in between
leaves the phone with half of it: `torn` records that, and `SessionFramed` says
that nothing else breaks the stream and that the damage ends with the first
phone that finds the transport empty. `StreamAssumption` says of each bitmap in
`Bitmaps` that its length fits the header: `Graphics.cpp:77` would announce 3
bytes for one of 65530. `BitmapBytes` is the code's (`Graphics.cpp:286`), which
counts no padding at the end of a row, where Adafruit_GFX bitmaps have it.

### GpsModule

`UpdateRmc` and `Update` are `GPSModule::update`, with the sentences TinyGPS++
has seen since the last call as input: an RMC, or anything that carries no
speed. Both take a sample, as the code does, since a speed once valid stays
valid; so the four samples may be copies of one sentence. `loop()` alternates
`update` and `hasNewData`. The refinement maps the ring, its index and its flag
to the window of samples that count, oldest first; it would break if the average
took in a slot not written yet, or one too old. A number is a natural number and
a mean is rounded down. The mean of courses is the code's (`GPSModule.cpp:73`):
across north it points the wrong way.

### BackChannelParser

`FeedByte` is one turn of the loop in `feed`; the callback it fires is its
value. The parser keeps nothing between bytes but its buffer, so how the stream
is cut into writes makes no difference. Frames lose a run of up to `MaxLost`
consecutive bytes. `since` counts the frames since the last one that lost some,
up to `LongAgo`.

How long may the parser stay out of step? What it takes for a frame is not
longer than its buffer, and no frame of the phone is shorter than four bytes; so
it swallows `Swallowed` frames at most, four for the firmware's 16 bytes. But
then it may go on in the middle of a frame, and take what it finds there for the
next. `Contained(f)` says of a frame that whatever begins inside it is given up
or complete by its end. All frames of this protocol are contained but one kind:
a touch on a row whose low byte is `BC_MAGIC` (`y` = 165 or 421). A parser that
is out of step ends it with `[165, 255]`, takes the magic byte of the next frame
for the high byte of a length, finds that length invalid and throws all three
bytes away (`Backchannelparser.cpp:37-42`): it has missed the next start too.
While such frames follow one another, as they do in a horizontal drag along that
row, it stays out of step and none of their callbacks comes. So a frame that is
not contained and leaves the parser open starts the count anew. With this,
`InStep` says that the buffer and the bytes on their way make up a frame of the
phone, and `Resync` that a callback comes with the last byte of each frame, that
frame's own, and none before.

`ProtocolAssumption` says that the frames of the phone announce their own length
and are not longer than the buffer; that the buffer is not overrun does not need
it.

### IPhoneTFT

Per attribute of the text state: the GFX member (`local`), the cache
(`remote`), the flag (`dirty`) and what the phone has (`phone`). `Sent` is what
the message tells of a value: a text size of two scales is sent as the first.
The phone's cursor after a character is any value, and so need not agree with
the local one. The link is taken to be up: a setter's message that is dropped
without a phone, or a phone that starts over without `begin()`, is not part of
it.

## 3. Runs

| Run | Instance | Shows |
|---|---|---|
| `wifi_safety` | 2 sessions (symmetric), frame 2, ping 2, socket 2 units, `MaxLag` 0 | `FramesIntact`, `StreamInv`, `MutexHolder`, `NoOrphanSession`, `ImplementsLink`: about 2.6 million states |
| `wifi_liveness` | 1 session, frame 2, ping 1, socket 1 | `SendReturns`, `DuePingServed` |
| `wifi_early_drop` | as above, socket 2, `MaxLag` 1 | `NoEarlyDrop` fails |
| `wifi_panic` | socket 1 | `NeverPanics` fails |
| `wifi_silence` | frame 1, interval 1, timeout 3, `MaxLag` 0 | `PongTimeoutEnforced` fails without any delay of the heartbeat |
| `ble_delivery` | buffer 2, batch 2, chunk 2, 2 units and 2 faults a session, 2 sessions | `NothingSkipped`, `DrainCanTake`, `Delivered`, `SendBytesReturns`, `ImplementsPipe` |
| `loop_frames` | 3 sessions, one key, `Early` = {wifi}, `Blink` = {wifi, ble}, no `Overlap` | `ValuesOnLabels`, `FramesFlushed`, `PhoneShown`, `StaleOnlyOnTakeover`: about 1.5 million states |
| `loop_switch` | 2 sessions, `Overlap` TRUE | `PhoneShown` fails |
| `gfx_frames` | either transport, buffer 40 bytes, at most 80 between flushes over WiFi, all commands, bitmaps of 0, 7, 39, 40, 41 bytes, 3 sessions | `BufferFits`, `SessionFramed`: about 700000 states |
| `gps_window` | 4 samples, 3 readings | `ImplementsWindow` |
| `parser_resync` | 16 bytes, 13 frames of 5 kinds, two of a session lose up to 9 bytes | `InStep`, `Resync`: about 360000 states |
| `text_state` | cursor and size, 3 values | `CacheCoherent`, `TextRight` |

Why the bounds are enough:

- Two sessions are an old and a new one; a third adds no relation the manager
  keeps (it has one pointer). Symmetry is used in the safety run only.
- A frame of two units has an inside; a ping of two can be cut; a socket of two
  is full, half full or empty.
- The thresholds keep the order of the firmware's (early < interval < timeout);
  the wrap needs one tick of lag, which only `wifi_early_drop` allows: the
  safety properties do not depend on the stamps, and are proved for any `MaxLag`.
- In BLE a chunk of two and one of one cover a full and a partial chunk; the
  buffer is full with one batch. A retry, its late status and an error are two
  faults.
- Two units a session fill the buffer; a full one is met by the next session's
  batch too, since old units may still be in it.
- In the loop the third session follows a takeover and a leave. The station may
  go and come as often as it likes.
- A BLE buffer of 40 bytes is filled by three or more commands of 4 to 18 bytes,
  so that a piece fits, fits exactly, or needs a flush in front of it, at every
  fill level; bitmaps of 39, 40 and 41 bytes are one below, at and above it. The
  third session shows a stream that recovered.
- Four samples are the firmware's own number.
- The touches of the parser have the coordinates that matter: 13 as the high
  byte of `x` announces the longest frame when the bytes before it are lost (the
  parser then waits for three whole frames), 242 is also a command, and 165 is
  the magic byte, in `y` that of a frame that is not contained. Two losses let
  the parser lose step while it is finding it. With `Swallowed` = 2 TLC finds a
  counterexample; 3 would do for these frames, 4 is what holds for all.

### What fails, and where

Four runs state what a comment or the README says and find that the code does
otherwise; `PROJECT.json` quotes both.

1. `update` (`WiFiManager.cpp:67`, `88`): a ping stamped by `send` after `now`
   was read makes the difference wrap, and `update` decides to drop a live client.
2. `send` (`WiFiManager.cpp:151`): `_client` may be null in the write loop.
3. `sendPingNow` (`WiFiManager.cpp:200`): every ping restarts the pong timeout.
4. `loop` (`main.cpp:319`): a direct change of transport leaves `phoneReady`.

Elsewhere a promise holds but for a case that is part of the property, so that
the run shows there is no other: `slipped` in `NothingSkipped`, `Delivered` and
`ImplementsPipe`; a phone that left in `SendBytesReturns`; a replacement that
waits to be handled in `StaleOnlyOnTakeover` (a client that replaces another
while a frame is rendered gets the rest of it, `main.cpp:310`), and `unseen`
there, in `ValuesOnLabels` and in `PhoneShown`: a phone that came unseen, or
whose init met a station that was lost for a moment; `torn` in
`SessionFramed`; `cut` in `FramesIntact`; `Contained` in `InStep` and `Resync`
(where `README.md:513` has the magic byte resync the parser, without exception).

## 4. Fairness

- Tasks are scheduled by FreeRTOS: weak fairness of `Send`, `Update`,
  `AsyncTCP`, `Drain`, `Producer`, `Loop`. A task that calls nothing (no
  `SendEnter`, no frame) need not start: those actions have none.
- `SendLock` is strongly fair: the waiting task is woken when the mutex is
  given, and the heartbeat, which never waits for it, sleeps 100 ms between its
  attempts.
- `Tick` is strongly fair in `WiFiManager`, whose guard closes it while `update`
  is behind: time passes.
- `Stack` in `BleManager`: NimBLE finishes its callbacks and reports on every
  chunk it took while the link lasts.
- In `MainLoop`, `Settle` (200 ms pass), `WifiInstall` (an accept completes, its callback included) and,
  strongly, `DeferInit`: the TCP buffer of a client that stays is not without
  space each time `loop()` looks.
- `GfxStream` and `GpsModule` have safety properties only and state none.
- Phones have no fairness: they may be silent for ever.

## 5. Proofs

Eight modules hold the proofs. The theorems are about every value of the
constants that the named assumptions allow (`NoneAssumption`, `LenAssumption`,
`TimeAssumption`, `SizeAssumption`, `LoopAssumption`, `StreamAssumption`,
`SamplesAssumption`, `FrameAssumption`, `ProtocolAssumption` and those of
`IPhoneTFT`; each is in the module that declares the constants, and TLC
evaluates it on the instances). One theorem about `MainLoop` has a hypothesis
besides, explained below. Each strengthened invariant was an invariant of a TLC
run before it was proved.

| Component | Invariants and action properties, for all constants | Refinement, for all constants |
|---|---|---|
| `WiFiManager` | `TypeOK`, `MutexHolder`, `StreamInv`, `FramesIntact`, `NoOrphanSession` | `ImplementsLink` |
| `BleManager` | `TypeOK`, `NothingSkipped`, `DrainCanTake` | `ImplementsPipe` |
| `MainLoop` | `TypeOK`, `FramesFlushed`, `StaleOnlyOnTakeover`, `ValuesOnLabels` | |
| `GfxStream` | `TypeOK`, `BufferFits`, `SessionFramed` | |
| `GpsModule` | `TypeOK` | `ImplementsWindow` |
| `BackChannelParser` | `TypeOK`, `InStep`, `Resync` | |
| `IPhoneTFT` | `CacheCoherent`, `TextRight` | |

### WiFiManager

`FramesIntact` is not inductive: it says nothing of the bytes on their way. The
invariant is `TypeOK /\ MutexHolder /\ StreamInv`; `StreamInv` says that on a
session that was not cut what the phone has read and what the socket holds form
one chain, which ends on a message boundary unless the loop task is in the
middle of a frame, that only then anything is half written, and that closed or
not yet installed sessions hold nothing. Lemmas say how the chain grows at its
end and is read at its start. `NoOrphanSession` needs the part of
`StreamInv` by which there is no client while another is being installed
(`WriterInv`): otherwise the end of `onClientConnected` would overwrite an open
one.

`ManagerIsALink` (`WiFiLinkProofs`): `station` is `isConnected()`, `held` is
"there is a client" (`clientConnected()`), `open` is "and it is not closed",
`taking` the accept in progress, and `announce` the manager's own. The link has
no other way from one client to the next than `Takeover`, `Announce`, `Taken`,
so the theorem says that the callback comes for each client that replaces
another, after that one is out of reach and before this one is in it, and for no
other client. The facts about reachable states needed are types, that there is
no client while one is being installed, that a call is due or done only then and
that the station is not left in SoftAP mode (`AcceptInv`). Lemmas deal with the steps that touch none of this, with those
that close sessions, and with those that unlink one.

### BleManager

`NothingSkipped` compares what the phone has with what it misses and says
nothing of the units between. `ChainInv` does: while a phone is there, its units
in `pending`, in the stream buffer and in the batch of `sendBytes` are three
runs of consecutive numbers, each beginning where the one before ends, the last
at `numbered`; and while no wait was cut short, the run of `pending` begins no
later than where the phone is, and either ends there too or is `Kept`: its status
is still to come, or is an error, so the retry will send it again. Units of
older sessions may be anywhere in front (`Run` says that those of the session are
at the end), and no unit is of a session to come (`OldInv`). `FlightInv` says
the same of each chunk NimBLE has yet to report on. Lemmas say what appending,
taking from the front, reconnecting and losing the link do to a `Run`.

`DrainCanTake` follows from `TokenInv`, which adds the place in `onSubscribe`
and `onDisconnect` where the give is still to come. `ManagerIsPipe` needs the
whole invariant at two steps: a unit handed over extends `sent` by one, and a
chunk reported ok moves `got` by what of it is new.

### MainLoop

`FramesFlushed` rests on `FlushInv`: where in `loop()` something is buffered, for
which link, and where `initPhoneUI` returns to. It holds for `Blink`, `Overlap`
and `Early` of any value.

`StaleOnlyOnTakeover` is about each delivery: `stale` flips whenever a phone gets
parts that were drawn for another. It needs `SesInv`: what is in a buffer was
drawn for the session its link has, unless the flag for a replaced WiFi client
is set or the phone came unseen; and `TakeInv`: from the time `loop()` has taken
that flag until the new client is there, it does not draw, and a client that is
in place has been announced. There is no hypothesis on the phones: `Blink`,
`Overlap` and `Early` are any. So a replacement and a phone that is back unseen
are the only two ways for a phone to get what was drawn for another, and the
second exists because `loop()` does not look at the links while it renders. A
station that comes and goes adds none: the session is the same.

`ValuesOnLabels` needs in addition that `phoneReady` speaks of the active link
(`ReadyInv`), where the labels are (`ShowInv`, with the content of the frame
`initPhoneUI` is sending), and that the links are used one at a time
(`AloneInv`, and `RoomInv` for the client that is being installed). `Fresh` says
which phones the first two are about: that of the active link, its client open,
no replacement waiting and not `unseen`; the station may be lost, and what was
drawn before it was lost is still on the phone. The theorem is for
`Overlap = FALSE`, and is false without, as TLC shows: this is the stale
`phoneReady` of finding 4.

### GfxStream

`BufferFits` is not inductive in the middle of a drawing call: `RoomInv` says
what `send()` has already made sure of at each of its steps. `SessionFramed`
rests on `ChainInv`: what the phone's stream and the buffer together still lack
(`Behind`) is what the call under way will still supply (`Due`); without a phone,
what is buffered and about to be buffered are whole frames. Lemmas give the size
of a bitmap and what `Append` and a flush do to this balance; the arithmetic of
the header's 16 bits is used there and nowhere else.

### GpsModule

The code adds up a ring in a loop, and the sum is a recursive function of the
index. Facts about its value at each index ("a sum of `i` courses is at most 359
times `i`", "a sum does not depend on where one starts in a ring") are shown by
way of the least index of which they would be wrong, which exists because `<` on
the natural numbers is well-founded; so is the existence of the sums. The
refinement then has two parts: a sample put into the ring is one appended to the
window, before the wrap, at it and after it (`WindowSlides`); and the average of
the ring is the mean of the window (`AveragesAreMeans`), because after the wrap
the window is the ring read from `sampleIndex`. `TypeOK` is inductive by itself.

### BackChannelParser

`TypeOK` is inductive: the test of the announced length leaves only incomplete
frames in the buffer, which are shorter than it, whatever the phone sends and
whatever is lost. So the overrun branch (`Backchannelparser.cpp:21-26`) is never
taken.

`InStep` says nothing of a parser that is out of step. `PlaceInv` does: within a
whole frame the buffer holds its beginning (`InFrame`); or bytes that follow one
another inside it (`InsideFrame`); or all of it so far behind all of the frames
since the last damaged one, of which a byte is left (`AcrossFrames`). The last
case gives the bound: the buffer has `1 + 4 * since` bytes or more when the next
frame begins, and fewer than `BUF_SIZE`. The second ends with the frame, if the
frame is contained: what began inside it is complete, or its length invalid
(`NothingLeft`). A turn that gives up or completes what began frames ago leads
from the third case to the second. `Resync` is then a fact about the first
(`FeedInFrame`). Both theorems are about any frames that keep to the protocol,
any size of the buffer, and any number and length of losses.

### IPhoneTFT

`CacheStaysCoherent` and `TextStaysRight`, for any attributes, values and `Sent`:
the two invariants and the type invariant are inductive together.

### Only model-checked

- The liveness properties `SendReturns`, `DuePingServed`, `Delivered`,
  `SendBytesReturns` and `PhoneShown`: temporal reasoning with fairness and
  `ENABLED` is beyond the prover.
- The four runs that expect a violation.

## 6. Plan

Done: the modules above, with the refinements of section 2 and the composition
of `MainLoop` with the WiFi link; all their invariants, action properties and
refinements proved for all constants, but for what is listed above.

Left: the theorem about telemetry on its labels without `Overlap = FALSE`, which
needs a history of direct changes of transport; and the safety half of the
liveness arguments, such as that a frame under way in `BleManager` always has a
next step in some task.

## 7. Not modelled

- `iPhoneTouchScreen`: no file includes its header, and its copies out of a
  volatile struct (`Iphonetouchscreen.h:83`) do not compile; without a caller
  there is no interleaving to state.
- `sendCmd` of `WiFiManager`, `readRx` and `hasRxData` of `BLEManager`: no
  caller. `Graphics`' copies of rotation, cursor and text state: no reader.
- The MTU of a BLE connection: a chunk has any size up to `ChunkMax`, so that the
  252 bytes of `chunk[]` are not compared with it.
- The lifetime of an `AsyncClient` (`delete c` while another task is inside a
  call): below the granularity of the model.
- Most of start-up (`begin`, the wait for the station), the local TFT, what the
  demos draw, formatting (`TelemetryPrinter`), the legacy driver
  (`Display_iphone`), and the iPhone app beyond what the firmware expects of it.
