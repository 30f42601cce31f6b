# Verification of ThB_EspNow_GW

TLA+ models, TLC configurations and TLAPS proofs for the ESP-NOW sensor network
of this repository: battery sensors that broadcast a temperature every five
minutes, a dongle that shows the temperatures of two of them, and a gateway that
forwards packets to ThingsBoard, from which it can be updated. Paths below are
relative to the repository.

## 1. The system

One source tree, five firmwares (`platformio.ini`), chosen by build flags in
`src/___main.cpp`: the sensor (`ESP_SENDER`), the dongle (`DONGLE_RECEIVER`), the
gateway (`ESP_THB_GW`) and two bench tests.

```
 sensor                        dongle / gateway
 senderSetup()                 loop task                  WiFi task (driver)
   tsReadDallas()                receivePacket() <-radioQ<- OnDataRecv() <- air
   getVcc()
   sendPacket() -> driver -> air
   deepSleep()                 dongle:  LED, screen, button
                               gateway: ThingsBoard client -> PubSubClient -> TCP
                                                            timer task (OTA watchdog)
```

| Component | State it keeps | Operations | Interacts through |
|---|---|---|---|
| Sensor, `src/_sender.cpp` | RTC memory: `vccMv`, `vccCntr`, `tempErrCount`, `espPacketID` | one boot: read, measure the battery, send, sleep | the board's pins; `sendPacket()` |
| Sensor board, `lib/utils/tcu_board.cpp` | pin levels, pin holds (they outlive deep sleep) | `boardInit`, `boardShutdown`, `tsReadDallas` | the sensor |
| Radio, `lib/espRadio/espRadio.cpp` | `wasRadioInit`, `receiverWasStarted`, `radioQ`, the queue | `initRadio`, `startReceiver`, `receivePacket`, `OnDataRecv`, `sendPacket` | two tasks share the queue; frames on the air |
| Packet, `lib/espRadio/espPacket.*` | fields of `tEspPacket` | `addString`, `addNumeric`, `erase` | copied as bytes through the air |
| Dongle, `src/dongle.cpp` | readings, arrival times, histories, LED, screen, backlight | the seven calls of its main loop | `receivePacket()`, button, `millis()` |
| Gateway, `src/gw_main.cpp` | WiFi status, `previousDataSend` | `gwLoop`: reconnect, forward, `tb.loop()` | `receivePacket()`, the ThingsBoard client |
| MQTT session, `lib/PubSubClient` | `_state`, `pingOutstanding`, `lastInActivity`, `lastOutActivity` | `connect`, `connected`, `publish`, `loop` | one TCP connection |
| ThingsBoard client, `lib/ThingsBoard/src/ThingsBoard.h` | vectors of callbacks, `m_request_id`, subscriptions | requests, subscriptions, dispatch of messages | MQTT topics; callbacks into the application |
| OTA update, `OTA_Handler.h`, `Callback_Watchdog.cpp`, `HashGenerator.cpp`, `Updater.cpp` | the chunk wanted, retries, the hash, the flash partition | start, chunk, retry, finish, stop | MQTT; the ESP timer's task; the boot loader |

What is hard here and out of a bench test's reach:

* **Interleaving.** `receivePacket()` and `OnDataRecv()` run in different tasks,
  before, during and after a set-up that can fail half-way. The OTA watchdog asks
  for a chunk again in the task of the ESP timer, beside the loop task that
  stores the one that came late.
* **Limits.** A full queue blocks the WiFi task for up to 1000 ticks and then
  drops; nothing reports it. A vector of callbacks has room for eight.
* **Time.** All times of the dongle are differences of a 32-bit `millis()`, taken
  in one call of the loop and used in others, with a wait for the button between.
  The keep-alive of the MQTT session is tested before what has arrived is read.
* **Deep sleep.** What is in RTC memory and which pins are in hold decides what
  the next boot does; a reset at any point loses the one and perhaps not the other.
* **Connections.** WiFi, TCP and MQTT come and go one without the other; what was
  written to the last connection may arrive after its end.
* **Partial failure.** Sensors, driver calls, sends, single attributes, flash
  writes fail one by one, and most results are ignored.

What makes each component correct: the radio returns what was broadcast, in
order and at most once; the dongle never uses an old reading, shows an alarm in
time whatever the other site does, and reacts to a press once; the sensor sends
measured values, tells losses by its numbers, and sleeps dark; the gateway
forwards each packet at most once and in order, notices a dead link, keeps a good
one, and comes back from every disconnection; the client calls the callback that
waits, and stays subscribed as long as one does; an update never leaves anything
but a whole image under a valid header, and comes to an end.

`PROJECT.json` lists every component with its status and every hazard with its
source line and the properties that cover it.

## 2. Modules

| Module | What it is | Code |
|---|---|---|
| `EspRadio` | the receiving radio: loop task, WiFi task, air | `espRadio.cpp` 15-80, 111-161 |
| `LossyFifo` | an ordered channel that may lose; what radio and gateway promise | abstract |
| `TempHistory` | the history array as operators | `dongle.cpp` 52-115 |
| `HistoryLog` | one history beside the log of all readings | as above |
| `Dongle` | the dongle's main loop, with `TempHistory` inside | `dongle.cpp` 117-395 |
| `Sender` | the sensor's boot cycle with its board and `sendPacket` | `_sender.cpp`, `tcu_board.cpp` 16-113, `espRadio.cpp` 82-109 |
| `Network` | sensors, air and dongle together; extends `Dongle` | as above |
| `Gateway` | `gwLoop` over WiFi and the MQTT session | `gw_main.cpp`, `PubSubClient.cpp`, `ThingsBoard.h` |
| `TbClient` | requests, subscriptions and callbacks of the client | `ThingsBoard.h` |
| `OnceAnswered` | requests that are answered once or lost; what the client promises | abstract |
| `Ota` | the firmware update, two tasks, flash, boot loader | `OTA_Handler.h`, `Callback_Watchdog.cpp`, `HashGenerator.cpp`, `Updater.cpp`, `ThingsBoard.h` |
| `MC*` | constants for TLC | |
| `*Proofs` | theorems and proofs: `EspRadio`, `TempHistory`, `HistoryLog`, `Dongle` (with `Network`), `Sender`, `Gateway`, `TbClient`, `Ota` | |

Definitions whose comment begins with "Mutant of X" are X with a plausible bug;
no specification uses them. They record which mistake each property would catch.

### EspRadio

The loop task's `receivePacket()` is cut where the WiFi task can interleave:
`InitRadio`, `CreateQueue` and `RegisterCb` (the two halves of
`startReceiver()`), then `ReceiveOne` or `ReceiveTimeout`. The WiFi task takes a
frame from the driver (`OnDataRecv`) and is inside `xQueueSend()` until
`QueueSend` or `QueueSendTimeout`. `Broadcast` is the air: a frame is heard or
not. Driver calls fail up to `MaxFaults` times. Each failed registration leaves a
queue behind, as the code does; `queues` keeps the content of every one of them.

*Abstractions.* A frame is its position on the air and its protocol id. Ticks are
not counted: a bounded wait may end whenever what it waits for is missing. The
assumption `HeapAssumption` (the heap has room for one queue more than driver
calls fail) is what the code relies on by not testing `xQueueCreate()`.

### TempHistory, HistoryLog

`AddToHistory` is the loop that shifts the array, `FindInHistory` the pass for
minimum and maximum: a recursive function of the slots passed, each of which may
`Widen` the range. `HistoryLog` keeps all readings in a history variable and
compares.

### Dongle

One action per call of the loop; `pc` is the next call. The wait inside
`processButton()` is the action `Hold`, one poll a step, so that the button and
the time can change meanwhile. `millis` wraps at `MILLIS_RANGE`; `Since` and
`After` are the unsigned arithmetic. Time passes only where the code waits: one
poll, the debounce delay, `xQueueReceive()`, and the final `delay(30)`, to which
`CPU_MS` adds what the rest of an iteration costs. The history variables `age`,
`sinceToggle`, `drawnAgo`, `shownAge` measure true time. `Sites` replaces the
code's duplication for `top` and `bot`; a colour choice that the code writes as
overriding `if`s is `LedZone` and `FontColor`.

*Abstractions.* Of the screen, the number, its colour and its range are kept; the
"m ago" and voltage texts, the layout and the brightness tables are not.
`receivePacket()` is a packet of one of the sites or none after at most
`RX_WAIT_MS`; that it can be nothing else than what was sent is `EspRadio`'s part.

`TimeAssumption` is what the arithmetic needs: the clock's range is larger than
each limit plus one iteration, and the longest wait for the button is not longer
than the time after which the display turns off. Both hold by far in the code
(2^32 ms against 900000 + 3240 ms; 3000 against 15000).

### Sender

One action per call of `senderSetup()`; `ReadTemp` is one measurement, repeated
as the code does. `held` is the set of pins in hold, and a write to one of them
changes nothing; that is how ESP32 pads behave through `rtc_gpio_isolate()` and
`rtc_gpio_hold_dis()`. `driver` is the frame that `esp_now_send()` has queued:
`Transmit` may send it until `Shutdown`, which loses it. `Reset` (power loss or
panic) may come at any time, restores the RTC variables and keeps or clears the
holds.

*Abstractions.* A temperature is good or bad (out of range, or exactly 25.0, which
the code treats alike). `firstBoot` chooses a delay only and is left out, as are
all delays. GPIO 22, which is released but never isolated, is left out.
`espPacketID` is an int in the code; it is kept modulo the 16 bits that reach the
packet.

### Network

Extends `Dongle`: its `processReceiver()` takes what the sensors have sent. A
sensor is a cycle of `SLEEP_MS` and at most `AWAKE_MS`; in each, one packet gets
through or is lost, at most `MAX_MISSED` of one sensor in a row. Time passes in
the dongle's steps. `NetworkAssumption` says what the constants of the two
programs owe each other: a cycle is longer than packets wait in the queue, and
`MAX_GAP`, the longest time a reading may be old when it is tested, does not
exceed `TEMP_LIFE_TIME_MS`. With the program's numbers, 300 s and 900 s, that
holds for one lost packet in a row (2 x (300 s + awake) and a few seconds) and not
for two (3 x (300 s + awake) > 900 s). The bound is tight: with a life one unit
shorter TLC finds a working sensor shown as unknown.

### Gateway

One action per call that can fail or wait: `Delay`, `Reconnect`, `InitWait` and
`InitTry` (the loop of `InitWiFi()`), `Session` (`tb.connected()`), `Connect`,
`AwaitConnack`, `SendMac`, `SendStatus`, `Receive`, `Forward` (one parameter of a
packet a step), `Loop`. The state of `PubSubClient` is its own: `connected()`
closes what it finds broken, `publish()` fails without that anybody asks, `loop()`
tests the keep-alive and then reads one message. `link` is what TCP is: `dead` is
broken without that the gateway can know, and a write to it seems to succeed.
`old` is what a closed connection had written and may still deliver, until the
broker accepts the next CONNECT of the same client.

*Abstractions.* A message is its kind, parameter and packet. The five attributes
about the gateway, and its MAC address, are one. Ages stop at `AGE_MAX`. The
RPC and attribute handlers of `gw_main.cpp` are dead code: their subscriptions
are commented out. `AnswerAssumption` is what the keep-alive relies on: a good
broker answers a ping within `KEEPALIVE` less one iteration.

### TbClient

`MakeRequest` registers a callback, subscribes the topic of the answers and
publishes; the callback stays registered when the publish fails, as in the code.
`OnMessage` calls the first callback with the id, `Returned` removes it and
unsubscribes when it was the last; between the two, the callback may make
requests. `AddCallback` and `DropCallbacks` are the permanent ones, which
`Connect` subscribes again (`Resubscribe_Topics()`). The server answers in any
order; a session is clean, so its subscriptions and answers go with it.

*Abstractions.* What a message says is left out, and callbacks make requests only.

### Ota

The loop task handles what arrives (`ReceiveChunk`, `Begin`, `WriteChunk`,
`HashChunk`, `Progress`, ...), the task of the timer what `Timeout` starts; both
share `Verdict`, `RequestFirst`, `RequestNext`, `PublishRequest`, `Arm`, `Finish`. They are cut where one
task reads what the other changes. A chunk is a version and an index, a hash the
sequence of what went into it: an image is accepted if that is the image's own
sequence. `flash`, `buffered` and `slot` are `Updater.cpp`'s and the partition;
`enabled` is the first byte of the header, written last; `Reboot` is the boot
loader, after a success, a panic or a power loss at any step.

*Abstractions.* All firmwares have one size; a chunk fits a sector. A null pointer
followed is `panic`, until the restart. Malloc failures, the MD5 that nobody asks
for and the messages about the state of the update are left out.

## 3. Runs

| Run | Bounds | What it shows |
|---|---|---|
| `radio` | queue 2, inbox 2, 6 frames of two protocols, 2 faults, heap for 3 queues | order, no duplicates, no NULL queue, no stranded packet; refinement of `LossyFifo`; the WiFi task leaves the callback; what is queued is returned while the loop polls |
| `history_log` | array of 3, 5 readings | array and range against the log |
| `dongle_timing` | one site, clock of 12, life 4, display 4, hold 3, screen 2, two temperatures | expiry, screen, backlight, button |
| `dongle_sites` | two sites, three temperatures, clock of 6 | alarm, colours, ranges with the sites interfering |
| `sender` | measured every 4th boot, numbers mod 4, errors mod 5, 2 resets | voltage, errors, numbers, pins across sleeps and resets; the board gets back to sleep |
| `network` | one site, clock of 13, life 9, sleep 3, awake 1, one loss in a row | a working sensor is never shown as unknown |
| `gateway` | 2 parameters, queue 1, keep-alive 2, socket timeout 2, 2 packets, 2 messages in flight, 2 faults | order of the protocol, `deviceName` first, dead links, false timeouts; refinement of `LossyFifo`; session rebuilt, queue served |
| `tbclient` | room for 2 callbacks, 3 requests, 1 permanent callback of each kind, 1 fault, 3 messages in flight | the callback that waits is subscribed, is in flight, and is called |
| `ota_safety` | 3 versions of 4 bytes in chunks of 2 (the last chunk is empty), 1 retry, 1 stop, 2 assignments, 1 fault | headers, watchdog, pointers |
| `ota_ends` | 3 bytes, 1 retry, 1 stop, 1 assignment, 1 fault | an update of a firmware that fits ends |
| `ota_too_large` | no firmware fits, no faults | **violation** of `UpdateEnds` |
| `ota_stopped` | the buffer holds a chunk already, 1 stop, no faults | **violation** of `StoppedIsQuiet` |

*Why the bounds are enough.* Six frames fill a queue of two, the inbox and the
callback, overflow, and still leave frames behind the loss; two faults let
initialisation and registration both fail, or one of them twice. Five readings
shift a history of three until nothing of its start is left. The dongle's clock is
larger than the assumption requires by one or a few units only, so that it wraps
during every wait and reading; its runs have no bound on behaviours: the state
space closes by itself. Three temperatures reach each zone, with the red one of
one site beside each state of the other. The sensor's counters wrap within four or
five boots, which is more often than between two measurements of the voltage, and
only resets are bounded. The network's life is the tightest that its assumption
allows. Two faults of the gateway are two broken links in a row, so that what an
old connection wrote meets the next one; it was also checked with a longer
keep-alive and iteration, and with three parameters and three messages in flight.
Two callbacks fill a vector of the client while a third request waits; the
permanent ones are dropped all together, so one of each kind shows what several
would. Two assignments of different firmwares (which are alike, hence the symmetry
of the safety run) let chunks of the one arrive during the other,
and one fault at each step covers each place a write, a publish or the power can
fail in.

Deadlock is checked everywhere but in `HistoryLog`, whose log ends at
`MaxReadings`.

*Fairness.*

* `EspRadio!FairSpec`: FreeRTOS runs the driver's task, which has a higher
  priority than the loop, and its wait in `xQueueSend()` is bounded. That the loop
  task polls is a premise inside `QueuedIsDelivered`: the gateway does not while it
  connects.
* `Sender!FairSpec`: the program runs on and the sleep timer fires; the driver
  (`Transmit`) has no fairness.
* `Gateway!FairSpec`: the loop goes on, the broker reads; the access point answers
  again and again, and not only in the last of the waits, whose association
  `WiFi.begin()` throws away (hence strong fairness of `Associate` outside of it).
* `TbClient!FairSpec`: messages are read, callbacks return, the server answers.
* `Ota!LiveSpec`: both tasks go on, the timer fires, the server answers. With
  `PromptTimer` the server takes longer for a chunk than a callback of the timer
  runs, without which a late chunk and a retry can follow each other for ever.
* `Dongle` and `Network` state no liveness and assume no fairness.

### Disagreements with the comments

* `ota_too_large`: `begin()` fails for a firmware that does not fit, and
  `Handle_Failure()` starts the update again, which sets `m_retries` anew
  (`OTA_Handler.h:212`), so it never gets to the end that the comment on it
  (`OTA_Handler.h:277`) has: that without retries left the update is aborted.
* `ota_stopped`: `Stop_Firmware_Update()` clears `m_fw_callback`
  (`OTA_Handler.h:129`), which a chunk already on its way then follows, while the
  comment (`OTA_Handler.h:120`) says that ongoing communication is discarded. It
  needs an MQTT buffer that holds a chunk without being enlarged for the update.

### Other observations

Met while modelling; the models follow the code.

* A request whose answer is lost with its connection leaves its callback for ever.
  After as many losses as the vector has room for, every request fails.
* RPC callbacks are chosen by a prefix of the name (`strncmp`), though the comment
  speaks of the method with the given name.
* `Provision_Unsubscribe()` comes after the callback, and drops a request that the
  callback made. `TbClient` does not include provisioning.
* A second assignment after an update is refused until the application subscribes
  again; one that comes during the update leaves the MQTT buffer enlarged.
* The dongle shows -127, the mark of a failed measurement, as a temperature.

## 4. Proofs

For all values of the constants that the modules' assumptions allow:

* **`EspRadioProofs`**: `RadioTypeCorrect`, `QueueNeverNull`, `NothingStranded`,
  `ReceivedInOrderOnce`, and the refinement `RadioRefinesLossyFifo`. The inductive
  invariant is `RadioInv`. `RadioControl` says how far the set-up has got and
  counts queues against faults (without it, nothing excludes a NULL handle);
  `RadioOrder` says that the packets returned, the queue, the callback's frame and
  the inbox are one line in the order of the air (the property itself speaks of
  what was returned only, and is not inductive).
* **`TempHistoryProofs`**: `FindIsRange`: what `findInHistory()` returns is the
  smallest and the largest filled slot, for an array of any size, and `NO_TEMP`
  twice if none is filled. The induction on the slots cannot cite the library's
  principle, which takes an operator; `SetInduction` proves it for a set of numbers
  instead, and the pass is the function that `PassExists` builds.
* **`HistoryLogProofs`**: `LogTypeCorrect`, `HistoryIsLastReadings`, which is
  inductive as it stands, and with `FindIsRange` `RangeIsOfLastReadings`.
* **`DongleProofs`**: `DongleTypeCorrect`, `ReadingsStayFresh`,
  `ShownStaysFresh`, `DisplayGoesDark`, `AlarmReachesLed`, `ButtonTogglesOnce`,
  `NumbersKeepTheirColour`, `RangesHoldTheirNumber` and the whole `DongleInvariant`.
  `ClocksAgree` says that the wrapped differences the code computes are true times.
  That is inductive only together with `WithinLimits`, which bounds every true time according to `pc`: a
  difference larger than the clock's range would be taken for a small one. The
  colours rest on `ColourOnItsWay`: from the call that chooses a colour to the one
  that draws with it, nothing changes the temperature it was chosen for. The ranges rest
  on `RangeOnItsWay`: a reading that has not expired is the newest of its history,
  which `processReceiver()` changes together and `updateTemp()` cannot set apart.
  Of `Network`: `WorkingStaysKnown`, for any number of sensors, of losses in
  a row and any clock. The invariant `NetInv` bounds the age of a reading by its
  sensor's cycles (`AgeInCycles`) and the wait of each packet by its place in the
  queue (`QueueInTime`). `NetImplementsDongle` says that every behaviour of `Network`
  is one of `Dongle`, so that all of the above holds among real sensors too.
* **`SenderProofs`**: `SenderTypeCorrect`, `VccStaysRecent`, `SensorIsPowered`,
  `SleepIsDark`, `BadTempIsCounted`, `GapsTellLosses`, `SenderInvariant`. They rest
  on `VccCounted` (the code's counter of boots against the true one), `PinsInOrder`,
  `RemeasuringsCounted` and `NumbersInOrder`, and on lemmas about sums that wrap.
  `SleepIsNear` is the part of `SleepsAgain` that is not fairness: `StepsToSleep`,
  at most 15, decreases with every step of a boot that no reset ends, of the
  program and of the driver.
* **`GatewayProofs`**: `ConnectComesFirst` from `SessionOK` (what the two ends know
  of a connection); `NameStaysAhead` from `LineInOrder`, `SentSoFar` and
  `PacketsOK` (messages that may still arrive are in the order of the packets, and
  each has the lower parameters of its packet before it or delivered);
  `DeadLinkIsNoticed` from `SilenceCounts` and `SilenceIsReal` from `AnswerInTime`
  (where ping and answer are, and how old each age can be then); the refinement
  `GatewayRefinesLossyFifo` from `NameOnce`; together `GatewayInvariant`.
* **`TbClientProofs`**: `AwaitedStaysHeard` and `WaitingStaysInFlight` from `TbInv`.
  Neither property is inductive alone. That a topic is not unsubscribed under a
  request needs `WaitingIsSomewhere` (the vector is empty only when no request is
  on its way), which needs that numbers are unique (`CallbacksHaveIds`,
  `MessagesGoOnce`) and that a request is in one place (`OnePlace`).
  `StaysSubscribed` says that a topic is subscribed at every point of what the
  broker has still to read, not only at its end. `ClientAnswersOnce` is the
  refinement of `OnceAnswered`: a callback is called at most once, only for a request
  that was made and not lost; its invariant `CalledAreDone` says that what was
  called has nothing on its way. Both were checked by TLC, with two faults, beside
  the run.
* **`OtaProofs`**: `OnlyWholeImagesBoot`, `UpdatesAreWatched`, `RunningNeverPanics`,
  `HeaderIsTakenFirst` from `OtaInv`. Its core is `StoredIsHashed`: unless the hash
  was spoiled, what is in flash and buffer is what went into the hash, or more than
  an image has room for, which no interleaving of the two tasks undoes.

Model-checked only: the liveness properties (`CallbackReturns`,
`QueuedIsDelivered`, `SleepsAgain`, `SessionIsRebuilt`, `QueueIsServed`,
`AnswersArrive`, `UpdateEnds`), since the prover handles neither fairness nor
ENABLED here. Every invariant and action property that a passing run checks is a
theorem.

## 5. Done, and what would come next

The radio, the dongle, the sensor and the network came first, then the gateway
with its session, the client and the update. What would come next, in this order:
a model of the packet codec (truncation, byte-sized lengths, reuse of a packet
without `erase()`) against a reference round trip; provisioning in `TbClient`;
`Gateway` and `EspRadio` in one module, with `radioQ` filling during
`InitWiFi()` under the bounded wait of the callback; a second assignment whose
subscription fails, in `Ota`.

## 6. Not modelled

* `tmp/` (older copies of the program and its libraries that no environment
  builds), `examples/`, `dashboard.json`: no part of the program. They are most of
  the lines of the repository.
* The gateway's LEDs, the bench tests, the preferences (`load()` does nothing), the
  ADC register and the conversion of the battery reading, log output.
* Of `PubSubClient`: the bytes of a message, streams, QoS 1, the will, and its
  subscriptions (they are in `TbClient` as messages). Of the ThingsBoard client:
  provisioning, claiming, the HTTP client, the JSON.
* Of the update: an assignment back to the running version while another update is
  under way. The running version stays assigned, so a restart follows, and
  `OtaEnds` has one assignment.
* `OnDataRecv()` copying a whole packet from a shorter frame, the lengths of a
  packet's texts that are cut to a byte, the overflow of
  `espSenderIntervalS * US_FACTOR` above 2147 s (excluded by `SleepAssumption`), the
  channel that the radio follows to the access point, the buffer of `PubSubClient`
  that the timer's task writes while the loop task reads, and the hash whose memory
  a restarted update does not free are noted as hazards; no model shows them.

## 7. Running

```
tlc -config EspRadio.cfg MCEspRadio.tla     # any run of section 3
tlapm DongleProofs.tla                      # any *Proofs module
```

With two workers a run takes seconds to two minutes; the proofs together take
longer than all the runs.
