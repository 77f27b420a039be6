# A verification project for lwLIDAR

lwLIDAR is a ring of eight time-of-flight sensors (VL53L8CX, 8x8 zones each) on a
flexible board, an ESP32 that reads them sixteen times a second and sends what it
reads over Wi-Fi, and a program on a laptop that draws it.  This directory holds
TLA+ models of the parts of it that have a protocol, TLC configurations that check
them on small instances, and theorems that TLAPS proves for every size.  All paths
below are relative to the repository; `thesis.c`, `comms.c`, `networking.c` and
`motion.c` are in `src/Firmware/components/thesis`, `renderer.py` in `src/Software`,
`vl53l8cx_api.c` in `src/Firmware/managed_components/rjrp44__vl53l8cx/src`,
`lsm6dso_reg.c` in `src/Firmware/components/lsm6dso`, and `mdns_*.c` in
`src/Firmware/managed_components/espressif__mdns`.

## 1. Inventory

### The parts and how they interact

```
 sensors --I2C, INT--> LIDAR loop --commsPost--> queue --> comms thread --TCP--> offloader
 expander <--I2C-- bus bring-up     motion loop --commsPost-^     |                 |
                     LSM6DSO <--SPI-'                  networking (Wi-Fi)    server, parser
 app_main creates the three tasks          mDNS query, name <---mDNS--- registration
                                                                                    |
                                                                                 viewer
```

| part | state | operations | interacts through | what is hard | what makes it correct |
|---|---|---|---|---|---|
| Boot (`src/Firmware/main/main.c`) | three tasks on two cores | create the tasks | the queue exists only once comms_thread has run | order and length of the tasks' first waits; restarts that the devices do not see | nobody posts before the queue exists; a board that starts gets going |
| Bus bring-up (`thesis.c:31-64, 80-256`) | expander registers, each sensor's address and register page, the step | mux_init, mux_set, set_and_move_sensors, init_sensor | writes to shared devices that outlive the program | writes that fail and are not looked at; restarts in the middle; all sensors start at one address | no sensor ever has another's address; a clean boot ends with all of them found |
| LIDAR loop (`thesis.c:258-343`) | loop counters, semaphore, two timestamps | SYNC pulse, take, check, read, post | interrupt of sensor 0 gives the semaphore; driver calls; queue | the interrupt comes at any time; a frame may be replaced between check and read; failed reads | no frame twice, none skipped, the right timestamp, no stall |
| Sensor driver (`vl53l8cx_api.c`) | streamcount, temp_buffer, results, one set per sensor | is_alive, start_ranging, check_data_ready, get_ranging_data | I2C | an 8-bit count that wraps and has a reserved value; a byte swap in place; stale buffers | "ready" means a frame that has not been returned |
| Motion (`motion.c`) and the LSM6DSO driver (`lsm6dso_reg.c`) | last tick, channel; the sensor's bank, settings, outputs and flags | identify, reset, poll, configure, delay, read, post | SPI; the tick count; queue | an uninitialised tick, a return from a task, settings that outlive a restart, two bytes read one by one | a fixed rate from any start; the loop runs configured; a value is one sample, and new |
| Comms (`comms.c`) | queue of 100, message in hand, socket, pool of sockets | commsPost, query, connect, take, send | queue from two tasks; TCP; mDNS | dead connections, refused connects, a full queue, sockets never closed | at most once and in order; nothing lost while the connection lives; reconnects |
| Networking (`networking.c`) | retry counter, two event bits, a waiting caller | networking_connect, two event callbacks | the event loop's queue; the event group | events of two sources, late addresses, a counter two callbacks share | gives up when it should and not before; its caller gets an answer |
| mDNS queries (`mdns_querier.c`, parts of `mdns_service.c`, `mdns_receive.c`) | the chain of searches, an action queue, a timer | query, add, send, end, finish, free | a task that waits on a semaphore inside the search; a timer task; lwIP's thread | three tasks hold the address of a structure that one of them frees; a full queue; a 32-bit deadline | nothing is used after it is freed; every query returns, and not before its time |
| mDNS host name (`mdns_pcb.c`, parts of `mdns_receive.c`) | the interface's probing state, the host name | probe, announce, answer, collide, rename | multicast packets between boards | lost and stale packets, boards that vanish while they probe | boards that are done have different names |
| Offloader: server and parser (`renderer.py:64-213`) | listening socket, connection, line buffer, distances under a lock | accept, recv, split, handle a packet | TCP; the viewer reads under the lock | recv cuts the stream anywhere; exceptions end the thread; the connection ends | every message that arrives is parsed as itself; the next connection is accepted |
| Offloader: viewer (`renderer.py:232-390`, `geom.py`) | the scene | draw what the parser has | copies distances under the lock | none of its own | numeric |
| Madgwick filter | third-party, called by nothing | | | | |
| Boards and case (`src/Flex`, `src/Rigid`, `src/Mechanical`) | hardware | | pull-ups, interrupt line | | |

`fps_isr` and `fps_sem` (`thesis.c:26, 74-78`) are used by nothing, a statistics
message is prepared (`thesis.c:273-274`) and never posted, and `networking_disconnect`
is called only after an endless loop.

### Hazards

`PROJECT.json` lists each hazard at the line where it bites, with the properties
that watch it, or why none does.  The families are: stale or swapped bytes
judged after a failed read; an interrupt, a frame or a sample that arrives between two
steps; errors of bus writes that nobody looks at; a restart that the devices do not
see; tasks whose order nothing but their delays fixes; connections that die unnoticed;
a resource pool that only shrinks; event order in the retry logic; memory that one
task frees while others hold its address; packets of a state that is past; and a byte
stream cut in unexpected places.

Nine have no property.  The model has neither the length of the SYNC pulse (no clock) nor a
connection that vanishes without an end while the server reads without a timeout
(`renderer.py:191`; `TelemetryPath` assumes that the server's system notices).  The others
happen in the models, contradict nothing that the repository says, and are what the premises
of the neighbouring properties exclude (section 4): malformed packets that end the server's
thread, sensor 0 dead, a success that is reported of an address lost since, a board without
an LSM6DSO or with one in its embedded bank, the wrap of the mDNS clock, and an answer that
does not finish its search.

## 2. Plan

Done, in this order:

1. `RangingLoop` and its proofs.  It is what the whole system is for.
2. `CommsLink`, the abstract `TelemetryChannel` it implements, and the proof of that.
3. `SensorBus`, `Wifi`, `Offload`: the parts before and after.
4. `Motion` and `Boot`: the second producer of messages, and the start of all three tasks
   with the restarts.
5. `TelemetryPath`: `CommsLink` against the server that really answers it.
6. `MdnsQuery`, `MdnsName`: what the firmware asks of the mDNS component.
7. Proofs of every invariant and every action property that a passing run checks, and of the
   refinement, also for `TelemetryPath`.

Left: the driver's command polling (`_vl53l8cx_poll_for_answer`) with its timeouts; what
`TelemetryPath` adds to the state (`backlog`, `client`, `older`) has no theorem of its own.

## 3. The modules

| module | models | state | actions |
|---|---|---|---|
| `RangingLoop` | the endless loop of `thesis_flex_thread`, check_data_ready, get_ranging_data, int_isr | `pc`, `cycle`, `snum`, `tries` are the loop's; `sem` is int_sem; `streamcount`, `temp_buffer`, `vl_results` are the driver's, reduced to the first four bytes and what they mean; `acq`, `outN`, `outPulse` are the devices; `alive`, `primed`, `timely` are chosen at the start and never change; `spoilt` and `missed` count what was posted wrongly or not in time | `Pulse`, `Take`, `CheckDataReady`, `GetRangingData`; `Complete` is a sensor |
| `TelemetryChannel` | nothing in the code: what commsPost promises its callers | numbers of the messages on their way | `Accept`, `Refuse`, `Receive`, `Lose` |
| `CommsLink` | commsPost and comms_thread | `queue`, `rmsg`, `sock` as in the code, `sockets` the descriptors taken from the pool, `link` and `wire` the connection, `named` whether the offloader's name resolves | `Post`; `Start`, `QueryMdns`, `OpenSocket`, `Connect`, `Take`, `Send`; `Break` and `Deliver` are the network, `ComeOrGo` the offloader's process |
| `TelemetryPath` | `CommsLink` and `_read_loop`; extends `CommsLink` | `srv` is where the server's thread is (its process is off, or it binds, accepts, receives, has closed its socket, has ended), `client` and `backlog` its connections, each named by the board's socket, `older` what is still to be read of earlier ones | the board's actions of `CommsLink`, with `NewSocket` and `ConnectToServer` in place of two; `Bind`, `AcceptClient`, `ReadMessage`, `ReadEnd`, `AcceptFails`; `Quit` and `Launch` are its operator |
| `SensorBus` | mux_init, mux_set, set_and_move_sensors, init_sensor | `mux` the expander's three registers, `addr` and `page` per sensor | one action per write, `InitSensor`, `Restart` |
| `Wifi` | networking_connect, ip_event_cb, wifi_event_cb | `count` is wifi_retry_count, `bits` the event group, `events` the event loop's queue | `Start`, `WaitBits`; `OnStaStart`, `OnGotIp`, `OnDisconnected`; `Joins`, `ObtainsIp`, `Drops` are the driver |
| `Motion` | motion_thread, the functions of `lsm6dso_reg.c` it calls, vTaskDelayUntil | `pc`, `step`, `chan`, `last` (last_sample_tick), `low` are the thread's; `now` is the tick count; `bank`, `regs`, `resetting`, `out`, `ready`, `half` are the sensor | `Identify`, `Reset`, `Poll`, `Configure`, `Delay`, `ReadFlag`, `ReadLow`, `ReadHigh`; `Wake` and `Tick` are the kernel, `ResetDone` and `Sample` the sensor |
| `Boot` | app_main, the first waits of the tasks, restarts; extends `Motion` | `created`, `comms`, `queue`, `flex`, `wait` | `Create`, `CommsStarts`, `MotionStarts`, `FlexWaits`, `FlexPosts`; `Abort`, `Button`, `PowerCycle`; the actions of `Motion` |
| `MdnsQuery` | mdns_query_generic, search_finish, mdns_priv_query_start_stop, the action queue | `search` is memory, one slot per address, `s_search_once`, `queue` (s_action_queue), `now`; `due` and `walk` are the timer's callback, which holds the lock while `walk` is not empty | `Query`, `Return`; `Service` executes an action; `Tick`, `TimerLock`, `TimerVisit`; `Receive` is lwIP's thread |
| `MdnsName` | the state machine of `mdns_pcb.c`, the collisions of `mdns_receive.c`, mangle_name | `state` and `hostname` per board, `inbox` the packets on their way to it | `Enable`, `Disable`, `Reboot`, `HostnameSet`, `Transmit`, `Receive`; `Drop` is the network |
| `Offload` | _read_loop, _handleUpdateBuffer, _handlePacket | `buffer` is _buffer, `parsed` what was handed to the parser, `listening` the state of self.sock | `Bind`, `Accept`, `AcceptRaises`, `Recv`, `RecvEnd`; `BoardSends`, `BoardLeaves` are the board |

Each `MC` module extends its module for TLC; a `.cfg` gives the constants.  The
operators whose comment begins with "Mutant" change one definition as a slip in that
code would; every checked property fails under at least one of them.

### What was abstracted

*RangingLoop.* A frame is its number and the pulse that started it; its distances
are not kept.  A timestamp is the number of a pulse.  The stream count is kept, with
its wrap (`CountMod`) and the reserved 255, since the test for a new frame is on it.
After a failed read the driver judges bytes that an earlier read has left, perhaps
swapped: where the flag bytes then lie, the count could be anything, so the model
lets it be.  The same goes for what the loop finds in temp_buffer at its start
(`StartRanging`): the answers to start_ranging's own polls and reads, which are no frame's
header (`Other`).  Of a sensor that has never answered it is the zeros of a static
variable, which no check accepts.  Cores and priorities: the LIDAR thread has core 1 to itself, so
interleaving is with the devices only.  `timely` is the premise of the comment at
`thesis.c:310-312`: an acquisition ends after the reading of its cycle and before the
next pulse.  Which sensors are alive, whether start_ranging starts a frame, and `timely`
are variables that never change, so that one run covers all of them.

*CommsLink.* A message is its number.  The shape of the six kinds of message is left out.
The offloader's name comes and goes with its process; while nobody has it the thread stays
in its query loop (`comms.c:137`), possibly for ever.  A send to a connection that has died
unnoticed may be accepted by the stack. The offloader reads one connection to its end before
the next, so the bytes on the way are one sequence.  The pool of descriptors is
`CONFIG_LWIP_MAX_SOCKETS` of `src/Firmware/sdkconfig`, 10, smaller in the runs.

*TelemetryPath.* What the board sends is a sequence of messages here; how recv cuts it is
`Offload`.  The name is the process's: it is registered before the socket is bound
(`renderer.py:176`), it outlives the server's thread, which does not take it back, and it
goes when the operator quits.  listen(0) leaves room for one connection that is not
accepted.  The system resets what is left of a connection when its server closes or quits.

*SensorBus.* Addresses are 0 for the default and `i` for sensor `i`'s own; that the
eight constants of `thesis.h` differ is what `NewAddr` says.  Pages other than 0
are one value.  The upload of the sensors' firmware is part of `InitSensor`, whose
identification bytes are the same for all sensors, so that two that answer together
pass for one.  `PulledUp` is TRUE in the runs because the flex board ties the LPn
nets to IOVDD (R6, R30 in `src/Flex/sensor_board/production/netlist.ipc`).

*Wifi.* Events that are only logged are left out (lost address, connected, scan).
IPv4 and IPv6 addresses are treated alike by the code.  An address that was being
obtained may still be reported after the station has lost the access point, until
the event loop has come to that event.

*Motion.* A channel shows one value of two bytes, so that "between the low byte and the
high byte" is a place in the model; the accelerometer's and the gyroscope's other axes
are read in the same way.  A sample is its number and whether the gyroscope's scale had
been set.  Of the eight settings the four that a property tells apart are kept, with
the switches to the embedded bank and back that the two data rate functions make.  A
write is lost while the reset runs or while the other bank is selected.  The tick count
wraps at `W`, and the loop starts at any tick with anything in last_sample_tick.  A turn
of the loop takes at most `MaxLag` ticks, less than its period.

*Boot.* Core 0 runs app_main, then comms_thread, and motion_thread, of the lowest priority,
when both have ended or wait; core 1 runs the LIDAR task.  `MaxHog` bounds the ticks for
which system tasks keep the three off core 0; that it is less than the ten ticks of the
LIDAR task's delay is an assumption, named `BootAssumption`.  A task function that returns
aborts (`CONFIG_FREERTOS_TASK_FUNCTION_WRAPPER`), and the board restarts.

*MdnsQuery.* All queries ask for the same name and want one result, as `comms.c` does.
malloc may hand out an address again as soon as it is free.  The unit of time is the
timer's period.  What follows a use of freed memory is not described: the model stops.

*MdnsName.* A board has one interface, no services, and one packet scheduled at a time; its
address decides collisions, so a board is its address.  The names lwlidar, lwlidar-2, ... are
numbered.  Nothing is sent while an inbox is full (`Room`): scheduled packets are 120 ms apart
and more, which outlasts the delivery of all but the last few.

*Offload.* A byte is (message, place); the last place is the newline.  A packet
that begins like a message without being one either is parsed into wrong values or
raises an exception: the model allows both.  The log file is left out, the mDNS
registration is in `TelemetryPath`, and a port in use at the start is only waited for.

## 4. The runs

| run | shows | bounds |
|---|---|---|
| `ranging` | no frame posted twice before a read fails, however sensors publish, and then at most one spoilt message per failed read, in all; with sensors that keep the pace nothing skipped before a read fails, at most one frame lost per failed read over the whole run, and each frame a pulse started carries that pulse's time; the loop never stalls while sensor 0 lives | 3 sensors of which any one is dead, 4 cycles, counts 0-2, 2 tries, 2 failed reads |
| `ranging_first_stamp` | violation: the first cycle's time is whatever was on the stack | 2 sensors, 2 cycles |
| `comms` | order, at most once, no loss without a break, implements `TelemetryChannel`; once the name stays, it reconnects and drains, unless as many connects and connections have failed as there are sockets | queue 2, 6 posts, 3 breaks, 1 refusal, 3 sockets |
| `path` | violation: the server waits, the board is in its connect loop and never reaches it | queue 2, 2 posts, 3 sockets, 1 break |
| `bus_slip` | failed writes that stay apart (`LossesApart`, below) give no sensor a wrong address, "alive" is one sensor alone, a clean boot repairs what they left | 3 sensors, 3 boots, 3 failed writes |
| `bus_addresses` | violation: one failed write of the set-up and all sensors share an address | 3 sensors, 1 boot, 1 failed write |
| `wifi_retry` | gives up after the last retry and not before, never left idle otherwise, failures are real, the caller returns | 3 retries as in the code, 10 disconnects, 3 addresses |
| `boot` | the queue exists before anybody posts; the sampling loop runs with every setting made; values are one sample and new; at most one gyroscope message per start is of the wrong scale; from any uninitialised tick the loop comes to its rate, keeps it, and never sleeps longer than a period; a board that starts gets to its loop | tick count of 5, period 2, lag 1, 2 samples, LIDAR delay 2, core 0 busy for 1, 2 resets |
| `mdns_query` | no search is used after it is freed; none gives up early; every query returns | 2 callers, 2 addresses, queue of 2, timeout and resend of 1 period, clock of 4, 1 packet |
| `mdns_name` | a board is renamed at most once per board of a higher address; boards that are done have different names while fewer than three packets are lost; all get done | 3 boards, 1 packet on its way to each, 3 packets lost, 2 disconnections or restarts |
| `offload_stream` | distances messages alone: all parsed, whole, in order, wherever cut; with shorter ones among them: packets lost and merged, but no byte twice or out of order | 4 messages of 4 or 2 bytes, recv of 4, 1 end of connection |
| `offload_passed_on` | violation: a message received whole is joined to the next one | 4 messages, recv of 4 |

Why these bounds are enough: two live sensors are needed for one to publish while the other
is read, and a third for a dead one to be the first, the last or between them; with counts
0-2 four cycles pass the wrap; two tries and two failed reads let a check fail and still be
repeated in time, or miss its cycle; a queue of 2 with six posts fills and empties again;
three breaks leave three generations of connection on the way, and with a refusal they pass
the three sockets of the pool, so that it does run out; in `bus_slip` three boots allow one
that fails, one that is cut short and a clean one, and with three failed writes every
combination that `LossesApart` rules out is met, and those it allows in each boot; ten
disconnects run the retry counter out twice over with three addresses to reset it; a tick
count of 5 lets the loop wrap in every turn or two and start on either side of its wake
time; two resets leave the sensor in any step of its configuration and interrupt the next
start as well; two searches with two addresses let one be freed and allocated again while
the other is in the chain, and a queue of 2 fills with either's actions; three boards let
two collide while the third wins over both; a recv of 4 bytes holds two short messages, and
the next byte of the stream may begin a third.

`CHECK_DEADLOCK FALSE` is given where the bounds on posts, boots, samples, packets or failures,
the end of the server's thread, or a settled network leave nothing to do.

### What the violations mean

* `thesis.c:313` copies `prev_loop_tv` before it is set: the first eight messages
  carry an arbitrary time, although the comment above says it is correct.
* `thesis.c:37-49` ignores errors; one failed write leaves all sensors on the bus at
  once, and `thesis.c:243` takes their addresses to differ.
* `renderer.py:159` keeps the second line only of what recv returns.
* `path`: `renderer.py:211` closes the listening socket where the client's was meant, so
  the server accepts no second connection, while its name still resolves.  The board
  connects in vain, and each attempt takes a socket that `comms.c:145` only shuts down.
  When the operator has started the server again the pool is empty, socket() returns -1,
  and the board, in its connect loop, never reaches it.  The property speaks of a board
  that is in that loop, so an idle one that has not noticed the end of its connection does
  not violate it.  Closing sockets on the board would make it hold.  A server that goes on
  accepting would not quite: the board still spends a socket on every reconnection.

### What the passing runs leave out on purpose

The conditions of these properties are where the code has an edge that is known:

* `NoUseAfterFree`, `GivesUpLate` and `QueryReturns` hold while every answer is taken to the
  end of the parser (`~undone`).  An answer that is not authoritative, or is malformed
  behind its A record, is added to a search without finishing it.  If the timer queues
  the search's end after that and another packet finishes it first, the queued end
  finds a search that its caller has freed.
* `GivesUpLate` excludes a deadline beyond the wrap of the 32-bit clock and `QueryReturns` one
  that no later reading exceeds: `mdns_querier.c:144` compares `now > started_at + timeout`.
* `Resumes` excludes a start that finds the LSM6DSO in its embedded bank.  A restart between
  the two bank switches of a data rate function (`lsm6dso_reg.c:8305`) leaves it there;
  WHO_AM_I then reads another register, motion_thread returns, and the board restarts
  for ever, its LIDAR with it, until the power is cycled.  The same happens to a board
  without an LSM6DSO.
* `WrongScaleFirstOnly` allows one: the gyroscope's rate is set before its scale.
* `OwnAddressOrNone`, `AliveIsAlone` and `CleanBootFindsAll` suppose `LossesApart`: no write of
  the expander's direction or follow register fails, and if the selection of a sensor
  fails, then, in all the boots, none of the low levels, of a page 0 or of an address does.  Otherwise
  any number of writes may fail.  Each of these exceptions is needed: a select that fails
  after a lost address write, for instance, leaves the sensor before still enabled and
  still at the default address, and it takes the next one's.
* `Reconnects` and `Drains` suppose that the offloader's name comes to stay, and excuse a board
  whose socket pool is empty after as many failures as it has sockets.  In the run
  that happens, and without the excuse both are violated: it is the leak of `comms.c:145`,
  and ten failures are all it takes.
* `KeepsPace` allows turns without a delay at first.  "The loop now runs at a set frequency"
  (`motion.c:159`) is not true of them: with the uninitialised last_sample_tick of `motion.c:157`
  there may be as many as periods fit in the tick range.  It says that they end, that none follows
  once a call has delayed the thread, and that no call delays it longer than a period.
* `CyclesGoOn` supposes that sensor 0 lives.  Only its INT line is wired to the ESP32, so without
  it the thread waits at `thesis.c:316` for ever; that it posts nothing then holds by the wiring and is
  no property here.
* `FreshFrames` and `NoFrameSkipped` speak of runs in which no read has failed; what failed reads
  may cost is bounded by `OneSpoiltPostPerFault` and `OneFramePerFault`.
* `FailureIsReal` says nothing of a success: the event bits are never cleared
  (`networking.c:171`), and the address may be gone by the time its caller looks.
* `NamesDiffer` allows two lost packets; the run loses a third, so that the limit is met.  With
  three lost it does not hold: a board may lose all three of its probes, or their answers,
  and take a name that a board of a higher address has; that one answers probes only, so the
  announcements that follow change nothing.

## 5. Fairness

* `RangingLoop!FairSpec`: the thread moves when it can (it has a core to itself), and
  a live sensor ends the acquisition it has started.
* `CommsLink!FairSpec`: the thread moves, which includes that a query for a name that is there is
  answered in the end and that a connect returns (both have timeouts and are repeated), and what
  is on the wire is read.  Nothing has to be posted, no failure has to happen or stop (failures
  are bounded), and nothing is asked of the name: that it stays is a premise of the properties.
* `TelemetryPath!PathFairSpec`: the board's thread and the server's move (the port is free in
  the end, so bind works), and the server's system notices a connection that has ended.
  The operator need not start it again, and nothing need be posted.
* `Wifi!FairSpec`: both tasks move, and no attempt hangs in the driver: it ends in an
  address or a disconnect.  A DHCP server that never answers while the association
  holds is excluded by this; `networking_connect` would then wait for ever
  (`portMAX_DELAY`).  (`comms.c:74` says that it blocks until there is an address;
  it also returns, with ESP_FAIL, when it gives up, and its caller logs that and
  goes on.)
* `Boot!FairSpec`: tasks that can run do, time passes, and the sensor's reset ends.  Samples
  need not come, and no restart has to happen.
* `MdnsQuery!FairSpec`: the timer and a task whose semaphore has been given run.  The
  service task needs strong fairness because the timer's lock keeps it out again and again;
  the lock is a FreeRTOS mutex, and the service task waits in line for it.  `RoomAtTimes`
  asks that the queue is not full at every single visit of the timer after a deadline: packets
  that arrive faster than they are parsed for ever would keep a search from ending.
* `MdnsName!FairSpec`: interfaces come back, and boards send and read what is due.

`Offload` has no liveness of its own; `TelemetryPath` has it.

## 6. Proofs

Checked by TLAPS for every value of the constants that the named assumptions allow
(sizes are natural numbers, not zero where the code could not work; `MaxLag < Period`
and `MaxHog < FlexDelay` for the two races against a delay).  Type correctness is a
theorem for every module below; the rest, with the argument each turns on:

* `RangingLoopProofs`.  `FramesAreFresh` (an action property) and `CountsRemembered`: `IInv` is
  types, `DeadAreSilent` (a sensor that never started shows no count) and `CountRemembers`.  The
  last is the point: while no read has failed, the remembered stream count is the count of the
  frame posted last, except between a check that has announced a newer frame and the read that
  fetches it.  In that gap the sensor may publish again; the read then remembers what it really
  fetched (`vl53l8cx_api.c:754`), which restores the equality. `StampsAreRight` adds `Acquiring`
  and `Stamped`: a sensor shows the frame of the pulse before, and the two timestamps are those of
  the last two pulses.  It needs no premise on failed reads: what is newer than the last post was
  read from the sensor, whatever the bytes of failed reads passed for (`ResultsPosted`).
  `FaultsSpoilOnePost`: `SpoiltInv`.  A sensor is in debt (`SpoiltDebts`) when a failed read has
  left it a streamcount that is the count of no frame since the one posted last, or a read under
  way that may find nothing new; a sensor that is not needs another failure to spoil a message.
  Spoilt messages and debts together are never more than the failed reads: a failure either spoils
  a message or puts the one sensor it reads in debt, and a message spoilt without one settles a
  debt. `FaultsCostOneFrame`: `CostInv`, the same account for missed frames.  `MissedInv` adds up
  what has been missed, the sensors the loop has passed in this cycle without their frame
  (`Late`), and those that may miss one although no more reads fail, since their streamcount is by
  chance that of the next frame (`MissDebts`).  That a new frame is announced otherwise needs that
  two frames in a row never have the same count, which is a fact about `n % CountMod`
  (`NextCountDiffers`).  `NothingIsSkipped` is the case of no failed read.
* `CommsLinkProofs`.  `MessagesInOrder`: `InOrder` speaks of the concatenation of wire,
  message in hand and queue; what is inductive is `InOrderByParts`, the same told of the
  three and of pairs of them, so that each action disturbs a part or two.
  `NothingLostWhileUp`: `CountByParts` with `Connected` (before the first break the thread only sends
  into a connection that is up).
  `ImplementsTheChannel`: the mapping takes the channel's
  messages in transit to the elements of the three sequences.  A post is `Accept` or,
  against a full queue (whose messages witness `Refuse`), `Refuse`; a failed send and
  a break are `Lose`; a delivery is `Receive`, of the smallest number by the order
  just proved; all else stutters.
  `PathImplementsTheChannel` and `MessagesInOrderOnThePath` say the same of `TelemetryPath`
  without its fairness: each of its steps is one of `CommsLink`, a connect that nobody
  answers, or the stop of a server, which empties the wire (`PathSteps`); the last is
  `Lose`.
* `SensorBusProofs`.  `OwnAddresses`, `AliveAlone`, `CleanBootRepairs`: whatever the number of
  failed writes, under `LossesApart` `SlipInv` says that the expander drives its pins from its
  set-up on (`Driven`), that every sensor has the default address or its own (`OwnAddress`), that
  whoever else hears the bus while a sensor is moved has been moved before (`OthersMoved`), which
  a failed select leaves true because the sensor that was enabled before it has moved
  (`HighMoved`), and what a boot without failures has established at each step (`CleanTurn`,
  `CleanEnd`).
* `WifiProofs`.  `IdleMeansGivenUp`, `NotGivenUpEarly`, `FailuresAreReal`: `WInv` says that at
  most one attempt is starting (`OneStarting`), that an idle station has an event on its way that
  will start one (`IdleWaits`), that the counter never runs ahead of the disconnects in a row,
  unless an address is still to be handled that will reset it (`CountedInStreak`), and that the
  failure bit is set only when the retries ran out (`GivenUpReally`).
* `BootProofs`.  `QueueBeforePosts`: `StartOrder`, in which the LIDAR task's ticks beyond `MaxHog`
  come only after comms_thread has waited.  `LoopIsConfigured`: `ConfigInv` gives the bank and the
  settings made at each register write; what an earlier start left is gone because the writes
  begin only after a reset has ended.  `MessagesAreWhole`: `DataInv`, a raised flag means an
  output not yet posted, and between its bytes the sensor holds it, because of the block data
  update that `ConfigInv` says is set. `ScaleIsRight`: `ScaleInv`, a sample from before the scale
  waits for the first message only. `PaceIsKept` (an action property): once paced, the ticks since
  the wake-up the thread last asked for are its lag, modulo `W`, while it runs, and none while it
  is blocked before it (`PaceInv`); the lag is below the period, so the next wake-up is always
  ahead.  That it is no more than a period ahead holds of the first call too, from any tick.
* `MdnsQueryProofs`.  `NothingFreedIsUsed`: every search in the chain and every one with a queued
  "add" or "end" is waited for and not done; one with a queued end is off and in the chain, so
  that an answer passes over it, and neither is queued twice for one search (`Held`).  A freed
  address can be left in a queued "send" only, and that one is looked up in the chain.
  `NoQueryGivesUpEarly`: `LateInv`.  Until a search is late its age is what the clock says
  (`Aged`), so only a late search, or one whose deadline wraps, is switched off by the timer; it
  is done only when it is off; and no two callers wait for one structure (`Alone`), so that an
  address that is allocated again starts a new age.
* `MdnsNameProofs`.  `NamesByRank`: the bound on names has to be said of the packets on their
  way as well, with the sender's rank: a host is renamed only by a host of a higher address,
  which had that name and so a smaller number left.
  `DifferentNames`: for two hosts of one name, the higher of them past probing, count the chances the
  lower one has left to hear of the other: the other's announcements still to be sent,
  its own probes still to be sent (the other answers them), and either kind on its way.
  `ChanceInv` says that these are three at least, less the packets lost.  A chance that is
  not lost turns into a packet on its way and at last into one that makes the lower host
  give the name up; two hosts that are done and have read everything have none left.
* `OffloadProofs`.  `BytesKeepTheirOrder`: `OrderInv`, the bytes of the packets, the buffer
  and the stream, one after the other, are in the order they were sent; what the parser
  drops is cut out of the middle.  `MessagesAreWhole`: `WholeInv` adds to `ParsedWhole` what
  the stream looks like (no gap up to a newline, after it the next message, at its end
  a newline).  When no message is shorter than what recv returns, a piece holds at
  most one newline, so nothing is dropped and the line that is kept is the beginning of the
  next message.

Only model-checked: liveness (`CyclesGoOn`, `Reconnects`, `Drains`, `ConnectReturns`, `QueryReturns`,
`Settles`, `Resumes`, and in `KeepsPace` that the loop comes to its pace at all), which rests on
fairness and ENABLED and is beyond the prover.  Every invariant and every action property
of the passing runs is a theorem.
No module here declares a RECURSIVE operator.

## 7. Not modelled

* The rate of the LIDAR loop: no clock.  Where the code relies on time (sensors that are
  ready by the time the loop comes to them, `thesis.c:317`) the model has `timely`.
* The vendor's firmware download, calibration commands and their polling
  (`_vl53l8cx_poll_for_answer`), and the result arithmetic of `vl53l8cx_api.c`: they run
  once, before the loop, and whatever comes of them is the "alive" of `SensorBus`.  Nine
  tenths of that component's lines are the images in `vl53l8cx_buffers.h`.
* `lsm6dso_reg.c` and `.h` beyond the functions `motion.c` calls: several hundred register
  accessors without state of their own, called by nothing.
* mDNS: the browser, the asynchronous API, services and subtypes, delegated hosts, the
  console, IPv6 and the codec of the packets.  The firmware calls mdns_init, mdns_hostname_set
  and mdns_query_a only; whether a name resolves is an action of `CommsLink`.
* `geom.py` and the drawing; the Madgwick filter, which nothing calls: data, no protocol.
* Failures of `snprintf` sizes: the longest message is 64 values of at most six
  characters and a header, well inside the kilobyte of `comms.c:19`.
