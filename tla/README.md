# iot-pi in TLA+

Specifications, model checks and proofs for the programs of this repository:
battery nodes on a LoRa radio (`Arduino/*/*.ino`), the RadioHead library they
are built on (`Arduino/libraries/RadioHead`), the gateway board on the
Raspberry Pi's USB port (`transceiver.ino`) and the Pi's script between the
gateway, an MQTT broker and an HTTP API (`python/listen.py`).

## Inventory

| Part | State | Operations | Interacts with |
|---|---|---|---|
| RF95 driver (`RH_RF95.cpp`, `RHGenericDriver.cpp`, `RHSPIDriver.cpp`, `RHDatagram.cpp`) | `_mode`, `_buf`, `_bufLen`, `_rxBufValid`, `_rxHeader*`, `_cad`, counters; the radio's registers and FIFO | `available`, `recv`, `recvfrom`, `send`, `waitPacketSent`, `waitCAD`, `setModeIdle`, `sleep`; `handleInterrupt` | the program's thread and the DIO0 interrupt share all of its state |
| valve node (`simple_motor.ino`) | `valveStatus`, the motor's pin, the radio | `setup`, `loop`: a reading every ten seconds, one received command per turn | the air; GPS on Serial1 |
| gateway (`transceiver.ino`) | the radio, the text read from the Pi | `loop`: radio to serial, serial to radio | the air; the Pi's serial port |
| Pi (`listen.py`) | the serial port's buffers, the MQTT client's queue | `on_message` (client's thread), main loop | MQTT broker, gateway, API |
| flow node (`water_flow.ino`) | `pulseCount` shared with its interrupt, `flowRate`, totals, readings since a report | `loop`, `readSensors`, `readFlow`, `pulseCounter` | the clock, the meter's interrupt |
| thermometer, magnet, gps nodes (`*.ino`, `DHT.cpp`) | times of the last report and reading, the contact's last level; the DHT library's last measurement | `setup`, `loop`; `DHT::read` | the clock, a sensor |
| reliable datagrams (`RHReliableDatagram.cpp`) | sequence number, last id seen per sender | `sendtoWait`, `recvfromAck` | two nodes over a lossy channel |
| router (`RHRouter.cpp`) | routing table | `addRouteTo`, `getRouteTo`, `deleteRouteTo`, `retireOldestRoute`, `route`, `recvfromAck` | reliable datagrams, one per hop |
| mesh (`RHMesh.cpp`) | the router's table; a discovery under way | `sendtoWait`, `doArp`, `peekAtMessage`, `route`, `recvfromAck` | router; the other nodes |
| ten other drivers (`RH_RF69`, `RH_CC110`, `RH_MRF89`, `RH_RF22`, `RH_RF24`, `RH_NRF24`, `RH_NRF51`, `RH_ASK`, `RH_Serial`, `RH_TCP`) | `_mode`, `_rxBufValid`, one buffer, often for both directions | `init`, `available`, `recv`, `send`, `waitPacketSent`, `sleep`, interrupt handlers | a chip, a pin, a serial port or a socket |

What is hard in them:

* **Interrupt against thread.** The driver has no lock: single register
  accesses and two short blocks run with interrupts off, everything else is
  open to the handler.  Mode changes are three separate writes (mode register,
  interrupt line, `_mode`), and the headers of a message are read after the
  buffer is released.
* **Half duplex with a mailbox for one message.** A node is deaf while it
  transmits, holds a message, waits for the GPS or reads the serial port.
* **No acknowledgement anywhere in the sketches.** Commands and readings are
  lost on the air, in MQTT, in the USB buffer and when a POST fails; commands
  that come together are merged.
* **Power loss.** The valve node remembers nothing; its valve opens.
* **Bytes.** Lengths, counters and pulse counts are 8 or 16 bits wide, and the
  clock goes round after 49 days.
* **A route is many nodes' memory.** Requests flood, responses come late or for
  somebody else, hops fail halfway, tables are full, and a node that waits for
  an acknowledgement drops what others send.

What makes each part correct:

* driver: a good packet is delivered exactly once and unmixed; no radio event
  is lost; the driver's idea of the mode is the radio's; a transmission is not
  broken off; every call returns.
* valve, gateway, Pi: the valve does what the newest command that reaches it
  orders, never what an older one does after it; what the API knows of the
  valve becomes right and does not go back; nobody stays deaf.
* flow node: what flows is reported, and nothing counts twice in the total.  Interval
  nodes: they report once per interval across the wrap of `millis()`.
* reliable datagrams: delivered at most once, and acknowledged only if
  delivered.
* router: one valid route per destination, which updates and deletions find; a
  route that failed is gone.  Mesh: next hops are neighbours, floods and loops
  end, no text comes twice.
* other drivers: what the RF95 driver should do, or a list of what they do
  instead.

PROJECT.json lists the hazards line by line.

## Modules

```
Radio            what a driver promises: a half duplex radio with one mailbox
  RF95           the driver, refines Radio          MCRF95 (TLC), RF95Proofs and RF95Refinement (TLAPS)
  Messages       what the texts between the programs tell apart
    ValveNode    simple_motor.ino  \
    Gateway      transceiver.ino    > ValveSystem   MCValveSystem (TLC), ValveProofs (TLAPS)
    Listener     listen.py         /
Delivery         what reliable datagrams promise
  ReliableDatagram  RHReliableDatagram.cpp, implements Delivery
                                                  MCReliableDatagram (TLC), ReliableProofs (TLAPS)
RoutingTable     RHRouter.cpp's table             RoutingProofs (TLAPS)
  Mesh           RHRouter.cpp and RHMesh.cpp      MCMesh (TLC), MeshProofs (TLAPS)
Millis           a clock that wraps
  Gps, Thermometer, Magnet, WaterFlow             > Sensors   MCSensors (TLC), SensorsProofs (TLAPS)
PacketRadio      a chip, a mode, a buffer and a program
  NRF24, NRF51, SerialLine, TCP        drivers that poll
  InterruptRadio                       a handler between the steps
    RF69, CC110, MRF89, RF22, RF24, ASK           > Drivers   MCDrivers (TLC), DriversProofs (TLAPS)
```

**RF95.** `opMode`, `dio`, `irq`, `air`, `fifo` are the radio; `mode`,
`rxBufValid`, `buf` (with `_bufLen` in its `len`), `headers`, `cad` and the
counters the driver; `pc`, `op`, `due`, `out` the program.  One action of the
thread is the code between two points at which the handler could run and see a
difference: the three writes of `setModeRx`, `setModeTx`, `isChannelActive` are
three actions, `clearRxBuf` and the copy in `recv`, which run with interrupts
off, one each.  Register accesses run with interrupts off too, so an event that
comes during one is handled right after it: `WriteOpMode` may happen with an
event pending, every other step waits for the handler (`Running`).
`HandleInterrupt` is the whole handler with its four branches.  A packet is its
number, its TO header and its length; `headers` stands for the four
`_rxHeader*` fields and keeps the number of the packet they came from.  The
FIFO of a sleeping radio reads as any packet.

*Timing.* The driver is not correct for every relative speed, it relies on the
radio being slow: a packet takes tens of milliseconds on the air, the straight
line of a call microseconds.  An activity of the radio starts `"young"`, can
end only when `"old"`, and ages only while the program is outside the driver or
in one of its waiting loops.

*Prompt programs.* With `Prompt` the program follows an `available()` that
answers true by `recv()`, as all sketches, `RHReliableDatagram` and `RHMesh` do,
before an activity ages.  `due` remembers the debt.

**Radio** is what the other modules need to know of a radio.  `RF95!Implements`
says that RF95 with prompt programs is a Radio: `_mode` gives the phase, the
buffer (from validation until it is copied) the mailbox.

**ValveNode**, **Gateway**, **Listener** have one action per step of a program
between two interactions with the others: a call of the radio, the serial port,
the API.  Their radios are instances of Radio.  **ValveSystem** puts them
together: transmissions that are heard or not, packets of the other sensors
(everybody hears them: the sketches never set an address, and the default is
the broadcast address), loss in MQTT and on the USB port, failed POSTs, power
loss of the valve node.  A command carries its place `n` in the order of
publication and a reading the stamp of the moment it was built; no code reads
either, they are there for the properties.  Of a text the gateway sends only
the first command is kept with whether it was cut, because a receiver matches a
prefix; a text cut short has no terminating zero, so the receiver's `String`
runs on into its stack, which may complete even another node's id to the valve
node's and any verb (`Outcomes`).

**ReliableDatagram** has `lastId` for `_lastSequenceNumber`, `seenIds` for
`_seenIds`, and for a node inside `sendtoWait()` its `request`, its `tries`
(the local `retries`, a byte) and its place `pc`.  `Submit` is the entry of
`sendtoWait()`; `TransmitRequest`, `RequestSent` and `TimeOut` are one turn of its
outer loop; `ReceiveAwaited`, `ReceiveSeen` and `Discard` are the three things
its inner loop does with a message.  `recvfromAck()` is `ReceiveAck`,
`ReceiveBroadcast`, or `ReceiveRequest` and `AckSent` with the transmission of the
acknowledgement in between.  The radios behave as Radio says: a node hears only
while it listens and holds nothing, which `available()` brings about, and any
receiver may miss any packet (`Air`).  A message the radio holds may stay there
for as long as its program does something else; that is how an acknowledgement
comes late.  The timeout of `sendtoWait()` may elapse at any moment, because it
has a random part and the programs' speeds are unknown.  `Restart` forgets
everything a node knows.  The statistics of retransmissions are left out.

The number `n` of a message, which no code reads, tells what was delivered
apart from what merely bears its id; ids wrap and start again.

**Delivery** is what the programs are promised: per pair of nodes one counter of
the last message delivered, which only grows until the receiver restarts, and
`Confirm` only for a message that arrived.  Under the mapping a message is
delivered when `recvfromAck()` takes it, not when it returns it
(`LastDelivered`): the acknowledgement is sent in between, and the sender may
have it first.

**RoutingTable** has the operations of the table as functions from tables to
tables, in the order in which the code searches: an update takes the first entry
that names the destination, valid or not, then the first free one; a full table
gives up its first entry, and the loop at the end of `addRouteTo()` fills every
invalid one.  `DeleteRoute` leaves a copy of the last entry, not valid, behind it.

**Mesh** puts tables into nodes.  `world` says who hears whom, the routes a
program wired by hand before it began and the texts it sends.  `offer` is the hop at
which a node is blocked in the datagrams' `sendtoWait()`, with the nodes that have
`heard` it; `slot` the message its radio holds; `arp` the address for which
`doArp()` waits.  One hop is what Delivery promises, and how it ends is one of
`Return` and `GiveUp`, which may happen although the next node has the message:
the acknowledgement was lost.  A node inside `sendtoWait()` drops what it hears
(`Drop`), and the sender may repeat it.  `Handle` is `recvfromAck()` of router and mesh
in one: the peek, which learns routes from responses and forgets them on
failures, and then one of seven things.  `Undeliverable` is the part of `route()`
that forgets a route and tells the source.  In `Peeked`, `residue` is the octet
behind the list of nodes, which a misplaced increment reads as a destination.
`cramped` is `doArp()`'s `messageLen`, which every message received shortens:
after an empty text no response fits any more.  `Send` may also refuse its text, as too
long.

**Millis** and the four nodes: `at` says whether `loop()` is between two turns, waits
for a fix in `readGPS()`, or sends.  A turn that does neither is one action, and the
time that readings and transmissions take is chosen.  `readGPS()` has no limit: `NoFix`
may be repeated for ever, and the clock goes round under it; nothing is assumed of how
long it lasts.  `since`, `steady`, `passed`, `pulses` and `unreported` are there for the
properties: `since` leaves the waits for a fix out, which is what ReportsInTime says of
itself, `pulses` counts what the byte wraps, and `unreported` has the pulses of each reading
since the last report.  `Past` is the comparison of gps.ino, thermometer.ino and magnet.ino,
`millis() > last + interval`, whose sum wraps; `Elapsed` that of water_flow.ino,
whose difference does not suffer.  Intervals and clock are scaled down
together.  Thermometer keeps of the DHT library the measurement that is reused for
two seconds; failures are kept like values.  Magnet's contact may change between the
reading and the end of the transmission (`Report`, `Sent`).  WaterFlow's pulses come
between any two steps, one may be missed while the interrupt is detached, and the count is a
byte.
**Sensors** runs one of the nodes at a time: they share no state.

**PacketRadio** is the chip and the program that ten drivers share.  The program starts at
`init()`, and as it may have been restarted, the chip may be doing anything and hold an old
packet; `init()` puts it at rest (`Started`), or fails and is called again, and nothing else is
called before it succeeds.  That the receiver, when it is turned on, has no old packet or
interrupt left is taken from the chips, not from the sources.  A packet is its kind: ours,
another node's, or faulty.  `queue` is what the chip holds that the driver has not read, `buf`
what the driver's buffer holds, so that a packet read on top of another, or a message of one's
own, shows.  Time passes as for RF95, and the program takes a message promptly.
**InterruptRadio** adds a handler that runs between any two steps of `available()` and `recv()`,
and between the register write and the assignment of `_mode` in `sleep()`, where `late`
remembers that an event was waiting.  The `send()` of RF22 is two steps, the filling of the
buffer and the switch to transmit: its atomic block keeps the handler out, but the receiver is
on until the second, so that a packet may end, or a preamble come, before it and is handled over
the transmission. RF24's handler may meet INVALID_SYNC whenever the chip listens, as often as it
likes (`invalidSync`).  Each driver module has what its source does differently: where
`available()` tests, what `recv()` clears, what the handler reads and whether it leaves the
receiver on, who notices the end of a transmission.  In **ASK** the handler is a timer's and
ends packets where the code ends bits.  What a chip that is put to sleep keeps in its FIFO is
taken as kept, and a packet of RF24 that INVALID_SYNC empties on its way into the FIFO as one
that ends all the same; of both the sources say nothing.  In **SerialLine** `queue` holds
characters and `chip` is the state of `handleRx()`, one action for each character; a frame comes
whole, without one of its characters, or after a stray one.  In **TCP** `queue` holds messages
of the socket, the last of which may have come only in part.  **Drivers** is one driver at a
time.

## Runs

| Run | Bounds | What it shows |
|---|---|---|
| `rf95` | 2 packets, 2 calls of `send`, the sketches' address 255 and a neighbour's, lengths 3 (too short) and 6, with and without CAD | the ten properties of the driver, among them the refinement of Radio, `SendReturns` and `ReceivedIsTaken` |
| `rf95_unhurried` | the same, one `send`, an address of its own, no CAD, a program that is not prompt | **violated:** `OnlyOurMessages` |
| `rf95_sleep` | the same, one `send`, an address of its own, no CAD | **violated:** `StaysAsleep` |
| `valve_commands` | 3 commands, either verb, two devices | commands are obeyed in order, and the valve moves only as ordered |
| `valve_reports` | 1 command, 1 foreign packet, 1 power loss | the API's knowledge, and that no radio stays deaf |
| `valve_long_text` | 4 commands | **violated:** `LongTextRefused` |
| `reliable` | 2 nodes; one sends 1 message, the other sends 2 and restarts at will; 1 retry | the datagrams implement Delivery, and `sendtoWait()` returns |
| `reliable_restart` | the same | **violated:** `OnlyDuplicatesDropped` |
| `reliable_forever` | 2 nodes, 1 message, no restarts, `setRetries(255)` | **violated:** `SendtoWaitReturns` |
| `mesh` | four small networks, tables of 3 entries, 3 hops, stray octets 0 and 1 | tables stay sound, next hops are neighbours, no text comes twice, messages stop travelling, a failed route is forgotten, and the network falls silent |
| `sensors` | a clock of 28, intervals of 2 to 9, a counter of 2 bits, 5 pulses, waits for a fix without bound | how late and how close reports can be, that changes and flow are reported, and that no pulse counts twice |
| `drivers` | any state of the chip before `init()`; 4 packets (frames: 3), 2 sends, 3 packets in a FIFO, 2 in RF24's buffer; 12 characters in the port, 3 in the frame's buffer | in which ways each driver loses or mixes up messages, is wrong about its chip, or cuts a transmission (RF22 alone), and in no others; transmissions end |

Two packets are enough for the driver: every hazard is one packet against a
step of the program, or a packet that comes while another is held; a second
`send` reaches the transmission under way.  In the valve system a command's text
is 84 characters, so that one and two commands fit, three make a length
`send` refuses (253) and four overflow its byte (337): real commands of 14
characters do the same, at 18 and 19.  Three commands are the fewest in which
two can be merged, one overtaken and one be meant for somebody else.  The
USB port holds one line, so that it is full after one.  With datagrams in both
directions each node is sender and receiver at once, one retry makes duplicates
and late acknowledgements, and two messages of the node that restarts are the
fewest in which an id comes back; what does not depend on the bounds is proved.
The mesh's networks are chosen for what can happen in them: a line of four with
a table already in use, so that a response with a node in between has to retire a
route; a line of three in which an empty text runs into a discovery; one in which a
response to one discovery comes during the next, after a broadcast; and a triangle,
where a request comes by two ways.  A line of four is the shortest on which a response
lists a node that is neither the reader nor next to it, which is what the index
error is about; three entries are one fewer than the destinations such a table
may be asked to hold, the stray octet included.  What does not depend on these choices is proved.
The sensors' clock goes round several times within the intervals' reach, also during
one wait for a fix, and every value of the sum of a time and an interval occurs, the last
ones before the wrap too; five pulses are one more than wrap the counter.
For the drivers every disorder found takes at most two packets and a send; four
packets fill each buffer, and three frames are enough for one to be damaged, one
lost to it and one well received.

Deadlock is checked in every run but `reliable_forever` and `mesh`, where nodes that
have sent everything have nothing left to do; in the others somebody may always
restart, send, wait or lose something.

*Fairness.* Driver: the thread runs and so does the handler; what is on the air ends; the CAD
timeout elapses and the program's loop polls again, which is strong because both choices are
open at each turn (`CadGiveUp`, `CallAvailable`) and so is `TimePasses`, which needs the program
to leave the driver from time to time.  Valve system: every program's loop runs; GPS fixes come
(`readGPS` has no timeout, without a fix nothing can be promised); a reading is due again and
again; and of infinitely many transmissions and POSTs some succeed, which is all that a system
without acknowledgements can be promised on.  Datagrams: `sendtoWait()` runs and transmissions
end (weak); its timeout elapses, which is strong because acknowledging another node's repetition
interrupts the wait, and the deadline of the outer turn is computed once, before the wait.
Nothing is assumed of the air.  Mesh: a hop ends after its retries (`Return` or `GiveUp`),
discoveries end after their timeout and programs keep polling, all weak; whether anything is
heard is left open.  Drivers: calls return and handlers run (weak), though `init()` may fail for
ever; transmissions end and the program calls `waitPacketSent()` now and then, which is strong
because other calls are open too and because RF22 starts a transmission anew when its FIFO has
run dry.

## Findings

* `rf95_unhurried`: `available()` turns the receiver on while a message is held.
  A program that polls again before `recv()` may be handed the next packet,
  even one for another node, because `_rxBufValid` stays true.
  `RHGenericDriver.h:153` promises otherwise.
* `rf95_sleep`: if a packet ends while `sleep()` writes the mode register, the
  handler puts the radio in standby and `sleep()` then records `RHModeSleep`:
  the radio is awake, and further calls of `sleep()` do nothing.  The `sleep()` of RF22,
  RF69, CC110 and MRF89 has the same two steps and the same flaw (`drivers`).
* `valve_long_text`: `transceiver.ino` passes an `int` where `send()` takes a
  byte, so that a text of 256 bytes or more is sent cut, without its
  terminating zero, instead of being refused.
* `reliable_restart`: the receiver tells a duplicate by the id alone, and a node
  that restarts begins with id 1 again.  Its first message is acknowledged and
  dropped if the receiver last saw id 1.  255 messages to other nodes in
  between have the same effect without a restart.
* `reliable_forever`: with 255 retries the byte that counts them wraps before it
  exceeds the limit, and `sendtoWait()` does not give up.

The mesh, the sensors and the other drivers are described as they are, in properties
that hold; what they describe is not always what one would want.

* *Mesh.* `peekAtMessage()` increments its index once too often (RHMesh.cpp:110):
  of the nodes between reader and destination the first is skipped, and an octet
  behind the list is taken for an address, although RHMesh.cpp:100 and
  RHMesh.h:64-66 speak of all the nodes in the list.  `doArp()` accepts a response
  about any node for the one it asked for; it acknowledges and loses texts that
  come meanwhile, and after an empty one it accepts no response at all.
  RHMesh.cpp:208 is "certain to have a route" back to the source, which is not so when
  the nodes on the way are more than the table holds: the response is then
  undeliverable.  What stays true in spite of all this is in the run.
* *Clock.* gps.ino:38 adds before it compares.  If the sum falls into the last second
  before the wrap, a turn of the loop, no later moment may be seen, and the node is
  silent until the clock has gone round once more.  thermometer.ino:35 and magnet.ino:34 are
  silent for good if the sum is the very last value.  If the sum has wrapped and the clock
  has not, each turn of the loop reports; the two values of a thermometer's report
  may then be of two measurements.
* *Flow.* readFlow() computes the volume of one second (its comments say "1 second
  interval", water_flow.ino:104-119) but runs every ten: totals are a tenth of the litres
  that flowed, which `TotalNotOverstated` does not hide but does not ask for either.
  A byte of pulses overflows within ten seconds at a good flow, and 256 pulses, or 512, make a
  reading that passes for one without flow and may be withheld.  A wait for a fix has no
  limit, and nothing is reported while it lasts.
* *Drivers.* CC110 turns the receiver on over a message that came after the test
  (263) and may hand over another node's packet in its place.  RF22:599, RF24:356 and
  NRF51:174 fill the buffer over a message the program does not know of.  RF24
  leaves another node's packet in the buffer (432) and appends the next: the comment at
  670-671 knows of it.  NRF24 empties a FIFO of three for one bad length (300).  NRF51
  does not restart the radio after a packet it does not accept, although the comment at 258
  says so ("Bad CRC, restart the radio", 256): the node is deaf until it sends.  RF22's
  send() fills its buffer and starts the transmitter with the handler held up, but the
  receiver on until line 473: the handler of a packet that ended there runs after 603, and
  turns the receiver on over the transmission (286) or calls the mode idle (276), so that the
  next available() does.  RF24's handler calls the mode idle after INVALID_SYNC (208), with the
  chip receiving, and drops the message held.  In RH_Serial a DLE that has strayed in
  front of a frame costs the frame.  RH_Serial's `send()` does not refuse messages
  that are too long, RHGenericDriver.h:90 notwithstanding.  RH_TCP keeps the last of
  the packets it reads at once (RH_TCP.cpp:166), and never leaves the loop at 139 if
  the last message is there only in part.  Its `sendPacket()` counts nine octets of header as
  eight (293, 300), so that the last octet of a text is not sent; contents are not modelled.

## Proofs

`RF95Proofs` proves, for all addresses, lengths and numbers of packets and
sends, that programs with `Prompt` keep `TypeOK`, `EveryGoodPacketTakenOnce`,
`DeliveredWhole`, `EveryEventHandled`, `ModeMatchesRadio`, `FifoNotShared` and
`TxNotInterrupted`.  Prompt = TRUE is a hypothesis of each theorem: without it
they do not hold, as `rf95_unhurried` shows.  The other assumptions are those
RF95 declares for its constants: the addresses include the node's and the
broadcast address, lengths are bytes, bounds fit the counters' 16 bits.

None of these is inductive.  `Inv` adds

* `Places`: where the thread can be in each mode.  The handler may change
  `_mode` between any two steps, but only to idle;
* `Tracks`: the registers follow `_mode`, except between their writes and its
  assignment, and nothing that began in between can end before it;
* `Pending`: an event that is pending belongs to `_mode`, with its line armed;
* `Mailbox`: the reason why a held message is safe.  The handler switches the
  receiver off when it keeps a message; if the receiver is on again, the
  program is on its way to take the message, and the next packet is still young;
* `Counts`: pending packets and transmissions leave room in the counters.

There is one lemma for each part of `Next`, with one step per conjunct of
`Inv`; the handler's receive branch (`Received`) and what a call copies
(`CopiedBounds`) are lemmas of their own.

`NoWaitIsInVain` is the safety half of `SendReturns`, whose loops have no timeout: while
`waitPacketSent()` waits, the packet is on the air or TxDone is pending with DIO0 mapped to
it, and the same for CadDone (`EndIsToCome`).  `UnderWay`, which it adds to `Inv`, says that
a radio in transmit or detection mode is at something, and that a detection the driver
waits for stays one until its event is there.

`RF95Refinement` proves `Spec => Implements` under the same assumptions: a
driver used promptly is the mailbox of Radio.  Each lemma takes one part of
`Next` to a step of Radio or shows that it changes neither `Phase`, `Slot` nor
the message taken; `Inv` says why a message arrives only in an empty mailbox
(`Mailbox`), and why `setModeRx` and `setModeTx` never run during a transmission
(`Places`).

`ReliableProofs` is about any set of nodes that send to each other and broadcast, any
number of messages, retries, losses, and restarts of any of them.  `DatagramsDeliver`
says that every step is one of Delivery, with one exception: a node that has sent more
than 255 messages may be told of one that did not arrive (`ConfirmsAny`).  Order and
at most once need no bound on the messages.  The confirmations do: the 256th message
has id 0, which is also what `_seenIds` holds of a node never heard, so it is acknowledged
and dropped.  While no node sends more than 255, Delivery is implemented without exception
(`DatagramsImplementDelivery`, which states `Implements`).  `Inv` adds to the types

* `Sending`: the request is its node's last message and bears its last id;
* `Acking`: a node that acknowledges is deaf and holds nothing, so that the
  message cannot be replaced; in `sendtoWait()` it acknowledges only what it has seen;
* `Numbered`: ids are numbers until their sender restarts or sends the 256th (`Unwrapped`);
* `Copies`: a message still to be looked at is not older than what was delivered,
  and if it is that very message, the test by id finds it out.  This is where
  a sender's restart is harmless for order: its old copies are older, or have
  the id seen last;
* `Remembered`: what `_seenIds` holds is the id of what was delivered last, as long as that
  is its number, and in any case if it was the message its sender is at;
* `Acks`: an acknowledgement under way has the number of something delivered, if
  neither end has restarted and ids are numbers.

`RecvfromAckDelivers` and `SendtoWaitDelivers` say what a step delivers; the
refinement lemmas take each to `Deliver`, `Submit`, `Confirm`, `GiveUp`, `Restart`
or a stutter.  `ConfirmImplements` is the heart: an acknowledgement with the id
of the last message, which vouches for that much, is the last message's.

`SendtoWaitBounded` is the safety half of `SendtoWaitReturns`.  `Left`, three for each try left
and some for the steps of the one under way, falls with every transmission, end of one and
timeout, and during the call nothing raises it, whatever other nodes send.  That needs fewer
than 255 retries, the 255 of `reliable_forever` being where the byte starts again, but no
bound on the messages.  A request heard meanwhile, which is acknowledged at once,
leaves `Left` as it is: that there are not infinitely many is the property's fairness.

`RoutingProofs` is about tables in which no entry stands in front of a valid one
for the same destination (`Unshadowed`): updates and deletions preserve that
(`AddRouteToKeeps`, `DeleteRouteToKeeps`, `AddRoutesToKeeps`), and it is why they do what
they are called for.  `DeleteRouteToForgets`: after a deletion there is no route
to the destination.  `AddRouteToGives`: after an update there is one, by the hop
given, in a full table too.  `AddRouteToSpares`: other routes stay, but for the first
entry of a full table.  All operations search for a first entry, so the argument
is always the same: what stands before it does not name the destination
(`FirstIsLeast`).

`MeshProofs` proves `TypeOK`, `TablesSound`, `NoNodePassedTwice`, `HopsLimited`,
`NextHopsInRange` and `FailedRouteForgotten` for any number of nodes, any links, tables of
any size, any texts, and whatever is read behind a list of nodes.  The inductive
invariant `Inv` says of every node that its table is sound and leads to neighbours
(`TablesGood`), of the message it offers and the one its radio holds that they are
well formed, go to or come from a neighbour and have passed no node twice (`OffersGood`,
`SlotsGood`), and that it waits for a route only with a text to send
(`WaitsGood`).  There is one lemma per action.  Those of `Relay`, `RouteFound` and
`HandleRequest` rest on `PeekedAreSound`, that whatever a response teaches is the way
to a neighbour, and on `RouteKeeps`; `FailedRouteForgotten` on
`DeleteRouteToForgets` and `AddRouteToOthers`.  The assumptions are Mesh's own: no node has
address 0 or that of the broadcasts, `_max_hops` is less than 255, and what is wired
by hand is sound.

`NoTextTwice` has an invariant of its own, `OneCopy`, over `Inv`.  A text may be in three
places: offered by a node whose hop can still be heard (`Open`), held by a radio, or come
to a program; a sender that repeats or gives up a hop which was heard has none to give
away.  `Apart` says that for each node `d` the text is in one such place at most from
which it may still reach `d`: a text for all is heard by many, but each radio's copy ends
there, while a text for one may be relayed from wherever it is.  `Known` says that
nothing is on the way of a text not yet sent, so that the next one is new, and that all
copies agree on whether it is for all.  `Drop` gives a copy back to its sender; `Latest`
says that what the next hop then loses is what that sender still offers.

`SensorsProofs` proves every property of the `sensors` run for any width of the clock,
any intervals and any size of the pulse counter; `IntervalsAssumption` asks that sending
a report takes no longer than an interval, that a measurement is kept for less than one,
and that the clock's round is longer than the intervals and what is added to them: 49
days against a minute.  Of the waits for a fix nothing is assumed: they may outlast the
clock's round, and since they are not counted in `since`, `ReportsInTime` says how late
reports are apart from them.  `Wrapped`, `Difference` and `Moved` turn the remainders of the
clock into one case distinction each; `Since(t)`, the time since `t` as the clock tells
it, is what the invariants speak of.  `GpsInv`, `ThermometerInv` and `MagnetInv` say that
either the sum of the last time and the interval is one of the clock's last values
(`NeverPast`), or the time since the last report, which no wrap disturbs, is the one the
clock tells and no longer than the interval; for gps.ino that is so in `loop()`, and no
fix is waited for before the report is due.  That is inductive because a sum that has
wrapped while the clock has not makes the node report at once, so that the interval is
never exceeded on either side of the wrap.  `ThermometerInv` adds that the last
measurement is as old as a report allows, `MagnetInv` that a contact that differs from
what was reported does so since the last reading, or since a transmission under way began.
`FlowInv` bounds the time since the last report by `Round`, what one reading takes but for
its fix, for each reading withheld.  It says that the byte is what the pulses leave of
256, so that a reading without flow had a multiple of that (`Remainder`, `Successor`), and
that the total is worth no more than the pulses no longer counted; a pulse, an overflow and a
reset each keep the inequality.

`ValveProofs` proves `TypeOK`, `CommandsObeyedInOrder`, `ValveMovesAsOrdered` and
`ApiNeverGoesBack` for any devices and commands, any number of them, of other nodes' packets and
of restarts.  `NoMessageAssumption`, that what stands for an empty mailbox is no packet, and
that one command fits into a packet are all it assumes of texts.  `Control` says where each
program is when it holds what, and that commands reach only the valve node and readings only the
gateway.  Two invariants carry the order, one for each way:

* `Order`: of the numbers of all commands on the way, those nearer to the valve node are
  smaller: what it has obeyed, what `recv()` has copied, what its radio holds, the text
  of the gateway while it is still to be heard (`Live`), the serial port, the broker.  A
  text counts by each of its commands, although the valve node will see only the first.
  `Reached` is the last number that has got as far as the node's radio; a restart only
  lowers it;
* `Stamps`: of the readings on the way, those nearer to the API are older.  Every place
  that may be empty stands for what is behind it (`Present`, `Built`, `InAir`, `Oldest`
  from the valve node to the port, `Youngest` at the Pi), so that a loss
  anywhere only widens a gap.  The valve node's time is its restarts, then the last
  command obeyed, and it goes on because of `ObeysLater`.

`ValveMovesAsOrdered` also needs that the verb obeyed is the one in the text, which is
false of texts that were cut (`valve_long_text` shows one that is accepted for
sending although it is too long).  `AsOrdered` therefore has a hypothesis, that all
commands published fit together into the octet that holds a length; `Short` says that no
text is longer than everything published.

`DriversProofs` proves of all ten drivers what the run checks: `TypeOK`, `DeliveredOnce`,
`ModeMatchesChip` and `TxNotCut`, for any number of packets and sends and any sizes of the
buffers above zero (`SizesAssumption`).  What a driver loses is exactly what `Excused` names, so
the hypotheses of each case are those of the property and no more.  Before `init()` succeeds
nothing is held (`Starting`); afterwards each driver has its invariant (`Working`), built from
parts that they share.  `ModeIsChips` says which mode goes with which state of the chip, between
the two steps of `sleep()` too, after which it may be awake if an event was `late` (`Dozing`),
`Program` and, for the drivers that poll, `Polling` in which modes the program can be where,
`Accounted` that what was heard was handed over, is held or waits.

* RF69, MRF89, ASK (`Running`): `OneAtATime` says why nothing is overwritten.  While a
  message is held none waits in the chip, and if the receiver is on nonetheless, which
  `available()` allows, the program is about to take the message and no packet can end
  before it has.  That rests on the program's promptness and on packets taking longer than a
  call.
* CC110: a message held means that the receiver is off, until `available()` turns it on
  over one (`relistened`); from then on nothing is claimed.
* RF22 (`RF22Modes`, `RF22Waits`): as the first three, as long as `send()` has not used the
  buffer over a message or over a packet not yet read; its modes have the cases that an event
  late into `send()` or `sleep()` leaves.  RF24 (`RF24Modes`, `RF24Waits`): the same while
  `RF24Undisturbed`, that no INVALID_SYNC and no other node's packet was read, so that the
  buffer is empty whenever nothing is held.  NRF51 holds a message only while the program is
  about to take it.
* NRF24 and Serial queue more than one, so the messages waiting are counted (`Totals`,
  `OnTheWay`; `OursAppend` and `OursTail` say what a packet more or less does to the number).
  What is faulty may make the sum short, never long.
* Serial (`Parsed`): as long as no frame was garbled, the characters that wait in the port
  lead the receiver from where it is in a frame, by `Moves`, to the end of one.  This is a
  path through the receiver's states as long as the port's content (`Leads`): `LeadsTail`
  follows it by one character, `LeadsConcat` adds a frame to it, and `RxMoves` says that
  `handleRx()` makes each of its steps.  Hence a checksum is never taken for text nor text
  for the end of it, although the octets of a text may be those of the protocol.
* TCP: until two packets are read at once or one over another, the one read is the one
  waiting; `LastRead` says that the last of those read is one of them.

`SinglesFit` and the lemmas `...Fits` bound the buffers, `...Transmits` say that nothing but
its end stops a transmission, and for RF22 what is handled late.

`NoWaitIsInVain` is the safety half of `TxEndSeen`: a driver that believes itself sending
has its packet on the air, in a chip that transmits, or its end noted where the driver will
look.  It rests on `Inv` alone, of which `OnAir` says what is on the air when.

`Mailboxes` carries Radio's promise from RF95 to the other drivers that hold one message:
RF69, MRF89 and ASK, and CC110, RF22, RF24 and NRF51 until `Excused` applies.  `Box` is
Radio with `Phase` taken from `_mode` and `Slot` from the message that waits in the chip or is
held; a receiver whose chip has a message is not listening, whatever `_mode` says.  A
step of a driver switches the mailbox's phase (`Switches`), brings a message into the empty
mailbox of a listening radio (`Arrives`), hands it over (`Takes`) or does not concern it; there
is one lemma per driver, and `Inv` says why a message arrives nowhere else.  NRF24, Serial and
TCP queue more than one message (`Several`), so that Radio is not what they promise.

Model-checked only: liveness (`SendReturns`, `ReceivedIsTaken`, `ApiComesToKnow`,
`GatewayListensAgain`, `ValveListensAgain`, `SendtoWaitReturns`, `FallsSilent`,
`TxEndSeen`), which is out of the prover's reach; of `SendReturns`, `SendtoWaitReturns` and
`TxEndSeen` the safety halves are proved, as told above.  Of `FallsSilent` it is
`HopsLimited` and `NoNodePassedTwice`, which bound each chain of copies; that all copies
together run out is a sum over nodes and messages, which takes induction over data.

## Plan

* How far a program is from its next `available()`, in its own steps: the safety half of
  `GatewayListensAgain` and `ValveListensAgain`.
* A POST in `listen.py` that hangs, which stops the Pi's loop, with a timeout of the API's
  that may come late.
* RH_NRF905, once the chip's data ready flag is known.

## Not modelled

RF95's `init()`, which runs once before anything else; what all radios' `init()` and
setters write into the registers of modem, frequency and power, which is most of the
drivers' length; RSSI and register dumps; the headers'
register maps.  Of the other drivers: the fragments in which RF22 and RF24 move a
packet through a FIFO of 64 octets, the symbols and the bit clock of ASK, and the
moment in which NRF51's radio still writes a buffer that `send()` fills.  RH_NRF905:
whether `available()` takes a message twice, or a transmission's end for a
message, depends on when the chip lowers its data ready flag, of which
the sources say nothing.  The Adafruit sensor libraries, third-party
register access; the bench sketches and command line tools, which have no state;
battery and position
values in readings.
