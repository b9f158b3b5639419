# TLA+ models of the RA8T2 self-balancing robot firmware

The firmware (`firmware/src`) balances a two-wheel robot on an RA8T2
microcontroller. Velocity commands come from three sources (an ASCII console, an
AI box on a UART or on Ethernet, a reserved RC receiver), one *command arbiter*
keeps the single motion command in force, and a main loop turns it into wheel
torques every 2 ms, unless a fault has put the robot into `FAULT_SAFE`.

The modules here model the parts of that program whose difficulty is in the
*order* of things: which command owns the motion and when it loses it; what an
emergency stop, a fault or a clear command does when it arrives at the worst
moment; what is left of a frame on a bad line; what a console line does in the
middle of a balance period. All findings, hazards and source lines are indexed in
`PROJECT.json`.

## 1. Inventory

| Component | State | Operations | Modelled in |
|---|---|---|---|
| Application loop, `app/app_main.c` | `s_state`, `s_last_balance_ms`, locals of one period | boot, loop, `balance_period`, `app_request_estop`, `app_clear_fault` | `AppLoop` (and the loop's clock sample in `CmdTimeout`) |
| Command arbiter, `cmd/cmd_arbiter.c` | `s_motion`, `s_direct`, `s_ai_en`, `s_rc_en`, `s_ai_stamp`, `s_rc_stamp` | inject motion, inject/get direct, enable switches, tick | `CmdArbiter`, `DirectSlot` |
| Console, `cmd/console.c` | line buffer | one handler per line | `CmdSources` (commands), `AppLoop`, `CmdTimeout`, `Balance` (handlers) |
| AI link, `cmd/ai_link.c` | receive state machine, payload | `handle_frame`, `ai_link_rx_byte`, telemetry | `FrameParser`, `Crc8`, `Links`: bytes; `CmdSources`, `AppLoop`, `CmdTimeout`: frames |
| Ethernet link, `cmd/net_link.c`, `net_port_fsp_example.c` | `s_connected`, `s_last_rx_ms`, a socket | poll, receive, telemetry | `NetLink`, `Links`: connection; `AppLoop`: frames handled in the loop |
| RC link, `cmd/rc_link.c` | none (placeholder) | poll | `CmdTimeout`, as the external source the arbiter is written for |
| Motor interface and port, `motor/*.c` | `s_mode`, `s_en`, `s_rpm`, current and position registers | mode, enable, speed, position, torque, stop, feedback | `MotorIface`: everything but signs, clamps and feedback |
| Safety monitor, `safety/safety_monitor.c` | `s_fault` | update, clear | `AppLoop` |
| Balance controller and PID, `balance/*.c`, `control/pid.c` | mode, command, slewed references, integrators | set mode, set command, step | `Balance`: everything but the sums; `AppLoop`: mode and gate |
| IMU and its driver, `imu/*.c` | `s_ok`, filter | init, update | `AppLoop`: success or failure |
| Utilities, `util/util.c` | clock port, ring buffer | time, push, pop, count, CRC-8 | `RingBuf` (with `ByteQueue`), `Crc8`; the clock in `CmdTimeout` and `NetLink` |
| LQR gains, `tools/lqr_gain_gen.py`, parameters | constants | offline | not modelled |

How they interact. The main loop calls everything else: it polls the links,
expires the remote command (`cmd_arbiter_tick`) and runs a balance period. The
two UARTs call in from receive interrupts: `console_rx_byte` and
`ai_link_rx_byte` run a complete line or frame, down into the arbiter, the motors,
`safety_clear_faults` and `s_state`, without any lock or interrupt mask
(`console_poll` and `ai_link_poll` say so: they are empty). Ethernet frames
take the other way: `net_port_poll` is called by the loop, so the same
`handle_frame` then runs in the loop and can itself be interrupted.

What is hard:

* **interleaving and atomicity** between the loop and those interrupts: an
  emergency stop between the period's test for `FAULT_SAFE` and its last store,
  a command between the stores of an expiry, a console line inside the loop's
  own injection, a torn copy of the command, a clear between latching a fault and
  testing it;
* **stale state**: the loop's sample of the clock against stamps taken later, a
  clear flag that stays in the command, a direct command that waits in its slot;
* **time**: unsigned ages on a clock that wraps, timeouts racing late commands;
* **partial failure**: the IMU or the motors failing at boot;
* **order of messages**: an emergency stop followed by another frame;
* **unreliable delivery**: noise on the UART, a TCP client that hangs up inside a
  frame and calls again, and a parser that nothing ever resets;
* **numbers that are not**: a NaN reference or gain passes every comparison.

What makes each component correct:

* arbiter: a remote motion is never older than its lease; nobody's motion stands
  still; a stop stays a stop; console motion never times out and is not taken by
  the AI box;
* application: `FAULT_SAFE` means motors off; a stop in force reaches `FAULT_SAFE`;
  a latched fault keeps it there; it is left only for a clear; a dead IMU never
  drives; a balancing state has both wheels in torque mode;
* parser: a frame is handled only if it arrived in one piece; a disturbance costs
  a bounded number of the frames that follow;
* network link: a client is reported only while it is heard, and given up only
  when it is not; frames get through again after any cut;
* balance controller: the reference stays inside its limits and its slope through
  every mode change, a brake brings it to zero, NaN and old integrals do not
  survive their cause;
* ring buffer: a bounded FIFO without a lock, for the day something uses it.

## 2. Modules

| Module | What it is | Composes |
|---|---|---|
| `CmdArbiter` | state and operations of the arbiter's motion command | |
| `CmdSources` | one constructor per place that fills in a `motion_cmd_t` | `CmdArbiter` |
| `MotionOwner` | what the arbiter promises, abstractly: who owns the motion, may the robot move | |
| `CmdTimeout` | ownership and expiry in time: clock, loop, interrupts | `CmdSources`; implements `MotionOwner` |
| `CmdSourcesProofs` | lemmas on commands and their injection | `CmdSources` |
| `CmdTimeoutProofs` | theorems about `CmdTimeout`, the refinement among them | `CmdTimeout`, `CmdSourcesProofs` |
| `DirectSlot` | the one-place slot of direct wheel commands | |
| `MotorIface` | modes, enables and registers of both motors | |
| `AppLoop` | boot, loop, balance period, and the interrupts | `CmdSources`, `DirectSlot`, `MotorIface`; implements `MotionOwner` |
| `AppLoopProofs` | theorems about `AppLoop`, the refinement among them | `AppLoop`, `CmdSourcesProofs` |
| `ByteQueue` | what a byte buffer promises, abstractly | |
| `RingBuf` | the ring buffer, load by load and store by store | implements `ByteQueue` |
| `RingBufProofs` | theorems about `RingBuf`, the refinement among them | `RingBuf` |
| `Crc8` | the checksum, bit by bit, as functions | |
| `FrameParser` | the byte-level receive machine | |
| `NetLink` | connection, receive stamp and timeout, one poll at a time | |
| `FrameChannel` | what a parser promises its sender, abstractly | |
| `Links` | sender, line, link and parser together | `FrameParser`, `NetLink`; implements `FrameChannel` |
| `LinksProofs` | theorems about `Links`, the refinement among them | `Links` |
| `Balance` | references, controllers and mode, store by store | |
| `BalanceProofs` | theorems about `Balance` | `Balance` |
| `MCCmdTimeout`, `MCAppLoop`, `MCRingBuf`, `MCLinks`, `MCBalance` | constants for TLC | `MCLinks` brings in `Crc8` |

`CmdArbiter`, `DirectSlot` and `MotorIface` hold state and operations only. An
operation that the code runs inside an interrupt is one action; one that the
loop runs is offered store by store, because an interrupt can come between two
stores. `CmdTimeout` keeps the clock and drops the balance period (which only
reads the command); `AppLoop` keeps the period and drops the clock. Neither
leaves out a writer of the state its properties are about, apart from the
simplifications listed under *Abstractions*.

Definitions whose comment begins "A slip" are deliberately wrong variants of the
definition that follows, such as a forgotten brake or swapped priorities. Nothing
uses them; substituting one for the right definition must break the property it
is paired with in `PROJECT.json`, which shows that the property depends on it.

### CmdTimeout

`clock` is `time_ms_get()`, `now` the loop's local copy, `pc` the loop's place:
`top` (sample the clock), `poll` (`rc_link_poll`), `tick` (the tests of
`cmd_arbiter_tick`), then `zero`, `brake`, `release` (its stores). `ClockTick`,
`ConsoleLine`, `ConsoleEnable` and `AiFrame` happen between any two of these.
A command is stamped with `clock`, an age is computed from `now`, both modulo
`ClockMod`. `quiet[src]` is a ghost that counts ticks since a source's last admitted
command; `torn` is a ghost that records a command stored during an expiry.

`MotionOwner` is what remains when clocks, flags and stores are forgotten: an
`owner`, a `robot` that is free, held or stopped, and an `expiry`. A source takes the
motion from its equals and inferiors or by a stop; a remote owner can be noticed
silent; the robot can settle; the motion is released, and if the expiry is still
`due` the robot is not free then. The mapping reads `owner` and `robot` out of
`s_motion` and `expiry` out of `pc` and the ghost `torn`: `due` from the tick's test on, and
`torn` once a command has been stored in between. So a store that the tick leaves out
is not taken for one that a command has undone.

### AppLoop

`pc` walks through `app_main`: the boot steps, the links (for Ethernet the
injection is split into its tests and its stores), the stores of the tick, and
`balance_period` with a step wherever an interrupt could change what is read next
or what was written: the copy of the command is two reads, the safety update is a
latch and a test, `app_clear_fault` a test and its stores, a direct command is copied
and then taken, and the balance output is a mode store, an enable, and one torque
store per wheel. Console lines and UART frames are one step each.

`estop_req` is a ghost: `asked` from the moment a stop is stored, `due` once a
period has begun under it, `none` again when an admitted command replaces it.
`raced` is a ghost: the console's stop fell into the actuation of this period.
`torn` and the mapping to `MotionOwner` are those of `CmdTimeout`; the refinement holds
with the AI box on the UART only, since `net_race` shows the loop storing a frame over
a console line.

### RingBuf

`w_pc` and `r_pc` are the places of the two callers, either of which may be an
interrupt: a push tests, stores and publishes, a pop tests, copies and advances, a
count compares and subtracts. `r_seen` is the head that the comparison of a count
loaded, because the subtraction may or may not load it again. `ready` is a ghost:
how many pops the last count still promises. The refinement mapping reads the
queue out of `buf`, `head` and `tail`; `PushPublish` maps to the moment a byte is
accepted, `PopAdvance` to the moment it is taken, the other steps to stutters.

### FrameParser, NetLink, Links

`FrameParser` has one operator per case of the switch in `ai_link_rx_byte`;
`s_pay` is the stored part of the payload, its length is `s_idx`, and `handled` is
what this call gave to `handle_frame`. `NetLink` has one poll as four places: the
loop reads the time (`top`), the port accepts, times out, closes or receives
(`port`), the bytes are fed one by one (`feed`), the stamp is compared (`check`).
`clock`, `lag` and `quiet` play the same roles as in `CmdTimeout`.

`Links` puts a sender in front. `link` is chosen at the start: on the UART a byte
arrives in an interrupt, and until `settled` a byte of noise may come instead and
ruin the frame it falls into; over TCP bytes come in chunks, and the client may
hang up inside a frame. `cur` and `pos` are the frame being sent and how much of it
arrived; `since` is a ghost with the bytes the parser has seen since it last
waited; `lost` is a ghost that counts the whole frames not handled since the last
disturbance.

The mapping to `FrameChannel`: `sending` is `cur`, `delivered` is `handled`, and
`inStep` says that the parser is at the sender's place in the sender's frame, `calm`
that the line is settled and no client is left that has hung up. While `inStep` the
channel gives out every frame once, whole, at its last byte, and nothing else, and
stays so until a disturbance, which is possible only while not `calm` (so that a frame
that the parser drops is not taken for one that was cut). A byte out of step, a byte
of noise and a hang-up promise nothing but types; `LossIsBounded` and `Recovers` say how
being out of step ends.

### Balance

`pc` walks through one period: the command, the gate in `app_main`, the test in
`balance_step`, load and store of the slewed references, load and store of their
second clamp, their use, then the LQR or, one after another, the three PID
controllers, each with a load of its integrator, its store, and its output.
`balance_set_mode` (the lines `balmode` and `lqr on`) and `PidLine` come between any
two. `base` is a ghost: the values the next reference may start from. `steps`,
`fed` and `torn` are ghosts of each controller since its last reset: errors
integrated, whether it met NaN, whether an update that had loaded the old
integrator stored it after the reset.

## 3. What is checked

| Run | Verdict | Question |
|---|---|---|
| `cmd_timeout` | pass | `RemoteIsFresh`: a remote motion that moves the robot is never older than its timeout plus twice the loop's lag. `OwnerlessIsHeld`: an unowned motion is braked at zero unless a command tore the expiry. `EstopIsStill`: a stop in force carries no motion, no balancing and no clear. `TimeoutOnlyLateOrRaced`: the AI box loses the motion only when late, or when its command raced the clock sample. `ConsoleNeverExpires`. `IsMotionOwner`: all of it implements `MotionOwner`. `SilenceIsNoticed`: a silent owner loses the motion (liveness). |
| `early_timeout` | violation | PROTOCOL.md's 300 ms. A frame stamped after the loop's sample looks 2^32 ms old and is expired at once. |
| `orphan_motion` | violation | PROTOCOL.md's HOLD after a timeout. A frame between the brake and the release leaves a moving command that nobody owns and nothing expires. |
| `console_brake` | violation | PROTOCOL.md's "until brake". The console's ownership, taken by the boot command already, is never given up. |
| `app_uart` | pass | `FaultSafeMotorsOff`, `EstopTakesEffect`, `LatchedFaultIsSafe`, `BalancingDrivesBothWheels`, `DeadImuNeverDrives`, `FaultLeftByClearOrRace`, `ConsoleKeepsMotion`, `IsMotionOwner`, with frames handled in the interrupt. |
| `app_net` | pass | `FaultSafeMotorsOff`, `EstopTakesEffect`, `EstopIsServed` and `DirectIsServed` (liveness) with frames handled in the loop: a stop reaches `FAULT_SAFE` and a direct command leaves its slot. |
| `sticky_clear` | violation | ARCHITECTURE.md: `FAULT_SAFE` is left by a clear. A clear that is still the last command also clears the faults that follow it. |
| `lost_estop` | violation | PROTOCOL.md: an AI ESTOP leads to `FAULT_SAFE`. The next frame may take its flag away before a period sees it. |
| `net_race` | violation | PROTOCOL.md's priorities. A network frame admitted before a console line is stored over it. |
| `ring_buf` | pass | `IsByteQueue`: writer and reader, interrupting each other anywhere, implement a queue of `Cap - 1` bytes. `CountIsPoppable`: as many bytes as the count said can be popped. |
| `links` | pass | `IsFrameChannel`: parser and line implement `FrameChannel`. `HandledIsIntact`: only a frame that arrived in one piece is handled. `LossIsBounded`: a disturbance costs at most (PAYLOAD_MAX + 6) / 5 frames. `MarkedIsRecent`, `LostOnlyIfSilent`: a client is reported only while heard, and given up only when silent (or when its bytes came after the loop read the time). `Recovers`: on a settled line frames are handled again and again (liveness). |
| `balance` | pass | `SlopeIsLimited`: a used reference is at most one slope step from the last, or from zero after a reset. `NaNHasACause`: NaN is used only where its cause is in force. `WindupIsRecent`: an integrator holds only errors since its last reset. `BrakeStops`: a brake brings the reference to zero (liveness). |

What the passing runs do **not** say is in the exceptions they name: a stop that
cuts into an actuation really does let the motors run until the next period
(`pc \notin Actuation`, `raced`), a clear really is sticky, an expiry really can be
torn. `EstopTakesEffect` shows the first heals by itself: the flag of the
command brings the stop back in the next period, unless a command replaces it.

### Bounds

* `Refs` has two values, zero and one other: the arbiter copies a velocity or
  clears it, and the only test of its value is whether it is zero.
* `ClockMod = 5`, `AiTimeout = 1`, `RcTimeout = 0`, `MaxLag = 1` in `cmd_timeout`:
  the smallest clock that satisfies `LagAssumption`. It wraps every five ticks,
  so every age occurs across a wrap. The theorems hold for all values, the real
  2^32, 300 and 200 among them.
* `MaxLag`: the clock advances at most this much between two samples of the loop.
  It bounds one iteration of the loop, which never waits, and is a constant of the
  model, not of the code; `QuietCap` stops the ghost clock one past the lease.
* In `AppLoop` stamps are 0 and `ClockMod = 3`: the tick tries every clock value,
  so "expired" and "not expired" are both open whenever a remote source owns the
  motion. At most one network frame per poll.
* One fault bit: bits are only collected, tested for none, and cleared together.
  One balance mode besides `OFF` (LQR): the loop only distinguishes `OFF`.
* Two direct commands in `app_uart` (a mode for one wheel, a speed for both), one
  in `app_net`, none in the others; `posset` writes a register nothing reads.

* `ring_buf`: three places, so the buffer holds two bytes and wraps all the time;
  two values, so that an exchanged or repeated byte shows.
* `links`: the program's sync bytes and checksum; `PayloadMax = 4` instead of 32, so
  that a length byte can be zero, fit exactly, or be one too large. The frames are
  a BRAKE (no payload) and an LQR whose one payload byte is 0xAA, so that a parser out
  of step can wake up inside a frame. The noise bytes are 4 (the longest length), 5
  (one more) and 0xAA: with them the parser can be brought into every state, and the
  bound of two lost frames is reached. `NetTimeout = 2`,
  `MaxLag = 1`, `ClockMod = 8`: the smallest clock that `NetAssumption` admits is 6;
  it wraps. At most two bytes wait in the socket, so frames are cut across chunks.
* `balance`: one axis, because the two axes run the same code and share no variable
  (the order of three controllers is covered by the theorems); references beyond
  the limit on both sides and NaN, `Limit = 2` and `Step = 1`, so a reference takes
  several periods to arrive and every value occurs; `ILimit = 2`, `Gain = 1`, so an
  integrator saturates after two errors. `steps` stops counting once the errors
  counted could fill the integrator.

### Fairness

`WF_vars(Loop)`: the main loop has no wait in it, and interrupts take less than
the processor; so it always takes its next step. (The Ethernet port example, not
compiled by default, may block in `accept` and `recv`; the assumption excludes
it.) `WF_vars(ClockTick)`: the timer runs. `SF_vars(PeriodDue)`: whether a period
is due is a free choice in `AppLoop`, and the clock makes it due again and
again; the loop leaves the place where it is tested each time, so weak
fairness would not be enough. Nothing is assumed of interrupts.
In `Links` also: a settled AI box goes on calling, sending and delivering
(`WF_vars(settled /\ ...)`), without which no frame could be expected. In `Balance`
`WF_vars(Period)`: periods go on, as `AppLoop` shows of the loop.

### Abstractions

* Both receive interrupts have the same priority: neither interrupts the other.
* An interrupt's handler is atomic towards the loop, and the loop's own
  operations are split where it matters. Five are not split. The `estop` branch
  of an injection by the loop and `app_request_estop` called by the loop: every
  store moves towards the stopped state. The merge of an admitted network frame:
  its test and its stores are two steps, the stores themselves one. The copy a
  network heartbeat makes of the stored motion. A `|=` on the fault mask: a clear
  that falls into that read-modify-write counts as a clear just before it.
* The lines `ai on|off`, `rc on|off` and the RC receiver appear in `CmdTimeout`
  only: they change who is admitted, which `AppLoop` has in other ways.
* A failure of the motor port at boot is possible in the model, although the
  port in the repository always succeeds.
* In `AppLoop` balance torques, speeds and currents are zero or not zero.
* In `Balance` references and integrators are scaled integers or NaN; measurements,
  errors and torques are only NaN or not. The three gains of a controller are
  NaN together or not at all. The references of both axes are loaded, and stored,
  in one step; an integrator's update is one load and one store.
* `LossIsBounded` is about frames without a false start (`NoStartInTail`): after its
  first byte a frame has neither the two sync bytes in a row nor the first of them
  at its end. A parser that is out of step takes either for the start of a frame,
  and a sender that repeats such a frame can lose it for ever; both halves of the
  condition are needed (with an LQR payload `0xAA 0x55`, or `0x78`, whose checksum is
  `0xAA`, TLC finds more frames lost). `MCLinks` asserts it of its frames. Nothing else
  about the links depends on it. `accept` is taken to return at once when nobody calls.
* In `RingBuf` accesses happen in the order of the source. Neither index is volatile
  and the buffer has no barrier; a compiler that moves the store of a byte behind
  the store of `head` is not modelled. Nothing in the repository uses the buffer
  yet; the model has the one writer and one reader it can be used by.

### What the properties excuse

Where the code lets a race have an effect and no document forbids it, the property
excuses that one case by name and refuses every other. An expiry that a command
interrupts (`torn`) may end a console motion; `orphan_motion` shows the worst of it.
A stop that falls into an actuation (`raced`) may be undone until the end of the next
period, and may leave the wheels in different modes meanwhile; boot stores over a stop.
A reset of the balance controller that an update overtakes may be lost. A receive
stamp later than the poll's clock sample marks a live client as lost
(`StampAfterNow`). An integral kept while balancing is off is not refused, nor is a
count of the ring buffer taken while its index wraps. The notes of the hazards in
PROJECT.json repeat this beside each line.

## 4. What is proved

Every safety property of the passing runs, and each of the four refinements, is also
a theorem, for all constants that satisfy the named assumptions of the modules (each
`...Assumption` stands where its constants are declared). Three theorems have a
hypothesis of their own, given with them: two need the AI box on the UART, one needs
frames without a false start.
`CmdSourcesProofs` has the lemmas both parts share: every constructor fills in a
command (`CommandTypes`) in the name of the source that made it (`CommandSources`),
injecting a command keeps the arbiter's types (`InjectTypes`), and what an injection
and each store of an expiry do to the owner and the robot (`InjectOwner`, `StoreOwner`).

| `CmdTimeoutProofs` | Statement |
|---|---|
| `TypeCorrect` | `Spec => []TypeOK` |
| `EstopStaysStill` | `Spec => []EstopIsStill` |
| `OwnerlessStaysHeld` | `Spec => []OwnerlessIsHeld` |
| `RemoteStaysFresh` | `Spec => []RemoteIsFresh` |
| `ConsoleStays` | `Spec => ConsoleNeverExpires` |
| `EarlyOnlyIfRaced` | `Spec => TimeoutOnlyLateOrRaced` |
| `ImplementsMotionOwner` | `Spec => IsMotionOwner` |

| `AppLoopProofs` | Statement |
|---|---|
| `TypeCorrect` | `Spec => []TypeOK` |
| `LatchedStaysSafe` | `Spec => []LatchedFaultIsSafe` |
| `FaultSafeIsOff` | `Spec => []FaultSafeMotorsOff` |
| `DeadImuStaysOff` | `Spec => []DeadImuNeverDrives` |
| `EstopEndsSafe` | `Spec => []EstopTakesEffect` |
| `BalancingDrives` | `Spec => []BalancingDrivesBothWheels` |
| `FaultIsLeftByClear` | `Spec => FaultLeftByClearOrRace` |
| `ConsoleOutranksUart` | with `AiPort = "uart"`, `Spec => ConsoleKeepsMotion` |
| `UartImplementsMotionOwner` | with `AiPort = "uart"`, `Spec => IsMotionOwner` |

| `RingBufProofs` | Statement |
|---|---|
| `TypeCorrect` | `Spec => []TypeOK` |
| `CountKeepsItsPromise` | `Spec => []CountIsPoppable` |
| `ImplementsByteQueue` | `Spec => IsByteQueue` |

| `LinksProofs` | Statement |
|---|---|
| `TypeCorrect` | `Spec => []TypeOK` |
| `IntactHolds` | `Spec => []HandledIsIntact` |
| `LossHolds` | with `NoStartInTail`, `Spec => []LossIsBounded` |
| `MarkIsRecent` | `Spec => []MarkedIsRecent` |
| `LostIfSilent` | `Spec => LostOnlyIfSilent` |
| `ImplementsFrameChannel` | `Spec => IsFrameChannel` |

| `BalanceProofs` | Statement |
|---|---|
| `TypeCorrect` | `Spec => []TypeOK` |
| `SlopeHolds` | `Spec => SlopeIsLimited` |
| `NaNIsRecent` | `Spec => []NaNHasACause` |
| `ResetForgets` | `Spec => []WindupIsRecent` |

**CmdTimeout.** `IInv` is the type invariant with `EstopIsStill`, `OwnerlessIsHeld`
and `ExpiryProgress`; the last says what the stores of an expiry have achieved at
each place (`zero`, `brake`, `release`) if nothing tore it, and that the motion being
taken away is still a remote one. Without it the release store could make
anything ownerless. `RemoteIsFresh` and `TimeoutOnlyLateOrRaced` need `FreshInv` as well:
while a source owns a motion that is not a stop, the ghost `quiet` *is* the age of
its stamp, and that age is at most the timeout, plus the loop's present lag, plus
(between the sample and the tick) one more `MaxLag`. The step of the clock and the
step of the tick rest on lemmas about unsigned ages (`AgeCases`, `AgeNext`,
`AgeTriangle`, `AgeSplits`). `ClockMod > AiTimeout + 2 * MaxLag + 1` rules out that an
age wraps before it is noticed: that assumption is the condition under which the
timeout of the code works, and with 2^32 ms it holds for any lag below 24 days.
`ImplementsMotionOwner` needs no more than `IInv`. A command maps to `Take` or `Stop` of its
source, or to a stutter if it is not admitted; that it takes the motion only from its
equals and inferiors is `Outranks`. The tick's test maps to `Notice`, the store that
brings the robot to rest to `Settle` (the other one to a stutter), the last store to
`Release`, which finds the robot at rest by `ExpiryProgress`; a stop in force is held
already (`EstopIsStill`), so these never turn a stopped robot into a held one.

**AppLoop.** Four invariants, one per concern, each inductive on its own (the third
with the types): `FaultInv` adds to `LatchedFaultIsSafe` that nothing is latched
past the test of `safety_update`; `OffInv` says boot leaves the motors off and that
everything past `imu_update` has a live IMU; `StopInv` follows a stop from the
request through the stored motion and the period's copy of it to the test that
aborts the period; `RaceInv` says what each place of the actuation has achieved
unless a stop cut into it, which also carries `FaultIsLeftByClear`. For `ConsoleOutranksUart` the loop must not inject
(`NoNetSteps`), which is exactly what fails on Ethernet. `UartImplementsMotionOwner` rests
on `MotionSteps`, which sorts all steps of the application into four kinds (a command
of the console or the AI box, the test of the tick, one of its stores, and those that
touch neither the motion nor the expiry) and on `OwnerInv`: a stop in force is held, and
an expiry that nothing tore has achieved what its place says.

**RingBuf.** The invariant behind the refinement says what each caller has
achieved at its place: after its test the writer still has a free place whatever
the reader does, because only the writer moves `head`, and likewise the reader a
byte; the byte the reader has copied is still the one at `tail`; the one the writer
has stored is already at `head`. Each step of `RingBuf` then maps to one step of
`ByteQueue` or to a stutter; the two that change the queue rest on lemmas that say
how `Queued` grows at its end and shrinks at its front around the end of the buffer.

**Links.** Three inductive invariants. `NetInv` is the argument of `CmdTimeout` for the
link: the loop's reading is `lag` ticks old, `quiet` is the age of the stamp while it
counts, and while a client is reported `quiet` is at most the timeout, the lag and,
inside a turn, one more `MaxLag`; seen from the loop's older reading the same stamp is
younger or in the future (`OldEarlier`), which is the exception `LostOnlyIfSilent`
names. `LinkInv` has beside the types `ShapeInv`: the bytes since the parser woke up are
exactly what it has stored, so that what it hands over is their frame; the checksum
enters only as an arbitrary function of those bytes. It suffices for
`ImplementsFrameChannel`: a byte of the sender maps to `Byte` or `Last`, noise and a cut to
`Disturb`, settling to `CalmDown`, everything else to a stutter (`StreamSteps`), and `InStepKept` shows that a parser
in step with the sender (same place in the same frame, same contents) stays in step
and gives the frame out at its end. `LossInv`, on top of it, says that the parser is in
step, or loose, or missing a frame. Loose, it is in a frame that is not there, whose
end is `Left` bytes away, and `5 * lost + pos + Left` is at most `PayloadMax + 2`; every byte
lowers `Left`, or at the end of a whole frame (five bytes or more) trades `pos` for one
more `lost`. Missing, it waits for a start while the rest of a frame goes by: a first
sync byte may wake it there, but the next byte is part of the frame and not the second
one (`NoStartInTail`, `Awaiting`), so it is in step when the next frame starts. One in
`SYNC1` or `LEN` at the start of a frame meets a first sync byte that is neither the
second one nor a length (`SyncAssumption`).

**Balance.** Three invariants on top of the types, each inductive with them:
`SlopeInv` says that at each place of the update the value in memory, and the one
computed and not yet stored, is within a step of a value in `base`; `NaNRefInv` and
`NaNPidInv` follow a NaN from the command or the gains to where it is stored;
`WindupInv` bounds the integral that has been computed and not yet stored. That a
reset can fall between a load and its store is what makes them more than the
properties themselves.

Only model-checked, in the passing runs: the liveness properties `SilenceIsNoticed`, `EstopIsServed`,
`DirectIsServed`, `Recovers` and `BrakeStops`. Liveness under fairness is beyond the
proof system used here. That `Crc8` computes CRC-8 is not proved either (it is a
recursion over data); `links` runs with it, the theorems hold for any checksum.

## 5. Observed, without a run of its own

Behaviour the models show and no document contradicts, or code that nothing calls:

* a direct command stays in its slot through a stop and a clear: after
  `speed both 60`, `estop`, `clear` a nonzero speed is set (`AppLoop`: `ConsoleDirect`,
  `ConsoleEstopLine`, `ConsoleClearLine`, then a period);
* a direct command stored between `get_direct`'s copy and its reset is lost;
* `lqr off` leaves the last torque in the motors, in mode `TORQUE` and enabled;
* a mode that becomes OFF after `balance_enabled` was tested still runs the LQR once,
  because `balance_step` only compares the mode with PID;
* the slewed references survive `lqr off`; a later `lqr on` resumes from them, since
  it resets them only when the mode had been OFF;
* NaN passes the clamps and the slope limit into the torques; the next finite
  command ends it in the reference, and only a reset in an integrator;
* `net_link_poll` can drop a connection in the very turn that received from it,
  when the stamp is newer than its argument; a stamp of 0 never times out; the port
  does not tell the link that it closed the socket;
* the CRC of a telemetry frame is stored at index 18 of `frame[18]`, in a function
  that nothing calls.

## 6. Plan

Done, in the order of what matters most: ownership and expiry (`CmdTimeout`); stops,
faults, clears and actuation (`AppLoop`); the ring buffer as a queue (`RingBuf`); the
parser and both links (`Links`); the balance controller (`Balance`); every safety
property of these as a theorem; and what the arbiter and the parser promise, as
abstract specifications that the detailed ones are proved to implement
(`MotionOwner`, `FrameChannel`).

Left:

1. An abstract *fault latch* that `AppLoop` implements, from the state diagram of
   ARCHITECTURE.md (running, stop asked, stopped, cleared, with the motors), which
   would join `EstopTakesEffect`, `FaultSafeMotorsOff` and `FaultLeftByClearOrRace` in one
   statement; and a one-place mailbox for `DirectSlot`.
2. The feedback of the motors with its signs, once the port is more than a
   placeholder, and the position that `status` and `pos` advance by reading it.
3. A property that refuses a direct command older than a stop, if the documents
   come to say that a stop empties the slot.

## 7. Not modelled

* The console's line buffer and its tokens: a line is one step, and what a line too
  long or half understood means is decided in straight code without state.
* The feedback of `motor_port_fsp.c`: it integrates the commanded speed in place
  of a sensor, so what the balance controller would measure is not in the repository.
* The floating-point sums of LQR, PID and the attitude filter: neither tool has
  floating point; what is kept of them is stated under *Abstractions*.
* The register-level IMU driver, whose port is a weak stub: only success and
  failure matter to the rest. The sockets behind the Ethernet port: external.
* The offline gain generator and the tables it writes: no state.
