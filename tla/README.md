# TLA+ models of RP3_AWS_IOT

The repository holds the device side of a small Raspberry Pi / LPC40xx sensor
project: kernel drivers for a DHT11 sensor and for a software UART, user-space
programs around them, and FreeRTOS programs for an LPC40xx board (two MP3
players and a UART loopback). The programs are short, but most of them live
between an interrupt or a timer, a process or task, and a device that may not
answer. That is what the modules here are about: which interleavings the code
allows, what it promises under them, and where its own comments and README
promise more than the code keeps.

Line numbers are those of the files under `src/`.

## 1. Inventory

| Component | State it keeps | Operations | Module |
|---|---|---|---|
| DHT11 driver (`dht11km/dht11.c`; `dht11_paul.c` is the same program with other log calls) | `gpio_mutex`, `gpio_completion`, `timeBit`, `nBit`, `dht11`, `msg`, `msg_Ptr` | `open` (does the whole reading), `read`, `close`, `irq_handler` | `Dht11` |
| ... its load and unload (162-252) | pin, device number, cdev, class, device, the mutex | `init`, `exit` | `Dht11Module` |
| DHT11 driver, first version (`dht11km/old_version_dht11km.c`) | `Device_Open`, `dht`, `bitcount`, `bytecount`, `started`, edge enables | the same four | `Dht11km` |
| ... its load and unload (209-273) | the registered device, the reserved and mapped registers, the use count | `init`, `exit` | `Dht11kmModule` |
| Software UART driver (`RpiSoft-UART/softuart.c`) | `TX_BUFFER`, `RX_BUFFER`, `RX_DATA`, each timer's `bit`, `LOOPBACK`, the line | two hrtimer functions, sysfs `data` (write, read), `loopback` | `SoftUart` |
| ... its pins, rate, load and unload | `GPIO_TX`, `GPIO_RX`, `BAUDRATE`, GPFSEL registers, the files, which timers are armed | sysfs `gpio_tx`, `gpio_rx`, `baudrate`, `ModuleInit`, `ModuleExit` | `SoftUartModule` |
| MP3 player (`LPC40XX_MCU_RTOS/SPI_UART/main_mp3.c`) | song pointer and position, `mp3Size`, `sdready`, task states | `run`, `mp3sdcard`, `music_control`, `rx_task` | `Mp3Player` |
| ... its interrupt-driven UART (`SPI_UART/uart_lab.c`) | receive register, interrupt enable, receive queue | interrupt handler, `uart__enable_receive_interrupt`, `get_char_from_queue`, `polled_get` | `UartLab` |
| UART loopback (`UART_LoopBack/*`) | the UART's registers, the place of each task | a task that puts, a task that gets and prints | `UartLoopback` |
| VS1053B player (`VS1053B_SPI/*`) | `Q_songdata`, SPI bus, chip selects, DREQ | reader task, player task, `task_spi` | `Vs1053Player` |
| User-space DHT11 reader (`USER_DHT11/dht11.c`) | `dht11_dat`, the loop's counters | one polling loop, again and again | `Dht11User` |
| User-space serial programs (`USER_UART/*`) | terminal settings, what was read, results of calls | open, set, read with timeout, write; `main` | `SerialPort`, `UserUart` |
| CPU usage meter (`CPU_USAGE/cpuusage.c`) | two samples of `/proc/stat` | sample, subtract, print | `CpuUsage` |
| Makefiles, `EXAMPLE_DHT11.py`, READMEs | none | none | not modelled |

How they interact. A process opens `/dev/DHT11`; `open` pulls the start pulse,
requests the edge interrupt, and waits on a completion which the interrupt
handler raises when 41 pulses are in. `read` then only copies the message that
`open` composed. The two drivers share nothing; within each, what matters is
shared memory between process context and interrupt (or timer) context. In the
software UART the sysfs callbacks and the two timers share the buffers without
any lock. In the LPC programs the tasks share globals, one queue and the SPI
bus.

What makes each component correct, and what is hard about it:

* **DHT11 driver.** Sessions exclude each other on every path; a completion or a
  pulse of one attempt never counts for another one; decoding sees a quiet
  array; `OK` is said only of a frame whose checksum holds; `open` returns even
  if the sensor never answers. Hard: the interrupt races the timeout, the
  completion is a counter and is not reset by a retry, `nBit` has no bound.
* **First DHT11 driver.** The same promises, but with a counter in place of the
  mutex, decoding inside the handler, interrupts left on after a good frame, and
  edge enables that are switched off with an exclusive or.
* **Software UART.** Bytes arrive as written; nothing is stored behind a buffer;
  nothing stale comes back after an overflow or a read; the transmitter
  always drains and leaves the line idle. Hard: TX_BUFFER is a stack whose top
  is looked up again for every bit, a store finds its index before it stores and
  finds out afterwards that the buffer is full, a read copies before it clears, and
  a timer tick, or on a Pi 2 or 3 a part of one, fits between any two of these.
* **LPC programs.** A song's blocks reach the decoder in order and complete; a
  pause leaves no task suspended for ever; an error of the card does not stop the
  player; the set-up of the decoder while the song plays spoils little of it. Hard:
  suspended and resumed tasks, a queue of length one, variables tested and set by
  different tasks, results of the card that nobody looks at.
* **Kernel modules.** A load that fails at any step leaves nothing behind, an open
  session keeps its module, registers are mapped when they are used. Hard: devices
  and files are live before `init` and until late in `exit`, so calls overlap both.
* **UART programs.** Bytes come out in the order of the line and at most once; the
  loopback goes on for ever. Hard: the polled read waits for the next byte before it
  returns the last, another one returns without a byte and does not say so, a queue
  that is full or replaced loses bytes.
* **User-space programs.** A sensor or a peer that stays silent must not be
  taken for data, and must be noticed; a call that fails must not pass for one that
  succeeded; counters that wrap, and CPUs that come and go, must not be taken for
  load.

`PROJECT.json` lists under `hazards` each of these at the line where it bites,
with the properties that would catch it.

## 2. Modules

`DeviceSession` is the abstract specification of a file that one process at a
time may have open: it is acquired when free, its owner publishes at most one
report, and releasing it withdraws the report. Both DHT11 drivers are shown to
implement it. `ByteChannel` is the abstract specification of a serial line: bytes come
out in order and at most once, and stretches of them may be lost. The three UART
programs are shown to implement it.

`Dht11Frame` holds what the two drivers make of a frame: five bytes, the value
of a byte, the checksum comparison. The sum is not reduced modulo 256, as in
the code.

`Dht11` models the driver. Correspondence:

| Model | Code |
|---|---|
| `Open`, `OpenBusy` | `mutex_trylock` and `reinit_completion`, 255-267 |
| `StartRead`, `setup_interrupts` | the start pulse and `request_irq` (which may fail; its result is ignored), 269-282 |
| `IrqLow`, `IrqHigh` | `irq_handler`, 127-140, on a low and on a high line; `Record` is line 136 |
| `IrqLate` | the handler of a rising edge that runs so late that it reads the next low |
| `LostEdge` | an edge of the sensor while no interrupt is requested (environment) |
| `WaitCompleted`, `WaitTimedOut` | `wait_for_completion_timeout`, 284-285 |
| `clear_interrupts` | `free_irq`, 313-317 |
| `DecodeGood`, `DecodeBad`, `GiveUp` | `dht11_decode` and what `open` makes of it, 286-302 |
| `ReadEof`, `ReadBegin`, `ReadEnd` | `read_dht11`, 320-328; the NUL test and the moves of `msg_Ptr` are two steps |
| `Close` | `close_dht11`, 305-311 |

A byte has `BYTE` bits and a pulse is one of `Widths` microseconds; the
thresholds `bitM` and `bitN` are the code's. A step of a process is a stretch of
`open` that nobody can interrupt observably. `lows` counts the falling edges that
the sensor shows after a start pulse, at most `MaxLows`. The handler never tests
`nBit`, so `timeBit` here has the words behind the array too, as many as those edges can
reach; what the linker puts there is not modelled. The histories are `taken`, the pulses
recorded since the start pulse, and `late`, whether a handler of this attempt was late.

`Dht11km` models the first version. `Device_Open++` and `--` are a load and a
store; the test before them is a third step. `RisingEdge` and `FallingEdge` are
the two live branches of its `irq_handler`; `clear_interrupts` negates the edge
enables, as the macros at 81-83 do. `request_irq` may be refused at any time,
with both continuations of `setup_interrupts`. The history `recorded` has the
bits taken since the start pulse, `refused` whether a request was ever refused.
The constant `Spaced` is an assumption on callers: no `open` begins while another
`open` or `close` stands between its accesses to `Device_Open`.

`SoftUart` models both timer functions, the `data` file and the `loopback` file.
Correspondence:

| Model | Code |
|---|---|
| `Tick`, `TxStart`, `TxData`, `TxStop`, `TxPop` | `FunctionTimerTX`, 106-130; `Tick` is the look whether there is something to send, 110; 122 is a `strlen` (`TxStop`) and a store (`TxPop`) |
| `RxIdle`, `RxStart`, `RxData`, `RxStop`, `RxStore`, `RxCheck`, `RxClear` | `FunctionTimerRX`, 133-164; 155 is a `strlen` (`RxStop`) and a store (`RxStore`), 157-158 the overflow |
| `Write`, `StartTimer` | `set_data_callback`, 215-240: its beginning and its end |
| `FindEnd`; `StoreTx`, `CheckTx`, `ClearTx`; `StoreRx`, `CheckRx`, `ClearRx` | its loop, for one character: the `strlen` that indexes the store, the store, the test for a full buffer, the `memset` |
| `CopyOut`, `ClearOut` | `get_data_callback`, 243-251 |
| `SetLoopback` | `set_loopback_callback`, 254-267 |

`GPIO_RX` is taken to be wired to `GPIO_TX`. The ticks of the two timers alternate
(`lead`), except that `hrtimer_start` makes a transmit tick due at once (`kick`).
`Quiet` is an assumption on callers: they wait for an idle line and no tick falls
into a write.

Each look at a buffer and each change of one is a step of its own, in the timer functions
as in the callbacks. `softuart.c` knows the Pi 2 and 3 (31), which have four cores: there
a read can clear `RX_BUFFER` between the receiver's `strlen` and its store, and a tick
finds the buffer that a write has filled and not yet cleared. Such a buffer has no NUL, so
the arrays have one more byte here, zero until somebody stores into it, and `StoresInside`
says who does not. Only the two timer functions do not cut each other; they share nothing
but the line. The history `cleared` says that an overflow has cleared `TX_BUFFER`, `raced`
that a read cleared `RX_BUFFER` where the receiver was about to store.

`SoftUartModule` models the rest of `softuart.c`: how the module comes and goes, and
the files that change its pins and rate while it is there. What the timers do is
left to `SoftUart`; here they are armed or not. Correspondence:

| Model | Code |
|---|---|
| `LoadWord`, `StoreWord` | `GPIOFunction`, 82-85: a load and a store of the word of GPFSEL that the pin lies in |
| `Release` ... `DriveStore` | `set_gpio_tx_callback`, 167-183; at 180 the compiler may read `GPIO_TX` again or keep the value |
| `RxAssign`, `Listen`, `ListenStore` | `set_gpio_rx_callback`, 186-200 |
| `SetRate`, `StartTx` | `set_baudrate_callback`, 276-289; the end of `set_data_callback`, 237-239 |
| `InitPins` ... `CreateFile`, `Halted` | `ModuleInit`, 308-340; each `BUG_ON` ends the load where it is |
| `CancelTx` ... `FileRemoved` | `ModuleExit`, 343-355; `device_remove_file` lets no new call in and waits for those that are in (external) |
| `ClassUnregister`, `ClassDestroy` | 356-359; 359 releases again what 358 has released: it goes unnoticed or ends the process in the middle of the unloading (`oops`, where `Halted` stays) |

A file may be written as soon as it exists, that is, during `ModuleInit` and
`ModuleExit` too. The `loopback` file exists but nobody writes it here; `SoftUart`
has it. The history `late` says that a call overlapped the unloading, `overlap` that
two calls did, or a call and an unloading, `torn` that a thread stored over a word of GPFSEL
which another thread had changed since it was loaded, so that a function was lost.

`Dht11Module` models how the DHT11 driver comes and goes. What an `open` does is left to
`Dht11`; here it is a session. Correspondence:

| Model | Code |
|---|---|
| `Insmod` ... `InitLocks` | `dht11_init_module`, 162-227; `Acquire` is a call that succeeds or jumps to its label |
| `cdev_del`, `unregister_chrdev_region`, `gpio_free` | the labels 229-240, and the end of `dht11_exit_module` |
| `Rmmod`, `device_destroy`, `class_destroy` | `dht11_exit_module`, 242-247; `fops.owner` (81) holds it back while a file is open |
| `open_dht11`, `close_dht11` | 255-263 and 305-311, possible from `device_create` on |
| `OtherDriver` | another driver that requests the pin; `gpio_free` frees it whoever requested it (external) |

`device_create` fails with an error pointer, which its test for `NULL` misses, so that a
module without a device goes live. The history `raced` says that `mutex_init` found a
session.

`Dht11kmModule` does the same for the first version, whose operations have no owner:
`CheckPin` ... `ioremap` are 224-259 with `init_port` (209-222), which leave what they
have acquired when they fail, the registered device included; `OldRmmod` ...
`unregister_chrdev` are 261-273; `OldOpen` ... `clear_interrupts` are what 276-380 do to
the use count and the registers. `Dht11km` has the races of two opens; here
`Device_Open` is taken at its word. The history `overlapped` says that an open fell outside
the life of the module, or that the unloading found a call under way.

`Mp3Player` models the four tasks of `main_mp3.c` at the grain of single accesses to
what they share. Correspondence:

| Model | Code |
|---|---|
| `Boot` | `vTaskSuspend(NULL)`, 264 and 309 |
| `Outer`, `Inner`, `SendFirst` ... `TestPos` | the loops of `run`, 269-305; `songPos++` is a load and a store, and a block's first and last byte are fetched in two steps |
| `OpenSong`, `RewindPos`, `ReadBlock`, `FirstReadDone` | opening and the first `f_read`, 331-345 |
| `ReadFails` | an `f_read` that fails (345, 351): the result is not looked at, and `buf` and the position stay |
| `Refill`, `ReadBlock`, `RefillDone`, `RestartPos`, `SetReady` | 348-357 |
| `SongFinished`, `ForgetSize` | 359-363 |
| `Key`, `Poll`, `Switch` | `rx_task`, `music_control` |

Blocks are numbers; `played` is what went to the decoder since the song's first
refill. A failed read or a failed seek of the opening sets `song_err`, and no read of the
file succeeds any more; the buffer is sent again and counted all the same. A task that is
suspended takes no step; `run` stops for good when its
function returns (`Outer`).

`Vs1053Player` models reader, player and `task_spi` of `VS1053B_SPI/main.c`. `f_read`
may be short or fail, and a file that has failed stays so; the rest of the buffer is
what was there. `task_spi` has the higher priority, so its stretches between delays
are single steps, but they fall between any two bytes of the player. `InitDecoder` takes
the data select away (`main.c` 339); `dec_rst`, 100 ticks later, resets the decoder, which
forgets the part of a buffer that it has and keeps DREQ low until `ResetDone`, so that
`mp3_decoder_needs_data` holds the player back (81-88, 342). The history `top` is the
furthest chunk of this round handed to the bus, `cuts` counts the buffers of which a part
met no select or a decoder in reset.

`Dht11User` models the polling reader. `Poll` is one turn of the inner loop (39-48),
`Transition` and `NoTransition` what follows it (49-62), `Check` the test at 69,
`ReadAgain` the loop of `main`. The line is a number of edges, `phase`; `EndPhase` is the
next edge. How many polls fall into a phase is left open but for the one thing the program
relies on: an undisturbed high phase is polled more than `THRESHOLD` times exactly for
a 1 (`InTime`). The kernel may hold the reader up, so that edges come at any time
between two of its polls; `stalls` counts them. The sensor may fall silent in any phase.

`UartLoopback` models both tasks and the UART whose output is wired to its input. Each
wait on the line status is a guard; `Get` takes the byte (`uart_lab.c` 82-85) and
`GetReturns` is the wait for the next one (86-88). The reader has the lower priority, so
it runs only while the writer sleeps. `Shift` and `Arrive` move bytes along `THR`, `TSR` and
`RBR`, `Tick` is the clock; none of them waits for a task. The history `overtaken` says that the
line or the clock went on while a task had work to do.

`UartLab` models `SPI_UART/uart_lab.c`: `your_receive_interrupt`, the two halves of
`uart__enable_receive_interrupt` (the interrupt first, the queue after it), and
`uart_lab__get_char_from_queue`, or `uart_lab__polled_get` for a task without interrupts.
That function (47-59) looks once (`PollStatus`), reads the byte if there is one
(`PollData`), and has no `return` at all: its caller gets a truth value that has nothing to
do with the byte (`PollTrue`, `PollFalse`), and may take its variable for a byte when
nothing was read (`Misled`). No program of the repository calls these functions; a task
here calls them in any order.

`SerialPort` models `thread_user_block_rp3.c`. `SetInterfaceAttribs` (34-78) may be refused,
which `main` ignores (208); then the terminal's own settings remain. `ReadData`,
`ReadNothing`, `EndOfFile`, `ReadFails` are the results of the `read` at 121, `ShowByte` is the
loop at 155-156, `sendThread` (81-104) writes to nobody who is modelled. `exit(0)` ends
both threads.

`UserUart` models `main` of `user_uart_rp3.c`, a call at a time: `MainCalls` is a call and the
test for a negative result, `sending_data` and `reading_data` return `errno` when they fail.

`CpuUsage` models `cpuusage.c`. Ten counters are two here, active and idle, modulo `UINT`.
`read_cpustat` (62-86) fills a row for each CPU that is online, `Scanned` is what `%u`
makes of a number that does not fit (undefined; the two outcomes libraries produce),
`cpusage` (50-60) subtracts the rows modulo `UINT`, `Hotplug` changes the CPUs at any
time. The histories `before` and `now` have the counters at the last two samples.

`MCPlayers` and `MCPrograms` (with `MCModules`) check several modules in one run. A variable
says which one runs in a behaviour; the others stay in their initial states.

In every module an operator with a suffix such as `_missing`, `_kept` or `_late`
is the faulty twin of the one after it. No action uses it; it records which
mistake a property is sensitive to (`mutants` in `PROJECT.json`).

## 3. Runs

Runs that pass:

| Run | What it shows |
|---|---|
| `dht11_session` | Two processes, up to 3 attempts each, the 7 falling edges of a whole frame in each. `SessionLock`: mutual exclusion, and the mutex is held exactly during a session. `QuietOutsideWait`: no step changes the pulses while they are decoded or a file is open. `FirstWakeHasFrame`: the completion that ends a first wait belongs to this open's full frame. `ImplementsSession`: refinement of `DeviceSession`. `OpenReturns`: an open that got the mutex returns. |
| `dht11_reading` | One process, session after session, pulses of both lengths, all of the frame's edges, lost and late ones among them. `MessageIsOwnReading`: if the attempt behind an `OK` recorded a whole frame, the values shown are those of the pulses taken since its own start pulse, each clearly short or long, and their checksum holds, until the file closes. (Run `dht11_fresh` has the `OK` without a whole frame.) |
| `dht11km` | The first driver, two processes, spaced opens, frames of 5 bits. `FrameAsRecorded`: `dht` is exactly the bits since the start pulse. `EdgesFollowHandler`: handler and both edge enables agree through retries and closes. `ImplementsSession`, `OpenReturns` as above. |
| `softuart_link` | Three spaced writes, loopback switched in between, two reads at any moment, on another core too, a receive buffer of two bytes, so that overflow happens. `ReceivedAsWritten`, `AllReceived`: everything arrives, in order, bit for bit, by the line and by loopback. `ReadsInOrder`: as long as loopback is left alone and no read clears the buffer between the receiver's `strlen` and its store, overflow and reads never bring back, repeat or reorder text; the buffer is the end of what was received. |
| `softuart_busy` | Ticks anywhere inside the writes of one process, either initial level of the line, up to four bytes into a buffer of two, so that it overflows under a frame. `StoresInside`: although a full buffer has no NUL until it is cleared, nothing is stored behind it. Until an overflow has cleared the buffer, `NothingDropped`: a byte leaves in a frame or is still in the buffer, and `LineIdlesHigh`: an empty transmitter is between frames. (An overflow may leave it in the middle of a byte with the line low.) `Drains`: overflow or not, it always becomes empty. |
| `players` | One of the two players. `Mp3Player`: buffer of 2 blocks, song of 4 whole blocks and a partial one, keys at any time, reads and the seek may fail. `RefillAlone`: `sdready` alone keeps refill and sending apart, whatever is suspended when. `SongInOrder`: each block after the first buffer and up to a read error is sent whole, once, in order. `SongComplete`: without an error the count `mp3Size`, with its margin, does not end the song early. `SongEnds`: if nobody stops the music, song after song is counted to its end whatever the card does, until `run` meets such an end and returns. `Vs1053Player`: buffer of 3 chunks, song of 7, so that the last buffer has a stale tail, while `task_spi` sets the decoder up. `SongGoesOn`: the next chunk on the bus is the next of the song, up to stale tails and read errors. `TwoCuts`: the deselect spoils one buffer at most and the reset another one. `SongRepeats`: once the reader has begun and while the card can be read the song starts again and again. |
| `programs` | One of the six programs or of the three kernel modules. `FrameDecoded`: an undisturbed frame is decoded exactly and printed just when its checksum is right. `SilenceIsNoReading`: a frame that was not sent to its end is never printed. `IndexInBounds`: nothing tests the index `j`, and the 85th transition would store past the array; but a frame has 84 edges, and a late reader counts fewer, never more. `LoopIsChannel`, `LabIsChannel`, `SerialIsChannel`: refinements of `ByteChannel`; for `LabIsChannel` but for the one step in which a poll reads nothing and passes for one that did. `LossIsLateness`: the loopback loses a byte only after the line or the clock has overtaken a task. `KeepsPrinting`: it prints for ever. `SilenceIsNoticed`: a reader whose settings were accepted, or whose device is gone, goes on for ever only while the peer sends. `LoadIsTrue`: the loads printed are those of the last interval, through wraps of the sum, once no CPU has come or gone for two samples. The kernel modules are loaded and unloaded in every order, with loads that fail at each point. `TxPinDriven`, with all pins in one word of GPFSEL: when no call is under way the pin the timer drives is an output, however the calls before overlapped, unless one of them stored over a word that another had changed; and if none overlapped, that did not happen and no other pin is an output. `UnloadIsClean`: when the module is gone no callback is running, and if no call ran into the unloading no timer is armed. `ExclusiveUnlessRaced`: sessions exclude each other unless an open came before `mutex_init`, and then at most two overlap, for good. `SessionKeepsModule`: nothing the module acquired goes away under a session. `NothingLeftBehind`: an absent module holds nothing, after any error path. `RegistersMapped`: the first version touches its registers only while they are mapped, except after an open or an unloading that ran into the other. |

Runs that find the code at odds with the repository's own words (`findings`):

| Run | Disagreement |
|---|---|
| `dht11_fresh` | A sensor that never answers yields `OK`: nothing asks whether a frame was recorded (dht11.c:104-124, comments at 257 and 287). |
| `dht11km_users` | Two opens pass the test of `Device_Open` together (old_version_dht11km.c:281 against the comment at 98). |
| `softuart_garbled` | A write during a transmission replaces the byte that is on the line (softuart.c:116, README.md:91). |
| `softuart_lost` | A byte stored between copy and clearing of a read is lost (softuart.c:247-248, README.md:9). |
| `user_uart` | A read that fails is printed as `errno` many bytes, and a write that fails is ignored (user_uart_rp3.c:47 and 31 return a positive `errno`; the messages at 111 and 126 are for negative results). |

### Bounds, and why they are enough

* `BYTE = 1` (or 2 where values matter) keeps five fields, each with its own
  slot; the decoders treat bytes alike, and what depends on the number of bits is
  proved for every `BYTE` (section 5). `MaxLows = 7` is one whole frame for `BYTE = 1`:
  response, 5 bits, end, one more than `TOTAL_INT_BLOCK`, as the sensor's 42 falling
  edges are one more than the driver's 41 words. One handler in an attempt may be late,
  which is enough to count an edge twice.
* `MAX_RETRY` of 2 or 3 has a first, a middle and a last attempt; the driver's 10
  (5 in the first version) adds only more middle ones.
* `MaxDone = 2` lets one completion be left over after a wait has used one. The
  counter of the kernel is saturated there; the proofs hold for any bound.
* `Widths`: 26 and 70 microseconds are the data-sheet values, 43 lies between the
  two thresholds and takes the "poor resolution" branch.
* Two processes are the smallest number that can exclude each other; the
  theorems hold for any set of processes.
* `SoftUart`: `BITS = 3` gives a first, a middle and a last data bit, all of which
  the shift register treats differently; a buffer of two bytes overflows with the
  third, in one write as well as in two; messages of one and two bytes tell a push order
  from its reverse. In `softuart_link` the writer waits (`Quiet`) and the reader does not;
  in `softuart_busy` ticks cut the writer at will. The two violating runs have a buffer of
  4, so that no overflow is needed for what they find.
* `SoftUartModule`: two callers can overlap each other and the unloading; a change
  between two transmit pins releases one and drives the other. `WORD = 3` puts
  all pins into one word, as the defaults 4 and 2 are (ten pins share one), so that every
  load and store can meet another one.
* `Dht11User`: `BYTE = 2` has a first and a last bit of a byte; `THRESHOLD = 1` and
  `LIMIT = 3` leave a short phase, a long one and one that is given up; two hold-ups
  can shift the reader by one edge or by a whole pulse.
* `Mp3Player`: two blocks to a buffer have a first and a last; 5 blocks of song make
  one refill that is full and one that is short, and the margin adds two more that
  are empty. `Vs1053Player`: three chunks to a buffer have a middle one; a song of 7
  fills two buffers and one chunk of a third. The set-up of the decoder falls anywhere in them.
* `Dht11Module`: three processes, because with two the bound of two sessions says
  nothing; `Dht11kmModule` has two, one in the way of the other. Loads are not counted.
* `UartLoopback`: 5 bytes tell every byte on its way (writer, `THR`, `TSR`, `RBR`, reader)
  from the next; `DELAY = 2` has a tick that ends a sleep and one that does not.
  `UartLab`: a queue of 2 holds, fills and overflows; bytes are numbered so that those
  under way differ. `SerialPort`: two bytes a read and two in the kernel.
* `UserUart`: `errno` may be smaller or larger than what was read. `CpuUsage`: counters of
  3 bits whose sum wraps at the second sample and which wrap themselves at the third and
  fourth; two CPUs, of which either may go and come; an interval without a tick.

### Fairness

`Dht11` and `Dht11km`: weak fairness of the steps of an `open` (and `close`) that
has begun, that is, delays and timeouts end and the scheduler does not starve a
process in the kernel. Nothing is assumed of the sensor or of processes
outside `open` and `close`. `SoftUart`: both timers rearm themselves with
`hrtimer_forward`, so each is weakly fair; a callback that has begun is finished.
Nobody is obliged to write or read. `SoftUartModule`, `Dht11Module`, `Dht11kmModule`,
`Dht11User`, `UartLab`, `UserUart` and `CpuUsage` have safety properties only and assume
none. `Mp3Player`: the tasks have one priority and the
scheduler slices time, so each is weakly fair; no key need ever be pressed.
`Vs1053Player`: reader and player likewise; opening the file is strongly fair, that is,
it succeeds now and then. In both, the decoder asks for data in the end, and the sleeps of `task_spi` end.
`UartLoopback`: the line and the clock go on and the writer, which has the higher
priority, is weakly fair. The reader is strongly fair: it is ready only while the writer
sleeps, and gets some of that time again and again, which 100 ticks of sleep per byte
justify. `SerialPort`: the system calls of `main` and of the reader return when they
have something to return; neither the peer nor the person at the plug owes anything.

Deadlock is checked in every run: no configuration turns it off.

## 4. What the models leave out

* Of the DHT11 drivers: the text of the message (its values and verdict are kept;
  a message has two positions, start and end); GPIO registers, except the edge
  enables of the first version; `sprintf(result, "BAD")` into three characters;
  what a write past `timeBit` or `dht` hits (the words behind `timeBit` keep what is
  stored there, nothing else lies in them); two reads at once, of which the second may
  begin at the end of the message and pass it (modelled, but nothing excludes it).
* Of their load and unload: that `gpio_free` takes a pin from the driver that requested it
  is modelled and excluded by nothing; opens by a device node made by hand; what an
  unmapped access hits.
* Of the software UART: the bytes further than one behind an array (a `strlen` that gets
  there is taken to end), what a copy longer than `tmp` runs over, the two timer functions
  cutting each other, a store seen late by another core;
  what the second release of the class does to memory that is not the driver's; what becomes of a machine whose timer fires after the module is gone (`Halted` says
  only that it may).
* Of the user-space reader: the start pulse, the conversion to Fahrenheit, the text.
* Of the players: what control transfers tell the decoder, both selects asserted at
  once, the set-up before the scheduler starts, functions that nothing calls
  (`sd_startup`, `scan_files`, the command-line handler).
* Of the UART programs: the register values of the two `uart_lab__init` (among them
  `(DIV >> 0) && 0xFF`, which is 0 or 1, and the set-up of UART 3 that clears a register of
  UART 2), `uart_lab__polled_put` of `SPI_UART`, spurious interrupts, queue items of
  four bytes made of one.
* Of the serial programs: what the terminal's own settings do to the bytes of a line, what
  the sender's bytes become, the straight-line tests `ref.c`, `rp3_uart.c` and
  `uart_test_rp3.c`, which open, write and read once and keep no state.
* Of the CPU usage meter: the command line, row 0 (the sum of all CPUs, which is read and
  never printed), the division, which is no number when nothing has ticked.
* Bit timing inside a tick, electrical behaviour, memory layout: out of reach of
  this kind of model.
* Makefiles and the Python example, which have no behaviour of the system's own.

## 5. Proofs

`Dht11Proofs` has the theorems of `Dht11`, for every set of processes, every
`BYTE`, `MAX_RETRY`, `Widths`, `MaxLows`, `MaxDone` and `MaxReads` that satisfies
`Dht11Assumption` and `ByteAssumption`:

| Theorem | Statement |
|---|---|
| `TypeCorrect` | `SafetySpec => []TypeOK`; the retry counter never passes the test for its last value |
| `SessionExclusive` | `[]SessionLock` |
| `CaptureIsQuiet` | `QuietOutsideWait`, an action property |
| `OkMessageIsSound` | `[]MessageIsOwnReading` |
| `FirstWakeIsFull` | `[]FirstWakeHasFrame` |
| `PointerStaysInMessage` | `[]PtrInMessage`, if one read call at a time is in flight (no run checks it) |
| `DriverImplementsSession` | `ImplementsSession`: initial states map to initial states and each step to a step or a stutter of `DeviceSession` |

The argument. `SessionLock` is inductive together with `TypeOK`; it is the base of
all the rest, because it makes "the process in a session" unique, so that a step
of one process cannot disturb what another relies on. The interrupt is installed
only while a process stands between set-up and clear: that strengthening gives
`CaptureIsQuiet`, and with it that decoding and the message see the same pulses.
For `FirstWakeHasFrame` the completion counter has to be tied to the attempt: while
the first attempt waits, a positive counter implies a full frame; this is true
because `Open` resets the counter and only a full frame raises it. Retries do not
reset it, which is why the statement is about first attempts: the wait of a retry may
end at once on completions that the attempt before left over (dht11.c:265 is not
repeated at 269), against the comment at 284. `MessageIsOwnReading` rests on `taken`: while the interrupt is requested and after it,
`timeBit` begins with the pulses of `taken` and `nBit` is their number, as long as an
attempt lasts; what lies behind them is of earlier attempts. So a frame that is whole leaves
none of the older words to the decoder. What is published is then the decoding of that
frame, and nobody but the owner writes `msg`, and no start pulse comes before the file is
closed.

`Dht11kmProofs` has the theorems of `Dht11km`, for every set of processes, every `BYTE`,
`MAX_RETRY`, `Widths` and bound that satisfy `Dht11kmAssumption` and `ByteAssumption`:

| Theorem | Statement |
|---|---|
| `TypeCorrect` | `SafetySpec => []TypeOK` |
| `FrameIsRecorded` | `[]FrameAsRecorded`, spaced or not |
| `EnablesFollowHandler` | `[]EdgesFollowHandler`, spaced or not |
| `CounterImplementsSession` | `ImplementsSession`, if `Spaced` |

The argument. `FrameAsRecorded` needs the place of the next bit: `bytecount` bytes and
`bitcount` bits are as many bits as were taken (`RecordedFits`), and no two bits share a
place (`PlaceIsUnique`). `EdgesFollowHandler` is not inductive: that the exclusive or meets
what was enabled depends on who set it up. In `HandlerInv` one process at most is between
its set-up and its clear, and the handler and both enables are on just while one is; a
second process that passed the test of `Device_Open` has its request refused, which ends what
the property says. So far `Spaced` is not used. For the refinement `SessionInv` ties
`Device_Open` to the place of the one process in session, and there it is needed: without it the run `dht11km_users`
shows two sessions. `NONE` is assumed to be no report (`NoneIsNoReport`), so that the abstract
device can tell the two.

`SoftUartProofs` has those of `SoftUart`, for every `BITS`, `SIZE`, set of messages, set
of readers and number of calls that satisfy `SoftUartAssumption`:

| Theorem | Statement | For |
|---|---|---|
| `TypeCorrect` | `SafetySpec => []TypeOK`: ranges; an index may be one that `strlen` finds behind the array | any writers and readers |
| `StoresStayInside` | `[]StoresInside` | one writer, loopback left alone |
| `NothingIsDropped` | `[](toggles = 0 => NothingDropped)` | one writer |
| `LineIsLeftHigh` | `[]LineIdlesHigh` | one writer, loopback switched at will |
| `ReadInOrder` | `[]ReadsInOrder` | one reader, any writers |
| `WrittenIsReceived` | `[]ReceivedAsWritten` | any writers and readers, loopback switched at will; `Calm` |

`OneWriter` and `OneReader` are what the driver's
README has in mind (a shell, a terminal); two writers take each other's index, two readers
clear what the other has not copied. `Calm` is `Quiet`, a line that is high to begin with
and messages no longer than the buffer: what a caller must keep to, since `softuart_garbled`
shows what happens otherwise. What an overflow of `TX_BUFFER` does to the frame under it and
to its bytes is said by nobody: `NothingDropped` and `LineIdlesHigh` end with `cleared`, and
`ReadsInOrder` ends with `raced`.

The arguments. `StoresStayInside`: whoever stores has taken his index from a buffer that
had a NUL in its array, since he has cleared the one he filled before he looks again; in
between the transmitter takes bytes away and a read clears, and neither adds any.
`NothingIsDropped`: each byte asked for is sent, in `TX_BUFFER`, or still in
the writer's hands, and where the writer is about to store there is a NUL (`KeptInv`). A tick
between `FindEnd` and `StoreTx` can only shorten the text, so that the store leaves a gap in
the buffer but overwrites nothing. `LineIsLeftHigh`: during a frame the text is not empty
(`SendInv`), which the transmitter only changes after the stop bit and one writer only adds
to until he clears. `ReadInOrder`: `RX_BUFFER` is the latest run of what was received (`LatestInv`); what
was read can be found in order before it, and what a reader has copied and not returned
behind what was read before (`ReadInv`). `WrittenIsReceived` needs all of the link: the text in
`TX_BUFFER` is the end of what was asked for, turned round (`TextInv`); what was received is
its beginning (`PrefixInv`), and nothing but one byte on the line is missing between the two
(`AllThere`); how far a write has come (`WriteInv`); the receiver is at the transmitter's bit,
or one behind it (`PhaseInv`); level and shift register hold the bits of the byte in
question (`BitsInv`).

`PlayerProofs` has those of the two players. For `Mp3Player`, for every `BLOCKS`, `FILE` and
`WHOLE` that satisfy `Mp3PlayerAssumption`:

| Theorem | Statement |
|---|---|
| `PlayerTypeCorrect` | `SafetySpec => []TypeOK` |
| `RefillIsAlone` | `[]RefillAlone` |
| `SongIsInOrder` | `[]SongInOrder`, wherever `f_read` fails |
| `SongIsComplete` | `[]SongComplete`, for a song without an error |

The argument has two layers. `IInv` is about places: when `sdready` is false, `run` is
outside the sending loop; while `mp3sdcard` refills, `sdready` is false; and
`run` keeps a `songPos` inside the buffer between its test and its increment because
`mp3sdcard` only ever sets it back to 0. That is `RefillAlone`, and it needs nothing
of the scheduler. `SongInv` counts data on top of it: where the file stands after
each refill (`ReadProgress`), what each slot of the buffer then holds
(`BufferContent`), how many blocks have been sent, as a function of `mp3Size` and
`songPos` (`SendProgress`), and that they are the file's (`PlayedInOrder`). The
block that `SendLast` appends has the index that `SendProgress` gives and the content that
`BufferContent` gives. `SongComplete` is the one place where the margin matters:
the refill that brings the count to the end is counted when `mp3Size - BLOCKS` blocks
have been sent, and that is past the file because the margin is two buffers. After an error
the file's position stays and the count goes on, so that what is sent from there on is the
buffer of the last good read: `ReadWell` is the block up to which the order holds.

For `Vs1053Player`, for every buffer length `CHUNKS` and song length `SONG`:

| Theorem | Statement |
|---|---|
| `SongGoesOnAlways` | `VsSafetySpec => SongGoesOn`, an action property |
| `SpoiltTwice` | `VsSafetySpec => []TwoCuts` |

The argument. `SongGoesOn` compares two chunks on the bus, but what comes next was decided when
the buffer was read, perhaps two buffers earlier. `VsInv` follows the song from the bus back to
the file: where the player will be when its buffer is through (`afterPlayer`), where it will
be when the queued one is through too (`afterQueue`), and that the buffer in each place
continues the one before it (`PlayerInv`, `QueueInv`, `ReaderInv`), with the stale tail of
a short read or the repeats of a failed one. `TwoCuts`:
at the deselect at most one buffer is under way, and the select is driven anew at the head
of the next; at the reset that next one may be under way, and once the decoder is in reset
DREQ lets the player begin no chunk, so that no third buffer meets it.

`Dht11UserProofs` has those of `Dht11User`, for every `BYTE`, `THRESHOLD`, `LIMIT`, `Frames`
and `MaxStalls` that satisfy `Dht11UserAssumption`:

| Theorem | Statement |
|---|---|
| `IndexStaysInBounds` | `[]IndexInBounds` |
| `SilenceIsNotPrinted` | `[]SilenceIsNoReading` |
| `FrameIsDecoded` | `[]FrameDecoded` |

The argument. Each transition that the reader counts has an edge of its own
(`EdgePerTransition`): `laststate` is read again after the inner loop (49), so that edges
passed over during a hold-up are not counted later. Bits are stored at every second
transition from the fifth on (`BitPerPulse`). Together, `j` is at most half the edges
less three: 40 at the end of a frame, and fewer than 40 as long as the last bit is out.
`FrameIsDecoded` needs more, and only of reads that nothing held up: transition `i` is the end
of phase `i`, noticed with the number of polls the phase lasted (`Followed`), so that turn `j`
stores bit `j`, and byte `b` holds the value of the first bits of byte `b` (`Stored`).
`SentByte` is a recursive function; that it satisfies its own equations is proved for every
`BYTE` with a least counterexample (`ValueUnfolds`), since an induction cannot be had here.

`ModuleProofs` has those of the three kernel modules. For `Dht11Module`, for every set
`Openers`:

| Theorem | Statement |
|---|---|
| `SessionsAreFew` | `[]ExclusiveUnlessRaced` |
| `ModuleIsKept` | `[]SessionKeepsModule` |
| `NothingIsLeft` | `[]NothingLeftBehind` |

The argument. What the module holds is a function of the place where its load or its
unload stands (`HeldByStage`), but for the device, which may be missing while the module
is live. A session needs the device, and holds back the unloading (`SessionsHaveDevice`).
The number of sessions is bounded by a sum (`SessionsCounted`): one if the mutex is
locked and one if `mutex_init` found a session. An open takes the first, a close gives
it back, and `InitLocks` turns it into the second: `mutex_init` runs once for each load, and
before it no open can have raced, so that the second is never taken twice.

For `Dht11kmModule`, for every set `OldUsers`:

| Theorem | Statement |
|---|---|
| `RegistersStayMapped` | `OldSpec => []RegistersMapped` |

The argument. As long as nothing has overlapped (`InOrder`), calls are under way only in a
live module, there is one session at most, and the use count is its own; so the unloading,
which the use count holds back, finds no call under way. The first step that breaks one of
these sets `overlapped`.

For `SoftUartModule`, for every set of callers, pins and rates that satisfies
`SoftUartModuleAssumption`:

| Theorem | Statement |
|---|---|
| `UnloadingIsClean` | `Spec => []UnloadIsClean` |
| `TxPinIsDriven` | `Spec => []TxPinDriven`, if `PinsApart` |

The argument. `UnloadingIsClean`: before the last stage of the loading there is no file, hence
no call (`FilesInv`), and an unloading that no call ran into undoes one thing after the
other (`CleanInv`). `TxPinIsDriven`: whenever the transmitting pin is not an output, some
caller is on its way to make it one (`DrivenInv`), even if another one changes the pin in
between, as long as no store has torn another's; and until something overlaps, a thread stores over
the word it has loaded (`AloneInv`), so that no store is torn (`TornInv`) and no other output
is left behind (`OnlyOutput`). `PinsApart` says that no pin is used both to send and to
receive. Pins may share words of GPFSEL as they like; that a torn store then takes the output
function back is modelled, and happens.

`ChannelProofs` has the refinements of `ByteChannel`, for every `LENGTH` and `DELAY`,
`SLOTS`, `MAX_STR_LEN` and `TTY` that satisfy the assumptions of their modules:

| Theorem | Statement |
|---|---|
| `LoopImplementsChannel` | `LoopSpec => LoopIsChannel` |
| `LabImplementsChannel` | `LabSpec => LabIsChannel`; each step is one of the channel, a stutter or `Misled` |
| `SerialImplementsChannel` | `SerialSpec => SerialIsChannel` |
| `OnlyLatenessLoses` | `LoopSpec => []LossIsLateness` |

The argument. What is under way is the concatenation of what each stage holds: the
reader's byte and three registers, the queue and the register, the reader's buffer and the
kernel's. Initial states map to the empty channel. A step moves a byte to a stage that is
empty, or to the end of one (a stutter: empty sequences drop out and concatenation is
associative), adds to the last stage (`Send`), takes from the first
(`Deliver`, with `HeadTailOfConcat`), or drops what a stage held (`Lose`, with
`LosingAStretch`). The invariants are types, and that the first stage holds something
just where the program prints it; for that `LoopInv` ties `byte_read` to the place of the reader.

`OnlyLatenessLoses`: as long as neither task has been late (`Punctual`), the places of the two
tasks and what is left of their sleeps say which of the registers holds the byte, and the
others are empty; a byte that arrives finds `RBR` free because both tasks sleep equally long.

`CpuUsageProofs` has that of `CpuUsage`, for every set of CPUs, `UINT` and number of samples
that satisfy `CpuUsageAssumption`:

| Theorem | Statement |
|---|---|
| `LoadIsAlwaysTrue` | `UsageSpec => []LoadIsTrue` |

The argument. The two buffers hold the counters of the last two samples (`SamplesInv`), row by
row: as long as no CPU comes or goes, row `i` is that of the same CPU in both. A sum that
has wrapped is a sum modulo `UINT`, and the difference modulo `UINT` of two such sums is the
difference of the sums (`DifferenceIs`), because an interval has fewer than `UINT` ticks
(`CpuUsageAssumption`; 2^32 ticks are more than a year).

The type invariants are proved with the rest or are lemmas of it; no run spends a
property on them.

Every invariant and every action property that a passing run checks is a theorem, and so is
every refinement. Only model-checked: liveness (`OpenReturns` of both drivers,
`AllReceived`, `Drains`, `SongEnds`, `SongRepeats`, `KeepsPrinting`, `SilenceIsNoticed`),
which rests on fairness and `ENABLED` and is out of the prover's reach; and the
counterexamples of the violating runs, `UserUart` among them.

## 6. Plan

Order by importance; lines 1 to 12 are done.

1. `DeviceSession`, `Dht11Frame`, `Dht11` with runs and proofs: the main driver.
2. `SoftUart`: data path, loopback, both timers.
3. `Dht11km`, against `DeviceSession`.
4. `Mp3Player`: tasks, suspend and resume, the shared song position; with proofs.
5. `Vs1053Player`: reader, queue of one, player, the reset in between.
6. `SoftUartModule`: pins, rate, load and unload.
7. `Dht11User`: the polling reader.
8. `Dht11Module` and `Dht11kmModule`: load and unload of the DHT11 drivers.
9. `ByteChannel`, with `UartLoopback` and `UartLab`.
10. `SerialPort`, `UserUart` and `CpuUsage`.
11. Proofs of the two modules of the DHT11 drivers and of the three channels.
12. Proofs for `Dht11km` (type, frame, enables, refinement), `SoftUart` (type, kept bytes, the
    idle line, reads, the whole link), `SoftUartModule`, `Vs1053Player`, what
    `UartLoopback` loses, what `CpuUsage` prints and what `Dht11User` decodes.

To do:

13. An abstract specification of the software UART's link, a byte stream with a bounded
    buffer, implemented under `Calm`; what an overflow of `TX_BUFFER` can lose, as a bound;
    type correctness of the remaining modules as theorems of their own.
