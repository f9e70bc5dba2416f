# TLA+ models of the rustl8710 firmware

The repository is a firmware for the Realtek RTL8710 (a Cortex-M3 with Wi-Fi):
a Rust application on top of Realtek's C SDK and FreeRTOS 8.1.2. This directory
holds TLA+ models of the parts of it whose correctness depends on the order in
which tasks, interrupt handlers and the WLAN driver run, the TLC runs that check
them, and TLAPS proofs about them.

Contents: 1 the system, 2 the modules, 3 the runs, 4 fairness, 5 the proofs,
6 findings, 7 what is not modelled, 8 the plan.

## 1. The system

The build list is `src/application.mk`; `src/src/c/src/main.c` starts the C side
and calls `main_entry` of `src/src/rust/src/lib.rs`, which echoes what it reads
from a UART through `serial.rs`. Options that matter here
(`src/src/c/inc/platform_opts.h`, `FreeRTOSConfig.h`): the kernel is preemptive
with time slicing and tickless idle, `configASSERT` is not defined (a NULL
handle is not caught), `CONFIG_WIFI_IND_USE_THREAD` is 0 (Wi-Fi event handlers
run on the driver's thread). `CONFIG_EXAMPLE_UART_ATCMD` is 1, which turns on
`CONFIG_LOG_SERVICE_LOCK`, `CONFIG_OTA_UPDATE`, `CONFIG_TRANSPORT` and the second
version of the AT commands (`platform_opts.h:146`), so that there are two command
interfaces: the log UART and the AT UART. In `update.c` `WRITE_OTA_ADDR` and
`CONFIG_CUSTOM_SIGNATURE` are 1 and `SWAP_UPDATE` is 0.

| Component | Source (under `src/component`) | State it keeps | Operations | Talks to |
|---|---|---|---|---|
| device lock | `os/os_dep/device_lock.c` | `mutex_init` bits, one mutex handle per device | lock, unlock, lazy creation | every user of flash and efuse |
| Wi-Fi join | `common/api/wifi/wifi_conf.c`, `common/api/lwip_netconf.c` | `join_user_data`, `rtw_join_status`, `error_flag` | `wifi_connect`, `wifi_connect_bssid`, four event handlers, `LwIP_DHCP` | event registry, WLAN driver, semaphores |
| Wi-Fi event registry | `common/api/wifi/wifi_ind.c` | 3 handler rows per event | register, unregister, dispatch | driver thread calls the handlers |
| power management | `os/freertos/freertos_pmu.c`, the tickless idle of `tasks.c` and `port.c`, `us_ticker.c`, `sleep.c` | `wakelock` bits, `wakeup_event`, `missing_tick`, the tick count | acquire, release, sleep and tick correction | idle task, UART console, WLAN driver, interrupt handlers |
| console | `soc/realtek/8195a/misc/driver/rtl_consol.c`, `common/api/at_cmd/log_service.c`, `common/example/uart_atcmd/example_uart_atcmd.c` | the line buffers of two UARTs, `ExecuteCmd`, `log_buf`, two semaphores, a lock | two receive interrupts, console task, command task | AT commands, connections, power management |
| OTA update | `common/utilities/update.c`, `common/mbed/targets/hal/rtl8195a/sys_api.c` | flash image and its signatures | download, verify, switch, clear or recover the signature | flash, device lock, sockets |
| heaps | `os/freertos/freertos_v8.1.2/Source/portable/MemMang/heap_5.c`, `os/os_dep/tcm_heap.c` | two free lists, the count of free bytes | allocate, free, dispatch by address | everything |
| OS services | `os/freertos/freertos_service.c`, `os/os_dep/osdep_service.c`, `mailbox.c` | task handshakes, worker queues, mailboxes | tasks, timers, semaphores, spinlocks | everything |
| UART driver | `common/mbed/targets/hal/rtl8195a/serial_api.c`, `soc/.../hal_uart.c` | interrupt enables, stream state | polled, interrupt and DMA transfers, timeouts | application, interrupt handlers |
| other HAL | `gpio_irq_api.c`, `us_ticker*.c`, `i2c_api.c`, `spi_api.c`, `flash_api.c` | timer event list, peripheral state | mbed HAL calls | application |
| UART adapter | `common/application/uart_adapter` | sockets, power state, settings | UART to TCP bridge, its control protocol | sockets, power management, flash |
| DHCP server | `common/network/dhcp/dhcps.c` | one state machine, the last allocation, the last requested address, a bit per address | discover, request, release, decline; restart of the access point | lwIP, the clients of the access point |
| network services | `common/network/sntp/sntp.c`, lwIP port `sys_arch.c` | mailboxes | time, mailbox glue | lwIP |
| AT commands | `common/api/at_cmd/atcmd_*.c` | command arguments, the table of connections | parsing and dispatch, connection tasks | all of the above |
| kernel | `os/freertos/freertos_v8.1.2` | ready lists, queues | tasks, queues, timers | vendored |
| libraries | lwIP, polarssl, FatFS, cJSON, xml, CMSIS, ROM headers | | | vendored |
| Rust application | `src/src/rust` | none | echo loop | UART driver |

What is hard in it, and what would make each part correct:

* **Lazy initialisation without start-up code** (device lock): first callers
  race; one mutex per device, mutual exclusion, no handle replaced in use.
* **Handlers on a foreign thread over a global pointer** (Wi-Fi join): tests of
  `join_user_data` are followed by new reads of it while the caller frees what it
  points to; no wild access, no lost wake-up, the returned result is true.
* **Unlocked read-modify-write of bit sets** (power management, UART interrupt
  enables): no bit of another module may be lost; a check made before interrupts
  are masked is stale when used.
* **Hand-over of shared buffers between interrupt handlers and two tasks**
  (console): each line is run once, whole, in order, and nothing is typed into a
  buffer that is in use.
* **Power loss between two flash writes** (OTA): a signed image is a
  whole one, and nothing is lost with its only copy.
* **Timeouts that race late answers** (joins, UART transfers, worker queues).
* **Clock arithmetic at 32 bits** (tick correction after sleep, `us_ticker`): no tick
  lost or counted twice, no wake time passed, whatever a sleep is interrupted by.
* **Long sequences of calls on shared lists** (heaps): blocks never overlap, and
  nothing drops out of the free list or stays unmerged.
* **One state machine for many peers** (DHCP server): lost, late and repeated messages
  of several clients meet one record of "the" offer and "the" client.

## 2. The modules

| Module | Models |
|---|---|
| `DeviceLock` | `device_lock.c` over FreeRTOS mutexes |
| `LockService` | the lock that `device_lock.h` promises (abstract) |
| `WifiConnect` | joins, their handlers, dispatch, `LwIP_DHCP`, simple config's flag |
| `Ota` | `update.c` and the flash it writes, with resets; the lock is `LockService` |
| `Console` | a command line's way from two UARTs to its command: `rtl_consol.c`, `log_service.c`, `example_uart_atcmd.c` |
| `TicklessIdle` | `freertos_pmu.c`, the idle task, the tick and the port's sleep, the microsecond clock |
| `Heap` | `heap_5.c` and `tcm_heap.c` with the dispatch between them |
| `BlockAllocator` | what an allocator promises (abstract) |
| `DhcpServer` | `dhcps.c`, its clients and the network between them |
| `MCDeviceLock`, `MCWifiConnect`, `MCOta`, `MCConsole`, `MCTicklessIdle`, `MCHeap`, `MCDhcpServer` | instances for TLC |
| `DeviceLock_proofs`, `WifiConnect_proofs`, `Ota_proofs`, `Console_proofs`, `TicklessIdle_proofs`, `Heap_proofs`, `DhcpServer_proofs` | theorems about the module of that name |
| `Extrema` | what `Min` and `Max` of the community modules return, for those proofs |

`Ota` composes with `DeviceLock` through `LockService`: `DeviceLock` implements it
(proved), and `Ota` takes and gives the flash lock by its actions.

Definitions marked `mutant` in a comment are faulty variants of the definition
that follows them; nothing uses them, they are there to show that the properties
notice such a fault.

### DeviceLock

A task is at a place (`pc`) in `device_mutex_lock` or `device_mutex_unlock` (`op`)
for a device (`dev`). One action per step that another task can see: the outer
test (`TestInit`), the critical section (`CriticalInit`: interrupts are masked, so
the inner test, the creation and the flag are one step), the attempt on the mutex
(`Take`), coming back from it (`Wake`: given, or after the 10 s timeout; both lead
to a new attempt), and the release (`Put`). `created[d]` counts the mutexes ever
created for `d`, so the handle in `device_mutex[d]` is the last of them and 0 is
NULL; `holder[d][h]` keeps every one of them, which is what shows a task that still
holds a replaced mutex. For the devices in `MayFail`, creation may fail (the heap
is exhausted); the flag is set all the same, and using the NULL handle is undefined
(either result of the call). `device_mutex_free` is static and never called.

`ImplementsLock` says that `DeviceLock` implements `LockService` for the other
devices (`Served`), with `owner[d]` = the task inside `d`: creation, waiting and
retries are invisible, and so is what happens to the failed devices.

### WifiConnect

Each caller's record `task[c]` holds its place in `wifi_connect` (`p.fn = "ssid"`)
or `wifi_connect_bssid`, its parameters, its result, what became of the record
`join_result`, the password and the semaphore ("none", "live", "freed"), whether
the semaphore was given, and two history fields the properties need: the link came
up during the call, a deciding event was handled. `join_user_data` names the
caller whose record it points to. The handlers are steps of the driver's thread
(`driver`): the first test of `join_user_data` (`Test`), the uses after it (`Use`),
the second test of the disconnect handler (`TestAgain`) and the give (`UpSema`);
each reads `join_user_data` anew, as the code does. A NULL or freed pointer that is
followed sets `fault` and ends the behaviour.

The driver itself is a binary library: `LinkStep` and `Driver` are external, a
station that is idle, joining, associated or keyed, and the events it indicates for
each change. `DriverAbove` says whether the driver's thread has a higher priority
than the callers; then no caller runs while a handler does.

Abstractions: the security types are the classes the handlers tell apart; the
bits of `rtw_join_status` that are always set together are one flag; the timeout
of the wait may happen at any time the semaphore is not given; the ioctls of
`wifi_connect_local` succeed or fail as a whole.

### Ota

The flash is four variables: `image`, what each sector of the region for the new
image holds; `signature`, the two words in its first sector that make the boot
loader prefer it; `system`, the sector with the region's address and the
calibration data; `backup`, the sector through which `system` is rewritten. The
update task (`ota`) goes through `update_ota_local_task` and
`write_ota_addr_to_system_data`, the task of the AT commands (`cmd`) through
`cmd_ota_image`. One action per flash operation under the lock; writes of a sector
and of the data part of a copy are two, so that `Reset`, possible in every state,
can fall into them. `Program` is what programming does to a word of NOR flash. The
history variables `saved` and `deselected` remember what a rewriting set out to
keep and that an image was taken out of use.

`File` is what a server may send: `Announced` and `Sent` are its sizes, `Intact`
the files whose attached checksum is right, `Ours` those with this product's
signature. Abstractions: a sector's worth of data arrives at once; different data
have different checksums; an image holds erased bytes where the boot signature
goes; erasing a sector is not interrupted by a reset; a read of fewer than four
bytes spoils the attached checksum (the code fetches it from before its buffer).

### Console

A line is a number `n`, its text the characters `<<n, 1>>`, `<<n, 2>>` and, for an `ATPT`
command, the data up to `<<n, DataLen + 1>>`. Each receive interrupt is an action: a
character or the Enter key on the log UART (`LogChar`, `LogEnter`, `LogEnterEmpty`), a
character, the colon, data or the Enter key on the AT UART (`AtChar` ... `AtEnterEmpty`).
A character of data that comes too late (`AtDataLate`) drops the command and prints a
prompt; the host goes on with the data it has begun, and `uart_irq` now takes them for
characters like others (`AtRest`): skipped up to an 'A' (`Starts`), then collected in
`temp_buf`, ended by what happens to be the Enter key's code (`Enters`). What was collected
stays in front of the line that the host types next, whose ':' may then not even be taken
for one (the second branch of `AtColon`). `spoiled` records that this has happened.
The console task (`cpc`) and the command task (`spc`) have one action per access to
what they share: `Sema`, `ExecuteCmd`, `UARTLogBuf` and `BufCount`, `log_buf`, the two
semaphores. A connection's task (`npc`) prints a message under the lock. The
priorities (idle + 9, idle + 5, idle + 1) decide who runs: `ConsoleReady` and
`ServiceReady`; interrupts come at any time.

The hosts are polite: they type a line only after a prompt, wait for the message
that the AT commands are ready, and one on the log UART lets the console task finish
after an empty line, because that task prints the prompt before it empties the
buffer. A host that types ahead loses characters in many ways, and nothing in
the repository says that it should not: the races of the receive interrupt with the console
task's emptying of the buffer, and with the command task's reading of `log_buf`, need such a
host. The properties say that polite hosts are safe from them. Left out: backspace, escape
sequences and the history, which edit a line; lines that are too long; the
transparent mode, in which the AT UART carries data. `UartLogCmdChk`, `GetArgc` and
`GetArgv` are in the ROM: they append a character and look at the first one.

### TicklessIdle

Two tasks take and give their wakelock bits, change the wakeup events, delay
(`vTaskDelay`), wait for an interrupt; each is above the idle task. `acquire_wakelock`
and `release_wakelock` are a load and a store (`reg` is the word in between). The idle
task's steps (`pc`) are those between which something can happen: it looks at the
expected idle time (`IdleSuspendsAll`), suspends the scheduler, samples again and asks
`freertos_ready_to_sleep` (`IdleChooses`), masks interrupts and asks
`eTaskConfirmSleepModeStatus` (`IdleConfirms`), sleeps, corrects the tick and unmasks
(`Sleep`, one step, because nothing runs while interrupts are masked), and resumes the
scheduler (`IdleResumes`, where pended ticks are counted). `SysTick` and `Interrupt` come
while interrupts are not masked.

The tick count itself is not kept: `due[t]` is a task's wake time minus the count.
`timer` is the G-timer; `Us` makes microseconds of it that have a wrap of their own, as in
`us_ticker_read`, and `Passed`, `WithMissing`, `Steps` and `Kept` are the arithmetic of
`freertos_pre_sleep_processing` modulo `UsMod`. The widths are small: 3 us a tick, wraps
at 10 and 18 for 2^32 (the inequalities between them that the real values satisfy are
`ClockAssumption`; `TicklessAssumption` has the one that the part of a tick that is kept is
within `MaxMissing`). A sleep ends by the system timer, up to `Late` us after its time, or
by another event at any time before. `MaxMissing` bounds what late returns add up to and
`MaxPended` the ticks that pass while the scheduler is suspended. The history variables:
`held`, the modules between the end of acquire and the beginning of release; `lag`, the
true time slept less the ticks stepped for it; `misread` and `still`, that the clock
wrapped or did not move; `overrun`, that the port stepped a tick after a sleep of the whole
time chosen.

After `freertos_pre_sleep_processing` has stepped the ticks slept, SysTick runs again while
interrupts are still masked. `freertos_post_sleep_processing` takes the ticks that SysTick
has yet to count for the expected time, so that the port finds none completed, unless one
ends before the port reads SysTick itself (`port.c:615`): `PortSteps` is 0 or 1. Either may
happen after every sleep. That tick is a tick of SysTick, like those of action `SysTick`,
and not time slept, so it is no part of `lag`. The model takes the work with interrupts
masked to be shorter than a tick. Of a wake time that the count has passed only that it has
is kept (`due[t] = -1`): `ExpectedIdleTime` underflows then, by however much.

### Heap

Memory is counted in units of 8 bytes (the alignment and the size of both list headers),
requests in words of 4. Each free list is a function from units to sizes, because the code
keeps it in the order of addresses; a block held is in `used` or `tcmUsed` with the size
that its header keeps. Every call is one step: `pvPortMalloc` and `vPortFree` suspend the
scheduler, `tcm_heap.c` uses a critical section. `Insert` is `prvInsertBlockIntoFreeList`
with its two merges and the exception for `pxEnd`, and also the loop of
`tcm_heap_freemem`. The marks at the ends of the regions are chunks of size 0, except the
last, which is `pxEnd`. The free list is defined on the first call (`List`, `End`,
`Remaining`). `answer` is the request just answered, for `BlockAllocator`. `HeapAssumption`
says of the regions what the source requires of them: each begins after the one before it
(`heap_5.c` asserts that), the bounds by which a free is dispatched put the core memory on
one side and the regions on the other, and `Null` is no unit and no request.

`ImplementsHeap` and `ImplementsTcm` say that each heap implements `BlockAllocator`: a block
lies inside the memory, shares no unit with another, has at most `Slack` units more than
were asked for, and a request is refused only when no free stretch could hold it.

### DhcpServer

An address of the network is its last byte; a word of `ip_table` has `Word` addresses (32
in the code). The server's variables are those of `dhcps.c`. `Handle` is
`dhcps_receive_udp_packet_handler` for one message, with everything it calls: the options
(`Asked`: the requested address stays from an earlier message when this one has none), the
state machine (`Change`), and the reply with its changes (`SendOffer`, `SendAck`, `SendNak`).
The handler runs in the TCP/IP thread, one datagram after the other. `Restart` is
`dhcps_deinit` and `dhcps_init` around a restart of the radio, which every client notices.

Clients and network are external: a client discovers, reboots with a remembered address,
renews, sends again, leaves, releases, declines, as RFC 2131 has it; messages overtake each
other and are lost. `fresh` marks the messages whose answer the client still awaits: it
ignores others by their transaction number. `MaxInFlight` bounds a client's datagrams on
their way, `MaxTroubles` the losses, departures, unknown messages and restarts together.
The history variable `taken` holds the addresses that were acknowledged to another client
than the one they were offered to.

## 3. The runs

| Run | Instance | Checks |
|---|---|---|
| `DeviceLock` | 3 tasks, 2 devices, the efuse's mutex may fail | exclusion, one mutex per device, stable handle, somebody enters, `ImplementsLock` |
| `WifiConnectAbove` | 1 caller, 17 parameter sets: both functions, own and user semaphores, the handshake's event heard or without a row; driver above, simple config | memory, wake-ups, results, reasons, `EveryCallReturns` (9 properties) |
| `WifiConnectTwo` | 2 callers, open network, any interleaving with the handlers | `PublishedRecordLive`, `DecisionWakes` |
| `OtaUpdate` | 3 sectors, 7 files, `cmd_ota_image(0)`, resets anywhere | `SignedIsComplete`, `GoodUpdateSucceeds`, `DeselectedStays`, `RewriteKeepsCopy` |
| `Console` | 6 lines, one unknown, three with 3 characters of data (among them an Enter, an 'A', both) that may be late at each; a host on the log UART with messages, or one on the AT UART without | `RunsNextLine`, `PromptMeansReady`, `EveryLineRuns` |
| `TicklessIdle` | 2 tasks, delays up to 3 ticks, sleeps up to 2, clocks that wrap | `SleepsOnlyWhenIdle`, `OnlyPortPassesWake`, `TimeKept`, `DelayedGetsReady` |
| `Heap` | regions of 4 and 9 units, core memory of 3, requests of 0 to 7 words | `FreeListIsGaps`, `FreeBytesExact`, `ImplementsHeap`, `ImplementsTcm` |
| `DhcpServer` | 2 clients, a pool of 4 addresses of which 2 are reserved, 2 troubles | `NeverReserved`, `UniqueUnlessTaken`, `ServedWhenAlone` |
| `ConsolePrompts` | lines on the AT UART, with messages | a statement of `log_service.h`, refuted |
| `TicklessWakelock` | as `TicklessIdle` | a statement of `freertos_pmu.h`, refuted |
| `TicklessPort` | as `TicklessIdle` | an assertion of `tasks.c`, refuted |
| `DhcpLatch` | a pool in the fifth word of the table | a comment of `dhcps.c`, refuted |

Why the bounds suffice. `DeviceLock`: the race for the creation needs two tasks
past the outer test, and a third to arrive while one of them holds the mutex; a
second device shows that devices do not interfere. `WifiConnect`: one caller and
the driver's thread already show every race on the record; two callers add the
overwriting of the pointer and the shared handlers. More callers repeat these two
roles. `Ota`: there is one update task and one command task in the program; three
sectors give a first, a middle and a last one, and the seven files are one for each
way in which a download can differ from a good one, with two good ones of different
lengths so that one can be left under the other. `Console`: in six lines each kind of
line can follow each other kind, and buffers are used again after they were emptied; of
three characters of data the first, the second or the last can be late, and what is left
can be skipped, collected, or end a line of its own.
`TicklessIdle`: two tasks are a holder of a wakelock and a preemptor, or a delayed task and
one that interrupts the sleep; a tick of 3 us has every kind of remainder, and the wraps
fall at every place of a sleep. `Heap`: with a region of 8 usable units there are chunks
that are split, given whole and given with a remainder, blocks freed between two others
with none, one or both neighbours free, and the mark between the regions on either side
of a merge. `DhcpServer`: two clients show every way in which one exchange gets between the
messages of another; the pool has one
address for each, so that a client that declines its own and asks for another uses it up.
Deadlock is checked in every run: a state where a wild access has happened
(`Crashed`) may stutter, every other state has a successor.

What holds and is worth knowing:

* However many first callers race, one mutex per device is made and its handle
  never changes; only the failed creation breaks exclusion.
* With the driver above the callers no handler of a `wifi_connect` call follows
  a freed record, and with any priorities `join_user_data` never points to a freed
  record of `wifi_connect`: the order "clear the pointer, then free" in its error
  label matters. `wifi_connect_bssid` has the opposite order.
* A deciding event that is handled while its call waits always wakes it, also when
  two calls overlap, for the security types the handlers know.
* When all calls are over nothing is left of them but the disconnect handler,
  which is never unregistered.
* With one caller a success means that the link was up during the call, unless the call
  has a semaphore of the user's and returns before, and a failed WPA2 join has one of three
  reasons.
* Every call returns, even if its handlers could not be registered.
* A signed image is complete, unaltered and for this product, wherever the
  processor was reset: the first sector is erased first and the signature written
  last, and the lock-free window between reading the flash back and signing is
  harmless as long as the command only deselects. (`cmd_ota_image(1)` signs whatever
  is in the region; the run and the theorem exclude it.)
* The two-sector rewriting of the system data never loses what it started from, in
  the sector or the backup; that the next rewriting erases the backup is told in section 6.
* No sleep begins with a wakelock bit set in the word or a task ready, wherever a task or an
  interrupt comes between the idle task's tests: the port's test with interrupts masked
  catches what the earlier ones miss. (That a bit can get lost is finding 1.)
* No time slept is lost however often a sleep is cut short. No wake time is passed even
  when the clock is misread or a sleep ends late, except by the port's own step after a
  sleep of the whole time (finding 3). A delayed task gets ready unless its wake time was
  passed in that way or the clock stands still.
* Both heaps keep exactly the gaps between the blocks in their lists, always merged, and
  `xFreeBytesRemaining` never drifts from the list.
* The DHCP server never leases its own address, the gateway's or the 0 of an empty pool; two
  clients share an address only if one took what was offered to the other; and a client
  that is alone gets served whatever went before, until the pool is used up.
* A polite host's lines are run whole, once and in order, and data that come too late are
  dropped without a trace unless an 'A' is among the rest of them, although `log_buf` is
  written outside its lock and three buffers are emptied late: on the log UART this
  depends on the console task's priority being above the command task's.

## 4. Fairness

`DeviceLock`: weak fairness of each task's steps inside the module and of the
owner's unlock. The scheduler is preemptive and the callers' work between lock and
unlock is bounded; which waiter gets a mutex depends on priorities, so only
`SomebodyEnters` is stated, not that each one does.

`WifiConnect`: weak fairness of the driver's thread and of each task inside a call
(both block only on the modelled semaphore, which has a timeout). Nothing is
assumed of the air, of the users who start calls, or of simple config.

`Ota` has no fairness: its properties are about safety. A server that stops sending
holds the update for ever.

`Console`: weak fairness of the console task, of the command task and of the rest of
a message once its task has the lock. Nobody is obliged to type or to send. The
interrupts that finish a line need no fairness: a line counts from its Enter key on.

`TicklessIdle`: weak fairness of the idle task, of `SysTick` while it is not masked, and of
the system timer's end of a sleep. The tasks owe nothing; the property is about one that
is delayed. `Heap` has no fairness.

`DhcpServer`: the TCP/IP thread handles what arrives, per client (`tcpip_thread` takes its
mailbox in order); a client without an address asks again and takes the replies that
reach it. Losses are bounded by `MaxTroubles`, so that each behaviour has a last one.

## 5. The proofs

Every invariant and every action property that a passing run checks, and the three
refinements, are theorems: they hold for every value of the constants that the named
assumptions of the modules allow, not for the small instance only. Each proof module has
one inductive invariant `IInv` (`Ota_proofs` has three), checked by TLC on the runs'
instances before it was proved, and the theorem `Invariance`: `Spec => []IInv`. A theorem
that needs more than the modules' assumptions has the hypothesis in its statement, and a
run whose instance satisfies it.

| Property | Theorem | Hypotheses |
|---|---|---|
| `MutualExclusion`, `OneMutexPerDevice`, `HandleStable`, `ImplementsLock` | `Exclusion`, `CreatedAtMostOnce`, `StableHandle`, `LockImplemented` | |
| `NoDoubleFree`, `NothingLeaked`, `PublishedRecordLive`, `QuietIsClean` | `FreedOnce`, `GivesBack`, `RecordLive`, `LeftClean` | |
| `HandlerSeesRecord` | `NoWildHandler` | `DriverAbove` |
| `DecisionWakes` | `NoLostWakeup` | no join with `WEP_SHARED` |
| `SuccessMeansJoined` | `SuccessIsJoined` | `DriverAbove` |
| `FailureHasReason` | `FailureExplained` | `DriverAbove`, one caller, a row for the DISCONNECT handler |
| `RewriteKeepsCopy`, `GoodUpdateSucceeds` | `CopyKept`, `GoodUpdates` | |
| `SignedIsComplete`, `DeselectedStays` | `OnlyCompleteIsSigned`, `DeselectionStays` | the command only deselects |
| `RunsNextLine`, `PromptMeansReady` | `NextLine`, `PromptReady` | one host; no messages on the AT UART |
| `SleepsOnlyWhenIdle`, `TimeKept`, `OnlyPortPassesWake` | `IdleSleep`, `NoTimeLost`, `Punctuality` | |
| `FreeListIsGaps`, `FreeBytesExact`, `ImplementsHeap`, `ImplementsTcm` | `Unfragmented`, `Counted`, `HeapImplemented`, `TcmImplemented` | |
| `NeverReserved`, `UniqueUnlessTaken` | `Reserved`, `Unique` | |
| `LeasesLatched`, and no address shared unless taken | `SmallPoolLatched` | the pool ends in the first four words |

and `TypeOK` of every module. The hypotheses are not there for the proof's sake: TLC finds
each of these properties violated on a small instance when any one of its hypotheses is
dropped (a handler below the callers follows a freed record; nobody wakes the WEP join; a second caller or a lost DISCONNECT handler leaves a failure without a reason; hosts of both UARTs, or a
message's prompt, mix lines; the fifth word is never marked).

**DeviceLock_proofs**, for any finite set of tasks and any set of devices:

    IInv == TypeOK /\ CreatedOnce /\ InitBeforeUse /\ InsideHolds /\ HolderInside

`CreatedOnce` (no mutex without the flag, at most one ever, exactly one if the flag is
set and the device is not in `MayFail`) makes the inner test of the double check
effective. `InitBeforeUse` (a task past `device_mutex_init` has the flag) keeps the
handle it uses from changing under it. `InsideHolds` and `HolderInside` say that being
inside a device and holding its current mutex are the same; without the second, `Put`
could release somebody else's. `LockImplemented` is the refinement of `LockService`.

**WifiConnect_proofs**, for any callers, parameters, security types and full rows of the
handler table:

    IInv == TypeOK /\ Ownership /\ GivenBack /\ Pointed /\ Tabled /\ NoDoubleFree
            /\ (DriverAbove => PointerKept /\ HandlerSeesRecord)
            /\ (... => Wakes) /\ (DriverAbove => KeyedBefore /\ SuccessSeen)

`Ownership` has, for each place in a call, what the call still owns of its record, password
and semaphore; `GivenBack` that on the way out they go in the order of the error label.
`Pointed` (`join_user_data` points only to a call between publication and clearing) is what
turns ownership into `PublishedRecordLive`; `Tabled` (a registered handler belongs to a
call that has yet to remove it) into `QuietIsClean`. `Wakes` follows a decided event through
the handler's steps to the semaphore. `KeyedBefore` closes the gap that a link that is
already up would leave in `SuccessMeansJoined`. The reason of a failure is a second
invariant over the first, `RInv`: `Batched` (which events can be on their way together),
`Handshaken` (the link is up while the handshake's event is), `Heard` (a call that waits has
a DISCONNECT handler in the table), `Addressed` (`join_user_data` points to it) and
`Explained` (the semaphore is given only after `error_flag` was written, or the link is up or
a disconnection is still to be handled).

**Ota_proofs**, for any number of sectors, any files and any command choices: `OtaTypes`
and `CopyKept` from

    TInv == TypeOK /\ LockHeld /\ Locals /\ Rewriting

(who is in a locked section owns the lock; the task's locals are in the ranges of its
place; what `system` and `backup` hold at each step of the rewriting), and, if the command
only deselects (`NeverSelects`: `Choices` is a subset of `{FALSE}`),
`OnlyCompleteIsSigned` and `DeselectionStays` from

    SInv == TInv /\ CmdHolds /\ FreshUnsigned /\ EmptyRegion /\ Compared
                 /\ SetIsComplete /\ Deselected

The difficulty is the window between the comparison of the checksums and the
signature, in which the lock is free and the command can take the first sector out,
hold its content in a buffer, and put it back. `CmdHolds` says what the buffer holds,
`Compared` that an update past the comparison still has its file in the region (in
the flash or in the buffer), `FreshUnsigned` and `EmptyRegion` that what is being
written has no signature and that an update of nothing finds no customer signature,
`SetIsComplete` that the first signature word is on complete images only, and
`Deselected` that a word once reset cannot be set by programming over it. The converse,
that a good download does get its signature (`GoodUpdates`), needs for a good file and no
command so far

    GInv == TInv /\ NothingYet /\ (Good => Erasing /\ Receiving /\ Verified)

`Erasing` counts the sectors erased in order, `Receiving` says that what came is in the
region and what is to come will find it erased, `Verified` that a whole image passes both
tests and that the two signature words are programmed over erased ones.

**Console_proofs**, for any lines, any unknown ones and any with data, of any length and
content, late wherever they are:

    IInv == TypeOK /\ Started /\ (IF spoiled THEN Astray ELSE Situation)

`Situation` is a disjunction of nine: nothing going on, a line being typed on either UART,
an `ATPT` command awaiting its data, the rest of a dropped command's data being skipped, an
empty line, a line arriving in the console task, one handed over to the command task, a
command finishing. Each fixes all the buffers, flags and semaphores together, because that
is how they are correct: `ExecuteCmd` alone, for example, means three different things.
`Astray` is what is left to say once a rest of data has been collected: types, and that the
command task has not run more than was handed over. The theorems need that hosts of both
UARTs are not there together, and no messages on the AT UART (`OneTypes`).

**TicklessIdle_proofs**, for any tasks, delays, widths of the clocks and bounds:

    IInv == TypeOK /\ LockClear /\ NoneReady /\ MissingBounded /\ TimeKept
            /\ (overrun \/ Punctual)

`LockClear` and `NoneReady` carry the idle task's tests to the sleep: nobody can take a
wakelock between the question and the sleep because no task runs then, while an interrupt
that readies one is caught by the last test. `Punctual` relates the time chosen and the
ticks pended to every wake time: the port's step is harmless as long as the sleep was
shorter than the time chosen, and `overrun` remembers when it was not. The arithmetic (that the microseconds since the last
reading come out right modulo two different wraps, that the ticks stepped and the
microseconds kept make up the whole) is in lemmas of its own.

**Heap_proofs**, for any regions in order, any core memory and any requests:
`IInv` says of both heaps that the list is *good*: in order and apart, inside the regions,
its units together with those of the blocks are all the units, each once, and that the
counter is the number of units covered. Six lemmas (`InsertMerges`, `TakeAll`, `TakeFirst`,
`TakeLast`, `GiveBack`, `ChunksAreGaps`) are about `prvInsertBlockIntoFreeList` and the two
ways of cutting a chunk; the theorems about the four calls follow from them. The sum of the
sizes is a fold of the community modules over a finite set; as nothing can be proved by induction
here, `SizesAreUnits` shows that counting units satisfies the fold's recursion and that
two solutions would first differ at a smallest set (`LeastNatural` of `Extrema`).
`HeapImplemented` and `TcmImplemented` map every step of a heap to one of `BlockAllocator`
or a stutter; the hard half is that a refusal is justified: a request that fits between the
blocks fits into one chunk, because chunks are merged.

**DhcpServer_proofs**, for any pool, clients, number of troubles and bound on the messages:

    IInv == TypeOK /\ ReservedMarked /\ AllocatedFree /\ ClaimsMarked /\ OffersAlone
            /\ InFirstWords /\ ClaimsApart

A client's claims are the address it has and those in acknowledgements on their way to it.
`ClaimsApart` is what `UniqueUnlessTaken` becomes with them. `OffersAlone` is the step that
makes it inductive: nobody but the client being served has a claim on the address allocated
last, so that a request for it can be granted; `ClaimsMarked` keeps the search from finding
an address in use.

Only model-checked: `SomebodyEnters`, `EveryCallReturns`, `EveryLineRuns`, `DelayedGetsReady`
and `ServedWhenAlone`: liveness under fairness is out of the prover's reach.

## 6. Findings

Statements of headers and comments that the code does not keep, each with a run whose
counterexample shows how:

1. (`TicklessWakelock`) `acquire_wakelock` and `release_wakelock` are unlocked
   read-modify-writes (`freertos_pmu.c:195`): a task preempted in one of them takes away
   the bit that another has just set, and the system sleeps although a module holds its
   wakelock (`freertos_pmu.h:35` says that it won't).
2. (`ConsolePrompts`) The lock that `log_service.h:54` says protects `log_buf` is not
   taken by the handler that writes it. A connection's message ends with the same prompt
   as an answer, so that even a host that waits for prompts types its next line into a
   command that is being processed; the line is then erased and an empty one run.
3. (`TicklessPort`) The port reads SysTick again after `freertos_post_sleep_processing`
   (`port.c:615`): when a tick ends in between it steps one tick more than the sleep
   (`port.c:635`), after a sleep of the whole time past the wake time that `tasks.c:1872`
   asserts is never passed. `xNextTaskUnblockTime - xTickCount` then underflows, and the idle
   task goes on sleeping over the delayed task until a SysTick reaches it awake.
4. (`DhcpLatch`) `mark_ip_in_table` ("latch the specific ip in the ip table") shifts by the
   whole address for 129 to 160 (`dhcps.c:78`): those are never marked and are leased again.

Further divergences met while modelling, which no run of this project states:

* `wifi_conf.c:298` compares with `==` and then ors constants: the condition is
  always true, so any late disconnection of a WPA2 join counts as a wrong password.
* `wifi_connect` with a user semaphore returns success before the join has happened
  (`wifi_conf.h:133`), and never flags that semaphore (`wifi_conf.h:131`).
* `lwip_netconf.c:245` overwrites the error that a disconnection wrote; the interface then
  reads as ready to transceive with no link.
* A successful `RTW_SECURITY_WEP_SHARED` join times out: `wifi_connected_hdl` does not
  know that type.
* `wifi_connect` frees the semaphore before it clears the pointer to its record
  (`wifi_conf.c:535`), and on an early failure frees a semaphore that was never made.
* `update.c:372` begins the rewriting of the system data by erasing the backup sector, and
  no code restores it: after a reset that left the only copy there, a later update
  destroys the calibration data.
* `example_uart_atcmd.c:390` says that in a data command '\n' is not the end of the command.
  After one late character (`example_uart_atcmd.c:417`) the rest of the data are treated as
  a command, an Enter among them ends it, and what follows an 'A' is run in front of the
  line that the host types again, though the prompt told it to. `RunsNextLine`,
  `PromptMeansReady` and `EveryLineRuns` promise nothing once that has happened; without
  that exemption (`spoiled`) TLC finds each of them violated.
* `dhcps.c`: a request accepted from another client than the one offered leaves both with
  the address; two clients in step can have each other refused for ever; a renewal without
  option 50 is judged by the address another message asked for; an address asked for is not
  compared with the pool; RELEASE and DECLINE clear no bit; 0 is offered when the pool is
  used up.

## 7. Not modelled

Vendored code (kernel, lwIP, polarssl, FatFS, parsers): modelled only as far as
the code above it uses it. The WLAN driver, the ROM and the boot loader are not in
the repository; their calls are external actions. Code without shared state or
order (formatting, argument parsing, register tables) is out of interest here. Left out of
modelled parts: the sleep callbacks of `freertos_pmu.c`, which nothing registers, and its
statistics, which are off; `pvPortReAlloc`, which nothing calls; the mutex of the DHCP
server's table, which `dhcps_init` deletes and makes again while the radio is off. The
rest of the table in section 1 is in the plan.

## 8. Plan

Order: the behaviours that can corrupt memory or lose the device first.

1. (done) `DeviceLock`, `LockService`; `WifiConnect`; `Ota` over `LockService`;
   `Console`; `TicklessIdle`; `Heap` over `BlockAllocator`; `DhcpServer`.
2. `Connections`: the node table of `atcmd_lwip.c`: creation, deletion and search by
   the command task, the server, client and receive tasks, stale nodes after a
   blocking call; abstract specification: a node is used by its owner only.
3. `FlashUsers`: the web server's, AT commands' and `sys_api.c`'s flash accesses over
   `LockService`: releases without a lock, a return with the lock held.
4. `EventRegistry`: rows of the handler table under preemption.
5. `OsTasks`: the task-deletion handshake, worker threads and timers of
   `freertos_service.c` and `osdep_service.c`, the saved interrupt mask; `Mailbox`.
6. `SerialPort`: interrupt enables, timeouts and aborts of transfers; `UsTicker`.
7. `UartAdapter`, `SysArch`.
8. Proofs: the invariants of these modules as they are written, and the refinement of the
   connections' abstract specification.
