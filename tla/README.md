# A verification of BigBlackProgrammer

The repository is the firmware of a wireless AVR programmer on a CC3200: a
client opens a TCP connection and sends packets; the device drives the AVR's
SPI and reset lines and answers with packets. Its network is configured over a
wire. This directory holds TLA+ specifications of what decides whether a request
is answered, by whom and with what (connection tasks, packets, pools, headers), of
what programs the AVR (the session and the commands it is made of), and of
how the device comes up and is configured (boot, WLAN, UART, print lock); the
configurations with which TLC checks them, and proofs that TLAPS checks.

## Inventory

| Component | State it keeps | Operations | Interacts with |
|---|---|---|---|
| Pool (`pool.c`) | items given back (a stack), number of items made | `pool_create`, `pool_get`, `pool_release` | used by the packet handler (connections) and `packets.c` |
| Packet handler (`packet_handler.c`) | `conn_info`, `connections_pool`, `connections_queue`, each `ConnectionInfo`'s `hndl` and `out_queue`, the locals of two tasks | `vListeningTask`, `vHandlingTask`, `close_conn`, `disable_connection`, `recv_packet`, `send_packet` | sockets, controller, pool |
| Packets, packet manager (`packets.c`, `packet_manager.c`) | `packets_pool`, the packets | `parse_header`, `update_header`, `create_packet`, `send_ack`, `send_error`, `send_avr_cmd`, `send_packet` | called by packet handler, controller, wired configurator |
| Controller (`controller.c`) | none of its own | one handler per packet type | packet manager, programmer |
| Programmer (`programmer.c`, `programmer_parser.c`) | `mcu_info`, SPI | enter programming mode, program, read, raw command | controller; the AVR |
| Wired configurator (`wired_configurator.c`) | `state`, `cfg_packet` | UART interrupt handler, `updater_task` | packets, WLAN configuration |
| WLAN, boot (`wlan_config.c`, `main.c`) | `wl_status`, `start_stop_lock`, stored configuration | start and stop tasks, configure, save, load | network processor, all tasks |
| UDP resolver (`udp_resolver.c`) | a socket, the device key | one task | sockets |
| System services, logging (`sys.c`, `logging.[ch]`) | print lock | restart, queue wrappers, prints | everyone |
| Bridge, misc, pinmux, `config.h`, `gcc`, test script | - | nothing to model | - |

The hard behaviours, and what makes each component correct:

* **Two tasks, no lock.** The listening task and the handling task have the same
  priority (`config.h:18, 23`), so FreeRTOS switches between them at any tick.
  They share `connections_queue`, `connections_pool` and the `ConnectionInfo`s.
  Every `ConnectionInfo` must be in one place, every open socket in one
  `ConnectionInfo`. `pool_get` and `pool_release` race, and once they have, that is
  not so any more; memory must stay sound even then.
* **A close in two steps.** `disable_connection` closes a socket, whose number may
  then be accepted again, before it resets the field that names it; and the close
  may fail.
* **Handles.** The handling task copies a socket's number (line 208), serves a
  request that may close the socket, and then sends replies to the number. A
  reply must reach the client that asked.
* **Pools at their limit.** `pool_get`'s refusal is logged and then ignored; a
  pointer from an earlier pass is used instead.
* **Packets in two places.** The reply to a read request is the request's own
  packet, which is given back to the pool while it is queued.
* **End of stream.** `recv_nbytes` reports it as success.
* **Restart in the middle.** `SYS_ASSERT_CRITICAL` resets the device from
  within a handler.
* **Lost transfers.** Any SPI transfer of a block may be lost, the AVR having
  executed its command or not. What is acknowledged must be in memory, and a
  failure half way must have touched nothing else.
* **8-bit counters.** Block lengths, loop counters and the place in a reply are
  `_u8` where packets have up to 1024 bytes.
* **Patterns of any length.** The commands to the AVR are made from patterns that
  the client sends and nobody checks: those that fit must become the right commands, and
  one must know which of the others overrun memory.
* **Tables and masks.** A header's type byte is sorted into groups by masks that
  overlap, and looked up in tables whose failure value does not fit their type.
* **Bytes as they come.** `recv_nbytes` reads a request in pieces; a byte counted
  wrongly puts every later request out of step.
* **Interrupt against task.** The UART's handler arms the next transfer into the
  memory that the task it has just created will read, and may create a second
  task before the first is done; the tasks end themselves through one handle.
* **A file and losses of power.** What is saved must be what was sent, however
  the packets are cut up, calls fail and the device restarts.
* **Booting in parallel.** The init task polls a status while another task reads
  the configuration on its stack, and that task gives up over a second after it has
  last looked for the network's events, which still come.
* **The network processor has the files.** The start task stops and starts it, and
  the updater task needs it.
* **A lock that anyone may release.** Error prints take `print_lock` with timeout 0
  and release it whether they have it or not; handlers print, too.

Each is listed in `PROJECT.json` under `hazards`, at its line, with the properties
that would catch it going wrong.

## Modules

| Module | Models |
|---|---|
| `Pool` | a `pool_t` as a value: `PoolGet`, `PoolItem`, `PoolRelease` and the two tests with which the C functions refuse |
| `PacketManager` | a packet as type, type byte and contents; the functions that create and queue one. Its operators map a store `[pool, queue, buf, status]` to the set of the stores a call may leave |
| `Controller` | the handlers, as such operators |
| `PacketHandler` | the two tasks, the clients, restart and crash; extends the three above, with `PoolCalls` for `connections_pool` |
| `Session` | abstract: a connection's requests and replies |
| `PacketSession` | `PacketHandler` mapped to `Session` |
| `MCPacketHandler` | `PacketSession` with the symmetry of clients and sockets, for TLC |
| `PoolCalls` | `pool_get` and `pool_release` one memory access at a time; `PacketHandler` instantiates it for `connections_pool`, whose two calls run in two tasks |
| `PoolAccess` | the same calls in one task (`packets_pool`); at its end the mapping to `Allocator` |
| `Allocator` | abstract: what a pool promises its one user, with the operators of `Pool` |
| `Codec` | a request from the socket to its reply: `recv_packet`, `recv_nbytes`, `parse_header`, `update_header`, `create_packet`, the type tables |
| `Programmer` | the programming session: the handlers that load, program, read, send a raw command and reset, one SPI transfer at a time, against the AVR |
| `Serving` | abstract: what a request may be answered |
| `MemoryCommand` | `create_memory_cmd`, a turn of its loop at a time |
| `Wlan` | `wlan_start`, its task, the network's events, the configuration's file |
| `WiredConfigurator` | the UART, its interrupt handler, the updater tasks; extends `Wlan`, whose file it writes |
| `Boot` | `vInitializationTask` composed with these two, the UDP resolver's life, restarts, losses of power and hangs |
| `Logging` | `print_lock` between tasks and interrupt handlers |
| `MCProgrammer`, `MCMemoryCommand`, `MCCodec`, `MCBoot`, `MCLogging` | blocks, ranges, tokens, headers, sizes, hosts and tasks for TLC |
| `PacketHandlerProofs` (with the lemmas about `Pool`), `SessionProofs`, `PoolAccessProofs`, `CodecProofs`, `ProgrammerProofs`, `MemoryCommandProofs`, `BootProofs`, `LoggingProofs` | theorems |

`Controller` and `Programmer` are two views of the same handlers: the first has
what they do to packets and queue and lets the AVR's part decide freely which
path they take; the second has the path and what it does to the AVR, and lets
replies always find a packet. Likewise `Session` and `Serving`: with packets that run
out, a reply may be missing; with an AVR, the answers depend on the request.

### How `PacketHandler` corresponds to the code

`lpc` and `hpc` are the program counters of the two tasks:

| `lpc` | code | | `hpc` | code |
|---|---|---|---|---|
| `accept` | 128, 153-154 | | `first` | 188-192 |
| `get` | 140, the begin of `pool_get` | | `select` | 195-198 |
| `getting` | 140, its accesses | | `check` | 205-211 |
| `fill` | 143-144 | | `recv` | 214-217 |
| `enqueue` | 146 | | `dispatch` | 220-225 |
| `fault` | after a wild pointer was followed | | `close`, `closed` | 281: `close` (329) and the reset of `hndl` (332) |
| | | | `free`, `freeing` | 284, `pool_release` and its accesses |
| | | | `release` | 228 |
| | | | `drain` | 235-247 |
| | | | `poll` | 255-266 |
| | | | `refuse`, `refused` | 261: 329 and 332, of a second connection |
| | | | `restart`, `fault` | `sys_restart`; a NULL or wild call or pointer |

A step is the code between two accesses to what the tasks share. A handler of
`controller.c` shares nothing with the listening task, so it is one step, with
all it does to the packets and the queue; the AVR's answers, the sizes and the
bodies decide which of its paths it takes, and the model allows each. Its
memory faults (an out-of-range size, `mcu_info` not yet set) are not modelled.

`conn_info` has one cell in use (`conn_info->group` is always `ControlGroup`),
the variable `control`. `info`, `hndl`, `packet`, `linfo` are locals; a local
that is dead is reset so that it does not multiply states, one that may be read
again although it is stale (`packet`, `linfo`) is not, or is a choice of every
value it may have.

What the code leaves open is a choice: the contents of memory that `malloc`
returns (`Garbage`), where an indeterminate pointer leads (`GetInfo`,
`GetInfoGoesOn`, `Receive`, `ReceiveWild`), whether a close succeeds (`Close`, `CloseFails`), whether a message written through
`process_packet(info->out_queue, ...)`, which is declared to take a pointer and
is given the handle, reaches the queue (`WriteOutcomes`), and in
`PoolCalls` which of its copies the build uses and in which order it makes
the two unordered writes of `pool->data[pool->free_items++] = data`. `raced` remembers
that a `pool_get` and a `pool_release` of `connections_pool` have overlapped: what
such an overlap may destroy is claimed only of runs without one, and everything
else of all runs. `HandlesValid` leaves out the one `ConnectionInfo` between 329 and 332
(`Stale`): another one may well name its number again then.

The clients are the environment. They connect, send one of `Inputs`, and may
vanish. With `Polite` they never send a bad header, never vanish, end with a
Close packet (which the comment at `packet_handler.c:166` demands) and connect
only when the device has no connection.

### How `Programmer` corresponds to the code

`pc` is where the handling task is: a handler's entry (`reset`, `cmd`, `load`,
`prog`, `read`), the loop of `programmer_enable_pgm_mode` (`enable`), the two
transfers of a turn of `program_flash_memory` (`flash_lo`, `flash_hi`), the one of
`program_eeprom_memory` (`eeprom`), those of the read functions (`read_hi`,
`read_lo`, `read_ee`), `restart` (`SYS_ASSERT_CRITICAL`) and `fault` (`mcu_info`
is NULL). `i`, `address` and `answer_counter` are the functions' locals, `buf` the
`packet_data` of `memory_packet`, which the bytes are read into and which is then dropped
(the reply is the request's packet, `controller.c:227`), `info`, `spi` and `line` what the device is
configured to. Counters that are `_u8` in the code are taken modulo `U8`: `i` in
both programming loops' sums, `answer_counter` in `_read_flash_memory`, the length of
a block (`DataLen`). In `program_eeprom_memory` `i` is an `int`; with a length below
`U8` the remainder changes nothing there.

The AVR is external: it executes and echoes a command while it is in
programming mode and the SPI is on; reading changes nothing, letting it run ends
the mode. With `Noisy` any transfer may be lost before or after the AVR executed the
command. What is assumed of it: noise never looks like an echo; the page buffer
is not told apart from the page; the third byte of a command that takes an address is the
low byte of that address (as in the patterns of AVR data sheets), which is what the
echo test compares the last byte of an answer with. Requests stay within the
AVR's memories, but may ask for any number of bytes: a store past `packet_data`
leads to `fault` (`Store`), a count whose `_i16` is negative is a failure (`CountFails`), and one
whose `_u16` is more than a packet may have is not sent (`SizeRefused`).

`MemoryCommand` has a token where the pattern has a character, or an `a` and
its number (`A` is an `a` with more digits than `ch_address_shift` holds); a byte is the set of
its one bits. Patterns come from the client and may have any length: `Overrun` is the turn
that writes outside `cmd` or `ch_address_shift` and ends what can be said (`overrun`). The bits
that the source leaves undefined, an address shifted by more than its width or an input
whose offset has wrapped, are any bits (`BitOf`).

In `Codec` `stage` is where the task is: in `recv_nbytes` for the header or the
body, then after `recv_packet`, `create_packet` and the receiver's `parse_header`. `arrived` and
`taken` count the bytes of the connection, `left` is `remaining_bytes`, `reach` how
far `packet_data` has been written. Of a header every byte is kept with its width, of a body the
number of bytes. `recv_nbytes` does not advance `buf`
(`packet_handler.c:409`), so every piece goes to the same place: a header
in pieces is garbled, a body overwrites its own start (which is why `reach` is the largest
piece). The variable `NoType` is what becomes of the -1 that the type tables
return in an unsigned enumeration: -1 or 255, by the size the compiler gives it.

### How `Boot` corresponds to the code

| variable | code |
|---|---|
| `ipc` | `vInitializationTask`: `init` (`main.c` up to `wlan_init` and `wired_conf_start`), `load` (`wlan_load_config`), `start` (`wlan_start`), `wait` (the loop over `wlan_status`), `services` |
| `spc` | `wlan_start_task`: `begin` (`sl_Stop`), `start` (`sl_Start` and the branch), `ap`, `sta` and `connect` (`configure_sta` before and after its restart of the network processor), `wait` (the test of its loop, line 104), `delay` (the rest of a turn, 106-119, with the give-up), `connected` and `failed` (its result), `unlock` |
| `powered` | the network processor is started; without it there are no files |
| `tries`, `asked`, `online` | `connecting_time`; what the network processor was told; the bits of `g_ulStatus`, which nothing in `wlan_config.c` clears |
| `stored` | the file `CONFIG_FNAME`, the one thing that survives a restart |
| `state`, `want`, `got`, `packet_data`, `header` | `state`, the armed DMA transfer, `cfg_packet` |
| `upd`, `updater_hdnl` | every running `updater_task` and its local configuration; the handle they share |
| `hung`, `flaw` | the processor does not come back; history: a call failed that lost a packet |

A packet's bytes are pairs of its number and their place in it, so that a body
put together from two packets is told apart from one that was sent: `Parsed` is a
configuration only if all its bytes are of one packet's body; of anything else, and of a
packet whose `ssid_len` or `pwd_len` is too long, it is `Junk`, nothing, or a task that
overwrites its stack and strays. `WiredRecv` arms a transfer of `n % U8` bytes, as line 36
takes its size for a `_u8`: a packet of kind `big` loses its rest to what follows. `IrqBody` leaves `state` as it is, as line 180 does, so five bytes of the next
packet are taken for a body, and so on. `DeleteUpdater` ends the task
created last, whoever calls it. `IrqHangs` is `parse_header` printing in the handler
while a task holds the print lock; `Logging` has that lock in detail.

Calls of the network processor, the file system and FreeRTOS may fail at every
point where the code tests for it; `configure_ap`'s `bool` makes every outcome of an
access point a success, and `udp_resolver_start`, which lacks a `return`, and
`packet_handler_start` may leave a service out without anyone noticing. What cannot be seen
afterwards is left out: which call failed, the names and passwords, what a hang leaves
in memory, bytes that come when no transfer is armed. A save is two steps, the opening of the
file and its write with the close (`SaveOpen`, `SaveWrite`), between which power may be lost or the
start task may stop the network processor; a file whose write failed is `Torn`.

In `Logging` a task is away from printing, waits for the lock, prints with it or without
it, or is about to delete a task; a handler's print is one step between two of the
tasks', as it is on the processor. `Victims` gives the tasks that the handle in an
`OSI_ASSERT_WITH_EXIT` may name: the task itself, or for the updater tasks, which share their handle,
any of them.

## What is checked

| Run | Checks | Instance | Distinct states |
|---|---|---|---|
| `impolite` | `TypeOK`, `HandlesValid`, `InBounds` | 1 client, 2 sockets, 1 packet, 2 connections, Close and bad headers, vanishing clients, failing closes | 4,390,000 |
| `requests` | `QueuesDrained`, `ReplyIntact`, `PacketsSound`, `ReleaseAccepted`, `SessionSpec` | 1 client, 1 socket, 1 connection, 3 packets; read requests, and after an end of stream every kind; vanishing clients | 3,994,000 |
| `polite` | `NeverFull`, `ConnOwned`, `SocketOwned`, `Admitted`, `ReplyToAsker`, `Served`, `RequestRead` | 2 clients, 1 socket, 2 connections, 3 packets, a queue of 3, read requests and Close; failing closes; under fairness, no symmetry | 421,000 |
| `pool_access` | `AllocatorSpec` | a pool of 3, in one task | 2,800 |
| `programmer` | `TypeOK`, `AckMeansLoaded`, `ReadFaithful`, `WritesInRange`, `ServiceSpec`, `TransfersRunOut`, `Answered` | 9 blocks, 13 ranges, 6 byte values, 2 retries, lost transfers, power failures; under fairness | 180,000 |
| `memory_command` | `OverrunsAreHarmful`, `CmdRight` | every pattern of up to 5 tokens, 2 bytes of 2 bits, addresses of 3 bits | 1,008,000 |
| `codec` | `InStep`, `Overrun`, `RoundTrip`, `RefusalKeeps`, `ReadEnds` | 54 type bytes, 6 sizes and 2 start bytes in requests, in pieces or broken off; 4 sizes and 8 flag bytes in replies; both builds; under fairness | 824,000 |
| `boot` | `TypeOK`, `ConfigAlive`, `ServicesOnNetwork`, `StatusComes`, `StoredWasSent`, `Booted`, `ConfigTaken` | between two restarts two packets of 3 bytes with configurations, or one packet of any other kind; 3 values of a `_u8`, 2 updater tasks, a timeout of 2, one access point and one station; failing calls, losses of power; under fairness | 440,000 |
| `logging` | `LockComesBack`, `Exclusive`, `PrintsGoOn` | 3 tasks, two of which share a handle, and handlers; under fairness | 1,500 |

Three more runs, below, each refute one statement of the repository.

`SessionSpec` says that the two tasks implement `Session` under the mapping of
`PacketSession`: a request that reaches the controller has one of the sequences of
replies of its kind, all sent in their order to its client before the next request is taken,
or the device goes down.
`ServiceSpec` says that the handlers implement `Serving` under the mapping at the
end of `Programmer`: each request has one of the answers of its kind, once, or the
device goes down; only programming is given up with an error.
`AllocatorSpec` says that in one task the accesses of `pool_get` and `pool_release`
implement `Allocator`, which hands no item to a second user and keeps what is given
back: this is what lets `PacketManager` take each call on `packets_pool` for one step. In two
tasks it fails (run `race_lost`), and `PacketHandler` takes the calls on
`connections_pool` access by access.

The bounds. Two connections is the number in `config.h:56`. With two sockets one is reused
while the other is open; with one (`polite`), as soon as it is closed, and the two
`ConnectionInfo`s then compete for it. A pool of 3 packets is exhausted after one to three
requests, so the runs pass through the life of a device that runs out of packets and
go on after it; 1 packet makes that immediate where connections are the
subject. A single client of `impolite` has both sockets and as many connections as it likes,
since it may vanish and come back at any time. `polite` has a queue of 3: a handler
queues at most two replies, so a queue of 3 shows that the code's 5 is never full, and replies
that were not sent in time would fill it. `MaxInbox = 1` lets a request wait while another is served.
`polite` has read requests because they have the longest sequences of replies. In
`requests` a packet that was never written reads as a header of any kind, so an end of stream
brings the other kinds.

In `programmer` a byte has six values, so that the blocks of four bytes come within
two of where the loop's counter wraps, as blocks of 254 do in the code; a block of eight and a
range of eight are past it, a range of ten is past `packet_data` and a packet's size, and one of
22 past a `_u16`. The words of the blocks are their own addresses (a read of
others fails, below), but for one that is written over another's. The blocks include an odd
length, no bytes and no memory. Two words and two EEPROM bytes give each loop a first
and a last turn, four words in a read one in the middle; each transfer may be lost. In `memory_command` two bytes of two bits have every
carry, and five tokens are one more than the command holds and three more than an input has bits.

In `codec` the sizes are those at which a byte carries and those on both sides of
1024, 1029 and 65535. A header comes in pieces of 2 and 3, of 2, 2 and 1, or whole, and a body whole
or in any number of halves (`Pieces`): a piece that ends inside the header, at its end
and inside the body are the cases the loop can tell apart.

In `boot` a header of one byte before a body of two has transfers of both sizes in both states: once
`state` is stuck, a header's byte and the bodies that follow are taken for one another in every
alignment. Two packets are the fewest for which a body is overwritten while it waits to be
read, and for which a second task takes over the first one's handle; more packets repeat that,
and two updater tasks at once are all that two packets can need. One configuration (an access
point) beside the default (a station) has both modes. The kinds that come alone (`MCHosts`) are those
whose mode is unknown, whose lengths are too long, whose size is no `_u8` (4 of 3 values, so
that one byte is received and three are left), that are of another type, or that are refused. A
timeout of two has a turn that waits and one that gives up. In
`logging` two tasks can each be the other's victim, and a third one waits.

In `impolite` and `requests` the interesting cases are reached: the
passing runs between them fire every action, the crash and restart included,
and each property is broken by the mutant that `PROJECT.json` names for it.

**Fairness.** `FairSpec` assumes weak fairness of each of the two tasks: FreeRTOS
runs the ready tasks of one priority in turn, and neither task waits on the other
for ever. Clients and reboot get none. Both liveness properties allow the device to go down, as a failed programming restarts it
and a request without a handler crashes it, and the calls on `connections_pool` to overlap, after
which a `ConnectionInfo` may be lost.
In `Programmer` `FairSpec` assumes that the handling task is scheduled again and
that a restart completes: a transfer always ends, since the device is the SPI's
master. Losses of power get no fairness.
In `Codec` the task polls the socket and goes on with what it has read; the client owes
nothing, and `ReadEnds` names a client that neither sends nor closes as the one
thing that keeps the task waiting.
In `Boot` every task is scheduled again and again (the init task sleeps between its
polls, and whoever waits gives up the processor), and the UART and its interrupts go on by
themselves; the network, the host and the power owe nothing, and a device that hangs
or loses power is named as the way out.
In `Logging` prints end, and a free lock goes to one of those that wait, though not to
each: tasks of higher priority may always be first.

### What the code does not do

Three statements of the repository are refuted, each by a run of its own:

* `packet_leak`: the sending loop takes a packet from the pool on every pass and
  drops it (`packet_handler.c:236`). With the 10 packets of `config.h:62` the
  eleventh request finds none, though line 215 asserts that it does.
* `race_lost`: two polite clients; the second connects as soon as the first one's socket is
  closed, an update of `free_items` is lost between the tasks, and
  `pool_release` refuses a connection that was in use; `close_conn` asserts that
  it does not (`packet_handler.c:284-285`).
* `wired_header`: after a body "Receive header again" (`wired_configurator.c:179`) arms
  the transfer, but line 180 assigns the state to `status`; every later header is
  taken for a body.

The models also have these, as the code does; each is one line of it, plain in
any trace, and has no run:

* a refused connection's `ConnectionInfo` is never given back
  (`packet_handler.c:259-262`), nor is one whose socket could not be closed (281);
* a client that leaves without a Close packet keeps every later one from being served;
* "Failed to program memory" (`controller.c:197`) is queued and lost in the restart
  of the next line;
* nothing writes the type byte (`protocol.h:44`) of a reply (`packets.c:105-135`);
* the reply to a read request is the request's packet (`controller.c:227`), not
  `memory_packet`, which the bytes were read into (216-220) and which is lost;
* the number of bytes to read is not checked: a range of EEPROM is read past `packet_data`
  (`programmer.c:347`), the reply of one above 1029 bytes is refused (`packets.c:29-30, 110`) and the
  client told nothing, and from 32768 bytes the `_i16` returned (`programmer.c:351`) may be negative
  and the read called a failure; flash wraps at 256 bytes instead;
* a pattern with more than 32 tokens that set or clear a bit, or with a number of three digits, makes
  `create_memory_cmd` write outside its command or its buffer (`programmer_parser.c:178-201`);
* `programmer_enable_pgm_mode` returns 0 or 1, never less, so "Failed to enter PGM
  mode" (`controller.c:175`) is never sent and the failure is acknowledged;
* `PL_RESET_DISABLE` is looked for in `packet_data[1]` (`controller.c:100`), past the
  request's one byte;
* a block's length is kept in a `_u8` (`programmer_parser.c:38`); the rest is
  dropped and the block acknowledged;
* the echo test includes the byte that was read (`programmer_parser.c:66-68`), so a
  read fails unless the memory holds the low byte of its own address;
* UART packets (`protocol.h:35-36`) have the control packets' bit (`packets.c:72`)
  and are looked up among them;
* with one-byte enumerations, the default of bare-metal ARM compilers, an unknown
  type is 255 and not refused (`packets.c:91`);
* a header that comes in pieces is garbled (`packet_handler.c:409` does not advance
  `buf`), a header that is refused leaves its body in the stream, and at the end of
  the stream the previous header is served once more (416);
* a body of 1029 bytes is accepted for the 1024 of `packet_data` (`packets.c:66`);
* the status after `configure_ap` is always `CONNECTED` (`wlan_config.c:52-71`, 143), an access
  point that did not open included, as `false` is no failure (70);
* on a device that has given up on its network the network processor is stopped
  (`wlan_config.c:114`), so a configuration that comes by wire then cannot be saved;
* when both calls that should end the connection fail (`wlan_config.c:113-114`) the device stays
  connected with the status READY;
* the result of `sl_FsClose` is not looked at (`wlan_config.c:245`): a configuration that was not
  committed is taken for saved;
* `wired_recv` takes a size of up to 1029 as a `_u8` (`wired_configurator.c:36`), and the lengths
  of ssid and password are not validated (51, 62, 66);
* `updater_task` ends whichever updater task was created last
  (`wired_configurator.c:113`);
* the UART's interrupt handler waits for the print lock without a limit
  (`packets.c:73`);
* an empty datagram makes the resolver's task return from its function
  (`udp_resolver.c:99`), and `udp_resolver_start` lacks a `return`.

## What is proved

For every number of clients, sockets, packets and connections, every queue
size and every set of inputs, from the assumptions that `PacketHandler` states
on its constants (positive sizes; `None` is no client and no socket):

* `TypeCorrect`: `Spec => []TypeOK`
* `Drains`: `[]QueuesDrained`
* `PacketsStaySound`: `[]PacketsSound`
* `ReleasesAccepted`: `[]ReleaseAccepted`
* `RepliesToAsker`: `[]ReplyToAsker` (also for impolite clients)
* `RepliesIntact`: `[]ReplyIntact`
* `HandlesStayValid`: `[]HandlesValid`
* `RaceInBounds`: `[]InBounds`, the accesses of both tasks to `connections_pool`
* `RoomForReplies`: `[]NeverFull`, for queues of three or more (`SessionProofs`)
* `SessionImplemented`: `Spec => SessionSpec`, the refinement (`SessionProofs`)

for a pool of any size (`PoolAccessProofs`):

* `AllocatorImplemented`: `Spec => AllocatorSpec`, the refinement in one task

for any requests, contents of packets and sizes of replies (`CodecProofs`):

* `RequestsInStep`: `[]InStep`
* `BodiesBounded`: `[]Overrun`
* `HeadersRoundTrip`, `RefusalsKeep`: `RoundTrip`, `RefusalKeeps`, two action properties

for every size of a byte, set of blocks and ranges of any length, and loss of transfers
(`ProgrammerProofs`):

* `TypeCorrect`: `[]TypeOK`, with the counters inside their bytes and the retries
* `AcksAreLoaded`: `[]AckMeansLoaded`
* `ReadsAreFaithful`: `[]ReadFaithful`
* `WritesStayInRange`: `WritesInRange`, an action property
* `LoopsEnd`: `TransfersRunOut`, an action property
* `ServiceImplemented`: `Spec => ServiceSpec`, the refinement

for every size of a byte and of a command and patterns of any length
(`MemoryCommandProofs`):

* `OverrunsExact`: `[]OverrunsAreHarmful`
* `CommandsRight`: `[]CmdRight`

for any configurations, timeout, packet sizes that a `_u8` holds or not, and number of updater
tasks (`BootProofs`):

* `BootTypes`: `[]TypeOK`
* `ConfigOutlives`: `[]ConfigAlive`
* `ServicesAfterNetwork`: `[]ServicesOnNetwork`
* `StatusIsSet`: `[]StatusComes`
* `OnlySentIsStored`: `StoredWasSent`, an action property

and for any number of tasks, whatever handles they delete (`LoggingProofs`):

* `LockReturned`: `[]LockComesBack`
* `MutualExclusion`: `[]Exclusive`

The argument for `PacketHandler`. None of these is inductive. `IInv`
(`PacketHandlerProofs`) follows the request's packet through the loop:

1. *Received* (`dispatch`, from `close` to `freeing`, `release`): the packet is out of the
   pool, and the pool misses something, because the pool either handed the packet out or
   was exhausted, in which case everything is out.
2. *Processed*: the handler starts from an empty queue and leaves `GoodStore`:
   distinct packets in the queue, each out of the pool and intact. The lemma
   `ProcessGood` shows it for every handler; `TakeGood` and `WriteGood` are its two moves.
3. *Released*: now the request's packet is in the pool, perhaps while it
   is queued, but only as the last item given back (`QueueOutButLast`).
4. *Sending*: the needless get on every pass (236) takes exactly that item out
   again (`AfterGet`), so whatever is sent is out of the pool when it is released: the
   leak is what keeps the pool sound. The mutant that removes the leak breaks
   `PacketsSound`.

`OthersKeep` says that steps of clients and the listening task leave all of this
alone: they only add sockets and empty queues that are empty. The steps of the
handling task have a lemma each.

For `HandlesValid` the one fact to add is about the socket between `accept` and
`fill`: it is open and no `ConnectionInfo` names it (`Accepted`). A name is the `hndl` of a
`ConnectionInfo` unless `disable_connection` has closed that socket and not yet reset the
field (`Stale`): between the two steps the number may be accepted again and filled into another
`ConnectionInfo`, and then two fields hold it, one of which names nothing. No step gives
a second name (`NamesLess`), but for `fill`. A close that fails leaves socket and name as they
were.

`InBounds` needs the order of the copies (`PoolInv`): `pool_get`'s copy of `free_items`
is never above it until it has stored its own (`GetOrder`), `pool_release`'s never below it and
below `pool_size` (`ReleaseOrder`). That is all that two tasks leave of the pool: what an item's place
holds, and whether an item is free twice, is not determined once they have overlapped.

The refinement of `Session` needs one thing more, `MadeInv`: the pointers in the
queues and the tasks are of `ConnectionInfo`s that the pool has made, so that the
constructor, which empties an `out_queue`, never runs on the one whose replies are being
sent. Then the handler's step is `Serve` (by the replies each handler may queue), a send is
`Reply`, reboot and crash `GoDown`, and all else a stutter.

In one task nothing is stale, so `PoolAccessProofs!TaskInv` says that every copy is what it was
copied from, and that an item is in one place: in use, being released, or on the stack,
and there once (`Apart`). The stack is the first `Depth` places of `data`: when the build has
raised `free_items` before it writes the item, the place on top is not part of it yet. A
release that finds nothing missing would need as many items on the stack as were made, with
the one released left out: `TestKeeps`, by the pigeonhole principle. Then `GetMake` and
`GetStore` are `Get`, the second write of a release is `Release`, and all else a stutter.

For `InStep`, `CodecProofs` relates what was taken from the socket to what is still
wanted: in the body `taken + left` is the five bytes and the size that was parsed. If the
header is the one sent, that is `Total`. A header that was garbled on its way claims
nothing but its size, which the test of `parse_header` bounds, and with it `reach`. For
`RoundTrip` the arithmetic of a byte is proved once: a 16-bit size is its two bytes,
and a flag is its bit of the byte that the three make.

For the session, what is acknowledged is a property of the last step only;
`ProgrammerProofs!IInv` says what holds on the way: at byte `i` of a block the first
`i` bytes are in the AVR (`LoadedTo`), `address` is where byte `i` belongs, and no
two bytes of a block have the same cell (`CellsOfBlock`), so the next write spoils
none of them. A transfer that passes `check_cmd_status` was executed
(`LoadResult`). For a read, the place of the next byte in `memory_packet` is `i` as long as the count is at
most `U8` (`ReadInv`); beyond, flash wraps and says nothing, and EEPROM runs on until it
leaves `packet_data`, which is a fault. Even sizes are needed twice: the loops take two bytes a turn, and
an even `U8` keeps the low byte of the last word below the wrap.

`WritesInRange` follows because only two kinds of step change memory, and for both `IInv`
has the address that belongs to the byte; `ServiceSpec` by mapping each step of a
loop to a stutter and each return to `Answer` or `Fail`. `TransfersRunOut` needs of `IInv`
that no sum of a loop has wrapped: then a turn of two bytes is two steps of `TransfersLeft`,
which is above 0 wherever the loop goes on. It is the safety part of `Answered`; what fairness adds is
that the next transfer is made.

For a command, `MemoryCommandProofs!IInv` says that the offsets are those of the next
place, that the input's offset is one below the bits taken as long as there is one to take, and that
the command has exactly the bits of the tokens read. A place determines its byte and its bit
(`PlacesDiffer`), so a step writes a bit that no other token writes. It needs `U8 >= Bits`: the
offset of the input counts down in a `_u8`, which does not wrap before every bit has been taken. An
overrun is remembered with the token that made it, so it is harmful from then on (`OverrunsHarm`), and
a pattern read to its end without one has no such token.

For the boot, `BootProofs!IInv` is the order in which two tasks move: as long as the start task
has not set the status it is CONNECTING, so the init task is in its loop and its stack is alive; the loop of
`configure_sta` is left with the network processor connected, or to give up, which stops it unless
both calls fail, and the status says which. The same order gives `StatusComes`: a start task
leaves CONNECTING only with a result, and the init task polls only after it has created one.
`StoredWasSent` is about restarts in which the first packet's size fits its `_u8` and its
lengths the arrays (`Fits`). Where that packet is, `OnePacket` says: nowhere yet; its header is coming
(`HeaderComes`) or its body (`BodyComes`), its bytes being in order in `packet_data` and on the wire; in
the hands of the one updater task there is (`Handed`); lost, with the transfer stopped (`PacketLost`);
or written over by bytes of a later one (`Mixed`), of which the property claims nothing. For the lock,
`LoggingProofs!IInv` adds to the two invariants that a holder has the lock unless it was stolen.

The assumptions: `Programmer` has `U8` even and not above `MaxBody`, at least one retry, requests
that stay inside the memories of the AVR (not inside a packet: counts are any numbers), and a `U16` that
holds twice `MaxData`. `Boot` has markers (`Junk`, `Torn`, `NoFile`) that are distinct and no
configurations, sizes from 1 to below `U8`, and a large size that is no multiple of `U8`.
`Codec` has a header of five bytes, replies with 16-bit sizes, and for what a packet held before a
`PacketHeader` with a 16-bit size (`PreviousAssumption`).

Only model-checked: the liveness properties `Served`, `RequestRead`, `Answered`, `ReadEnds`,
`Booted`, `ConfigTaken` and `PrintsGoOn`, since TLAPS does not prove liveness under fairness, and
`ConnOwned`, `SocketOwned` and `Admitted`, which hold until calls on `connections_pool`
have overlapped. Every other property of a passing run is a theorem.

## Plan

Done: all modules above with their runs and theorems. Left, in this order:

1. Partial writes in `send_nbytes`, as `Codec` has partial reads.
2. Theorems for `ConnOwned`, `SocketOwned` and `Admitted`: the polite client's one connection
   followed through the accesses of `PoolCalls`.
3. The layout of `get_mcu_info`, once its writes have an effect that the code determines.
4. The resolver's datagrams.

## Not modelled

The network processor, the SPI peripheral and FreeRTOS are external: modelled
by what the code relies on.

Never called, and left out: `pool_delete`, `packet_handler_stop`, `read_packet`,
`wlan_stop`, `udp_resolver_stop`.

Of the packet handler, partial writes of `send_nbytes` and the failure to create its
tasks and queues are left out; of the programmer, the SPI clock and the delays. `get_mcu_info` writes the terminators of its patterns at their places
in the packet (`programmer_parser.c:87`), beyond the memory it has allocated for them: what that
changes is not determined by the code, so its layout has no model.

Of the wired configurator, bodies of different sizes that fit (all of an instance have
one) and a size that is a multiple of 256, for which `wired_recv` arms a transfer of no bytes, are left
out; of WLAN the board's
initialisation and the SimpleLink hooks, which only log. The network's events are modelled
only in the loop that waits for them, since nothing reads their bits afterwards. The UDP resolver
is there as a service that is started and ends; what it answers changes no state.

The bridge task, pin multiplexing, callbacks that only log, and logging text have no
behaviour to check.
