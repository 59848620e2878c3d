# common_lib in TLA+

A verification development for common_lib, a library of C code shared by
microcontroller firmware: file systems, an allocator, a command shell, an IPv6
stack, drivers for radios, memories and sensors.  The models are translated
from the C source; `PROJECT.json` maps every definition to its lines.

## 1. The system

The library has no main program.  A firmware links the parts it needs,
supplies a `board.h` and the functions that touch hardware (`FlashFSErase`,
`EEPROM_WritePage`, `ethernet_packet_send`, `nrf24_RW`, ...), and calls the
parts from its main loop and from its interrupt handlers.  There are no
threads; what runs concurrently is the main loop, the interrupt handlers, a
DMA controller, and the power supply, which may go at any time.

| component | state it keeps | operations | interacts with |
|---|---|---|---|
| flash file system (`fs/flash_fs.c`) | a FAT in RAM, its copy in block 0 of the flash, data blocks | mount, format, unmount, create, write, read, delete, rename, sync | called by `shell/flash_fs_commands.c`; calls the board's erase and write |
| heap (`heap.c`) | headers inside the memory it hands out: a sorted list of free and a list of used blocks | init, alloc, free | called by firmware |
| EEPROM sections (`fs/eeprom_fs.c`) | headers in the EEPROM only | format, create, find, delete | calls the board's page access |
| FAT16 reader (`fs/fat16_nocache.c`) | one cached sector, the position in an open file or directory | mount, list, find, open, read | block device |
| fixed queue (`fixed_queue.c`) | a ring that overwrites its oldest item | push, pop, peek, move to top | shells, ethernet debug log |
| shell (`shell`, `shell2`, `getstring.c`) | registered commands, history and position in it, line being edited | register, execute, previous, next; key by key editing | fixed queue; UART interrupt (shell2) |
| ethernet queues (`queue.c`, `eth_queue.c`) | three rings between interrupt and main loop | peekTx/add, poll | the packet handlers, the MAC driver |
| IPv6, NDP, ICMPv6, UDP (`ethernet/`) | own addresses and prefix, neighbour table, router | a handler per packet type | ethernet queues |
| UART log (`uart_log.c`) | a ring of records | printf0..4 from any context, process from the main loop | DMA |
| nRF24, CC1101 (`rf/`) | copies of chip registers; the chip's mode and FIFOs | init, transmit, receive | SPI |
| RF sensor decoders (`rf/*Decoder.c`) | bit counter, bits, time of the last edge | one call per edge | a queue of packets |
| Forth (`forth/`) | two stacks, dictionary, compile mode | one call per line | words written in C |
| SWIM debugger (`debugger/swim.c`) | clock and mode of the target | enter, read, write with acknowledgements | DMA-timed pin |
| I2C/SPI in software, memories (`i2c_soft.c`, `spi_*`, `memory/`) | bus lines; write-enable and mode of a chip | transfers with timeouts | pins |
| clocks (`rtc/`) | none (date arithmetic), chip registers | conversions, get, set | I2C |
| loaders (`elf_file_loader.c`, `object_file_loader.c`) | the image being relocated | load | memory |
| keyboards, touch panels, displays, sensors, converters, audio, crypto, formatting | little or none | register access, drawing, arithmetic | pins |

### What is hard to test, and what makes each part correct

* **Power loss between two writes** (flash FS, EEPROM sections): what was
  stored before survives; a half-written directory is not taken for a whole one.
* **Failing writes** (flash FS): the state in RAM has already changed when the
  write fails, and later commands go on with it.
* **Long sequences of legal calls** (flash FS chains, heap lists, EEPROM
  areas): linked structures stay linked, nothing is owned twice or lost.
* **Main loop against interrupt** (ethernet queues, UART log, neighbour
  table): a slot is not reused while it is read; nothing is lost unnoticed.
* **Rings at their limit** (fixed queue, `queue.c`, UART log).
* **Timeouts and retries** (nRF24, SWIM, I2C): an early return leaves the
  device in a state the next call copes with.
* **Input by pulses or keys** (decoders, line editor): bad input does not leave
  the automaton where good input is no longer understood.

The list with source lines and the properties that cover each is `hazards` in
`PROJECT.json`.

## 2. Modules

| module | models | role |
|---|---|---|
| `FlashFAT` | the FAT and the functions over it: validate, find, allocate, grow, shrink, release | operators, no state |
| `FlashFS` | the file system under its shell commands, failing accesses and power losses | state machine |
| `FileStore` | a store of named files, with commits and restarts | abstract specification |
| `FlashFSProofs` | | proofs |
| `HeapLayout` | sizes, units and spaces of the heap | operators, assumptions |
| `HeapBlocks` | the allocator as two sets of blocks | abstract specification |
| `Heap` | the allocator with its doubly linked lists | state machine |
| `HeapProofs` | | proofs |
| `MCFlashFS`, `MCHeap` | | instances for TLC |
| `EepromFS` | the sections of an EEPROM and the headers they are found by | state machine |
| `EepromFSProofs` | | proofs |
| `RecencyList` | a bounded list of the newest items | abstract specification |
| `FixedQueue` | the ring of `fixed_queue.c` | state machine |
| `FixedQueueProofs` | | proofs |
| `ShellHistory` | the history of both shells, on a `FixedQueue` | state machine, extends `FixedQueue` |
| `Shell2` | shell2 at its terminal: receive ring, line editor, command lines, history | state machine, extends `ShellHistory` |
| `Terminal` | what the user of shell2 is promised at the keyboard | abstract specification |
| `EthQueue` | the packet rings of `queue.c` and `ETH_Handler` | state machine, the part of `EthStack` below the protocols |
| `EthStack` | the IPv6 stack: interrupt handler, neighbour table, own addresses, the sends of the main loop | state machine, extends `EthQueue` |
| `UartLog` | the log of `uart_log.c` against interrupt handlers and the DMA controller | state machine |
| `UartLogProofs` | | proofs |
| `ForthStack` | what each word does to the data stack | operators, no state |
| `Forth` | the Forth machine: compiling, dictionary, threaded code | state machine, uses `ForthStack` |
| `ForthProofs`, `ForthJumpProofs` | | proofs |
| `Fat16Disk` | the cards, and which entry a path leads to | operators: the reference for `Fat16` |
| `Fat16` | the reader of `fat16_nocache.c` with its one sector buffer | state machine, uses `Fat16Disk` |
| `Nrf24` | the driver of the nRF24L01 against the chip | state machine |
| `NetworkProofs` | | proofs about `EthStack` and `Nrf24` |
| `I2cSoft` | the I2C master of `i2c_soft.c` against a target | state machine |
| `MCEepromFS`, `MCShellHistory`, `MCEthStack`, `MCUartLog`, `MCForth`, `MCFat16`, `MCNrf24`, `MCI2cSoft` | | instances for TLC |

### FlashFS

| TLA+ | C |
|---|---|
| `fat` | `data->fat.file_table`: `file_entries` (name, first_cluster, size), `free_size`, `cluster_table` |
| `mounted` | `data != NULL` |
| `flash`, `flash_fat` | the contents of the flash: data blocks, and block 0 with how far it has been programmed |
| `cmd` | the locals of the command in progress: the buffer and the part of it, the cluster and the length left that `FlashFSInternalWrite` is at, what `FlashFSSync` does next |
| `dirty`, `faults` | history (names changed since the last good sync) and a bound; no code reads them |

A command checks its arguments and edits the FAT in RAM in one step, because
nothing runs between these statements that could see them.  Then each erase and
each program of a block is a step of its own, which may fail (and may then have
done its work or not), and `PowerLoss` may come between any two.  Programming
block 0 can be cut short at every byte of the cluster table; bytes not reached
read 0xFF, which is the end mark.  A command that is refused changes nothing
and is no step.  Lengths are bytes, with `ERASE_SIZE` as the size of a block
and `SIZE_MOD` as the width of the `unsigned short` that holds a size.  A
buffer is as long as the command allocated it: `cp -f` takes the destination's
length for one that has the source's, and what `FlashFSInternalWrite` reads past its end
(flash_fs_commands.c:236-261, finding of `flash_fs_copy`) is written as no part of
any contents (`BufferPart`).

`FileStore` is what the user is promised: a command touches only the files it
names, a restart brings back every file that was not changed since the last
commit, and only a restart while the directory itself is rewritten may lose
everything.  `FlashFS` implements it under the mapping `StoredFiles`: what
`FlashFSFileRead` would return for each name, from RAM while mounted and from
the flash when not.

### Heap

| TLA+ | C |
|---|---|
| `header` | the `HeapBlockHeader` at each address that has one |
| `free_blocks`, `used_blocks`, `free_size` | the members of `HeapInfo` of these names |
| `live` | history: what callers hold and how much they asked for |

An address is counted in units of one header, sizes likewise, so the division
and the rounding of `Heap_Alloc` are in `HeapLayout`.  When `Heap_Merge`
swallows a header its entry leaves `header`: a link to it that is still
followed makes TLC stop with an error.  `used_size` is left out: nothing reads
it.  The spaces are assumed to be given in the order of their addresses and not
to overlap: `Heap_Init` does not sort them, and a list that goes down is an
error to `Heap_Check` (heap.c:256).  A loop along a list is a function from the number
of steps to the address met, `Walk`, and `Heap_Merge`, which calls itself, is
as many times `Swallow` as there are addresses: when there is nothing left to
swallow it changes nothing.

`HeapBlocks` says what the allocator does to blocks, without lists: first fit
by address, the upper end of a block that is split, merging with neighbours.
`Heap` implements it.

### EepromFS

| TLA+ | C |
|---|---|
| `eeprom` | the contents of the EEPROM: what each page reads as when its first bytes are taken for an `eeprom_header` |
| `pending` | the header that the call in progress has still to write (`EEPROM_CreateSection` line 64, `EEPROM_Format` line 153) |
| `live`, `torn` | history: the sections callers made; the first page whose header a power loss took away |

The C code keeps nothing in RAM, so a section is what a walk from page 0 finds:
`Areas` is that walk, and creation, search and deletion are expressed by it.
The walk needs every page to hold some header-like bytes, so a page in the
middle of a section holds what the section's owner put there (`Zeros`, `Text`),
what an erased page reads as, or a header of an earlier time.  A creation that
splits a free area writes two pages, a format erases and then writes one; power
may go in between.  A page is written as a whole or not at all.  Afterwards the
sections behind the missing header are not found, which the code does not
repair; `FoundWhereCreated` says that everything in front of it is.
Sizes are `unsigned int`; `UINT_MOD` is 4096 in the run, because TLC's own
integers have 32 bits, and is far above every size that occurs.

### FixedQueue, ShellHistory, Shell2

`current`, `first` and `buffer` are the members of `FixedQueue`.  `Contents`
counts back from the newest item as `fixed_queue_peekn` does, and `RecencyList`
is that list: push in front and drop what is too old, pop from the back, move
to the front.  `ShellHistory` extends the ring with
`shell_execute`'s use of it and the Up and Down keys; `recalled` is what the
last key put on the line (a return value in C).  An item of the history is
taken to be as long as a command line, so that no command is cut off: the
sizes are the board's.

| TLA+ | C |
|---|---|
| `waiting` | the bytes of `rx_buffer` between `rx_buffer_read_p` and `rx_buffer_write_p` |
| `escape` | where `getstring_next` is: the bytes of an escape sequence it has taken |
| `line` | `command_line` up to `buf`; its length is `idx` |
| `sending` | the bytes of a key that the terminal has still to send |
| `garbled` | history; no code reads it |

`Receive` is one receive interrupt.  Each other action is one call of
`getcharf_` with all that follows until the next call, `shell_handler` and
`shell_execute` included, because nothing else touches what they use.  The ring
is a sequence: it is read and written at its ends only, and a byte that fills it
makes the two pointers equal, so that nothing waits any more.  A byte is named
for its meaning.  The ring has room for `SHELL_RX_BUFFER_LENGTH - 1` bytes, and
`getstring_next` does not look whether the bytes after ESC have come; when one
byte too many comes, or the main loop is faster than the terminal in the middle of a
key, `Terminal` promises nothing, and these states (`garbled`) are not
continued.  Until then shell2 implements `Terminal`, which handles a key at a
time and knows nothing of bytes, interrupts or rings.

`argv` is left out.  `buildCommandParameters` copies a word into it
without a terminating zero, over what the last command left there, and never
counts the word's length (`length` stays 0); what becomes of it depends on the
words of the firmware's commands.

### EthQueue and EthStack

| TLA+ | C |
|---|---|
| `rx_head`, `tx_head`, `buffer` | the members of `eth_irq_queue` and `eth_user_queue`; a packet is its number |
| `handler`, `sending` | where `ETH_Handler` is, and the slot it gave to `ethernet_packet_send` |
| `ndp_table` | `ndp_table` with `ndp_table_p` |
| `eth_instance`, `ntp_time_is_set` | own prefixes, the router's hardware address; whether NTP answered |
| `options` | the rest of the router advertisement that `parse_ra` is in |
| `composing` | the packet that `ETH_UDP_Send` of the main loop is at, and the pointers it holds |
| `added`, `sent`, `overrun`, `latest`, `masked` | history; no code reads them |

`ethernet_packet_received` is taken to run in the interrupt handler, as the name
of `eth_irq_queue` says, and to be finished before the main loop goes on.  What
the interrupt handler does is one action per kind of packet, with the
neighbour table brought up to date first, as both handlers of `eth_ipv6.c` do;
only a router advertisement is taken apart option by option, and the main loop
waits meanwhile.  The main loop is cut wherever the interrupt handler can be
seen: between `queue_poll` and the end of `ethernet_packet_send`, between two
queues, and in `ETH_UDP_Send`, which holds a pointer into the neighbour table
while the handler may write to the table.  The hardware address is copied in
two parts, for the six bytes that `memcpy` copies; either part may be of a
different time.

An own address is its prefix, since there is one under each.  The pointer to
`router_mac_address` is `Router`, one past the entries.  The firmware's
`eth_set_prefix_callback` is not in the library; it is taken to ask an NTP
server, which is what the library has `ETH_NTP_Send` for.  A firmware is assumed to send only
to hosts it has an own address for: `ETH_UDP_Send` and `ETH_NS_Send` do not look
whether `ETH_GetMyIP` returned `nullptr`.  The log level is `ETH_LOGLEVEL_NONE`, so the queue of
debug lines, which the interrupt handler may fill and `ETH_Handler` empties in the main
loop (eth_queue.c:59), stays empty; it is not modelled.  An option of length 0
keeps `parse_ra` for ever (eth_icmpv6.c:125-127), in the interrupt handler: then
the option stays where it is and the main loop makes no further step.

Neither ring is ever found to be full: a packet added to a full one makes all
that wait disappear.  `NothingLost` therefore speaks of a ring that was not
overrun, and says that `size - 1` packets are safe besides the one that is
being sent; `SentInOrder` speaks of every ring.  Likewise a packet from `::`
(an address being tested for duplicates) gets an entry of the neighbour table,
which ends every search before the entries behind it.  `NeighboursKnown` holds
until that happens in a table that is full (`masked`); afterwards a host may
have two entries and the older one may be used, so nothing is claimed.
`WellAddressed` exempts that, and a packet whose own entry is given to another host
while it is composed (`replaced`, eth_udp.c:51): it does go to that host.

### UartLog

| TLA+ | C |
|---|---|
| `log_buffer`, `log_buffer_write_p`, `log_buffer_read_p` | the variables of these names; a word is a number of parameters, the address of a format, or a parameter |
| `taking`, `taken` | where `uart_log_process` is, and the words it has read |
| `printf_buffer`, `dma` | the formatted text; what the DMA controller is sending from |
| `stuck` | `uart_log_process` is in its `while (1)`, or follows an address that is none |
| `logged`, `sent`, `overrun` | history; no code reads them |

A message is logged in one step, since `uart_log_printf` disables the
interrupts; `uart_log_process` reads one word per step, and messages are
logged between any two.  The arguments of `snprintf` read parameters off the ring, in
an order that C leaves open, so the parameters of a message may come out
forwards or backwards (`Orders`).  `SentAsLogged` therefore promises the format
and its parameters in one of the two orders.  A record that did not fit
(`overrun`) overwrites what was not read; afterwards a record is read from its
middle, and nothing is promised.

### ForthStack and Forth

| TLA+ | C |
|---|---|
| `mode`, `data_stack` | `fvm_mode`; the stack below `fvm_data_stack_pointer`, its top first |
| `dictionary`, `new` | the words behind `fvm_last_word_initial`; the word behind the last one, while it is compiled |
| `conditions`, `do_index2`, `leave_words` | `fvm_conditions_stack`, `fvm_do_index2`, `fvm_leave_words` |
| `do_index`, `do_variables` | the stack of loop variables |
| `running` | the frames of `fvm_rstack`, `fvm_current_word` as word and cell |
| `failed`, `lost` | the line was given up; the code did what C leaves undefined |
| `typed`, `broken`, `exited`, and `source`, `first`, `spoiled` of a word | history; no code reads them |

Every word that builds a structure has its compiling part
(`CompileOpener`, `CompileMiddle`, `CompileCloser`: cells emitted, conditions
pushed and resolved, jumps patched) and its running part (`Run...`), one cell
per step.  `JumpsFollowStructure` compares each patched operand with the
target that the nesting of the typed words calls for, computed from `source`
without a stack.  `NeverAstray` and `LoopsBalanced` are about running: that
only code is run, and that loop variables are taken off as often as put on.

What the exemptions stand for: a word that is refused leaves the machine in
compile mode, with what it popped or patched not undone, so that `;` on a later
line finishes a definition that jumps anywhere (`spoiled`, `broken`); `exit` out of a loop
leaves the variables on their stack, because `unloop` does nothing, although its
comment (forth_words.c:1778-1779) says what it should do (`exited`); the text of
`."` is skipped by a computation that is one cell too far when text and zero
fill their cells exactly (`broken`); pushes are not checked against the
stack's limit, nor a shift against the width, and one condition too many, one
`leave` too many or a `leave` outside of a loop is written past its table (`lost`;
the last three are `Overrun`).  What is `lost` is not continued: memory outside of
the model was overwritten.

Seen while reading, and modelled as it is: `2-` takes one away
(forth_words.c:816-820); `rangeof` jumps when the number *is* in the range;
`rshift` keeps the sign, though its comment says zeros (1760-1771); `endcase`
and three comparisons (`0<>`, `0>`, `0<`) do not look whether the stack is empty; `i`, `j` and `k`
read fixed variables, the outermost loop's first.

### Fat16Disk and Fat16

| TLA+ | C |
|---|---|
| `temp` | `temp_buffer` as <<card, sector>>, and `temp_sector` |
| `scan`, `prev_cluster` | `scan_cluster_no`, `scan_sector_no`, `scan_sectors_left`; `prev_cluster` |
| `fe` | the entry found last |
| `file` | `file_cluster`, `file_sector`, `file_size_left` |
| `call` | the function in progress, where it is, and the path components left |
| `started`, `card` | `FileOperationsStart` has worked; the card in the slot |
| `out`, `open` | what the last call returned; history: the file being read |

A card is given by its geometry, its FAT and its directories; the content of a
sector is known by the sector's number.  `Fat16Disk` says which entry a path
leads to and which sectors hold a file, without buffers or positions
(`Walks`, `BlockSector`), and `LookupsExact` and `BlocksOfTheFile` compare the
reader's answers with it.  A step reads one directory sector and what leads to
it.  Any read may fail and leave anything in the buffer; the card may be
changed while the device is stopped.

`LookupsExact` and `BlocksOfTheFile` leave out what the reader cannot do, each named in `Readable` or in
the property: a directory whose last sector is full (a search that finds
nothing then leaves the last name in `fe`), a long name whose file has the
first entry of a sector, erased pieces of a name in front of a file, a volume
with one sector per cluster (where the chain of a file is not followed), and
the blocks after a read that failed (`open.failed`).  The last block of a
cluster of a file that goes on is read, and then the FAT sector is read over it
before the caller can use it (fat16_nocache.c:565): `BlocksOfTheFile` says that
the caller finds that FAT sector there, and the file's own sector everywhere
else.  `FolderScan` without a next sector
returns without setting `*error_message`, which its caller then looks at; it
was not initialised, so either outcome is modelled.  "..", names of more than 64
characters and files longer than their chain are not modelled.

### Nrf24

| TLA+ | C |
|---|---|
| `nrf24_configByte` | the driver's copy of CONFIG: CRC length, PWR_UP, PRIM_RX |
| `ce`, `pc`, `rc`, `counter`, `payload` | the pin; the locals of the call in progress |
| `chip` | the chip: CONFIG, FIFO, the packet in the air, TX_DS, MAX_RT, retransmission |
| `out` | what the last `nrf24_transmit` returned |
| `last_sent`, `late`, `doubt` | history: the payload that went out last, one that went out after its call, and whether a transfer has failed since `nrf24_Init` or a retransmission outlived the timeout |
| `trouble` | history: what is known of the call in progress: the chip was not clean `before` it, a packet was `in_air` when it gave up, a transfer of its own `cleanup` failed |

An SPI transfer is a step, which may fail; a failed one may or may not have reached the
chip.  The chip is external: it sends the head of its FIFO while CE is high
and it is in transmit mode, at its own pace.  Two assumptions about it are
named in the module: without retransmission a packet is out before
`nrf24_transmit` gives up, and a chip that leaves transmit mode drops what it
was sending.  After an early return (lines 368 and 371: the mode could not be
set, the payload is too long or could not be written) the radio stays in transmit mode with CE low
and does not listen; `ListensAgain` leaves these returns out.  It speaks of every other
return, the 0 of a failed poll (line 382) included, whatever failed before the call.
`nrf24_transmitCleanup` and the flush ignore what their transfers return (lines 355, 356,
381, 387, 395): a call of which one of these failed may return 1 and not listen, or keep a flag or a
payload, and is exempt.  A packet that was in the air when the call gave up may raise
its flag after the flags were cleared, and a call that began on a chip that was not
clean may return 1 for an older payload and leave its own in the FIFO.

### I2cSoft

| TLA+ | C |
|---|---|
| `sda`, `scl` | what `SDA_HIGH` and the like did last; a wire is high when nobody pulls it (`SDA_IN`, `SCL_IN`) |
| `todo`, `accesses`, `bits` | where the call in progress is: its starts, bytes and stops, the accesses of the first of them, what it has read |
| `timeout`, `in_data`, `rc` | the locals of these names; `rc` is what the call returns |
| `target` | the target: its side of the wires, the byte it is in, and what it heard and sent in this call |
| `asked`, `held`, `late` | history: what the caller passed, whether the target held a wire when the call began, whether a wait was given up in it |

An access to a wire is a step, and the target reacts to each change it can
see: a start or a stop is a change of SDA while SCL is high, whoever makes it,
so that a bus left in the middle of a byte is told apart from a free one.  The
target is external: it may refuse a byte that is for it, and hold SCL before
any bit of acknowledgement, which is where the code looks at SCL; it is taken
to react faster than `i2c_dly`.  A call may find it still holding a wire after
a call that gave up waiting; then the start is not seen and the address may be
taken for data, and nothing is promised (`held`).  A call made when the wires are let go
is understood, whatever the last one left behind.

Seen while reading, and modelled as it is: `i2c_soft_write` with `ignore_nack`
sends no data (i2c_soft.c:210), and returns 0 for what the target never got, an
exception that `ReturnTellsHowFar` names; a read of no bytes ends in a stop that the target does
not see when its first bit is low, and leaves the bus taken; 1 is returned for an address that was
refused and for a byte that could not be read.

## 3. Runs

| run | instance | shows |
|---|---|---|
| `flash_fs` | 3 blocks of 2 bytes, 2 names, files of 2 or 3 bytes, 1 failing access | consistency, independence, crash behaviour, refinement of `FileStore` |
| `flash_fs_names` | and a name that is too long | finding: a created file is not found |
| `flash_fs_copy` | | finding: `cp -f` copies the wrong length |
| `heap` | 3 spaces of 6, 4 and 3 units, 2 of which touch; requests of 1, 12 and 30 bytes | list structure, accounting, refinement of `HeapBlocks` |
| `eeprom` | 4 pages, 3 names, sections of one page and of two | tiling, merging, sections found after a power loss, no write into a section |
| `shell_history` | a ring of 4 slots, lines of 2 characters, a receive ring of 4 bytes | refinement of `Terminal` and, by the ring, of `RecencyList`; no duplicates |
| `ethernet` | two rings of 2 slots, 3 answers, 1 packet of the main loop, a table of 2 entries, 3 hosts of which one moves | nothing lost by a ring that has room, sending in order, one up-to-date entry per neighbour, where a packet goes that is composed while neighbours move |
| `uart_log` | a ring of 7 words, 4 messages of 0 to 2 parameters | messages sent as they were logged, and each of them some time |
| `forth` | every stack of up to 5 small numbers for the stack words; definitions of up to 5 words and a second one that calls the first | jumps, that only code is run, balance of loops, the stack comments of nine words |
| `fat16` | 3 cards, 9 paths, 4 entries of the FAT or 3 of a directory per sector, 1 failing read, 1 change of the card | lookups and blocks against the contents of the card |
| `nrf24` | 2 polls, a FIFO of 2, 3 transmissions, 2 failing transfers | what a return value says of the payload; the radio listens again |
| `i2c_soft` | calls of up to 2 commands, 2 bytes out and 2 in, bytes of 2 bits, 2 looks at the clock | what a return code says of what the target took; the bus is free again |

Why these bounds are enough:

* FlashFS: three blocks allow a file of two blocks and one of one, in any order
  of clusters, growing and shrinking next to each other, and a full file
  system.  Lengths 2 and 3 are a full block and one that needs a part of a
  second.  One value suffices for the contents: every block is erased before it
  is programmed, a part carries its number, and an erased block differs from
  both.  One fault is enough for each place where an access may fail; power
  losses are not bounded.  Names are symmetric.
* Heap: the first space can be cut into three blocks, so a block is freed with
  free neighbours on both sides, on one and on none, in the middle and at both
  ends of the list, and next to a block of another space; the third space has 5
  bytes that are no unit.
* EepromFS: four pages hold a two-page section with a free area on both sides;
  a section of 32 bytes just fills a page of 64 with its header, one of 33 does
  not.
* Shell2: four different lines are commands, one more than the history holds,
  two are refused (an open string), and a third character does not fit on the
  line.  With `MaxAhead` (1) byte waiting another key may be pressed, so that an arrow
  key (3 bytes) fits exactly or overruns the ring by one.  The history's ring wraps, is full,
  has one command more to push than it can hold, and its rotation is of two and of
  three items, with the indexes at every place; `HistoryView` takes states for one that
  differ in slots that are not between the indexes.  Popping and resetting the ring,
  which the shells do not do, are covered by the proofs only.
* EthStack: a ring of two slots is overrun by the second of two packets, or,
  with one in flight, by the third; `MaxAnswers` (3) and `MaxSends` (1) bound
  the packets added to either ring.  Three hosts in a table of two entries make entries
  replaced, also the one that a packet is being addressed from.  `Senders`
  bounds who sends: one host from two hardware addresses, two from one, and `::`.
  `MaxOptions` (1) prefix per advertisement: an advertisement of a second
  prefix is a second one.  States with `masked` are not continued, because no
  property claims anything of them.
* UartLog: a record of four words in a ring of seven leaves room for one of two, so the
  ring wraps inside of records and is overrun by the second or third; four
  messages are one more than it can hold.
* Forth: `MaxTyped` (6) words make a definition of up to five words between `:`
  and `;`, and the call that runs it: enough for a structure of three parts with
  a `leave` or a text in it, or two structures in each other.  A definition of up to
  `MaxFirst` (2) words may come before one that calls it inside of structures.
  One word of a definition (`MaxPlain`) builds nothing.  `FVM_CONDITIONS_STACK_LENGTH` (3) is the
board's to choose, and `LEAVES` is 2 where the code has 10: both tables are
filled and overrun by definitions of this length.  Numbers of 3 bits
  overflow in every direction; texts of 2 and 3 bytes are one that ends inside
  a cell of 4 and one that fills it.
* Fat16: "tidy" has two sectors per cluster, a file of 9 bytes in three clusters, one
  whose chain is broken, and two long names that begin in the sector before
  their file's and in the cluster before; "crowded" has one sector per cluster, a root
  directory that is full, a long name whose file begins a sector and an erased
  piece of one; "unformatted" is refused.  Blocks of 2 bytes and files of 0 to 9
  bytes end on and off a block and a cluster.
* Nrf24: two polls are the fewest that tell a late answer from none; three
  payloads are one more than the FIFO holds; two faults hit a transfer and the
  clean-up after it.
* I2cSoft: two bits are an address bit and the one that tells a read from a
  write; two looks at the clock are a wait that is given up and one that is
  not.  Two bytes are the fewest of which one is acknowledged and one is not.  The number of calls has no bound.

The runs check deadlock unless the `.cfg` says otherwise.  The two violation
runs do not look for deadlocks, as they stop at the counterexample.

Fairness is assumed in `uart_log` only: weak fairness of `uart_log_process`,
which the main loop calls again and again and which never waits for anything,
and of `DmaEnd`, since a DMA controller comes to the end of a finite text.  No
fairness is assumed of those who log.  The other operations return after a
bounded number of steps of their own, and nothing waits; in `nrf24`, where
the driver does wait, its polls are counted.

## 4. Proofs

TLAPS checks, for every value of the constants that satisfies the named
assumptions:

* `FlashFSProofs`, from lemmas about the operations on the table.  Four invariants, each on top of the one before it:
  - `TypeInv` gives `TypeCorrect`.  `TypeOK` alone is not inductive: that `left`
    decreases to no less than zero needs that something is left while the loop runs.
  - `LinkInv` adds that the FAT in RAM and the saved one are linked: there is a
    function that gives each file in use a sequence of clusters, as long as its
    size calls for, each linked to the next and the last to the end mark, with no
    cluster in two places and every marked cluster in one; `free_size` counts
    the rest (`Linked`).  A sequence that exists does what a recursive walk
    could not: growing a file appends to it, a cut keeps a part of it, and both
    are shown with it to leave the other files' sequences alone
    (`NeverCrossLinked`, `AlwaysConsistent`).  `TornRejected` follows, because a
    FAT cut short has an end mark in the place of a link or of a free cluster,
    and the count is then wrong unless nothing was lost.
  - `FSInv` adds how much of a write in progress is in the file's sequence, at
    which place (`AlwaysWritesOwnClusters`, `ReadBack`).
  - `StoreInv` adds what a mount would find: the files that have not changed since
    the last good commit have the same sequence in the saved FAT and the same
    blocks, and block 0 is refused between its erase and its programming.
  `FileStoreImplemented` then shows each step to be one of `FileStore`, or none.
  It assumes `NamesFit`: no name that is too long becomes, cut to the field's
  length, the name of another file.  Without it the code creates a second entry of
  that name (flash_fs.c:347, the finding of run `flash_fs_names`), and the promise
  is false.  The other theorems do not assume it.  Assumptions:
  `FATAssumption`, `FlashFSAssumption` (at least one cluster, a positive erase
  size, a FAT index that fits in a byte, lengths that fit in the size field).
* `HeapProofs!HeapBlocksImplemented`: the linked lists implement `HeapBlocks`.  With
  it `NeverOverlaps` and `NeverLeaks` follow for the blocks of the lists, from
  `BlocksInv`: types, no overlap and exact cover together.  Merging needs all
  three: the block a run of neighbours becomes is disjoint from the rest because it
  covers just what they covered.  Assumption: `HeapAssumption` (spaces are
  disjoint blocks below `HeapEnd`, given in ascending order).
* `HeapProofs!AlwaysWellFormed`, `AlwaysExact`, `AlwaysCoalesced`, `AlwaysLargeEnough` and
  `TypeCorrect` say what else holds of them.  `ListsInv` says of each list that
  its blocks can be ranked such that `next` is the first block ranked after and `prev`
  the last one ranked before (`Ordered`); the free list is ranked by address.
  `ListsWellFormed` is not inductive: links that undo each other do not tell a list
  from a list and a circle next to it.  To unlink a block or to link one between its
  neighbours keeps the ranks (`OrderedWithout`, `OrderedWith`), and the loops meet
  every block of an ordered list, the first of any kind first (`WalkAll`).
  `MergeIs` follows `Heap_Merge` from swallow to swallow until it reaches a block that does not
  touch, and `FreeIs` shows why one call suffices: if the block before the
  freed one touches, it swallows both.  `free_size` is a sum over the addresses of
  which each step changes one term (`TotalChange`).  The same `HeapAssumption`.
* `FixedQueueProofs!RingIsRecencyList` (`Spec => ImplementsRecencyList`), a
  complete refinement proof: the ring is the list of the newest items for every
  size and every set of items.  The inductive invariant is `Visible`: the
  indexes are slots and every slot between them holds an item; `TypeOK` alone
  does not say that a pushed item is what a list element is.  `OnlyPushedItems`
  and `TypeCorrect` follow.  `NeverTwice` says of the history on top of it that
  no command is in it twice: the items are pairwise different before a command,
  and it either moves one of them or pushes one that was compared with all.
  `HistorySpec` is about the commands and keys alone; run `shell_history` checks the
  same properties of `ShellSpec`, whose steps are steps of `HistorySpec` or
  leave the history as it is.  Assumption: `FixedQueueAssumption` (two slots or
  more, and a blank slot is not an item).
* `FixedQueueProofs!TerminalImplemented` (`ShellSpec => ImplementsTerminal`): every
  step of shell2 and of the interrupt is a step of `Terminal` or none.  The
  invariant `ShellInv` says that, until a key is garbled, the bytes the parser
  holds, those in the ring and those the terminal has still to send are one sequence of
  whole keys (`Whole`), cut anywhere.  An interrupt moves the second cut or appends a
  key (`StreamMoves`, `WholeAppend`), a byte of an escape sequence moves the first
  (`StreamFirst`, `StreamSecond`), and the last byte of a key takes that key from the head
  of `Typed` (`WholePlain`, `WholeArrow`).  For Enter, `RememberContents` says what
  the ring holds after moving or pushing a command; for the arrows the
  history's invariant says that what is recalled is a command, and so fits the line.
  Assumptions: `Shell2Assumption` (the names of keys are not letters) and
  `CommandsAssumption` (the items of the ring are the lines that `shell_execute`
  remembers: those that fit and have a word).
* `NetworkProofs!NoneLost` and `NeverBackwards`: what is proved of the rings
  holds for every size, every bound and every table.  The invariant `RingInv`
  counts back from `tx_head`: the slot `k` before it holds packet number
  `added - k`, for each `k` up to the size.  `NothingLost` does not say enough
  for an overrun ring; `RingInv` does, because an overrun moves the number of the last
  packet polled by exactly the size, and with it `SentInOrder` is proved.
* `NetworkProofs!NeighboursStayKnown`: the invariant `NdpInv` says that the
  table is either being filled (entries below `ndp_table_p` used, the others zero)
  or full and free of `::`; only then is the search for a host sure to meet its
  entry.
* `NetworkProofs!AlwaysWellAddressed`: while `ETH_UDP_Send` holds a pointer into
  the table the interrupt handler may give the entry to another host.
  `ComposingInv` says of each packet being composed what its pointer is worth:
  it is the router's, or its entry is the destination's unless it was
  replaced since or hidden by `::` (`masked`).  `TypeCorrect` follows from the three
  invariants together.  Assumptions: `EthQueueAssumption` (rings of two slots or more),
  `EthStackAssumption` (the kinds of address and prefix are different).
* `EepromFSProofs`: the walk is not recursive in the invariant.  `Good` says that
  a set of pages divides the EEPROM (`Divides`: each area ends where another one
  begins, or at the end), that free areas are exact and do not touch
  (`Filled`), that the other areas are sections of callers (`Owned`) and that
  the callers' sections are areas (`Kept`); all of it of the EEPROM with the
  pending header in place, up to the first page that a power loss took.
  `WalkDivides` shows that the walk finds just such a set.  A creation splits
  one area (`SplitArea`), a deletion joins up to three (`JoinAreas`), and a power loss
  shortens the part that is sound (`Restricted`).  That a header says how long its area
  is, rounded up to pages and without overflow, is `FreeAreaExact` and
  `MergedSize`, for every page size.  `AlwaysTiled`, `AlwaysCoalesced`,
  `AlwaysFound`, `AlwaysDataSafe` and `TypeCorrect` follow.  Assumption:
  `EepromAssumption` (a header fits on a page; `unsigned int` holds twice the
  size of the EEPROM, because two sizes are added).
* `UartLogProofs!AlwaysSentAsLogged`: the ring has no marks between records.
  `RingInv` says that a function exists which gives for each message not yet taken
  where its record begins, counted from the read pointer; a read makes its
  values one less, a message that is logged adds one, and since interrupts
  only log, it does not matter where between two reads they come.
  `TypeCorrect` needs no such function.  Assumption: `UartLogAssumption`.
* `NetworkProofs!AlwaysSentInItsCall` and `AlwaysListensAgain`: for each step of a
  call, `CallInv` says what the FIFO, the flags of the chip and CE are while no
  transfer has failed and no retransmission outlived the timeout (`doubt`).  `CleanupInv` says what is left of that
  when some did: what a call that found the chip clean can count on, and what each
  transfer of the clean-up has achieved unless it failed itself.  Assumption: `Nrf24Assumption`.
* `ForthProofs!AlwaysInCode` and `LoopsEnd`, for definitions of every length and
  nesting, every dictionary and every line.  The invariant `SoundCode` says that
  the cells of a definition have levels: a function gives each cell that may
  be run the number of loops it is in, and each way to go on from a cell
  (`Sound`), past its operand, by its jump, over a text, keeps or changes the level
  as the handler changes `fvm_do_index`.  Where no such function is known a
  call is only as good as its word, so a word calls older words only, and what
  `x!` overwrites is the value of a variable (`IsVariable`).  For the definition that is being
  compiled, `Built` adds what the conditions stack and `fvm_leave_words` promise:
  each entry is the operand of a jump to its own level (`Kept`), the loops
  among the entries count down to the end of the list (`Nested`), and an operand not
  patched yet is one of theirs (`Open`).  Every compiling word is one case of
  `WordTaken`: it patches some operands, adds cells of one level, takes conditions
  off and puts one on.  When `;` finds no condition, nothing is open and the
  levels are those of finished code (`BuiltEnds`).  While a word runs, the height
  of the loop variables above its caller's is twice the level of the cell it is at
  (`FrameOk`), until `exit` was run in a loop.  All of it holds until a
  broken definition is run, which does go astray (`Broken`: a word of it was refused, or a text fills
  its last cell).  Assumption: `ForthAssumption`.
* `ForthJumpProofs!JumpsAsWritten`, for definitions of every length and nesting.
  `Target` computes from the typed words where a jump should go and the code
  keeps no such thing: what it has is the conditions stack and the lists of
  leaves.  `Traced` relates the two for the definition being compiled: each condition has
  the typed word that put it there (`t`, growing from the bottom up), whose structure
  is still open (`Entry`, `Stays`) and is as deep as the condition is high, but
  for the jumps that `of` and `endof` leave in a `case` (`Lev`, `InCase`); each
  jump is `Done`, or waits in a condition or as a leave of an open loop (`Pending`,
  `Leaves`).  A word is taken off, patched and put on in one way for all kinds of
  words (`TracedNext`), and each kind is shown to be such a step.  When no
  condition is left at `;` every jump is done, and in the finished word the nearest
  fitting word, which `Target` takes with `Min` and `Max`, is the one that was
  recorded (`TargetIs`).  `CodeIsTraced` also holds while broken definitions
  run: only the values of variables are ever overwritten.  Assumption: `ForthAssumption`.
* `ForthProofs!WordsDoAsCommented`: the stack that each word leaves is put together
  from pieces of the old one, as the handler does it, and the comment's from others;
  the two have the same length and the same number in each place.  They are nine words, not every stack word.  The only
  invariant needed is that the first word is typed on a stack of numbers (`FreshStack`).
  The same assumption.

Each of these invariants was checked by TLC on the run's instance before it was
proved.  Where the state is a structure that C code finds by walking (chains of
clusters, list headers, areas of the EEPROM, records of the log), the invariant says that a
description of it exists, a function or a set, and each step says how the
description changes; the walk's own induction is needed once, by a least
counterexample (`LeastNat`).

Only model-checked:

* `EverythingSent` of the UART log: it is about fairness.
* `LookupsExact` and `BlocksOfTheFile` of `Fat16`: no proof was written.  They compare
  with the stored disks themselves (`Walks`, `Contents`), which are constants
  of the run, and TLC checks every sequence of calls on those.
* `ReturnTellsHowFar` and `BusLeftFree` of `I2cSoft`: no proof was written.  TLC visits
  every call of up to two bytes of two bits, with every answer of the target.

## 5. Plan

Modules in order, the most important behaviour first; at most a dozen runs.

1. FlashFS, FileStore (done) - power loss and independence of files.
2. Heap, HeapBlocks (done) - memory is never handed out twice or lost.
3. EepromFS (done) - sections found by walking headers, a power loss between two headers.
4. FixedQueue and ShellHistory (done) - a ring implements a bounded recency list; Up and Down.
5. EthQueue and EthStack (done, but for the queue of debug lines) - interrupt handler against main loop.
6. UartLog (done) and Nrf24 (done, but for receiving) - DMA; timeouts and register copies.
7. Forth (done, but for addresses as numbers and floating point) - structures compiled to jumps, run cell by cell.
8. FAT16 (done) - the cached sector, directory and file position, against the stored bytes.
9. Shell2 (done, but for `argv`) - receive ring and line editor against the interrupt.
10. The queue of debug lines of the ethernet library, driven from two contexts.
11. I2cSoft (done) - the bus after every failure.
12. SpiMemory, SWIM, the RF decoders; the loaders; Rtc and Si5351 arithmetic.

Theorems to add: `ReturnTellsHowFar` and `BusLeftFree` of `I2cSoft`, whose calls are sequences of every length;
`BlocksOfTheFile` of `Fat16`.

## 6. Not modelled

* Listing, printing, help texts and all formatting.
* Flash and EEPROM bits: an access works, or fails with the block unchanged,
  erased or (block 0) programmed in part.  Wear, and bits that fail one by one,
  are not modelled.
* shell2: `argv` and the look-up of a command, which depend on the words of the
  firmware's own commands.
* Forth: floating point, addresses as numbers (`@`, `!`, arrays, `execute`),
  strings other than `."`.
* nRF24L01: `nrf24_readRXFifo` and the register dump; one SPI transfer each.
* The queue of debug lines of the ethernet library, which is empty unless a log
  level is chosen when the firmware is built.
* The CC1101, SWIM, SPI, memory, clock and keyboard drivers, the RF decoders and
  the loaders: left to the plan (section 5).  Most of them are straight
  sequences of register accesses; the ones with state of their own are named there.
* Fonts, pictures, register tables, unit conversions of sensors and converters,
  ciphers and checksums: data or arithmetic without state to explore.
* Vendored or generated parts: there are none in the library itself; the fonts
  are generated.
