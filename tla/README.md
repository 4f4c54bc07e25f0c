# ChisLink: specifications, model checking and proofs

ChisLink connects a Game Boy Advance to a microcontroller (the MCU) over the serial link
port. The repository holds the GBA runtime and SDK (C), the wire protocol, two emulators
that load their games over the link, and a relay server (Go) that forwards wireless-adapter
packets between ChisLink devices. The MCU firmware is not part of the repository: it is an
environment, modelled only from how the SDK uses it.

This directory specifies the parts where order, failure and concurrency decide whether the
program is right, checks them with TLC and proves what matters most with TLAPS.

## 1. Inventory

| Part | State | Operations | Interaction | What is hard |
|---|---|---|---|---|
| Relay server `servers/relay-server/main.go` | client count, rooms (password, clients by device id, cached announcements), one queue, `done` and two locks per client | accept, hello, auth, route, enqueue, write, leave, kick, delete room, rotate key | one reader and one writer goroutine per connection, admin HTTP handlers; `s.mu`, `outMu`, channels | blocking on a full queue with a lock held, clean-up after a kick, closing a channel that others send on |
| SIO transport `gba/sdk/src/gba_sio_transport.c`, `gba/runtime/src/sio.c` | port register, handler vector, `waiting`, `done`, offset of the payload | `xfer32`, read and write payload (plain, writer, window) | foreground, serial interrupt, MCU as clock | time-out racing the last word, the order of flags, bounds of the caller's buffer |
| Wire and client `wire.c`, `client.c`, `proto.c` | sequence number, client state, last status | hello, poll, command, response, payload | over `xfer32`; every other SDK part is a client of it | stale answers, undrained payloads, half sent headers |
| Stream ring `stream.c` | slots, read/write index, ready count, offsets | acquire, commit, peek, release, reset | filled by the stream client, drained by the application | full versus empty, partial release, a view while the producer works |
| Stream client `stream_client.c` | stream id, state, ring | open, close, poll, credit, seek, recv, read, send, pump | commands over the wire, bytes to the ring | failed close, mixing ring and direct reception |
| Storage client `storage_client.c` | scratch buffer | about forty file calls | one command each | a refused response leaves its payload on the wire |
| Copy engine `copy.c` | bytes done | copy with direct windows | callbacks of source and sink | partial writes, exactly one release of a window |
| File layer `file.c` | backend table, handles with offsets | register, open, read, write, seek, list, copy | backends (storage, cartridge) | freed handles, reset with open files |
| Sockets `socket_compat.c`, `net.c` | descriptor table, errno | BSD-like calls | one network command each | accept without a free descriptor, close that fails |
| BLE `ble.c`, `ble_link_io.c` | scratch, link attribute | scan, connect, GATT, link | one command each, polled events | events of another peer |
| Cartridge `cart_*.c` | probe cache, write and pre-erase progress | probe, erase, write, save types | cartridge bus | resuming after an aborted write |
| Checksums, tables `crc32*.c`, `file_crc32.c`, `gamedb.c` | checksum, manifest of chunks | update, make, verify, search | the file layer, before and after a copy | chunk boundaries, short reads, a file that changes between two readings |
| Emulator bridge `emulators/chislink/chislink_bridge.c` | file and stream position, save handles | open, read, stream read, state and save calls | storage and stream clients | a cached position that is wrong |
| PocketNES bank cache `emulators/pocketnes/src/chislink_cache.c`, `cart.s`, `cache.c`, `savestate2.c` | tag, age and memory of each PRG and CHR slot, `instant_*_banks`, stored banks, windows | fill, mapXX_ and chrXX_ switches, load a saved state | reads the ROM file through the bridge; the emulated CPU and PPU see it through the windows | several pages asked for at once with few slots, a failed read in the middle, a restore that fails |
| Goomba Color ROM cache `emulators/goombacolor/src/cache.c`, `cart.s` | tag and age of each slot, `INSTANT_PAGES`, windows | fill, bank switch, evict, flush | reads the ROM stream; saved states use its slots as scratch memory | a table that outlives the slots it points to |
| Goomba Color battery RAM and saved states `memory.s`, `sram.c` | dirty mask, idle frames, the files on the card | write back one page per idle period, save, load and remove a state | files of the bridge; the console may be switched off at any time | half a write, half a state, two games of one name |
| Goomba Color's cartridges `mappers.s`, `cart.s`, `state.s`, `savestate.c` | registers of the bank controller, windows, clock | a game's writes to its ROM, reset, save and load a state | the game writes, the caches show | registers that mean different things in different modes, windows made again from them |
| PocketNES MMC3 `emulators/pocketnes/src/mappers/map4.s` | line counter and its time-outs, bank command, windows | writes to $8000 to $E001, a line's interrupt | the processor's time, the picture's tables | a counter that is only computed when something asks |
| PocketNES time-outs `emulators/pocketnes/src/timeout.s` | linked list, countdown, time | install, replace, remove, pop, save, load | mappers and picture install them; the processor runs to the first | the time is up to date only at some places; pointers in saved states |
| Processors `6502.s`, `6502mac.h`, `gbz80.s`, `gbz80mac.h` | registers and flags in ARM registers, cycles left | every opcode, time-outs, interrupts | memory handlers, time-outs | flags kept as differences, in carries and in the word that counts cycles |
| Runtime `hw.c`, `dma.c`, `text.c`, `video.c`; the rest of the emulators; examples; tools | - | - | hardware, demonstrations | not modelled |

What makes each part correct: the relay server forwards packets to the clients that are in
a room and never stops doing so; a transport call exchanges exactly its own words, once,
and leaves the port as it found it; a response is only ever matched with its own request;
the ring is a first-in-first-out buffer; a window shows the bank that was selected for
it; an emulated game sees the processor, the cartridge and the lines it was written for; a copy
or a handle table loses and doubles nothing when one step of several fails; what was reported as written to a flash, a save or a
card is there, whatever failed around it. The list of hazards is in `PROJECT.json`, each at
the line where it bites.

## 2. Modules

| Module | Models | Kind |
|---|---|---|
| `RelayServer` | the relay server | specification |
| `Mailbox` | what a client's outbound queue promises | abstract specification |
| `MCRelay` | instances of `RelayServer` | model checking |
| `RelayServerProofs` | types, locks, queues refine `Mailbox` | proofs |
| `RelayRoomsProofs` | the room table | proofs |
| `SioTransport` | the GBA side of the link, word by word | specification |
| `ClientCalls` | what each of some 80 SDK calls does with its answer | operators |
| `SioTransportProofs` | whom the interrupt serves, that exactly the words are exchanged | proofs |
| `WireClient` | commands, answers and time-outs on the link | specification |
| `Tables` | functions that grow and shrink | operators |
| `StreamClient` | a stream on both ends | specification |
| `FileLayer` | handles and positions over two backends | specification |
| `CopyStream` | a copy from file to file | specification |
| `SocketTable` | who has which network handle | specification |
| `BleLink` | calls of several BLE commands, the game link | specification |
| `ClientProofs` | `WireClient`, `StreamClient`, `CopyStream` and `DirListing` | proofs |
| `HandleProofs` | `FileLayer`, `SocketTable`, `BleLink` and `SocketCalls` | proofs |
| `FileChecks` | CRC-32, manifests of chunks, verification | specification |
| `GameDatabase` | binary search in the database file | specification |
| `CartridgeProofs` | `GameDatabase`, `SaveMemory`, `Mbc` and `RomFlash` | proofs |
| `DirListing` | directories read page by page while they change | specification |
| `SocketCalls` | what send, recv, poll and select tell | specification |
| `Parsing` | addresses, names, advertisements taken apart | specification |
| `MCSdk` | the eleven of the SDK, one at a time | model checking |
| `Bytes` | bits of integers | operators |
| `Mos6502`, `Lr35902` | what a program sees of a 6502 and of a Game Boy's processor | abstract specifications |
| `Cpu6502`, `CpuGbz80` | the processors of PocketNES and of Goomba | specifications, implement these |
| `MCMachines` | the transport and both processors, one at a time | model checking |
| `StreamRing` | the slots of a stream | specification, implements `ByteFifo` |
| `ByteFifo` | what a stream buffer promises | abstract specification |
| `StreamRingProofs` | ring invariant, views, that `StreamRing` implements `ByteFifo` | proofs |
| `BankCache` | the PocketNES bank cache and its windows | specification |
| `MCBanks` | two games: a small one, a CNROM one | model checking |
| `EmulatorProofs` | the memory behind the windows of PocketNES and Goomba, saved states, the MMC3, that `Timeouts` implements `Alarms` | proofs |
| `RomFlash` | programming a NOR flash with sectors erased ahead | specification |
| `SaveMemory` | SRAM, flash and EEPROM saves | specification |
| `GoombaCache` | the emulators' ROM stream and Goomba Color's ROM cache | specification |
| `GoombaSave` | its battery RAM and saved states | specification |
| `Mbc` | Game Boy cartridges with bank controllers | specification |
| `Alarms` | what time-outs promise | abstract specification |
| `Timeouts` | PocketNES's list of time-outs | specification, implements `Alarms` |
| `Mmc3Irq`, `Mmc3Banks` | PocketNES's MMC3: lines and banks | specifications, beside a chip |
| `MCDevices` | ring, bank cache, flash, saves, Goomba, mappers, time-outs, one at a time | model checking |

### RelayServer

One connection is a member of `Conn` with a program counter `pc`. `Accept`, `ClientHello`,
`AddClient` and `Authenticated` are the stages of `serveConn` up to the point where the
client is in service; `Read`, `RouteBroadcast`, `RouteUnicast`, `RouteNowhere`,
`Enqueue`, `EnqueueBlocks`, `UnblockBySpace`, `UnblockByDone` and `RouteDone` are
`readLoop`, `routePacket` and `enqueue`; `WriterSends` and `WriterFails` are `writerLoop`;
`Leave`, `Kick` and `DeleteRoom` begin a disconnection (`removeClient`, `kickClient`,
`deleteRoom`) with `s.mu` held, `CloseDone` and `CloseOut` are the two halves of
`closeClient` and `TaskDone` gives `s.mu` back. An action is what a goroutine does between two points at
which another can interfere: taking a lock, a channel operation that may block, a network
operation. `members[r][d]` is `rooms[r].clients[d]`; `task` is the disconnection under way.

A packet is its type and target. The queue `out[c]` counts the packet the writer is
writing as the head of the channel, so a capacity of 1 stands for the code's
`-queue` plus the one in the writer's hands. DATA is dropped on a full queue and
everything else waits, as in `enqueue`. TLS, the signature of the hello and the time-outs
are not told apart: they make `HandshakeFails`, `ReadFails` and `WriterFails` possible at
any moment. A peer may vanish at any moment (`PeerVanishes`).

### SioTransport

Foreground, interrupt and MCU. An action is one statement of the foreground, the whole
interrupt handler, or one exchange. With interrupts on, a requested interrupt is served
before the next statement (`At` asks for `~Interrupted`); with IME at 0 it stays
requested. The port is `sio` (SIODATA32) and `armed` (the START bit); the MCU can
clock a word whenever the port is armed (`Exchange`). `vector` says which handler the
serial interrupt has: the dispatcher, which calls `cl_gba_sio_transport_irq_word`, or the
receiving or sending one. Of a payload the model knows the number of words; word `i` sent is the
number `i`. `heard` and `told` are history: the words the MCU received and sent
during the call. The plain and the writer variant of the receiving call, and the plain and the
window variant of the sending one, differ in where bytes are kept and are one action.

### ClientCalls and WireClient

A call is a record of what it does with its answer: the lengths it accepts, how much it
reads, whether it drains what it refuses, and what that does to the client's state. There
are six ways or so to treat an answer, and the differences between them are what the link
notices. `WireClient` plays such calls over the link: `Send` is `cl_wire_send_command` with
the next number, `Answer` the MCU's work, `TakeAck` and `TakeHeader` are
`cl_wire_recv_response`, `Refuse`, `Deliver` and `Misread` what the call does then. `PushFails` is a
write whose payload could not be sent, and which looks for no answer.
`Miss`, `TakeBrokenHeader` and `Starve` are words that time out: the word is lost, or comes
later and is read in the place of another. `line` is what the MCU has put on the link and
nobody has clocked yet. `blame` records why a later call may find something on it:
`late` answers, `cut` words, payloads `left` by a call that does not cope with its answer.

### StreamClient, FileLayer, SocketTable, BleLink

All four have a client's table and the MCU's, and each command ends in one of three
ways: done and answered, refused, or done with the answer lost. The ghost variables `flaws`,
`events`, `mishap` and `flawed` record lost answers (and, in `FileLayer`, a reset or a driver
replaced under open files), so that the properties can say what holds as long as none
occurred, with any number of refusals.

`StreamClient` keeps the ring as the queue of `ByteFifo`, a block as a run of the file;
`RecvSlot`, `RecvInto` and `RecvFails` are the receiving calls, `Read` and `Take` the loops of
`cl_stream_read` and its kin. `FileLayer` has the slots of `file.c`, those of `cart_file.c` and
the MCU's handles; positions are modulo 2^64 in the code and small here. `SocketTable` has the
descriptors, and the three requests of `net.c` that open a handle, use it in steps and give it back.
`BleLink` runs the calls that consist of several commands as tables of steps: `Onward` is
the next command after one that worked, `Back` after one that failed.

### CopyStream

`cl_copy_stream` between the open and close of `cl_file_copy_buffered_progress`, with windows
into the source or the buffer, partial writes, and a failure of each callback. A byte is
its position in the source, so the sink's contents show order, loss and repetition.

### StreamRing

The fields of `cl_stream_t` that the ring calls touch, with the buffer, the span the
producer has acquired and the view the consumer has been given. `Fill` is the payload
reception into the span; it may be repeated or never be followed by a commit (a failed reception).
A reset takes span and view away, as its callers in the repository do.

### BankCache

`FillPrg` and `FillChr` are the loops of `chislink_pocketnes_cache_init`, `MapPrg` is a
`mapXX_` call, `MapChr`, `EnsureChr` and `StoreChr` are the three parts of a `chrXX_` call,
`LoadState` to `Rebankswitch` are the loading of a saved state. `PrgHit`, `PrgLoad` and
`PrgReadFails` are the ways through `chislink_pocketnes_ensure_prg`, and the Chr operators
those through `chislink_pocketnes_ensure_chr`. CHR switches and restores go page by page: each
page may be read over the link, and each read may fail on its own.

A slot's memory is the group or page it holds, or `Bad` after a failed read, which has
filled it with 0xff and stopped somewhere. `s_prg_age` and `s_chr_age` are ranks: the code takes
them from a counter and compares them only. The mapper is an environment that makes any of its
calls in any order, also between a boot and the banks of a saved state, which is
more than the first switches a boot makes. `SizesOK` and `CallsOK` say what the
boot code and the masks guarantee: banks lie in the tables, and a `mapXX_` call stays in one group.
`MaxFailures` bounds the reads that fail. After a failed restore (`diverged`) the game
runs on with windows that are not those of the stored banks; the properties speak of the time
before.

### RomFlash and SaveMemory

`RomFlash` is `cart_nor.c`: `SetSize`, `WriteBegin`, `EraseHere`, `Program`, `Flush` and
`Invalidate` are the calls and the steps of the loop in `cl_cart_nor_write_stream`; the chip
erases by itself (`EraseEnds`) a sector that was begun ahead. A byte of the chip is blank, of image
n, or mixed: programming over a byte that is not blank loses it. `stray` is history: a
`set_size` or `invalidate` during an erase ahead forgets it, and the erase command for the new image
is left out by the busy chip; the image is then programmed over old bytes. `TakenIsThere` speaks of the
other histories.

`SaveMemory` is the save side of `cart_gba.c`: SRAM, flash in sectors and EEPROM in units, with
one bank of two showing, writes that fail anywhere, and probes, which write to the memory to
find out what it is. `accepted` is history: what was reported as written.

### GoombaCache, GoombaSave

`GoombaCache` begins with the ROM stream: the outcomes of a read through `chislink_bridge_read_stream`, where the MCU
is, where the SDK thinks it is (`rx_offset`), and what came. A seek whose answer is lost moves the
MCU and not `rx_offset`: a later read at the old place succeeds with other bytes. The model keeps
such pages in `doubtful`, and its property leaves them out. `GetBank`, `ShowBanks`, `MapBank`
are `getbank`, the rest of `update_cache`, and `map4567_`; `SavesState` and `LoadsState` what
`sram.c` does to the cache. `GoombaSave` has the battery RAM and the state files on the
card; a part of a file carries the moment it was taken, so that a state put together of two
moments shows. `ready` is FALSE while the file could not be read at the start: nothing is
written back then.

### FileChecks, GameDatabase, DirListing, SocketCalls, Parsing

`FileChecks` computes the real CRC: a word is the set of its bits, `CrcByte` is a look into
the table, and `BitByBit` the division it stands for. `Produce` is a file being written with
`crc32_chunks.c` looking on, `ChunkRead`, `Calculated` and `Compared` the loops of
`file_crc32.c`; a read may be short or bring other bytes (`astray`), and a chunk that
does not compare is read once more. `GameDatabase` is the search of `gamedb.c` over a
file; the records have 5 or 9 bytes, and the width is taken from the length of the file alone.
`DirListing` is `cl_posix_readdir` and `cl_storage_list_dir` over pages that begin at an index, while
files come and go. `SocketCalls` follows one datagram socket call from its first
command to what it tells: result, errno, and the sets of `select`, which asks for one descriptor after
the other while datagrams arrive. `Parsing` takes texts and packets apart character by
character, because that is what it is about.

### Cpu6502, CpuGbz80, Mos6502, Lr35902

`Mos6502` and `Lr35902` say what each opcode does to the registers a program sees, from
the opcode's bit fields and with flags as a set. `Cpu6502` and `CpuGbz80` keep what the
code keeps: of the 6502, the last result from which N and Z are read, and C, I, D and V in the
low bits of the word that counts the cycles, so that an instruction's time and ARM's
carry are subtracted in one step (`fetch_c`); of the Game Boy's, pairs in the upper half of a
word and A on top of one. An opcode is a row of the tables of `6502.s` and `gbz80.s`: a way to address,
an operation, a time. `TimeoutHandler`, `NmiHandler`, `CheckI`, `LineTimeout` and `CheckIRQ` come
between two instructions. `Architecture` and `Processor` are the refinement mappings. The
instances of `Mos6502` compare everything but what undocumented opcodes do, `Lr35902` all but
STOP, missing opcodes and the time of the three groups named by `OtherTime`.

### Mbc, Mmc3Banks, Mmc3Irq, Timeouts, Alarms

`Mbc` keeps `mapperdata` as the code does, byte by byte for each controller, and beside it
`wrote`, the last value the game wrote for each purpose; `WritesDecide` says that windows,
clock and RAM are those a chip would show for it. `SaveMbcState` and `LoadMbcState` are the
parts of a saved state in their order.

`Timeouts` is the linked list, with the countdown that the processor looks at
and a time that is brought up to date only when the first node changes; a saved state has offsets
for pointers and numbers for handlers, and another build, with its nodes and handlers at
other addresses, may load it. `Along` is the list from its first node on, which the loops of the
code walk. `Alarms` knows times and handlers only; a node whose link is even is an alarm that is set.
`Instruction` is one instruction up to the fetch at its end, which goes on or jumps to the
handler of the first node: on, too, if a taken branch ended at most `Late` cycles after the time
of an interrupt's node (`timeout_handler_branch_taken`). `Timeout` takes that node out of the list and enters its
handler, `Return` is `_GO`. States are saved and loaded where the code does it, inside the handler
of the prerender line, whose own node is out of the list then (`InMenu`), and `line0x`
puts it back.

`Mmc3Irq` counts lines as `map4.s` does, by dividing the time since the last
count, and beside it `real` and `asked` are the counter and the interrupt of a chip that counts each line
when it comes. Where the code is known to differ (`strays`, section 4) a history ends.
`Mmc3Banks` has the windows the code changes when a register is written, and the registers
a chip would show all the time.

## 3. Runs

| Run | Instance | Shows |
|---|---|---|
| `relay_rooms` | 3 connections, 3 device ids, 2 rooms, 2 passwords, 1 room at a time, 2 members per room | the room table is consistent (`RoomInv`), lists no client that is shut (`MembersAreOpen`), and without admin action no client in service loses its entry (`MembershipExact`) |
| `relay_queues` | 2 connections, every packet type, queues of 1, key rotation | lock discipline (`LockInv`), a cached announcement is of a member or, after a kick, of a client whose goroutine still runs (`AnnouncersAreMembers`), queues implement `Mailbox` (`MailboxSpec`) |
| `relay_live` | 2 clients in service, one of which may stop reading; broadcasts and unicasts | a disconnection ends (`DisconnectionCompletes`); routing ends, unless a queue nothing drains holds it up, and then once that queue's client is thrown out (`RoutingCompletes`) |
| `relay_orphan` | 2 connections, 1 device id | finding: the late clean-up of a kicked client removes the entry of the one that came back |
| `relay_limit` | limit of 1 client | finding: the limit is checked before and counted after the handshake |
| `relay_stall` | 2 clients in service | finding: a broadcast waits for ever with `s.mu` held |
| `machines` | `MCMachines`, see below | transport calls exchange exactly their words, whatever came before a payload time-out, and leave the port as they found it (`Restored`), write only to their own buffer (`BufferSafe`), and return (`CallReturns`); PocketNES's processor runs as a 6502 (`RunsAs6502`), Goomba's as a Game Boy's (`RunsAsLr35902`) |
| `sio_late` | payloads of 1 or 2 words | finding: after a payload time-out, `xfer32` may return the answer to a word it has not sent |
| `sdk` | `MCSdk`, see below | answers belong to their commands and leave nothing behind (`AnswerIsOwn`); streams deliver the bytes of a file in order, without holes unless a receive failed, and a loss shows (`Consecutive`), and none is left open on the MCU (`NoOrphans`); file positions agree with the backends' (`PositionsAgree`), each backend handle has one owner and a closed cartridge is flushed (`OneOwner`); copies are exact and hold nothing afterwards (`CopyIsClean`); network handles have one owner, listeners listen, requests send in order (`DescriptorsOwned`); BLE calls clean up after themselves, the link is one connection's and in order (`NothingDangles`); files said to be equal are (`VerifiedIsEqual`); the database search finds what is there (`SearchFinds`); a listing names an entry once (`ListedOnce`); select tells what it found and a receive who sent its bytes, also after an empty datagram (`ToldTrue`); texts and packets are taken for what they are (`TakenForWhatItIs`) |
| `devices` | `MCDevices`, see below | the ring implements `ByteFifo` (`FifoSpec`), views are not overwritten (`ViewIntact`); PocketNES's windows show their own banks (`NoForeignContents`, `BehindMappedStays`, `RestoreFindsBanks`); an accepted image is on the flash (`TakenIsThere`), an accepted save reads back (`AcceptedStays`), and what lies beside them is left alone (`BesideStays`); Goomba's windows show the selected banks (`BanksShown`), its battery RAM is not forgotten (`NothingForgotten`), a state that loads is a moment of this game (`LoadsAMoment`); a cartridge shows what its registers say (`WritesDecide`); time-outs implement `Alarms` (`AlarmsRing`); lines and banks are those of an MMC3 (`AsAnMmc3`) |
| `goomba_states` | a ROM of 5 pages, 4 slots, no failing read | finding: after a saved state the table of pages leads to slots that hold other bytes |
| `bank_cnrom` | 8 windows, 9 CHR slots, 32 pages: the sizes of the code | finding: a switch of all eight banks evicts pages it has just loaded |

`MCSdk`, `MCDevices` and `MCMachines` compose components that share no variable, and let one of them
(`part`) move in a behaviour; the states are the union, not the product, of those of the
components, and every invariant that speaks of one component is checked on all of its states.
`MCSdk`'s parts are `wire`, `stream`, `file`, `copy`, `socket`, `ble`, `check`, `db`, `dir`,
`calls` and `parse`; `MCMachines`'s `sio`, `6502` and `gbz80`; `MCDevices`'s `prg` and `chr` (the two halves
of the bank cache, which share only the pace of a restore), `ring`, `rom`, `save`, `cache`, `battery` and
`states` for the two halves of `GoombaSave`, which meet only in that a loaded state replaces the
battery RAM, `mbc`, `timeouts`, `lines` and `boards`.

Bounds and why they are enough.

* Relay: three connections are a client, the one that takes its place and a third in the same
  room; two device ids and rooms give every collision. Queues of one packet are full after one, which
  is the case where senders block.
* SIO: three words are a first, a middle and a last one, and one exchange more than the
  longest call covers a late word. `MaxHeard` is reached only after a call has gone wrong already.
* Wire: either one call of any of the kinds in `ClientCalls`, with answers of every length that
  any of them tells apart (`wide`); or up to three calls of `Kinds`, one for each way to treat an
  answer, with answers of the lengths in `Few`, one of them longer than the words a command may
  skip (`Skips`). One fault; numbers modulo 2 stand for those modulo 65535, so a third call meets
  an answer as old as the numbers.
* Stream, files: files of 3 bytes and of 1, labels modulo 2, 2 slots of 2 bytes: full, partial and empty, offsets that
  wrap, a hole before and between blocks; two handles, of which one or both are the cartridge's, one kind of mishap in a history (`MaxMishaps`).
* Copy: sizes around the block sizes and not multiples of `Unit`; a source that announces no size.
* Sockets: two descriptors, two handles; requests of two bytes, two attempts. BLE: two
  connections and two peers, two polls, a queue of two events, two messages; a history has
  connections as a central and no messages, or messages.
* Checksums: files of up to 3 bytes in chunks and buffers of 1 and 2, a manifest with room for 1 or 3: a
  first, a middle and a last chunk, one that is not full, and one too many. Database: 6
  codes and every set of them as a file: the search halves three times.
* Listings: pages of 2 entries, 5 names, entries that fit an answer twice, once, or are empty.
  Socket calls: 2 descriptors and one sender; a datagram may wait or not, room may be there or
  not, at each step. Parsing: bytes at which the number of digits changes; texts one character
  away from an address.
* Ring: three slots make the indices wrap apart from each other; two bytes per slot make partial
  releases; offsets modulo 2 wrap with each slot and with a part of one.
* Bank cache: 3 groups for 2 slots and 5 pages for 4 slots force evictions; 4 CHR slots are twice
  the windows, as 17 are to 8 for mapper 4; calls of one and of two banks overlap; an entry past the
  file aliases a page. One failing read.
* Flash: two regions of 2 sectors of 4 bytes and 1 of 8; buffers of 4; chunks of 3, 6 and 16
  bytes end inside a sector, beyond one, and past the chip; announced sizes of none, an odd one, and a
  whole number of sectors; two images.
* Saves: one or two banks of two sectors or units of 2 bytes; two writes of 1 or 3 bytes.
* Goomba: 4 pages of file in a table of 5, 4 slots, of which states use 2; one lost answer; one state.
  Two games of one name, two pages of battery RAM, two states, one failure.
* Processors: every opcode once, from starts and with operands where flags change, carries run through and
  pages end; opcodes of the Game Boy that only move and combine registers with one operand. A step is one
  instruction with what may come before and after it: a sequence adds nothing, since
  `Architecture` and `Processor` read everything that is kept, the flags' hidden forms included, and
  the starts have these forms as any instruction leaves them.
* Cartridges: one of each controller, values at the edges of its registers, two moments of the clock, one
  saved state. Time-outs: the dummy, the prerender line and two more, one of them an interrupt, instructions of one and
  two cycles, four changes, two builds: a node comes before, between and behind
  others, two are due together, and a branch puts the interrupt off.
* MMC3: a line of 4 steps and 13 of them, latches of 0 to 2: counting down, from 0, and over a reload; four
  writes of eleven commands and two values, which is each mode before and after each register.

Connections, device ids, rooms, passwords, byte values and games are symmetric: no definition
tells them apart; liveness runs use no symmetry.

Deadlock is not checked: a relay server whose connections have all ended, a foreground
waiting for an MCU that is silent with no time-out set, and bounded histories of calls really do
stop, and the rest are passive structures.

### Fairness

`RelayServer!Fairness`: strong fairness of what `serveConn`'s goroutine does by itself and of the
two halves of `closeClient`, weak fairness of each writer. Go runs every runnable goroutine,
and a `sync.Mutex` in starvation mode is handed to its waiters in order, so a goroutine
waiting for a lock that is free again and again gets it. Peers and the admin owe nothing:
no read, no handshake and no admin call is fair. A write to a peer that is gone fails. A write to
one that is there ends only if that peer reads: `serveConn` lifts the handshake's deadline
(`main.go:223`) and nothing sets another. `Readers` are the connections whose peers do read, and only
their writes are fair; `relay_live` has one such client and one that may stop reading at any time.

`RoutingCompletes` therefore has an exception, `HeldUp`: the queue that a sender waits for, or
that the holder of `s.mu` waits for, is full, its client has not been thrown out, and its writer has
failed or its peer need not read. In every other state a packet being routed is routed to its end: with slow
peers, vanished ones, two senders that fill each other's queues, and (since a client that is thrown
out is no exception) after a kick. Closing `done` after taking `outMu` breaks it, as it does
`DisconnectionCompletes`. What the exception costs is `relay_stall`: a broadcast that is held up keeps
`s.mu`, so no kick can come.

`SioTransport!Fairness`: the CPU runs on between interrupts (strong fairness of the
foreground, because an interrupt may come in between again and again), a requested interrupt is
served, and the MCU keeps clocking an armed port. The last is an assumption on the MCU;
without it only a call with a time-out returns, which is what the header says
of `timeout_ticks`.

## 4. Findings

* `relay_orphan` (`main.go:299`): `removeClient` deletes by device id, not by client.
* `relay_limit` (`main.go:143`): more clients than `-max-clients` can be authenticated.
* `relay_stall` (`main.go:676`): a broadcast on a full queue whose writer has failed keeps
  `s.mu` for ever; in the run every peer reads as long as its connection works.
* `sio_late` (`gba_sio_transport.c:183`): the interrupt of a word that arrives during the
  time-out clean-up arms the port again.

* `bank_cnrom` (`chislink_cache.c:279`): `chr01234567_` ensures its eight pages while the
  eight old ones are still protected. With nine slots one is left, each load evicts the page before
  it, and seven windows are mapped to NULL. The emulators' README promises that
  combinations of banks do not depend on cache slots.
* `goomba_states` (`goombacolor/src/sram.c:64`): saving or loading a state overwrites cache slots and
  flushes their tags, but leaves `INSTANT_PAGES`: a bank selected next is shown from a slot of
  scratch.

Divergences from comments that no run is needed for, and limits the properties name:

* `stream.h:328` says that pump always marks the stream closed; on failure it keeps the id and the state
  ERROR (`stream_client.c:451`), and can be tried again.
* `cl_file_truncate` returns success for a backend that cannot truncate (`file.h:190`).
* `ble.h:596` says `peer_ready` returns 1; it returns the handle. The usage sketch of `ble_link_io.h`
  sends with handle 0, which is refused (`ble_link_io.c:18`).
* `lseek` with SEEK_END and O_APPEND take a size of `UINT64_MAX` (unknown) for a position
  (`file.c:713`).
* A BLE JOIN ends its scan at the first poll without an event (`ble.c:1656`). `peer_ready` and
  `link_io_recv` share one queue and each drops what the other waits for.
* A socket's connection or datagram is lost if the caller's address is too small for the peer's.
* A second image written to a flash that still erases ahead for the first is programmed over old
  bytes (`stray`); a second save written without `set_size` is programmed over the first and refused.
* MMC3: a write exactly when a count is due is not counted as the chip does (`tie`); writing the
  latch or enabling with counter, latch and enable all 0 sets no time-out (`unset`,
  `map4.s:500`); E000 does not take back an interrupt on its way (`late`); changing tables while the
  screen is on moves the counts (`table`, `ppu.s:3934`). A command that changes both modes
  changes only CHR (`map4.s:180`) until register 6 is written; the windows of mapper 245 at the start
  are the default ones.
* Before the bank of an MBC1 is written, a write to its mode or upper bits shows bank 0 at 4000,
  though `mappers.s:53` says 00 becomes 01. The flags of a HuC3 are read behind the end of their table.
* The 6502's AXS takes ARM's carry without preparing it; on the Game Boy, JR, LD rr,nn and
  ADD SP take a machine cycle more or less than on the hardware (`OtherTime`), EI works at once, and HALT
  with interrupts disabled does not repeat a byte.
* Directory pages begin at an index: an entry removed in between hides another, though none is
  listed twice. A fallback listing fails when a page has no room in 512 bytes.
* An empty datagram is EAGAIN for a caller with room; `select` never sets exceptfds and leaves the last error
  of an early return.
* Goomba: loading a state replaces the battery RAM without marking it to be written
  (`replaced`); a failed load may have replaced half of it. A game that writes its RAM in every frame
  postpones the write-back for ever.

## 5. Proofs

All theorems hold for every value of the constants allowed by the assumptions in the
modules; 39 theorems are listed in `PROJECT.json`, in eight modules.

`RelayServerProofs`. `TypeIInv` adds to `TypeOK` that every connection with a hello is
known, and that `clients` is the number of connections that were counted: without the
latter the counter could go below zero. `LockIInv` adds to `LockInv` where a blocked sender
is (`pc = "send"`) and that the clients a disconnection still has to close are not closed
yet. `ChannelsAreMailboxes` shows that every step is a step of `Mailbox` or leaves
the queues alone; it needs `LockIInv` for the two steps that put a packet in, since only
`outMu` and `done` keep the channel open.

`RelayRoomsProofs`. `RoomInv` is not inductive: it needs that a client on its way out
(`Leaving`), a listed client (`Listed`) and a joining one (`Fresh`) are where their program
counters say. `NobodyLosesHisPlace` carries `removed` along: the
last conjunct of the invariant is `removed \/ Undisturbed`, since it is false after
the admin has acted, which is what `relay_orphan` shows. `NoStaleAnnouncement` needs, for the time
after that, an invariant of its own, `Announced`: whoever announced is still running. A client adds only its own
announcement, and the last step of `removeClient` takes that away, whoever the room lists by then.

`StreamRingProofs`. `RingInv` says that the ready slots are exactly those at a distance
less than `ready_slots` from the read slot, going round, and that the write slot comes
right after them. The slot being filled is then never the one looked at. `SlotsAreOneQueue`
is the refinement of `ByteFifo`: the queue is the bytes of the ready slots one after the other
(`Pieces`, which `Concat` strings together). A commit adds a piece at the end; peek and release need
the first one. `Concat` is a recursive function, and what it makes of n + 1 pieces is shown by least
counterexample on their number (`SmallestOf`), since the library's induction takes an
operator. Acquiring and filling a slot leave the queue alone.

`EmulatorProofs`, `BankCache`. The invariant says that a tagged slot holds what its tag says or the
remains of a failed read, that the tables lead to slots with the right tag, and that the slot
behind a window is tagged for the window's bank (`PrgBehind`, `ChrBehind`). It is kept
because a slot behind a window is never chosen (`PrgVictimIdle`, `ChrVictimIdle`): tags are
unique, and what is asked for is on no slot, so if every slot had an active tag there would
be more slots than windows left for them. That is a pigeonhole, cited from the library
(`FS_PigeonHole`); it needs as many PRG slots as windows and one CHR slot more. It also
shows what `bank_cnrom` does not contradict: a window may be mapped to NULL, but never to another
bank. `MappedAreCached` is false for such sizes and is not a theorem. `GoombaCache`: in `CacheInv` a page is in
at most one slot (`UniqueTags`), a tagged slot holds its page unless the page is doubtful
(`TrueTags`), the table leads to slots with the page (`InstantTrue`), and `Getting` says what has been got
while both banks are looked for: the second one is never put in the place of the first. The last two
hold until a state is loaded, which is what `goomba_states` shows. `GoombaSave`: in `GoombaInv` the parts on the card are all of one
moment, each in its place or torn (`OneMoment`), a save that has not failed has written the parts before the next one (`Saving`), and
a load that has not failed has seen a whole file of its own game (`Loading`).

`SavedBanksReturn` is about PocketNES's states. `RestoreInv` adds to the invariant of the bank cache that
without a failed load every tag is true (`PrgWhole`, `ChrWhole`), and that the banks of the windows
already gone through are on slots (`PrgBack`, `ChrBack`): a load for a later window does not take one of
those, since all the banks of the state count as active.

`CountsAndShows` is about the MMC3, whose two halves do not touch each other. `LinesInv`: the counter is the chip's at the time it was last brought up to
date (`CountsEachLine`), and in a history without strays the time-out is set for the line on
which it reaches 0, and is not overdue by a line (`InTime`). The arithmetic is that of dividing times
by the length of a line. `BoardsInv`: PRG is that of the registers, in the mode of
`cmd` or, after a write that changed both modes, in the other one (`PrgInMode`); CHR is always in its mode. It needs at least 8 banks
of 1 KiB CHR, which is what a header can give (8 KiB units).

`TimeoutsAreAlarms` is the refinement of `Alarms`. `TimersInv`: there is a number L and a sequence of L
different nodes, those whose links are even, whose links lead from one to the next, whose
times do not decrease, and the first of which is where `firsttimeout` points and when the countdown ends
(`Listed`). Every routine is shown to keep that (`NodeComes`, `NodeGoes`) and to leave the other nodes' alarms and the time alone
(`SameBut`). Removing the first node needs a second one: `queue_dummy` and `prerender_line` are in the list except while
their own handlers run, and these remove nothing; a state is saved and loaded while the second is out. A taken branch
lasts longer than `Late` (`TimeoutsAssumption`): one that puts an interrupt off began when nothing was
overdue, so an interrupt is put off once. That a node not in the list has room in it is a
pigeonhole (`OneMore`). A saved state is such a list at address 0 (`SoundStored`), and encoding and decoding move
it from one address to another (`ListMoved`).

`SioTransportProofs`. `SioInv` is `SafeInv /\ (~fastLost => Progress)`. `SafeInv` holds in
every history: `Control` ties vector, IME and flags to the place of the foreground, so a late interrupt finds
either the handler of the call it belongs to or the dispatcher with nobody waiting. It yields
`BufferSafe`, and the part of `Restored` that a time-out cannot break. `Progress` relates the two
counters, `heard` and `told` to each other at every place: the words exchanged are the first ones of the
payload, one more only in the port. It is broken by the race of `sio_late`, and so is stated
for histories without a payload time-out (`LostStays` says that `fastLost` does not go away).

`ClientProofs`, `WireClient`. `WireInv` says: the number of a command or
an answer is that of the call it is for (`Numbered`), until a call's answer is on the line there is one
command it can be the answer of (`OneCommand`), as long as nothing went wrong the line has
nothing but that answer (`OwnAnswer`), and a call that took another's answer took one as old as the numbers
reach around, or an ACK out of step (`Answered`).
`NextNumber` and `SameNumber` are the arithmetic: two commands have the same number only if they are a multiple
of `SeqMax` apart. The theorem holds for any set of calls that satisfy `WireAssumption`, not just those of
`ClientCalls`, and any number of lost words. `StreamClient`: `StreamInv` is
`StreamShape`, `InFile` (what the ring holds ends within the file), `NoOrphans` and `Exact`, what holds if nothing
went wrong; `OrderInv` is what holds in any case: the order, the labels as long as no bytes were
lost, and that a loss shows. Labels are positions modulo `StreamWrap`, which `ModAdd` adds up. `CopyStream`: `CopyInv` says that the sink is the first bytes of the source
(`InOrder`), that it ends where the copy is (`Placed`), and that a window is held only while its
block is written or if its release failed (`WindowKept`). `DirListing`: `DirInv` says that what was
told, what is left of the page in hand and what the next index leads to follow each other in the order of the entries (`Following`, `Ahead`),
however the directory changes; and, until a file goes, without a gap, so that the end means that all were told (`DirPhase`).

`HandleProofs`. `FileInv` adds to the two properties that until the backends are replaced no two handles
have one of the backend's (`Distinct`), that nothing of a backend is open without a handle
(`Covered`), and that what is unsaved was written through a handle that will flush (`Saved`). `OneOwner` counts owners; that a set of owners has one element is
`OneOrNone`. `pread` and `pwrite` are four lemmas about the pair of backend and handle
(`SoughtPairs` to `PositionedPairs`), each true of every way a step can fail. `SocketInv` says
the same of descriptors, and of the request under way: what it has opened is its own until it is
handed over (`OwnedOnce`), and what it has sent is on the wire in order (`OnTheWire`). The first
unused descriptor exists by `SmallestOf`, which is a well-founded induction over finite sets.
`BleInv` says which step of which call has a connection or a scan to give back (`Fits`,
`NothingLost`), and that messages on their way, queued and received are in line (`InLine`). `CallInv`
says of a `select` under way that of the descriptors before the next it has marked and counted just what
was asked for and found (`SoFar`).

`CartridgeProofs`. `SearchInv`: no record before `left` has a code that is not less, none from
`right` on one that is not greater (`Excluded`), as long as the width is right; and how the result
goes with that (`Outcome`). `SaveInv`: what was accepted is in memory, the write in progress does not reach it, and its flash sector
will not be erased again (`Kept`); likewise what that write has already
written (`Done`). The write lies within the size the configuration gives, and bank 0 shows between writes
(`Fits`), without which the same offset would be another byte. `OtherBytesStay` is the part of `BesideStays` that is about save memories.
`MbcInv`: the registers are those of the last write for each purpose (`Low`, `Banked`, `Opened`,
`Mapped`, together `Follows`), the windows are those of the registers once the game has said whether RAM is
enabled (`Shown`), and a saved state carries registers that follow its own writes and loads whole
(`Saved`). Without the registers `WritesDecide` is not inductive: a write for one purpose leaves
windows that depend on bits written earlier for another.
`RomInv`: every byte of the part that was taken is the image's (`TakenIsThere`). Unless the chip erases a sector the code has
forgotten (`stray`), so is the part of a chunk that is written, and what is behind it in a sector that was erased is blank or the
image's (`BegunShape`); the sector erased ahead is the next one to be written (`AheadShape`). Where a sector begins is a function over the regions, of
which the proofs use only what `RegionPlaces` says. It rests on `SectorsAssumption`, that sectors hold whole words and whole
buffers. `RestOfRomStays` is the ROM half of `BesideStays`; `OtherBytesStay` is its other half.

The assumption that `Conn` is finite stands for the number of connections a process can
ever hold; it is needed for counting them. What the theorems state was checked with TLC on the instances above
before it was proved. Where an argument goes by induction (first unused descriptor, pieces of a queue, a list's nodes, a
sector's place) it is by least counterexample: a set of numbers that is not empty has a smallest element.

Only model-checked, and why:

* Liveness under fairness (`CallReturns`, `DisconnectionCompletes`, `RoutingCompletes`): out of
  the prover's reach.
* `VerifiedIsEqual`: it is not true of all files, since different bytes may have the same CRC-32; in
  the instance the checksums tell the files apart. A checksum is a fold over the bytes besides.
* `TakenForWhatItIs`: what a parser makes of every text is induction over data, over folds and
  flattened sequences.
* `RunsAs6502` and `RunsAsLr35902`: some five hundred cases of bit arithmetic, which the solvers
  do not decide for integers; the runs enumerate the opcodes.
* `BesideStays` as one formula speaks of save memory and ROM, which no specification has both of; its two
  parts are proved as `OtherBytesStay` and `RestOfRomStays`.
* `MappedAreCached` is false for the code's sizes.

## 6. Plan

What could be added:

1. The event scheduler of Goomba Color (`timeout.s`) against `Alarms`.
2. The processors' instructions by groups, on bit vectors that a solver can decide.
3. The wrap of 32-bit times in `Timeouts`.

## 7. Not modelled

The handler stack of `sio.c` beyond its top entry, byte order and packing, text formats,
cryptography, file formats, paths and directories, display and DMA, the emulators apart from
caches, saves and the bridge, examples
and tools. Of the bank cache: the separate page at $6000, games without CHR ROM, the pause of
interrupts around a read, the parser of the ROM header. Of Goomba Color: the list of states in cartridge
SRAM, which ChisLink's build leaves out (`CARTSRAM`). Vendored code (`minilzo`).
The MCU is an environment that may answer, be late or be silent.
