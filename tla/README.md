# TLA+ models of the global-agenda-server PoC

`src/` is a proof of concept of a game server: it accepts TCP connections, reads
what a client sends, and has a parser and a builder for the game's binary
messages. This directory models the parser, the builder, the processing of a
received frame, the event loop that ties them to the network, the messages the
repository builds and records, and the generator of its type table. TLC checks
the models on small instances; TLAPS proves the central safety properties for
every instance.

All paths below are relative to `src/src/` unless they say otherwise.

## 1. The system

### Components

| Component | Source | State | Operations |
|---|---|---|---|
| Type table | `include/EnumDataTypes.hpp` | constant: the type of each of 1555 command codes, the size of each type | lookup by code, unchecked |
| `EntryHeader`, `ValueConverter` | `EntryHeader.cpp`, `ValueConverter.cpp` | `m_cmd`, `m_contentSize`, `m_sizeWidth`; a shared iterator | read a header, write one, make header and payload agree |
| Message classes, parsing | `TcpPacket.cpp`, `Packet.cpp`, `DataSet.cpp`, `AnonymousArray.cpp`, `DataEntry.cpp` | vectors of packets, entries, data sets, arrays; `m_packetIter`, `m_entryIter` | nested constructors over one iterator |
| Message classes, building | the same files | the same vectors | `append...`, `build` |
| `Client` | `Client.cpp` | socket, one receive buffer | `m_read`, `m_write`, `m_processTcpPacket`, `m_processPacket` |
| `Server` | `Server.cpp` | `io_context`, acceptor, one pending socket | `start`, `accept` |
| Response functions | `Client.cpp:22-136` | none | fill a packet with entries; only `server_response_version` has a caller |
| `main` | `main.cpp` | none | in this commit it builds one test packet and returns (line 258) before it starts the server (260-272); its tests and comments hold messages of the real game |
| Table generator | `data-type-parser/main.cpp` | an input stream, three lists of rows | writes `EnumDataTypes.hpp` offline, or prints the rows |
| `DataTypesHolder`, `DataType` | same names | a second type table, of 18 codes | `get`; no caller |
| Getters, `printField` | `DataEntry.cpp` | none | numbers and text out of a payload |
| `Utils`, `Logger` | same names | none | formatting, concatenation |

### Interaction

`Server::accept` makes a `Client` for each connection and calls `m_read`. The
handler of the read gets bytes in the client's buffer; the message classes are
constructed from such bytes (`TcpPacket(start, end)`), and
`m_processTcpPacket` walks the packets with `getNextPacket` and hands each to
`m_processPacket`, whose answers go into another `TcpPacket`. `build()` makes
bytes of that, and `m_write` hands them to `async_write`, whose handler calls
`m_read` again. Everything runs on the one thread in `io_context::run`. In this
commit the processing call is commented out in the read handler
(`Client.cpp:211-212`).

### What is hard

* **One iterator through four nested loops.** The constructors of `TcpPacket`,
  `Packet`, `DataSet` and `AnonymousArray` share `start` by reference. Each loop
  has its own idea of when to stop (a count from the wire, the end of the
  buffer, an invalid entry), a read that does not fit moves nothing, and one of
  the loops does not look at the end at all.
* **Termination.** `while(start != end)` needs every packet to consume input.
  With one byte left none does.
* **Early returns.** A refused size field leaves the packet iterator unset; an
  invalid entry leaves half a packet that is stored as a whole one.
* **Objects corrected by build().** Building changes the sizes and payloads it
  builds from.
* **16-bit fields** for sizes and counts that are `size_t` in memory.
* **The loop in the read handler** never moves `start`, on the only thread.
* **Reads are not frames.** TCP delivers a frame in parts, or several at once;
  each read is parsed for itself.
* **Iterators outlive their vectors.** `Packet` and `TcpPacket` keep an iterator
  into a vector of their own, and the implicit copy keeps the original's.
* **End of file is seen too late** by the four loops of the table generator.

The list of hazards, each with its line and the properties about it, is in
`PROJECT.json`.

## 2. Modules

```
parsing    EnumDataTypes <- EntryHeader <- TcpPacketParse <- ClientProcess <- MCClientProcess
                                           TcpPacketParse <- MCTcpPacketParse
           FrameConsumer <- - (INSTANCE) - TcpPacketParse
           TcpPacketParse, LoopFacts <- TcpPacketParseProofs
           ClientProcess, TcpPacketParseProofs <- ClientProcessProofs
           PacketAccess <- PacketAccessProofs

building   EnumDataTypes <- ValueConverter <- PacketBuild
                            ValueConverter <- WireRead
           PacketBuild, WireRead <- PacketReadBack <- MCPacketBuild
           PacketBuild, LoopFacts <- PacketBuildProofs
           PacketReadBack, PacketBuildProofs <- ReadBackProofs

messages   ValueConverter, CmdCodes <- ResponsePrograms
           PacketBuild, ResponsePrograms, RecordedMessages <- MessageReplay
           WireRead <- - (INSTANCE) - MessageReplay
           MessageReplay, CmdCodeTypes, DataTypesHolder <- MCMessageReplay
           WireRead, RecordedMessages, CmdCodeTypes <- DocumentedEntries

generator  TypeTableGen, CmdCodeTypes, GeneratedTypes <- MCTypeTableGen
           TypeTableGen, LoopFacts <- TypeTableGenProofs

server     ServerLoop <- ServerLoopProofs
```

`A <- B`: B extends A.

* `EnumDataTypes` - codes, types, sizes; what `getConfig` finds for a code. The
  table is the constant `g_cmd_code_types_flags`. A code beyond the table reads
  memory behind an array, so `TypesOf` allows it every type and none.
* `EntryHeader` - reading a header from a buffer of which only the length is
  known: the values read are arbitrary members of `Codes` and `Counts`, and a
  read that does not fit yields 0 and moves nothing.
* `TcpPacketParse` - the parser as a state machine. `pc` names the loop that is
  running; one action is one turn of it, so that every intermediate position of
  the shared iterator is a state. Payload bytes are abstracted to their number.
* `ClientProcess` - `m_processTcpPacket` on top of that: parser state plus the
  position of `getNextPacket`, the packets handled and the packets answered.
* `ServerLoop` - `accept`, `m_read` and `m_write` as completion handlers on one
  thread, against peers that connect, send and hang up at any time.
* `ValueConverter` - 16-bit values as two bytes of `Radix` values each.
* `PacketBuild` - objects filled by a program, and `build()` down to concrete
  bytes. `Sanitized...` is what `build()` leaves of an object, `...Bytes` what it
  returns; `build` assigns both, as the code does.
* `WireRead` - the same parser as in `TcpPacketParse`, this time as a function of
  known bytes, for reading back what was built. Each loop is a `...Turn`, what one
  turn of its body does, and a `Read...`, the turn made as often as the code makes
  it. What a code behind the table of types finds is the constant `BeyondTable`. The
  loop over the arrays of a data set goes on when nothing is left to read; its turns
  then store empty arrays, and `ReadArrays` appends those at once (`ArraysLoop` in
  `ReadBackProofs` shows that the turns one by one give the same).
* `FrameConsumer` - what the constructor `TcpPacket(start, end)` promises to whoever
  calls it, with nothing said of packets' contents: bytes are used up two or
  more at a time, a packet costs bytes, it returns with none left, or with a
  refusal. `TcpPacketParse` implements it under the mapping `Consumer`.
* `PacketAccess` - the iterators of `Packet` and `TcpPacket`: vectors have
  numbered storages, iterators a storage and an index, and the public operations
  are called in any order. A call whose behaviour C++ leaves open ends the run.
* `CmdCodeTypes` - the 1555 rows of `g_cmd_code_types_flags` as committed.
  `CmdCodes` - the command codes the code names.
* `DataTypesHolder` - the second type table.
* `ResponsePrograms` - each function that fills a packet as the calls it makes.
  `RecordedMessages` - the messages in `main.cpp`, byte by byte.
* `PacketReadBack` - what a reader should see of packets that were built, the
  conditions under which it does, and the properties that say so; shared by
  `MCPacketBuild` and `ReadBackProofs`.
* `MessageReplay` - a message is built by its program's calls (the actions of
  `PacketBuild`) or is a recorded one; its bytes are then read in pieces of any
  length, each parsed by `WireRead`. The type that every code behind the table finds
  is chosen once, at the start.
* `DocumentedEntries` - the recorded login request, read entry by entry.
* `TypeTableGen` - the table generator, reading a file byte by byte.
  `GeneratedTypes` - the table it has left in `data-type-parser/`.
* `MC...` - values of the constants, and properties of one instance.
* `...Proofs` - theorems. `LoopFacts` - lemmas that know nothing of the program:
  induction, recursive functions, flattened sequences, division.

Correspondence of each definition to source lines: `map` in `PROJECT.json`.

### Decisions

* **A parser twice.** `TcpPacketParse` quantifies over all inputs at once and is
  what termination and bounds need; `WireRead` knows the bytes and yields the
  objects they are parsed to. They share the type table and the definitions of
  types.
* **Codes beyond the table.** `dbg_print` indexes a table of names with the same
  code; `CrashInPrint` lets that end the process, next to the outcome that it
  does not.
* **Singular iterator.** `getNextPacket` on a `TcpPacket` that parsed nothing
  moves an iterator that was never assigned. The project is built with MSVC,
  where that is a null pointer; reading through it is modelled as a crash.
* **Memory.** Parser and event loop can run for ever in ways that allocate.
  `m_packets` is recorded up to `MaxPackets` and then left as it is, so that the
  spinning parser has finitely many states; no property reads a packet beyond.
  The parser by itself spins for ever; in the program memory would run out.
  The event loop, in contrast, fails when `MaxWrites` operations are
  outstanding: the exception leaves `io_context::run`, `main` catches it and the
  process ends (`main.cpp:260-272`).
* **Write handlers.** The handler of `async_write` is no action of `ServerLoop`:
  it needs a free thread, and a thread that issued a write is never free again.
  `WritesNeverComplete` is exactly the claim that this action would never be
  enabled; its mutant (a loop that ends) makes it so.
* **Accept errors** are modelled as connections aborted in the backlog: the
  handler does nothing about the error and accepts again. An error that leaves the
  peer in the backlog (no descriptor is free) changes no variable, so it is a
  stuttering step; that it does not come for ever is part of the fairness assumed.
* **Received data** in `ServerLoop` is a number of chunks; a read delivers any
  part of it, and an error or end of stream delivers nothing.
* **Radix.** `PacketBuild` runs with bytes of two values, so a 16-bit field holds
  0..3 and overflows after four entries or four bytes. The arithmetic
  (`% Radix`, `\div Radix`) is the code's, and the theorem holds for all `Radix`.
* **Replay** takes the construction and the processing of a frame that
  `Client.cpp:211-212` has in a comment for enabled and the loop around them for
  done after a turn: what `m_read` is written for, since in this commit no byte
  received reaches the parser. A client whose parser does not return packets is
  gone (`CrashesOnRefusedFrame`, `OneByteSpins` say why) and reads no more.
* **Memory behind the table** is arbitrary. The parser as a state machine lets every
  lookup find another type; `WireRead` takes a function from codes to types, which the
  proofs leave open. The runs over known messages give one type to all codes behind
  the table, eight kinds of them: an unsigned number of each width, 16 bytes, a string,
  a data set and no type.
* **Numbers** are loaded as eight bytes whatever their width (`ValueConverter.cpp:19`),
  which may be some bytes past the end, and truncated; the models read the bytes that
  are left of it.
* **Code names.** `DATA_SET` is a type and a command code in the source; the code
  is `CODE_DATA_SET` here.
* **Storages** in `PacketAccess` have numbers that are not used again. That an
  allocator may reuse an address makes no dead iterator valid. Moving a vector to
  a larger storage and appending in place are both possible whenever there is a
  storage, since the growth of a vector is the library's business.
* **Files** of the generator are sequences of bytes; a stream has a position and
  fails with the first read that is not satisfied, as `std::ifstream` does. The end of
  the file is the only failure: a read error would leave `eof` unset, and the
  generator's loop would not end. A name
  has two bytes instead of 96: `getStr` treats all alike.
* **A history** is kept in two variables of `TcpPacketParse` (`frameStart`,
  `packetStart`) and one of `ClientProcess` (`handled`); no guard reads them but
  the size check, for which `frameStart` is `end - start` at that point. Likewise
  `origin`, `appended` and `walked` of `PacketAccess`, `cuts` of `MessageReplay` and
  `given` of `FrameConsumer`.

## 3. Runs

| Run | Bounds | Shows |
|---|---|---|
| `ParseProgress` | 12 bytes, a code beyond the table | the iterator stays in the buffer; all four loops end and every packet consumes input, unless the parser comes to a single byte, and then it never returns; seen from outside it is a `FrameConsumer`, its liveness included |
| `ClientProcess` | 16 bytes, codes of four types, counts 0, 1, 2, 5, 20 | only the last packet of an exhausted buffer lacks entries without having been cut; the packet iterator is set exactly if a packet is stored; entries and packets are bounded by the bytes of the read; exactly the refused frames crash the client; handled are the packets from the second up to the first without entries, whatever is behind that; only misread or cut packets are answered; processing ends |
| `ServerLoop` | 3 clients, 2 chunks, 3 writes | a buffer has one owner; no write completes; drops are justified; acceptance and release while the thread is free; any input is fatal |
| `PacketBuild` | Radix 2, 4 turns, 2 packets under a command of fixed size, one with a count or none, 11 entries and data sets | what is built is bytes; a packet is read back as it was built if a list of conditions holds, and (packets without a command aside) only then; building twice gives the same frame |
| `Replay` | the whole table, bytes of 256 values, 7 programs, 6 recorded messages, 8 kinds of memory behind the table, every way to cut them into reads | two of the response functions build what the parser reads back, numbers included; a client survives exactly the reads that end with a frame; nothing is taken from a frame that is not complete; of coalesced heartbeats one is handed on; no recorded request yields the entry it begins with; the second type table reads the recorded login request as documented |
| `TypeTableGen` | 24 files, names of 2 bytes, 5 commands | one row more than whole records; rows are records; the last has no name; the committed headers are what the generator makes of one file |
| `PacketAccess` | 3 entries, 2 packets, 8 storages | no packet that was in a frame can be walked; walks skip the first entry; a walk over a packet parsed on its own is defined to its end, unless it was cut, is empty, or was appended to |
| `ParseFrame` | 10 bytes | finding: the parser reads past the frame |
| `ClientSkips` | 9 bytes | finding: the first packet is skipped |
| `ServerSession` | 1 client, 2 chunks | finding: the second message is not read |
| `CountOnWire` | Radix 256, real codes | finding: the count is missing on the wire |
| `DocumentedBlob` | one message, the whole table | finding: the size of `BIN_BLOB` is read with two bytes, not four |

Deadlock is not checked: the parser returns, the process ends, a builder stops
when its bounds are reached, peers may all be gone, a message has been read, the
generator ends.

### Why the bounds are enough

*Parser.* The shortest header is two bytes and the longest nesting (packet, data
set, array, entry) needs ten behind the frame size before an entry is read, so 16 bytes hold a
nested array with entries followed by further packets, and each remainder of 0,
1, 2 and 3 bytes at each loop. `Counts` has values below, at and above what fits
(20 exceeds every buffer), and 0, which ends a loop at once. The codes cover the
cases of the switch in `getConfig`: a prefixed string, a data set, fixed sizes,
and `UNKNOWN`. The safety properties of these runs are proved for all bounds.
Eight packets are all that 16 bytes can hold, so `PacketsBoundedByInput` and
`EntriesBoundedByInput` count them all.

*Event loop.* Three clients give one in the handler, one outstanding, one in the
backlog. Two chunks distinguish a partial read from a full one. Three writes are
enough for one, several, and the failure.

*Builder.* Four turns in one packet overflow its count at Radix 2, four entries
in one array and four arrays in one data set theirs, a string of four bytes its
size, and two packets the frame. Two packets show what a misread first one does
to its neighbour. The packets' commands are of a fixed size (code 1) and with a
count (code 3): that of a string has the same header as the latter. The last packet
in progress is not filled; it does not affect what is built. The safety properties
of this run are all proved for any number of these.

*Replay.* The messages are all there are, whole, with the table as it stands. They
are cut at every byte; the longest, of 583, fits the buffer of a read. Parts of a frame
are read here and not in `PacketBuild`, whose sizes go to three: no packet with an
entry is left of a frame that short. `PartRefused` has it for all frames. Memory behind
the table gives one type to all codes. That is enough for `RecordedRequestsMisread`: the
parser comes to a code behind the table only after it has taken the code of the first
documented entry for a size (`AuthMessage`) or for payload, and it never goes back.

*Generator.* Two records cut off at each of their 21 lengths give every state of a
stream at every field; a record of a type without text, alone and behind others,
gives the crash; the file of the table gives the committed header.

*PacketAccess.* Eight storages allow a frame of two packets to be parsed, one of
them to be taken, and that to be appended to or put into another frame. The theorems hold for any number.

### Fairness

*Parser and processing:* weak fairness of the whole next-state relation. It is
a single call on a thread that waits for nothing.

*Event loop:* weak fairness of `Server(c)` for each client. The completion queue
of asio is a FIFO and the only thread takes from it whenever it is free; a turn
of the handler's loop is a step of the running thread. The peers are not fair:
they may stay silent for ever.

*FrameConsumer:* weak fairness of all its actions but `Fail` and `Spin`. It is what
fairness of the parser's step implies: nothing obliges it to throw, and the
spinning is what the caller may fear and not what he may rely on. The run checks
the implication.

*Builder, replay, generator, access:* none; they have no liveness property.

### Findings

1. `TcpPacket.cpp:33` - the size field is compared with the buffer and never used
   again. The notes in `main.cpp` (300, 338-372) call it the total package size
   and record several frames in one read. (`ParseFrame`)
2. `TcpPacket.cpp:49` - `getNextPacket` advances first. The test at
   `main.cpp:69-70` takes the only packet of a frame and gets an empty one.
   (`ClientSkips`)
3. `Client.cpp:206` - the loop of the read handler never ends; the session noted
   in `main.cpp:338-372` cannot take place. (`ServerSession`)
4. `EntryHeader.cpp:108` with `include/EnumDataTypes.hpp:1665` - the count that
   `main.cpp:300-302` and `320-322` put behind `3B 00` is not written, nor read.
   (`CountOnWire`)
5. `EntryHeader.cpp:39` - the size of `BIN_BLOB` is read with 16 bits; the notes at
   `main.cpp:308-309` have 32, and the recorded message agrees with them: the
   entries behind it are read from the wrong place. (`DocumentedBlob`)

Not listed as findings, since no line of the repository says otherwise, but shown
by runs that pass: a read that ends inside a frame ends the session
(`SurvivesIffUncut`); `get_finish_login`, `get_banned_until` and
`server_response_apply_on_interval_flag` do not build what the parser reads back
(`ResponsesReadBack`); the generator emits an enumerator without a name, which the
committed `data-type-parser/EnumDataTypes.hpp:1578` has and the copy in `include/`
was rid of (`LastRowNameless`, `GeneratedAsCommitted`).

### Mutants

Every property of a passing run has a mutant: a definition next to the one it
changes, marked `Mutant`, that a plausible slip in the code would produce. With
it in place TLC finds the property violated.

## 4. Proofs

The theorems hold for every table, every set of values read, every length of
buffer, every set of clients and every size of a byte, under the assumptions
named in the modules: `TableAssumption` (the table maps codes to types and
`UNKNOWN` is a string), `InputAssumption` (values read are natural numbers),
`BoundsAssumption`, `FloatAssumption` (`APPLICATION_VALUE` is of a fixed size, in
the client's proofs only), `ServerAssumption`, `ClientsAssumption`,
`RadixAssumption`, `BuildAssumption` (a builder's inputs are entries and data
sets under codes of the table), `CodesAssumption` (a code fits its 16-bit field, as
that of an `enum CMD_CODE : uint16_t` does) and `GeneratorAssumption` (files are
sequences of bytes), and `BeyondAssumption` (what is behind the table is a type or
none). TLC evaluates each of them.

**Parser** (`TcpPacketParseProofs`): `TypeCorrect`, `ShortPackets`,
`IteratorState`, `Progress`, `OneByteForever`. `ShortPacketIsLast` speaks of stored
packets only and is not inductive: the parser might be in the middle of a packet
while a short one is already stored. `Inv` adds that none is short while one is
under construction, that the iterator is unset until `Finish` and that a packet
was stored when the input is used up, and that the current packet has consumed
input or is the empty packet of the last byte. The lemma everything rests on is
`HeaderFacts`: a header read from two bytes or more moves, and from one byte it
is that of an empty packet. `OneByteForever` is a safety argument: `Trapped` is
closed under `Next`.

**Refinement** (`TcpPacketParseProofs`): `ParserIsConsumer`, `PacketsBounded`. Each
action of the parser is an action of `FrameConsumer` or leaves the mapped
variables alone; this needs `PacketAdvanced` from `Inv` (a packet is paid for
before it is handed out, or is made of the last byte) and `HeaderFacts`. The
refinement carries the consumer's own invariant over: two of the
bytes it was given for every packet, `TwoBytesPerPacket`, with what is paid for the
packet in progress set aside. It is
proved of the parser's steps through the consumer's, not of the parser.

**Memory of the parser** (`TcpPacketParseProofs`): `EntriesBounded`. The bound on the
entries held is not inductive, for an anonymous array goes on storing entries when
nothing is left to read. `EntriesPaid` has the reason why it stays within the bytes
received: outside of arrays an entry has taken a byte at least, so what is held and
what is left are together within the frame; the count of an array did not exceed
the bytes behind it, so room for all its entries was there when it was read, and
the two bytes of the count pay for the one byte that may be left when the array
ends. The sums over packets, data sets and arrays are recursive functions, of which
`TotalGrows` says what appending adds.

**Client** (`ClientProcessProofs`): `PTypeCorrect`, `CrashCause`, `AnswersMisread`,
`HandlesUpToEmpty`.
`PInv` adds to the parser's invariant that loops are entered by accepted frames
only, that no packet holds more than its header says (which is four for
`APPLICATION_VALUE`), and that processing begins after parsing. The packets are
then whole with four turns, short and last, or cut; two entries in a whole one
leave two data sets. For `HandlesUpToEmpty`, `WalkedSoFar` says that as long as the
loop runs the packets handled are those gone through, and none of them is empty.

**Event loop** (`ServerLoopProofs`): `TypeCorrect`, `OneOwner`, `NoCompletion`,
`DropsJustified`. `Inv` adds to the type invariant, per client, who holds its
buffer in which state of the connection.

**Builder** (`PacketBuildProofs`): `BuildTypes`, `BuildIsIdempotent`,
`HeadersStayProper`. The first two rest on `Inv`: the objects have their types, and
the frame last built is what the packets give that are left behind, which `build()`
would not change again. `SanitizeFacts` is the core: one correction makes header
and payload agree, and a second one finds nothing to do, even if the payload was
corrected further down in between. From there idempotence goes up through entries,
arrays, data sets and packets; that bytes come out goes the same way, over the
flattening of sequences (`LoopFacts`). `HeadersStayProper` is an invariant of its
own: a header has a size field exactly if its type needs one, and the fixed size of
its type if not. `setSize` is called on headers of both kinds, so it has to be shown
that this never undoes it.

**Round trip** (`ReadBackProofs`): `RoundTrip`, `OnlyReadable`, `PartRefused`. `At(w, i, b)` says that
the bytes `b` occur in the frame `w` behind the first `i`. For each class there is a
lemma that says: where its bytes occur, its constructor reads the object they are of
and stops behind them - `HeaderRead`, `EntryRead`, and so on up to `FrameRead`. The
objects have to be such that `build()` leaves them alone (from `Inv`), that their
headers are proper (from `HeadersStayProper`), and that counts and sizes fit 16 bits
(from `ReadableFrame`). A loop of the reader is a function of the number of turns;
its states are written down as prefixes of what was built, shown to follow from each
other, and are then the only such function. The loops without a count - the frame's,
and a packet's whose code has no size field - also have to be shown to stop where
they should: each turn takes two bytes, and at the end of the bytes none is made.
`PartRefused` is about the first two bytes only, and needs no condition on the
packets. Its `NothingFromPart` is not in a run: see `NothingFromCutFrame`, which is.

`OnlyReadable`, the converse, is about frames whose reader goes astray. It cannot
follow what a misreading reader makes of the bytes, and need not: it assumes that the
reader returned what was built, and shows that then every condition holds.

1. The loops of the reader are described for any bytes: a function has the place of
   every turn, and says what each turn appended (`EntriesTrace`, `TurnsTrace`,
   `FrameTrace`). Places do not move back.
2. An object that was returned was taken from the frame: `Took(w, i, e, b)` says that
   its bytes `b` are those between the places `i` and `e`, or that the frame ended
   before and the rest of `b` are zeros, which is what a reader at the end makes of
   a number. So what is returned fits its fields (`FittingPacket`), and each packet is
   read over at least the bytes it was built to.
3. A reader is thus never behind the place where a packet was built (`BothWays` has
   both, `Q` and `R`), and too far on only if it took bytes for an invalid entry, which
   is where a packet's loop returns. Once too far on by `c` it stays so, or is more so
   (`Drift`). But the last packet ends where the frame does: it cannot be read from
   further on, unless what it lacks are the two bytes, zeros, of a size (`LastDrift`).
   That needs a last packet that has a size, and packets before that leave a reader
   two bytes too far on have the command of the one behind them, and no size
   (`DriftedBefore`). So every packet is read where it was built (`Aligned`).
4. What is read where it was built is readable: `ArrayAligned`, `DataSetAligned`,
   `PacketAligned`.

The property leaves out packets without a command: the default header has a code, but
not the size field that its type needs (`Packet.cpp:7-10`; `Nameless` in
`PacketBuildProofs`, which shows that every other header is proper).

Induction over data cannot be had from the library's theorems, which have operators
as parameters. `LoopFacts` derives it from the one about well-founded relations:
`SetInduction` has a set in place of the predicate, `RecursiveFunction` a function in
place of the operator. A recursive definition of the model is then an instance.

**Iterators** (`PacketAccessProofs`): `TypeCorrect`, `CopiesUnwalkable`,
`WalksForward`, `WalksToNothing`. That a copy's iterator points elsewhere is not
inductive by itself: `Inv` adds that no storage has a number that was not allocated,
so that a new storage is foreign to every iterator there is, and that the entries
walked are behind the iterator. For `WalksToNothing` two more are needed: a packet
parsed on its own has its iterator in its own storage, as many places on as there
were calls (`WalkedInOwnStorage`), and an undefined call had a packet that could not
be walked (`UndefinedForAReason`). Then it could not be walked because all calls it
allows were made, and the last of them yielded nothing.

**Generator** (`TypeTableGenProofs`): `RowsPerFile`, `RowsHaveRecords`,
`LastRowIsNameless`. Before the end of the file, the position is that of as many
whole records as there are rows; the turn that fails makes one row more, and the
file was shorter than that. The rows themselves need `LastRowRead`: the last row is
what the record's constructor makes of a stream at the place behind the rows before
it, and `RowsInStep`: the three tables grow together. What the constructor makes is
that of a stream that has all bytes (the offsets of the fields), or none (zeros, of
which `getStr` makes no name).

### Model-checked only

* All liveness: `TerminatesUnlessOneByteLeft`, `ProcessingEnds`,
  `AcceptedUnlessCaptured`, `ReleasedUnlessCaptured`, `AnyInputIsFatal`, and the
  fairness in `ImplementsConsumer` (its safety part is `ParserIsConsumer`).
* The properties of `Replay` and `GeneratedAsCommitted`: about the messages and tables
  there are, which TLC evaluates as they stand.
* The five findings: each is a counterexample.

## 5. Not modelled

* Names and flags of the table: `g_cmd_code_text` is printed only (that an index
  may be beyond it is modelled), the flags are read by nothing.
* `Utils` and `Logger`, `DataEntry::get_string`, `printField`, `dbg_print` and the
  layout of the generator's lines: text without state, and no caller keeps it.
* The characters of strings: only their number is.
* `DataEntry(std::vector<uint8_t> &)`: ignores its argument, no caller.
  `DataEntry(cmd, port, ip)`: no caller; it assigns its payload three times, so
  that the address alone is left (`DataEntry.cpp:107-109`).
* `getEntryByCmd`, `DataType::valid`: read only, no caller.
* What `async_write` makes of `to_send` after its turn (`Client.cpp:213`): no write
  completes in this commit (`WritesNeverComplete`).
* The encryption mentioned in the notes of `main.cpp`: not in the code.

## 6. Plan

Order of work: what runs on bytes from the network first, then what sends, then
tools. Done:

1. `EntryHeader`, `TcpPacketParse` with safety, termination and proofs.
2. `ClientProcess` composed with the parser, with proofs.
3. `ServerLoop` with fairness, and proofs.
4. `PacketBuild`, `WireRead`: round trip, its converse and idempotence, proved.
5. `FrameConsumer` and the refinement, proved and, with fairness, checked.
6. `MessageReplay`: the repository's own messages through its own parser, over a
   stream that is cut anywhere; `DocumentedEntries`.
7. `PacketAccess`: iterators under copying, with proofs.
8. `TypeTableGen` with the committed tables; number and contents of its rows proved.
9. The bound on the parser's memory, proved for every nesting.

Open:

* Agreement of the two parsers: every result of `WireRead` is a behaviour of
  `TcpPacketParse` on the same bytes.
* A `Session` that composes event loop, parser and builder, once the code calls
  them (`Client.cpp:211-212`) from a loop that ends; with it the buffer of an
  outstanding write.
* Proofs: the exact condition under which the event loop goes down.
