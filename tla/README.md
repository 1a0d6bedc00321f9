# A specification of bmwire

`bmwire` is a Go package that implements the wire protocol of Bitmessage: it
turns messages into bytes and back, and reads and writes framed messages on a
connection.  This directory holds TLA+ modules that model the package, TLC
configurations that check the models on small instances, and TLAPS proofs.

    tlc -config MCInbound.cfg MCInbound      # check a model
    tlapm InboundProofs.tla                  # check a module of proofs

`PROJECT.json` lists the runs with their properties, the mutants (plausible
bugs, each of which breaks the property it is listed with), the source lines
every definition translates, the hazards and the theorems.

## 1. The system

The package starts no goroutine, and has no lock, timer or file.  It is called
by a program that owns the connections.  What makes it hard is the connection
(a peer that writes anything, reads and writes that stop anywhere, callers that
try again), limits that are kept in several places, and messages that are
reused, and that share memory with their program.

| Component | State | Operations | What makes it correct |
|---|---|---|---|
| Reading (`message.go` 80-124, 205-357) | position in the stream; the header, the remaining chunks to discard, the result of the call | `ReadMessageN`, `ReadMessage`, `readMessageHeader`, `makeEmptyMessage`, `discardInput` | stays aligned with the frames, never takes a byte of the next frame, delivers only what a valid frame decodes to, reports failures as what they are, counts what it read |
| Writing (`message.go` 126-203) | the frame that is being written, the count | `WriteMessageN`, `WriteMessage` | writes a prefix of one frame, the whole when it succeeds; counts it; what it accepts the other end accepts |
| Message types (`msgversion`, `msgverack`, `msggetaddr`, `msgaddr`, `msginv`, `msggetdata`, `msggetpubkey`, `msgpubkey`, with `netaddress`, `invvect`) | the fields of a message | `Decode`, `Encode`, `Command`, `MaxPayloadLength`, constructors, `AddAddress(es)`, `ClearAddresses`, `AddInvVect`, `AddUserAgent`, `AddService`, `HasService` | `Decode` undoes `Encode`; a message built through the API can be encoded within its limit; no stale field is relayed; a failed call leaves the message within its limits; a decoded message shares nothing with the program |
| Elements and integers (`common.go`) | none | `readElement`, `writeElement`, `readVarInt`, `writeVarInt`, `VarIntSerializeSize`, `readVarString`, `writeVarString`, `readVarBytes`, `writeVarBytes`, `RandomUint64` | what is written is read back, a cut is noticed, a length beyond the limit is refused before it is allocated, the size function agrees with the writer |
| Errors (`error.go`) | none | `MessageError` | tells a malformed message from an error of the connection |
| Hashes and keys (`shahash`, `ripehash`, `pubkey`) | the bytes of a hash | conversions from and to strings and bytes, `IsEqual`, `SetBytes` | a text is the numeral of the hash, reading undoes printing, and printing changes nothing |
| Names (`protocol`, `msgobject`) | none | `String` methods, constants | - |

The components interact by calls.  `ReadMessageN` reads a header with a
`readElements` of its own, creates the empty message that the command names
(for `object`, after the payload was read, the message that the object type
names) and calls its `Decode` on the payload.  `WriteMessageN` calls `Encode`
into a buffer, and only then writes the header and the payload with two calls
of `Write`.  `MsgMsg` and `MsgBroadcast`, which `makeEmptyMessage` creates, are
not in the repository.

The behaviours that are hard to test are listed with their lines under
`hazards` in `PROJECT.json`.  In short: skipping a refused payload in chunks
whose errors are ignored; a connection that ends or fails at each of the reads
and writes, with callers that go on afterwards; the zero, the exact multiple
and the last value before a limit; three places that bound a list; decoding
into a message that was used before, or whose last `Decode` failed half way;
two goroutines that write to one connection; addresses and keys that the
program changes after a message has got them; counts that are allocated; the
discriminants of the integers; the reversal of a hash with an odd text.

## 2. The modules

    Wire          commands, object types, limits, headers       (constants only)
     +- Codec     Encode and Decode of every message            (functions)
         +- CodecProofs     lemmas: Decode undoes Encode
         +- MessageObject   one message in the hands of a program
         |   +- MessageObjectProofs                     (with CodecProofs)
         +- Frame           the judgement of one frame          (functions)
             +- Connection  one direction of a connection: wire, closed
                 +- ReadMessage     the steps of ReadMessageN
                 |   +- InboundConnection    a peer that writes anything
                 |   |    (refines MessageReader, an abstract reader)
                 |        +- InboundProofs
                 +- WriteMessage    the steps of WriteMessageN
                 |   +- WriteMessageProofs              (with CodecProofs)
                 +- Pipe            both, where everything may fail
                 +- SharedConnection  ReadMessage and two of WriteMessage
                      (refines MessageChannel, a queue)
                     +- SharedConnectionProofs
                          (with InboundProofs, WriteMessageProofs)
    SharedMessages  messages and the objects of their program, on a heap
     +- SharedMessagesProofs
    VarInt          variable length integers and texts, byte by byte
     +- VarIntProofs
    HashText        hashes and their texts, digit by digit
     +- HashTextProofs

An `MC` module gives each of them its constants.

**Cells.**  Except in `VarInt` and `HashText` the unit of length is the *cell*, one field of
the protocol: an integer, a hash, a key, an address or a command is one cell,
whatever its number of bytes, and a cell is a natural number.  A header is four
cells.  The abstraction keeps what the control depends on: how long something
is, where it ends, and that a header read at the wrong position still means
something.  Since every cell can be read as every field, losing the alignment
is not an error by itself in the models; it is a different judgement, as in the
code.

What the cells leave out: a read that stops inside a field is a read that stops
before it.  `Decode` can then return `io.ErrUnexpectedEOF` where the models have
`io.EOF`; the models of the reads from the connection itself keep the two
apart.  Numbers do not overflow in a cell: the two places in the code where a
number is cut are modelled (`StampModulus` for the 32 bits of the time of an
address; `Base` in `VarInt`).

**Wire and Codec.**  `Decode(kind, receiver, payload)` is a function of the
receiver also, because `Decode` in the code assigns fields as it goes: its
result is an error and the message it leaves behind, half assigned when it
failed.  `Encode` returns the cells or an error, or the nil dereference of a
key that is not there (`"panic"`).  `Decode` panics as well, at a count that
is too large for `make`: `MaxAlloc` stands for the longest slice, which is far
above every limit that the code tests.  Absent keys are `<<>>`, present ones a
sequence of one cell.  A time is a pair of its seconds and its fraction, and
encoding drops the fraction.  `Receiver(kind)` are the values a message of a
type can have in a program, `Body(kind)` those that are to be written and read
again: with times from 1970 on, and the object type of the message.  The lists are encoded and decoded as
functions of positions, so that they can be reasoned about without induction.

**Frame.**  `TooLarge`, `Refused` and `Parse` are the validations of
`ReadMessageN` in their order: the total limit; then the network, the UTF-8 of
the command, the command, and the limit of its type; then the checksum, the
object type, the limit of the object, and `Decode`.

**ReadMessage.**  `Call` begins a call.  Each read of the connection is one
step and the computation up to the next read belongs to it: `HeaderFails`,
`HeaderTooLarge`, `HeaderRefused` and `HeaderAccepted` end the read of the
header, `DiscardFullChunk` and `DiscardRest` are the reads of `discardInput`,
`DiscardDone` its end, `PayloadFails` and `PayloadRead` the read of the payload
with everything after it.  `ReadFull` models `io.ReadFull`: it blocks until the
cells are there, the wire has ended (`io.EOF` before the first cell,
`io.ErrUnexpectedEOF` after it) or the connection fails (`Timeout`, after any
number of cells).  `fault` is a history variable, the last error that a read of
the call returned: the code drops it in `discardInput`.  A panic of `Decode`
ends the call with the "error" `"panic"`: a caller that recovers it has no
message and no count, and goes on from where the call has left the connection.

**InboundConnection.**  A peer appends segments, whole frames or pieces of
frames, good and bad, and may close the connection at any moment; the caller
may call `ReadMessageN` again after any result.

**MessageReader** is the abstract specification of reading: a call judges the
frame at its position in *one* step and moves behind it, except that a header
beyond the total limit moves it behind the header only, and that a connection
that ends or fails leaves it anywhere in the frame.  `InboundConnection`
implements it with the mapping that hides the position until the call returns.

**WriteMessage.**  `SubmitRefused`, `SubmitPanics` and `SubmitAccepted` are the
validations, in their order, and the encoding, which happen before anything is
written; `HeaderWritten`, `HeaderWriteFails`, `PayloadWritten` and
`PayloadWriteFails` are the two calls of `Write`.  The connection may be closed
by its owner between any two steps.

**Pipe** puts both functions on one connection.  The repository has no loop
that calls them; the callers of the model do, and go on after every error, of a
read or a write that failed anywhere, as if nothing had happened.

**SharedConnection** has two instances of `WriteMessage`, for two goroutines
that write to one connection, and one reader; the connection may be closed and
does not fail otherwise.  `WriteMessageN` itself keeps no state between its two
calls of `Write`.  `locking`, chosen in `Init`, says whether the callers hold a
lock during a call; the lock is theirs, and external.  With it the two ends
implement `MessageChannel`, a FIFO queue; a behaviour in which one of the writers
does nothing is that of a connection with one writer.  The histories `attempted`,
`written` and `delivered` record the messages as the other end sees them, and
only those of a type that it knows.

**MessageObject.** One message, made by a constructor, on which every method is
called in any order: `Decode` of payloads good, short and wrong, and of a reader
that a version message does not accept, `Encode`, and the `Add` methods. A panic
ends the behaviour. `AddService` takes masks of several flags: the number that
has the bits of both is found below their sum, which needs no recursion and can
be proved about. `HasService` only reads. `Assigned` lists the fields of a
message in the order in which `Decode` assigns them. The `Add` methods accept
nil, at which `Encode` panics: the model has lists without nil elements only,
and what `BuiltIsEncodable` says of a list is said of these.

**SharedMessages.** Four messages that share memory with the program (`addr`,
`version`, `getpubkey` and `inv`), and the objects of the program, on a heap:
addresses with the slice of their IP, stream numbers, a key. A `getdata` message
holds its vectors as an `inv` message does, and a `pubkey` message its keys as a
`getpubkey` message; they are not in the model. An `addr` message holds
pointers, a `version` message a copy of an address (with the same IP) and the
slice of the stream numbers, a `getpubkey` message a pointer; `NewInvVect`
copies. The program calls constructors, `AddAddress`, `AddInvVect`, `SetAddress`
and `Decode`, and writes to its objects, in any order. Two messages of the
program may share an address, and a message the IP of another. A payload has
only the cells of the parts that can be shared.

**VarInt.**  A buffer into which integers and texts are written by
`writeVarInt`, `writeVarString` and `writeVarBytes` or, by another program, with
an integer or a length in a longer form than needed, or with a length that
cannot follow; which may lose its end; and from which the items are read with
`readVarInt`, `readVarString` and `readVarBytes`.  `Base` is the number of
values of a byte, and `Base2`, `Base4` and `Base8` are those of the wider
integers, which `binary.BigEndian` writes and reads half by half.

**HashText.**  A hash of any number of bytes, and digits of any radix (sixteen
in the code).  `Prints` is `String`, `SetBytes` and `Scans` the two ways in, for
texts that are too long, of odd length, in either case or with a character that
is no digit.  `shahash.go`, `ripehash.go` and `pubkey.go` are the same code for
three sizes.

## 3. The runs

| Run | Specification | Properties | What it shows |
|---|---|---|---|
| `inbound` | `InboundConnection`, `FairInboundSpec` | `ReadTypeOK`, `FrameAligned`, `NeverOverreads`, `DeliveredIsFrame`, `CountAccounts`, `FaultsReported`, `PanicsAtUnlimitedCounts`, `JudgesFrames`, `SuppliedCallReturns` | alignment, soundness of deliveries, the exact meaning of the count and of the error, which counts can make a call panic, the refinement of `MessageReader`, and that a call returns once its frame is there or the connection has ended, also while it discards and every read fails |
| `inbound_count` | the same, `InboundSpec` | `CountIsBytesRead`, violated | finding 1 |
| `inbound_errors` | the same, `InboundSpec` | `IoErrorsComeFromTheConnection`, violated | finding 2 |
| `outbound` | `WriteMessage`, `WriterSpec` | `WriteTypeOK`, `WriteCountAccounts`, `WritesOneFrame`, `WrittenIsReadable` | partial writes leave a counted prefix of one frame; the limits and the codecs of the two ends agree |
| `pipe` | `Pipe`, `Spec` | `NothingInvented` | with failures anywhere and callers that go on, what is delivered is a subsequence of what was attempted |
| `shared` | `SharedConnection`, `FairSpec` | `NothingMixed`, `OnlyForeignRefused`, `IsOneChannel`, `ArrivesInTheEnd` | with a lock around the calls the connection is a FIFO channel for both writers, and what was written arrives unless the connection is closed; without one, frames are torn and lost but no mixture is delivered |
| `object` | `MessageObject`, `Spec` | `WithinBounds`, `BuiltIsEncodable`, `RelaysWhatItDecoded`, `DecodeSplices`, `AddKeepsOrder` | limits that agree, no stale fields on the wire, and what exactly a `Decode` that fails leaves of its receiver |
| `object_times` | the same | `EncodedTimeIsExact`, violated | finding 3 |
| `aliases` | `SharedMessages`, `Spec` | `OwnedMessagesKeep`, `DecodeIsLocal`, `LengthsKeep` | a decoded message is its own, `Decode` writes to new objects only, and what a program writes to shared addresses and keys changes no length |
| `varint` | `VarInt`, `Spec` | `ReadsWhatWasWritten`, `FailsOnlyAtTheCut`, `AllocatesWithinLimit`, `NeverLonger` | integers and texts in any form are read back, a cut is noticed, a length beyond the limit is not allocated, relaying does not grow a message |
| `hash` | `HashText`, `Spec` | `HashTypeOK`, `PrintedReadsBack`, `TextIsNumeral` | texts of every length and case against the value of the numeral |
| `hash_order` | the same | `TextIsInByteOrder`, violated | finding 4 |

**Bounds.**
- `MaxWire`: the peer (or the writer) adds to the wire only while it is shorter
  than this.  With 7 cells in `inbound` a second frame, and a third when the
  first ones are short, follows the first: enough to see a frame read from the
  middle of another, and a call after every kind of result.  `pipe` and `shared`
  have two frames, of which one may be torn or lie inside the other; the 8 cells
  of `shared` let a frame at the limit of its type be followed by another.
- `DiscardChunk` is 2 instead of 10240, so that the payloads to skip (1, 2, 3
  and 5 cells) have no full chunk, one without a remainder, one with and two
  with a remainder.
- The payload limits are small, so that each is met, reached and exceeded.
  As in the code the limit of an object is below the total limit, so
  that a frame may be refused by the second limit only after it was read.
- `Segments`, `Messages` and `Payloads` have a member for every branch of the
  validations and decoders.  `Checksum` is a parameter.  `MCInbound`
  and `MCOutbound` use a small hash.  `MCPipe` and `MCShared` give every payload
  of an intact frame a checksum of its own that no other cell of the wire looks
  like: that a torn or mixed frame is never delivered (`NothingInvented`,
  `NothingMixed`) holds as far as the digest is ideal, while none of the
  theorems depends on it.  In `MCShared` the first cell of a header can be read
  as the count of a list.
- `MaxAlloc` lies between the limits and the largest count of `MCInbound` and
  `MCObject`.
- `MaxObjects` is the size of the heap in `SharedMessages`: the four objects of
  the program, and four that `Decode` and `NewInvVect` allocate, enough for an
  `addr` message with two addresses, or for a decoded message next to another.
- `Base` is 5: the discriminants need three values, one form of one byte needs
  another.  `Values` are the integers on both sides of each change of form.
  `Texts` have the lengths around the change of form and around both limits, of
  bytes that could be taken for discriminants.  `MaxPuts` items are put in a
  buffer; two are enough, since a reader knows nothing but what is left in it.
- `HashText` has four bytes of two binary digits.  Short texts of every
  character and binary texts up to one character more than the hash has are
  enumerated, so that odd and even numbers of digits and of bytes occur.

**Fairness.**  `InboundConnection` has weak fairness of `ReadStep`: a goroutine
inside `ReadMessageN` is scheduled, and is blocked only by a read for which
neither cells nor an error are there.  The peer owes nothing.
`SharedConnection` adds weak fairness of the call (a caller that reads messages in a loop, as the doc
comments have it), and none for the writers or their lock: what was put on the
wire is delivered whether or not a writer ever comes back.  Properties that are
checked without liveness need no fairness.

**Deadlock.**  The runs switch the check off because the system may stop:
a closed connection without more to do, a full bound, a caller that has
stopped at an error, a panic.  That it does not stop inside a call is
`SuppliedCallReturns`.

## 4. Findings

1. *The count of a skipped frame.*  `ReadMessageN` returns "the number of bytes
   read" (`message.go:212`), but does not count what `discardInput` took.  What
   the count does say is `CountAccounts`.
2. *Malformed messages as I/O errors.*  `MessageError` exists to tell "general
   io errors such as io.EOF" from "malformed messages" (`error.go:11`), but a
   payload shorter than its fields makes `ReadMessageN` return the `io.EOF` of
   the decoder.  The other direction holds: `FaultsReported`.
3. *The precision of times.*  Two constructors say that they limit the time to
   one second precision (`msgpubkey.go:163`, `msggetpubkey.go:114`), and do not.
4. *The text of a RipeHash or PubKey.*  It is "the hexadecimal string of a byte
   hash" (`ripehash.go:70`, `pubkey.go:70`), where a ShaHash says
   "byte-reversed"; all three are reversed.

`PROJECT.json` quotes the lines.  Behaviour that surprised us and that no source
line contradicts is not a finding: a header beyond the total limit is not
skipped, so that the stream is lost (`HeaderTooLarge`); a frame whose payload is
empty is complete when the second, empty `Write` fails, so that a retry delivers
the message twice (allowed by `NothingInvented`, which counts writes); a `Decode`
that fails can leave a message whose `Encode` dereferences nil; a count of
stream numbers or the length of a signature can be too large for `make`, which
panics (`PanicsAtUnlimitedCounts`); two writers need a lock of their own; and a
read error during `discardInput` is lost, which the tests of the package expect.

## 5. The proofs

TLC checks small instances.  The theorems hold for all values of the constants
that satisfy these assumptions, which TLC evaluates in the runs:
- `WireAssumption`: limits are natural numbers;
- `CodecAssumption`: of the constants of the codecs; a list or a text within its
  limit can be allocated;
- `ReadAssumption` (a chunk is not empty) and `InboundAssumption` (segments are
  sequences of cells);
- `WriteAssumption`: a message that is written has the fields of its type, with
  times from 1970 on and its own object type, or is of a type of the program's
  own, with any payload;
  `ChecksumAssumption`: a checksum is a cell;
- `MessageObjectAssumption`: a constructor returns a message of its type, with an
  empty list and a user agent within its limit; payloads are sequences of cells,
  and the cell at the place of the time of an address is one of 32 bits;
- `VarIntAssumption`: a byte has at least four values, the limits of texts fit in
  32 bits, integers and the lengths of texts in 64;
- `HashTextAssumption`: a radix that is not zero;
- `SharedMessagesAssumption`: payloads are sequences of cells; and
  `PayloadsAssumption`: what `Decode` sees of a payload is whole parts of it, no
  more of them than its count says (it leaves what is behind them unread);
- `SharedAssumption`: the connection of `SharedConnection` does not fail, it is
  only closed.

| Theorem | Statement | Run that checks it |
|---|---|---|
| `InboundProofs!ReadInvariant` | `InboundSpec => []ReadInv` | - |
| `InboundProofs!TypeCorrect` | `InboundSpec => []ReadTypeOK` | `inbound` |
| `InboundProofs!Alignment` | `InboundSpec => []FrameAligned` | `inbound` |
| `InboundProofs!NoOverread` | `InboundSpec => []NeverOverreads` | `inbound` |
| `InboundProofs!DeliveryIsSound` | `InboundSpec => []DeliveredIsFrame` | `inbound` |
| `InboundProofs!CountIsAccurate` | `InboundSpec => []CountAccounts` | `inbound` |
| `InboundProofs!FaultsAreReported` | `InboundSpec => []FaultsReported` | `inbound` |
| `InboundProofs!PanicsAreOfCounts` | `InboundSpec => []PanicsAtUnlimitedCounts` | `inbound` |
| `InboundProofs!Refinement` | `InboundSpec => JudgesFrames` | `inbound` |
| `WriteMessageProofs!WriteTypes` | `WriterSpec => []WriteTypeOK` | `outbound` |
| `WriteMessageProofs!WriteCounts` | `WriterSpec => []WriteCountAccounts` | `outbound` |
| `WriteMessageProofs!WritesFrames` | `WriterSpec => []WritesOneFrame` | `outbound` |
| `WriteMessageProofs!WrittenReadable` | `WriterSpec => []WrittenIsReadable` | `outbound` |
| `MessageObjectProofs!ObjectInvariant` | `Spec => []ObjectInv` | - |
| `MessageObjectProofs!Bounds` | `Spec => []WithinBounds` | `object` |
| `MessageObjectProofs!AddsInOrder` | `Spec => AddKeepsOrder` | `object` |
| `MessageObjectProofs!BuiltEncodable` | `Spec => []BuiltIsEncodable` | `object` |
| `MessageObjectProofs!DecodeSplicing` | `Spec => []DecodeSplices` | `object` |
| `MessageObjectProofs!RelaysDecoded` | `Spec => []RelaysWhatItDecoded` | `object` |
| `VarIntProofs!VarIntInvariant` | `Spec => []VarIntInv` | - |
| `VarIntProofs!VarIntReads` | `Spec => []ReadsWhatWasWritten` | `varint` |
| `VarIntProofs!VarIntFails` | `Spec => []FailsOnlyAtTheCut` | `varint` |
| `VarIntProofs!VarIntAllocates` | `Spec => []AllocatesWithinLimit` | `varint` |
| `VarIntProofs!VarIntShortest` | `Spec => []NeverLonger` | `varint` |
| `HashTextProofs!ReadsBack` | `Spec => []PrintedReadsBack` | `hash` |
| `HashTextProofs!HashTyped` | `Spec => []HashTypeOK` | `hash` |
| `HashTextProofs!NumeralIsText` | `Spec => []TextIsNumeral` | `hash` |
| `SharedConnectionProofs!SharedInvariant` | `Spec => []SharedInv` | - |
| `SharedConnectionProofs!ForeignRefused` | `Spec => []OnlyForeignRefused` | `shared` |
| `SharedConnectionProofs!OneChannel` | `Spec => IsOneChannel` | `shared` |
| `SharedMessagesProofs!HeapInvariant` | `Spec => []HeapInv` | - |
| `SharedMessagesProofs!OwnedKeep` | `Spec => []OwnedMessagesKeep` | `aliases` |
| `SharedMessagesProofs!DecodesLocally` | `Spec => DecodeIsLocal` | `aliases` |
| `SharedMessagesProofs!LengthsKept` | `Spec => LengthsKeep` | `aliases` |

**Reading.**  None of the invariants is inductive: that a call ends at the end
of its frame depends on what is left to discard, and what a delivered message
decodes from depends on the wire behind the position.  `ReadInv` is the
conjunction of `ReadTypeOK` and
- `HeaderFacts`: before the header is read nothing was taken; once it is,
  `hdr` is the header at `start`;
- `InHeader`, `InPayload`: where a call in these reads stands, and that its
  header was accepted so far;
- `InDiscard`: the cells taken, and with them those that the chunks and the
  remainder still promise, do not pass the end of the frame, and meet it
  exactly when no read has failed;
- `Idle`: what a returned result says about the frame, the count and the error.

`FrameAligned`, `DeliveredIsFrame`, `CountAccounts` and `FaultsReported` are
parts of `Idle`; `NeverOverreads` follows from `HeaderFacts`.

`InboundProofs` shows that each action of a call preserves it, with one
lemma per action, and `WireGrowsInv` that the peer does, since it only
appends; the arithmetic of the chunks is a lemma of its own.  It then puts them
together and derives the properties.  The lemmas about a call do not know who
writes to the connection, and serve `SharedConnection` as well.

**Panics.**  `PanicsAtUnlimitedCounts` is inductive relative to `ReadInv`.  A
call panics only in `PayloadRead`; the lemma `Allocates` goes through the
decoders and shows from the limits in `CodecAssumption` that a list and a user
agent are refused before a count of them can be too large.

**Refinement.**  `InboundProofs` shows that the initial states correspond,
that the steps inside a call change nothing that `MessageReader` sees, that a
returning step is `Judge`, `GiveUp`, `BreakInHeader` or `BreakInPayload`, and
that the peer is its `Environment`, from `ReadInv` (in particular
from the facts that tie the position in a call to `start` and to what is left).

**Codecs.**  `CodecProofs` has, for each type, what `Encode` makes of a message,
cell by cell, and that `Decode` of these cells in an empty message returns the
message as the other end sees it: without the fraction of a time, the keys that
the version of the message does not carry, and the high part of a time that has
32 bits.  A payload is described by the cell at each position: a list of
addresses by the four cells of each address, a text or a list behind another by
an offset.  Two sequences with the same length and the same cells are equal,
which is all the theory of sequences the proofs use.

**Writing.**  That a call has written a prefix of one frame says nothing about
the next step of the call.  `WriteInv` says how many cells of which frame lie
behind the point at which the call began: none before the header, four before
the payload, the returned number after an error of the connection, all after a
success, and none after a refusal or a panic; and that the message was validated.
The other three properties follow from it.  `WrittenReadable` puts the two ends
together: a validated message has a header that `TooLarge` and `Refused` let
pass, since the limit that `WriteMessageN` tests is the one `ReadMessageN` looks
up for the command (for an object, for the type in its payload), and the payload
passes `Parse` by the lemmas of `CodecProofs`.

**Messages.**  `ObjectInv` says that the message is one of its type within its
limits; that after an `Encode` the result is that of the message as it is; and
that after a `Decode` without an error the message is what the decoder makes of
one of the payloads in *some* receiver of the type.  The last part is what
`RelaysWhatItDecoded` needs: that no field of the receiver survives cannot be
seen in the message alone.  The proofs go through the decoders once, in lemmas
named after them (`VersionDecoded`, `PubKeyDecoded`, ...), that give every field
of the result as a cell of the payload or as the old value.  `DecodeSplicing`
compares two such results, in the receiver and in an empty message, with the
order in `Assigned`; `RelaysDecoded` feeds one to `Encode` and compares the cells
with the payload; `AddsInOrder` and `BuiltEncodable` follow from the limits.
A first attempt at `DecodeSplicing` failed where two guards of `Assigned`
overlapped for a `pubkey`, of which TLC takes the first; they now exclude each
other.

**Shared memory.**  That the payload of a message is still what was decoded is
not inductive: nothing in it says that the program cannot reach the objects the
message points to.  `HeapInv` says that each object keeps its type, that every
pointer of a message leads to an object of the type of the field, and that a
message whose payload is known is encoded to it *from objects that are not the
program's*.  `EncodedKept` is the frame rule: an encoding depends on the objects
that the message reaches and on no others.  A write of the program changes one
of its four objects and leaves the types as they are (`Overwritten`), so that it
changes no message that is its own, and no length of one that is not; a `Decode`
only makes the heap longer (`LocalTo`), and what it points to is new.

There is one lemma for each action.  The encoding of a list of addresses is
flattened from pairs, by a function that recurses on the list: that there is one
such function is shown with a least position at which another one would differ,
and that it has the cells of the pairs, one behind another, by its equation.

**Integers and texts.**  What was read is a prefix of what was written because
the buffer is always at the beginning of an item, and that is not a fact about
the buffer alone: bytes of a text look like discriminants.  `VarIntInv` says that
there is a stream and a position for each item, such that between two positions
lie a form of the count of the item and its bytes, and that the buffer is the
part of the stream behind the last item that was read, up to where it was cut.
A writer adds an item at the end and the reader moves over one, so that no
induction is needed.  The lemmas below it: what `PutUint` writes in two, four or
eight bytes `Uint` reads; `writeVarInt` writes the shortest form, of the size
that `VarIntSerializeSize` says; a form is one wherever its bytes are; a buffer
with less than a form is an error that takes all there is.  A huge text is
refused because its count is above every limit, whatever follows.

**Shared connection.**  `SharedInv` is `ReadInv`, with the fact that a message in
a call of `WriteMessageN` was validated, and for callers with a lock `Orderly`.
That says who is in a call (`Locked`), what the reader may refuse
(`OnlyForeignRefused`), and that what is on the wire, what the histories say and
where the reader is fit together (`InOrder`): there are frames, of which the i-th
ends at `at[i]` and is the `known[i]`-th message of a known type; the wire has
the whole of each but the last, of which it has the part that the writer in the
call has written; the reader is at or in one of the frames, and what was
delivered are the messages of the known types before it.  None of these parts is
inductive without the others: that a reader finds a header where it looks for one
depends on the lock, what it makes of the header on the frame that is there
having been validated, and that the frame is followed by another on the reader's
own alignment, which is `ReadInv`.  The invariant speaks of functions of all
natural numbers, so that TLC checks what follows from it and not the invariant.

There is one lemma for each action; it shows the invariant, and with it that the
step is one of `MessageChannel`, since both follow from the same frame.  A
refused frame is one of a type that the other end does not know: a validated
frame of a known type passes by the lemmas that `WrittenReadable` rests on.  The
two writers are the same lemma, used for the names of both instances.

**Hashes.**  `ReadsBack` needs no induction: printing and reading are functions of
positions, and it follows digit by digit from the facts that the two
digits of a byte determine it and that reversing twice is nothing.
`NumeralIsText` does: the value of a numeral is a fold over its digits.  The
induction theorems of the library have a predicate as a parameter, for which the
provers do not find an instance; `Induction` is stated for a *set* of numbers,
which is an instance that they find, and follows from `LeastMember`, the
well-foundedness of the natural numbers.  With it the fold is shown to be
defined, and to go in each step from the digits before a position to those with
the next; then the value of the numeral that `Prints` makes is that of the
bytes, one byte after the other.

**Only model-checked.**
- Liveness (`SuppliedCallReturns`, `ArrivesInTheEnd`) and everything about
  `ENABLED`: not supported by the prover.
- `NothingInvented` and `NothingMixed`: they hold for a digest that is ideal, and
  only then.  The theorems do without one; what follows from an ideal digest
  about cells of torn frames, read at any position, would have to be an
  assumption about every wire there can be.

The theorems about reading treat `Decode` and `Checksum` as whatever they are.

## 6. Not modelled

- `MsgMsg` and `MsgBroadcast` are not in the repository.  The models know them
  as the five fields of an object and an opaque rest, and mark them external.
- Memory: how much of it is left.  That a buffer is allocated at a length from
  the wire shows in the models only where `make` refuses the length, and in
  `AllocatesWithinLimit`.
- The byte order of the fixed width elements: `readElement` and `writeElement`
  are one cell, `encoding/binary` does the rest.
- The `String` methods of services, networks and object types, and the texts of
  errors: formatting for people.
- The size hints of two constructors, which are capacities that nothing
  observes; `RandomUint64`, a call of the system; `Sha512`, the parameter
  `Checksum`.

## 7. Plan

The order is that of importance: first what a program relies on when it reads
from a peer it does not trust, then writing, then the messages, then the
compositions.  Every component of section 1 that has state or control is
modelled, and what one end does alone is proved, with the composition of both
ends under a lock and the sharing of memory with a program.  Left is *Pipe*:
what can be said of `NothingInvented` with an ideal digest as an assumption
about the segments of a wire.
