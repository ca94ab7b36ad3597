# A formal model of the Fusain protocol library

These TLA+ modules model the C library of this repository: `src/src/fusain.c`,
`src/src/fusain_net_buf.c`, their header `src/include/fusain/fusain.h` and the
generated CBOR code in `src/src/generated/`. (Paths begin with `src/`, the root
of the repository.) TLC checks them on small instances; TLAPS proves the safety
invariants of the encoder, the decoder, the net_buf wrapper, message creation and
the generated decoders, what the CRC computes, and what a fault of the line may cost, for every instance. `PROJECT.json` lists the
components, the runs, the lines each definition models, the hazards, and for
each checked property a plausible bug (a mutant) that the property catches.

## The system

A controller and an appliance exchange messages over a serial line:

    create_*  ->  encode_packet  ->  line  ->  decode_byte  ->  (net_buf)  ->  application
       |               |                          |                                |
     CBOR, header    stuffing, CRC        unstuffing, CRC, header           CBOR decoders

| Component | State it keeps | Operations | What is hard | What makes it correct |
|---|---|---|---|---|
| Wire format, header | none | `fusain_crc16`, `encode_/decode_cbor_message_header` | boundaries (type 0x17, length 114) | both ends use the same format |
| Encoder | none between calls; index into the output buffer within one | `fusain_encode_packet`, `stuff_byte` | the buffer ends anywhere, an escape pair needs two bytes | nothing behind the buffer; the exact frame or an error; no flag inside a frame |
| Decoder | `fusain_decoder_t` (state, buffer, index, escape flag, address counter) and the caller's `fusain_packet_t`, filled over many calls | `fusain_decode_byte`, `fusain_reset_decoder` | long call sequences, unchecked stores, two copies of the same bytes, arrays never cleared | stores in bounds; CRC over exactly this frame; delivered = checked; equals an abstract receiver |
| Line, both ends | bytes in flight | send, receive, reset after an error | lost, corrupted, doubled, inserted bytes; a restart | nothing that was not sent, nothing twice, bounded loss, the rest arrives |
| net_buf wrapper | the decoder; Zephyr's pool; an uninitialized local packet | `fusain_decode_byte_to_net_buf` | exhausted pool, ownership, the local packet | no leak; complete frames returned, and nothing else; stores in bounds: all for frames during which the packet is left alone |
| Message creation | the caller's packet, possibly reused | 25 `fusain_create_*` | partial failure, ranges, optional members, largest message | round trip through the generated codec; fails only for values out of range |
| Messages over the link | all of the above, at both ends | create, encode, send, decode, understand | a failed create call whose frame is sent all the same; a packet used again and again; two header sizes | what is told was meant, in order and once; a failure costs nothing else |
| Generated CBOR codec | none of its own; the caller's result struct with its `_present` flags, which is never cleared | 22 encoders, 22 decoders | both sides agree on keys, types, ranges, order; maps of other peers; a struct that holds an older message | round trip; accepts exactly what the encoder can write; the struct says what the map says |
| zcbor, Zephyr net_buf | external | | | modelled as the code uses them |
| Tests, fuzzing, build | | | | not modelled |

Components interact by calls only. There are no threads and no callbacks in the
library; `README.md` of the repository says that the decoder is not thread-safe
and leaves locking to the application. One call is therefore one step (several
steps for the encoder, where the bytes written before a failure matter). What
makes the system hard is the *order* of calls: any byte may follow any other,
a reset may come at any time, and every field of the two structures survives
from one frame into the next.

## The modules

| Module | Code | How it corresponds |
|---|---|---|
| `Header` | `encode_cbor_message_header`, `decode_cbor_message_header` | operators; the constants 0x82, 0x18, 0x17 are CONSTANTS |
| `Wire` | the defines of `fusain.h`, `^ FUSAIN_ESC_XOR`, array helpers | every number of the format is a CONSTANT; `Crc` and `BitOr` are operator CONSTANTS |
| `Frame` | `fusain_encode_packet` seen as a function | the frame a packet should become |
| `Encoder` | `fusain_encode_packet`, `stuff_byte` | one action for the entry of a call, each call of `stuff_byte`, each byte written directly, with the error return in the action that meets it |
| `FrameReceiver` | none: the abstract specification | collects bytes since START, judges them by LENGTH, CRC, END and header |
| `Decoder` | `fusain_decode_byte`, `fusain_reset_decoder` | one action per branch: `Start`, `Escape`, `Ignore` (IDLE), `RejectLength`, `Length`, `AddressByte`, `PayloadByte`, `CrcHigh`, `CrcLow`, the four outcomes of END, and `ResetDecoder` |
| `Decoder_proofs` | | the inductive invariant, the theorems about it, and the proof that `Decoder` implements `FrameReceiver` |
| `DataLemmas` | | induction over the naturals, two-digit numbers, flattened sequences: the lemmas about data that the proofs share |
| `Encoder_proofs` | | the inductive invariant of `Encoder` and the theorems about it; the theorems about `CrcDivision` |
| `Crc16` | `fusain_crc16` (the built-in one) | bit by bit, on 16 bits; the loops are functions on `Uint16` and `Uint8` |
| `CrcDivision` | | division of polynomials, byte by byte beside `Crc16`, and the powers of x modulo the polynomial |
| `Line` | the examples of `README.md` | composes `Decoder` and `Frame` with a faulty line and the receiving loop |
| `Link` | | `Line` with a sender of given packets |
| `Link_proofs` | | the way of one frame through the receiver, the inductive invariant of `Link` and the theorems about it |
| `NetBuf` | `fusain_decode_byte_to_net_buf` | `Decoder` with a pool, and `Clobber`, by which other functions leave any member of `StackPackets` in the slot of the local packet; a store that leaves its array is `Overrun`, with which the model ends; a `FrameReceiver` hears the same bytes as observer |
| `NetBuf_proofs` | | the pool and the stack slot, from the refinement of the decoder |
| `Cbor` | what zcbor and the generated functions do with a list of fields | external, as the generated code uses it |
| `CborEncode`, `CborDecode` | `cbor_encode.c`, `cbor_decode.c` | the fields of each payload, transcribed from each side separately; `<payload>_options` are its `repeated_` functions, `Payloads` the functions of the header file |
| `MapDecoder` | `cbor_decode_*_payload`, `decode_*`, `decode_repeated_*` | one call on the map of any peer: one action per outcome of a zcbor call (`DecodeRequired`, `FailRequired`, `DecodeOptional`, `SkipOptional`, `EndMap`), the caller's struct as a variable |
| `Cbor_proofs` | | what `Items` writes and `Decoded` reads, for every list of fields |
| `MapDecoder_proofs` | | the inductive invariant of `MapDecoder` and the theorems about it |
| `CborBytes` | the bytes zcbor writes and reads | external; definite and indefinite maps |
| `Messages` | all `fusain_create_*` | one action per function; `Fill` is the frame 23 of them share, `FillNil` that of the other two |
| `Messages_proofs` | | the inductive invariant of `Messages` and the theorems about it |
| `Session` | all of `fusain.c` and the generated code, from a create call at one end to the decoded struct at the other | `Line` and `CborBytes` with an instance of `Messages` whose packet is the sender's |
| `ScaledWire` | | a wire of three-bit bytes for TLC |
| `MCDecoder`, `MCEncoder`, `MCCrc16`, `MCLink`, `MCNetBuf`, `MCMessages`, `MCMapDecoder`, `MCSession` | | the instances; `MCMapDecoder` also defines the maps |

Two representations deserve a word. `decoder.buffer` and `packet.payload` are
functions on the indices written since the last START: the C arrays are never
cleared, so an element outside the domain stands for a stale byte, and the claim
that none is read is a claim about domains. The CRC during reception is
`high * 256 + low`, and `CrcLow` or-s the second byte into the low one, as the code does.

The wrapper's packet needs a third. It is an uninitialized local variable, so nothing
is assumed of what another function leaves in its stack slot between two calls: neither
of the length, which the decoder trusts in `ADDRESS`, `PAYLOAD` and `END` because it was checked in
`LENGTH`, nor of anything else. Two things may follow that the decoder alone never does. A store
may leave `decoder->buffer` or `packet->payload`: this is undefined behaviour, the model records
`overrun` and stops. Or the CRC is computed over bytes that this frame has not stored (and,
for a length above 119, over bytes behind the buffer): nothing is known of them, so `EndOfUnknown`
lets the comparison go either way.

## The runs

| Run | Question | Bounds |
|---|---|---|
| `decoder` | does the decoder stay in its arrays, check what it delivers, and implement `FrameReceiver`, for every sequence of bytes and resets? | three-bit bytes, 2 address bytes, payload up to 3; the line carries START, END, ESC |
| `decoder_ready` | *violated*: does a decoder in IDLE accept the next START? | 1 address byte, payload up to 2; a plain byte on the line besides |
| `encoder` | is the output exact or an error, inside the buffer, free of flags? | every packet over two plain bytes and the flags, every buffer size from 0 to more than the worst case; as in the code, the least buffer accepted is one byte larger than the frame of a packet without payload |
| `crc` | is `fusain_crc16` the remainder of the division by its polynomial, and what does it detect? | every first byte and up to three bytes for the remainder; 1000 bit positions, those of the 125 bytes from LENGTH to the CRC of the longest frame |
| `link` | what arrives over a faulty line? | three messages, the real constants and CRC but 2 address bytes, any two faults anywhere |
| `net_buf` | are net_bufs returned and owned as promised, and are all stores in bounds, for every frame during which the wrapper's stack slot was left alone? | a pool of two net_bufs (symmetric); the slot may be written over at any moment, with a length of 0 or one above every legal length and with zeros elsewhere; four bytes on the line, with two valid frames (ESC is left to `decoder` and the theorems) |
| `net_buf_clobbered` | *violated*: and for every frame? | the same |
| `net_buf_null` | *violated*: does NULL mean that the frame goes on? | nothing reaches the slot (`StackPackets = {}`) |
| `messages` | does every message mean to the receiver what the call meant? | boundary values of every parameter, every enumerator and a number that is none; two message types are filled over an older message |
| `map_decoder` | what does a generated decoder make of the map of any peer, in a struct that was used before? | all 22 decoders; any of the flags set before; every choice of optional members, smallest and largest values, a map cut short or followed by more, and, with the largest values, one edit: a pair dropped, doubled, moved, unknown, of another type or width or just out of range |
| `session` | is what one application is told what the other meant? | three calls of four create functions (both header sizes, nil, bool, float with flags among its bytes, negative numbers, an optional member; one fails), the real constants, an address with eight different bytes, one fault |
| `messages_succeed` | *violated*: does a create function always produce a message? | |

Why these bounds are enough. The decoder's control depends on a byte only by
whether it is START, END or ESC, whether the length it gives is legal, zero or
not, and by the header test; on the scaled wire each of these cases occurs both
plain and escaped. Two address bytes and three payload bytes run every loop
zero, one and several times. The scaled CRC depends on every byte and its place,
so frames with right and wrong CRCs are both reached. The state space of the
decoder is finite and explored completely: there is no bound on the number of
bytes. For every value of the constants the theorems below take over. The link
uses the real constants because there the values of the bytes matter (which byte
corrupts into which); there the bound is the number of messages and of faults.
With the 16-bit CRC a false frame needs many coordinated faults, so
`OnlySentInOrder` is a statement about few faults and not about all of them; it
would be false without a bound. Messages must be distinct for that property to
say that none is delivered twice; those of `MCLink` are. TLC computes on 32 bits,
so `MCMessages`, `MCMapDecoder` and `MCSession` scale down the wide integer types; the
comment in the first says how. A map with one edit reaches every zcbor call of
every decoder with each of its outcomes, after every choice of the members before
it; two edits at different fields meet the same code twice. In `session` three
messages are the fewest with which "one fault costs at most two" says something,
and let a failed call stand before, between and after good ones.

Flipped bits may also change LENGTH, or make a byte a flag or an escape, and so change which
bytes the CRC covers; `DetectsTwoBits` and `DetectsOddBits` say nothing of those, and `link`
includes them, with two faulty bytes. Deadlock is checked but where the system may stop: `crc` at its bounds, `link` and `session`
end when everything has arrived, `map_decoder` with its one call, `net_buf` and `net_buf_clobbered` with an overrun. TLC's numbers are
too short for an address of eight bytes, so `Session` takes the bytes of an address as a constant.

What the link shows is worth stating: one fault costs at most *two* messages,
not one, because a stray ESC between frames swallows the next START (see the
findings). The mutant of `LossBound` shows that clearing `escape_next` for the
bytes dropped in IDLE is what keeps it from being worse.

### Fairness

Only `Link` has a liveness property. Its fairness is weak fairness of
`SendFrame` (a sender that has a message sends it) and `Receive` (a byte on the
line is eventually handed to the decoder: the loop of the README example does
nothing else). No fairness is assumed of the faults, of restarts or of the reset
after an error, which an application may or may not do. The decoder has no
timer: a receiver that lost its END waits for the next START, which is why
`EventuallyDelivered` allows the last frames to be lost.

## What is proved

Every safety property of the encoder, the decoder, the net_buf wrapper, message
creation and the generated decoders that a run checks is also a theorem, for every value of the
constants that satisfies their assumptions; and so are three of the four properties of the
CRC, for data of any length, and what the link promises of a line with any number of faults (`LinkTypeOK`, `LossBound`) and of a line without (`PerfectLine`).

| Module | Theorems | Argument |
|---|---|---|
| `Encoder_proofs` | `TypeCorrect`, `InBounds`, `FlagsOnlyAtEnds`, `EncodesFrame`, `FailsForSize`, `WorstCaseIsEnough` | the buffer holds the frame of the packet up to the byte whose turn it is |
| | `CrcInvariance`, `ComputesRemainder`, `FramesAreMultiples`, `OddErrorsNoticed`, `CrcFits` | the bits of the register are the remainder |
| `Decoder_proofs` | `Invariance`, `TypeCorrect`, `NoStoreOutOfBounds`, `NoStaleByteChecked`, `DeliversWhatWasChecked`, `Implements` | the counters are tied to the state and to LENGTH, the packet to the buffer; one action of the decoder is one of the abstract receiver |
| `Link_proofs` | `LinkInvariance`, `LinkTypeCorrect`, `DecoderOnTheLine`, `LossIsBounded`, `PerfectLine` | the frame on the line is on track, or a fault has paid for it |
| `NetBuf_proofs` | `PoolTypeCorrect`, `LeaksNothing`, `StoresInBoundsUnlessClobbered`, `IntactFramesReturned`, `NothingElseReturned`, `FramesReturned` | refinement image and observer judge alike |
| `Cbor_proofs` | `CodecRoundTrip` | a map is accepted exactly if it is laid out as the encoder would |
| `Messages_proofs` | `MessagesInvariance`, `HeaderRoundTrip`, `MessagesTypeCorrect`, `MeaningArrives`, `FailureHasReason` | the packet is fresh or what the last call makes of it |
| `MapDecoder_proofs` | `MapInvariance`, `MapTypeCorrect`, `SaysWhatTheMapSays`, `AnswersAsDecoded`, `AcceptsOnlyEncodings` | the struct says what the pairs taken say |

**The encoder.** None of its invariants is inductive but the type. `IInv` adds
`Progress`: at every stage the bytes written are exactly `FrameUpto(packet, Written)`,
the stuffed bytes of the packet up to the one whose turn it is, and an escape pair is
written whole or the call ends. `ExactResult` is its last instance, `NoFlagInside`
follows because a stuffed byte is never START or END, and `WorstCaseSuffices` because
a byte takes at most two places. `ZeroLoop` says that the loop counter is
zero where no loop runs. TLC checked `IInv` before it was proved.

**The CRC.** `IsRemainder` is inductive once `data` are bytes (`CrcInv`), but the step is not
obvious: the code shifts a 16-bit number eight times, the reference divides a polynomial
of degree 23. The proof reads a number as the set of its bits (`Bits`). `Halves`, `Lifted` and
`Digits` say what adding a multiple of a power of two does to the bits, so that `FlipBit` flips one
bit, `XorByte` is an exclusive or, and a carry out of the 16 bits is lost without a trace. Then
a turn of the inner loop is `TimesX` (`ShiftBitBits`), eight of them are the eight steps of the
division (`TurnReduces`, `DivisionIs`), and a byte is added to the upper half (`MixBits`).
`FrameIsMultiple` needs no polynomials: the first CRC byte cancels the upper half of the
register, eight turns carry the lower half up (`ShiftsUp`), the second byte cancels it. That
the polynomial has an even number of terms is what `OddErrorsNoticed` rests on (`TurnKeepsParity`). `CrcFits`
is the last assumption of the encoder about its CRC, shown of the one in the code.

**The decoder.** `IInv == TypeOK /\ Position /\ Agreement /\ HighByte`.
None of the four properties is inductive. That a store is in bounds in `PAYLOAD` depends on
the payload ending where LENGTH said, which depends on `buffer_index` having been
zero when LENGTH arrived and on `addr_byte_count` having moved in step with it
(`Position`). That the packet agrees with the buffer at the end needs the partial
agreement in `ADDRESS`, with zeros in the address bytes still to come, because
the code or-s each byte into its place (`Agreement`). That `packet.crc` remains a
16-bit value needs that its low byte is zero in `CRC2` (`HighByte`).

`Implements` is `Spec => Refinement`: the decoder implements `FrameReceiver` on every
wire and for every set of bytes the line may deliver. One lemma per action maps it to
a step of the receiver: `Start` to `Begin`, `Escape` to `Mark`, `Ignore` to `Drop`,
`RejectLength` to `TooLong`, the five storing actions to `Collect`, the four outcomes of
END to `Judge`. They rest on `IInv`: that a store appends to the collected frame
(`PrefixAppends`) needs `buffer_index` to be the number of known bytes; that the frame is
complete exactly in `END` (`RoomLeft`, `WholeFrame`) needs `Position`; that the delivered
packet is the one read off the frame needs `Agreement`. The two CRC bytes are no longer
bytes once they are in `packet.crc`; `TwoDigits` and `CrcBytes` take it apart again and
show that nothing is lost, which in `CRC2` needs `HighByte`.

**The link.** `LossBound` is about moments when the line is silent, and is not inductive.
`LinkInv` says what is true in between. A frame is `OnTrack` if what is still on the line
and what the receiver has collected are together the frame: it is `Waiting`, `Started`,
`Between` two bytes of its body or `Inside` an escape pair. `StayOnTrack` follows it byte by byte,
from the lemmas about the bytes of a frame (`FrameBytes`, from `FlattenAt`) and from what
the abstract receiver makes of each (`DecodeRefines` of `Decoder_proofs`), to its END, where
`HeardAll` says what the receiver's verdict is: OK and the packet, or that its header is bad. `done`
are the packets sent so far as the application should get them, and `Credit(done)` is
`Len(received) + 2 * faults - Len(done)`. On a silent line it is not negative, and positive
if an escape is pending (`Silent`); that is the second message that a fault may cost. While a
frame is on the line it is on track, or a fault has paid for it (`Busy`); a frame that is
not on track but paid for still ends in END, which leaves no escape pending (`EndSettles`).
Nothing in this depends on the CRC, because a false frame that passes it only adds to
`received`. `Faultless` is the same without faults, where every frame is on track.
`LineInv` speaks of the line alone, and `LineKeeps` says that no step of the line breaks it, whoever
sends what; `LinkInv` adds that `done` is `Messages`, and `PutStep` covers the sender.
`LinkTypeCorrect` rests on `DeliveredType`: in `END` the payload has been counted.
`DecoderOnTheLine` says that `LinkSpec` allows the decoder nothing that its own
specification does not, so that its theorems hold at the end of every line.
TLC checked `Costs` and `Faultless` before they were proved, with one fault in full.

**The net_buf wrapper.** Its stack slot may be written over between two calls, so the
decoder's invariant does not hold of it. The proof follows the code's own way out: START
clears what a frame is built from. Until then the slot is `Broken`, and a broken slot
can spoil only the frame in which it broke (`StartRepairs`, `BrokenStays`). While it is sane, `IInv`
holds, the slot maps to a state of the abstract receiver (`Implements`' mapping), and
because the receiver is deterministic (`SameJudgement`, `HearTogether`) it judges each
byte as the observer does, who hears the same line and is never clobbered. `NInv` joins
this with the pool: every net_buf is either free or held. A frame is also
spoilt where its length is not the one LENGTH gave: then a store may leave its array, and this
is the only way to it (`StoresInBoundsUnlessClobbered`, from `StoresStayInBounds` of the decoder). TLC checked
the invariant on the instance of `net_buf`. What is in the slot at START does not matter, because START zeroes the address and
LENGTH sets the length before either is read. `FramesReturned` has the hypothesis
`StackPackets = {}`, that nothing else reaches the slot, which the code does not see to (`net_buf_clobbered`). It speaks of
pools that have a net_buf: an exhausted one loses complete frames, too (`net_buf_null`).

**The generated decoders.** `Cbor_proofs` is about the operators. `Decoded` folds
`DecodeField` over the fields; `FoldExists` and `FoldIsDecoding` characterize the fold by
the states it goes through, and by induction along the fields it accepts a map exactly if
the map is *laid out*: its pairs match, in order, a choice of the fields that
includes every required one (`DecodedIsLaid`, `LaidIsDecoded`). `Items` writes such maps
and no others (`WrittenIsLaid`, `LaidIsWritten`); `AcceptsEncodings` joins the four
and says that a decoder accepts what the encoder for the same fields writes, no more and no less. That
an optional member with a bad value is not lost in silence is part of this: the pair
is left over, and because keys are distinct no later field takes it.
`CodecRoundTrip` adds that what is read back is the very struct that was written, for
every list of distinct keys and every struct whose members are in range.

**The messages.** `RoundTrip` speaks of what the receiver makes of the packet, and no
step preserves that by itself. `MessagesInv` says what the packet *is*: fresh, or, for the
last call, filled with its header and either nil or the map that `Items` makes of the
members asked for, with a length that is zero exactly if the encoder failed or ran out of room. It does not depend on
the packet before the call, which is the point: a packet used again keeps nothing of its
older message. `FillFills` and `FillNilFills` show it once of the frame that the functions
share, and then one lemma per function shows that the members it passes are those of its
type; `EncoderLists` and `DecoderLists` show that the encoder and the decoder of a payload
have the same fields, numbered from 0, which `Session` relies on and no single file of the generated
code shows. `MeaningArrives` follows with `CodecRoundTrip` and `HeaderRoundTrip` (both forms of
the header, for every type). `FailureHasReason` needs that there is always room: a message has at most
eight members, and `ItemsSize` bounds a pair by ten bytes.

`MapDecoder_proofs` proves the step-by-step decoders. `StructSaysMap` is not inductive;
`MInv == Struct /\ Members /\ Progress` says it of the pairs taken so far and the fields
passed so far (`SaysTaken`), in both directions, so that a flag of an earlier message
cannot survive the field it belongs to. `InStep` lets the call and the fold of `Decoded` go
through the fields together; `AnswersAsDecoded` and, with `AcceptsEncodings`, `AcceptsOnlyEncodings`
follow. The latter has the hypothesis `Written = Expected`: the two transcriptions of the
fields, one from `cbor_encode.c` and one from `cbor_decode.c`, are the same.
`MCMapDecoder` states it of the actual ones as `SameFields`, and TLC evaluates it.

**Assumptions.** `WireAssumption` (the buffer holds the header and the largest
payload; the largest payload length is a byte; the flags differ), `FlipAssumption`
(flipping the escape bit maps bytes to bytes and is its own inverse),
`BitOrAssumption` (bytes or-ed are a byte, and or with zero is the identity), `RxAssumption` (the line carries
bytes), `EncoderAssumption`, `NetBufAssumption` (a payload has room for a header; what is left in the stack slot is a packet with any values); `LineAssumption` (faults put bytes on the
line, and the line carries any byte) and `LengthAssumption` (no flag is a legal length) and `LinkAssumption` (the
messages are packets that `fusain_encode_packet` accepts, with a message header);
`CborAssumption` (the integer types are ordered by size); `MessagesAssumption` (an argument has the C type of its parameter),
`EnumAssumption` (one of an enumeration type is a nonnegative `int`, enumerator or not: `test_fuzz.c` passes any byte), `SizeAssumption` (the prefix 0x18
is above the immediate types, and a header of three bytes, the map overhead and eight pairs of ten
bytes fit in a payload, as they do in 114); and `MapAssumption` (no key occurs twice in a payload; a pair of a map
has the type that its major type says). All hold of the values of the code, and TLC
evaluates them on the scaled values and, in `link`, on the real ones. Of the CRC the theorems
about the decoder and the wrapper assume nothing, those about the encoder and the link that
it is a 16-bit value; otherwise they hold of any function of the bytes.

**Induction.** The library's induction theorems take an operator as a parameter, which
the provers cannot instantiate. Over the naturals there is a way round: `LeastNat` (a
nonempty set of naturals has a least element) and `SetInduction` in `DataLemmas` take a *set* of numbers, so
what a fold over a sequence computes can be proved by induction on the length of its
prefixes. `Cbor_proofs`, `Messages_proofs` and `Encoder_proofs` rest on it. A few operators are opaque to the provers (`SelectSeq`, `@@`, `:>`),
which is why `Cbor` says the same with `FlattenSeq` and `With`.

**Only model-checked.** `EventuallyDelivered`: liveness under fairness is outside what the
provers can do. `OnlySentInOrder` of a line *with* faults: that no false frame passes
is true of this CRC and few faults and not of every CRC, so no theorem could state it
without a bound on what the line does; `PerfectLine` states it until the first fault.
`DetectsTwoBits`: it is about the order of x modulo this polynomial, and false for frames longer
than that; TLC settles it completely for the longest frame of the format, and a proof would have to
repeat the same thousand steps. The session: `MeantIsTold` needs that
the bytes of a map, definite or indefinite, are read back as the same pairs, a
recursion over the bytes, and `ToldWhatWasMeant`
is about false frames like `OnlySentInOrder`. (`ReadyForStart`, `NullMeansIncomplete` and `CreateSucceeds` are no theorems: TLC shows them violated,
see below.)

## Findings

* `net_buf_clobbered` — `fusain_decode_byte_to_net_buf` decodes into an
  uninitialized local `fusain_packet_t`, but the decoder builds the packet over
  all the calls of a frame. A complete frame is returned intact only while
  nothing else writes to that stack slot. If something does, the frame is lost, a wrong
  packet may be returned, and a length above 114 makes the stores of `fusain.c:294-295` run
  past `payload[114]` and `buffer[128]`. The run `net_buf` and the theorems bound the damage: no net_buf ever leaks,
  and a frame during which the slot is left alone is returned as it was
  sent and stays in bounds, whatever was in the slot before its START, unless an earlier store has
  already left its array. The Decoding Example of the repository's README
  has the same shape: it declares `fusain_packet_t packet;` inside the loop, once
  per byte, and so relies on the compiler reusing the slot untouched.
* `net_buf_null` — NULL does not mean "packet incomplete": a complete packet is
  dropped with the same answer when the pool is exhausted.
* `decoder_ready` — an ESC heard in IDLE makes the decoder miss the next START.
* `messages_succeed` — "zcbor always succeeds" in the comments of the create
  functions is not so: device indexes above 127 and other out-of-range values
  yield a packet with length 0, which `fusain_encode_packet` accepts and every
  receiver rejects. `session` shows that this is all that happens: the frame of a
  failed call never says anything and costs no other message.

Four observations that no run needs: `FUSAIN_MIN_PACKET_SIZE` ("14 // START + LEN + ADDR(8) +
TYPE + CRC(2) + END") counts a type byte that a packet of length 0 does not have, so that
`fusain_encode_packet` refuses with -1 a buffer of 13 bytes that would hold its frame of 13 (the encoder
does give up needlessly in this one case, and `FailsOnlyIfTooBig` is about the errors of the
stuffing only); the 128 bytes of `FUSAIN_MAX_PACKET_SIZE` are
the size before stuffing (a frame full of flags takes 251, and the tests rightly
allocate twice the constant, which `WorstCaseSuffices` checks);
`FUSAIN_DECODE_BUFFER_OVERFLOW` is never returned, which `StoresInBounds`
justifies for a packet that nothing else writes to; and a generated decoder does not look behind the map: trailing bytes are
accepted, and only `payload_len_out` tells (`StructSaysMap` is therefore about the
bytes it counts).

## Not modelled

zcbor and Zephyr's `net_buf` are modelled as this code uses them, not by their own
source. The Zephyr build takes its CRC from Zephyr. What zcbor leaves in a member whose
value it cannot convert is an unknown value (`Leftover`). Calls are atomic,
since the library has no locks and no caller here shares a decoder. Null pointers
are an outcome of the encoder's entry test (`isNull`) and left out elsewhere,
where the code does not test for them. Tests, fuzzing and build files have no
behaviour of their own.

The reactions of an application (PING_REQUEST answered by PING_RESPONSE, the
timeout that TIMEOUT_CONFIG sets, subscriptions, discovery) are named by the
message types, but no code in the repository performs them: there is nothing to
model them from.

## Plan

Done, in this order: `Wire`, `Decoder` with `FrameReceiver`, `Encoder` with
`Frame`, `Crc16`, `Link`, `NetBuf`, `Cbor*` and `Messages`, `Decoder_proofs`;
then `MapDecoder` (maps of any peer), `Line` taken out of `Link`, and `Session`
with `CborBytes` (creation joined with framing and decoding), and
the refinement proof in `Decoder_proofs`; then `Encoder_proofs`, `NetBuf_proofs`, `Cbor_proofs`,
`MapDecoder_proofs` and `Link_proofs`, and last `Messages_proofs` and the CRC of `CrcDivision`. All the code of the library is
modelled; what is left is to prove more about it:

1. The session: `MeantIsTold`, from the lemmas of `Link_proofs` about a frame on track. The frame
   of a failed call needs only `EndSettles`; that of a good one, that its packet is `Sendable`
   (from `Messages_proofs`), and that `CborBytes` reads back what it writes, by induction over the
   pairs of the map.
2. The CRC: `DetectsTwoBits` for every frame below the order of x, by a proof that x has the order
   32767.
