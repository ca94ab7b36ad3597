------------------------------- MODULE NetBuf --------------------------------
(***************************************************************************)
(* fusain_decode_byte_to_net_buf (src/fusain_net_buf.c): a decoder whose   *)
(* packet is a local variable of every call, and a pool of net_bufs that   *)
(* complete packets are copied into.  The pool is Zephyr's: of it, only    *)
(* net_buf_alloc without waiting and net_buf_unref are modelled.           *)
(*                                                                         *)
(* The local variable is not initialized.  It begins as whatever its stack *)
(* slot holds: the packet of the last call if nothing was written there    *)
(* since, and otherwise any member of StackPackets.  A length that came    *)
(* from there was never compared with FUSAIN_MAX_PAYLOAD_SIZE.  The decoder *)
(* may then store behind the end of packet->payload and decoder->buffer    *)
(* (overrun), which is undefined behaviour: the model ends with it.  Or it *)
(* reads bytes that this frame has not stored: any answer is possible.     *)
(*                                                                         *)
(* A FrameReceiver hears the same bytes; it is an observer that shows what *)
(* the caller should have got.                                             *)
(***************************************************************************)
EXTENDS Decoder

CONSTANTS
  Buffers,      \* the net_bufs of the pool
  Null,         \* the null pointer
  StackPackets  \* what other functions may leave in the slot of the packet
                \* between two calls: {} where none of them reaches it

\* Nothing is assumed of the values in the slot.  A header fits into a payload,
\* as it does into 114 bytes.
ASSUME NetBufAssumption ==
  /\ Null \notin Buffers
  /\ MAX_PAYLOAD_SIZE >= 3
  /\ StackPackets \subseteq
       [length : Byte, address : Address, msg_type : Byte,
        payload : [0 .. MAX_PAYLOAD_SIZE - 1 -> Byte],
        crc : 0 .. Radix * Radix - 1]

VARIABLES
  allocated,    \* the net_bufs out of the pool
  content,      \* the packet in each net_buf
  returned,     \* what the last call returned
  owned,        \* the net_bufs the application was given and has not unref'd
  hadBuffer,    \* the pool had a net_buf when the last call was made
  clobbered,    \* the packet was written over since the last START
  overrun,      \* a store left its array
  hunting, escaped, frame, verdict, delivered   \* the observer

poolVars ==
  <<allocated, content, returned, owned, hadBuffer, clobbered, overrun>>
observerVars == <<hunting, escaped, frame, verdict, delivered>>
netBufVars == <<vars, poolVars, observerVars>>

Observer == INSTANCE FrameReceiver

NoPacket == [none |-> TRUE]

NetBufInit ==
  /\ Init /\ Observer!Init
  /\ allocated = {} /\ owned = {} /\ returned = Null
  /\ hadBuffer = TRUE /\ clobbered = FALSE /\ overrun = FALSE
  /\ content = [b \in Buffers |-> NoPacket]

-----------------------------------------------------------------------------
\* Mutant of ReturnPacket: the packet is not copied into the net_buf.
ReturnEmpty ==
  \/ \E b \in Buffers \ allocated :
       /\ allocated' = allocated \cup {b}
       /\ returned' = b /\ owned' = owned \cup {b}
       /\ UNCHANGED content
  \/ allocated = Buffers /\ returned' = Null /\ UNCHANGED <<allocated, content, owned>>

\* Mutant of ReturnPacket: the packet is copied before the last byte is decoded.
ReturnEarlyCopy ==
  \/ \E b \in Buffers \ allocated :
       /\ allocated' = allocated \cup {b}
       /\ content' = [content EXCEPT ![b] = DeliveredPacket]
       /\ returned' = b /\ owned' = owned \cup {b}
  \/ allocated = Buffers /\ returned' = Null /\ UNCHANGED <<allocated, content, owned>>

\* net_buf_alloc(pool, K_NO_WAIT), net_buf_add_mem and the return.
ReturnPacket ==
  \/ \E b \in Buffers \ allocated :
       /\ allocated' = allocated \cup {b}
       /\ content' = [content EXCEPT ![b] = DeliveredPacket']
       /\ returned' = b /\ owned' = owned \cup {b}
  \/ /\ allocated = Buffers
     /\ returned' = Null
     /\ UNCHANGED <<allocated, content, owned>>

\* Mutant of ReturnNull: the net_buf was allocated first and is not given back.
ReturnNullLeak ==
  /\ returned' = Null /\ UNCHANGED <<content, owned>>
  /\ \/ \E b \in Buffers \ allocated : allocated' = allocated \cup {b}
     \/ allocated = Buffers /\ UNCHANGED allocated

ReturnNull ==
  /\ returned' = Null
  /\ UNCHANGED <<allocated, content, owned>>

\* The byte is one that the decoder stores without looking at the index.
Stores(byte) ==
  \/ Reaches("ADDRESS", byte) \/ Reaches("PAYLOAD", byte)
  \/ Reaches("LENGTH", byte) /\ Unescaped(byte) <= MAX_PAYLOAD_SIZE

\* The bytes that the CRC is computed over are bytes of this frame.
FrameHasBytes == packet.length + HeaderSize <= decoder.buffer_index

\* END, with a CRC over bytes that this frame has not stored: what an earlier
\* frame left in the buffer, and what lies behind the buffer.  It may be any.
EndOfUnknown(byte) ==
  /\ Ends(byte) /\ ~FrameHasBytes
  /\ \/ Finish("INVALID_CRC") /\ UNCHANGED packet
     \/ /\ ~HeaderOK(packet.payload, packet.length)
        /\ Finish("INVALID_START") /\ UNCHANGED packet
     \/ /\ HeaderOK(packet.payload, packet.length)
        /\ Finish("OK")
        /\ packet' = [packet EXCEPT !.msg_type =
                        HeaderType(packet.payload, packet.length)]

\* fusain_decode_byte, as long as it stays inside its arrays.
DecodeInBounds(byte) ==
  /\ Stores(byte) => StoresInBounds
  /\ \/ (Ends(byte) => FrameHasBytes) /\ DecodeByte(byte)
     \/ EndOfUnknown(byte)

\* The call of fusain_decode_byte, with what the properties remember of it.
Heard(byte) ==
  /\ ~overrun /\ DecodeInBounds(byte)
  /\ Observer!Hear(byte)
  /\ hadBuffer' = (allocated # Buffers)
  /\ clobbered' = (clobbered /\ ~StartsFrame(byte))
  /\ UNCHANGED overrun

\* Mutant of DecodeToNetBuf: an error ends a packet like OK.
DecodeAnyEnd(byte) ==
  /\ Heard(byte)
  /\ IF result' # "INCOMPLETE" THEN ReturnPacket ELSE ReturnNull

DecodeToNetBuf(byte) ==
  /\ Heard(byte)
  /\ IF result' = "OK" THEN ReturnPacket ELSE ReturnNull

\* The call stores behind the end of an array.
Overrun(byte) ==
  /\ ~overrun /\ Stores(byte) /\ ~StoresInBounds
  /\ overrun' = TRUE
  /\ UNCHANGED <<vars, observerVars,
                 allocated, content, returned, owned, hadBuffer, clobbered>>

\* The application is done with a packet.
Unref(b) ==
  /\ ~overrun /\ b \in owned
  /\ owned' = owned \ {b} /\ allocated' = allocated \ {b}
  /\ UNCHANGED <<vars, observerVars,
                 content, returned, hadBuffer, clobbered, overrun>>

ResetByOwner ==
  /\ ~overrun /\ ResetDecoder /\ Observer!Reset
  /\ UNCHANGED poolVars

\* Another function used the stack, and left something where the packet was.
Clobber ==
  /\ ~overrun /\ packet' \in StackPackets
  /\ clobbered' = (clobbered \/ decoder.state # "IDLE")
  /\ UNCHANGED <<decoder, result, observerVars,
                 allocated, content, returned, owned, hadBuffer, overrun>>

NetBufNext ==
  \/ \E byte \in RxBytes : DecodeToNetBuf(byte) \/ Overrun(byte)
  \/ \E b \in Buffers : Unref(b)
  \/ ResetByOwner \/ Clobber

NetBufSpec == NetBufInit /\ [][NetBufNext]_netBufVars

-----------------------------------------------------------------------------
(***************************************************************************)
(* Properties.                                                             *)
(***************************************************************************)

\* Type invariant: a net_buf the application holds has a packet, and the decoder
\* and the stack slot are structures, whatever was left in the slot.
NetBufTypeOK ==
  /\ TypeOK
  /\ allocated \subseteq Buffers /\ owned \subseteq Buffers
  /\ returned \in Buffers \cup {Null}
  /\ {hadBuffer, clobbered, overrun} \subseteq BOOLEAN
  /\ \A b \in owned : content[b] # NoPacket

\* No net_buf leaks: one that is out of the pool has been handed to the
\* application, which alone can unref it, whichever frames were broken, reset
\* or dropped in between.
NoLeak == allocated = owned

\* The last byte of a complete frame returns a net_buf that holds the packet of
\* that frame, if the pool has one left (test_net_buf.c:29-41 feed a frame byte
\* by byte and expect the packet; the header: "Pointer to net_buf containing
\* decoded packet on completion").
CompleteFrameReturned ==
  verdict = "OK" /\ hadBuffer =>
    returned \in Buffers /\ (returned \in owned => content[returned] = delivered)

\* It does so for every frame during which the stack slot was left alone.  What
\* other functions wrote there before its START, between two frames or in the
\* middle of an earlier one, is not part of its packet, as long as it did not
\* make a store leave its array.
IntactFrameReturned == ~clobbered => CompleteFrameReturned

\* In a frame during which the stack slot was left alone, no byte but the last
\* one of a complete frame returns a net_buf.
OnlyCompleteFrames == returned # Null /\ ~clobbered => verdict = "OK"

\* The decoder is never about to store outside decoder->buffer and
\* packet->payload, and never does so, unless the stack slot was written over
\* since the last START: nothing left in the slot before that START, no reset
\* and no broken frame makes it, although the code checks no index.
OverrunNeedsClobber == overrun \/ ~StoresInBounds => clobbered

\* "or NULL if packet incomplete" (fusain.h:538): a null pointer means that the
\* frame goes on.
NullMeansIncomplete == returned = Null => verdict # "OK"
=============================================================================
