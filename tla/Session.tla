------------------------------- MODULE Session -------------------------------
(***************************************************************************)
(* Two applications and everything of the library between them.  The       *)
(* sender follows the Encoding Example of the README: it calls one of the  *)
(* fusain_create_ functions (Messages) on a packet that it uses again and  *)
(* again, encodes the packet and sends the frame, whether or not the       *)
(* message could be created: the example looks at the result of            *)
(* fusain_encode_packet only.  The line and the decoder are those of Line. *)
(* The receiver takes type and offset from the message header of a packet  *)
(* and hands the rest to the generated decoder.                            *)
(***************************************************************************)
EXTENDS Line, CborBytes

CONSTANTS
  Addresses, Uint8s, Int32s, Uint32s, Bools,
  Modes, StateValues, TempCommands, PumpEvents, InvalidCmdErrors, Reused,
  AddressBytes,   \* the bytes of an address in memory, the lowest first
  Functions,  \* bound: the create functions that the sender calls
  MaxCalls    \* bound: its calls

\* (An address is a number of 64 bits: more than the numbers here have.)
ASSUME SessionAssumption ==
  /\ MaxCalls \in Nat
  /\ AddressBytes \in [Addresses -> [0 .. ADDR_BYTES - 1 -> 0 .. BYTE_MAX]]
  /\ \A a, b \in Addresses : AddressBytes[a] = AddressBytes[b] => a = b

VARIABLES
  outgoing,   \* the sender's fusain_packet_t
  asked,      \* its last call
  unsent,     \* outgoing has been filled and not been sent
  calls,      \* the calls of create functions so far
  meant       \* what those meant that could create their message

App == INSTANCE Messages WITH packet <- outgoing

sessionVars == <<lineVars, outgoing, asked, unsent, calls, meant>>

SessionInit == LineInit /\ App!Init /\ unsent = FALSE /\ calls = 0 /\ meant = <<>>

\* What a message says to an application.
Said(function, address, members) ==
  [function |-> function, address |-> address, members |-> members]

Create ==
  /\ ~unsent /\ line = <<>> /\ calls < MaxCalls
  /\ \E address \in Addresses : App!Create(address)
  /\ asked'.function \in Functions
  /\ meant' = IF outgoing'.length = 0 THEN meant
              ELSE Append(meant, Said(asked'.function, AddressBytes[asked'.address],
                                       App!Meaning'))
  /\ unsent' = TRUE /\ calls' = calls + 1
  /\ UNCHANGED lineVars

-----------------------------------------------------------------------------
\* The bytes of packet->payload.
Padded(bytes, size) ==
  [k \in 0 .. size - 1 |-> IF k < Len(bytes) THEN bytes[k + 1] ELSE 0]

PayloadBytes ==
  outgoing.header \o (IF outgoing.nil THEN NilBytes ELSE MapBytes(outgoing.map))

\* fusain_encode_packet, and uart_send if it did not fail.
Send ==
  /\ unsent
  /\ PutOnLine(EncodedFrame([length  |-> outgoing.length,
                             address |-> AddressBytes[outgoing.address],
                             payload |-> Padded(PayloadBytes, MAX_PAYLOAD_SIZE)]))
  /\ unsent' = FALSE
  /\ UNCHANGED <<outgoing, asked, calls, meant>>

SessionNext ==
  \/ Create \/ Send
  \/ LineStep /\ UNCHANGED <<outgoing, asked, unsent, calls, meant>>

SessionSpec == SessionInit /\ [][SessionNext]_sessionVars

-----------------------------------------------------------------------------
\* process_packet: what a packet says, if the generated decoder accepts it.
FunctionOf(msg_type) ==
  CHOOSE name \in DOMAIN App!FUSAIN_MSG : App!FUSAIN_MSG[name] = msg_type

\* Mutant of MessageBody: the header is taken for the short one.
MessageBodyShort(p) == SubSeq(Prefix(p.payload, p.length), 3, p.length)

MessageBody(p) ==
  SubSeq(Prefix(p.payload, p.length), HeaderLength(p.payload, p.length) + 1, p.length)

Understood(p) ==
  LET name == FunctionOf(p.msg_type)
      body == MessageBody(p)
      decoded == Decoded(App!DecoderOf[name], PairsRead(body))
      nothing == [k \in {} |-> 0]
  IN  CASE body = NilBytes -> Said(name, p.address, nothing)
        [] body # NilBytes /\ decoded.ok -> Said(name, p.address, decoded.struct)
        [] OTHER -> Said("rejected", p.address, nothing)

Told == [k \in DOMAIN received |-> Understood(received[k])]

(***************************************************************************)
(* Properties.                                                             *)
(***************************************************************************)

\* Type invariant: the length of a packet that can be sent is the number of its
\* bytes, as zcbor writes them.
SessionTypeOK ==
  /\ App!TypeOK
  /\ calls \in 0 .. MaxCalls /\ Len(meant) <= calls /\ unsent \in BOOLEAN
  /\ outgoing.length > 0 => outgoing.length = Len(PayloadBytes)

\* The receiving application is told, in order and at most once, messages that
\* the sending application meant: their type, their address, every member and
\* no other.  A call that failed says nothing, whatever message the packet held
\* before, although its frame is sent.
ToldWhatWasMeant ==
  \E origin \in [DOMAIN Told -> DOMAIN meant] :
    /\ \A k \in DOMAIN Told : Told[k] = meant[origin[k]]
    /\ \A j, k \in DOMAIN Told : j < k => origin[j] < origin[k]

\* When the line is empty, everything meant has been told but for two messages
\* for each fault: neither a failed call nor its frame, which the decoder
\* rejects, ever costs another message.
MeantIsTold ==
  line = <<>> /\ ~unsent => Len(Told) + 2 * faults >= Len(meant)
=============================================================================
