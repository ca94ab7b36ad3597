------------------------------ MODULE Messages ------------------------------
(***************************************************************************)
(* The fusain_create_ functions (src/fusain.c): an application fills a     *)
(* packet, message after message, in the same fusain_packet_t or in a      *)
(* fresh one.  One action per function; its parameters are those of the C  *)
(* function, from small sets of values at the boundaries of their C types. *)
(*                                                                         *)
(* The payload of a packet is the bytes of the message header and the      *)
(* pairs of the CBOR map behind it (Cbor), or nil.                         *)
(***************************************************************************)
EXTENDS Header, Cbor

CONSTANTS
  MAX_PAYLOAD_SIZE,    \* FUSAIN_MAX_PAYLOAD_SIZE: 114
  Addresses,           \* uint64_t
  Uint8s, Int32s, Uint32s, Bools,
  Modes, StateValues, TempCommands, PumpEvents, InvalidCmdErrors,  \* enums
  Reused               \* bound: a packet of these types is filled once more

Enc == INSTANCE CborEncode
Dec == INSTANCE CborDecode

ASSUME MessagesAssumption ==
  /\ MAX_PAYLOAD_SIZE \in Nat /\ Addresses \subseteq 0 .. UINT64_MAX
  /\ Uint8s \subseteq 0 .. 255 /\ Uint32s \subseteq 0 .. UINT32_MAX
  /\ Int32s \subseteq (-INT32_MAX - 1) .. INT32_MAX
  /\ Bools \subseteq BOOLEAN

\* A type that needs the prefix cannot be taken for one that needs none; and
\* eight pairs of at most ten bytes, what surrounds them and the header fit.
ASSUME SizeAssumption ==
  /\ {CBOR_UINT8_PREFIX, IMMEDIATE_MAX} \subseteq Nat
  /\ CBOR_UINT8_PREFIX > IMMEDIATE_MAX
  /\ MAX_PAYLOAD_SIZE >= 3 + MapOverhead + 8 * 10

\* The enumerations of include/fusain/fusain.h.
fusain_mode_t == {0, 1, 2, 255}
fusain_state_t == 0 .. 8
fusain_temp_cmd_type_t == 0 .. 4
fusain_pump_event_t == 0 .. 5
fusain_invalid_cmd_error_t == {1, 2}

\* C does not hold an argument to the enumerators of its type (test_fuzz.c:90
\* passes any byte); what it holds is converted to uint32_t or int32_t.
ASSUME EnumAssumption ==
  Modes \cup StateValues \cup TempCommands \cup PumpEvents \cup InvalidCmdErrors
    \subseteq 0 .. INT32_MAX

VARIABLES
  packet,    \* fusain_packet_t
  asked      \* the last call: its function and its arguments

vars == <<packet, asked>>

FUSAIN_TEMP_CMD_WATCH_MOTOR == 0
FUSAIN_TEMP_CMD_SET_TARGET_TEMP == 4

FUSAIN_MSG ==
  [motor_config |-> 16, pump_config |-> 17, temp_config |-> 18,
   glow_config |-> 19, data_subscription |-> 20, data_unsubscribe |-> 21,
   telemetry_config |-> 22, timeout_config |-> 23, discovery_request |-> 31,
   state_command |-> 32, motor_command |-> 33, pump_command |-> 34,
   glow_command |-> 35, temp_command |-> 36, send_telemetry |-> 37,
   ping_request |-> 47, state_data |-> 48, motor_data |-> 49,
   pump_data |-> 50, glow_data |-> 51, temp_data |-> 52,
   device_announce |-> 53, ping_response |-> 63, error_invalid_cmd |-> 224,
   error_state_reject |-> 225]

\* A packet on the stack, not yet filled.
FreshPacket == [address |-> 0, msg_type |-> 0, length |-> 0,
                header |-> <<>>, nil |-> FALSE, map |-> <<>>]
NoCall == [function |-> "none", arguments |-> <<>>]

Init == packet = FreshPacket /\ asked = NoCall

-----------------------------------------------------------------------------
\* The packet may be filled: it is fresh, or used again.
Fillable ==
  \/ asked = NoCall
  \/ \E name \in Reused : packet.msg_type = FUSAIN_MSG[name]

Called(name, address, arguments) ==
  asked' = [function |-> name, address |-> address, arguments |-> arguments]

\* Mutant of Fill: length is left alone if the map could not be encoded.
FillKeepsLength(name, address, fields, struct) ==
  LET header == EncodedHeader(FUSAIN_MSG[name])
      encoded == Encodes(fields, struct, MAX_PAYLOAD_SIZE - Len(header))
      map == Items(fields, struct)
  IN  packet' =
        [address |-> address, msg_type |-> FUSAIN_MSG[name], header |-> header,
         nil |-> FALSE, map |-> IF encoded THEN map ELSE <<>>,
         length |-> IF encoded THEN Len(header) + MapSize(map) ELSE packet.length]

\* Mutant of Fill: length does not count the header.
FillWithoutOffset(name, address, fields, struct) ==
  LET header == EncodedHeader(FUSAIN_MSG[name])
      encoded == Encodes(fields, struct, MAX_PAYLOAD_SIZE - Len(header))
      map == Items(fields, struct)
  IN  packet' =
        [address |-> address, msg_type |-> FUSAIN_MSG[name], header |-> header,
         nil |-> FALSE, map |-> IF encoded THEN map ELSE <<>>,
         length |-> IF encoded THEN MapSize(map) ELSE 0]

\* The frame common to all these functions but two: address and type, the
\* header, the map; length is zero if the map could not be encoded.
Fill(name, address, fields, struct) ==
  LET header == EncodedHeader(FUSAIN_MSG[name])
      encoded == Encodes(fields, struct, MAX_PAYLOAD_SIZE - Len(header))
      map == Items(fields, struct)
  IN  packet' =
        [address |-> address, msg_type |-> FUSAIN_MSG[name], header |-> header,
         nil |-> FALSE, map |-> IF encoded THEN map ELSE <<>>,
         length |-> IF encoded THEN Len(header) + MapSize(map) ELSE 0]

\* Mutant of FillNil: length does not count the byte behind the header.
FillNilUncounted(name, address) ==
  LET header == EncodedHeader(FUSAIN_MSG[name])
  IN  packet' =
        [address |-> address, msg_type |-> FUSAIN_MSG[name], header |-> header,
         nil |-> TRUE, map |-> <<>>, length |-> Len(header)]

\* PING_REQUEST and DISCOVERY_REQUEST: one byte, nil, instead of a map.
FillNil(name, address) ==
  LET header == EncodedHeader(FUSAIN_MSG[name])
  IN  packet' =
        [address |-> address, msg_type |-> FUSAIN_MSG[name], header |-> header,
         nil |-> TRUE, map |-> <<>>, length |-> Len(header) + 1]

\* The struct of a payload whose first members have these values: their keys
\* are 0, 1, 2 and so on, in the order of the struct.
Members(values) == [k \in 0 .. Len(values) - 1 |-> values[k + 1]]

\* A member that is marked present under a condition.
When(struct, condition, key, value) ==
  IF condition THEN With(struct, key, value) ELSE struct

\* The configuration commands take a struct, whose members are parameters here.
create_motor_config(address) ==
  \E motor \in Uint8s, pwm_period, min_pwm_duty \in Uint32s,
     kp, ki, kd \in Floats, max_rpm, min_rpm \in Int32s :
    /\ Called("motor_config", address,
              <<motor, pwm_period, kp, ki, kd, max_rpm, min_rpm, min_pwm_duty>>)
    /\ Fill("motor_config", address, Enc!motor_config_payload,
            Members(<<motor, pwm_period, kp, ki, kd, max_rpm, min_rpm, min_pwm_duty>>))

create_pump_config(address) ==
  \E pump \in Uint8s, pulse_ms, recovery_ms \in Uint32s :
    /\ Called("pump_config", address, <<pump, pulse_ms, recovery_ms>>)
    /\ Fill("pump_config", address, Enc!pump_config_payload,
            Members(<<pump, pulse_ms, recovery_ms>>))

create_temp_config(address) ==
  \E thermometer \in Uint8s, kp, ki, kd \in Floats :
    /\ Called("temp_config", address, <<thermometer, kp, ki, kd>>)
    /\ Fill("temp_config", address, Enc!temp_config_payload,
            Members(<<thermometer, kp, ki, kd>>))

create_glow_config(address) ==
  \E glow \in Uint8s, max_duration_ms \in Uint32s :
    /\ Called("glow_config", address, <<glow, max_duration_ms>>)
    /\ Fill("glow_config", address, Enc!glow_config_payload,
            Members(<<glow, max_duration_ms>>))

create_data_subscription(address) ==
  \E appliance_address \in Addresses :
    /\ Called("data_subscription", address, <<appliance_address>>)
    /\ Fill("data_subscription", address, Enc!data_subscription_payload,
            Members(<<appliance_address>>))

create_data_unsubscribe(address) ==
  \E appliance_address \in Addresses :
    /\ Called("data_unsubscribe", address, <<appliance_address>>)
    /\ Fill("data_unsubscribe", address, Enc!data_subscription_payload,
            Members(<<appliance_address>>))

create_telemetry_config(address) ==
  \E enabled \in Bools, interval_ms \in Uint32s :
    /\ Called("telemetry_config", address, <<enabled, interval_ms>>)
    /\ Fill("telemetry_config", address, Enc!telemetry_config_payload,
            Members(<<enabled, interval_ms>>))

create_timeout_config(address) ==
  \E enabled \in Bools, timeout_ms \in Uint32s :
    /\ Called("timeout_config", address, <<enabled, timeout_ms>>)
    /\ Fill("timeout_config", address, Enc!timeout_config_payload,
            Members(<<enabled, timeout_ms>>))

create_discovery_request(address) ==
  Called("discovery_request", address, <<>>) /\ FillNil("discovery_request", address)

create_state_command(address) ==
  \E mode \in Modes, argument \in Int32s :
    /\ Called("state_command", address, <<mode, argument>>)
    /\ Fill("state_command", address, Enc!state_command_payload,
            Members(<<mode, argument>>))

create_motor_command(address) ==
  \E motor \in Uint8s, rpm \in Int32s :
    /\ Called("motor_command", address, <<motor, rpm>>)
    /\ Fill("motor_command", address, Enc!motor_command_payload,
            Members(<<motor, rpm>>))

create_pump_command(address) ==
  \E pump \in Uint8s, rate_ms \in Int32s :
    /\ Called("pump_command", address, <<pump, rate_ms>>)
    /\ Fill("pump_command", address, Enc!pump_command_payload,
            Members(<<pump, rate_ms>>))

create_glow_command(address) ==
  \E glow \in Uint8s, duration \in Int32s :
    /\ Called("glow_command", address, <<glow, duration>>)
    /\ Fill("glow_command", address, Enc!glow_command_payload,
            Members(<<glow, duration>>))

create_temp_command(address) ==
  \E thermometer, motor_index \in Uint8s, type \in TempCommands,
     target_temp \in Floats :
    /\ Called("temp_command", address, <<thermometer, type, motor_index, target_temp>>)
    /\ Fill("temp_command", address, Enc!temp_command_payload,
            When(When(Members(<<thermometer, type>>),
                      type = FUSAIN_TEMP_CMD_WATCH_MOTOR, 2, motor_index),
                 type = FUSAIN_TEMP_CMD_SET_TARGET_TEMP, 3, target_temp))

create_send_telemetry(address) ==
  \E telemetry_type, index \in Uint32s :
    /\ Called("send_telemetry", address, <<telemetry_type, index>>)
    /\ Fill("send_telemetry", address, Enc!send_telemetry_payload,
            Members(<<telemetry_type, index>>))

create_ping_request(address) ==
  Called("ping_request", address, <<>>) /\ FillNil("ping_request", address)

create_state_data(address) ==
  \E error, timestamp \in Uint32s, code \in Uint8s, state \in StateValues :
    /\ Called("state_data", address, <<error, code, state, timestamp>>)
    /\ Fill("state_data", address, Enc!state_data_payload,
            Members(<<error # 0, code, state, timestamp>>))

create_motor_data(address) ==
  \E motor \in Uint8s, timestamp \in Uint32s, rpm, target \in Int32s :
    /\ Called("motor_data", address, <<motor, timestamp, rpm, target>>)
    /\ Fill("motor_data", address, Enc!motor_data_payload,
            Members(<<motor, timestamp, rpm, target>>))

create_pump_data(address) ==
  \E pump \in Uint8s, timestamp \in Uint32s, type \in PumpEvents,
     rate \in Int32s :
    /\ Called("pump_data", address, <<pump, timestamp, type, rate>>)
    /\ Fill("pump_data", address, Enc!pump_data_payload,
            Members(<<pump, timestamp, type, rate>>))

create_glow_data(address) ==
  \E glow \in Uint8s, timestamp \in Uint32s, lit \in Bools :
    /\ Called("glow_data", address, <<glow, timestamp, lit>>)
    /\ Fill("glow_data", address, Enc!glow_data_payload,
            Members(<<glow, timestamp, lit>>))

create_temp_data(address) ==
  \E thermometer \in Uint8s, timestamp \in Uint32s, reading \in Floats :
    /\ Called("temp_data", address, <<thermometer, timestamp, reading>>)
    /\ Fill("temp_data", address, Enc!temp_data_payload,
            Members(<<thermometer, timestamp, reading>>))

create_device_announce(address) ==
  \E motor_count, thermometer_count, pump_count, glow_count \in Uint8s :
    /\ Called("device_announce", address, <<motor_count, thermometer_count, pump_count, glow_count>>)
    /\ Fill("device_announce", address, Enc!device_announce_payload,
            Members(<<motor_count, thermometer_count, pump_count, glow_count>>))

create_ping_response(address) ==
  \E uptime_ms \in Uint32s :
    /\ Called("ping_response", address, <<uptime_ms>>)
    /\ Fill("ping_response", address, Enc!ping_response_payload,
            Members(<<uptime_ms>>))

\* Negative numbers say that an optional member is missing.
create_error_invalid_cmd(address) ==
  \E error_code \in InvalidCmdErrors, rejected_field, constraint \in Int32s :
    /\ Called("error_invalid_cmd", address, <<error_code, rejected_field, constraint>>)
    /\ Fill("error_invalid_cmd", address, Enc!error_invalid_cmd_payload,
            When(When(Members(<<error_code>>), rejected_field >= 0, 1, rejected_field),
                 constraint >= 0, 2, constraint))

create_error_state_reject(address) ==
  \E state \in StateValues, rejection_reason \in Int32s :
    /\ Called("error_state_reject", address, <<state, rejection_reason>>)
    /\ Fill("error_state_reject", address, Enc!error_state_reject_payload,
            When(Members(<<state>>), rejection_reason >= 0, 1, rejection_reason))

Create(address) ==
  \/ create_motor_config(address) \/ create_pump_config(address)
  \/ create_temp_config(address) \/ create_glow_config(address)
  \/ create_data_subscription(address) \/ create_data_unsubscribe(address)
  \/ create_telemetry_config(address) \/ create_timeout_config(address)
  \/ create_discovery_request(address) \/ create_state_command(address)
  \/ create_motor_command(address) \/ create_pump_command(address)
  \/ create_glow_command(address) \/ create_temp_command(address)
  \/ create_send_telemetry(address) \/ create_ping_request(address)
  \/ create_state_data(address) \/ create_motor_data(address)
  \/ create_pump_data(address) \/ create_glow_data(address)
  \/ create_temp_data(address) \/ create_device_announce(address)
  \/ create_ping_response(address) \/ create_error_invalid_cmd(address)
  \/ create_error_state_reject(address)

\* The application starts over with another packet.
TakeFreshPacket == asked # NoCall /\ packet' = FreshPacket /\ asked' = NoCall

Next ==
  \/ Fillable /\ \E address \in Addresses : Create(address)
  \/ TakeFreshPacket

Spec == Init /\ [][Next]_vars

-----------------------------------------------------------------------------
(***************************************************************************)
(* The receiving application: it takes the message type from the header,   *)
(* and calls the decoder of that type on the rest of the payload.          *)
(***************************************************************************)
DecoderOf ==
  With(Dec!Payloads, "data_unsubscribe", Dec!data_subscription_payload)

HeaderBytes == [k \in 0 .. Len(packet.header) - 1 |-> packet.header[k + 1]]
TypeReceived == HeaderType(HeaderBytes, packet.length)
MapReceived(name) == Decoded(DecoderOf[name], packet.map)

(***************************************************************************)
(* Properties.                                                             *)
(***************************************************************************)

\* Type invariant of the packet and of the call remembered: length counts the
\* bytes of the header and of what follows it, or is zero.
TypeOK ==
  /\ packet.address \in Addresses \cup {0}
  /\ packet.length \in 0 .. MAX_PAYLOAD_SIZE
  /\ packet.length > 0 =>
       packet.length = Len(packet.header)
                         + (IF packet.nil THEN 1 ELSE MapSize(packet.map))
  /\ packet.msg_type \in {0} \cup {FUSAIN_MSG[name] : name \in DOMAIN FUSAIN_MSG}
  /\ asked.function \in {"none"} \cup DOMAIN FUSAIN_MSG

\* The members a message is meant to have, by key: the arguments in their
\* order, but for the four functions that turn arguments into something else.
Meant(function, a) ==
  CASE function = "state_data" ->
         [k \in 0 .. 3 |-> IF k = 0 THEN a[1] # 0 ELSE a[k + 1]]
    [] function = "temp_command" ->
         [k \in {0, 1} \cup (CASE a[2] = 0 -> {2} [] a[2] = 4 -> {3}
                              [] OTHER -> {}) |-> a[k + 1]]
    [] function \in {"error_invalid_cmd", "error_state_reject"} ->
         [k \in {n \in 0 .. Len(a) - 1 : n = 0 \/ a[n + 1] >= 0} |-> a[k + 1]]
    [] OTHER -> [k \in 0 .. Len(a) - 1 |-> a[k + 1]]

Meaning == Meant(asked.function, asked.arguments)

\* A packet that can be sent (its length is not zero) says to the receiver
\* exactly what the last call was asked to say: the type in the header and the
\* type in the packet agree, the generated decoder accepts what the generated
\* encoder wrote, every argument arrives at its key, an optional member is
\* there when it was given, and nothing of an earlier message in the same
\* packet is left.
RoundTrip ==
  asked # NoCall /\ packet.length > 0 =>
    /\ packet.address = asked.address
    /\ HeaderOK(HeaderBytes, packet.length)
    /\ TypeReceived = packet.msg_type
    /\ TypeReceived = FUSAIN_MSG[asked.function]
    /\ HeaderLength(HeaderBytes, packet.length) = Len(packet.header)
    /\ IF asked.function \in {"ping_request", "discovery_request"}
         THEN packet.nil
         ELSE LET received == MapReceived(asked.function)
              IN  ~packet.nil /\ received.ok /\ received.struct = Meaning

\* A function gives up (length zero) only for an argument outside the range of
\* its member, the device indexes above 127 among them; never because a
\* message, with the largest value of every member, does not fit behind its
\* header in FUSAIN_MAX_PAYLOAD_SIZE bytes.
FailsOnlyOutOfRange ==
  asked # NoCall /\ packet.length = 0 =>
    \E n \in DOMAIN DecoderOf[asked.function] :
      LET f == DecoderOf[asked.function][n]
      IN  f.key \in DOMAIN Meaning /\ ~InRange(f.kind, Meaning[f.key])

\* "zcbor always succeeds with 114-byte buffer" (src/fusain.c:379, and the
\* other functions): a call fills the packet.
CreateSucceeds == asked # NoCall => packet.length > 0
=============================================================================
