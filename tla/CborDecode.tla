----------------------------- MODULE CborDecode -----------------------------
(***************************************************************************)
(* The fields that each generated function expects, in its order           *)
(* (src/generated/cbor_decode.c), with the types and the ranges it tests.  *)
(* Cbor says what is done with them.                                       *)
(***************************************************************************)
EXTENDS Cbor

motor_config_options ==
  <<Optional(1, "uint32"), Optional(2, "float"), Optional(3, "float"),
    Optional(4, "float"), Optional(5, "int32"), Optional(6, "int32"),
    Optional(7, "uint32")>>
motor_config_payload == <<Field(0, "int8")>> \o motor_config_options

pump_config_options == <<Optional(1, "uint32"), Optional(2, "uint32")>>
pump_config_payload == <<Field(0, "int8")>> \o pump_config_options

temp_config_options ==
  <<Optional(1, "float"), Optional(2, "float"), Optional(3, "float")>>
temp_config_payload == <<Field(0, "int8")>> \o temp_config_options

glow_config_options == <<Optional(1, "uint32")>>
glow_config_payload == <<Field(0, "int8")>> \o glow_config_options
data_subscription_payload == <<Field(0, "uint64")>>
telemetry_config_payload == <<Field(0, "bool"), Field(1, "uint32")>>
timeout_config_payload == <<Field(0, "bool"), Field(1, "uint32")>>
state_command_options == <<Optional(1, "int32")>>
state_command_payload == <<Field(0, "uint8")>> \o state_command_options
motor_command_payload == <<Field(0, "int8"), Field(1, "int32")>>
pump_command_payload == <<Field(0, "int8"), Field(1, "int32")>>
glow_command_payload == <<Field(0, "int8"), Field(1, "int32")>>

temp_command_options == <<Optional(2, "int8"), Optional(3, "float")>>
temp_command_payload ==
  <<Field(0, "int8"), Field(1, "uint8")>> \o temp_command_options

send_telemetry_options == <<Optional(1, "uint32")>>
send_telemetry_payload == <<Field(0, "uint8")>> \o send_telemetry_options

state_data_payload ==
  <<Field(0, "bool"), Field(1, "uint8"), Field(2, "uint8"),
    Field(3, "uint32")>>

motor_data_options ==
  <<Optional(4, "int32"), Optional(5, "int32"), Optional(6, "uint32"),
    Optional(7, "uint32")>>
motor_data_payload ==
  <<Field(0, "int8"), Field(1, "uint32"), Field(2, "int32"),
    Field(3, "int32")>>
    \o motor_data_options

pump_data_options == <<Optional(3, "int32")>>
pump_data_payload ==
  <<Field(0, "int8"), Field(1, "uint32"), Field(2, "uint8")>>
    \o pump_data_options

glow_data_payload ==
  <<Field(0, "int8"), Field(1, "uint32"), Field(2, "bool")>>

temp_data_options ==
  <<Optional(3, "bool"), Optional(4, "int32"), Optional(5, "float")>>
temp_data_payload ==
  <<Field(0, "int8"), Field(1, "uint32"), Field(2, "float")>>
    \o temp_data_options

device_announce_payload ==
  <<Field(0, "uint8"), Field(1, "uint8"), Field(2, "uint8"),
    Field(3, "uint8")>>

ping_response_payload == <<Field(0, "uint32")>>

error_invalid_cmd_options == <<Optional(1, "uint32"), Optional(2, "uint8")>>
error_invalid_cmd_payload ==
  <<Field(0, "int32")>> \o error_invalid_cmd_options

error_state_reject_options == <<Optional(1, "uint8")>>
error_state_reject_payload ==
  <<Field(0, "int32")>> \o error_state_reject_options

\* The functions by the payload they read.
Payloads ==
  [motor_config |-> motor_config_payload,
   pump_config |-> pump_config_payload,
   temp_config |-> temp_config_payload,
   glow_config |-> glow_config_payload,
   data_subscription |-> data_subscription_payload,
   telemetry_config |-> telemetry_config_payload,
   timeout_config |-> timeout_config_payload,
   state_command |-> state_command_payload,
   motor_command |-> motor_command_payload,
   pump_command |-> pump_command_payload,
   glow_command |-> glow_command_payload,
   temp_command |-> temp_command_payload,
   send_telemetry |-> send_telemetry_payload,
   state_data |-> state_data_payload,
   motor_data |-> motor_data_payload,
   pump_data |-> pump_data_payload,
   glow_data |-> glow_data_payload,
   temp_data |-> temp_data_payload,
   device_announce |-> device_announce_payload,
   ping_response |-> ping_response_payload,
   error_invalid_cmd |-> error_invalid_cmd_payload,
   error_state_reject |-> error_state_reject_payload]
=============================================================================
