---------------------------- MODULE Messages_proofs ----------------------------
(***************************************************************************)
(* Proofs about the fusain_create_ functions, for every packet, argument   *)
(* and sequence of calls.                                                  *)
(*                                                                         *)
(* The inductive invariant MessagesInv says what a filled packet is, given *)
(* the last call: it is shown of Fill and FillNil (FillFills, FillNilFills)*)
(* once, and then of each function by showing that the list of members it  *)
(* passes to them is what the receiver expects for its type (EncoderLists, *)
(* DecoderLists).  The properties follow from it with the round trip of    *)
(* the codec (CodecRoundTrip) and of the message header (HeaderRoundTrip), *)
(* and from the bound on the bytes of a map (ItemsSize).                   *)
(***************************************************************************)
EXTENDS Messages, Cbor_proofs

-----------------------------------------------------------------------------
(***************************************************************************)
(* The lists of fields: the keys are 0, 1, 2 and so on, and what may be    *)
(* missing comes last.                                                     *)
(***************************************************************************)
FieldRecord == [key : Nat, kind : Kinds, optional : BOOLEAN]

\* Fields with consecutive keys, all of them optional or none.
Run(fields, first, optional) ==
  /\ fields \in Seq(FieldRecord)
  /\ \A n \in 1 .. Len(fields) :
       fields[n].key = first + n - 1 /\ fields[n].optional = optional

Numbered(fields, length, required) ==
  /\ fields \in Seq(FieldRecord) /\ Len(fields) = length
  /\ \A n \in 1 .. length :
       fields[n].key = n - 1 /\ (fields[n].optional <=> n > required)

LEMMA RunIsNumbered ==
  ASSUME NEW a, Run(a, 0, FALSE)
  PROVE  Numbered(a, Len(a), Len(a))
<1>1. a \in Seq(FieldRecord) /\ Len(a) \in Nat
  BY DEF Run
<1> QED BY <1>1 DEF Run, Numbered

LEMMA RunsAreNumbered ==
  ASSUME NEW a, Run(a, 0, FALSE), NEW b, Run(b, Len(a), TRUE),
         NEW length, length = Len(a) + Len(b), NEW required, required = Len(a)
  PROVE  Numbered(a \o b, length, required)
<1> DEFINE c == a \o b
<1>1. /\ a \in Seq(FieldRecord) /\ Len(a) \in Nat
      /\ b \in Seq(FieldRecord) /\ Len(b) \in Nat
  BY DEF Run
<1>2. /\ c \in Seq(FieldRecord) /\ Len(c) = Len(a) + Len(b)
      /\ \A n \in 1 .. Len(a) : c[n] = a[n]
      /\ \A n \in 1 .. Len(b) : c[Len(a) + n] = b[n]
  BY <1>1, ConcatProperties
<1> HIDE DEF c
<1>3. ASSUME NEW n \in 1 .. Len(a) + Len(b)
      PROVE  c[n].key = n - 1 /\ (c[n].optional <=> n > Len(a))
  <2>1. CASE n \in 1 .. Len(a)
    BY <1>1, <1>2, <2>1 DEF Run
  <2>2. CASE n \notin 1 .. Len(a)
    <3>1. n - Len(a) \in 1 .. Len(b) /\ n = Len(a) + (n - Len(a)) /\ n > Len(a)
      BY <1>1, <2>2
    <3>2. c[n] = b[n - Len(a)]
      BY <1>2, <3>1
    <3>3. b[n - Len(a)].key = Len(a) + (n - Len(a)) - 1 /\ b[n - Len(a)].optional = TRUE
      BY <3>1 DEF Run
    <3> QED BY <1>1, <3>1, <3>2, <3>3
  <2> QED BY <2>1, <2>2
<1>4. Numbered(c, Len(a) + Len(b), Len(a))
  BY <1>2, <1>3 DEF Numbered
<1> QED BY <1>4 DEF c

LEMMA NumberedIsFieldList ==
  ASSUME NEW fields, NEW length \in Nat, NEW required, Numbered(fields, length, required)
  PROVE  IsFieldList(fields) /\ DOMAIN fields = 1 .. length
<1>1. fields \in Seq(FieldRecord) /\ Len(fields) = length
  BY DEF Numbered
<1>2. DOMAIN fields = 1 .. length
  BY <1>1
<1>3. ASSUME NEW n \in 1 .. length, NEW m \in 1 .. length, fields[n].key = fields[m].key
      PROVE  n = m
  BY <1>3 DEF Numbered
<1> QED BY <1>1, <1>2, <1>3 DEF IsFieldList, FieldRecord

\* The fields that the decoders expect.
LEMMA DecoderLists ==
  /\ Numbered(Dec!motor_config_payload, 8, 1)
  /\ Numbered(Dec!pump_config_payload, 3, 1)
  /\ Numbered(Dec!temp_config_payload, 4, 1)
  /\ Numbered(Dec!glow_config_payload, 2, 1)
  /\ Numbered(Dec!data_subscription_payload, 1, 1)
  /\ Numbered(Dec!telemetry_config_payload, 2, 2)
  /\ Numbered(Dec!timeout_config_payload, 2, 2)
  /\ Numbered(Dec!state_command_payload, 2, 1)
  /\ Numbered(Dec!motor_command_payload, 2, 2)
  /\ Numbered(Dec!pump_command_payload, 2, 2)
  /\ Numbered(Dec!glow_command_payload, 2, 2)
  /\ Numbered(Dec!temp_command_payload, 4, 2)
  /\ Numbered(Dec!send_telemetry_payload, 2, 1)
  /\ Numbered(Dec!state_data_payload, 4, 4)
  /\ Numbered(Dec!motor_data_payload, 8, 4)
  /\ Numbered(Dec!pump_data_payload, 4, 3)
  /\ Numbered(Dec!glow_data_payload, 3, 3)
  /\ Numbered(Dec!temp_data_payload, 6, 3)
  /\ Numbered(Dec!device_announce_payload, 4, 4)
  /\ Numbered(Dec!ping_response_payload, 1, 1)
  /\ Numbered(Dec!error_invalid_cmd_payload, 3, 1)
  /\ Numbered(Dec!error_state_reject_payload, 2, 1)
<1>1. Numbered(Dec!motor_config_payload, 8, 1)
  <2> DEFINE first == <<Dec!Field(0, "int8")>>
  <2>1. Run(first, 0, FALSE) /\ Len(first) = 1
    BY DEF Run, FieldRecord, Kinds, Dec!Field
  <2>2. Run(Dec!motor_config_options, 1, TRUE) /\ Len(Dec!motor_config_options) = 7
    BY DEF Run, FieldRecord, Kinds, Dec!Optional, Dec!motor_config_options
  <2>3. Dec!motor_config_payload = first \o Dec!motor_config_options
    BY DEF Dec!motor_config_payload
  <2> HIDE DEF first
  <2>4. Run(Dec!motor_config_options, Len(first), TRUE)
    BY <2>1, <2>2
  <2>5. 8 = Len(first) + Len(Dec!motor_config_options)
    BY <2>1, <2>2
  <2> QED BY <2>1, <2>3, <2>4, <2>5, RunsAreNumbered
<1>2. Numbered(Dec!pump_config_payload, 3, 1)
  <2> DEFINE first == <<Dec!Field(0, "int8")>>
  <2>1. Run(first, 0, FALSE) /\ Len(first) = 1
    BY DEF Run, FieldRecord, Kinds, Dec!Field
  <2>2. Run(Dec!pump_config_options, 1, TRUE) /\ Len(Dec!pump_config_options) = 2
    BY DEF Run, FieldRecord, Kinds, Dec!Optional, Dec!pump_config_options
  <2>3. Dec!pump_config_payload = first \o Dec!pump_config_options
    BY DEF Dec!pump_config_payload
  <2> HIDE DEF first
  <2>4. Run(Dec!pump_config_options, Len(first), TRUE)
    BY <2>1, <2>2
  <2>5. 3 = Len(first) + Len(Dec!pump_config_options)
    BY <2>1, <2>2
  <2> QED BY <2>1, <2>3, <2>4, <2>5, RunsAreNumbered
<1>3. Numbered(Dec!temp_config_payload, 4, 1)
  <2> DEFINE first == <<Dec!Field(0, "int8")>>
  <2>1. Run(first, 0, FALSE) /\ Len(first) = 1
    BY DEF Run, FieldRecord, Kinds, Dec!Field
  <2>2. Run(Dec!temp_config_options, 1, TRUE) /\ Len(Dec!temp_config_options) = 3
    BY DEF Run, FieldRecord, Kinds, Dec!Optional, Dec!temp_config_options
  <2>3. Dec!temp_config_payload = first \o Dec!temp_config_options
    BY DEF Dec!temp_config_payload
  <2> HIDE DEF first
  <2>4. Run(Dec!temp_config_options, Len(first), TRUE)
    BY <2>1, <2>2
  <2>5. 4 = Len(first) + Len(Dec!temp_config_options)
    BY <2>1, <2>2
  <2> QED BY <2>1, <2>3, <2>4, <2>5, RunsAreNumbered
<1>4. Numbered(Dec!glow_config_payload, 2, 1)
  <2> DEFINE first == <<Dec!Field(0, "int8")>>
  <2>1. Run(first, 0, FALSE) /\ Len(first) = 1
    BY DEF Run, FieldRecord, Kinds, Dec!Field
  <2>2. Run(Dec!glow_config_options, 1, TRUE) /\ Len(Dec!glow_config_options) = 1
    BY DEF Run, FieldRecord, Kinds, Dec!Optional, Dec!glow_config_options
  <2>3. Dec!glow_config_payload = first \o Dec!glow_config_options
    BY DEF Dec!glow_config_payload
  <2> HIDE DEF first
  <2>4. Run(Dec!glow_config_options, Len(first), TRUE)
    BY <2>1, <2>2
  <2>5. 2 = Len(first) + Len(Dec!glow_config_options)
    BY <2>1, <2>2
  <2> QED BY <2>1, <2>3, <2>4, <2>5, RunsAreNumbered
<1>5. Numbered(Dec!data_subscription_payload, 1, 1)
  <2>1. Run(Dec!data_subscription_payload, 0, FALSE) /\ Len(Dec!data_subscription_payload) = 1
    BY DEF Run, FieldRecord, Kinds, Dec!Field, Dec!data_subscription_payload
  <2> QED BY <2>1, RunIsNumbered
<1>6. Numbered(Dec!telemetry_config_payload, 2, 2)
  <2>1. Run(Dec!telemetry_config_payload, 0, FALSE) /\ Len(Dec!telemetry_config_payload) = 2
    BY DEF Run, FieldRecord, Kinds, Dec!Field, Dec!telemetry_config_payload
  <2> QED BY <2>1, RunIsNumbered
<1>7. Numbered(Dec!timeout_config_payload, 2, 2)
  <2>1. Run(Dec!timeout_config_payload, 0, FALSE) /\ Len(Dec!timeout_config_payload) = 2
    BY DEF Run, FieldRecord, Kinds, Dec!Field, Dec!timeout_config_payload
  <2> QED BY <2>1, RunIsNumbered
<1>8. Numbered(Dec!state_command_payload, 2, 1)
  <2> DEFINE first == <<Dec!Field(0, "uint8")>>
  <2>1. Run(first, 0, FALSE) /\ Len(first) = 1
    BY DEF Run, FieldRecord, Kinds, Dec!Field
  <2>2. Run(Dec!state_command_options, 1, TRUE) /\ Len(Dec!state_command_options) = 1
    BY DEF Run, FieldRecord, Kinds, Dec!Optional, Dec!state_command_options
  <2>3. Dec!state_command_payload = first \o Dec!state_command_options
    BY DEF Dec!state_command_payload
  <2> HIDE DEF first
  <2>4. Run(Dec!state_command_options, Len(first), TRUE)
    BY <2>1, <2>2
  <2>5. 2 = Len(first) + Len(Dec!state_command_options)
    BY <2>1, <2>2
  <2> QED BY <2>1, <2>3, <2>4, <2>5, RunsAreNumbered
<1>9. Numbered(Dec!motor_command_payload, 2, 2)
  <2>1. Run(Dec!motor_command_payload, 0, FALSE) /\ Len(Dec!motor_command_payload) = 2
    BY DEF Run, FieldRecord, Kinds, Dec!Field, Dec!motor_command_payload
  <2> QED BY <2>1, RunIsNumbered
<1>10. Numbered(Dec!pump_command_payload, 2, 2)
  <2>1. Run(Dec!pump_command_payload, 0, FALSE) /\ Len(Dec!pump_command_payload) = 2
    BY DEF Run, FieldRecord, Kinds, Dec!Field, Dec!pump_command_payload
  <2> QED BY <2>1, RunIsNumbered
<1>11. Numbered(Dec!glow_command_payload, 2, 2)
  <2>1. Run(Dec!glow_command_payload, 0, FALSE) /\ Len(Dec!glow_command_payload) = 2
    BY DEF Run, FieldRecord, Kinds, Dec!Field, Dec!glow_command_payload
  <2> QED BY <2>1, RunIsNumbered
<1>12. Numbered(Dec!temp_command_payload, 4, 2)
  <2> DEFINE first == <<Dec!Field(0, "int8"), Dec!Field(1, "uint8")>>
  <2>1. Run(first, 0, FALSE) /\ Len(first) = 2
    BY DEF Run, FieldRecord, Kinds, Dec!Field
  <2>2. Run(Dec!temp_command_options, 2, TRUE) /\ Len(Dec!temp_command_options) = 2
    BY DEF Run, FieldRecord, Kinds, Dec!Optional, Dec!temp_command_options
  <2>3. Dec!temp_command_payload = first \o Dec!temp_command_options
    BY DEF Dec!temp_command_payload
  <2> HIDE DEF first
  <2>4. Run(Dec!temp_command_options, Len(first), TRUE)
    BY <2>1, <2>2
  <2>5. 4 = Len(first) + Len(Dec!temp_command_options)
    BY <2>1, <2>2
  <2> QED BY <2>1, <2>3, <2>4, <2>5, RunsAreNumbered
<1>13. Numbered(Dec!send_telemetry_payload, 2, 1)
  <2> DEFINE first == <<Dec!Field(0, "uint8")>>
  <2>1. Run(first, 0, FALSE) /\ Len(first) = 1
    BY DEF Run, FieldRecord, Kinds, Dec!Field
  <2>2. Run(Dec!send_telemetry_options, 1, TRUE) /\ Len(Dec!send_telemetry_options) = 1
    BY DEF Run, FieldRecord, Kinds, Dec!Optional, Dec!send_telemetry_options
  <2>3. Dec!send_telemetry_payload = first \o Dec!send_telemetry_options
    BY DEF Dec!send_telemetry_payload
  <2> HIDE DEF first
  <2>4. Run(Dec!send_telemetry_options, Len(first), TRUE)
    BY <2>1, <2>2
  <2>5. 2 = Len(first) + Len(Dec!send_telemetry_options)
    BY <2>1, <2>2
  <2> QED BY <2>1, <2>3, <2>4, <2>5, RunsAreNumbered
<1>14. Numbered(Dec!state_data_payload, 4, 4)
  <2>1. Run(Dec!state_data_payload, 0, FALSE) /\ Len(Dec!state_data_payload) = 4
    BY DEF Run, FieldRecord, Kinds, Dec!Field, Dec!state_data_payload
  <2> QED BY <2>1, RunIsNumbered
<1>15. Numbered(Dec!motor_data_payload, 8, 4)
  <2> DEFINE first == <<Dec!Field(0, "int8"), Dec!Field(1, "uint32"),
                   Dec!Field(2, "int32"), Dec!Field(3, "int32")>>
  <2>1. Run(first, 0, FALSE) /\ Len(first) = 4
    BY DEF Run, FieldRecord, Kinds, Dec!Field
  <2>2. Run(Dec!motor_data_options, 4, TRUE) /\ Len(Dec!motor_data_options) = 4
    BY DEF Run, FieldRecord, Kinds, Dec!Optional, Dec!motor_data_options
  <2>3. Dec!motor_data_payload = first \o Dec!motor_data_options
    BY DEF Dec!motor_data_payload
  <2> HIDE DEF first
  <2>4. Run(Dec!motor_data_options, Len(first), TRUE)
    BY <2>1, <2>2
  <2>5. 8 = Len(first) + Len(Dec!motor_data_options)
    BY <2>1, <2>2
  <2> QED BY <2>1, <2>3, <2>4, <2>5, RunsAreNumbered
<1>16. Numbered(Dec!pump_data_payload, 4, 3)
  <2> DEFINE first == <<Dec!Field(0, "int8"), Dec!Field(1, "uint32"),
                   Dec!Field(2, "uint8")>>
  <2>1. Run(first, 0, FALSE) /\ Len(first) = 3
    BY DEF Run, FieldRecord, Kinds, Dec!Field
  <2>2. Run(Dec!pump_data_options, 3, TRUE) /\ Len(Dec!pump_data_options) = 1
    BY DEF Run, FieldRecord, Kinds, Dec!Optional, Dec!pump_data_options
  <2>3. Dec!pump_data_payload = first \o Dec!pump_data_options
    BY DEF Dec!pump_data_payload
  <2> HIDE DEF first
  <2>4. Run(Dec!pump_data_options, Len(first), TRUE)
    BY <2>1, <2>2
  <2>5. 4 = Len(first) + Len(Dec!pump_data_options)
    BY <2>1, <2>2
  <2> QED BY <2>1, <2>3, <2>4, <2>5, RunsAreNumbered
<1>17. Numbered(Dec!glow_data_payload, 3, 3)
  <2>1. Run(Dec!glow_data_payload, 0, FALSE) /\ Len(Dec!glow_data_payload) = 3
    BY DEF Run, FieldRecord, Kinds, Dec!Field, Dec!glow_data_payload
  <2> QED BY <2>1, RunIsNumbered
<1>18. Numbered(Dec!temp_data_payload, 6, 3)
  <2> DEFINE first == <<Dec!Field(0, "int8"), Dec!Field(1, "uint32"),
                   Dec!Field(2, "float")>>
  <2>1. Run(first, 0, FALSE) /\ Len(first) = 3
    BY DEF Run, FieldRecord, Kinds, Dec!Field
  <2>2. Run(Dec!temp_data_options, 3, TRUE) /\ Len(Dec!temp_data_options) = 3
    BY DEF Run, FieldRecord, Kinds, Dec!Optional, Dec!temp_data_options
  <2>3. Dec!temp_data_payload = first \o Dec!temp_data_options
    BY DEF Dec!temp_data_payload
  <2> HIDE DEF first
  <2>4. Run(Dec!temp_data_options, Len(first), TRUE)
    BY <2>1, <2>2
  <2>5. 6 = Len(first) + Len(Dec!temp_data_options)
    BY <2>1, <2>2
  <2> QED BY <2>1, <2>3, <2>4, <2>5, RunsAreNumbered
<1>19. Numbered(Dec!device_announce_payload, 4, 4)
  <2>1. Run(Dec!device_announce_payload, 0, FALSE) /\ Len(Dec!device_announce_payload) = 4
    BY DEF Run, FieldRecord, Kinds, Dec!Field, Dec!device_announce_payload
  <2> QED BY <2>1, RunIsNumbered
<1>20. Numbered(Dec!ping_response_payload, 1, 1)
  <2>1. Run(Dec!ping_response_payload, 0, FALSE) /\ Len(Dec!ping_response_payload) = 1
    BY DEF Run, FieldRecord, Kinds, Dec!Field, Dec!ping_response_payload
  <2> QED BY <2>1, RunIsNumbered
<1>21. Numbered(Dec!error_invalid_cmd_payload, 3, 1)
  <2> DEFINE first == <<Dec!Field(0, "int32")>>
  <2>1. Run(first, 0, FALSE) /\ Len(first) = 1
    BY DEF Run, FieldRecord, Kinds, Dec!Field
  <2>2. Run(Dec!error_invalid_cmd_options, 1, TRUE) /\ Len(Dec!error_invalid_cmd_options) = 2
    BY DEF Run, FieldRecord, Kinds, Dec!Optional, Dec!error_invalid_cmd_options
  <2>3. Dec!error_invalid_cmd_payload = first \o Dec!error_invalid_cmd_options
    BY DEF Dec!error_invalid_cmd_payload
  <2> HIDE DEF first
  <2>4. Run(Dec!error_invalid_cmd_options, Len(first), TRUE)
    BY <2>1, <2>2
  <2>5. 3 = Len(first) + Len(Dec!error_invalid_cmd_options)
    BY <2>1, <2>2
  <2> QED BY <2>1, <2>3, <2>4, <2>5, RunsAreNumbered
<1>22. Numbered(Dec!error_state_reject_payload, 2, 1)
  <2> DEFINE first == <<Dec!Field(0, "int32")>>
  <2>1. Run(first, 0, FALSE) /\ Len(first) = 1
    BY DEF Run, FieldRecord, Kinds, Dec!Field
  <2>2. Run(Dec!error_state_reject_options, 1, TRUE) /\ Len(Dec!error_state_reject_options) = 1
    BY DEF Run, FieldRecord, Kinds, Dec!Optional, Dec!error_state_reject_options
  <2>3. Dec!error_state_reject_payload = first \o Dec!error_state_reject_options
    BY DEF Dec!error_state_reject_payload
  <2> HIDE DEF first
  <2>4. Run(Dec!error_state_reject_options, Len(first), TRUE)
    BY <2>1, <2>2
  <2>5. 2 = Len(first) + Len(Dec!error_state_reject_options)
    BY <2>1, <2>2
  <2> QED BY <2>1, <2>3, <2>4, <2>5, RunsAreNumbered
<1> QED BY <1>1, <1>2, <1>3, <1>4, <1>5, <1>6, <1>7, <1>8, <1>9, <1>10, <1>11,
           <1>12, <1>13, <1>14, <1>15, <1>16, <1>17, <1>18, <1>19, <1>20, <1>21, <1>22

\* The fields that the encoders write are those that the decoders expect.
LEMMA EncoderLists ==
  /\ Enc!motor_config_payload = Dec!motor_config_payload
  /\ Enc!pump_config_payload = Dec!pump_config_payload
  /\ Enc!temp_config_payload = Dec!temp_config_payload
  /\ Enc!glow_config_payload = Dec!glow_config_payload
  /\ Enc!data_subscription_payload = Dec!data_subscription_payload
  /\ Enc!telemetry_config_payload = Dec!telemetry_config_payload
  /\ Enc!timeout_config_payload = Dec!timeout_config_payload
  /\ Enc!state_command_payload = Dec!state_command_payload
  /\ Enc!motor_command_payload = Dec!motor_command_payload
  /\ Enc!pump_command_payload = Dec!pump_command_payload
  /\ Enc!glow_command_payload = Dec!glow_command_payload
  /\ Enc!temp_command_payload = Dec!temp_command_payload
  /\ Enc!send_telemetry_payload = Dec!send_telemetry_payload
  /\ Enc!state_data_payload = Dec!state_data_payload
  /\ Enc!motor_data_payload = Dec!motor_data_payload
  /\ Enc!pump_data_payload = Dec!pump_data_payload
  /\ Enc!glow_data_payload = Dec!glow_data_payload
  /\ Enc!temp_data_payload = Dec!temp_data_payload
  /\ Enc!device_announce_payload = Dec!device_announce_payload
  /\ Enc!ping_response_payload = Dec!ping_response_payload
  /\ Enc!error_invalid_cmd_payload = Dec!error_invalid_cmd_payload
  /\ Enc!error_state_reject_payload = Dec!error_state_reject_payload
<1>1. Enc!motor_config_payload = Dec!motor_config_payload
  BY DEF Enc!motor_config_payload, Dec!motor_config_payload,
     Enc!motor_config_options, Dec!motor_config_options, Enc!Optional, Dec!Optional, Enc!Field, Dec!Field
<1>2. Enc!pump_config_payload = Dec!pump_config_payload
  BY DEF Enc!pump_config_payload, Dec!pump_config_payload,
     Enc!pump_config_options, Dec!pump_config_options, Enc!Optional, Dec!Optional, Enc!Field, Dec!Field
<1>3. Enc!temp_config_payload = Dec!temp_config_payload
  BY DEF Enc!temp_config_payload, Dec!temp_config_payload,
     Enc!temp_config_options, Dec!temp_config_options, Enc!Optional, Dec!Optional, Enc!Field, Dec!Field
<1>4. Enc!glow_config_payload = Dec!glow_config_payload
  BY DEF Enc!glow_config_payload, Dec!glow_config_payload,
     Enc!glow_config_options, Dec!glow_config_options, Enc!Optional, Dec!Optional, Enc!Field, Dec!Field
<1>5. Enc!data_subscription_payload = Dec!data_subscription_payload
  BY DEF Enc!data_subscription_payload, Dec!data_subscription_payload, Enc!Field, Dec!Field
<1>6. Enc!telemetry_config_payload = Dec!telemetry_config_payload
  BY DEF Enc!telemetry_config_payload, Dec!telemetry_config_payload, Enc!Field, Dec!Field
<1>7. Enc!timeout_config_payload = Dec!timeout_config_payload
  BY DEF Enc!timeout_config_payload, Dec!timeout_config_payload, Enc!Field, Dec!Field
<1>8. Enc!state_command_payload = Dec!state_command_payload
  BY DEF Enc!state_command_payload, Dec!state_command_payload,
     Enc!state_command_options, Dec!state_command_options, Enc!Optional, Dec!Optional, Enc!Field, Dec!Field
<1>9. Enc!motor_command_payload = Dec!motor_command_payload
  BY DEF Enc!motor_command_payload, Dec!motor_command_payload, Enc!Field, Dec!Field
<1>10. Enc!pump_command_payload = Dec!pump_command_payload
  BY DEF Enc!pump_command_payload, Dec!pump_command_payload, Enc!Field, Dec!Field
<1>11. Enc!glow_command_payload = Dec!glow_command_payload
  BY DEF Enc!glow_command_payload, Dec!glow_command_payload, Enc!Field, Dec!Field
<1>12. Enc!temp_command_payload = Dec!temp_command_payload
  BY DEF Enc!temp_command_payload, Dec!temp_command_payload,
     Enc!temp_command_options, Dec!temp_command_options, Enc!Optional, Dec!Optional, Enc!Field, Dec!Field
<1>13. Enc!send_telemetry_payload = Dec!send_telemetry_payload
  BY DEF Enc!send_telemetry_payload, Dec!send_telemetry_payload,
     Enc!send_telemetry_options, Dec!send_telemetry_options, Enc!Optional, Dec!Optional, Enc!Field, Dec!Field
<1>14. Enc!state_data_payload = Dec!state_data_payload
  BY DEF Enc!state_data_payload, Dec!state_data_payload, Enc!Field, Dec!Field
<1>15. Enc!motor_data_payload = Dec!motor_data_payload
  BY DEF Enc!motor_data_payload, Dec!motor_data_payload,
     Enc!motor_data_options, Dec!motor_data_options, Enc!Optional, Dec!Optional, Enc!Field, Dec!Field
<1>16. Enc!pump_data_payload = Dec!pump_data_payload
  BY DEF Enc!pump_data_payload, Dec!pump_data_payload,
     Enc!pump_data_options, Dec!pump_data_options, Enc!Optional, Dec!Optional, Enc!Field, Dec!Field
<1>17. Enc!glow_data_payload = Dec!glow_data_payload
  BY DEF Enc!glow_data_payload, Dec!glow_data_payload, Enc!Field, Dec!Field
<1>18. Enc!temp_data_payload = Dec!temp_data_payload
  BY DEF Enc!temp_data_payload, Dec!temp_data_payload,
     Enc!temp_data_options, Dec!temp_data_options, Enc!Optional, Dec!Optional, Enc!Field, Dec!Field
<1>19. Enc!device_announce_payload = Dec!device_announce_payload
  BY DEF Enc!device_announce_payload, Dec!device_announce_payload, Enc!Field, Dec!Field
<1>20. Enc!ping_response_payload = Dec!ping_response_payload
  BY DEF Enc!ping_response_payload, Dec!ping_response_payload, Enc!Field, Dec!Field
<1>21. Enc!error_invalid_cmd_payload = Dec!error_invalid_cmd_payload
  BY DEF Enc!error_invalid_cmd_payload, Dec!error_invalid_cmd_payload,
     Enc!error_invalid_cmd_options, Dec!error_invalid_cmd_options, Enc!Optional, Dec!Optional, Enc!Field, Dec!Field
<1>22. Enc!error_state_reject_payload = Dec!error_state_reject_payload
  BY DEF Enc!error_state_reject_payload, Dec!error_state_reject_payload,
     Enc!error_state_reject_options, Dec!error_state_reject_options, Enc!Optional, Dec!Optional, Enc!Field, Dec!Field
<1> QED BY <1>1, <1>2, <1>3, <1>4, <1>5, <1>6, <1>7, <1>8, <1>9, <1>10, <1>11,
           <1>12, <1>13, <1>14, <1>15, <1>16, <1>17, <1>18, <1>19, <1>20, <1>21, <1>22

\* The receiver takes the decoder of the message.
LEMMA Decoders ==
  /\ DecoderOf["motor_config"] = Dec!motor_config_payload
  /\ DecoderOf["pump_config"] = Dec!pump_config_payload
  /\ DecoderOf["temp_config"] = Dec!temp_config_payload
  /\ DecoderOf["glow_config"] = Dec!glow_config_payload
  /\ DecoderOf["data_subscription"] = Dec!data_subscription_payload
  /\ DecoderOf["data_unsubscribe"] = Dec!data_subscription_payload
  /\ DecoderOf["telemetry_config"] = Dec!telemetry_config_payload
  /\ DecoderOf["timeout_config"] = Dec!timeout_config_payload
  /\ DecoderOf["state_command"] = Dec!state_command_payload
  /\ DecoderOf["motor_command"] = Dec!motor_command_payload
  /\ DecoderOf["pump_command"] = Dec!pump_command_payload
  /\ DecoderOf["glow_command"] = Dec!glow_command_payload
  /\ DecoderOf["temp_command"] = Dec!temp_command_payload
  /\ DecoderOf["send_telemetry"] = Dec!send_telemetry_payload
  /\ DecoderOf["state_data"] = Dec!state_data_payload
  /\ DecoderOf["motor_data"] = Dec!motor_data_payload
  /\ DecoderOf["pump_data"] = Dec!pump_data_payload
  /\ DecoderOf["glow_data"] = Dec!glow_data_payload
  /\ DecoderOf["temp_data"] = Dec!temp_data_payload
  /\ DecoderOf["device_announce"] = Dec!device_announce_payload
  /\ DecoderOf["ping_response"] = Dec!ping_response_payload
  /\ DecoderOf["error_invalid_cmd"] = Dec!error_invalid_cmd_payload
  /\ DecoderOf["error_state_reject"] = Dec!error_state_reject_payload
<1>1. DecoderOf["motor_config"] = Dec!motor_config_payload
  BY DEF DecoderOf, With, Dec!Payloads
<1>2. DecoderOf["pump_config"] = Dec!pump_config_payload
  BY DEF DecoderOf, With, Dec!Payloads
<1>3. DecoderOf["temp_config"] = Dec!temp_config_payload
  BY DEF DecoderOf, With, Dec!Payloads
<1>4. DecoderOf["glow_config"] = Dec!glow_config_payload
  BY DEF DecoderOf, With, Dec!Payloads
<1>5. DecoderOf["data_subscription"] = Dec!data_subscription_payload
  BY DEF DecoderOf, With, Dec!Payloads
<1>6. DecoderOf["data_unsubscribe"] = Dec!data_subscription_payload
  BY DEF DecoderOf, With, Dec!Payloads
<1>7. DecoderOf["telemetry_config"] = Dec!telemetry_config_payload
  BY DEF DecoderOf, With, Dec!Payloads
<1>8. DecoderOf["timeout_config"] = Dec!timeout_config_payload
  BY DEF DecoderOf, With, Dec!Payloads
<1>9. DecoderOf["state_command"] = Dec!state_command_payload
  BY DEF DecoderOf, With, Dec!Payloads
<1>10. DecoderOf["motor_command"] = Dec!motor_command_payload
  BY DEF DecoderOf, With, Dec!Payloads
<1>11. DecoderOf["pump_command"] = Dec!pump_command_payload
  BY DEF DecoderOf, With, Dec!Payloads
<1>12. DecoderOf["glow_command"] = Dec!glow_command_payload
  BY DEF DecoderOf, With, Dec!Payloads
<1>13. DecoderOf["temp_command"] = Dec!temp_command_payload
  BY DEF DecoderOf, With, Dec!Payloads
<1>14. DecoderOf["send_telemetry"] = Dec!send_telemetry_payload
  BY DEF DecoderOf, With, Dec!Payloads
<1>15. DecoderOf["state_data"] = Dec!state_data_payload
  BY DEF DecoderOf, With, Dec!Payloads
<1>16. DecoderOf["motor_data"] = Dec!motor_data_payload
  BY DEF DecoderOf, With, Dec!Payloads
<1>17. DecoderOf["pump_data"] = Dec!pump_data_payload
  BY DEF DecoderOf, With, Dec!Payloads
<1>18. DecoderOf["glow_data"] = Dec!glow_data_payload
  BY DEF DecoderOf, With, Dec!Payloads
<1>19. DecoderOf["temp_data"] = Dec!temp_data_payload
  BY DEF DecoderOf, With, Dec!Payloads
<1>20. DecoderOf["device_announce"] = Dec!device_announce_payload
  BY DEF DecoderOf, With, Dec!Payloads
<1>21. DecoderOf["ping_response"] = Dec!ping_response_payload
  BY DEF DecoderOf, With, Dec!Payloads
<1>22. DecoderOf["error_invalid_cmd"] = Dec!error_invalid_cmd_payload
  BY DEF DecoderOf, With, Dec!Payloads
<1>23. DecoderOf["error_state_reject"] = Dec!error_state_reject_payload
  BY DEF DecoderOf, With, Dec!Payloads
<1> QED BY <1>1, <1>2, <1>3, <1>4, <1>5, <1>6, <1>7, <1>8, <1>9, <1>10, <1>11,
           <1>12, <1>13, <1>14, <1>15, <1>16, <1>17, <1>18, <1>19, <1>20, <1>21, <1>22, <1>23

-----------------------------------------------------------------------------
(***************************************************************************)
(* The inductive invariant: the packet is fresh, or it is what Fill or     *)
(* FillNil make of the last call.                                          *)
(***************************************************************************)
Nils == {"ping_request", "discovery_request"}
\* The functions that turn their arguments into something else.
Turned == {"state_data", "temp_command", "error_invalid_cmd", "error_state_reject"}
WithMap == DOMAIN FUSAIN_MSG \ Nils

FilledNil ==
  asked.function \in Nils /\ packet.nil = TRUE /\ packet.length = Len(packet.header) + 1

FilledMap ==
  LET fields == DecoderOf[asked.function]
      room == MAX_PAYLOAD_SIZE - Len(packet.header)
  IN  /\ asked.function \in WithMap /\ packet.nil = FALSE
      /\ IsStructOf(fields, Meaning)
      /\ Encodes(fields, Meaning, room) =>
           /\ packet.map = Items(fields, Meaning)
           /\ packet.length = Len(packet.header) + MapSize(packet.map)
      /\ ~Encodes(fields, Meaning, room) => packet.length = 0

Filled ==
  /\ asked.function \in DOMAIN FUSAIN_MSG /\ asked.address \in Addresses
  /\ packet.address = asked.address
  /\ packet.msg_type = FUSAIN_MSG[asked.function]
  /\ packet.header = EncodedHeader(packet.msg_type)
  /\ FilledNil \/ FilledMap

MessagesInv == (asked = NoCall /\ packet = FreshPacket) \/ Filled

LEMMA FillNilFills ==
  ASSUME NEW name \in Nils, NEW address \in Addresses,
         Called(name, address, <<>>), FillNil(name, address)
  PROVE  Filled'
<1> DEFINE header == EncodedHeader(FUSAIN_MSG[name])
<1>1. asked' = [function |-> name, address |-> address, arguments |-> <<>>]
  BY DEF Called
<1>2. packet' = [address |-> address, msg_type |-> FUSAIN_MSG[name], header |-> header,
                 nil |-> TRUE, map |-> <<>>, length |-> Len(header) + 1]
  BY DEF FillNil
<1>3. name \in DOMAIN FUSAIN_MSG
  BY DEF Nils, FUSAIN_MSG
<1>4. header = EncodedHeader(FUSAIN_MSG[name])
  OBVIOUS
<1> HIDE DEF header
<1> QED BY <1>1, <1>2, <1>3, <1>4 DEF Filled, FilledNil

LEMMA FillFills ==
  ASSUME NEW name \in WithMap, NEW address \in Addresses, NEW a,
         NEW fields, fields = DecoderOf[name],
         NEW s, IsStructOf(fields, s), Meant(name, a) = s,
         Called(name, address, a), Fill(name, address, fields, s)
  PROVE  Filled'
<1> DEFINE header == EncodedHeader(FUSAIN_MSG[name])
           type == FUSAIN_MSG[name]
           encoded == Encodes(fields, s, MAX_PAYLOAD_SIZE - Len(header))
           items == Items(fields, s)
           map == IF encoded THEN items ELSE <<>>
           length == IF encoded THEN Len(header) + MapSize(items) ELSE 0
<1>1. asked' = [function |-> name, address |-> address, arguments |-> a]
  BY DEF Called
<1>2. packet' = [address |-> address, msg_type |-> type, header |-> header,
                 nil |-> FALSE, map |-> map, length |-> length]
  BY DEF Fill
<1>3. /\ encoded => map = items /\ length = Len(header) + MapSize(items)
      /\ ~encoded => length = 0
  OBVIOUS
<1>4. header = EncodedHeader(type) /\ name \in DOMAIN FUSAIN_MSG
  BY DEF WithMap
<1> HIDE DEF map, length
<1>5. /\ asked'.function = name /\ asked'.address = address /\ asked'.arguments = a
      /\ packet'.address = address /\ packet'.msg_type = type
      /\ packet'.header = header /\ packet'.nil = FALSE
      /\ packet'.map = map /\ packet'.length = length
  <2> HIDE DEF header, type
  <2> QED BY <1>1, <1>2
<1>6. Meaning' = s
  BY <1>5 DEF Meaning
<1>7. FilledMap'
  <2> HIDE DEF header
  <2> QED BY <1>3, <1>5, <1>6 DEF FilledMap
<1> QED BY <1>4, <1>5, <1>7 DEF Filled

\* A struct with the first members of a list of fields.
LEMMA MembersAreStruct ==
  ASSUME NEW a, NEW m \in Nat, Len(a) = m, NEW length \in Nat, NEW required \in Nat,
         required <= m, m <= length,
         NEW fields, Numbered(fields, length, required)
  PROVE  IsStructOf(fields, Members(a)) /\ DOMAIN Members(a) = 0 .. m - 1
<1> DEFINE s == Members(a)
<1>1. DOMAIN s = 0 .. m - 1 /\ s = [k \in DOMAIN s |-> s[k]]
  BY DEF Members
<1>2. Len(fields) = length
  BY DEF Numbered
<1> HIDE DEF s
<1>3. ASSUME NEW k \in DOMAIN s PROVE \E n \in 1 .. length : fields[n].key = k
  <2>1. k + 1 \in 1 .. length /\ (k + 1) - 1 = k
    BY <1>1, <1>3
  <2>2. fields[k + 1].key = k
    BY <2>1 DEF Numbered
  <2> QED BY <2>1, <2>2
<1>4. ASSUME NEW n \in 1 .. length PROVE fields[n].key \in DOMAIN s \/ fields[n].optional
  <2>1. fields[n].key = n - 1 /\ (fields[n].optional <=> n > required)
    BY DEF Numbered
  <2>2. CASE n > required
    BY <2>1, <2>2
  <2>3. CASE n <= required
    <3>1. n - 1 \in 0 .. m - 1
      BY <2>3
    <3> QED BY <1>1, <2>1, <3>1
  <2> QED BY <2>2, <2>3
<1>5. IsStructOf(fields, s)
  BY <1>1, <1>2, <1>3, <1>4 DEF IsStructOf
<1> QED BY <1>1, <1>5 DEF s

LEMMA PlainFills ==
  ASSUME NEW name \in WithMap \ Turned, NEW address \in Addresses,
         NEW fields, fields = DecoderOf[name], NEW length \in Nat, NEW required \in Nat,
         Numbered(fields, length, required),
         NEW a, NEW m \in Nat, Len(a) = m, required <= m, m <= length,
         Called(name, address, a), Fill(name, address, fields, Members(a))
  PROVE  Filled'
<1>1. IsStructOf(fields, Members(a))
  BY MembersAreStruct
<1>2. Meant(name, a) = Members(a)
  BY DEF Meant, Members, Turned
<1> QED BY <1>1, <1>2, FillFills

(***************************************************************************)
(* The functions, one by one.                                              *)
(***************************************************************************)
LEMMA MotorConfig ==
  ASSUME NEW address \in Addresses, create_motor_config(address)
  PROVE  Filled'
<1>1. PICK motor \in Uint8s, pwm_period, min_pwm_duty \in Uint32s,
           kp, ki, kd \in Floats, max_rpm, min_rpm \in Int32s :
        LET a == <<motor, pwm_period, kp, ki, kd, max_rpm, min_rpm, min_pwm_duty>>
        IN  /\ Called("motor_config", address, a)
            /\ Fill("motor_config", address, Enc!motor_config_payload, Members(a))
  BY DEF create_motor_config
<1> DEFINE a == <<motor, pwm_period, kp, ki, kd, max_rpm, min_rpm, min_pwm_duty>>
           fields == Enc!motor_config_payload
<1>2. Len(a) = 8
  OBVIOUS
<1>3. "motor_config" \in WithMap \ Turned
  BY DEF WithMap, Nils, Turned, FUSAIN_MSG
<1>4. fields = DecoderOf["motor_config"] /\ Numbered(fields, 8, 1)
  BY EncoderLists, DecoderLists, Decoders
<1>5. /\ Called("motor_config", address, a)
      /\ Fill("motor_config", address, fields, Members(a))
  BY <1>1
<1>6. {1, 8} \subseteq Nat /\ 1 <= 8 /\ 8 <= 8
  OBVIOUS
<1> HIDE DEF a, fields
<1> QED BY <1>2, <1>3, <1>4, <1>5, <1>6, PlainFills, Zenon

LEMMA PumpConfig ==
  ASSUME NEW address \in Addresses, create_pump_config(address)
  PROVE  Filled'
<1>1. PICK pump \in Uint8s, pulse_ms, recovery_ms \in Uint32s :
        LET a == <<pump, pulse_ms, recovery_ms>>
        IN  /\ Called("pump_config", address, a)
            /\ Fill("pump_config", address, Enc!pump_config_payload, Members(a))
  BY DEF create_pump_config
<1> DEFINE a == <<pump, pulse_ms, recovery_ms>>
           fields == Enc!pump_config_payload
<1>2. Len(a) = 3
  OBVIOUS
<1>3. "pump_config" \in WithMap \ Turned
  BY DEF WithMap, Nils, Turned, FUSAIN_MSG
<1>4. fields = DecoderOf["pump_config"] /\ Numbered(fields, 3, 1)
  BY EncoderLists, DecoderLists, Decoders
<1>5. /\ Called("pump_config", address, a)
      /\ Fill("pump_config", address, fields, Members(a))
  BY <1>1
<1>6. {1, 3} \subseteq Nat /\ 1 <= 3 /\ 3 <= 3
  OBVIOUS
<1> HIDE DEF a, fields
<1> QED BY <1>2, <1>3, <1>4, <1>5, <1>6, PlainFills, Zenon

LEMMA TempConfig ==
  ASSUME NEW address \in Addresses, create_temp_config(address)
  PROVE  Filled'
<1>1. PICK thermometer \in Uint8s, kp, ki, kd \in Floats :
        LET a == <<thermometer, kp, ki, kd>>
        IN  /\ Called("temp_config", address, a)
            /\ Fill("temp_config", address, Enc!temp_config_payload, Members(a))
  BY DEF create_temp_config
<1> DEFINE a == <<thermometer, kp, ki, kd>>
           fields == Enc!temp_config_payload
<1>2. Len(a) = 4
  OBVIOUS
<1>3. "temp_config" \in WithMap \ Turned
  BY DEF WithMap, Nils, Turned, FUSAIN_MSG
<1>4. fields = DecoderOf["temp_config"] /\ Numbered(fields, 4, 1)
  BY EncoderLists, DecoderLists, Decoders
<1>5. /\ Called("temp_config", address, a)
      /\ Fill("temp_config", address, fields, Members(a))
  BY <1>1
<1>6. {1, 4} \subseteq Nat /\ 1 <= 4 /\ 4 <= 4
  OBVIOUS
<1> HIDE DEF a, fields
<1> QED BY <1>2, <1>3, <1>4, <1>5, <1>6, PlainFills, Zenon

LEMMA GlowConfig ==
  ASSUME NEW address \in Addresses, create_glow_config(address)
  PROVE  Filled'
<1>1. PICK glow \in Uint8s, max_duration_ms \in Uint32s :
        LET a == <<glow, max_duration_ms>>
        IN  /\ Called("glow_config", address, a)
            /\ Fill("glow_config", address, Enc!glow_config_payload, Members(a))
  BY DEF create_glow_config
<1> DEFINE a == <<glow, max_duration_ms>>
           fields == Enc!glow_config_payload
<1>2. Len(a) = 2
  OBVIOUS
<1>3. "glow_config" \in WithMap \ Turned
  BY DEF WithMap, Nils, Turned, FUSAIN_MSG
<1>4. fields = DecoderOf["glow_config"] /\ Numbered(fields, 2, 1)
  BY EncoderLists, DecoderLists, Decoders
<1>5. /\ Called("glow_config", address, a)
      /\ Fill("glow_config", address, fields, Members(a))
  BY <1>1
<1>6. {1, 2} \subseteq Nat /\ 1 <= 2 /\ 2 <= 2
  OBVIOUS
<1> HIDE DEF a, fields
<1> QED BY <1>2, <1>3, <1>4, <1>5, <1>6, PlainFills, Zenon

LEMMA DataSubscription ==
  ASSUME NEW address \in Addresses, create_data_subscription(address)
  PROVE  Filled'
<1>1. PICK appliance_address \in Addresses :
        LET a == <<appliance_address>>
        IN  /\ Called("data_subscription", address, a)
            /\ Fill("data_subscription", address, Enc!data_subscription_payload, Members(a))
  BY DEF create_data_subscription
<1> DEFINE a == <<appliance_address>>
           fields == Enc!data_subscription_payload
<1>2. Len(a) = 1
  OBVIOUS
<1>3. "data_subscription" \in WithMap \ Turned
  BY DEF WithMap, Nils, Turned, FUSAIN_MSG
<1>4. fields = DecoderOf["data_subscription"] /\ Numbered(fields, 1, 1)
  BY EncoderLists, DecoderLists, Decoders
<1>5. /\ Called("data_subscription", address, a)
      /\ Fill("data_subscription", address, fields, Members(a))
  BY <1>1
<1>6. {1} \subseteq Nat /\ 1 <= 1 /\ 1 <= 1
  OBVIOUS
<1> HIDE DEF a, fields
<1> QED BY <1>2, <1>3, <1>4, <1>5, <1>6, PlainFills, Zenon

LEMMA DataUnsubscribe ==
  ASSUME NEW address \in Addresses, create_data_unsubscribe(address)
  PROVE  Filled'
<1>1. PICK appliance_address \in Addresses :
        LET a == <<appliance_address>>
        IN  /\ Called("data_unsubscribe", address, a)
            /\ Fill("data_unsubscribe", address, Enc!data_subscription_payload, Members(a))
  BY DEF create_data_unsubscribe
<1> DEFINE a == <<appliance_address>>
           fields == Enc!data_subscription_payload
<1>2. Len(a) = 1
  OBVIOUS
<1>3. "data_unsubscribe" \in WithMap \ Turned
  BY DEF WithMap, Nils, Turned, FUSAIN_MSG
<1>4. fields = DecoderOf["data_unsubscribe"] /\ Numbered(fields, 1, 1)
  BY EncoderLists, DecoderLists, Decoders
<1>5. /\ Called("data_unsubscribe", address, a)
      /\ Fill("data_unsubscribe", address, fields, Members(a))
  BY <1>1
<1>6. {1} \subseteq Nat /\ 1 <= 1 /\ 1 <= 1
  OBVIOUS
<1> HIDE DEF a, fields
<1> QED BY <1>2, <1>3, <1>4, <1>5, <1>6, PlainFills, Zenon

LEMMA TelemetryConfig ==
  ASSUME NEW address \in Addresses, create_telemetry_config(address)
  PROVE  Filled'
<1>1. PICK enabled \in Bools, interval_ms \in Uint32s :
        LET a == <<enabled, interval_ms>>
        IN  /\ Called("telemetry_config", address, a)
            /\ Fill("telemetry_config", address, Enc!telemetry_config_payload, Members(a))
  BY DEF create_telemetry_config
<1> DEFINE a == <<enabled, interval_ms>>
           fields == Enc!telemetry_config_payload
<1>2. Len(a) = 2
  OBVIOUS
<1>3. "telemetry_config" \in WithMap \ Turned
  BY DEF WithMap, Nils, Turned, FUSAIN_MSG
<1>4. fields = DecoderOf["telemetry_config"] /\ Numbered(fields, 2, 2)
  BY EncoderLists, DecoderLists, Decoders
<1>5. /\ Called("telemetry_config", address, a)
      /\ Fill("telemetry_config", address, fields, Members(a))
  BY <1>1
<1>6. {2} \subseteq Nat /\ 2 <= 2 /\ 2 <= 2
  OBVIOUS
<1> HIDE DEF a, fields
<1> QED BY <1>2, <1>3, <1>4, <1>5, <1>6, PlainFills, Zenon

LEMMA TimeoutConfig ==
  ASSUME NEW address \in Addresses, create_timeout_config(address)
  PROVE  Filled'
<1>1. PICK enabled \in Bools, timeout_ms \in Uint32s :
        LET a == <<enabled, timeout_ms>>
        IN  /\ Called("timeout_config", address, a)
            /\ Fill("timeout_config", address, Enc!timeout_config_payload, Members(a))
  BY DEF create_timeout_config
<1> DEFINE a == <<enabled, timeout_ms>>
           fields == Enc!timeout_config_payload
<1>2. Len(a) = 2
  OBVIOUS
<1>3. "timeout_config" \in WithMap \ Turned
  BY DEF WithMap, Nils, Turned, FUSAIN_MSG
<1>4. fields = DecoderOf["timeout_config"] /\ Numbered(fields, 2, 2)
  BY EncoderLists, DecoderLists, Decoders
<1>5. /\ Called("timeout_config", address, a)
      /\ Fill("timeout_config", address, fields, Members(a))
  BY <1>1
<1>6. {2} \subseteq Nat /\ 2 <= 2 /\ 2 <= 2
  OBVIOUS
<1> HIDE DEF a, fields
<1> QED BY <1>2, <1>3, <1>4, <1>5, <1>6, PlainFills, Zenon

LEMMA StateCommand ==
  ASSUME NEW address \in Addresses, create_state_command(address)
  PROVE  Filled'
<1>1. PICK mode \in Modes, argument \in Int32s :
        LET a == <<mode, argument>>
        IN  /\ Called("state_command", address, a)
            /\ Fill("state_command", address, Enc!state_command_payload, Members(a))
  BY DEF create_state_command
<1> DEFINE a == <<mode, argument>>
           fields == Enc!state_command_payload
<1>2. Len(a) = 2
  OBVIOUS
<1>3. "state_command" \in WithMap \ Turned
  BY DEF WithMap, Nils, Turned, FUSAIN_MSG
<1>4. fields = DecoderOf["state_command"] /\ Numbered(fields, 2, 1)
  BY EncoderLists, DecoderLists, Decoders
<1>5. /\ Called("state_command", address, a)
      /\ Fill("state_command", address, fields, Members(a))
  BY <1>1
<1>6. {1, 2} \subseteq Nat /\ 1 <= 2 /\ 2 <= 2
  OBVIOUS
<1> HIDE DEF a, fields
<1> QED BY <1>2, <1>3, <1>4, <1>5, <1>6, PlainFills, Zenon

LEMMA MotorCommand ==
  ASSUME NEW address \in Addresses, create_motor_command(address)
  PROVE  Filled'
<1>1. PICK motor \in Uint8s, rpm \in Int32s :
        LET a == <<motor, rpm>>
        IN  /\ Called("motor_command", address, a)
            /\ Fill("motor_command", address, Enc!motor_command_payload, Members(a))
  BY DEF create_motor_command
<1> DEFINE a == <<motor, rpm>>
           fields == Enc!motor_command_payload
<1>2. Len(a) = 2
  OBVIOUS
<1>3. "motor_command" \in WithMap \ Turned
  BY DEF WithMap, Nils, Turned, FUSAIN_MSG
<1>4. fields = DecoderOf["motor_command"] /\ Numbered(fields, 2, 2)
  BY EncoderLists, DecoderLists, Decoders
<1>5. /\ Called("motor_command", address, a)
      /\ Fill("motor_command", address, fields, Members(a))
  BY <1>1
<1>6. {2} \subseteq Nat /\ 2 <= 2 /\ 2 <= 2
  OBVIOUS
<1> HIDE DEF a, fields
<1> QED BY <1>2, <1>3, <1>4, <1>5, <1>6, PlainFills, Zenon

LEMMA PumpCommand ==
  ASSUME NEW address \in Addresses, create_pump_command(address)
  PROVE  Filled'
<1>1. PICK pump \in Uint8s, rate_ms \in Int32s :
        LET a == <<pump, rate_ms>>
        IN  /\ Called("pump_command", address, a)
            /\ Fill("pump_command", address, Enc!pump_command_payload, Members(a))
  BY DEF create_pump_command
<1> DEFINE a == <<pump, rate_ms>>
           fields == Enc!pump_command_payload
<1>2. Len(a) = 2
  OBVIOUS
<1>3. "pump_command" \in WithMap \ Turned
  BY DEF WithMap, Nils, Turned, FUSAIN_MSG
<1>4. fields = DecoderOf["pump_command"] /\ Numbered(fields, 2, 2)
  BY EncoderLists, DecoderLists, Decoders
<1>5. /\ Called("pump_command", address, a)
      /\ Fill("pump_command", address, fields, Members(a))
  BY <1>1
<1>6. {2} \subseteq Nat /\ 2 <= 2 /\ 2 <= 2
  OBVIOUS
<1> HIDE DEF a, fields
<1> QED BY <1>2, <1>3, <1>4, <1>5, <1>6, PlainFills, Zenon

LEMMA GlowCommand ==
  ASSUME NEW address \in Addresses, create_glow_command(address)
  PROVE  Filled'
<1>1. PICK glow \in Uint8s, duration \in Int32s :
        LET a == <<glow, duration>>
        IN  /\ Called("glow_command", address, a)
            /\ Fill("glow_command", address, Enc!glow_command_payload, Members(a))
  BY DEF create_glow_command
<1> DEFINE a == <<glow, duration>>
           fields == Enc!glow_command_payload
<1>2. Len(a) = 2
  OBVIOUS
<1>3. "glow_command" \in WithMap \ Turned
  BY DEF WithMap, Nils, Turned, FUSAIN_MSG
<1>4. fields = DecoderOf["glow_command"] /\ Numbered(fields, 2, 2)
  BY EncoderLists, DecoderLists, Decoders
<1>5. /\ Called("glow_command", address, a)
      /\ Fill("glow_command", address, fields, Members(a))
  BY <1>1
<1>6. {2} \subseteq Nat /\ 2 <= 2 /\ 2 <= 2
  OBVIOUS
<1> HIDE DEF a, fields
<1> QED BY <1>2, <1>3, <1>4, <1>5, <1>6, PlainFills, Zenon

LEMMA SendTelemetry ==
  ASSUME NEW address \in Addresses, create_send_telemetry(address)
  PROVE  Filled'
<1>1. PICK telemetry_type, index \in Uint32s :
        LET a == <<telemetry_type, index>>
        IN  /\ Called("send_telemetry", address, a)
            /\ Fill("send_telemetry", address, Enc!send_telemetry_payload, Members(a))
  BY DEF create_send_telemetry
<1> DEFINE a == <<telemetry_type, index>>
           fields == Enc!send_telemetry_payload
<1>2. Len(a) = 2
  OBVIOUS
<1>3. "send_telemetry" \in WithMap \ Turned
  BY DEF WithMap, Nils, Turned, FUSAIN_MSG
<1>4. fields = DecoderOf["send_telemetry"] /\ Numbered(fields, 2, 1)
  BY EncoderLists, DecoderLists, Decoders
<1>5. /\ Called("send_telemetry", address, a)
      /\ Fill("send_telemetry", address, fields, Members(a))
  BY <1>1
<1>6. {1, 2} \subseteq Nat /\ 1 <= 2 /\ 2 <= 2
  OBVIOUS
<1> HIDE DEF a, fields
<1> QED BY <1>2, <1>3, <1>4, <1>5, <1>6, PlainFills, Zenon

LEMMA MotorData ==
  ASSUME NEW address \in Addresses, create_motor_data(address)
  PROVE  Filled'
<1>1. PICK motor \in Uint8s, timestamp \in Uint32s, rpm, target \in Int32s :
        LET a == <<motor, timestamp, rpm, target>>
        IN  /\ Called("motor_data", address, a)
            /\ Fill("motor_data", address, Enc!motor_data_payload, Members(a))
  BY DEF create_motor_data
<1> DEFINE a == <<motor, timestamp, rpm, target>>
           fields == Enc!motor_data_payload
<1>2. Len(a) = 4
  OBVIOUS
<1>3. "motor_data" \in WithMap \ Turned
  BY DEF WithMap, Nils, Turned, FUSAIN_MSG
<1>4. fields = DecoderOf["motor_data"] /\ Numbered(fields, 8, 4)
  BY EncoderLists, DecoderLists, Decoders
<1>5. /\ Called("motor_data", address, a)
      /\ Fill("motor_data", address, fields, Members(a))
  BY <1>1
<1>6. {4, 8} \subseteq Nat /\ 4 <= 4 /\ 4 <= 8
  OBVIOUS
<1> HIDE DEF a, fields
<1> QED BY <1>2, <1>3, <1>4, <1>5, <1>6, PlainFills, Zenon

LEMMA PumpData ==
  ASSUME NEW address \in Addresses, create_pump_data(address)
  PROVE  Filled'
<1>1. PICK pump \in Uint8s, timestamp \in Uint32s, type \in PumpEvents,
           rate \in Int32s :
        LET a == <<pump, timestamp, type, rate>>
        IN  /\ Called("pump_data", address, a)
            /\ Fill("pump_data", address, Enc!pump_data_payload, Members(a))
  BY DEF create_pump_data
<1> DEFINE a == <<pump, timestamp, type, rate>>
           fields == Enc!pump_data_payload
<1>2. Len(a) = 4
  OBVIOUS
<1>3. "pump_data" \in WithMap \ Turned
  BY DEF WithMap, Nils, Turned, FUSAIN_MSG
<1>4. fields = DecoderOf["pump_data"] /\ Numbered(fields, 4, 3)
  BY EncoderLists, DecoderLists, Decoders
<1>5. /\ Called("pump_data", address, a)
      /\ Fill("pump_data", address, fields, Members(a))
  BY <1>1
<1>6. {3, 4} \subseteq Nat /\ 3 <= 4 /\ 4 <= 4
  OBVIOUS
<1> HIDE DEF a, fields
<1> QED BY <1>2, <1>3, <1>4, <1>5, <1>6, PlainFills, Zenon

LEMMA GlowData ==
  ASSUME NEW address \in Addresses, create_glow_data(address)
  PROVE  Filled'
<1>1. PICK glow \in Uint8s, timestamp \in Uint32s, lit \in Bools :
        LET a == <<glow, timestamp, lit>>
        IN  /\ Called("glow_data", address, a)
            /\ Fill("glow_data", address, Enc!glow_data_payload, Members(a))
  BY DEF create_glow_data
<1> DEFINE a == <<glow, timestamp, lit>>
           fields == Enc!glow_data_payload
<1>2. Len(a) = 3
  OBVIOUS
<1>3. "glow_data" \in WithMap \ Turned
  BY DEF WithMap, Nils, Turned, FUSAIN_MSG
<1>4. fields = DecoderOf["glow_data"] /\ Numbered(fields, 3, 3)
  BY EncoderLists, DecoderLists, Decoders
<1>5. /\ Called("glow_data", address, a)
      /\ Fill("glow_data", address, fields, Members(a))
  BY <1>1
<1>6. {3} \subseteq Nat /\ 3 <= 3 /\ 3 <= 3
  OBVIOUS
<1> HIDE DEF a, fields
<1> QED BY <1>2, <1>3, <1>4, <1>5, <1>6, PlainFills, Zenon

LEMMA TempData ==
  ASSUME NEW address \in Addresses, create_temp_data(address)
  PROVE  Filled'
<1>1. PICK thermometer \in Uint8s, timestamp \in Uint32s, reading \in Floats :
        LET a == <<thermometer, timestamp, reading>>
        IN  /\ Called("temp_data", address, a)
            /\ Fill("temp_data", address, Enc!temp_data_payload, Members(a))
  BY DEF create_temp_data
<1> DEFINE a == <<thermometer, timestamp, reading>>
           fields == Enc!temp_data_payload
<1>2. Len(a) = 3
  OBVIOUS
<1>3. "temp_data" \in WithMap \ Turned
  BY DEF WithMap, Nils, Turned, FUSAIN_MSG
<1>4. fields = DecoderOf["temp_data"] /\ Numbered(fields, 6, 3)
  BY EncoderLists, DecoderLists, Decoders
<1>5. /\ Called("temp_data", address, a)
      /\ Fill("temp_data", address, fields, Members(a))
  BY <1>1
<1>6. {3, 6} \subseteq Nat /\ 3 <= 3 /\ 3 <= 6
  OBVIOUS
<1> HIDE DEF a, fields
<1> QED BY <1>2, <1>3, <1>4, <1>5, <1>6, PlainFills, Zenon

LEMMA DeviceAnnounce ==
  ASSUME NEW address \in Addresses, create_device_announce(address)
  PROVE  Filled'
<1>1. PICK motor_count, thermometer_count, pump_count, glow_count \in Uint8s :
        LET a == <<motor_count, thermometer_count, pump_count, glow_count>>
        IN  /\ Called("device_announce", address, a)
            /\ Fill("device_announce", address, Enc!device_announce_payload, Members(a))
  BY DEF create_device_announce
<1> DEFINE a == <<motor_count, thermometer_count, pump_count, glow_count>>
           fields == Enc!device_announce_payload
<1>2. Len(a) = 4
  OBVIOUS
<1>3. "device_announce" \in WithMap \ Turned
  BY DEF WithMap, Nils, Turned, FUSAIN_MSG
<1>4. fields = DecoderOf["device_announce"] /\ Numbered(fields, 4, 4)
  BY EncoderLists, DecoderLists, Decoders
<1>5. /\ Called("device_announce", address, a)
      /\ Fill("device_announce", address, fields, Members(a))
  BY <1>1
<1>6. {4} \subseteq Nat /\ 4 <= 4 /\ 4 <= 4
  OBVIOUS
<1> HIDE DEF a, fields
<1> QED BY <1>2, <1>3, <1>4, <1>5, <1>6, PlainFills, Zenon

LEMMA PingResponse ==
  ASSUME NEW address \in Addresses, create_ping_response(address)
  PROVE  Filled'
<1>1. PICK uptime_ms \in Uint32s :
        LET a == <<uptime_ms>>
        IN  /\ Called("ping_response", address, a)
            /\ Fill("ping_response", address, Enc!ping_response_payload, Members(a))
  BY DEF create_ping_response
<1> DEFINE a == <<uptime_ms>>
           fields == Enc!ping_response_payload
<1>2. Len(a) = 1
  OBVIOUS
<1>3. "ping_response" \in WithMap \ Turned
  BY DEF WithMap, Nils, Turned, FUSAIN_MSG
<1>4. fields = DecoderOf["ping_response"] /\ Numbered(fields, 1, 1)
  BY EncoderLists, DecoderLists, Decoders
<1>5. /\ Called("ping_response", address, a)
      /\ Fill("ping_response", address, fields, Members(a))
  BY <1>1
<1>6. {1} \subseteq Nat /\ 1 <= 1 /\ 1 <= 1
  OBVIOUS
<1> HIDE DEF a, fields
<1> QED BY <1>2, <1>3, <1>4, <1>5, <1>6, PlainFills, Zenon

LEMMA PingRequest ==
  ASSUME NEW address \in Addresses, create_ping_request(address)
  PROVE  Filled'
BY FillNilFills DEF create_ping_request, Nils

LEMMA DiscoveryRequest ==
  ASSUME NEW address \in Addresses, create_discovery_request(address)
  PROVE  Filled'
BY FillNilFills DEF create_discovery_request, Nils

\* A member is added to a struct.
LEMMA WithIsStruct ==
  ASSUME NEW fields, NEW s, IsStructOf(fields, s), NEW key, NEW value,
         \E n \in 1 .. Len(fields) : fields[n].key = key
  PROVE  IsStructOf(fields, With(s, key, value))
<1> DEFINE w == With(s, key, value)
<1>1. /\ w = [k \in DOMAIN w |-> w[k]] /\ DOMAIN w = DOMAIN s \cup {key}
  BY DEF With
<1> HIDE DEF w
<1>2. IsStructOf(fields, w)
  BY <1>1 DEF IsStructOf
<1> QED BY <1>2 DEF w

LEMMA StateData ==
  ASSUME NEW address \in Addresses, create_state_data(address)
  PROVE  Filled'
<1>1. PICK error, timestamp \in Uint32s, code \in Uint8s, state \in StateValues :
        /\ Called("state_data", address, <<error, code, state, timestamp>>)
        /\ Fill("state_data", address, Enc!state_data_payload,
                Members(<<error # 0, code, state, timestamp>>))
  BY DEF create_state_data
<1> DEFINE a == <<error, code, state, timestamp>>
           b == <<error # 0, code, state, timestamp>>
           fields == Enc!state_data_payload
<1>2. "state_data" \in WithMap
  BY DEF WithMap, Nils, FUSAIN_MSG
<1>3. fields = DecoderOf["state_data"] /\ Numbered(fields, 4, 4)
  BY EncoderLists, DecoderLists, Decoders
<1>4. Called("state_data", address, a) /\ Fill("state_data", address, fields, Members(b))
  BY <1>1
<1>5. Len(b) = 4 /\ \A k \in 0 .. 3 : b[k + 1] = IF k = 0 THEN a[1] # 0 ELSE a[k + 1]
  <2>1. 0 .. 3 = {0, 1, 2, 3}
    OBVIOUS
  <2> QED BY <2>1
<1>6. Meant("state_data", a) = [k \in 0 .. 3 |-> IF k = 0 THEN a[1] # 0 ELSE a[k + 1]]
  BY DEF Meant
<1> HIDE DEF a, b, fields
<1>7. Meant("state_data", a) = Members(b)
  <2>1. Members(b) = [k \in 0 .. 3 |-> b[k + 1]]
    BY <1>5 DEF Members
  <2> QED BY <1>5, <1>6, <2>1
<1>8. IsStructOf(fields, Members(b))
  <2>1. 4 \in Nat /\ 4 <= 4
    OBVIOUS
  <2> QED BY <1>3, <1>5, <2>1, MembersAreStruct, Zenon
<1> QED BY <1>2, <1>3, <1>4, <1>7, <1>8, FillFills

LEMMA TempCommand ==
  ASSUME NEW address \in Addresses, create_temp_command(address)
  PROVE  Filled'
<1>1. PICK thermometer, motor_index \in Uint8s, type \in TempCommands,
           target_temp \in Floats :
        /\ Called("temp_command", address, <<thermometer, type, motor_index, target_temp>>)
        /\ Fill("temp_command", address, Enc!temp_command_payload,
                When(When(Members(<<thermometer, type>>),
                          type = FUSAIN_TEMP_CMD_WATCH_MOTOR, 2, motor_index),
                     type = FUSAIN_TEMP_CMD_SET_TARGET_TEMP, 3, target_temp))
  BY DEF create_temp_command
<1> DEFINE a == <<thermometer, type, motor_index, target_temp>>
           b == <<thermometer, type>>
           fields == Enc!temp_command_payload
           s == Members(b)
           t == When(s, type = 0, 2, motor_index)
           u == When(t, type = 4, 3, target_temp)
<1>2. "temp_command" \in WithMap
  BY DEF WithMap, Nils, FUSAIN_MSG
<1>3. fields = DecoderOf["temp_command"] /\ Numbered(fields, 4, 2)
  BY EncoderLists, DecoderLists, Decoders
<1>4. Called("temp_command", address, a) /\ Fill("temp_command", address, fields, u)
  BY <1>1 DEF FUSAIN_TEMP_CMD_WATCH_MOTOR, FUSAIN_TEMP_CMD_SET_TARGET_TEMP
<1>5. /\ Len(b) = 2 /\ s = [k \in 0 .. 1 |-> b[k + 1]]
      /\ a[1] = b[1] /\ a[2] = b[2] /\ a[2] = type
      /\ a[3] = motor_index /\ a[4] = target_temp
  BY DEF Members
<1>6. Meant("temp_command", a) =
        [k \in {0, 1} \cup (CASE a[2] = 0 -> {2} [] a[2] = 4 -> {3} [] OTHER -> {}) |->
           a[k + 1]]
  BY DEF Meant
<1> HIDE DEF a, b, fields
<1>7. IsStructOf(fields, s)
  <2>1. 4 \in Nat /\ 2 \in Nat /\ 2 <= 4 /\ 2 <= 2
    OBVIOUS
  <2> QED BY <1>3, <1>5, <2>1, MembersAreStruct, Zenon
<1> HIDE DEF s
<1>8. /\ \E n \in 1 .. Len(fields) : fields[n].key = 2
      /\ \E n \in 1 .. Len(fields) : fields[n].key = 3
  <2>1. Len(fields) = 4 /\ fields[3].key = 2 /\ fields[4].key = 3
    BY <1>3 DEF Numbered
  <2> QED BY <2>1
<1>9. /\ type = 0 => t = With(s, 2, motor_index)
      /\ type # 0 => t = s
  BY DEF When
<1> HIDE DEF t
<1>10. /\ type = 4 => u = With(t, 3, target_temp)
       /\ type # 4 => u = t
  BY DEF When
<1> HIDE DEF u
<1>11. IsStructOf(fields, t)
  BY <1>7, <1>8, <1>9, WithIsStruct
<1>12. IsStructOf(fields, u)
  BY <1>8, <1>10, <1>11, WithIsStruct
<1>13. DOMAIN s = {0, 1} /\ s[0] = a[1] /\ s[1] = a[2] /\ s = [k \in {0, 1} |-> a[k + 1]]
  <2>1. 0 .. 1 = {0, 1}
    OBVIOUS
  <2>2. DOMAIN s = {0, 1}
    BY <1>5, <2>1
  <2>3. s = [k \in {0, 1} |-> b[k + 1]]
    BY <1>5, <2>1
  <2>4. ASSUME NEW k \in {0, 1} PROVE b[k + 1] = a[k + 1]
    <3>1. k + 1 \in {1, 2}
      OBVIOUS
    <3> QED BY <1>5, <3>1
  <2> QED BY <2>2, <2>3, <2>4
<1>14. Meant("temp_command", a) = u
  <2>1. CASE type = 0
    <3>1. u = With(s, 2, motor_index)
      BY <1>9, <1>10, <2>1
    <3>2. Meant("temp_command", a) = [k \in {0, 1} \cup {2} |-> a[k + 1]]
      BY <1>5, <1>6, <2>1
    <3> QED BY <1>5, <1>13, <3>1, <3>2 DEF With
  <2>2. CASE type = 4
    <3>1. u = With(s, 3, target_temp)
      BY <1>9, <1>10, <2>2
    <3>2. Meant("temp_command", a) = [k \in {0, 1} \cup {3} |-> a[k + 1]]
      BY <1>5, <1>6, <2>2
    <3> QED BY <1>5, <1>13, <3>1, <3>2 DEF With
  <2>3. CASE type # 0 /\ type # 4
    <3>1. u = s
      BY <1>9, <1>10, <2>3
    <3>2. Meant("temp_command", a) = [k \in {0, 1} |-> a[k + 1]]
      BY <1>5, <1>6, <2>3
    <3> QED BY <1>13, <3>1, <3>2
  <2> QED BY <2>1, <2>2, <2>3
<1> QED BY <1>2, <1>3, <1>4, <1>12, <1>14, FillFills

LEMMA ErrorInvalidCmd ==
  ASSUME NEW address \in Addresses, create_error_invalid_cmd(address)
  PROVE  Filled'
<1>1. PICK error_code \in InvalidCmdErrors, rejected_field, constraint \in Int32s :
        /\ Called("error_invalid_cmd", address, <<error_code, rejected_field, constraint>>)
        /\ Fill("error_invalid_cmd", address, Enc!error_invalid_cmd_payload,
                When(When(Members(<<error_code>>), rejected_field >= 0, 1, rejected_field),
                     constraint >= 0, 2, constraint))
  BY DEF create_error_invalid_cmd
<1> DEFINE a == <<error_code, rejected_field, constraint>>
           b == <<error_code>>
           fields == Enc!error_invalid_cmd_payload
           s == Members(b)
           t == When(s, rejected_field >= 0, 1, rejected_field)
           u == When(t, constraint >= 0, 2, constraint)
           Keys == {n \in 0 .. 2 : n = 0 \/ a[n + 1] >= 0}
<1>2. "error_invalid_cmd" \in WithMap
  BY DEF WithMap, Nils, FUSAIN_MSG
<1>3. fields = DecoderOf["error_invalid_cmd"] /\ Numbered(fields, 3, 1)
  BY EncoderLists, DecoderLists, Decoders
<1>4. Called("error_invalid_cmd", address, a) /\ Fill("error_invalid_cmd", address, fields, u)
  BY <1>1
<1>5. /\ Len(b) = 1 /\ s = [k \in 0 .. 0 |-> b[k + 1]] /\ a[1] = b[1]
      /\ a[2] = rejected_field /\ a[3] = constraint /\ Len(a) = 3
  BY DEF Members
<1>6. Meant("error_invalid_cmd", a) = [k \in Keys |-> a[k + 1]]
  BY <1>5 DEF Meant
<1>7. /\ 0 \in Keys
      /\ 1 \in Keys <=> rejected_field >= 0
      /\ 2 \in Keys <=> constraint >= 0
      /\ Keys \subseteq {0, 1, 2}
  OBVIOUS
<1> HIDE DEF a, b, fields, Keys
<1>8. IsStructOf(fields, s)
  <2>1. 3 \in Nat /\ 1 \in Nat /\ 1 <= 3 /\ 1 <= 1
    OBVIOUS
  <2> QED BY <1>3, <1>5, <2>1, MembersAreStruct, Zenon
<1> HIDE DEF s
<1>9. /\ \E n \in 1 .. Len(fields) : fields[n].key = 1
      /\ \E n \in 1 .. Len(fields) : fields[n].key = 2
  <2>1. Len(fields) = 3 /\ fields[2].key = 1 /\ fields[3].key = 2
    BY <1>3 DEF Numbered
  <2> QED BY <2>1
<1>10. /\ rejected_field >= 0 => t = With(s, 1, rejected_field)
       /\ ~(rejected_field >= 0) => t = s
  BY DEF When
<1> HIDE DEF t
<1>11. /\ constraint >= 0 => u = With(t, 2, constraint)
       /\ ~(constraint >= 0) => u = t
  BY DEF When
<1> HIDE DEF u
<1>12. IsStructOf(fields, t)
  BY <1>8, <1>9, <1>10, WithIsStruct
<1>13. IsStructOf(fields, u)
  BY <1>9, <1>11, <1>12, WithIsStruct
<1>14. DOMAIN s = {0} /\ s[0] = a[1]
  <2>1. 0 .. 0 = {0}
    OBVIOUS
  <2> QED BY <1>5, <2>1
<1>15. /\ DOMAIN t \subseteq {0, 1} /\ 0 \in DOMAIN t /\ t[0] = a[1]
       /\ 1 \in DOMAIN t <=> rejected_field >= 0
       /\ 1 \in DOMAIN t => t[1] = a[2]
  <2>1. CASE rejected_field >= 0
    BY <1>5, <1>10, <1>14, <2>1 DEF With
  <2>2. CASE ~(rejected_field >= 0)
    BY <1>10, <1>14, <2>2
  <2> QED BY <2>1, <2>2
<1>16. /\ DOMAIN u \subseteq {0, 1, 2} /\ 0 \in DOMAIN u /\ u[0] = a[1]
       /\ 1 \in DOMAIN u <=> rejected_field >= 0
       /\ 1 \in DOMAIN u => u[1] = a[2]
       /\ 2 \in DOMAIN u <=> constraint >= 0
       /\ 2 \in DOMAIN u => u[2] = a[3]
  <2>1. CASE constraint >= 0
    BY <1>5, <1>11, <1>15, <2>1 DEF With
  <2>2. CASE ~(constraint >= 0)
    BY <1>11, <1>15, <2>2
  <2> QED BY <2>1, <2>2
<1>17. Meant("error_invalid_cmd", a) = u
  <2>1. DOMAIN u = Keys
    BY <1>7, <1>16
  <2>2. ASSUME NEW k \in Keys PROVE u[k] = a[k + 1]
    <3>1. k \in {0, 1, 2}
      BY <1>7
    <3>2. /\ k = 0 => u[k] = a[k + 1]
          /\ k = 1 => u[k] = a[k + 1]
          /\ k = 2 => u[k] = a[k + 1]
      BY <1>16, <2>1, <2>2
    <3> QED BY <3>1, <3>2
  <2>3. u = [k \in DOMAIN u |-> u[k]]
    BY <1>13 DEF IsStructOf
  <2> QED BY <1>6, <2>1, <2>2, <2>3
<1> QED BY <1>2, <1>3, <1>4, <1>13, <1>17, FillFills

LEMMA ErrorStateReject ==
  ASSUME NEW address \in Addresses, create_error_state_reject(address)
  PROVE  Filled'
<1>1. PICK state \in StateValues, rejection_reason \in Int32s :
        /\ Called("error_state_reject", address, <<state, rejection_reason>>)
        /\ Fill("error_state_reject", address, Enc!error_state_reject_payload,
                When(Members(<<state>>), rejection_reason >= 0, 1, rejection_reason))
  BY DEF create_error_state_reject
<1> DEFINE a == <<state, rejection_reason>>
           b == <<state>>
           fields == Enc!error_state_reject_payload
           s == Members(b)
           t == When(s, rejection_reason >= 0, 1, rejection_reason)
           Keys == {n \in 0 .. 1 : n = 0 \/ a[n + 1] >= 0}
<1>2. "error_state_reject" \in WithMap
  BY DEF WithMap, Nils, FUSAIN_MSG
<1>3. fields = DecoderOf["error_state_reject"] /\ Numbered(fields, 2, 1)
  BY EncoderLists, DecoderLists, Decoders
<1>4. Called("error_state_reject", address, a) /\ Fill("error_state_reject", address, fields, t)
  BY <1>1
<1>5. /\ Len(b) = 1 /\ s = [k \in 0 .. 0 |-> b[k + 1]] /\ a[1] = b[1]
      /\ a[2] = rejection_reason /\ Len(a) = 2
  BY DEF Members
<1>6. Meant("error_state_reject", a) = [k \in Keys |-> a[k + 1]]
  BY <1>5 DEF Meant
<1>7. /\ 0 \in Keys
      /\ 1 \in Keys <=> rejection_reason >= 0
      /\ Keys \subseteq {0, 1}
  OBVIOUS
<1> HIDE DEF a, b, fields, Keys
<1>8. IsStructOf(fields, s)
  <2>1. 2 \in Nat /\ 1 \in Nat /\ 1 <= 2 /\ 1 <= 1
    OBVIOUS
  <2> QED BY <1>3, <1>5, <2>1, MembersAreStruct, Zenon
<1> HIDE DEF s
<1>9. \E n \in 1 .. Len(fields) : fields[n].key = 1
  <2>1. Len(fields) = 2 /\ fields[2].key = 1
    BY <1>3 DEF Numbered
  <2> QED BY <2>1
<1>10. /\ rejection_reason >= 0 => t = With(s, 1, rejection_reason)
       /\ ~(rejection_reason >= 0) => t = s
  BY DEF When
<1> HIDE DEF t
<1>11. IsStructOf(fields, t)
  BY <1>8, <1>9, <1>10, WithIsStruct
<1>12. DOMAIN s = {0} /\ s[0] = a[1]
  <2>1. 0 .. 0 = {0}
    OBVIOUS
  <2> QED BY <1>5, <2>1
<1>13. /\ DOMAIN t \subseteq {0, 1} /\ 0 \in DOMAIN t /\ t[0] = a[1]
       /\ 1 \in DOMAIN t <=> rejection_reason >= 0
       /\ 1 \in DOMAIN t => t[1] = a[2]
  <2>1. CASE rejection_reason >= 0
    BY <1>5, <1>10, <1>12, <2>1 DEF With
  <2>2. CASE ~(rejection_reason >= 0)
    BY <1>10, <1>12, <2>2
  <2> QED BY <2>1, <2>2
<1>14. Meant("error_state_reject", a) = t
  <2>1. DOMAIN t = Keys
    BY <1>7, <1>13
  <2>2. ASSUME NEW k \in Keys PROVE t[k] = a[k + 1]
    <3>1. k \in {0, 1}
      BY <1>7
    <3>2. /\ k = 0 => t[k] = a[k + 1]
          /\ k = 1 => t[k] = a[k + 1]
      BY <1>13, <2>1, <2>2
    <3> QED BY <3>1, <3>2
  <2>3. t = [k \in DOMAIN t |-> t[k]]
    BY <1>11 DEF IsStructOf
  <2> QED BY <1>6, <2>1, <2>2, <2>3
<1> QED BY <1>2, <1>3, <1>4, <1>11, <1>14, FillFills

LEMMA CreateFills ==
  ASSUME NEW address \in Addresses, Create(address)
  PROVE  Filled'
<1>1. CASE create_motor_config(address)
  BY <1>1, MotorConfig
<1>2. CASE create_pump_config(address)
  BY <1>2, PumpConfig
<1>3. CASE create_temp_config(address)
  BY <1>3, TempConfig
<1>4. CASE create_glow_config(address)
  BY <1>4, GlowConfig
<1>5. CASE create_data_subscription(address)
  BY <1>5, DataSubscription
<1>6. CASE create_data_unsubscribe(address)
  BY <1>6, DataUnsubscribe
<1>7. CASE create_telemetry_config(address)
  BY <1>7, TelemetryConfig
<1>8. CASE create_timeout_config(address)
  BY <1>8, TimeoutConfig
<1>9. CASE create_discovery_request(address)
  BY <1>9, DiscoveryRequest
<1>10. CASE create_state_command(address)
  BY <1>10, StateCommand
<1>11. CASE create_motor_command(address)
  BY <1>11, MotorCommand
<1>12. CASE create_pump_command(address)
  BY <1>12, PumpCommand
<1>13. CASE create_glow_command(address)
  BY <1>13, GlowCommand
<1>14. CASE create_temp_command(address)
  BY <1>14, TempCommand
<1>15. CASE create_send_telemetry(address)
  BY <1>15, SendTelemetry
<1>16. CASE create_ping_request(address)
  BY <1>16, PingRequest
<1>17. CASE create_state_data(address)
  BY <1>17, StateData
<1>18. CASE create_motor_data(address)
  BY <1>18, MotorData
<1>19. CASE create_pump_data(address)
  BY <1>19, PumpData
<1>20. CASE create_glow_data(address)
  BY <1>20, GlowData
<1>21. CASE create_temp_data(address)
  BY <1>21, TempData
<1>22. CASE create_device_announce(address)
  BY <1>22, DeviceAnnounce
<1>23. CASE create_ping_response(address)
  BY <1>23, PingResponse
<1>24. CASE create_error_invalid_cmd(address)
  BY <1>24, ErrorInvalidCmd
<1>25. CASE create_error_state_reject(address)
  BY <1>25, ErrorStateReject
<1> QED BY <1>1, <1>2, <1>3, <1>4, <1>5, <1>6, <1>7, <1>8, <1>9,
           <1>10, <1>11, <1>12, <1>13, <1>14, <1>15, <1>16, <1>17, <1>18,
           <1>19, <1>20, <1>21, <1>22, <1>23, <1>24, <1>25 DEF Create

\* Every reachable packet is fresh or what the last call makes of it.
THEOREM MessagesInvariance == Spec => []MessagesInv
<1>1. Init => MessagesInv
  BY DEF Init, MessagesInv
<1>2. ASSUME MessagesInv, [Next]_vars PROVE MessagesInv'
  <2>1. CASE \E address \in Addresses : Create(address)
    <3>1. Filled'
      BY <2>1, CreateFills
    <3> QED BY <3>1 DEF MessagesInv
  <2>2. CASE TakeFreshPacket
    BY <2>2 DEF TakeFreshPacket, MessagesInv
  <2>3. CASE UNCHANGED vars
    <3>1. packet' = packet /\ asked' = asked
      BY <2>3 DEF vars
    <3>2. CASE asked = NoCall /\ packet = FreshPacket
      BY <3>1, <3>2 DEF MessagesInv
    <3>3. CASE Filled
      <4>1. Meaning' = Meaning
        BY <3>1 DEF Meaning
      <4>2. Filled'
        BY <3>1, <3>3, <4>1 DEF Filled, FilledNil, FilledMap
      <4> QED BY <4>2 DEF MessagesInv
    <3> QED BY <1>2, <3>2, <3>3 DEF MessagesInv
  <2> QED BY <1>2, <2>1, <2>2, <2>3 DEF Next
<1> QED BY <1>1, <1>2, PTL DEF Spec

-----------------------------------------------------------------------------
(***************************************************************************)
(* What follows from it.                                                   *)
(***************************************************************************)
GoodList(name) == IsFieldList(DecoderOf[name]) /\ Len(DecoderOf[name]) \in 0 .. 8

LEMMA GoodLists == \A name \in WithMap : GoodList(name)
<1>1. GoodList("motor_config")
  <2>1. Numbered(DecoderOf["motor_config"], 8, 1) /\ 8 \in Nat /\ 8 \in 0 .. 8
    BY DecoderLists, Decoders
  <2> QED BY <2>1, NumberedIsFieldList, Zenon DEF GoodList, Numbered
<1>2. GoodList("pump_config")
  <2>1. Numbered(DecoderOf["pump_config"], 3, 1) /\ 3 \in Nat /\ 3 \in 0 .. 8
    BY DecoderLists, Decoders
  <2> QED BY <2>1, NumberedIsFieldList, Zenon DEF GoodList, Numbered
<1>3. GoodList("temp_config")
  <2>1. Numbered(DecoderOf["temp_config"], 4, 1) /\ 4 \in Nat /\ 4 \in 0 .. 8
    BY DecoderLists, Decoders
  <2> QED BY <2>1, NumberedIsFieldList, Zenon DEF GoodList, Numbered
<1>4. GoodList("glow_config")
  <2>1. Numbered(DecoderOf["glow_config"], 2, 1) /\ 2 \in Nat /\ 2 \in 0 .. 8
    BY DecoderLists, Decoders
  <2> QED BY <2>1, NumberedIsFieldList, Zenon DEF GoodList, Numbered
<1>5. GoodList("data_subscription")
  <2>1. Numbered(DecoderOf["data_subscription"], 1, 1) /\ 1 \in Nat /\ 1 \in 0 .. 8
    BY DecoderLists, Decoders
  <2> QED BY <2>1, NumberedIsFieldList, Zenon DEF GoodList, Numbered
<1>6. GoodList("data_unsubscribe")
  <2>1. Numbered(DecoderOf["data_unsubscribe"], 1, 1) /\ 1 \in Nat /\ 1 \in 0 .. 8
    BY DecoderLists, Decoders
  <2> QED BY <2>1, NumberedIsFieldList, Zenon DEF GoodList, Numbered
<1>7. GoodList("telemetry_config")
  <2>1. Numbered(DecoderOf["telemetry_config"], 2, 2) /\ 2 \in Nat /\ 2 \in 0 .. 8
    BY DecoderLists, Decoders
  <2> QED BY <2>1, NumberedIsFieldList, Zenon DEF GoodList, Numbered
<1>8. GoodList("timeout_config")
  <2>1. Numbered(DecoderOf["timeout_config"], 2, 2) /\ 2 \in Nat /\ 2 \in 0 .. 8
    BY DecoderLists, Decoders
  <2> QED BY <2>1, NumberedIsFieldList, Zenon DEF GoodList, Numbered
<1>9. GoodList("state_command")
  <2>1. Numbered(DecoderOf["state_command"], 2, 1) /\ 2 \in Nat /\ 2 \in 0 .. 8
    BY DecoderLists, Decoders
  <2> QED BY <2>1, NumberedIsFieldList, Zenon DEF GoodList, Numbered
<1>10. GoodList("motor_command")
  <2>1. Numbered(DecoderOf["motor_command"], 2, 2) /\ 2 \in Nat /\ 2 \in 0 .. 8
    BY DecoderLists, Decoders
  <2> QED BY <2>1, NumberedIsFieldList, Zenon DEF GoodList, Numbered
<1>11. GoodList("pump_command")
  <2>1. Numbered(DecoderOf["pump_command"], 2, 2) /\ 2 \in Nat /\ 2 \in 0 .. 8
    BY DecoderLists, Decoders
  <2> QED BY <2>1, NumberedIsFieldList, Zenon DEF GoodList, Numbered
<1>12. GoodList("glow_command")
  <2>1. Numbered(DecoderOf["glow_command"], 2, 2) /\ 2 \in Nat /\ 2 \in 0 .. 8
    BY DecoderLists, Decoders
  <2> QED BY <2>1, NumberedIsFieldList, Zenon DEF GoodList, Numbered
<1>13. GoodList("temp_command")
  <2>1. Numbered(DecoderOf["temp_command"], 4, 2) /\ 4 \in Nat /\ 4 \in 0 .. 8
    BY DecoderLists, Decoders
  <2> QED BY <2>1, NumberedIsFieldList, Zenon DEF GoodList, Numbered
<1>14. GoodList("send_telemetry")
  <2>1. Numbered(DecoderOf["send_telemetry"], 2, 1) /\ 2 \in Nat /\ 2 \in 0 .. 8
    BY DecoderLists, Decoders
  <2> QED BY <2>1, NumberedIsFieldList, Zenon DEF GoodList, Numbered
<1>15. GoodList("state_data")
  <2>1. Numbered(DecoderOf["state_data"], 4, 4) /\ 4 \in Nat /\ 4 \in 0 .. 8
    BY DecoderLists, Decoders
  <2> QED BY <2>1, NumberedIsFieldList, Zenon DEF GoodList, Numbered
<1>16. GoodList("motor_data")
  <2>1. Numbered(DecoderOf["motor_data"], 8, 4) /\ 8 \in Nat /\ 8 \in 0 .. 8
    BY DecoderLists, Decoders
  <2> QED BY <2>1, NumberedIsFieldList, Zenon DEF GoodList, Numbered
<1>17. GoodList("pump_data")
  <2>1. Numbered(DecoderOf["pump_data"], 4, 3) /\ 4 \in Nat /\ 4 \in 0 .. 8
    BY DecoderLists, Decoders
  <2> QED BY <2>1, NumberedIsFieldList, Zenon DEF GoodList, Numbered
<1>18. GoodList("glow_data")
  <2>1. Numbered(DecoderOf["glow_data"], 3, 3) /\ 3 \in Nat /\ 3 \in 0 .. 8
    BY DecoderLists, Decoders
  <2> QED BY <2>1, NumberedIsFieldList, Zenon DEF GoodList, Numbered
<1>19. GoodList("temp_data")
  <2>1. Numbered(DecoderOf["temp_data"], 6, 3) /\ 6 \in Nat /\ 6 \in 0 .. 8
    BY DecoderLists, Decoders
  <2> QED BY <2>1, NumberedIsFieldList, Zenon DEF GoodList, Numbered
<1>20. GoodList("device_announce")
  <2>1. Numbered(DecoderOf["device_announce"], 4, 4) /\ 4 \in Nat /\ 4 \in 0 .. 8
    BY DecoderLists, Decoders
  <2> QED BY <2>1, NumberedIsFieldList, Zenon DEF GoodList, Numbered
<1>21. GoodList("ping_response")
  <2>1. Numbered(DecoderOf["ping_response"], 1, 1) /\ 1 \in Nat /\ 1 \in 0 .. 8
    BY DecoderLists, Decoders
  <2> QED BY <2>1, NumberedIsFieldList, Zenon DEF GoodList, Numbered
<1>22. GoodList("error_invalid_cmd")
  <2>1. Numbered(DecoderOf["error_invalid_cmd"], 3, 1) /\ 3 \in Nat /\ 3 \in 0 .. 8
    BY DecoderLists, Decoders
  <2> QED BY <2>1, NumberedIsFieldList, Zenon DEF GoodList, Numbered
<1>23. GoodList("error_state_reject")
  <2>1. Numbered(DecoderOf["error_state_reject"], 2, 1) /\ 2 \in Nat /\ 2 \in 0 .. 8
    BY DecoderLists, Decoders
  <2> QED BY <2>1, NumberedIsFieldList, Zenon DEF GoodList, Numbered
<1>24. WithMap = {"motor_config", "pump_config", "temp_config", "glow_config",
                   "data_subscription", "data_unsubscribe", "telemetry_config", "timeout_config",
                   "state_command", "motor_command", "pump_command", "glow_command",
                   "temp_command", "send_telemetry", "state_data", "motor_data",
                   "pump_data", "glow_data", "temp_data", "device_announce",
                   "ping_response", "error_invalid_cmd", "error_state_reject"}
  BY DEF WithMap, Nils, FUSAIN_MSG
<1> QED BY <1>1, <1>2, <1>3, <1>4, <1>5, <1>6, <1>7, <1>8, <1>9,
           <1>10, <1>11, <1>12, <1>13, <1>14, <1>15, <1>16, <1>17, <1>18,
           <1>19, <1>20, <1>21, <1>22, <1>23, <1>24

LEMMA Types == \A name \in DOMAIN FUSAIN_MSG : FUSAIN_MSG[name] \in Nat
BY DEF FUSAIN_MSG

\* What encode_cbor_message_header writes, decode_cbor_message_header reads.
THEOREM HeaderRoundTrip ==
  ASSUME NEW type \in Nat, NEW header, header = EncodedHeader(type),
         NEW bytes, bytes = [k \in 0 .. Len(header) - 1 |-> header[k + 1]],
         NEW length \in Nat, length >= Len(header)
  PROVE  /\ Len(header) \in {2, 3}
         /\ HeaderOK(bytes, length) /\ HeaderType(bytes, length) = type
         /\ HeaderLength(bytes, length) = Len(header)
<1>1. CASE type <= IMMEDIATE_MAX
  <2>1. header = <<CBOR_ARRAY_2, type>>
    BY <1>1 DEF EncodedHeader
  <2>2. Len(header) = 2 /\ bytes[0] = CBOR_ARRAY_2 /\ bytes[1] = type
    BY <2>1
  <2> QED BY <1>1, <2>2 DEF HeaderOK, HeaderType, HeaderLength, ShortHeader
<1>2. CASE ~(type <= IMMEDIATE_MAX)
  <2>1. header = <<CBOR_ARRAY_2, CBOR_UINT8_PREFIX, type>>
    BY <1>2 DEF EncodedHeader
  <2>2. /\ Len(header) = 3 /\ bytes[0] = CBOR_ARRAY_2
        /\ bytes[1] = CBOR_UINT8_PREFIX /\ bytes[2] = type
    BY <2>1
  <2>3. CBOR_UINT8_PREFIX > IMMEDIATE_MAX /\ ~(CBOR_UINT8_PREFIX <= IMMEDIATE_MAX)
    BY SizeAssumption
  <2> QED BY <2>2, <2>3 DEF HeaderOK, HeaderType, HeaderLength, ShortHeader, LongHeader
<1> QED BY <1>1, <1>2

\* The numbers of a packet that has been filled.
LEMMA FilledNumbers ==
  ASSUME Filled
  PROVE  /\ asked # NoCall /\ packet.msg_type \in Nat
         /\ Len(packet.header) \in {2, 3} /\ MAX_PAYLOAD_SIZE \in Nat
         /\ MAX_PAYLOAD_SIZE >= 3 + MapOverhead + 8 * 10 /\ MapOverhead \in {1, 2}
<1>1. asked # NoCall
  BY DEF Filled, NoCall, FUSAIN_MSG
<1>2. packet.msg_type \in Nat
  BY Types DEF Filled
<1>3. Len(packet.header) \in {2, 3}
  BY DEF Filled, EncodedHeader
<1> QED BY <1>1, <1>2, <1>3, MessagesAssumption, SizeAssumption, CborAssumption

\* The map of a struct in range always fits.
LEMMA InRangeEncodes ==
  ASSUME Filled, FilledMap
  PROVE  LET fields == DecoderOf[asked.function]
             size == MapSize(Items(fields, Meaning))
         IN  InRanges(fields, Meaning) =>
               /\ size \in Nat /\ size <= MAX_PAYLOAD_SIZE - Len(packet.header)
               /\ Encodes(fields, Meaning, MAX_PAYLOAD_SIZE - Len(packet.header))
<1> DEFINE fields == DecoderOf[asked.function]
           size == MapSize(Items(fields, Meaning))
           room == MAX_PAYLOAD_SIZE - Len(packet.header)
<1> SUFFICES ASSUME InRanges(fields, Meaning)
             PROVE  size \in Nat /\ size <= room /\ Encodes(fields, Meaning, room)
  OBVIOUS
<1>1. IsFieldList(fields) /\ Len(fields) \in 0 .. 8
  BY GoodLists DEF FilledMap, GoodList
<1> DEFINE l == Len(fields)
           h == Len(packet.header)
           max == MapOverhead + 10 * l
<1>2. size \in MapOverhead .. max
  BY <1>1, ItemsSize
<1>3. l \in 0 .. 8 /\ h \in {2, 3}
  BY <1>1, FilledNumbers
<1>4. /\ MAX_PAYLOAD_SIZE \in Nat /\ MAX_PAYLOAD_SIZE >= 3 + MapOverhead + 8 * 10
      /\ MapOverhead \in {1, 2}
  BY FilledNumbers
<1>5. size \in Nat /\ size <= MAX_PAYLOAD_SIZE - h
  <2> HIDE DEF l, h, size
  <2>1. max <= MapOverhead + 80 /\ max \in Nat
    BY <1>3, <1>4
  <2> HIDE DEF max
  <2> QED BY <1>2, <1>3, <1>4, <2>1
<1> QED BY <1>5 DEF Encodes

\* What a message with a map holds, whether or not it could be encoded.
LEMMA MapLength ==
  ASSUME Filled, FilledMap
  PROVE  LET fields == DecoderOf[asked.function]
             h == Len(packet.header)
             size == MapSize(packet.map)
             encoded == Encodes(fields, Meaning, MAX_PAYLOAD_SIZE - h)
         IN  /\ encoded => /\ packet.map = Items(fields, Meaning)
                           /\ size \in Nat /\ size <= MAX_PAYLOAD_SIZE - h
                           /\ packet.length = h + size
             /\ ~encoded => packet.length = 0
<1> DEFINE fields == DecoderOf[asked.function]
           encoded == Encodes(fields, Meaning, MAX_PAYLOAD_SIZE - Len(packet.header))
           size == MapSize(packet.map)
<1>1. /\ encoded => packet.map = Items(fields, Meaning)
                     /\ packet.length = Len(packet.header) + size
      /\ ~encoded => packet.length = 0
  BY DEF FilledMap
<1>2. encoded => size \in Nat /\ size <= MAX_PAYLOAD_SIZE - Len(packet.header)
  BY <1>1, InRangeEncodes DEF Encodes
<1> QED BY <1>1, <1>2

\* A packet holds what the application asked for, in every reachable state: the
\* type invariant.
THEOREM MessagesTypeCorrect == Spec => []TypeOK
<1>1. ASSUME MessagesInv PROVE TypeOK
  <2>1. CASE asked = NoCall /\ packet = FreshPacket
    BY <2>1, MessagesAssumption DEF TypeOK, NoCall, FreshPacket
  <2>2. CASE Filled
    <3> DEFINE h == Len(packet.header)
    <3>1. /\ h \in {2, 3} /\ MAX_PAYLOAD_SIZE \in Nat
          /\ MAX_PAYLOAD_SIZE >= 3 + MapOverhead + 8 * 10 /\ MapOverhead \in {1, 2}
      BY <2>2, FilledNumbers
    <3>2. /\ packet.address \in Addresses \cup {0}
          /\ packet.msg_type \in {0} \cup {FUSAIN_MSG[name] : name \in DOMAIN FUSAIN_MSG}
          /\ asked.function \in {"none"} \cup DOMAIN FUSAIN_MSG
      BY <2>2 DEF Filled
    <3>3. /\ packet.length \in 0 .. MAX_PAYLOAD_SIZE
          /\ packet.length > 0 =>
               packet.length = h + (IF packet.nil THEN 1 ELSE MapSize(packet.map))
      <4>1. CASE FilledNil
        <5>1. packet.length = h + 1 /\ packet.nil = TRUE
          BY <4>1 DEF FilledNil
        <5> HIDE DEF h
        <5> QED BY <3>1, <5>1
      <4>2. CASE FilledMap
        <5> DEFINE fields == DecoderOf[asked.function]
                   encoded == Encodes(fields, Meaning, MAX_PAYLOAD_SIZE - h)
                   size == MapSize(packet.map)
        <5>1. encoded => size \in Nat /\ size <= MAX_PAYLOAD_SIZE - h
                         /\ packet.length = h + size
          BY <2>2, <4>2, MapLength
        <5>2. (~encoded => packet.length = 0) /\ packet.nil = FALSE
          BY <2>2, <4>2, MapLength DEF FilledMap
        <5> HIDE DEF h, encoded, size
        <5>3. CASE encoded
          BY <3>1, <5>1, <5>2, <5>3 DEF size
        <5>4. CASE ~encoded
          BY <3>1, <5>2, <5>4
        <5> QED BY <5>3, <5>4
      <4> QED BY <2>2, <4>1, <4>2 DEF Filled
    <3> QED BY <3>2, <3>3 DEF TypeOK
  <2> QED BY <1>1, <2>1, <2>2 DEF MessagesInv
<1> QED BY <1>1, MessagesInvariance, PTL

\* A packet that can be sent says to the receiver exactly what the last call
\* was asked to say.
THEOREM MeaningArrives == Spec => []RoundTrip
<1>1. ASSUME MessagesInv PROVE RoundTrip
  <2> SUFFICES ASSUME asked # NoCall, packet.length > 0
               PROVE  /\ packet.address = asked.address
                      /\ HeaderOK(HeaderBytes, packet.length)
                      /\ TypeReceived = packet.msg_type
                      /\ TypeReceived = FUSAIN_MSG[asked.function]
                      /\ HeaderLength(HeaderBytes, packet.length) = Len(packet.header)
                      /\ IF asked.function \in Nils THEN packet.nil
                         ELSE /\ ~packet.nil /\ MapReceived(asked.function).ok
                              /\ MapReceived(asked.function).struct = Meaning
    BY DEF RoundTrip, Nils
  <2>1. Filled
    BY <1>1 DEF MessagesInv
  <2> DEFINE h == Len(packet.header)
  <2>2. packet.length \in Nat /\ packet.length >= h
    <3>1. h \in {2, 3}
      BY <2>1, FilledNumbers
    <3>2. CASE FilledNil
      <4>1. packet.length = h + 1
        BY <3>2 DEF FilledNil
      <4> HIDE DEF h
      <4> QED BY <3>1, <4>1
    <3>3. CASE FilledMap
      <4> DEFINE size == MapSize(packet.map)
      <4>1. size \in Nat /\ packet.length = h + size
        <5>1. packet.length # 0
          OBVIOUS
        <5> QED BY <2>1, <3>3, <5>1, MapLength
      <4> HIDE DEF h, size
      <4> QED BY <3>1, <4>1
    <3> QED BY <2>1, <3>2, <3>3 DEF Filled
  <2>3. /\ HeaderOK(HeaderBytes, packet.length)
        /\ HeaderType(HeaderBytes, packet.length) = packet.msg_type
        /\ HeaderLength(HeaderBytes, packet.length) = h
    <3> DEFINE type == packet.msg_type
               header == packet.header
               bytes == HeaderBytes
               length == packet.length
    <3>1. type \in Nat /\ header = EncodedHeader(type)
      BY <2>1, FilledNumbers DEF Filled
    <3>2. bytes = [k \in 0 .. Len(header) - 1 |-> header[k + 1]]
      BY DEF HeaderBytes
    <3>3. length \in Nat /\ length >= Len(header)
      BY <2>2
    <3> HIDE DEF type, header, bytes, length
    <3>4. /\ HeaderOK(bytes, length) /\ HeaderType(bytes, length) = type
          /\ HeaderLength(bytes, length) = Len(header)
      BY <3>1, <3>2, <3>3, HeaderRoundTrip
    <3> QED BY <3>4 DEF type, header, bytes, length
  <2>4. CASE FilledNil
    BY <2>1, <2>3, <2>4 DEF FilledNil, Filled, TypeReceived
  <2>5. CASE FilledMap
    <3> DEFINE fields == DecoderOf[asked.function]
    <3>1. /\ asked.function \notin Nils /\ packet.nil = FALSE
          /\ IsStructOf(fields, Meaning) /\ packet.map = Items(fields, Meaning)
          /\ InRanges(fields, Meaning)
      BY <2>5 DEF FilledMap, WithMap, Encodes
    <3>2. IsFieldList(fields)
      BY <2>5, GoodLists DEF FilledMap, GoodList
    <3>3. Decoded(fields, packet.map).ok /\ Decoded(fields, packet.map).struct = Meaning
      BY <3>1, <3>2, CodecRoundTrip
    <3> QED BY <2>1, <2>3, <3>1, <3>3 DEF Filled, TypeReceived, MapReceived
  <2> QED BY <2>1, <2>4, <2>5 DEF Filled
<1> QED BY <1>1, MessagesInvariance, PTL

\* A function gives up only for an argument outside the range of its member:
\* there is room for every message.
THEOREM FailureHasReason == Spec => []FailsOnlyOutOfRange
<1>1. ASSUME MessagesInv PROVE FailsOnlyOutOfRange
  <2> DEFINE fields == DecoderOf[asked.function]
  <2> SUFFICES ASSUME asked # NoCall, packet.length = 0
               PROVE  \E n \in DOMAIN fields :
                        /\ fields[n].key \in DOMAIN Meaning
                        /\ ~InRange(fields[n].kind, Meaning[fields[n].key])
    BY DEF FailsOnlyOutOfRange
  <2>1. Filled
    BY <1>1 DEF MessagesInv
  <2>2. Len(packet.header) \in {2, 3}
    BY <2>1, FilledNumbers
  <2>3. FilledMap
    BY <2>1, <2>2 DEF Filled, FilledNil
  <2>4. ~InRanges(fields, Meaning)
    <3> SUFFICES ASSUME InRanges(fields, Meaning) PROVE FALSE
      OBVIOUS
    <3> DEFINE h == Len(packet.header)
               size == MapSize(packet.map)
    <3>1. size \in Nat /\ packet.length = h + size
      BY <2>1, <2>3, InRangeEncodes, MapLength
    <3>2. h \in {2, 3} /\ packet.length = 0
      BY <2>2
    <3> HIDE DEF h, size
    <3> QED BY <3>1, <3>2
  <2>5. IsStructOf(fields, Meaning) /\ IsFieldList(fields)
    BY <2>3, GoodLists DEF FilledMap, GoodList
  <2>6. DOMAIN fields = 1 .. Len(fields)
    BY <2>5, FieldShape
  <2> HIDE DEF fields
  <2> QED BY <2>4, <2>5, <2>6 DEF InRanges, IsStructOf
<1> QED BY <1>1, MessagesInvariance, PTL
=============================================================================
