----------------------------- MODULE WireFormat -----------------------------
(***************************************************************************)
(* The payloads of the CN105 protocol: the tables of the codes, the SET    *)
(* packet of the settings (create_packet) and the decoders of decoder.h.   *)
(* Bytes are numbers in 0 .. 255.  A packet to send is the record of its   *)
(* bytes, byte 6 being b6; a payload that was received is a function on    *)
(* 0 .. length - 1.  Temperatures are integers, in tenths of a degree.     *)
(* What a decoder cannot tell is None.                                     *)
(***************************************************************************)
EXTENDS Integers

CONSTANT None       \* an empty std::optional

ASSUME NoneAssumption == None \notin Int

Byte == 0 .. 255

Smaller(a, b) == IF a < b THEN a ELSE b
Larger(a, b) == IF a < b THEN b ELSE a

-----------------------------------------------------------------------------
(***************************************************************************)
(* Tables and lookups.                                                     *)
(***************************************************************************)
POWER_TABLE == [OFF |-> 0, ON |-> 1]
MODE_TABLE == [HEAT |-> 1, DRY |-> 2, COOL |-> 3, FAN |-> 7, AUTO |-> 8]
FAN_TABLE == [AUTO |-> 0, QUIET |-> 1, F1 |-> 2, F2 |-> 3, F3 |-> 5, F4 |-> 6]
VANE_TABLE == [AUTO |-> 0, V1 |-> 1, V2 |-> 2, V3 |-> 3, V4 |-> 4, V5 |-> 5, SWING |-> 7]
WIDEVANE_TABLE ==
    [LEFT_LEFT |-> 1, LEFT |-> 2, CENTER |-> 3, RIGHT |-> 4, RIGHT_RIGHT |-> 5, LEFT_RIGHT |-> 8,
     SWING |-> 12, AIRFLOW_CONTROL |-> 0]
STAGE_TABLE ==
    [IDLE |-> 0, LOW |-> 1, GENTLE |-> 2, MEDIUM |-> 3, MODERATE |-> 4, HIGH |-> 5, DIFFUSE |-> 6]
SUB_MODE_TABLE ==
    [NORMAL |-> 0, WARMUP |-> 1, DEFROST |-> 2, PREHEAT |-> 4, STANDBY |-> 8, OFF |-> 16]
AUTO_SUB_MODE_TABLE ==
    [AUTO_OFF |-> 0, AUTO_COOL |-> 1, AUTO_HEAT |-> 2, AUTO_LEADER |-> 3, AUTO_INACTIVE |-> 64,
     AUTO_IDLE |-> 65, AUTO_ACTIVE |-> 67]
AIRFLOW_CONTROL_TABLE == [EVEN |-> 0, INDIRECT |-> 1, DIRECT |-> 2]

Codes(table) == DOMAIN table \union {"UNKNOWN"}

wire_to_enum(table, byte) ==
    IF \E code \in DOMAIN table : table[code] = byte
      THEN CHOOSE code \in DOMAIN table : table[code] = byte
      ELSE None

enum_to_wire(table, code) == IF code \in DOMAIN table THEN table[code] ELSE None

resolve_or_keep(decoded, current, fallback) ==
    IF decoded # None THEN decoded ELSE IF current # "UNKNOWN" THEN current ELSE fallback

-----------------------------------------------------------------------------
(***************************************************************************)
(* cn105_protocol.h: half degrees.  std::round goes away from zero.        *)
(***************************************************************************)
\* std::round(temperature * 2.0f)
HalfDegrees(t) == IF t >= 0 THEN (2 * t + 5) \div 10 ELSE -((5 - 2 * t) \div 10)

encode_temperature_b(t) == (HalfDegrees(t) + 128) % 256

\* The byte of a remote temperature packet; the value is clamped to 8 .. 37.5 degrees.
encode_remote_temperature(t) == HalfDegrees(Larger(80, Smaller(t, 375))) + 128

\* Encoding B read back.
decode_temperature_b(byte) == (byte - 128) * 5

-----------------------------------------------------------------------------
(***************************************************************************)
(* The SET packet, from byte 5 on: bytes 6 and 7 flag the fields it sets.  *)
(* The left vane of a split unit (byte 16) and the checksum are left out.  *)
(***************************************************************************)
Flag(field, bit) == IF field = None THEN 0 ELSE bit
OrZero(field) == IF field = None THEN 0 ELSE field

create_packet(wanted, wide_vane_adj) ==
    LET power == enum_to_wire(POWER_TABLE, wanted.power)
        mode == enum_to_wire(MODE_TABLE, wanted.mode)
        temp == IF wanted.temperature = None THEN None
                                             ELSE encode_temperature_b(wanted.temperature)
        fan == enum_to_wire(FAN_TABLE, wanted.fan)
        vane == enum_to_wire(VANE_TABLE, wanted.vane)
        wide_vane == enum_to_wire(WIDEVANE_TABLE, wanted.wide_vane)
    IN  [b5 |-> 1,
         b6 |-> Flag(power, 1) + Flag(mode, 2) + Flag(temp, 4) + Flag(fan, 8) + Flag(vane, 16),
         b7 |-> Flag(wide_vane, 1),
         b8 |-> OrZero(power), b9 |-> OrZero(mode),
         b11 |-> OrZero(fan), b12 |-> OrZero(vane),
         b18 |-> OrZero(wide_vane) + (IF wide_vane # None /\ wide_vane_adj THEN 128 ELSE 0),
         b19 |-> OrZero(temp)]

\* The run states packet (0x08).
run_states_packet(airflow_control) ==
    LET airflow == enum_to_wire(AIRFLOW_CONTROL_TABLE, airflow_control)
    IN  [b5 |-> 8, b6 |-> Flag(airflow, 32), b11 |-> OrZero(airflow)]

Flagged(flags, bit) == (flags \div bit) % 2 = 1

-----------------------------------------------------------------------------
(***************************************************************************)
(* decoder.h.  No decoder reads a payload past its length.                 *)
(***************************************************************************)
\* 0x02.  i-See is folded into the mode; wide_vane_present is data[10] # 0.
decode_settings(data, length) ==
    IF length < 15 THEN None ELSE
    LET i_see == data[4] > 8
        wide_vane_present == data[10] # 0
        airflow_control_reported == data[10] = 128 /\ i_see
    IN  [power |-> wire_to_enum(POWER_TABLE, data[3]),
         i_see |-> i_see,
         mode |-> wire_to_enum(MODE_TABLE, IF i_see THEN data[4] - 8 ELSE data[4]),
         temperature |-> IF data[11] = 0 THEN None ELSE decode_temperature_b(data[11]),
         fan |-> wire_to_enum(FAN_TABLE, data[6]),
         vane |-> wire_to_enum(VANE_TABLE, data[7]),
         wide_vane_present |-> wide_vane_present,
         wide_vane |-> IF wide_vane_present THEN wire_to_enum(WIDEVANE_TABLE, data[10] % 16)
                                            ELSE None,
         wide_vane_adjustment |-> data[10] \div 16 = 8,
         target_humidity |-> IF data[12] \in 1 .. 100 THEN data[12] ELSE None,
         airflow_control |-> IF airflow_control_reported
                               THEN wire_to_enum(AIRFLOW_CONTROL_TABLE, data[14])
                               ELSE "EVEN"]

\* 0x03.  Minutes of operation take three bytes; None on a payload too short for them.
decode_room_temperature(data, length) ==
    IF length < 7 THEN None ELSE
    [outside |-> IF data[5] > 1 THEN decode_temperature_b(data[5]) ELSE None,
     room |-> IF data[6] # 0 THEN decode_temperature_b(data[6])
              ELSE IF data[3] <= 31 THEN (10 + data[3]) * 10 ELSE None,
     runtime_minutes |-> IF length >= 14 THEN data[11] * 65536 + data[12] * 256 + data[13]
                                         ELSE None]

\* 0x06.
decode_status(data, length) ==
    IF length < 9 THEN None ELSE
    [operating |-> data[4] # 0,
     compressor_frequency |-> IF data[4] # 0 THEN data[3] ELSE 0,
     raw_input_power |-> data[5] * 256 + data[6],
     raw_energy_usage |-> data[7] * 256 + data[8]]

\* 0x09.
decode_sub_modes(data, length) ==
    IF length < 6 THEN None ELSE
    [stage |-> wire_to_enum(STAGE_TABLE, data[4]),
     sub_mode |-> wire_to_enum(SUB_MODE_TABLE, data[3]),
     auto_sub_mode |-> wire_to_enum(AUTO_SUB_MODE_TABLE, data[5])]

\* 0x04.  Bit 7 of data[4] is a flag of the protocol.
decode_error_info(data, length) ==
    IF length < 6 THEN None ELSE
    [code |-> data[4] % 128, sub_code |-> data[5],
     no_error |-> data[4] % 128 = 0 /\ data[5] = 0]
=============================================================================
