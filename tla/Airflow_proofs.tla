--------------------------- MODULE Airflow_proofs ---------------------------
(***************************************************************************)
(* Proofs about WireFormat and Airflow: what is encoded reads back, no     *)
(* decoder leaves its payload, calls are kept until they are done, and     *)
(* what Home Assistant is shown is an option, the swing mode being that of *)
(* both vanes, and what the unit does where the driver knows it.           *)
(***************************************************************************)
EXTENDS Airflow, TLAPS

(***************************************************************************)
(* Tables.                                                                 *)
(***************************************************************************)
Tables == {POWER_TABLE, MODE_TABLE, FAN_TABLE, VANE_TABLE, WIDEVANE_TABLE, STAGE_TABLE,
           SUB_MODE_TABLE, AUTO_SUB_MODE_TABLE, AIRFLOW_CONTROL_TABLE}

Injective(table) ==
    \A a \in DOMAIN table : \A b \in DOMAIN table : table[a] = table[b] => a = b

\* Every code has a byte, and UNKNOWN has none.
LEMMA TableTypes ==
    \A table \in Tables :
      /\ \A code \in DOMAIN table : table[code] \in Byte
      /\ "UNKNOWN" \notin DOMAIN table
BY DEF Tables, POWER_TABLE, MODE_TABLE, FAN_TABLE, VANE_TABLE, WIDEVANE_TABLE, STAGE_TABLE,
       SUB_MODE_TABLE, AUTO_SUB_MODE_TABLE, AIRFLOW_CONTROL_TABLE, Byte

LEMMA TablesInjective == \A table \in Tables : Injective(table)
<1>1. Injective(POWER_TABLE)
  BY DEF Injective, POWER_TABLE
<1>2. Injective(MODE_TABLE)
  BY DEF Injective, MODE_TABLE
<1>3. Injective(FAN_TABLE)
  BY DEF Injective, FAN_TABLE
<1>4. Injective(VANE_TABLE)
  BY DEF Injective, VANE_TABLE
<1>5. Injective(WIDEVANE_TABLE)
  BY DEF Injective, WIDEVANE_TABLE
<1>6. Injective(STAGE_TABLE)
  BY DEF Injective, STAGE_TABLE
<1>7. Injective(SUB_MODE_TABLE)
  BY DEF Injective, SUB_MODE_TABLE
<1>8. Injective(AUTO_SUB_MODE_TABLE)
  BY DEF Injective, AUTO_SUB_MODE_TABLE
<1>9. Injective(AIRFLOW_CONTROL_TABLE)
  BY DEF Injective, AIRFLOW_CONTROL_TABLE
<1> QED
  BY <1>1, <1>2, <1>3, <1>4, <1>5, <1>6, <1>7, <1>8, <1>9 DEF Tables

\* The byte of every code, in every table, is read back as that code: no two codes share a
\* byte, and no code is taken for one that is missing.
THEOREM CodesReadBack ==
    \A table \in Tables : \A code \in DOMAIN table :
      /\ enum_to_wire(table, code) \in Byte
      /\ enum_to_wire(table, code) # None
      /\ wire_to_enum(table, enum_to_wire(table, code)) = code
<1> SUFFICES ASSUME NEW table \in Tables, NEW code \in DOMAIN table
             PROVE  /\ enum_to_wire(table, code) \in Byte
                    /\ enum_to_wire(table, code) # None
                    /\ wire_to_enum(table, enum_to_wire(table, code)) = code
  OBVIOUS
<1>1. enum_to_wire(table, code) = table[code]
  BY DEF enum_to_wire
<1>2. table[code] \in Byte /\ table[code] # None
  BY TableTypes, NoneAssumption DEF Byte
<1>3. wire_to_enum(table, table[code]) = code
  BY TablesInjective DEF wire_to_enum, Injective
<1> QED
  BY <1>1, <1>2, <1>3

LEMMA LookupTypes ==
    ASSUME NEW table \in Tables, NEW byte, NEW code
    PROVE  /\ wire_to_enum(table, byte) \in DOMAIN table \union {None}
           /\ OrZero(enum_to_wire(table, code)) \in Byte
<1>1. wire_to_enum(table, byte) \in DOMAIN table \union {None}
  BY DEF wire_to_enum
<1>2. enum_to_wire(table, code) \in Byte \union {None}
  BY TableTypes DEF enum_to_wire
<1>3. 0 \in Byte
  BY DEF Byte
<1> QED
  BY <1>1, <1>2, <1>3 DEF OrZero

LEMMA ResolveTypes ==
    ASSUME NEW codes, NEW decoded \in codes \union {None}, NEW fallback \in codes,
           NEW known \in codes \union {"UNKNOWN"}
    PROVE  resolve_or_keep(decoded, known, fallback) \in codes
BY DEF resolve_or_keep

\* A temperature in half degrees, which is what a setpoint and a remote temperature are
\* rounded to, is read back as it was, and a setpoint never as the byte 0, by which a
\* unit says that it has none in this encoding.
THEOREM TemperaturesReadBack ==
    \A h \in -128 .. 127 :
      /\ encode_temperature_b(5 * h) \in Byte
      /\ decode_temperature_b(encode_temperature_b(5 * h)) = 5 * h
      /\ h \in 32 .. 62 => encode_temperature_b(5 * h) # 0
<1> SUFFICES ASSUME NEW h \in -128 .. 127
             PROVE  /\ encode_temperature_b(5 * h) \in Byte
                    /\ decode_temperature_b(encode_temperature_b(5 * h)) = 5 * h
                    /\ h \in 32 .. 62 => encode_temperature_b(5 * h) # 0
  OBVIOUS
<1>1. HalfDegrees(5 * h) = h
  BY DEF HalfDegrees
<1>2. encode_temperature_b(5 * h) = h + 128
  BY <1>1 DEF encode_temperature_b
<1> QED
  BY <1>2 DEF decode_temperature_b, Byte

(***************************************************************************)
(* Decoders.                                                               *)
(***************************************************************************)
\* What a decoder makes of a payload depends on nothing past its declared length, whatever
\* the length is: a frame that is too short never shows what the one before it left in
\* the buffer of the parser.
THEOREM DecodersStayInFrame ==
    \A length \in Nat : \A data, other :
      (\A i \in 0 .. length - 1 : data[i] = other[i]) =>
        /\ decode_settings(data, length) = decode_settings(other, length)
        /\ decode_room_temperature(data, length) = decode_room_temperature(other, length)
        /\ decode_status(data, length) = decode_status(other, length)
        /\ decode_sub_modes(data, length) = decode_sub_modes(other, length)
        /\ decode_error_info(data, length) = decode_error_info(other, length)
<1> SUFFICES ASSUME NEW length \in Nat, NEW data, NEW other,
                    \A i \in 0 .. length - 1 : data[i] = other[i]
             PROVE  /\ decode_settings(data, length) = decode_settings(other, length)
                    /\ decode_room_temperature(data, length)
                         = decode_room_temperature(other, length)
                    /\ decode_status(data, length) = decode_status(other, length)
                    /\ decode_sub_modes(data, length) = decode_sub_modes(other, length)
                    /\ decode_error_info(data, length) = decode_error_info(other, length)
  OBVIOUS
<1>1. decode_settings(data, length) = decode_settings(other, length)
  <2>1. CASE length < 15
    BY <2>1 DEF decode_settings
  <2>2. CASE length >= 15
    <3>1. \A i \in {3, 4, 6, 7, 10, 11, 12, 14} : data[i] = other[i]
      BY <2>2
    <3> QED
      BY <3>1, Zenon DEF decode_settings
  <2> QED
    BY <2>1, <2>2
<1>2. decode_room_temperature(data, length) = decode_room_temperature(other, length)
  <2>1. CASE length < 7
    BY <2>1 DEF decode_room_temperature
  <2>2. CASE length >= 7 /\ length < 14
    BY <2>2 DEF decode_room_temperature
  <2>3. CASE length >= 14
    BY <2>3 DEF decode_room_temperature
  <2> QED
    BY <2>1, <2>2, <2>3
<1>3. decode_status(data, length) = decode_status(other, length)
  BY DEF decode_status
<1>4. decode_sub_modes(data, length) = decode_sub_modes(other, length)
  BY DEF decode_sub_modes
<1>5. decode_error_info(data, length) = decode_error_info(other, length)
  BY DEF decode_error_info
<1> QED
  BY <1>1, <1>2, <1>3, <1>4, <1>5

\* Of any bytes, what the decoder of the settings finds is a code of the table or nothing.
LEMMA DecodedSettingsTypes ==
    ASSUME NEW data
    PROVE  LET decoded == decode_settings(data, 16)
           IN  /\ decoded.fan \in DOMAIN FAN_TABLE \union {None}
               /\ decoded.vane \in DOMAIN VANE_TABLE \union {None}
               /\ decoded.wide_vane \in DOMAIN WIDEVANE_TABLE \union {None}
               /\ decoded.i_see \in BOOLEAN
               /\ decoded.wide_vane_present \in BOOLEAN
               /\ decoded.wide_vane_adjustment \in BOOLEAN
               /\ decoded.airflow_control \in DOMAIN AIRFLOW_CONTROL_TABLE \union {None}
<1>1. "EVEN" \in DOMAIN AIRFLOW_CONTROL_TABLE
  BY DEF AIRFLOW_CONTROL_TABLE
<1>2. \A table \in Tables : \A byte : wire_to_enum(table, byte) \in DOMAIN table \union {None}
  BY LookupTypes
<1>3. {FAN_TABLE, VANE_TABLE, WIDEVANE_TABLE, AIRFLOW_CONTROL_TABLE} \subseteq Tables
  BY DEF Tables
<1>4. (data[4] > 8) \in BOOLEAN
  OBVIOUS
<1> QED
  BY <1>1, <1>2, <1>3, <1>4 DEF decode_settings

(***************************************************************************)
(* Type correctness.                                                       *)
(***************************************************************************)
LEMMA OurTables == {FAN_TABLE, VANE_TABLE, WIDEVANE_TABLE, AIRFLOW_CONTROL_TABLE} \subseteq Tables
BY DEF Tables

LEMMA FanSpeedTypes ==
    /\ \A mode \in DOMAIN FanSpeeds : FanSpeeds[mode] \in DOMAIN FAN_TABLE
    /\ \A fan : FanModeOf(fan) \in DOMAIN FanSpeeds
BY DEF FanSpeeds, FAN_TABLE, FanModeOf

\* What the selects and the climate entity are told keeps them well typed.
LEMMA ShownTypes ==
    ASSUME NEW shows \in Shown,
           NEW vane \in Codes(VANE_TABLE), NEW wide_vane \in Codes(WIDEVANE_TABLE)
    PROVE  update_extra_select_components(shows, vane, wide_vane) \in Shown
BY DEF update_extra_select_components, Shown, Codes

LEMMA CheckTypes ==
    ASSUME shown \in Shown, NEW fan, NEW vane, NEW wide_vane
    PROVE  /\ check_fan_settings(fan) \in DOMAIN FanSpeeds \union {None}
           /\ check_vane_settings(vane) \in {"OFF", "VERTICAL", "HORIZONTAL", "BOTH"}
           /\ check_wide_vane_settings(vane, wide_vane)
                \in {"OFF", "VERTICAL", "HORIZONTAL", "BOTH"}
<1>1. \A v, w : SwingModeOf(v, w) \in {"OFF", "VERTICAL", "HORIZONTAL", "BOTH"}
  BY DEF SwingModeOf
<1> QED
  BY <1>1, FanSpeedTypes
     DEF check_fan_settings, check_vane_settings, check_wide_vane_settings, Shown

LEMMA PublishTypes ==
    ASSUME shown \in Shown, current \in Current, wanted \in Wanted
    PROVE  publish_wanted_settings_state_to_ha \in Shown
<1> DEFINE vane == IF wanted.vane = "UNKNOWN" THEN current.vane ELSE wanted.vane
           wide_vane == IF wanted.wide_vane = "UNKNOWN" THEN current.wide_vane
                                                        ELSE wanted.wide_vane
           fan == IF wanted.fan = "UNKNOWN" THEN shown
                  ELSE [shown EXCEPT !.fan_mode = check_fan_settings(wanted.fan)]
           swing == [fan EXCEPT !.swing_mode = check_vane_settings(vane)]
<1>1. vane \in Codes(VANE_TABLE) /\ wide_vane \in Codes(WIDEVANE_TABLE)
  BY DEF Current, Wanted
<1>2. fan \in Shown
  BY CheckTypes DEF Shown
<1>3. swing \in Shown
  <2> HIDE DEF fan, vane
  <2> QED
    BY <1>2, CheckTypes DEF Shown
<1>4. update_extra_select_components(swing, vane, wide_vane) \in Shown
  <2> HIDE DEF swing, vane, wide_vane
  <2> QED
    BY <1>1, <1>3, ShownTypes
<1> QED
  BY <1>2, <1>4 DEF publish_wanted_settings_state_to_ha

LEMMA ReceivedTypes ==
    ASSUME current \in Current, NEW data
    PROVE  LET received == Received(decode_settings(data, 16))
           IN  /\ received.fan \in DOMAIN FAN_TABLE
               /\ received.vane \in DOMAIN VANE_TABLE
               /\ received.wide_vane \in Codes(WIDEVANE_TABLE)
               /\ received.i_see \in BOOLEAN
<1> DEFINE decoded == decode_settings(data, 16)
<1>1. /\ "AUTO" \in DOMAIN FAN_TABLE /\ "AUTO" \in DOMAIN VANE_TABLE
      /\ "CENTER" \in DOMAIN WIDEVANE_TABLE
  BY DEF FAN_TABLE, VANE_TABLE, WIDEVANE_TABLE
<1>2. /\ decoded.fan \in DOMAIN FAN_TABLE \union {None}
      /\ decoded.vane \in DOMAIN VANE_TABLE \union {None}
      /\ decoded.wide_vane \in DOMAIN WIDEVANE_TABLE \union {None}
      /\ decoded.i_see \in BOOLEAN
  BY DecodedSettingsTypes
<1> HIDE DEF decoded
<1>3. resolve_or_keep(decoded.fan, current.fan, "AUTO") \in DOMAIN FAN_TABLE
  BY <1>1, <1>2, ResolveTypes DEF Current, Codes
<1>4. resolve_or_keep(decoded.vane, current.vane, "AUTO") \in DOMAIN VANE_TABLE
  BY <1>1, <1>2, ResolveTypes DEF Current, Codes
<1>5. resolve_or_keep(decoded.wide_vane, current.wide_vane, "CENTER") \in DOMAIN WIDEVANE_TABLE
  BY <1>1, <1>2, ResolveTypes DEF Current, Codes
<1> QED
  BY <1>2, <1>3, <1>4, <1>5 DEF Received, Codes, decoded

LEMMA UpdateTypes ==
    ASSUME current \in Current, shown \in Shown, NEW others,
           NEW fan \in Codes(FAN_TABLE), NEW vane \in Codes(VANE_TABLE),
           NEW wide_vane \in Codes(WIDEVANE_TABLE), NEW settings,
           settings.vane = vane, settings.wide_vane = wide_vane
    PROVE  heatpump_update(settings, others) \in Shown
<1> DEFINE learned == Learned(settings)
           told == [shown EXCEPT
                      !.fan_mode = check_fan_settings(learned.fan),
                      !.swing_mode = check_wide_vane_settings(learned.vane, learned.wide_vane)]
<1>1. told \in Shown
  <2> HIDE DEF learned
  <2> QED
    BY CheckTypes DEF Shown
<1>2. update_extra_select_components(told, settings.vane, settings.wide_vane) \in Shown
  <2> HIDE DEF told
  <2> QED
    BY <1>1, ShownTypes
<1> QED
  BY <1>2 DEF heatpump_update, publish_state_to_ha

\* An answer leaves what the driver knows, and what is shown, well typed.
LEMMA ReadbackTypes ==
    ASSUME current \in Current, shown \in Shown, wanted \in Wanted, NEW data, NEW others,
           get_settings_from_response_packet(data, others)
    PROVE  current' \in Current /\ shown' \in Shown
<1> DEFINE decoded == decode_settings(data, 16)
           received == Received(decoded)
           airflow == IF "airflow_select" \notin has \/ decoded.airflow_control = None
                        THEN current.airflow_control ELSE decoded.airflow_control
           updated == heatpump_update(received, others)
<1>1. /\ decoded.i_see \in BOOLEAN
      /\ decoded.wide_vane_adjustment \in BOOLEAN
      /\ decoded.airflow_control \in DOMAIN AIRFLOW_CONTROL_TABLE \union {None}
  BY DecodedSettingsTypes
<1>2. /\ received.fan \in Codes(FAN_TABLE)
      /\ received.vane \in Codes(VANE_TABLE)
      /\ received.wide_vane \in Codes(WIDEVANE_TABLE)
  BY ReceivedTypes DEF Codes
<1>3. /\ current' = [fan |-> Learned(received).fan, vane |-> Learned(received).vane,
                     wide_vane |-> Learned(received).wide_vane, i_see |-> decoded.i_see,
                     airflow_control |-> airflow,
                     wide_vane_adj |-> IF decoded.wide_vane_present /\ FollowsWideVane
                                         THEN decoded.wide_vane_adjustment
                                         ELSE current.wide_vane_adj]
      /\ shown' = [updated EXCEPT
                     !.airflow_control = IF airflow # current.airflow_control THEN airflow ELSE @]
  BY DEF get_settings_from_response_packet
<1> HIDE DEF decoded, received
<1>4. updated \in Shown
  BY <1>2, UpdateTypes
<1>5. /\ airflow \in Codes(AIRFLOW_CONTROL_TABLE)
      /\ airflow # current.airflow_control => airflow \in DOMAIN AIRFLOW_CONTROL_TABLE
  BY <1>1 DEF Current, Codes
<1>6. /\ Learned(received).fan \in Codes(FAN_TABLE)
      /\ Learned(received).vane \in Codes(VANE_TABLE)
      /\ Learned(received).wide_vane \in Codes(WIDEVANE_TABLE)
  BY <1>2 DEF Learned, Current
<1>7. current' \in Current
  <2> HIDE DEF airflow
  <2> QED
    BY <1>1, <1>3, <1>5, <1>6 DEF Current
<1>8. shown' \in Shown
  <2> HIDE DEF airflow, updated
  <2> QED
    BY <1>3, <1>4, <1>5 DEF Shown
<1> QED
  BY <1>7, <1>8

\* What a SET makes of the unit are bytes.
LEMMA ObeyTypes ==
    ASSUME unit \in UnitStates
    PROVE  /\ Obey(SetPacket) \in UnitStates
           /\ \A airflow : Obey(run_states_packet(airflow)) \in UnitStates
<1>1. \A table \in Tables : \A code : OrZero(enum_to_wire(table, code)) \in Byte
  BY LookupTypes
<1>2. SetPacket.b5 = 1 /\ SetPacket.b11 \in Byte /\ SetPacket.b12 \in Byte /\ SetPacket.b18 \in Int
  BY <1>1, OurTables DEF SetPacket, create_packet, Byte
<1>3. SetPacket.b18 % 16 \in 0 .. 15
  BY <1>2
<1>5. Obey(SetPacket) \in UnitStates
  <2> DEFINE packet == SetPacket
  <2> HIDE DEF packet
  <2>1. packet.b5 = 1 /\ packet.b11 \in Byte /\ packet.b12 \in Byte /\ packet.b18 % 16 \in 0 .. 15
    BY <1>2, <1>3 DEF packet
  <2>2. (packet.b18 \in {0} \union 128 .. 255) \in BOOLEAN
    OBVIOUS
  <2> DEFINE fan == IF Flagged(packet.b6, 8) THEN packet.b11 ELSE unit.fan
             vane == IF Flagged(packet.b6, 16) THEN packet.b12 ELSE unit.vane
             wide_vane == IF Flagged(packet.b7, 1) THEN packet.b18 % 16 ELSE unit.wide_vane
             adjustment == IF Flagged(packet.b7, 1) THEN packet.b18 \in {0} \union 128 .. 255
                                                    ELSE unit.adjustment
  <2>3. Obey(packet) = [unit EXCEPT !.fan = fan, !.vane = vane, !.wide_vane = wide_vane,
                                    !.adjustment = adjustment]
    BY <2>1 DEF Obey
  <2>4. /\ fan \in Byte /\ vane \in Byte
        /\ wide_vane \in 0 .. 15 /\ adjustment \in BOOLEAN
    BY <2>1, <2>2 DEF UnitStates
  <2>5. Obey(packet) \in UnitStates
    <3> HIDE DEF fan, vane, wide_vane, adjustment
    <3> QED
      BY <2>3, <2>4 DEF UnitStates
  <2> QED
    BY <2>5 DEF packet
<1>6. ASSUME NEW airflow PROVE Obey(run_states_packet(airflow)) \in UnitStates
  <2>1. run_states_packet(airflow).b5 = 8 /\ run_states_packet(airflow).b11 \in Byte
    BY <1>1, OurTables DEF run_states_packet
  <2> QED
    BY <2>1 DEF Obey, UnitStates
<1> QED
  BY <1>5, <1>6

LEMMA InitTypeOK == Init => TypeOK
<1> SUFFICES ASSUME Init PROVE TypeOK
  OBVIOUS
<1>1. wanted \in Wanted /\ current \in Current
  BY DEF Init, Wanted, Current, Codes
<1>2. shown \in Shown
  BY DEF Init, Shown
<1>3. has \in Installations /\ unit \in UnitStates
  BY DEF Init, UnitStates, Byte
<1> QED
  BY <1>1, <1>2, <1>3, AirflowAssumption DEF Init, TypeOK, NothingAsked

LEMMA EventTypes == events \in 0 .. MaxEvents /\ Happens => events' \in 0 .. MaxEvents
BY AirflowAssumption DEF Happens

LEMMA OverruleTypes ==
    ASSUME crossed \subseteq Fields, NEW field \in Fields
    PROVE  Overrules(field) \subseteq Fields
BY DEF Overrules

\* Calls of the climate entity and of the selects.
LEMMA CallTypes == TypeOK /\ (Control \/ Selects) => TypeOK'
<1> SUFFICES ASSUME TypeOK, Control \/ Selects PROVE TypeOK'
  OBVIOUS
<1>1. ASSUME NEW mode \in FanModes, ControlFan(mode) PROVE TypeOK'
  <2>1. mode \in DOMAIN FanSpeeds /\ FanSpeeds[mode] \in DOMAIN FAN_TABLE
    BY AirflowAssumption, FanSpeedTypes
  <2>2. wanted' \in Wanted /\ shown' \in Shown
    BY <1>1, <2>1 DEF ControlFan, TypeOK, Wanted, Shown, Codes
  <2> QED
    BY <1>1, <2>1, <2>2, EventTypes DEF ControlFan, TypeOK
<1>2. ASSUME NEW mode \in SwingModes, ControlSwing(mode) PROVE TypeOK'
  <2>1. mode \in {"OFF", "VERTICAL", "HORIZONTAL", "BOTH"}
    BY AirflowAssumption
  <2>2. /\ control_swing(mode).vane \in Codes(VANE_TABLE)
        /\ control_swing(mode).wide_vane \in Codes(WIDEVANE_TABLE)
    BY DEF control_swing, TypeOK, Wanted, Codes, VANE_TABLE, WIDEVANE_TABLE
  <2>3. wanted' \in Wanted /\ shown' \in Shown
    BY <1>2, <2>1, <2>2 DEF ControlSwing, TypeOK, Wanted, Shown
  <2> QED
    BY <1>2, <2>3, EventTypes DEF ControlSwing, TypeOK
<1>3. ASSUME NEW vane \in SelectVanes, SelectVane(vane) PROVE TypeOK'
  <2>1. vane \in DOMAIN VANE_TABLE
    BY AirflowAssumption
  <2>2. wanted' \in Wanted
    BY <1>3, <2>1 DEF SelectVane, TypeOK, Wanted, Codes
  <2>3. crossed' \subseteq Fields
    BY <1>3, OverruleTypes DEF SelectVane, TypeOK, Fields
  <2> QED
    BY <1>3, <2>1, <2>2, <2>3, EventTypes DEF SelectVane, TypeOK
<1>4. ASSUME NEW wide_vane \in SelectWideVanes, SelectWideVane(wide_vane) PROVE TypeOK'
  <2>1. wide_vane \in WideVaneOptions /\ wide_vane \in DOMAIN WIDEVANE_TABLE
    BY AirflowAssumption
  <2>2. wanted' \in Wanted
    BY <1>4, <2>1 DEF SelectWideVane, TypeOK, Wanted, Codes
  <2>3. crossed' \subseteq Fields
    BY <1>4, OverruleTypes DEF SelectWideVane, TypeOK, Fields
  <2> QED
    BY <1>4, <2>1, <2>2, <2>3, EventTypes DEF SelectWideVane, TypeOK
<1>5. ASSUME NEW airflow \in SelectAirflows, SelectAirflow(airflow) PROVE TypeOK'
  <2>1. airflow \in DOMAIN AIRFLOW_CONTROL_TABLE
    BY AirflowAssumption
  <2>2. wanted' \in Wanted /\ shown' \in Shown
    BY <1>5, <2>1 DEF SelectAirflow, TypeOK, Wanted, Shown, Current, Codes
  <2> QED
    BY <1>5, <2>2, EventTypes DEF SelectAirflow, TypeOK
<1> QED
  BY <1>1, <1>2, <1>3, <1>4, <1>5 DEF Control, Selects

LEMMA WriteTypes == TypeOK /\ Writes => TypeOK'
<1> SUFFICES ASSUME TypeOK, Writes PROVE TypeOK'
  OBVIOUS
<1>1. ASSUME reset_settings PROVE wanted' \in Wanted
  BY <1>1 DEF reset_settings, TypeOK, Wanted, Codes
<1>2. CASE DropEmptySettings
  BY <1>1, <1>2 DEF DropEmptySettings, TypeOK
<1>3. ASSUME send_wanted_settings PROVE wanted' \in Wanted /\ shown' \in Shown
  BY <1>1, <1>3, PublishTypes DEF send_wanted_settings, TypeOK
<1>4. CASE SettingsDelivered
  <2>1. unit' \in UnitStates
    BY <1>4, ObeyTypes DEF SettingsDelivered, TypeOK
  <2> QED
    BY <1>3, <1>4, <2>1 DEF SettingsDelivered, send_wanted_settings, TypeOK
<1>5. CASE SettingsLost
  BY <1>3, <1>5 DEF SettingsLost, send_wanted_settings, TypeOK, NothingAsked
<1>6. ASSUME send_wanted_run_states PROVE wanted' \in Wanted /\ shown' \in Shown
  BY <1>6 DEF send_wanted_run_states, TypeOK, Wanted, Shown, Codes
<1>7. CASE RunStatesDelivered
  <2>1. unit' \in UnitStates
    BY <1>7, ObeyTypes DEF RunStatesDelivered, TypeOK
  <2> QED
    BY <1>6, <1>7, <2>1 DEF RunStatesDelivered, send_wanted_run_states, TypeOK
<1>8. CASE RunStatesLost
  BY <1>6, <1>8 DEF RunStatesLost, send_wanted_run_states, TypeOK
<1> QED
  BY <1>2, <1>4, <1>5, <1>7, <1>8 DEF Writes

LEMMA CycleTypes == TypeOK /\ Cycles => TypeOK'
<1> SUFFICES ASSUME TypeOK, Cycles PROVE TypeOK'
  OBVIOUS
<1>1. CASE StartCycle
  BY <1>1 DEF StartCycle, TypeOK
<1>2. CASE Answer
  BY <1>2 DEF Answer, TypeOK
<1>3. ASSUME NEW others \in BOOLEAN, Readback(others) PROVE TypeOK'
  <2>1. current' \in Current /\ shown' \in Shown
    BY <1>3, ReadbackTypes DEF Readback, TypeOK
  <2>2. crossed' \subseteq Fields
    BY <1>3 DEF Readback, TypeOK
  <2> QED
    BY <1>3, <2>1, <2>2 DEF Readback, TypeOK
<1>4. CASE LoseAnswer
  BY <1>4 DEF LoseAnswer, TypeOK
<1>5. CASE CycleTimeout
  BY <1>5 DEF CycleTimeout, TypeOK
<1> QED
  BY <1>1, <1>2, <1>3, <1>4, <1>5 DEF Cycles

\* The IR remote and the link.
LEMMA EnvironmentTypes == TypeOK /\ (PressRemote \/ SwitchISee \/ Connect) => TypeOK'
<1> SUFFICES ASSUME TypeOK, PressRemote \/ SwitchISee \/ Connect PROVE TypeOK'
  OBVIOUS
<1>1. ASSUME NEW field \in Fields, NEW state \in UnitStates, Press(field, state) PROVE TypeOK'
  <2>1. crossed' \subseteq Fields
    BY <1>1, OverruleTypes DEF Press, TypeOK
  <2>2. asked' \in [fan : DOMAIN FAN_TABLE \union {None}, vane : DOMAIN VANE_TABLE \union {None},
                    wide_vane : WideVaneOptions \union {None}, swing : SwingModes \union {None}]
    BY <1>1 DEF Press, TypeOK, Fields
  <2> QED
    BY <1>1, <2>1, <2>2, EventTypes DEF Press, TypeOK
<1>2. CASE PressRemote
  <2>1. \A byte \in RemoteFans : [unit EXCEPT !.fan = byte] \in UnitStates
    BY AirflowAssumption DEF TypeOK, UnitStates
  <2>2. \A byte \in RemoteVanes : [unit EXCEPT !.vane = byte] \in UnitStates
    BY AirflowAssumption DEF TypeOK, UnitStates
  <2>3. \A position \in RemoteWideVanes :
          [unit EXCEPT !.wide_vane = position, !.adjustment = position = 0] \in UnitStates
    BY AirflowAssumption DEF TypeOK, UnitStates
  <2> QED
    BY <1>1, <1>2, <2>1, <2>2, <2>3 DEF PressRemote, Fields
<1>3. CASE SwitchISee
  <2>1. unit' \in UnitStates
    BY <1>3 DEF SwitchISee, TypeOK, UnitStates
  <2> QED
    BY <1>3, <2>1, EventTypes DEF SwitchISee, TypeOK
<1>4. CASE Connect
  <2>1. current' \in Current
    BY <1>4 DEF Connect, TypeOK, Current, Codes
  <2> QED
    BY <1>4, <2>1, EventTypes DEF Connect, TypeOK
<1> QED
  BY <1>2, <1>3, <1>4

LEMMA NextTypeOK == TypeOK /\ [Next]_vars => TypeOK'
<1> SUFFICES ASSUME TypeOK, [Next]_vars PROVE TypeOK'
  OBVIOUS
<1>1. CASE UNCHANGED vars
  BY <1>1 DEF vars, TypeOK
<1> QED
  BY <1>1, CallTypes, WriteTypes, CycleTypes, EnvironmentTypes DEF Next

\* What Home Assistant is told is an option that it has been offered, whatever bytes the
\* unit reports and whatever codes are asked for; no select is ever told UNKNOWN.
THEOREM AirflowTypeCorrect == Spec => []TypeOK
BY InitTypeOK, NextTypeOK, PTL DEF Spec

(***************************************************************************)
(* The swing mode.                                                         *)
(***************************************************************************)
\* What an answer makes known and shown.  Where nothing differs nothing is published, which
\* shows the same.
LEMMA AnswerIsShown ==
    ASSUME TypeOK, NEW others, Readback(others)
    PROVE  \E received :
             /\ received.fan \in DOMAIN FAN_TABLE
             /\ received.vane \in DOMAIN VANE_TABLE
             /\ received.wide_vane \in Codes(WIDEVANE_TABLE)
             /\ ~FollowsWideVane => received.wide_vane = "UNKNOWN"
             /\ current'.fan = IF wanted.fan = "UNKNOWN" THEN received.fan ELSE current.fan
             /\ current'.vane = IF wanted.vane = "UNKNOWN" THEN received.vane ELSE current.vane
             /\ current'.wide_vane = IF wanted.wide_vane = "UNKNOWN" THEN received.wide_vane
                                                                    ELSE current.wide_vane
             /\ shown'.fan_mode = check_fan_settings(current'.fan)
             /\ shown'.swing_mode = check_wide_vane_settings(current'.vane, current'.wide_vane)
             /\ \/ /\ received.vane = current.vane /\ received.wide_vane = current.wide_vane
                   /\ shown'.vane = shown.vane /\ shown'.wide_vane = shown.wide_vane
                \/ /\ "vertical_select" \in has => shown'.vane = received.vane
                   /\ "horizontal_select" \in has /\ received.wide_vane \in WideVaneOptions =>
                        shown'.wide_vane = received.wide_vane
<1> DEFINE received == Received(decode_settings(Report(reply), 16))
           updated == heatpump_update(received, others)
<1>1. /\ current'.fan = Learned(received).fan
      /\ current'.vane = Learned(received).vane /\ current'.wide_vane = Learned(received).wide_vane
      /\ \E airflow : shown' = [updated EXCEPT
                                 !.airflow_control = IF airflow # current.airflow_control
                                                       THEN airflow ELSE @]
  BY DEF Readback, get_settings_from_response_packet
<1>2. /\ received.fan \in DOMAIN FAN_TABLE
      /\ received.vane \in DOMAIN VANE_TABLE
      /\ received.wide_vane \in Codes(WIDEVANE_TABLE)
      /\ ~FollowsWideVane => received.wide_vane = "UNKNOWN"
  <2>1. ~FollowsWideVane => received.wide_vane = "UNKNOWN"
    BY DEF Received
  <2> QED
    BY <2>1, ReceivedTypes DEF TypeOK
<1> HIDE DEF received
<1>3. /\ current'.fan = IF wanted.fan = "UNKNOWN" THEN received.fan ELSE current.fan
      /\ current'.vane = IF wanted.vane = "UNKNOWN" THEN received.vane ELSE current.vane
      /\ current'.wide_vane = IF wanted.wide_vane = "UNKNOWN" THEN received.wide_vane
                                                             ELSE current.wide_vane
  BY <1>1 DEF Learned
<1>4. updated \in Shown
  BY <1>2, UpdateTypes DEF TypeOK, Codes
<1>5. /\ shown'.fan_mode = updated.fan_mode /\ shown'.swing_mode = updated.swing_mode
      /\ shown'.vane = updated.vane /\ shown'.wide_vane = updated.wide_vane
  <2> HIDE DEF updated
  <2> QED
    BY <1>1, <1>4 DEF Shown
<1>6. CASE updated = publish_state_to_ha(received)
  <2>1. /\ updated.fan_mode = check_fan_settings(current'.fan)
        /\ updated.swing_mode = check_wide_vane_settings(current'.vane, current'.wide_vane)
        /\ "vertical_select" \in has /\ received.vane # "UNKNOWN" => updated.vane = received.vane
        /\ "horizontal_select" \in has /\ received.wide_vane \in WideVaneOptions =>
             updated.wide_vane = received.wide_vane
    BY <1>1, <1>6 DEF publish_state_to_ha, update_extra_select_components, TypeOK, Shown
  <2>2. received.vane # "UNKNOWN"
    BY <1>2, TableTypes, OurTables
  <2> QED
    BY <1>2, <1>3, <1>5, <2>1, <2>2
<1>7. CASE updated # publish_state_to_ha(received)
  <2>1. /\ updated = shown
        /\ received.fan = current.fan /\ received.vane = current.vane
        /\ received.wide_vane = current.wide_vane
    BY <1>7 DEF heatpump_update
  <2>2. /\ check_fan_settings(current'.fan) = shown.fan_mode
        /\ check_wide_vane_settings(current'.vane, current'.wide_vane) = shown.swing_mode
    BY <1>3, <2>1 DEF check_fan_settings, check_vane_settings, check_wide_vane_settings
  <2> QED
    BY <1>2, <1>3, <1>5, <2>1, <2>2
<1> QED
  BY <1>6, <1>7

\* An answer from which the driver learns of a vane leaves the swing mode of both.
LEMMA SwingModeStep ==
    ASSUME TypeOK, NEW others, Readback(others),
           current'.vane # current.vane \/ current'.wide_vane # current.wide_vane
    PROVE  shown'.swing_mode = SwingModeOf(current'.vane, current'.wide_vane)
BY AnswerIsShown DEF check_wide_vane_settings, check_vane_settings

\* The property of the same name, for every set of features and whatever is in the bytes:
\* the order in which the two vanes are looked at does not show.
THEOREM SwingModeIsTrue == Spec => SwingModeIsOfBothVanes
<1>1. ASSUME TypeOK, [Next]_vars,
             current'.vane # current.vane \/ current'.wide_vane # current.wide_vane
      PROVE  \/ "UNKNOWN" \in {current'.vane, current'.wide_vane}
             \/ shown'.swing_mode = SwingModeOf(current'.vane, current'.wide_vane)
  <2>1. CASE UNCHANGED current
    BY <1>1, <2>1
  <2>2. CASE Connect
    BY <2>2 DEF Connect, TypeOK, Current
  <2>3. ASSUME NEW others \in BOOLEAN, Readback(others)
        PROVE  shown'.swing_mode = SwingModeOf(current'.vane, current'.wide_vane)
    BY <1>1, <2>3, SwingModeStep
  <2>4. CASE UNCHANGED vars
    BY <2>1, <2>4 DEF vars
  <2>5. (Control \/ Selects) => UNCHANGED current
    BY DEF Control, Selects, ControlFan, ControlSwing, SelectVane, SelectWideVane, SelectAirflow
  <2>6. Writes => UNCHANGED current
    BY DEF Writes, DropEmptySettings, SettingsDelivered, SettingsLost, send_wanted_settings,
           RunStatesDelivered, RunStatesLost, send_wanted_run_states
  <2>7. (StartCycle \/ Answer \/ LoseAnswer \/ CycleTimeout \/ PressRemote \/ SwitchISee)
          => UNCHANGED current
    BY DEF StartCycle, Answer, LoseAnswer, CycleTimeout, PressRemote, Press, SwitchISee
  <2> QED
    BY <1>1, <2>1, <2>2, <2>3, <2>4, <2>5, <2>6, <2>7 DEF Next, Cycles
<1>2. TypeOK /\ [Next]_vars =>
        [current'.vane # current.vane \/ current'.wide_vane # current.wide_vane =>
           \/ "UNKNOWN" \in {current'.vane, current'.wide_vane}
           \/ shown'.swing_mode = SwingModeOf(current'.vane, current'.wide_vane)]_vars
  BY <1>1
<1> QED
  BY <1>2, AirflowTypeCorrect, PTL DEF Spec, SwingModeIsOfBothVanes

(***************************************************************************)
(* What is written is read.                                                *)
(***************************************************************************)
LEMMA Reported ==
    ASSUME NEW state \in UnitStates
    PROVE  LET decoded == decode_settings(Report(state), 16)
               byte == WideVaneByte(state)
           IN  /\ decoded.fan = wire_to_enum(FAN_TABLE, state.fan)
               /\ decoded.vane = wire_to_enum(VANE_TABLE, state.vane)
               /\ decoded.wide_vane_present = (byte # 0)
               /\ byte # 0 => decoded.wide_vane = wire_to_enum(WIDEVANE_TABLE, byte % 16)
<1>1. Report(state)[6] = state.fan /\ Report(state)[7] = state.vane
      /\ Report(state)[10] = WideVaneByte(state)
  BY DEF Report
<1> DEFINE data == Report(state)
<1> HIDE DEF data
<1>2. /\ decode_settings(data, 16).fan = wire_to_enum(FAN_TABLE, data[6])
      /\ decode_settings(data, 16).vane = wire_to_enum(VANE_TABLE, data[7])
      /\ decode_settings(data, 16).wide_vane_present = (data[10] # 0)
      /\ data[10] # 0 =>
           decode_settings(data, 16).wide_vane = wire_to_enum(WIDEVANE_TABLE, data[10] % 16)
  BY DEF decode_settings
<1> QED
  BY <1>1, <1>2 DEF data

\* What a settings packet makes of each field of the unit.
LEMMA ObeyFields ==
    ASSUME unit \in UnitStates, SetPacket.b5 = 1
    PROVE  /\ Obey(SetPacket).fan = IF Flagged(SetPacket.b6, 8) THEN SetPacket.b11 ELSE unit.fan
           /\ Obey(SetPacket).vane = IF Flagged(SetPacket.b6, 16) THEN SetPacket.b12 ELSE unit.vane
           /\ Obey(SetPacket).wide_vane = IF Flagged(SetPacket.b7, 1) THEN SetPacket.b18 % 16
                                                                    ELSE unit.wide_vane
           /\ Flagged(SetPacket.b7, 1) =>
                (Obey(SetPacket).adjustment <=> SetPacket.b18 \in {0} \union 128 .. 255)
           /\ ~Flagged(SetPacket.b7, 1) => Obey(SetPacket).adjustment = unit.adjustment
<1> DEFINE packet == SetPacket
<1> HIDE DEF packet
<1>1. packet.b5 = 1
  BY DEF packet
<1>2. Obey(packet).fan = IF Flagged(packet.b6, 8) THEN packet.b11 ELSE unit.fan
  BY <1>1 DEF Obey, UnitStates
<1>3. Obey(packet).vane = IF Flagged(packet.b6, 16) THEN packet.b12 ELSE unit.vane
  BY <1>1 DEF Obey, UnitStates
<1>4. Obey(packet).wide_vane = IF Flagged(packet.b7, 1) THEN packet.b18 % 16 ELSE unit.wide_vane
  BY <1>1 DEF Obey, UnitStates
<1>5. /\ Flagged(packet.b7, 1) =>
           (Obey(packet).adjustment <=> packet.b18 \in {0} \union 128 .. 255)
      /\ ~Flagged(packet.b7, 1) => Obey(packet).adjustment = unit.adjustment
  BY <1>1 DEF Obey, UnitStates
<1> QED
  BY <1>2, <1>3, <1>4, <1>5 DEF packet

\* A SET gives the unit what was wanted, and leaves it the rest.
LEMMA SetObeyed ==
    ASSUME wanted \in Wanted, unit \in UnitStates
    PROVE  LET after == Obey(SetPacket)
           IN  /\ after \in UnitStates
               /\ after.fan = WillDo.fan
               /\ after.vane = WillDo.vane
               /\ after.wide_vane = WillDo.wide_vane
               /\ IF wanted.wide_vane = "UNKNOWN"
                    THEN after.adjustment = unit.adjustment
                    ELSE after.adjustment <=> (after.wide_vane = 0 \/ current.wide_vane_adj)
<1> DEFINE fan == enum_to_wire(FAN_TABLE, wanted.fan)
           vane == enum_to_wire(VANE_TABLE, wanted.vane)
           wide_vane == enum_to_wire(WIDEVANE_TABLE, wanted.wide_vane)
           after == Obey(SetPacket)
<1>1. /\ enum_to_wire(POWER_TABLE, "UNKNOWN") = None
      /\ enum_to_wire(MODE_TABLE, "UNKNOWN") = None
  BY DEF enum_to_wire, POWER_TABLE, MODE_TABLE
<1>2. /\ IF wanted.fan = "UNKNOWN" THEN fan = None
          ELSE fan \in Byte /\ fan # None /\ wire_to_enum(FAN_TABLE, fan) = wanted.fan
      /\ IF wanted.vane = "UNKNOWN" THEN vane = None
          ELSE vane \in Byte /\ vane # None /\ wire_to_enum(VANE_TABLE, vane) = wanted.vane
      /\ IF wanted.wide_vane = "UNKNOWN" THEN wide_vane = None
          ELSE /\ wide_vane \in Byte /\ wide_vane # None
               /\ wire_to_enum(WIDEVANE_TABLE, wide_vane) = wanted.wide_vane
  BY CodesReadBack, TableTypes, OurTables DEF Wanted, Codes, enum_to_wire
<1>3. wide_vane # None => wide_vane \in 0 .. 15
  BY DEF enum_to_wire, WIDEVANE_TABLE
<1> HIDE DEF fan, vane, wide_vane
<1>4. /\ SetPacket.b5 = 1
      /\ SetPacket.b6 = Flag(fan, 8) + Flag(vane, 16)
      /\ SetPacket.b7 = Flag(wide_vane, 1)
      /\ SetPacket.b11 = OrZero(fan) /\ SetPacket.b12 = OrZero(vane)
      /\ SetPacket.b18 = OrZero(wide_vane)
                           + (IF wide_vane # None /\ current.wide_vane_adj THEN 128 ELSE 0)
  BY <1>1 DEF SetPacket, create_packet, fan, vane, wide_vane, Flag
<1>5. /\ Flagged(SetPacket.b6, 8) <=> fan # None
      /\ Flagged(SetPacket.b6, 16) <=> vane # None
      /\ Flagged(SetPacket.b7, 1) <=> wide_vane # None
  BY <1>4 DEF Flagged, Flag
<1>6. /\ after \in UnitStates
      /\ after.fan = IF fan # None THEN fan ELSE unit.fan
      /\ after.vane = IF vane # None THEN vane ELSE unit.vane
      /\ IF wide_vane # None
           THEN /\ after.wide_vane = wide_vane
                /\ after.adjustment <=> (wide_vane = 0 \/ current.wide_vane_adj)
           ELSE after.wide_vane = unit.wide_vane /\ after.adjustment = unit.adjustment
  <2>1. after \in UnitStates
    BY ObeyTypes
  <2>2. wide_vane # None => SetPacket.b18 % 16 = wide_vane
    BY <1>3, <1>4 DEF OrZero
  <2>3. wide_vane # None =>
          (SetPacket.b18 \in {0} \union 128 .. 255 <=> (wide_vane = 0 \/ current.wide_vane_adj))
    BY <1>3, <1>4 DEF OrZero
  <2>4. /\ after.fan = IF fan # None THEN OrZero(fan) ELSE unit.fan
        /\ after.vane = IF vane # None THEN OrZero(vane) ELSE unit.vane
    BY <1>4, <1>5, ObeyFields
  <2>5. /\ wide_vane # None => after.wide_vane = wide_vane
        /\ wide_vane = None => after.wide_vane = unit.wide_vane
                                /\ after.adjustment = unit.adjustment
    BY <1>4, <1>5, <2>2, ObeyFields
  <2>6. wide_vane # None => (after.adjustment <=> (wide_vane = 0 \/ current.wide_vane_adj))
    BY <1>4, <1>5, <2>3, ObeyFields
  <2> QED
    BY <2>1, <2>4, <2>5, <2>6 DEF OrZero
<1>7. WillDo = [unit EXCEPT !.fan = IF fan = None THEN @ ELSE fan,
                            !.vane = IF vane = None THEN @ ELSE vane,
                            !.wide_vane = IF wide_vane = None THEN @ ELSE wide_vane]
  BY <1>2 DEF WillDo, fan, vane, wide_vane, enum_to_wire
<1> HIDE DEF after
<1>8. /\ after.fan = WillDo.fan /\ after.vane = WillDo.vane
      /\ after.wide_vane = WillDo.wide_vane
  BY <1>6, <1>7 DEF UnitStates
<1> QED
  BY <1>2, <1>6, <1>8 DEF after

\* A unit that gets a SET reports each field that was wanted as it was wanted, whatever
\* else is wanted with it, and the others as before.
THEOREM WrittenIsRead ==
    ASSUME wanted \in Wanted, unit \in UnitStates, "wide_vane" \in has
    PROVE  LET decoded == decode_settings(Report(Obey(SetPacket)), 16)
               before == decode_settings(Report(unit), 16)
           IN  /\ decoded.fan = IF wanted.fan = "UNKNOWN" THEN before.fan ELSE wanted.fan
               /\ decoded.vane = IF wanted.vane = "UNKNOWN" THEN before.vane ELSE wanted.vane
               /\ IF wanted.wide_vane = "UNKNOWN"
                    THEN decoded.wide_vane = before.wide_vane
                    ELSE decoded.wide_vane_present /\ decoded.wide_vane = wanted.wide_vane
<1> DEFINE after == Obey(SetPacket)
           Written(field) == wanted[field] # "UNKNOWN"
<1>1. /\ after \in UnitStates
      /\ after.fan = WillDo.fan /\ after.vane = WillDo.vane /\ after.wide_vane = WillDo.wide_vane
      /\ Written("wide_vane") => (after.adjustment <=> after.wide_vane = 0 \/ current.wide_vane_adj)
      /\ ~Written("wide_vane") => after.adjustment = unit.adjustment
  BY SetObeyed
<1>2. /\ WillDo.fan = IF Written("fan") THEN FAN_TABLE[wanted.fan] ELSE unit.fan
      /\ WillDo.vane = IF Written("vane") THEN VANE_TABLE[wanted.vane] ELSE unit.vane
      /\ WillDo.wide_vane = IF Written("wide_vane") THEN WIDEVANE_TABLE[wanted.wide_vane]
                                                   ELSE unit.wide_vane
  BY DEF WillDo, UnitStates
<1> HIDE DEF after
<1>3. /\ \A code \in DOMAIN FAN_TABLE : wire_to_enum(FAN_TABLE, FAN_TABLE[code]) = code
      /\ \A code \in DOMAIN VANE_TABLE : wire_to_enum(VANE_TABLE, VANE_TABLE[code]) = code
      /\ \A code \in DOMAIN WIDEVANE_TABLE :
           /\ wire_to_enum(WIDEVANE_TABLE, WIDEVANE_TABLE[code]) = code
           /\ WIDEVANE_TABLE[code] \in 0 .. 15
  BY CodesReadBack, OurTables DEF enum_to_wire, WIDEVANE_TABLE
<1>4. \A state \in UnitStates :
        /\ decode_settings(Report(state), 16).fan = wire_to_enum(FAN_TABLE, state.fan)
        /\ decode_settings(Report(state), 16).vane = wire_to_enum(VANE_TABLE, state.vane)
  BY Reported
<1>5. decode_settings(Report(after), 16).fan =
        IF wanted.fan = "UNKNOWN" THEN decode_settings(Report(unit), 16).fan ELSE wanted.fan
  BY <1>1, <1>2, <1>3, <1>4 DEF Wanted, Codes
<1>6. decode_settings(Report(after), 16).vane =
        IF wanted.vane = "UNKNOWN" THEN decode_settings(Report(unit), 16).vane ELSE wanted.vane
  BY <1>1, <1>2, <1>3, <1>4 DEF Wanted, Codes
<1>7. CASE ~Written("wide_vane")
  <2>1. Report(after)[10] = WideVaneByte(after) /\ Report(unit)[10] = WideVaneByte(unit)
    BY DEF Report
  <2>2. WideVaneByte(after) = WideVaneByte(unit)
    BY <1>1, <1>2, <1>7 DEF WideVaneByte
  <2>3. decode_settings(Report(after), 16).wide_vane = decode_settings(Report(unit), 16).wide_vane
    BY <2>1, <2>2 DEF decode_settings
  <2> QED
    BY <1>5, <1>6, <1>7, <2>3 DEF after
<1>8. CASE Written("wide_vane")
  <2>1. /\ after.wide_vane \in 0 .. 15
        /\ wire_to_enum(WIDEVANE_TABLE, after.wide_vane) = wanted.wide_vane
    BY <1>1, <1>2, <1>3, <1>8 DEF Wanted, Codes
  <2>2. WideVaneByte(after) # 0 /\ WideVaneByte(after) % 16 = after.wide_vane
    BY <1>1, <1>8, <2>1 DEF WideVaneByte
  <2>3. /\ decode_settings(Report(after), 16).wide_vane_present
        /\ decode_settings(Report(after), 16).wide_vane = wanted.wide_vane
    BY <1>1, <2>1, <2>2, Reported
  <2> QED
    BY <1>5, <1>6, <1>8, <2>3 DEF after
<1> QED
  BY <1>7, <1>8

(***************************************************************************)
(* Calls are kept.                                                         *)
(***************************************************************************)
LEMMA WillDoFields ==
    /\ unit \in UnitStates =>
         /\ WillDo.fan = IF wanted.fan = "UNKNOWN" THEN unit.fan ELSE FAN_TABLE[wanted.fan]
         /\ WillDo.vane = IF wanted.vane = "UNKNOWN" THEN unit.vane ELSE VANE_TABLE[wanted.vane]
         /\ WillDo.wide_vane = IF wanted.wide_vane = "UNKNOWN"
                                 THEN unit.wide_vane ELSE WIDEVANE_TABLE[wanted.wide_vane]
    /\ unit' \in UnitStates =>
         /\ WillDo'.fan = IF wanted'.fan = "UNKNOWN" THEN unit'.fan ELSE FAN_TABLE[wanted'.fan]
         /\ WillDo'.vane = IF wanted'.vane = "UNKNOWN" THEN unit'.vane
                                                       ELSE VANE_TABLE[wanted'.vane]
         /\ WillDo'.wide_vane = IF wanted'.wide_vane = "UNKNOWN"
                                  THEN unit'.wide_vane ELSE WIDEVANE_TABLE[wanted'.wide_vane]
BY DEF WillDo, UnitStates

\* What keeps the fields, wanted or done, keeps the calls about them.
LEMMA KeptWithFields ==
    ASSUME CallsAreKept, has' = has, asked' = asked,
           /\ WillDo'.fan = WillDo.fan /\ WillDo'.vane = WillDo.vane
           /\ WillDo'.wide_vane = WillDo.wide_vane,
           (\E f \in Fields : wanted'[f] # "UNKNOWN") => wanted'.has_changed
    PROVE  CallsAreKept'
<1>1. AsAsked(WillDo)'
  <2> DEFINE before == WillDo
  <2>1. AsAsked(before)
    BY DEF CallsAreKept
  <2> QED
    BY <2>1 DEF AsAsked
<1> QED
  BY <1>1 DEF CallsAreKept, Fields

\* A swing mode that is asked for when the vanes are read is what they will do: a vane that
\* is not to swing is stopped when it does, and is known not to when it is left alone.
LEMMA SwingIsKept ==
    ASSUME TypeOK, TypeOK', NEW mode \in SwingModes, ControlSwing(mode), VanesAreRead
    PROVE  /\ WillDo'.vane = VANE_TABLE.SWING <=> mode \in {"VERTICAL", "BOTH"}
           /\ "horizontal_swing" \in has =>
                (WillDo'.wide_vane = WIDEVANE_TABLE.SWING <=> mode \in {"HORIZONTAL", "BOTH"})
<1>1. /\ unit' = unit /\ unit \in UnitStates
      /\ wanted'.vane = control_swing(mode).vane
      /\ wanted'.wide_vane = control_swing(mode).wide_vane
  BY DEF ControlSwing, TypeOK, Wanted
<1>2. /\ WillDo'.vane = IF wanted'.vane = "UNKNOWN" THEN unit.vane ELSE VANE_TABLE[wanted'.vane]
      /\ WillDo'.wide_vane = IF wanted'.wide_vane = "UNKNOWN"
                               THEN unit.wide_vane ELSE WIDEVANE_TABLE[wanted'.wide_vane]
  BY <1>1, WillDoFields
<1>3. /\ VANE_TABLE.AUTO # VANE_TABLE.SWING
      /\ WIDEVANE_TABLE.CENTER # WIDEVANE_TABLE.SWING /\ WIDEVANE_TABLE.SWING # 0
  BY DEF VANE_TABLE, WIDEVANE_TABLE
<1>4. /\ wire_to_enum(VANE_TABLE, VANE_TABLE.SWING) = "SWING"
      /\ wire_to_enum(WIDEVANE_TABLE, WIDEVANE_TABLE.SWING) = "SWING"
  <2>1. "SWING" \in DOMAIN VANE_TABLE /\ "SWING" \in DOMAIN WIDEVANE_TABLE
    BY DEF VANE_TABLE, WIDEVANE_TABLE
  <2> QED
    BY <2>1, CodesReadBack, OurTables DEF enum_to_wire
<1>5. WillDo'.vane = VANE_TABLE.SWING <=> mode \in {"VERTICAL", "BOTH"}
  <2>1. CASE mode \in {"VERTICAL", "BOTH"}
    BY <1>1, <1>2, <2>1 DEF control_swing
  <2>2. CASE mode \notin {"VERTICAL", "BOTH"} /\ current.vane = "SWING"
    BY <1>1, <1>2, <1>3, <2>2 DEF control_swing
  <2>3. CASE mode \notin {"VERTICAL", "BOTH"} /\ current.vane # "SWING"
    <3>1. WillDo'.vane = unit.vane
      BY <1>1, <1>2, <2>3 DEF control_swing, VanesAreRead
    <3>2. wire_to_enum(VANE_TABLE, unit.vane) # "SWING"
      BY <2>3 DEF VanesAreRead, Does
    <3> QED
      BY <1>4, <2>3, <3>1, <3>2
  <2> QED
    BY <2>1, <2>2, <2>3
<1>6. ASSUME "horizontal_swing" \in has
      PROVE  WillDo'.wide_vane = WIDEVANE_TABLE.SWING <=> mode \in {"HORIZONTAL", "BOTH"}
  <2>1. CASE mode \in {"HORIZONTAL", "BOTH"}
    BY <1>1, <1>2, <1>6, <2>1 DEF control_swing
  <2>2. CASE mode \notin {"HORIZONTAL", "BOTH"} /\ current.wide_vane = "SWING"
    BY <1>1, <1>2, <1>3, <1>6, <2>2 DEF control_swing
  <2>3. CASE mode \notin {"HORIZONTAL", "BOTH"} /\ current.wide_vane # "SWING"
    <3>1. WillDo'.wide_vane = unit.wide_vane
      BY <1>1, <1>2, <1>6, <2>3 DEF control_swing, VanesAreRead
    <3>2. FollowsWideVane /\ "wide_vane" \in has
      BY <1>6, ConfiguredAsBuilt DEF FollowsWideVane, TypeOK
    <3>3. unit.wide_vane = 0 \/ wire_to_enum(WIDEVANE_TABLE, unit.wide_vane) # "SWING"
      BY <1>1, <2>3, <3>2 DEF VanesAreRead, Does, WideVaneByte, UnitStates
    <3> QED
      BY <1>3, <1>4, <2>3, <3>1, <3>3
  <2> QED
    BY <2>1, <2>2, <2>3
<1> QED
  BY <1>5, <1>6

LEMMA CallsKeepCalls ==
    ASSUME TypeOK, TypeOK', CallsAreKept, Control \/ Selects
    PROVE  CallsAreKept'
<1> USE WillDoFields
<1>1. AsAsked(WillDo)
  BY DEF CallsAreKept
<1>2. \A code : /\ code \in DOMAIN FAN_TABLE => code # "UNKNOWN"
                /\ code \in DOMAIN VANE_TABLE => code # "UNKNOWN"
                /\ code \in DOMAIN WIDEVANE_TABLE => code # "UNKNOWN"
  BY TableTypes, OurTables
<1>3. ASSUME NEW mode \in FanModes, ControlFan(mode) PROVE CallsAreKept'
  <2>1. FanSpeeds[mode] \in DOMAIN FAN_TABLE
    BY AirflowAssumption, FanSpeedTypes
  <2>2. wanted'.has_changed /\ wanted'.fan = FanSpeeds[mode] /\ asked'.fan = FanSpeeds[mode]
    BY <1>3 DEF ControlFan, TypeOK, Wanted
  <2>3. /\ wanted'.vane = wanted.vane /\ wanted'.wide_vane = wanted.wide_vane
        /\ asked'.vane = asked.vane /\ asked'.wide_vane = asked.wide_vane
        /\ asked'.swing = asked.swing /\ unit' = unit /\ has' = has
    BY <1>3 DEF ControlFan, TypeOK, Wanted
  <2>4. /\ WillDo'.fan = FAN_TABLE[asked'.fan]
        /\ WillDo'.vane = WillDo.vane /\ WillDo'.wide_vane = WillDo.wide_vane
    BY <1>2, <2>1, <2>2, <2>3 DEF TypeOK
  <2> QED
    BY <1>1, <2>2, <2>3, <2>4 DEF CallsAreKept, AsAsked
<1>4. ASSUME NEW mode \in SwingModes, ControlSwing(mode) PROVE CallsAreKept'
  <2>1. /\ wanted'.has_changed /\ wanted'.fan = wanted.fan
        /\ asked'.fan = asked.fan /\ asked'.vane = None /\ asked'.wide_vane = None
        /\ asked'.swing = (IF VanesAreRead THEN mode ELSE None)
        /\ unit' = unit /\ has' = has
    BY <1>4 DEF ControlSwing, TypeOK, Wanted
  <2>2. WillDo'.fan = WillDo.fan
    BY <2>1 DEF TypeOK
  <2>3. asked'.swing # None =>
          /\ WillDo'.vane = VANE_TABLE.SWING <=> asked'.swing \in {"VERTICAL", "BOTH"}
          /\ "horizontal_swing" \in has' =>
               (WillDo'.wide_vane = WIDEVANE_TABLE.SWING
                  <=> asked'.swing \in {"HORIZONTAL", "BOTH"})
    <3>1. CASE VanesAreRead
      BY <1>4, <2>1, <3>1, SwingIsKept
    <3> QED
      BY <2>1, <3>1
  <2> QED
    BY <1>1, <2>1, <2>2, <2>3 DEF CallsAreKept, AsAsked
<1>5. ASSUME NEW vane \in SelectVanes, SelectVane(vane) PROVE CallsAreKept'
  <2>1. vane \in DOMAIN VANE_TABLE
    BY AirflowAssumption
  <2>2. /\ wanted'.has_changed /\ wanted'.vane = vane
        /\ asked'.vane = vane /\ asked'.swing = None
    BY <1>5 DEF SelectVane, TypeOK, Wanted
  <2>3. /\ wanted'.fan = wanted.fan /\ wanted'.wide_vane = wanted.wide_vane
        /\ asked'.fan = asked.fan /\ asked'.wide_vane = asked.wide_vane
        /\ unit' = unit /\ has' = has
    BY <1>5 DEF SelectVane, TypeOK, Wanted
  <2>4. /\ WillDo'.vane = VANE_TABLE[asked'.vane]
        /\ WillDo'.fan = WillDo.fan /\ WillDo'.wide_vane = WillDo.wide_vane
    BY <1>2, <2>1, <2>2, <2>3 DEF TypeOK
  <2> QED
    BY <1>1, <2>2, <2>3, <2>4 DEF CallsAreKept, AsAsked
<1>6. ASSUME NEW wide_vane \in SelectWideVanes, SelectWideVane(wide_vane) PROVE CallsAreKept'
  <2>1. wide_vane \in DOMAIN WIDEVANE_TABLE
    BY AirflowAssumption
  <2>2. /\ wanted'.has_changed /\ wanted'.wide_vane = wide_vane
        /\ asked'.wide_vane = wide_vane /\ asked'.swing = None
    BY <1>6 DEF SelectWideVane, TypeOK, Wanted
  <2>3. /\ wanted'.fan = wanted.fan /\ wanted'.vane = wanted.vane
        /\ asked'.fan = asked.fan /\ asked'.vane = asked.vane
        /\ unit' = unit /\ has' = has
    BY <1>6 DEF SelectWideVane, TypeOK, Wanted
  <2>4. /\ WillDo'.wide_vane = WIDEVANE_TABLE[asked'.wide_vane]
        /\ WillDo'.fan = WillDo.fan /\ WillDo'.vane = WillDo.vane
    BY <1>2, <2>1, <2>2, <2>3 DEF TypeOK
  <2> QED
    BY <1>1, <2>2, <2>3, <2>4 DEF CallsAreKept, AsAsked
<1>7. ASSUME NEW airflow \in SelectAirflows, SelectAirflow(airflow) PROVE CallsAreKept'
  <2>1. /\ wanted'.fan = wanted.fan /\ wanted'.vane = wanted.vane
        /\ wanted'.wide_vane = wanted.wide_vane /\ wanted'.has_changed = wanted.has_changed
        /\ unit' = unit /\ has' = has /\ asked' = asked
    BY <1>7 DEF SelectAirflow, TypeOK, Wanted
  <2> QED
    BY <2>1, KeptWithFields DEF TypeOK, Fields, CallsAreKept
<1> QED
  BY <1>3, <1>4, <1>5, <1>6, <1>7 DEF Control, Selects

\* A SET does what is wanted as it is taken off, and one that is lost gives its calls up.
LEMMA WritesKeepCalls ==
    ASSUME TypeOK, TypeOK', CallsAreKept, Writes
    PROVE  CallsAreKept'
<1> USE WillDoFields
<1>1. ASSUME reset_settings
      PROVE  /\ wanted'.fan = "UNKNOWN" /\ wanted'.vane = "UNKNOWN"
             /\ wanted'.wide_vane = "UNKNOWN"
             /\ ~(\E f \in Fields : wanted'[f] # "UNKNOWN")
  BY <1>1 DEF reset_settings, TypeOK, Wanted, Fields
<1>2. CASE DropEmptySettings
  <2>1. /\ reset_settings /\ unit' = unit /\ has' = has /\ asked' = asked
        /\ wanted.fan = "UNKNOWN" /\ wanted.vane = "UNKNOWN" /\ wanted.wide_vane = "UNKNOWN"
    BY <1>2 DEF DropEmptySettings, has_payload
  <2> QED
    BY <1>1, <2>1, KeptWithFields DEF TypeOK
<1>3. CASE SettingsDelivered
  <2>1. reset_settings /\ unit' = Obey(SetPacket) /\ has' = has /\ asked' = asked
    BY <1>3 DEF SettingsDelivered, send_wanted_settings
  <2>2. /\ unit'.fan = WillDo.fan /\ unit'.vane = WillDo.vane
        /\ unit'.wide_vane = WillDo.wide_vane
    BY <2>1, SetObeyed DEF TypeOK
  <2>3. /\ WillDo'.fan = unit'.fan /\ WillDo'.vane = unit'.vane
        /\ WillDo'.wide_vane = unit'.wide_vane
    BY <1>1, <2>1 DEF TypeOK
  <2> QED
    BY <1>1, <2>1, <2>2, <2>3, KeptWithFields
<1>4. CASE SettingsLost
  <2>1. reset_settings /\ asked' = NothingAsked
    BY <1>4 DEF SettingsLost, send_wanted_settings
  <2> QED
    BY <1>1, <2>1 DEF CallsAreKept, AsAsked, NothingAsked
<1>5. CASE RunStatesDelivered \/ RunStatesLost
  <2>1. /\ has' = has /\ asked' = asked
        /\ wanted'.fan = wanted.fan /\ wanted'.vane = wanted.vane
        /\ wanted'.wide_vane = wanted.wide_vane /\ wanted'.has_changed = wanted.has_changed
    BY <1>5 DEF RunStatesDelivered, RunStatesLost, send_wanted_run_states, TypeOK, Wanted
  <2>2. /\ unit'.fan = unit.fan /\ unit'.vane = unit.vane /\ unit'.wide_vane = unit.wide_vane
    <3>1. CASE RunStatesLost
      BY <3>1 DEF RunStatesLost
    <3>2. CASE RunStatesDelivered
      <4>1. run_states_packet(wanted.airflow_control).b5 = 8
        BY DEF run_states_packet
      <4>2. \A packet : packet.b5 = 8 =>
              /\ Obey(packet).fan = unit.fan /\ Obey(packet).vane = unit.vane
              /\ Obey(packet).wide_vane = unit.wide_vane
        BY DEF Obey, TypeOK, UnitStates
      <4> QED
        BY <3>2, <4>1, <4>2 DEF RunStatesDelivered
    <3> QED
      BY <1>5, <3>1, <3>2
  <2> QED
    BY <2>1, <2>2, KeptWithFields DEF TypeOK, Fields, CallsAreKept
<1> QED
  BY <1>2, <1>3, <1>4, <1>5 DEF Writes

LEMMA OthersKeepCalls ==
    ASSUME TypeOK, TypeOK', CallsAreKept, Cycles \/ PressRemote \/ SwitchISee \/ Connect
    PROVE  CallsAreKept'
<1> USE WillDoFields
<1>1. ASSUME UNCHANGED <<wanted, has, asked>>,
             unit'.fan = unit.fan, unit'.vane = unit.vane, unit'.wide_vane = unit.wide_vane
      PROVE  CallsAreKept'
  <2>1. (\E f \in Fields : wanted'[f] # "UNKNOWN") => wanted'.has_changed
    BY <1>1 DEF CallsAreKept
  <2> QED
    BY <1>1, <2>1, KeptWithFields DEF TypeOK
<1>2. Cycles => UNCHANGED <<wanted, has, asked, unit>>
  BY DEF Cycles, StartCycle, Answer, Readback, LoseAnswer, CycleTimeout
<1>3. Connect => UNCHANGED <<wanted, has, asked, unit>>
  BY DEF Connect
<1>4. SwitchISee => /\ UNCHANGED <<wanted, has, asked>>
                    /\ unit'.fan = unit.fan /\ unit'.vane = unit.vane
                    /\ unit'.wide_vane = unit.wide_vane
  BY DEF SwitchISee, TypeOK, UnitStates
<1>5. ASSUME NEW field \in Fields, NEW state, Press(field, state),
             \A f \in Fields \ {field} : state[f] = unit[f]
      PROVE  CallsAreKept'
  <2>1. UNCHANGED <<wanted, has>> /\ unit' = state
    BY <1>5 DEF Press
  <2>2. AsAsked(WillDo) /\ ((\E f \in Fields : wanted'[f] # "UNKNOWN") => wanted'.has_changed)
    BY <2>1 DEF CallsAreKept
  <2>3. CASE field = "fan"
    <3>1. /\ asked'.fan = None /\ asked'.vane = asked.vane
          /\ asked'.wide_vane = asked.wide_vane /\ asked'.swing = asked.swing
      BY <1>5, <2>3 DEF Press, TypeOK
    <3>2. WillDo'.vane = WillDo.vane /\ WillDo'.wide_vane = WillDo.wide_vane
      BY <1>5, <2>1, <2>3 DEF TypeOK, Fields
    <3> QED
      BY <2>1, <2>2, <3>1, <3>2 DEF CallsAreKept, AsAsked
  <2>4. CASE field = "vane"
    <3>1. /\ asked'.fan = asked.fan /\ asked'.vane = None
          /\ asked'.wide_vane = asked.wide_vane /\ asked'.swing = None
      BY <1>5, <2>4 DEF Press, TypeOK
    <3>2. WillDo'.fan = WillDo.fan /\ WillDo'.wide_vane = WillDo.wide_vane
      BY <1>5, <2>1, <2>4 DEF TypeOK, Fields
    <3> QED
      BY <2>1, <2>2, <3>1, <3>2 DEF CallsAreKept, AsAsked
  <2>5. CASE field = "wide_vane"
    <3>1. /\ asked'.fan = asked.fan /\ asked'.vane = asked.vane
          /\ asked'.wide_vane = None /\ asked'.swing = None
      BY <1>5, <2>5 DEF Press, TypeOK
    <3>2. WillDo'.fan = WillDo.fan /\ WillDo'.vane = WillDo.vane
      BY <1>5, <2>1, <2>5 DEF TypeOK, Fields
    <3> QED
      BY <2>1, <2>2, <3>1, <3>2 DEF CallsAreKept, AsAsked
  <2> QED
    BY <2>3, <2>4, <2>5 DEF Fields
<1>6. PressRemote => CallsAreKept'
  <2>1. ASSUME NEW byte \in RemoteFans, Press("fan", [unit EXCEPT !.fan = byte])
        PROVE  CallsAreKept'
    <3>1. \A f \in Fields \ {"fan"} : [unit EXCEPT !.fan = byte][f] = unit[f]
      BY DEF TypeOK, UnitStates, Fields
    <3> QED
      BY <1>5, <2>1, <3>1 DEF Fields
  <2>2. ASSUME NEW byte \in RemoteVanes, Press("vane", [unit EXCEPT !.vane = byte])
        PROVE  CallsAreKept'
    <3>1. \A f \in Fields \ {"vane"} : [unit EXCEPT !.vane = byte][f] = unit[f]
      BY DEF TypeOK, UnitStates, Fields
    <3> QED
      BY <1>5, <2>2, <3>1 DEF Fields
  <2>3. ASSUME NEW position \in RemoteWideVanes,
               Press("wide_vane", [unit EXCEPT !.wide_vane = position,
                                               !.adjustment = position = 0])
        PROVE  CallsAreKept'
    <3>1. \A f \in Fields \ {"wide_vane"} :
            [unit EXCEPT !.wide_vane = position, !.adjustment = position = 0][f] = unit[f]
      BY DEF TypeOK, UnitStates, Fields
    <3> QED
      BY <1>5, <2>3, <3>1 DEF Fields
  <2> QED
    BY <2>1, <2>2, <2>3 DEF PressRemote
<1> QED
  BY <1>1, <1>2, <1>3, <1>4, <1>6

\* The property of the same name, for every set of features, every option and every byte
\* of the remote: no cycle, answer, reconnection or other call makes the driver forget what
\* was asked, although answers that arrive meanwhile report the state before it.
THEOREM CallsStayKept == Spec => []CallsAreKept
<1>1. Init => CallsAreKept
  BY DEF Init, CallsAreKept, AsAsked, NothingAsked, Fields
<1>2. TypeOK /\ TypeOK' /\ CallsAreKept /\ [Next]_vars => CallsAreKept'
  <2>1. TypeOK /\ CallsAreKept /\ UNCHANGED vars => CallsAreKept'
    BY DEF vars, CallsAreKept, AsAsked, WillDo, Fields
  <2> QED
    BY <2>1, CallsKeepCalls, WritesKeepCalls, OthersKeepCalls DEF Next
<1> QED
  BY <1>1, <1>2, AirflowTypeCorrect, PTL DEF Spec

(***************************************************************************)
(* What is known is shown.                                                 *)
(***************************************************************************)
\* What the unit does in a field when what is wanted of it is written.
Coming(field) == IF wanted[field] = "UNKNOWN" THEN Does(field) ELSE wanted[field]

\* The driver knows of the field what the unit will do, and nothing overruled it.
Agreed(field) == field \notin crossed /\ Coming(field) = current[field]

\* No call, answer or vane is about a horizontal vane that is not followed.
WideVaneIsLeft == ~FollowsWideVane => wanted.wide_vane = "UNKNOWN" /\ current.wide_vane = "UNKNOWN"

FanIsShown ==
    Agreed("fan") =>
      shown.fan_mode \in DOMAIN FanSpeeds /\ FanSpeeds[shown.fan_mode] = current.fan

VaneIsShown ==
    Agreed("vane") /\ wanted.vane = "UNKNOWN" /\ "vertical_select" \in has =>
      shown.vane = current.vane

WideVaneIsShown ==
    Agreed("wide_vane") /\ wanted.wide_vane = "UNKNOWN" /\ "horizontal_select" \in has
      /\ current.wide_vane \in WideVaneOptions =>
      shown.wide_vane = current.wide_vane

SwingIsShown ==
    Agreed("vane") /\ Agreed("wide_vane") /\ (FollowsWideVane => "horizontal_swing" \in has) =>
      shown.swing_mode = SwingModeOf(current.vane, current.wide_vane)

ShownInv == WideVaneIsLeft /\ FanIsShown /\ VaneIsShown /\ WideVaneIsShown /\ SwingIsShown

LEMMA FanCodeIsShown == \A fan \in DOMAIN FAN_TABLE : FanSpeeds[FanModeOf(fan)] = fan
BY DEF FAN_TABLE, FanModeOf, FanSpeeds

LEMMA ComingIsKnown ==
    /\ "UNKNOWN" \notin {Does("fan"), Does("vane"), Coming("fan"), Coming("vane")}
    /\ "UNKNOWN" \notin WideVaneOptions
<1>1. /\ Does("fan") \in DOMAIN FAN_TABLE \union {None}
      /\ Does("vane") \in DOMAIN VANE_TABLE \union {None}
  BY LookupTypes, OurTables DEF Does
<1>2. "UNKNOWN" \notin {Does("fan"), Does("vane")}
  BY <1>1, TableTypes, OurTables, AirflowAssumption
<1> QED
  BY <1>2, TableTypes, OurTables, AirflowAssumption DEF Coming

\* A unit that gets a SET does what was coming.
LEMMA ComingIsDone ==
    ASSUME TypeOK, WideVaneIsLeft, unit' = Obey(SetPacket), has' = has
    PROVE  /\ Does("fan")' = Coming("fan")
           /\ Does("vane")' = Coming("vane")
           /\ Does("wide_vane")' = Coming("wide_vane")
<1>1. /\ unit' \in UnitStates
      /\ unit'.fan = WillDo.fan /\ unit'.vane = WillDo.vane /\ unit'.wide_vane = WillDo.wide_vane
      /\ IF wanted.wide_vane = "UNKNOWN"
           THEN unit'.adjustment = unit.adjustment
           ELSE unit'.adjustment <=> unit'.wide_vane = 0 \/ current.wide_vane_adj
  BY SetObeyed DEF TypeOK
<1>2. /\ WillDo.fan = IF wanted.fan = "UNKNOWN" THEN unit.fan ELSE FAN_TABLE[wanted.fan]
      /\ WillDo.vane = IF wanted.vane = "UNKNOWN" THEN unit.vane ELSE VANE_TABLE[wanted.vane]
      /\ WillDo.wide_vane = IF wanted.wide_vane = "UNKNOWN"
                              THEN unit.wide_vane ELSE WIDEVANE_TABLE[wanted.wide_vane]
  BY WillDoFields DEF TypeOK
<1>3. /\ \A code \in DOMAIN FAN_TABLE : wire_to_enum(FAN_TABLE, FAN_TABLE[code]) = code
      /\ \A code \in DOMAIN VANE_TABLE : wire_to_enum(VANE_TABLE, VANE_TABLE[code]) = code
      /\ \A code \in DOMAIN WIDEVANE_TABLE :
           /\ wire_to_enum(WIDEVANE_TABLE, WIDEVANE_TABLE[code]) = code
           /\ WIDEVANE_TABLE[code] \in 0 .. 15
  BY CodesReadBack, OurTables DEF enum_to_wire, WIDEVANE_TABLE
<1>4. Does("fan")' = Coming("fan")
  BY <1>1, <1>2, <1>3 DEF Does, Coming, TypeOK, Wanted, Codes
<1>5. Does("vane")' = Coming("vane")
  BY <1>1, <1>2, <1>3 DEF Does, Coming, TypeOK, Wanted, Codes
<1>6. CASE ~FollowsWideVane
  BY <1>4, <1>5, <1>6 DEF WideVaneIsLeft, Does, Coming, FollowsWideVane
<1>7. CASE FollowsWideVane /\ wanted.wide_vane = "UNKNOWN"
  <2>1. WideVaneByte(unit)' = WideVaneByte(unit) /\ FollowsWideVane'
    BY <1>1, <1>2, <1>7 DEF WideVaneByte, FollowsWideVane
  <2> QED
    BY <1>1, <1>2, <1>4, <1>5, <1>7, <2>1 DEF Does, Coming
<1>8. CASE FollowsWideVane /\ wanted.wide_vane # "UNKNOWN"
  <2>1. "wide_vane" \in has
    BY <1>8, ConfiguredAsBuilt DEF FollowsWideVane, TypeOK
  <2>2. /\ unit'.wide_vane \in 0 .. 15
        /\ wire_to_enum(WIDEVANE_TABLE, unit'.wide_vane) = wanted.wide_vane
    BY <1>1, <1>2, <1>3, <1>8 DEF TypeOK, Wanted, Codes
  <2>3. WideVaneByte(unit)' # 0 /\ FollowsWideVane'
    BY <1>1, <1>8, <2>1, <2>2 DEF WideVaneByte, FollowsWideVane
  <2> QED
    BY <1>4, <1>5, <1>8, <2>2, <2>3 DEF Does, Coming
<1> QED
  BY <1>4, <1>5, <1>6, <1>7, <1>8

\* What is told of a write.
LEMMA WishIsShown ==
    ASSUME TypeOK
    PROVE  LET told == publish_wanted_settings_state_to_ha
               vane == IF wanted.vane = "UNKNOWN" THEN current.vane ELSE wanted.vane
               wide_vane == IF wanted.wide_vane = "UNKNOWN" THEN current.wide_vane
                                                            ELSE wanted.wide_vane
           IN  /\ told.fan_mode = IF wanted.fan = "UNKNOWN" THEN shown.fan_mode
                                                           ELSE check_fan_settings(wanted.fan)
               /\ \/ /\ wanted.vane = "UNKNOWN" /\ wanted.wide_vane = "UNKNOWN"
                     /\ told.vane = shown.vane /\ told.wide_vane = shown.wide_vane
                     /\ told.swing_mode = shown.swing_mode
                  \/ /\ told.vane = IF "vertical_select" \in has /\ vane # "UNKNOWN"
                                      THEN vane ELSE shown.vane
                     /\ told.wide_vane = IF "horizontal_select" \in has
                                              /\ wide_vane \in WideVaneOptions
                                           THEN wide_vane ELSE shown.wide_vane
                     /\ told.swing_mode = check_vane_settings(vane)
BY DEF publish_wanted_settings_state_to_ha, update_extra_select_components, TypeOK, Shown

LEMMA ShownKept ==
    ASSUME TypeOK, ShownInv, has' = has, crossed' = crossed,
           \A f \in Fields : wanted'[f] = wanted[f] /\ current'[f] = current[f],
           /\ unit'.fan = unit.fan /\ unit'.vane = unit.vane
           /\ unit'.wide_vane = unit.wide_vane /\ unit'.adjustment = unit.adjustment,
           /\ shown'.fan_mode = shown.fan_mode /\ shown'.swing_mode = shown.swing_mode
           /\ shown'.vane = shown.vane /\ shown'.wide_vane = shown.wide_vane
    PROVE  ShownInv'
<1>1. /\ wanted'.fan = wanted.fan /\ wanted'.vane = wanted.vane
      /\ wanted'.wide_vane = wanted.wide_vane
      /\ current'.fan = current.fan /\ current'.vane = current.vane
      /\ current'.wide_vane = current.wide_vane
  BY DEF Fields
<1>2. FollowsWideVane' = FollowsWideVane /\ WideVaneByte(unit)' = WideVaneByte(unit)
  BY DEF FollowsWideVane, WideVaneByte
<1>3. /\ Does("fan")' = Does("fan") /\ Does("vane")' = Does("vane")
      /\ Does("wide_vane")' = Does("wide_vane")
  BY <1>2 DEF Does
<1>4. /\ Agreed("fan")' = Agreed("fan") /\ Agreed("vane")' = Agreed("vane")
      /\ Agreed("wide_vane")' = Agreed("wide_vane")
  BY <1>1, <1>3 DEF Agreed, Coming
<1> QED
  BY <1>1, <1>2, <1>4
     DEF ShownInv, WideVaneIsLeft, FanIsShown, VaneIsShown, WideVaneIsShown, SwingIsShown

\* A call that agrees with what is known is shown at once or changes nothing that is shown.
LEMMA CallsAreShown ==
    ASSUME TypeOK, ShownInv, Control \/ Selects
    PROVE  ShownInv'
<1> USE DEF Wanted, Shown
<1>1. ASSUME has' = has, unit' = unit
      PROVE  /\ FollowsWideVane' = FollowsWideVane
             /\ Does("fan")' = Does("fan") /\ Does("vane")' = Does("vane")
             /\ Does("wide_vane")' = Does("wide_vane")
  <2>1. FollowsWideVane' = FollowsWideVane /\ WideVaneByte(unit)' = WideVaneByte(unit)
    BY <1>1 DEF FollowsWideVane, WideVaneByte
  <2> QED
    BY <1>1, <2>1 DEF Does
<1>2. ASSUME NEW mode \in FanModes, ControlFan(mode) PROVE ShownInv'
  <2>1. /\ has' = has /\ unit' = unit /\ crossed' = crossed /\ current' = current
        /\ wanted'.fan = FanSpeeds[mode] /\ shown'.fan_mode = mode
        /\ wanted'.vane = wanted.vane /\ wanted'.wide_vane = wanted.wide_vane
        /\ shown'.vane = shown.vane /\ shown'.wide_vane = shown.wide_vane
        /\ shown'.swing_mode = shown.swing_mode
    BY <1>2 DEF ControlFan, TypeOK
  <2>2. mode \in DOMAIN FanSpeeds /\ FanSpeeds[mode] # "UNKNOWN"
    BY AirflowAssumption, FanSpeedTypes, TableTypes, OurTables
  <2>3. FanIsShown'
    BY <2>1, <2>2 DEF FanIsShown, Agreed, Coming
  <2>4. Agreed("vane")' = Agreed("vane") /\ Agreed("wide_vane")' = Agreed("wide_vane")
    BY <1>1, <2>1 DEF Agreed, Coming
  <2> QED
    BY <1>1, <2>1, <2>3, <2>4
       DEF ShownInv, WideVaneIsLeft, VaneIsShown, WideVaneIsShown, SwingIsShown
<1>3. ASSUME NEW mode \in SwingModes, ControlSwing(mode) PROVE ShownInv'
  <2>1. /\ has' = has /\ unit' = unit /\ crossed' = crossed /\ current' = current
        /\ wanted'.fan = wanted.fan /\ shown'.swing_mode = mode
        /\ wanted'.vane = control_swing(mode).vane
        /\ wanted'.wide_vane = control_swing(mode).wide_vane
        /\ shown'.vane = shown.vane /\ shown'.wide_vane = shown.wide_vane
        /\ shown'.fan_mode = shown.fan_mode
        /\ OffersSwing(mode)
    BY <1>3 DEF ControlSwing, TypeOK
  <2>2. mode \in {"OFF", "VERTICAL", "HORIZONTAL", "BOTH"}
    BY AirflowAssumption
  <2>3. WideVaneIsLeft' /\ FanIsShown'
    <3>1. "horizontal_swing" \in has => FollowsWideVane
      BY DEF FollowsWideVane
    <3>2. Agreed("fan")' = Agreed("fan")
      BY <1>1, <2>1 DEF Agreed, Coming
    <3> QED
      BY <1>1, <2>1, <3>1, <3>2 DEF control_swing, ShownInv, WideVaneIsLeft, FanIsShown
  <2>4. wanted'.vane = "UNKNOWN" => wanted.vane = "UNKNOWN"
    BY <2>1 DEF control_swing
  <2>5. wanted'.wide_vane = "UNKNOWN" => wanted.wide_vane = "UNKNOWN"
    BY <2>1 DEF control_swing
  <2>6. VaneIsShown' /\ WideVaneIsShown'
    BY <1>1, <2>1, <2>4, <2>5 DEF ShownInv, VaneIsShown, WideVaneIsShown, Agreed, Coming
  <2>7. Agreed("vane")' => (current.vane = "SWING" <=> mode \in {"VERTICAL", "BOTH"})
    BY <1>1, <2>1 DEF Agreed, Coming, control_swing
  <2>8. "horizontal_swing" \in has /\ Agreed("wide_vane")' =>
          (current.wide_vane = "SWING" <=> mode \in {"HORIZONTAL", "BOTH"})
    BY <1>1, <2>1 DEF Agreed, Coming, control_swing
  <2>9. ~FollowsWideVane => current.wide_vane # "SWING" /\ mode \notin {"HORIZONTAL", "BOTH"}
    BY <2>1 DEF ShownInv, WideVaneIsLeft, OffersSwing, FollowsWideVane
  <2>10. SwingIsShown'
    BY <1>1, <2>1, <2>2, <2>7, <2>8, <2>9 DEF SwingIsShown, SwingModeOf
  <2> QED
    BY <2>3, <2>6, <2>10 DEF ShownInv
<1>4. ASSUME NEW vane \in SelectVanes, SelectVane(vane) PROVE ShownInv'
  <2>1. /\ has' = has /\ unit' = unit /\ crossed' = Overrules("vane") /\ current' = current
        /\ wanted'.vane = vane /\ shown' = shown
        /\ wanted'.fan = wanted.fan /\ wanted'.wide_vane = wanted.wide_vane
    BY <1>4 DEF SelectVane, TypeOK
  <2>2. vane # "UNKNOWN"
    BY AirflowAssumption, TableTypes, OurTables
  <2>3. Agreed("vane")' => Agreed("vane")
    BY <1>1, <2>1 DEF Agreed, Coming, Overrules
  <2>4. Agreed("fan")' = Agreed("fan") /\ Agreed("wide_vane")' = Agreed("wide_vane")
    BY <1>1, <2>1 DEF Agreed, Coming, Overrules
  <2> QED
    BY <1>1, <2>1, <2>2, <2>3, <2>4
       DEF ShownInv, WideVaneIsLeft, FanIsShown, VaneIsShown, WideVaneIsShown, SwingIsShown
<1>5. ASSUME NEW wide_vane \in SelectWideVanes, SelectWideVane(wide_vane) PROVE ShownInv'
  <2>1. /\ has' = has /\ unit' = unit /\ crossed' = Overrules("wide_vane") /\ current' = current
        /\ wanted'.wide_vane = wide_vane /\ shown' = shown /\ "horizontal_select" \in has
        /\ wanted'.fan = wanted.fan /\ wanted'.vane = wanted.vane
    BY <1>5 DEF SelectWideVane, TypeOK
  <2>2. wide_vane # "UNKNOWN" /\ FollowsWideVane
    BY <2>1, AirflowAssumption, TableTypes, OurTables DEF FollowsWideVane
  <2>3. Agreed("wide_vane")' => Agreed("wide_vane")
    BY <1>1, <2>1 DEF Agreed, Coming, Overrules
  <2>4. Agreed("fan")' = Agreed("fan") /\ Agreed("vane")' = Agreed("vane")
    BY <1>1, <2>1 DEF Agreed, Coming, Overrules
  <2> QED
    BY <1>1, <2>1, <2>2, <2>3, <2>4
       DEF ShownInv, WideVaneIsLeft, FanIsShown, VaneIsShown, WideVaneIsShown, SwingIsShown
<1>6. ASSUME NEW airflow \in SelectAirflows, SelectAirflow(airflow) PROVE ShownInv'
  <2>1. /\ has' = has /\ unit' = unit /\ crossed' = crossed /\ current' = current
        /\ wanted'.fan = wanted.fan /\ wanted'.vane = wanted.vane
        /\ wanted'.wide_vane = wanted.wide_vane
        /\ shown'.fan_mode = shown.fan_mode /\ shown'.swing_mode = shown.swing_mode
        /\ shown'.vane = shown.vane /\ shown'.wide_vane = shown.wide_vane
    BY <1>6 DEF SelectAirflow, TypeOK
  <2> QED
    BY <2>1, ShownKept DEF Fields
<1> QED
  BY <1>2, <1>3, <1>4, <1>5, <1>6 DEF Control, Selects

\* A write shows what it makes of the unit, and one that is lost is overruled.
LEMMA WritesAreShown ==
    ASSUME TypeOK, ShownInv, Writes
    PROVE  ShownInv'
<1>1. ASSUME reset_settings
      PROVE  /\ wanted'.fan = "UNKNOWN" /\ wanted'.vane = "UNKNOWN"
             /\ wanted'.wide_vane = "UNKNOWN"
  BY <1>1 DEF reset_settings, TypeOK, Wanted
<1>2. CASE DropEmptySettings
  <2>1. \A f \in Fields : wanted'[f] = wanted[f]
    BY <1>1, <1>2 DEF DropEmptySettings, has_payload, Fields
  <2> QED
    BY <1>2, <2>1, ShownKept DEF DropEmptySettings
<1>3. ASSUME send_wanted_settings,
             \A f \in Fields : /\ Agreed(f)' => Agreed(f)
                               /\ Agreed(f)' /\ wanted[f] # "UNKNOWN" => wanted[f] = current[f]
      PROVE  ShownInv'
  <2>1. /\ shown' = publish_wanted_settings_state_to_ha /\ has' = has /\ current' = current
        /\ wanted'.fan = "UNKNOWN" /\ wanted'.vane = "UNKNOWN" /\ wanted'.wide_vane = "UNKNOWN"
    BY <1>1, <1>3 DEF send_wanted_settings
  <2>2. FollowsWideVane' = FollowsWideVane
    BY <2>1 DEF FollowsWideVane
  <2>3. WideVaneIsLeft'
    BY <2>1, <2>2 DEF ShownInv, WideVaneIsLeft
  <2>4. FanIsShown'
    <3>1. ASSUME Agreed("fan")'
          PROVE  shown'.fan_mode = shown.fan_mode /\ FanIsShown /\ Agreed("fan")
      BY <1>3, <2>1, <3>1, WishIsShown DEF check_fan_settings, ShownInv, Fields
    <3> QED
      BY <2>1, <3>1 DEF FanIsShown
  <2> DEFINE vane == IF wanted.vane = "UNKNOWN" THEN current.vane ELSE wanted.vane
             wide_vane == IF wanted.wide_vane = "UNKNOWN" THEN current.wide_vane
                                                          ELSE wanted.wide_vane
  <2>5. Agreed("vane")' => vane = current.vane /\ Agreed("vane") /\ current.vane # "UNKNOWN"
    BY <1>3, ComingIsKnown DEF Fields, Agreed
  <2>6. Agreed("wide_vane")' => wide_vane = current.wide_vane /\ Agreed("wide_vane")
    BY <1>3 DEF Fields
  <2>7. \/ /\ wanted.vane = "UNKNOWN" /\ wanted.wide_vane = "UNKNOWN"
           /\ shown'.vane = shown.vane /\ shown'.wide_vane = shown.wide_vane
           /\ shown'.swing_mode = shown.swing_mode
        \/ /\ shown'.vane = IF "vertical_select" \in has /\ vane # "UNKNOWN"
                              THEN vane ELSE shown.vane
           /\ shown'.wide_vane = IF "horizontal_select" \in has /\ wide_vane \in WideVaneOptions
                                   THEN wide_vane ELSE shown.wide_vane
           /\ shown'.swing_mode = check_vane_settings(vane)
    BY <2>1, WishIsShown
  <2> HIDE DEF vane, wide_vane
  <2>8. VaneIsShown'
    BY <2>1, <2>5, <2>7 DEF ShownInv, VaneIsShown
  <2>9. WideVaneIsShown'
    BY <2>1, <2>6, <2>7 DEF ShownInv, WideVaneIsShown
  <2>10. SwingIsShown'
    BY <2>1, <2>2, <2>5, <2>6, <2>7 DEF ShownInv, SwingIsShown, check_vane_settings
  <2> QED
    BY <2>3, <2>4, <2>8, <2>9, <2>10 DEF ShownInv
<1>4. CASE SettingsDelivered
  <2>1. /\ send_wanted_settings /\ reset_settings /\ unit' = Obey(SetPacket) /\ has' = has
        /\ current' = current /\ crossed' = crossed
    BY <1>4 DEF SettingsDelivered, send_wanted_settings
  <2>2. /\ Does("fan")' = Coming("fan") /\ Does("vane")' = Coming("vane")
        /\ Does("wide_vane")' = Coming("wide_vane")
    BY <2>1, ComingIsDone DEF ShownInv
  <2>3. /\ Coming("fan")' = Coming("fan") /\ Coming("vane")' = Coming("vane")
        /\ Coming("wide_vane")' = Coming("wide_vane")
    BY <1>1, <2>1, <2>2 DEF Coming
  <2>4. \A f \in Fields : /\ Agreed(f)' => Agreed(f)
                          /\ Agreed(f) /\ wanted[f] # "UNKNOWN" => wanted[f] = current[f]
    <3>1. /\ Agreed("fan")' = Agreed("fan") /\ Agreed("vane")' = Agreed("vane")
          /\ Agreed("wide_vane")' = Agreed("wide_vane")
      BY <2>1, <2>3 DEF Agreed
    <3> QED
      BY <3>1 DEF Agreed, Coming, Fields
  <2> QED
    BY <1>3, <2>1, <2>4
<1>5. CASE SettingsLost
  <2>1. /\ send_wanted_settings /\ reset_settings /\ unit' = unit /\ has' = has
        /\ current' = current
        /\ crossed' = crossed \union {f \in Fields : wanted[f] # "UNKNOWN"}
    BY <1>5 DEF SettingsLost, send_wanted_settings
  <2>2. /\ Does("fan")' = Does("fan") /\ Does("vane")' = Does("vane")
        /\ Does("wide_vane")' = Does("wide_vane")
    <3>1. FollowsWideVane' = FollowsWideVane /\ WideVaneByte(unit)' = WideVaneByte(unit)
      BY <2>1 DEF FollowsWideVane, WideVaneByte
    <3> QED
      BY <2>1, <3>1 DEF Does
  <2>3. \A f \in Fields : Agreed(f)' => Agreed(f) /\ wanted[f] = "UNKNOWN"
    BY <1>1, <2>1, <2>2 DEF Agreed, Coming, Fields
  <2> QED
    BY <1>3, <2>1, <2>3
<1>6. CASE RunStatesDelivered \/ RunStatesLost
  <2>1. /\ has' = has /\ crossed' = crossed /\ current' = current
        /\ wanted'.fan = wanted.fan /\ wanted'.vane = wanted.vane
        /\ wanted'.wide_vane = wanted.wide_vane
        /\ shown'.fan_mode = shown.fan_mode /\ shown'.swing_mode = shown.swing_mode
        /\ shown'.vane = shown.vane /\ shown'.wide_vane = shown.wide_vane
    BY <1>6 DEF RunStatesDelivered, RunStatesLost, send_wanted_run_states, TypeOK, Wanted, Shown
  <2>2. /\ unit'.fan = unit.fan /\ unit'.vane = unit.vane /\ unit'.wide_vane = unit.wide_vane
        /\ unit'.adjustment = unit.adjustment
    <3>1. run_states_packet(wanted.airflow_control).b5 = 8
      BY DEF run_states_packet
    <3>2. \A packet : packet.b5 = 8 =>
            /\ Obey(packet).fan = unit.fan /\ Obey(packet).vane = unit.vane
            /\ Obey(packet).wide_vane = unit.wide_vane
            /\ Obey(packet).adjustment = unit.adjustment
      BY DEF Obey, TypeOK, UnitStates
    <3> QED
      BY <1>6, <3>1, <3>2 DEF RunStatesDelivered, RunStatesLost
  <2> QED
    BY <2>1, <2>2, ShownKept DEF Fields
<1> QED
  BY <1>2, <1>4, <1>5, <1>6 DEF Writes

LEMMA AnswersAreShown ==
    ASSUME TypeOK, ShownInv, NEW others, Readback(others)
    PROVE  ShownInv'
<1> USE FanCodeIsShown
<1>1. PICK received :
        /\ received.fan \in DOMAIN FAN_TABLE
        /\ received.vane \in DOMAIN VANE_TABLE
        /\ received.wide_vane \in Codes(WIDEVANE_TABLE)
        /\ ~FollowsWideVane => received.wide_vane = "UNKNOWN"
        /\ current'.fan = IF wanted.fan = "UNKNOWN" THEN received.fan ELSE current.fan
        /\ current'.vane = IF wanted.vane = "UNKNOWN" THEN received.vane ELSE current.vane
        /\ current'.wide_vane = IF wanted.wide_vane = "UNKNOWN" THEN received.wide_vane
                                                               ELSE current.wide_vane
        /\ shown'.fan_mode = check_fan_settings(current'.fan)
        /\ shown'.swing_mode = check_wide_vane_settings(current'.vane, current'.wide_vane)
        /\ \/ /\ received.vane = current.vane /\ received.wide_vane = current.wide_vane
              /\ shown'.vane = shown.vane /\ shown'.wide_vane = shown.wide_vane
           \/ /\ "vertical_select" \in has => shown'.vane = received.vane
              /\ "horizontal_select" \in has /\ received.wide_vane \in WideVaneOptions =>
                   shown'.wide_vane = received.wide_vane
  BY AnswerIsShown
<1>2. /\ wanted' = wanted /\ unit' = unit /\ has' = has
      /\ current'.fan = current.fan => ("fan" \in crossed' <=> "fan" \in crossed)
      /\ current'.vane = current.vane /\ current'.wide_vane = current.wide_vane =>
           /\ "vane" \in crossed' <=> "vane" \in crossed
           /\ "wide_vane" \in crossed' <=> "wide_vane" \in crossed
  BY DEF Readback
<1>3. /\ FollowsWideVane' = FollowsWideVane
      /\ Coming("fan")' = Coming("fan") /\ Coming("vane")' = Coming("vane")
      /\ Coming("wide_vane")' = Coming("wide_vane")
  <2>1. FollowsWideVane' = FollowsWideVane /\ WideVaneByte(unit)' = WideVaneByte(unit)
    BY <1>2 DEF FollowsWideVane, WideVaneByte
  <2> QED
    BY <1>2, <2>1 DEF Coming, Does
<1>4. WideVaneIsLeft'
  BY <1>1, <1>2, <1>3 DEF ShownInv, WideVaneIsLeft
<1>5. FanIsShown'
  <2>1. CASE current'.fan = current.fan
    BY <1>1, <1>2, <1>3, <2>1 DEF ShownInv, FanIsShown, Agreed, check_fan_settings
  <2>2. CASE current'.fan # current.fan
    BY <1>1, <2>2, FanSpeedTypes DEF FanIsShown, check_fan_settings
  <2> QED
    BY <2>1, <2>2
<1>6. CASE current'.vane = current.vane /\ current'.wide_vane = current.wide_vane
  <2>1. shown'.swing_mode = shown.swing_mode
    BY <1>1, <1>6 DEF check_wide_vane_settings, check_vane_settings
  <2>2. (Agreed("vane")' <=> Agreed("vane")) /\ (Agreed("wide_vane")' <=> Agreed("wide_vane"))
    BY <1>2, <1>3, <1>6 DEF Agreed
  <2>3. VaneIsShown'
    BY <1>1, <1>2, <1>6, <2>2, ComingIsKnown DEF ShownInv, VaneIsShown
  <2>4. WideVaneIsShown'
    BY <1>1, <1>2, <1>6, <2>2 DEF ShownInv, WideVaneIsShown
  <2>5. SwingIsShown'
    BY <1>2, <1>3, <1>6, <2>1, <2>2 DEF ShownInv, SwingIsShown
  <2> QED
    BY <1>4, <1>5, <2>3, <2>4, <2>5 DEF ShownInv
<1>7. CASE current'.vane # current.vane \/ current'.wide_vane # current.wide_vane
  <2>1. SwingIsShown'
    BY <1>7, SwingModeStep DEF SwingIsShown
  <2>2. /\ "vertical_select" \in has /\ wanted.vane = "UNKNOWN" => shown'.vane = current'.vane
        /\ "horizontal_select" \in has /\ wanted.wide_vane = "UNKNOWN"
             /\ current'.wide_vane \in WideVaneOptions =>
             shown'.wide_vane = current'.wide_vane
    BY <1>1, <1>7
  <2>3. VaneIsShown' /\ WideVaneIsShown'
    BY <1>2, <2>2 DEF VaneIsShown, WideVaneIsShown
  <2> QED
    BY <1>4, <1>5, <2>1, <2>3 DEF ShownInv
<1> QED
  BY <1>6, <1>7

\* A press that the driver has no need to hear of leaves the unit as it is known and shown.
LEMMA PressesAreShown ==
    ASSUME TypeOK, ShownInv, PressRemote
    PROVE  ShownInv'
<1>1. ASSUME NEW field \in Fields, NEW state, Press(field, state),
             \A f \in Fields \ {field} : state[f] = unit[f],
             field # "wide_vane" => state.adjustment = unit.adjustment
      PROVE  ShownInv'
  <2>1. /\ unit' = state /\ crossed' = Overrules(field)
        /\ wanted' = wanted /\ current' = current /\ shown' = shown /\ has' = has
    BY <1>1 DEF Press
  <2>2. FollowsWideVane' = FollowsWideVane
    BY <2>1 DEF FollowsWideVane
  <2>3. \A f \in Fields : Agreed(f)' => Agreed(f)
    <3>1. Agreed(field)' => Agreed(field)
      BY <2>1 DEF Agreed, Coming, Overrules
    <3>2. field # "fan" => Does("fan")' = Does("fan")
      BY <1>1, <2>1 DEF Does, Fields
    <3>3. field # "vane" => Does("vane")' = Does("vane")
      BY <1>1, <2>1 DEF Does, Fields
    <3>4. field # "wide_vane" => Does("wide_vane")' = Does("wide_vane")
      <4>1. field # "wide_vane" => /\ unit'.wide_vane = unit.wide_vane
                                   /\ WideVaneByte(unit)' = WideVaneByte(unit)
        BY <1>1, <2>1 DEF WideVaneByte, Fields
      <4> QED
        BY <2>2, <4>1 DEF Does
    <3>5. \A f \in Fields \ {field} : Agreed(f)' => Agreed(f)
      BY <2>1, <3>2, <3>3, <3>4 DEF Agreed, Coming, Overrules, Fields
    <3> QED
      BY <3>1, <3>5
  <2>4. WideVaneIsLeft' /\ FanIsShown'
    BY <2>1, <2>2, <2>3 DEF ShownInv, WideVaneIsLeft, FanIsShown, Fields
  <2>5. VaneIsShown' /\ WideVaneIsShown'
    BY <2>1, <2>3 DEF ShownInv, VaneIsShown, WideVaneIsShown, Fields
  <2>6. SwingIsShown'
    BY <2>1, <2>2, <2>3 DEF ShownInv, SwingIsShown, Fields
  <2> QED
    BY <2>4, <2>5, <2>6 DEF ShownInv
<1>2. ASSUME NEW byte \in RemoteFans, Press("fan", [unit EXCEPT !.fan = byte])
      PROVE  ShownInv'
  <2> DEFINE state == [unit EXCEPT !.fan = byte]
  <2>1. (\A f \in Fields \ {"fan"} : state[f] = unit[f]) /\ state.adjustment = unit.adjustment
    BY DEF TypeOK, UnitStates, Fields
  <2> HIDE DEF state
  <2> QED
    BY <1>1, <1>2, <2>1 DEF Fields, state
<1>3. ASSUME NEW byte \in RemoteVanes, Press("vane", [unit EXCEPT !.vane = byte])
      PROVE  ShownInv'
  <2> DEFINE state == [unit EXCEPT !.vane = byte]
  <2>1. (\A f \in Fields \ {"vane"} : state[f] = unit[f]) /\ state.adjustment = unit.adjustment
    BY DEF TypeOK, UnitStates, Fields
  <2> HIDE DEF state
  <2> QED
    BY <1>1, <1>3, <2>1 DEF Fields, state
<1>4. ASSUME NEW position \in RemoteWideVanes,
             Press("wide_vane", [unit EXCEPT !.wide_vane = position,
                                             !.adjustment = position = 0])
      PROVE  ShownInv'
  <2> DEFINE state == [unit EXCEPT !.wide_vane = position, !.adjustment = position = 0]
  <2>1. \A f \in Fields \ {"wide_vane"} : state[f] = unit[f]
    BY DEF TypeOK, UnitStates, Fields
  <2> HIDE DEF state
  <2> QED
    BY <1>1, <1>4, <2>1 DEF Fields, state
<1> QED
  BY <1>2, <1>3, <1>4 DEF PressRemote

\* A driver that has forgotten agrees to nothing; the other steps touch nothing that is shown.
LEMMA OthersAreShown ==
    ASSUME TypeOK, ShownInv,
           StartCycle \/ Answer \/ LoseAnswer \/ CycleTimeout \/ SwitchISee \/ Connect
    PROVE  ShownInv'
<1>1. CASE StartCycle \/ Answer \/ LoseAnswer \/ CycleTimeout
  BY <1>1, ShownKept DEF StartCycle, Answer, LoseAnswer, CycleTimeout
<1>2. CASE SwitchISee
  <2>1. /\ unit'.fan = unit.fan /\ unit'.vane = unit.vane
        /\ unit'.wide_vane = unit.wide_vane /\ unit'.adjustment = unit.adjustment
    BY <1>2 DEF SwitchISee, TypeOK, UnitStates
  <2> QED
    BY <1>2, <2>1, ShownKept DEF SwitchISee
<1>3. CASE Connect
  <2>1. /\ wanted' = wanted /\ unit' = unit /\ has' = has
        /\ current'.fan = "UNKNOWN" /\ current'.vane = "UNKNOWN" /\ current'.wide_vane = "UNKNOWN"
    BY <1>3 DEF Connect, TypeOK, Current
  <2>2. Coming("fan")' = Coming("fan") /\ Coming("vane")' = Coming("vane")
    BY <2>1 DEF Coming, Does
  <2>3. ~Agreed("fan")' /\ ~Agreed("vane")'
    BY <2>1, <2>2, ComingIsKnown DEF Agreed
  <2>4. FollowsWideVane' = FollowsWideVane
    BY <2>1 DEF FollowsWideVane
  <2>5. WideVaneIsLeft'
    BY <2>1, <2>4 DEF ShownInv, WideVaneIsLeft
  <2>6. FanIsShown' /\ VaneIsShown' /\ SwingIsShown'
    BY <2>3 DEF FanIsShown, VaneIsShown, SwingIsShown
  <2>7. WideVaneIsShown'
    BY <2>1, ComingIsKnown DEF WideVaneIsShown
  <2> QED
    BY <2>5, <2>6, <2>7 DEF ShownInv
<1> QED
  BY <1>1, <1>2, <1>3

LEMMA ShownIsInvariant == Spec => []ShownInv
<1>1. Init => ShownInv
  <2> SUFFICES ASSUME Init PROVE ShownInv
    OBVIOUS
  <2>1. /\ current.fan = "UNKNOWN" /\ current.vane = "UNKNOWN" /\ current.wide_vane = "UNKNOWN"
        /\ wanted.wide_vane = "UNKNOWN"
    BY DEF Init
  <2> QED
    BY <2>1, ComingIsKnown
       DEF ShownInv, WideVaneIsLeft, FanIsShown, VaneIsShown, WideVaneIsShown, SwingIsShown, Agreed
<1>2. TypeOK /\ ShownInv /\ [Next]_vars => ShownInv'
  <2>1. TypeOK /\ ShownInv /\ UNCHANGED vars => ShownInv'
    BY ShownKept DEF vars
  <2> QED
    BY <2>1, CallsAreShown, WritesAreShown, AnswersAreShown, PressesAreShown, OthersAreShown
       DEF Next, Cycles
<1> QED
  BY <1>1, <1>2, AirflowTypeCorrect, PTL DEF Spec

\* The property of the same name, for every set of features, every option and every byte:
\* nothing that is shown is left behind when the driver and the unit agree, in whatever
\* order calls, presses, answers and writes of both vanes come.
THEOREM KnownIsShown == Spec => []ShownIsKnown
<1>1. TypeOK /\ ShownInv => ShownIsKnown
  <2> SUFFICES ASSUME TypeOK, ShownInv PROVE ShownIsKnown
    OBVIOUS
  <2> DEFINE known == {f \in Fields \ crossed : wanted[f] = "UNKNOWN" /\ current[f] = Does(f)}
  <2>1. \A f \in known : Agreed(f) /\ wanted[f] = "UNKNOWN" /\ current[f] = Does(f)
    BY DEF Agreed, Coming
  <2> HIDE DEF known
  <2>2. "fan" \in known =>
          shown.fan_mode # None /\ FanSpeeds[shown.fan_mode] = Does("fan")
    BY <2>1, AirflowAssumption DEF ShownInv, FanIsShown
  <2>3. "vane" \in known /\ "vertical_select" \in has => shown.vane = Does("vane")
    BY <2>1 DEF ShownInv, VaneIsShown
  <2>4. "wide_vane" \in known /\ Does("wide_vane") \in WideVaneOptions
          /\ "horizontal_select" \in has =>
          shown.wide_vane = Does("wide_vane")
    BY <2>1 DEF ShownInv, WideVaneIsShown
  <2>5. {"vane", "wide_vane"} \subseteq known
          /\ (FollowsWideVane => "horizontal_swing" \in has) =>
          shown.swing_mode = SwingModeOf(Does("vane"), Does("wide_vane"))
    BY <2>1 DEF ShownInv, SwingIsShown
  <2> QED
    BY <2>2, <2>3, <2>4, <2>5 DEF ShownIsKnown, ShowsTheUnit, known
<1> QED
  BY <1>1, ShownIsInvariant, AirflowTypeCorrect, PTL
=============================================================================
