------------------------------- MODULE Airflow -------------------------------
(***************************************************************************)
(* Fan, vanes and airflow control: what Home Assistant asks for with the   *)
(* climate entity and with three selects, what is written in a SET, what   *)
(* the unit does, what the driver reads back and what Home Assistant is    *)
(* shown.  The swing mode is not a setting of the unit: it is made of the  *)
(* two vanes, each of which also has a select of its own.                  *)
(*                                                                         *)
(* The unit is modelled by the bytes it reports.  When a write or a cycle  *)
(* starts is left open within what decide_loop_action allows: no write     *)
(* while a cycle runs.  Power, mode and setpoint are in SettingsSync, and  *)
(* so is the fan mode OFF, which is a power command.                       *)
(***************************************************************************)
EXTENDS WireFormat

CONSTANTS
    FanModes,           \* the climate fan modes that are asked for
    SwingModes,         \* the climate swing modes
    SelectVanes,        \* what the select of the vertical vane is set to
    SelectWideVanes,    \* and that of the horizontal vane
    SelectAirflows,     \* and that of the airflow control
    WideVaneOptions,    \* the options this configuration offers for the horizontal vane
    RemoteFans,         \* bytes that the IR remote sets
    RemoteVanes,
    RemoteWideVanes,
    Installations,      \* the sets of features there are
    MaxEvents           \* bound on calls, presses and reconnections

Features ==
    {"wide_vane",           \* the unit has a horizontal vane
     "horizontal_swing",    \* the climate entity offers horizontal swing
     "vertical_select", "horizontal_select", "airflow_select",
     "losses"}              \* a SET may not reach the unit

FanSpeeds ==
    [QUIET |-> "QUIET", DIFFUSE |-> "QUIET", LOW |-> "F1", MEDIUM |-> "F2", MIDDLE |-> "F3",
     HIGH |-> "F4", ON |-> "AUTO", AUTO |-> "AUTO"]

ASSUME AirflowAssumption ==
    /\ FanModes \subseteq DOMAIN FanSpeeds
    /\ SwingModes \subseteq {"OFF", "VERTICAL", "HORIZONTAL", "BOTH"}
    /\ SelectVanes \subseteq DOMAIN VANE_TABLE
    /\ WideVaneOptions \subseteq DOMAIN WIDEVANE_TABLE
    /\ SelectWideVanes \subseteq WideVaneOptions
    /\ SelectAirflows \subseteq DOMAIN AIRFLOW_CONTROL_TABLE
    /\ RemoteFans \subseteq Byte /\ RemoteVanes \subseteq Byte
    /\ RemoteWideVanes \subseteq 0 .. 15
    /\ Installations \subseteq SUBSET Features
    /\ MaxEvents \in Nat
    /\ None \notin DOMAIN FanSpeeds \union {"UNKNOWN"}

\* An installation is configured as the unit is: horizontal swing and the selects that are
\* about it are offered where there is a horizontal vane.
ASSUME ConfiguredAsBuilt ==
    \A has \in Installations :
        "wide_vane" \notin has =>
          has \intersect {"horizontal_swing", "horizontal_select", "airflow_select"} = {}

VARIABLES
    wanted,         \* wanted_settings_ and wanted_run_states_
    current,        \* current_settings_, current_run_states_ and wide_vane_adj_
    shown,          \* what Home Assistant shows
    cycle,          \* "idle", or "asked" for 0x02
    reply,          \* the state of the unit in an answer on its way, or None
    unit,           \* what the unit does, as the bytes it reports
    has,            \* the features of this installation
    asked,          \* history: the last call about each field that nothing overruled
    crossed,        \* history: the fields overruled before they were read, or lost
    events          \* how much happened, up to MaxEvents

vars == <<wanted, current, shown, cycle, reply, unit, has, asked, crossed, events>>

Wanted == [fan : Codes(FAN_TABLE), vane : Codes(VANE_TABLE), wide_vane : Codes(WIDEVANE_TABLE),
           has_changed : BOOLEAN, airflow_control : Codes(AIRFLOW_CONTROL_TABLE)]

Current == [fan : Codes(FAN_TABLE), vane : Codes(VANE_TABLE), wide_vane : Codes(WIDEVANE_TABLE),
            i_see : BOOLEAN, airflow_control : Codes(AIRFLOW_CONTROL_TABLE),
            wide_vane_adj : BOOLEAN]

\* A select shows None until it is told something.
Shown == [fan_mode : DOMAIN FanSpeeds \union {None},
          swing_mode : {"OFF", "VERTICAL", "HORIZONTAL", "BOTH"},
          vane : DOMAIN VANE_TABLE \union {None},
          wide_vane : WideVaneOptions \union {None},
          airflow_control : DOMAIN AIRFLOW_CONTROL_TABLE \union {None}]

UnitStates == [fan : Byte, vane : Byte, wide_vane : 0 .. 15, adjustment : BOOLEAN,
               i_see : BOOLEAN, airflow_control : Byte]

Fields == {"fan", "vane", "wide_vane"}

TypeOK ==
    /\ wanted \in Wanted
    /\ current \in Current
    /\ shown \in Shown
    /\ cycle \in {"idle", "asked"}
    /\ reply \in UnitStates \union {None}
    /\ unit \in UnitStates
    /\ has \in Installations
    /\ asked \in [fan : DOMAIN FAN_TABLE \union {None}, vane : DOMAIN VANE_TABLE \union {None},
                  wide_vane : WideVaneOptions \union {None}, swing : SwingModes \union {None}]
    /\ crossed \subseteq Fields
    /\ events \in 0 .. MaxEvents

NothingAsked == [fan |-> None, vane |-> None, wide_vane |-> None, swing |-> None]

-----------------------------------------------------------------------------
(***************************************************************************)
(* The unit: an answer to 0x02, and what a SET changes.                    *)
(***************************************************************************)
WideVaneByte(state) ==
    IF "wide_vane" \in has THEN state.wide_vane + (IF state.adjustment THEN 128 ELSE 0) ELSE 0

Report(state) ==
    LET bytes == <<2, 0, 0, 1, IF state.i_see THEN 9 ELSE 1, 0, state.fan, state.vane, 0, 0,
                   WideVaneByte(state), 0, 0, 0, state.airflow_control, 0>>
    IN  [i \in 0 .. 15 |-> bytes[i + 1]]

\* Airflow control is reported as 128, the adjustment with no position.
Obey(packet) ==
    IF packet.b5 = 1
      THEN [unit EXCEPT
              !.fan = IF Flagged(packet.b6, 8) THEN packet.b11 ELSE @,
              !.vane = IF Flagged(packet.b6, 16) THEN packet.b12 ELSE @,
              !.wide_vane = IF Flagged(packet.b7, 1) THEN packet.b18 % 16 ELSE @,
              !.adjustment = IF Flagged(packet.b7, 1)
                               THEN packet.b18 \in {0} \union 128 .. 255 ELSE @]
      ELSE [unit EXCEPT !.airflow_control = IF Flagged(packet.b6, 32) THEN packet.b11 ELSE @]

-----------------------------------------------------------------------------
(***************************************************************************)
(* What Home Assistant is shown.                                           *)
(***************************************************************************)
FanModeOf(fan) ==
    CASE fan = "QUIET" -> "QUIET"
      [] fan = "F1" -> "LOW"
      [] fan = "F2" -> "MEDIUM"
      [] fan = "F3" -> "MIDDLE"
      [] fan = "F4" -> "HIGH"
      [] OTHER -> "AUTO"

SwingModeOf(vane, wide_vane) ==
    CASE vane = "SWING" /\ wide_vane = "SWING" -> "BOTH"
      [] vane = "SWING" /\ wide_vane # "SWING" -> "VERTICAL"
      [] vane # "SWING" /\ wide_vane = "SWING" -> "HORIZONTAL"
      [] OTHER -> "OFF"

\* The modes that are shown for settings: as they are unless a setting differs from what
\* the driver knows.
check_fan_settings(fan) == IF fan = current.fan THEN shown.fan_mode ELSE FanModeOf(fan)

check_vane_settings(vane) ==
    IF vane = current.vane THEN shown.swing_mode ELSE SwingModeOf(vane, current.wide_vane)

\* Mutant: the horizontal vane does not count.
MutWideVaneLeavesTheSwingMode(vane, wide_vane) == check_vane_settings(vane)

\* The vertical vane was checked before, and is known by now.
check_wide_vane_settings(vane, wide_vane) ==
    IF wide_vane = current.wide_vane THEN check_vane_settings(vane)
                                     ELSE SwingModeOf(vane, wide_vane)

\* Mutant: both selects are told when there is the vertical one.
MutHorizontalNeedsVertical(shows, vane, wide_vane) ==
    [shows EXCEPT
       !.vane = IF "vertical_select" \in has /\ vane # "UNKNOWN" THEN vane ELSE @,
       !.wide_vane = IF "vertical_select" \in has /\ wide_vane \in WideVaneOptions
                       THEN wide_vane ELSE @]

\* A select is told no option that it does not offer; the vertical one offers all.
update_extra_select_components(shows, vane, wide_vane) ==
    [shows EXCEPT
       !.vane = IF "vertical_select" \in has /\ vane # "UNKNOWN" THEN vane ELSE @,
       !.wide_vane = IF "horizontal_select" \in has /\ wide_vane \in WideVaneOptions
                       THEN wide_vane ELSE @]

\* What a call still wants is not overwritten by an answer.
Learned(settings) ==
    [fan |-> IF wanted.fan = "UNKNOWN" THEN settings.fan ELSE current.fan,
     vane |-> IF wanted.vane = "UNKNOWN" THEN settings.vane ELSE current.vane,
     wide_vane |-> IF wanted.wide_vane = "UNKNOWN" THEN settings.wide_vane
                                                   ELSE current.wide_vane]

publish_state_to_ha(settings) ==
    LET learned == Learned(settings)
    IN  update_extra_select_components(
            [shown EXCEPT
               !.fan_mode = check_fan_settings(learned.fan),
               !.swing_mode = check_wide_vane_settings(learned.vane, learned.wide_vane)],
            settings.vane, settings.wide_vane)

\* Mutant: the fan is no difference.
MutIgnoresTheFan(settings, others) ==
    IF /\ settings.vane = current.vane
       /\ settings.wide_vane = current.wide_vane
       /\ settings.i_see = current.i_see
       /\ ~others
      THEN shown
      ELSE publish_state_to_ha(settings)

\* `others` when power, mode or setpoint differ.
heatpump_update(settings, others) ==
    IF /\ settings.fan = current.fan
       /\ settings.vane = current.vane
       /\ settings.wide_vane = current.wide_vane
       /\ settings.i_see = current.i_see
       /\ ~others
      THEN shown
      ELSE publish_state_to_ha(settings)

\* The horizontal vane is followed only where this configuration exposes it.
FollowsWideVane == has \intersect {"horizontal_swing", "horizontal_select"} # {}

Received(decoded) ==
    [fan |-> resolve_or_keep(decoded.fan, current.fan, "AUTO"),
     vane |-> resolve_or_keep(decoded.vane, current.vane, "AUTO"),
     wide_vane |-> IF decoded.wide_vane_present /\ FollowsWideVane
                     THEN resolve_or_keep(decoded.wide_vane, current.wide_vane, "CENTER")
                     ELSE "UNKNOWN",
     i_see |-> decoded.i_see]

\* \E binds what TLC would otherwise evaluate at each use.
get_settings_from_response_packet(data, others) ==
    \E decoded \in {decode_settings(data, 16)} :
    \E received \in {Received(decoded)} :
    \E airflow \in {IF "airflow_select" \notin has \/ decoded.airflow_control = None
                      THEN current.airflow_control ELSE decoded.airflow_control} :
      /\ current' = [fan |-> Learned(received).fan, vane |-> Learned(received).vane,
                     wide_vane |-> Learned(received).wide_vane, i_see |-> decoded.i_see,
                     airflow_control |-> airflow,
                     wide_vane_adj |-> IF decoded.wide_vane_present /\ FollowsWideVane
                                         THEN decoded.wide_vane_adjustment
                                         ELSE current.wide_vane_adj]
      /\ shown' = [heatpump_update(received, others) EXCEPT
                     !.airflow_control = IF airflow # current.airflow_control THEN airflow ELSE @]

\* What is asked for, completed by the vane that it does not name.
publish_wanted_settings_state_to_ha ==
    LET vane == IF wanted.vane = "UNKNOWN" THEN current.vane ELSE wanted.vane
        wide_vane == IF wanted.wide_vane = "UNKNOWN" THEN current.wide_vane
                                                     ELSE wanted.wide_vane
        fan == IF wanted.fan = "UNKNOWN" THEN shown
               ELSE [shown EXCEPT !.fan_mode = check_fan_settings(wanted.fan)]
    IN  IF {wanted.vane, wanted.wide_vane} = {"UNKNOWN"} THEN fan ELSE
        update_extra_select_components([fan EXCEPT !.swing_mode = check_vane_settings(vane)],
                                       vane, wide_vane)

-----------------------------------------------------------------------------
(***************************************************************************)
(* Home Assistant.                                                         *)
(***************************************************************************)
Happens == events < MaxEvents /\ events' = events + 1

\* What an answer tells the driver of a field: None when the byte is not recognized.
Does(field) ==
    CASE field = "fan" -> wire_to_enum(FAN_TABLE, unit.fan)
      [] field = "vane" -> wire_to_enum(VANE_TABLE, unit.vane)
      [] field = "wide_vane" -> IF FollowsWideVane /\ WideVaneByte(unit) # 0
                                  THEN wire_to_enum(WIDEVANE_TABLE, unit.wide_vane)
                                  ELSE "UNKNOWN"

\* The fields that are overruled before what was asked of one of them is read back.
Overrules(field) ==
    IF wanted[field] # "UNKNOWN" \/ current[field] # Does(field) THEN crossed \union {field}
                                                              ELSE crossed

\* Nothing is under way about the vanes: what control_swing looks at is what the unit does.
VanesAreRead ==
    /\ wanted.vane = "UNKNOWN" /\ wanted.wide_vane = "UNKNOWN"
    /\ current.vane = Does("vane")
    /\ current.wide_vane = Does("wide_vane")

\* Mutant: what swings is not stopped.
MutSwingGoesOn(mode) ==
    [vane |-> IF mode \in {"VERTICAL", "BOTH"} THEN "SWING" ELSE wanted.vane,
     wide_vane |-> IF "horizontal_swing" \notin has THEN wanted.wide_vane
                   ELSE IF mode \in {"HORIZONTAL", "BOTH"} THEN "SWING" ELSE wanted.wide_vane]

\* control_swing: vanes that swing are stopped, vanes that do not are left where they are.
control_swing(mode) ==
    [vane |-> IF mode \in {"VERTICAL", "BOTH"} THEN "SWING"
              ELSE IF current.vane = "SWING" THEN "AUTO" ELSE wanted.vane,
     wide_vane |-> IF "horizontal_swing" \notin has THEN wanted.wide_vane
                   ELSE IF mode \in {"HORIZONTAL", "BOTH"} THEN "SWING"
                   ELSE IF current.wide_vane = "SWING" THEN "CENTER" ELSE wanted.wide_vane]

OffersSwing(mode) == mode \in {"HORIZONTAL", "BOTH"} => "horizontal_swing" \in has

\* A call of the climate entity about the fan.
ControlFan(mode) ==
    /\ Happens
    /\ wanted' = [wanted EXCEPT !.fan = FanSpeeds[mode], !.has_changed = TRUE]
    /\ shown' = [shown EXCEPT !.fan_mode = mode]
    /\ asked' = [asked EXCEPT !.fan = FanSpeeds[mode]]
    /\ UNCHANGED <<current, cycle, reply, unit, has, crossed>>

\* A call about the swing mode.
ControlSwing(mode) ==
    /\ OffersSwing(mode)
    /\ Happens
    /\ wanted' = [wanted EXCEPT !.vane = control_swing(mode).vane,
                                !.wide_vane = control_swing(mode).wide_vane,
                                !.has_changed = TRUE]
    /\ shown' = [shown EXCEPT !.swing_mode = mode]
    /\ asked' = [asked EXCEPT !.vane = None, !.wide_vane = None,
                              !.swing = IF VanesAreRead THEN mode ELSE None]
    /\ UNCHANGED <<current, cycle, reply, unit, has, crossed>>

SelectVane(vane) ==
    /\ "vertical_select" \in has
    /\ Happens
    /\ wanted' = [wanted EXCEPT !.vane = vane, !.has_changed = TRUE]
    /\ asked' = [asked EXCEPT !.vane = vane, !.swing = None]
    /\ crossed' = Overrules("vane")
    /\ UNCHANGED <<current, shown, cycle, reply, unit, has>>

SelectWideVane(wide_vane) ==
    /\ "horizontal_select" \in has
    /\ Happens
    /\ wanted' = [wanted EXCEPT !.wide_vane = wide_vane, !.has_changed = TRUE]
    /\ asked' = [asked EXCEPT !.wide_vane = wide_vane, !.swing = None]
    /\ crossed' = Overrules("wide_vane")
    /\ UNCHANGED <<current, shown, cycle, reply, unit, has>>

\* Refused, by showing what the unit reports, unless the horizontal vane is on airflow control.
SelectAirflow(airflow) ==
    /\ "airflow_select" \in has
    /\ Happens
    /\ \/ /\ current.wide_vane = "AIRFLOW_CONTROL"
          /\ wanted' = [wanted EXCEPT !.airflow_control = airflow]
          /\ UNCHANGED shown
       \/ /\ current.wide_vane # "AIRFLOW_CONTROL"
          /\ shown' = [shown EXCEPT !.airflow_control =
                         IF current.airflow_control = "UNKNOWN" THEN @
                                                                ELSE current.airflow_control]
          /\ UNCHANGED wanted
    /\ UNCHANGED <<current, cycle, reply, unit, has, asked, crossed>>

(***************************************************************************)
(* Writes, between cycles.                                                 *)
(***************************************************************************)
\* Mutant: the horizontal vane alone is not a payload.
MutPayloadWithoutWideVane == wanted.fan # "UNKNOWN" \/ wanted.vane # "UNKNOWN"

has_payload ==
    wanted.fan # "UNKNOWN" \/ wanted.vane # "UNKNOWN" \/ wanted.wide_vane # "UNKNOWN"

\* Mutant: only the flags are reset, the fields stay wanted.
MutResetOnlyFlags == wanted' = [wanted EXCEPT !.has_changed = FALSE]

reset_settings ==
    wanted' = [wanted EXCEPT !.fan = "UNKNOWN", !.vane = "UNKNOWN", !.wide_vane = "UNKNOWN",
                             !.has_changed = FALSE]

SetPacket ==
    create_packet([power |-> "UNKNOWN", mode |-> "UNKNOWN", temperature |-> None,
                   fan |-> wanted.fan, vane |-> wanted.vane, wide_vane |-> wanted.wide_vane],
                  current.wide_vane_adj)

DropEmptySettings ==
    /\ cycle = "idle"
    /\ wanted.has_changed
    /\ ~has_payload
    /\ reset_settings
    /\ UNCHANGED <<current, shown, cycle, reply, unit, has, asked, crossed, events>>

\* send_wanted_settings_delegate, which tells Home Assistant what it has asked for.
send_wanted_settings ==
    /\ cycle = "idle"
    /\ wanted.has_changed
    /\ has_payload
    /\ shown' = publish_wanted_settings_state_to_ha
    /\ reset_settings
    /\ UNCHANGED <<current, cycle, reply, has, events>>

SettingsDelivered ==
    /\ send_wanted_settings
    /\ unit' = Obey(SetPacket)
    /\ UNCHANGED <<asked, crossed>>

\* Nothing writes them again.
SettingsLost ==
    /\ "losses" \in has
    /\ send_wanted_settings
    /\ asked' = NothingAsked
    /\ crossed' = crossed \union {f \in Fields : wanted[f] # "UNKNOWN"}
    /\ UNCHANGED unit

send_wanted_run_states ==
    /\ cycle = "idle"
    /\ wanted.airflow_control # "UNKNOWN"
    /\ shown' = [shown EXCEPT !.airflow_control = wanted.airflow_control]
    /\ wanted' = [wanted EXCEPT !.airflow_control = "UNKNOWN"]
    /\ UNCHANGED <<current, cycle, reply, has, asked, crossed, events>>

RunStatesDelivered ==
    /\ send_wanted_run_states
    /\ unit' = Obey(run_states_packet(wanted.airflow_control))

RunStatesLost ==
    /\ "losses" \in has
    /\ send_wanted_run_states
    /\ UNCHANGED unit

(***************************************************************************)
(* Info cycles.  A cycle that times out leaves an answer on its way, which *)
(* is read all the same.                                                   *)
(***************************************************************************)
StartCycle ==
    /\ cycle = "idle"
    /\ ~wanted.has_changed /\ wanted.airflow_control = "UNKNOWN"
    /\ cycle' = "asked"
    /\ UNCHANGED <<wanted, current, shown, reply, unit, has, asked, crossed, events>>

Answer ==
    /\ cycle = "asked"
    /\ reply = None
    /\ reply' = unit
    /\ UNCHANGED <<wanted, current, shown, cycle, unit, has, asked, crossed, events>>

Readback(others) ==
    /\ reply # None
    /\ get_settings_from_response_packet(Report(reply), others)
    /\ reply' = None
    /\ cycle' = "idle"
    /\ crossed' = {f \in crossed :
                     IF f = "fan" THEN current'.fan = current.fan
                     ELSE current'.vane = current.vane /\ current'.wide_vane = current.wide_vane}
    /\ UNCHANGED <<wanted, unit, has, asked, events>>

LoseAnswer ==
    /\ reply # None
    /\ reply' = None
    /\ UNCHANGED <<wanted, current, shown, cycle, unit, has, asked, crossed, events>>

CycleTimeout ==
    /\ cycle = "asked"
    /\ cycle' = "idle"
    /\ UNCHANGED <<wanted, current, shown, reply, unit, has, asked, crossed, events>>

(***************************************************************************)
(* The IR remote and the link.                                             *)
(***************************************************************************)
Press(field, state) ==
    /\ Happens
    /\ unit' = state
    /\ crossed' = Overrules(field)
    /\ asked' = IF field = "fan" THEN [asked EXCEPT !.fan = None]
                                 ELSE [asked EXCEPT ![field] = None, !.swing = None]
    /\ UNCHANGED <<wanted, current, shown, cycle, reply, has>>

PressRemote ==
    \/ \E byte \in RemoteFans : Press("fan", [unit EXCEPT !.fan = byte])
    \/ \E byte \in RemoteVanes : Press("vane", [unit EXCEPT !.vane = byte])
    \/ /\ "wide_vane" \in has
       /\ \E position \in RemoteWideVanes :
            Press("wide_vane", [unit EXCEPT !.wide_vane = position,
                                            !.adjustment = position = 0])

\* i-See is switched with the remote.
SwitchISee ==
    /\ "airflow_select" \in has
    /\ Happens
    /\ unit' = [unit EXCEPT !.i_see = ~@]
    /\ UNCHANGED <<wanted, current, shown, cycle, reply, has, asked, crossed>>

\* Each time the driver connects it forgets what it knew of the unit.
Connect ==
    /\ Happens
    /\ current' = [current EXCEPT !.fan = "UNKNOWN", !.vane = "UNKNOWN", !.wide_vane = "UNKNOWN",
                                  !.airflow_control = "UNKNOWN"]
    /\ cycle' = "idle"
    /\ UNCHANGED <<wanted, shown, reply, unit, has, asked, crossed>>

-----------------------------------------------------------------------------
Init ==
    /\ wanted = [fan |-> "UNKNOWN", vane |-> "UNKNOWN", wide_vane |-> "UNKNOWN",
                 has_changed |-> FALSE, airflow_control |-> "UNKNOWN"]
    /\ current = [fan |-> "UNKNOWN", vane |-> "UNKNOWN", wide_vane |-> "UNKNOWN",
                  i_see |-> FALSE, airflow_control |-> "UNKNOWN", wide_vane_adj |-> FALSE]
    /\ shown = [fan_mode |-> None, swing_mode |-> "OFF", vane |-> None, wide_vane |-> None,
                airflow_control |-> None]
    /\ cycle = "idle"
    /\ reply = None
    /\ has \in Installations
    /\ unit = [fan |-> 0, vane |-> 0, wide_vane |-> 3, adjustment |-> FALSE,
               i_see |-> "airflow_select" \in has, airflow_control |-> 0]
    /\ asked = NothingAsked
    /\ crossed = {}
    /\ events = 0

Control ==
    \/ \E mode \in FanModes : ControlFan(mode)
    \/ \E mode \in SwingModes : ControlSwing(mode)

Selects ==
    \/ \E vane \in SelectVanes : SelectVane(vane)
    \/ \E wide_vane \in SelectWideVanes : SelectWideVane(wide_vane)
    \/ \E airflow \in SelectAirflows : SelectAirflow(airflow)

Writes ==
    DropEmptySettings \/ SettingsDelivered \/ SettingsLost \/ RunStatesDelivered \/ RunStatesLost

Cycles == StartCycle \/ Answer \/ (\E others \in BOOLEAN : Readback(others)) \/ LoseAnswer
            \/ CycleTimeout

Next == Control \/ Selects \/ Writes \/ Cycles \/ PressRemote \/ SwitchISee \/ Connect

Spec == Init /\ [][Next]_vars

\* loop() goes on.  An answer that is asked for again and again gets through once.
Fairness ==
    /\ WF_vars(Writes)
    /\ WF_vars(StartCycle)
    /\ WF_vars(CycleTimeout)
    /\ SF_vars(Answer)
    /\ SF_vars(\E others \in BOOLEAN : Readback(others))

FairSpec == Spec /\ Fairness

-----------------------------------------------------------------------------
(***************************************************************************)
(* Properties.                                                             *)
(***************************************************************************)
\* Whatever calls, presses, late answers and losses cross, the driver comes to know what
\* the unit does, in every field whose byte it recognizes: what a call still wants keeps
\* an answer out, but not for ever.
DriverLearns == <>[](\A f \in Fields : Does(f) # None => current[f] = Does(f))

\* What was asked for, and neither lost nor overruled, as bytes of the unit.
AsAsked(state) ==
    /\ asked.fan # None => state.fan = FAN_TABLE[asked.fan]
    /\ asked.vane # None => state.vane = VANE_TABLE[asked.vane]
    /\ asked.wide_vane # None => state.wide_vane = WIDEVANE_TABLE[asked.wide_vane]
    /\ asked.swing # None =>
         /\ state.vane = VANE_TABLE.SWING <=> asked.swing \in {"VERTICAL", "BOTH"}
         /\ "horizontal_swing" \in has =>
              (state.wide_vane = WIDEVANE_TABLE.SWING
                 <=> asked.swing \in {"HORIZONTAL", "BOTH"})

\* A call that no frame lost and no later call or press overruled is what the unit does in
\* the end, although it is merged with other calls, held back by cycles and crossed by
\* answers that still report the state before it.  A swing mode counts when the
\* vanes had been read (VanesAreRead), since control_swing starts from what was read.
CallsAreObeyed == <>[]AsAsked(unit)

\* What the unit does once everything that is wanted is written.
WillDo ==
    [unit EXCEPT !.fan = IF wanted.fan = "UNKNOWN" THEN @ ELSE FAN_TABLE[wanted.fan],
                 !.vane = IF wanted.vane = "UNKNOWN" THEN @ ELSE VANE_TABLE[wanted.vane],
                 !.wide_vane = IF wanted.wide_vane = "UNKNOWN"
                                 THEN @ ELSE WIDEVANE_TABLE[wanted.wide_vane]]

\* Until then such a call is not forgotten: at every moment the unit does it, or a write
\* that is due makes it.
CallsAreKept ==
    /\ (\E f \in Fields : wanted[f] # "UNKNOWN") => wanted.has_changed
    /\ AsAsked(WillDo)

\* Home Assistant shows what the unit does in these fields, where the driver recognizes
\* it: the fan mode, the selects and, of both vanes, the swing mode.  Not the swing mode where
\* a horizontal vane has a select but no swing mode: a call then means the other vane only.
ShowsTheUnit(fields) ==
    /\ "fan" \in fields /\ Does("fan") # None =>
         shown.fan_mode # None /\ FanSpeeds[shown.fan_mode] = Does("fan")
    /\ "vane" \in fields /\ Does("vane") # None /\ "vertical_select" \in has =>
         shown.vane = Does("vane")
    /\ "wide_vane" \in fields /\ Does("wide_vane") \in WideVaneOptions
         /\ "horizontal_select" \in has =>
         shown.wide_vane = Does("wide_vane")
    /\ {"vane", "wide_vane"} \subseteq fields /\ None \notin {Does("vane"), Does("wide_vane")}
         /\ (FollowsWideVane => "horizontal_swing" \in has) =>
         shown.swing_mode = SwingModeOf(Does("vane"), Does("wide_vane"))

\* Home Assistant ends up showing what the unit does, unless a SET was lost, or a
\* press or a select overruled a call before it was read: nothing differs from what was
\* read last when the unit is back there, and what the call made shown stays.
ShownIsReal == <>[]ShowsTheUnit(Fields \ crossed)

\* It does as soon as the driver wants nothing of a field and knows what the unit does there,
\* although it shows what is asked before it is done and what is read before it is asked.
ShownIsKnown ==
    ShowsTheUnit({f \in Fields \ crossed : wanted[f] = "UNKNOWN" /\ current[f] = Does(f)})

\* An answer that changes what the driver knows of either vane leaves a swing mode made of
\* both, although each is looked at separately, the first of them with the other one's
\* old value, and what a call still wants of one of them keeps its answer out.
SwingModeIsOfBothVanes ==
    [][current'.vane # current.vane \/ current'.wide_vane # current.wide_vane =>
         \/ "UNKNOWN" \in {current'.vane, current'.wide_vane}
         \/ shown'.swing_mode = SwingModeOf(current'.vane, current'.wide_vane)]_vars
=============================================================================
