------------------------------ MODULE IioMeter ------------------------------
(***************************************************************************)
(* The IIO energy meter of the AIDL PowerStats service:                   *)
(* IioEnergyMeterDataProvider and IioEnergyMeterDataSelector              *)
(* (src/powerstats/libpowerstats/dataproviders/).  Files are abstracted   *)
(* to what the parsers tell apart:                                         *)
(*  - an entry of /sys/bus/iio/devices/ is [path, iio, name]: iio when its *)
(*    name contains "iio:device", name the set of kDeviceNames its name   *)
(*    file contains, or Unreadable;                                        *)
(*  - a line of enabled_rails is [name, sub] when it splits into four     *)
(*    words around ":][", else Malformed;                                  *)
(*  - energy_value is "t=<t>" and a line per well-formed enabled rail of  *)
(*    the device, in enabled_rails order.  The outcome of reading it is   *)
(*    the index of the first line that does not parse, 1 when the file    *)
(*    does not read, past the last line when all parse; one outcome per   *)
(*    device holds for a whole binder call;                                *)
(*  - a line of odpm_config is Blank (only blanks and tabs), [hdr |-> d]  *)
(*    when it splits into three words around "][" (d the middle one), or  *)
(*    [cfg |-> x].                                                         *)
(* The driver's answer to the selector's writes is outside this           *)
(* repository: enabled_rails is the constant EnabledRails.                *)
(***************************************************************************)
EXTENDS Integers, Sequences, SequencesExt, FiniteSets, Functions

CONSTANTS
  DeviceNames,        \* kDeviceNames, in order
  IioEntries,         \* the entries of kIioRootDir
  EnabledRails,       \* [path -> the lines of its enabled_rails, or Unreadable]
  UseSelector,        \* the constructor's useSelector
  OdpmConfig,         \* the lines of the one file of kConfigPaths, or Unreadable
  DevEnergy(_, _, _), \* DevEnergy(path, rail, t): the rail's energy on that device at t
  ReadOutcomes,       \* [path -> indices of its first energy_value line that fails]
  Unreadable, Malformed, Blank

VARIABLES
  mDevicePaths,   \* <<[path, name], ...>>: the unordered_map in its iteration order
  mChannelInfos,  \* <<[id, name, subsystem], ...>>
  mReading,       \* <<[id, ts, energy], ...>>, one per channel
  selWrites       \* the selector's WriteStringToFile calls, in order

meterVars == <<mDevicePaths, mChannelInfos, mReading, selWrites>>

Complete == "CONFIG_COMPLETE"

\* A default-constructed EnergyMeasurement.
NoReading == [id |-> 0, ts |-> 0, energy |-> 0]

-----------------------------------------------------------------------------
(* The constructor.                                                         *)

\* findIioEnergyMeterNodes: each iio:device whose name file reads, with the
\* first of kDeviceNames the file contains (emplace keeps the first).
FindIioEnergyMeterNodes ==
  LET found == {e \in IioEntries :
                  e.iio /\ e.name # Unreadable /\ \E k \in DOMAIN DeviceNames : DeviceNames[k] \in e.name}
  IN [p \in {e.path : e \in found} |->
        LET e == CHOOSE x \in found : x.path = p
        IN DeviceNames[SelectInSeq(DeviceNames, LAMBDA d : d \in e.name)]]

\* The orders an unordered_map with these entries may iterate in.
IterationOrders(m) ==
  {[k \in 1 .. Cardinality(DOMAIN m) |-> [path |-> o[k], name |-> m[o[k]]]] :
     o \in {f \in [1 .. Cardinality(DOMAIN m) -> DOMAIN m] : IsInjective(f)}}

\* parseEnabledRails, one line: a well-formed line of a new name is the
\* next channel; a name already in mChannelIds is skipped (only logged).
AddRail(infos, l) ==
  IF l = Malformed \/ \E k \in DOMAIN infos : infos[k].name = l.name THEN infos
  ELSE Append(infos, [id |-> Len(infos), name |-> l.name, subsystem |-> l.sub])

\* The lines parseEnabledRails reads: the devices' files in iteration
\* order, an unreadable one skipped.
RECURSIVE RailLines(_)
RailLines(devs) ==
  IF devs = <<>> THEN <<>>
  ELSE (IF EnabledRails[Head(devs).path] = Unreadable THEN <<>> ELSE EnabledRails[Head(devs).path])
       \o RailLines(Tail(devs))

RECURSIVE AddRails(_, _)
AddRails(infos, ls) == IF ls = <<>> THEN infos ELSE AddRails(AddRail(infos, Head(ls)), Tail(ls))

ParseEnabledRails(devs) == AddRails(<<>>, RailLines(devs))

\* std::unordered_map::emplace: a key already present keeps its value.
Emplace(m, k, v) == IF k \in DOMAIN m THEN m ELSE m @@ (k :> v)

\* Fault: the lines of a section are not cleared when the next one starts.
ConfigLineNoClear(acc, l) ==
  IF l = Blank THEN acc
  ELSE IF "hdr" \in DOMAIN l
  THEN [acc EXCEPT !.dev = l.hdr,
                   !.configs = IF acc.dev # "" THEN Emplace(@, acc.dev, acc.lines) ELSE @]
  ELSE IF acc.dev # "" THEN [acc EXCEPT !.lines = Append(@, l.cfg)] ELSE acc

\* parseConfigData, one line: blank lines are skipped; a header stores the
\* section read so far (if any) and starts one for its device; any other
\* line joins the current section, or is skipped before the first header.
ConfigLine(acc, l) ==
  IF l = Blank THEN acc
  ELSE IF "hdr" \in DOMAIN l
  THEN [dev |-> l.hdr, lines |-> <<>>,
        configs |-> IF acc.dev # "" THEN Emplace(acc.configs, acc.dev, acc.lines) ELSE acc.configs]
  ELSE IF acc.dev # "" THEN [acc EXCEPT !.lines = Append(@, l.cfg)] ELSE acc

RECURSIVE ConfigLines(_, _)
ConfigLines(acc, ls) == IF ls = <<>> THEN acc ELSE ConfigLines(ConfigLine(acc, Head(ls)), Tail(ls))

\* parseConfigData: device name -> its config lines; the last section is
\* stored at the end of the file.
ParseConfigData(lines) ==
  LET acc == ConfigLines([dev |-> "", lines |-> <<>>, configs |-> <<>>], lines)
  IN IF acc.dev # "" THEN Emplace(acc.configs, acc.dev, acc.lines) ELSE acc.configs

\* applyConfigToDevices: each line of a device's config is written to its
\* selection node; a failed write is only logged.
RECURSIVE ApplyConfigToDevices(_, _)
ApplyConfigToDevices(devs, configs) ==
  IF devs = <<>> THEN <<>>
  ELSE LET d == Head(devs)
       IN (IF d.name \in DOMAIN configs
           THEN [k \in DOMAIN configs[d.name] |-> [path |-> d.path, line |-> configs[d.name][k]]]
           ELSE <<>>)
          \o ApplyConfigToDevices(Tail(devs), configs)

\* The selector's constructor: applyConfigsByAscendingPriority over the
\* one config path (an unreadable file is skipped), then
\* sendConfigurationComplete to every device.
Selector(devs) ==
  (IF OdpmConfig = Unreadable THEN <<>> ELSE ApplyConfigToDevices(devs, ParseConfigData(OdpmConfig)))
  \o [k \in DOMAIN devs |-> [path |-> devs[k].path, line |-> Complete]]

Init ==
  /\ mDevicePaths = <<>> /\ mChannelInfos = <<>> /\ mReading = <<>> /\ selWrites = <<>>

\* The constructor: find the devices, run the selector when asked, parse
\* the enabled rails and size mReading.
Construct ==
  \E devs \in IterationOrders(FindIioEnergyMeterNodes) :
    /\ mDevicePaths' = devs
    /\ selWrites' = IF UseSelector THEN Selector(devs) ELSE <<>>
    /\ mChannelInfos' = ParseEnabledRails(devs)
    /\ mReading' = [k \in 1 .. Len(ParseEnabledRails(devs)) |-> NoReading]

-----------------------------------------------------------------------------
(* readEnergyMeter.                                                         *)

\* The rails a device's energy_value lists.
RailNames(path) ==
  IF EnabledRails[path] = Unreadable THEN <<>>
  ELSE LET ls == SelectSeq(EnabledRails[path], LAMBDA l : l # Malformed)
       IN [k \in DOMAIN ls |-> ls[k].name]

\* parseEnergyContents of device d at t when its first n lines parse:
\* line 1 is the timestamp, line k + 1 the k-th rail; a parsed rail found
\* in mChannelIds overwrites that channel's reading (a rail the device
\* lists twice writes the same value twice).
ParseEnergyContents(reading, d, t, n) ==
  LET parsed == Range(SubSeq(RailNames(d.path), 1, n - 1))
  IN [i \in DOMAIN reading |->
        IF mChannelInfos[i].name \in parsed
        THEN [id |-> i - 1, ts |-> t, energy |-> DevEnergy(d.path, mChannelInfos[i].name, t)]
        ELSE reading[i]]

\* Fault: a rail line that does not parse ends the parse without an error.
ParseEnergyValueNoError(reading, d, t, o) ==
  [ok |-> o > 1, reading |-> ParseEnergyContents(reading, d, t, Min({o - 1, Len(RailNames(d.path)) + 1}))]

\* parseEnergyValue when the file's first o - 1 lines parse: an unreadable
\* file or timestamp fails at once; a rail line that does not parse ends
\* the parse with -1, the lines before it applied.
ParseEnergyValue(reading, d, t, o) ==
  LET lines == Len(RailNames(d.path)) + 1
      n == Min({o - 1, lines})
  IN [ok |-> n = lines, reading |-> ParseEnergyContents(reading, d, t, n)]

\* The devices of readEnergyMeter in iteration order, until one fails.
RECURSIVE DevicesLoop(_, _, _, _)
DevicesLoop(reading, t, outs, k) ==
  IF k > Len(mDevicePaths) THEN [ok |-> TRUE, reading |-> reading]
  ELSE LET p == ParseEnergyValue(reading, mDevicePaths[k], t, outs[k])
       IN IF p.ok THEN DevicesLoop(p.reading, t, outs, k + 1)
          ELSE [ok |-> FALSE, reading |-> p.reading]

\* The outcomes the energy_value files may have in one call.
Outcomes ==
  {o \in [1 .. Len(mDevicePaths) -> UNION Range(ReadOutcomes)] :
     \A k \in DOMAIN o : o[k] \in ReadOutcomes[mDevicePaths[k].path]}

\* The reply of readEnergyMeter(ids) after the devices' loop p: a failed
\* parse returns ok() with no measurement; an id out of range returns
\* EX_ILLEGAL_ARGUMENT, and the measurements appended before it are not
\* sent.
MeterResult(ids, p) ==
  LET bad == \E k \in DOMAIN ids : ids[k] < 0 \/ ids[k] >= Len(mChannelInfos)
  IN [parsed |-> p.ok, reading |-> p.reading,
      ok |-> ~p.ok \/ ~bad,
      results |-> IF ~p.ok \/ bad THEN <<>>
                  ELSE IF ids = <<>> THEN p.reading
                  ELSE [k \in DOMAIN ids |-> p.reading[ids[k] + 1]]]

\* readEnergyMeter(ids) at t under mLock, from mReading = reading:
\* [parsed, ok, results, reading].
ReadEnergyMeter(ids, t, outs, reading) == MeterResult(ids, DevicesLoop(reading, t, outs, 1))

-----------------------------------------------------------------------------
(* Reference definitions for the properties.                              *)

\* The comment of parseEnabledRails: "Only the last occurrence of rail
\* energy will be provided": the energy of the last device, in
\* mDevicePaths order, whose energy_value lists the rail.
LastOccurrence(name, t) ==
  LET k == SelectLastInSeq(mDevicePaths, LAMBDA d : name \in Range(RailNames(d.path)))
  IN DevEnergy(mDevicePaths[k].path, name, t)

\* The config lines of a device: those between its first "[name]" header
\* and the next header, blank lines left out.
Section(name) ==
  LET hdr(i) == OdpmConfig[i] # Blank /\ "hdr" \in DOMAIN OdpmConfig[i]
      first == SelectInSeq(OdpmConfig, LAMBDA l : l # Blank /\ "hdr" \in DOMAIN l /\ l.hdr = name)
      next == {i \in first + 1 .. Len(OdpmConfig) : hdr(i)}
      last == IF next = {} THEN Len(OdpmConfig) ELSE Min(next) - 1
      body == SelectSeq(SubSeq(OdpmConfig, first + 1, last), LAMBDA l : l # Blank)
  IN IF OdpmConfig = Unreadable \/ first = 0 THEN <<>> ELSE [k \in DOMAIN body |-> body[k].cfg]

\* What the selector wrote to a device's selection node.
WrittenTo(path) ==
  LET ws == SelectSeq(selWrites, LAMBDA w : w.path = path)
  IN [k \in DOMAIN ws |-> ws[k].line]

=============================================================================
