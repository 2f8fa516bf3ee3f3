------------------------- MODULE MCPowerStatsAidl -------------------------
(***************************************************************************)
(* A main in the style of the Pixel devices' PowerStats AIDL services:    *)
(* the IIO meter on two devices, the Pixel provider with one entry (the   *)
(* order of several entries is left to module PixelResidency's runs),    *)
(* the Display provider added after it (so the Display entity's id is 1), *)
(* a Generic provider on an rpmh-style stats file with two entities (ids  *)
(* 2 and 3, in either order of getInfo), then five consumers: one on the *)
(* Display entity, one on a meter channel, one naming a channel the meter *)
(* lacks (created as nullptr), one on a channel and a Pixel entity, and   *)
(* one on a Generic entity.                                               *)
(*                                                                         *)
(* The meter: p1 and p2 are meter devices (p1's name file holds both      *)
(* kDeviceNames, so it is odpmA); p3's name file is unreadable, p4 is not *)
(* an iio:device, p5 names neither.  p1 enables VSYS and CPU around a     *)
(* malformed line, p2 enables CPU again, so CPU is a channel two devices  *)
(* report.  odpm_config has a line before any header, a blank line, a     *)
(* section for an absent device and a second section for odpmA.          *)
(*                                                                         *)
(* The Generic provider: APSS has one state without a header, SoC the two *)
(* states of generateGenericStateResidencyConfigs.  Its file is complete  *)
(* in config order; or has SoC first with its states swapped and APSS cut *)
(* off before its time line; or has SoC without its CXSD state before a   *)
(* complete APSS; or has APSS without its time line before a complete SoC *)
(* (not well-formed); or cannot be opened.                                *)
(***************************************************************************)
EXTENDS PowerStatsAidl

CONSTANTS e1, eDisplay

MCEntityNames == <<e1>>
MCStateNames == <<"off", "on">>
MCPixelStates == <<"sleep", "active">>
MCDeviceNames == <<"odpmA", "odpmB">>

MCIioEntries ==
  {[path |-> "p1", iio |-> TRUE, name |-> {"odpmB", "odpmA"}],
   [path |-> "p2", iio |-> TRUE, name |-> {"odpmB"}],
   [path |-> "p3", iio |-> TRUE, name |-> Unreadable],
   [path |-> "p4", iio |-> FALSE, name |-> {"odpmA"}],
   [path |-> "p5", iio |-> TRUE, name |-> {}]}

MCEnabledRails ==
  "p1" :> << [name |-> "VSYS", sub |-> "Sys"], Malformed, [name |-> "CPU", sub |-> "Cpu"] >>
  @@ "p2" :> << [name |-> "CPU", sub |-> "Cpu"] >>

MCOdpmConfig ==
  << [cfg |-> "CH9=ORPHAN"], [hdr |-> "odpmA"], [cfg |-> "CH0=VSYS"], Blank,
     [cfg |-> "CH1=CPU"], [hdr |-> "odpmX"], [cfg |-> "CH0=X"], [hdr |-> "odpmB"],
     [cfg |-> "CH0=CPU"], [hdr |-> "odpmA"], [cfg |-> "CH2=GPU"] >>

\* energy_value grows with the boot clock, at a rate per device and rail.
MCDevEnergy(p, r, t) == t * (IF r = "VSYS" THEN 3 ELSE IF p = "p1" THEN 5 ELSE 2)

\* p1's energy_value parses, or its third line (CPU) does not; p2's
\* two lines parse.
MCReadOutcomes == "p1" :> {3, 4} @@ "p2" :> {3}

MCGenericEntities ==
  << [name |-> "APSS", header |-> "APSS",
      states |-> << [name |-> "Sleep", header |-> NoHeader, fields |-> {"count", "time"}] >>],
     [name |-> "SoC", header |-> "SOC",
      states |-> Gen!GenerateConfigs({"count", "time"},
                   << <<"AOSD", "RPM Mode:aosd">>, <<"CXSD", "RPM Mode:cxsd">> >>)] >>

H(h) == [hdr |-> h]
F(f, v) == [field |-> f, v |-> v]
OtherLine == [text |-> "other"]

MCGenericFiles ==
  { << H("APSS"), F("count", 1), F("time", 10), OtherLine, H("SOC"),
       H("RPM Mode:aosd"), F("count", 2), F("time", 20),
       H("RPM Mode:cxsd"), F("count", 3), F("time", 30) >>,
    << H("SOC"), H("RPM Mode:cxsd"), F("time", 31), F("count", 3), OtherLine,
       H("RPM Mode:aosd"), F("count", 2), F("time", 21), H("APSS"), F("count", 1) >>,
    << H("SOC"), H("RPM Mode:aosd"), F("count", 2), F("time", 20),
       H("APSS"), F("count", 1), F("time", 10) >>,
    << H("APSS"), F("count", 1), H("SOC"), H("RPM Mode:aosd"), F("count", 2),
       F("time", 20), H("RPM Mode:cxsd"), F("count", 3), F("time", 30) >>,
    Unopenable }

Consumer(t, n, chs, e, cs) ==
  [type |-> t, name |-> n, channels |-> chs, entity |-> e, coeffs |-> cs, attr |-> FALSE,
   uidPath |-> FALSE]
AttrConsumer(t, n, chs, cs) ==
  [type |-> t, name |-> n, channels |-> chs, entity |-> "", coeffs |-> cs, attr |-> TRUE,
   uidPath |-> TRUE]

MCConsumers ==
  << Consumer("DISPLAY", "display", {}, eDisplay, "on" :> 7 @@ "off" :> 1),
     Consumer("CPU_CLUSTER", "cpu", {"CPU"}, "", <<>>),
     Consumer("OTHER", "gpu", {"GPU"}, "", <<>>),
     Consumer("OTHER", "modem", {"VSYS"}, e1, "sleep" :> 2),
     Consumer("OTHER", "soc", {}, "SoC", "AOSD" :> 3),
     AttrConsumer("CPU_CLUSTER", "cpu_attr", {"CPU"}, "f1" :> 2) >>

MCSetup ==
  << [kind |-> "meter"], [kind |-> "provider", which |-> "pixel"],
     [kind |-> "provider", which |-> "display"], [kind |-> "provider", which |-> "generic"],
     [kind |-> "consumer", k |-> 1], [kind |-> "consumer", k |-> 2],
     [kind |-> "consumer", k |-> 3], [kind |-> "consumer", k |-> 4],
     [kind |-> "consumer", k |-> 5], [kind |-> "consumer", k |-> 6] >>

\* All entities; a Pixel and the Display entity; the Generic entities in
\* reverse order; an unknown id.
MCEntityRequests == {<<>>, <<0, 1>>, <<3, 2>>, <<4>>}

\* All consumers (the meter and attribution consumers among them); an
\* unknown id.
MCConsumerRequests == {<<>>, <<5>>}

\* All channels; CPU and an unknown channel.
MCChannelRequests == {<<>>, <<1, 2>>}

MCReads == {{0}, {1}}

\* A meter whose CPU rail on p2 counts 100000007 uWs a tick (beyond the
\* 2^24 integers a float holds exactly), with every energy_value parsing.
MCDevEnergyLarge(p, r, t) == IF p = "p2" THEN t * 100000007 ELSE MCDevEnergy(p, r, t)
MCReadOutcomesParse == "p1" :> {4} @@ "p2" :> {3}

\* /proc/uid_time_in_state: two frequencies.  Root and one app at boot;
\* then both run, root at f1 only; then the app is uninstalled while root
\* stays at f0 and a new app, with a new uid, runs at f1.
MCUidStateNames == <<"f0", "f1">>
MCUidFileAt(t) ==
  CASE t = 0 -> 0 :> <<0, 0>> @@ 1 :> <<0, 0>>
    [] t = 1 -> 0 :> <<0, 1>> @@ 1 :> <<1, 1>>
    [] OTHER -> 0 :> <<1, 1>> @@ 2 :> <<0, 2>>

\* The same history without its middle step, for a clock that stops at 1:
\* by t = 1 the app is gone and the new one has run.
MCUidFileShort(t) == MCUidFileAt(2 * t)

\* States that differ only in the last reply have the same successors: no
\* action reads reply.
MCView == <<dispVars, pixVars, infos, providers, meterState, consumers, setupPc>>

=============================================================================
