----------------------------- MODULE RailParse ------------------------------
(***************************************************************************)
(* The parsers of RailDataProvider (src/powerstats/RailDataProvider.cpp)  *)
(* as operators.  Directory entries and files are abstracted to what the  *)
(* parsers tell apart: a line of enabled_rails is a rail name with its    *)
(* subsystem or a line without exactly one ':'; a line of energy_value is *)
(* one word, two words (a rail and its energy), or another shape.         *)
(***************************************************************************)
EXTENDS Integers, Sequences, SequencesExt

CONSTANTS
  Unreadable,  \* a file that ReadFileToString fails to read
  Malformed,   \* a line with the wrong number of fields
  ULongMax     \* strtoul's ULONG_MAX (overflow)

-----------------------------------------------------------------------------
(* findIioPowerMonitorNodes: an entry "iio:deviceN" whose name file can be *)
(* opened and read and starts with "microchip,pac1934" is a device.       *)

DirEntry == [iio : BOOLEAN, opens : BOOLEAN, reads : BOOLEAN, pac : BOOLEAN]

FindIioPowerMonitorNodes(entries) ==
  SelectSeq(entries, LAMBDA e : e.iio /\ e.opens /\ e.reads /\ e.pac)

-----------------------------------------------------------------------------
(* parsePowerRails: every device gives its sampling rate and its rails;   *)
(* each well-formed rail line gets the next index and is emplaced into    *)
(* the std::map railsInfo (emplace keeps an existing entry of that name). *)
(* An unreadable file skips the device (continue); a sampling rate that   *)
(* does not parse (0 or ULONG_MAX) ends the parse (break).                *)

\* Fault: a malformed line also takes an index.
RECURSIVE ParseRailLinesCountAll(_, _, _, _)
ParseRailLinesCountAll(lines, dev, sps, acc) ==
  IF lines = <<>> THEN acc
  ELSE LET l == Head(lines)
           info == IF l = Malformed \/ l.name \in DOMAIN acc.info THEN acc.info
                   ELSE acc.info @@ (l.name :> [index |-> acc.index,
                                                device |-> dev, rate |-> sps])
       IN ParseRailLinesCountAll(Tail(lines), dev, sps,
                                 [info |-> info, index |-> acc.index + 1])

RECURSIVE ParseRailLines(_, _, _, _)
ParseRailLines(lines, dev, sps, acc) ==
  IF lines = <<>> THEN acc
  ELSE LET l == Head(lines)
           next == IF l = Malformed THEN acc
                   ELSE [info |-> IF l.name \in DOMAIN acc.info THEN acc.info
                                  ELSE acc.info @@ (l.name :> [index |-> acc.index,
                                                               device |-> dev,
                                                               rate |-> sps]),
                         index |-> acc.index + 1]
       IN ParseRailLines(Tail(lines), dev, sps, next)

RECURSIVE ParseDevices(_, _, _)
ParseDevices(devs, i, acc) ==
  IF i > Len(devs) THEN acc
  ELSE LET d == devs[i] IN
       IF d.sps = Unreadable THEN ParseDevices(devs, i + 1, acc)
       ELSE IF d.sps = 0 \/ d.sps = ULongMax THEN acc
       ELSE IF d.rails = Unreadable THEN ParseDevices(devs, i + 1, acc)
       ELSE ParseDevices(devs, i + 1, ParseRailLines(d.rails, i, d.sps, acc))

\* [info |-> railsInfo, index |-> the number of rails counted].
ParsePowerRails(devs) == ParseDevices(devs, 1, [info |-> <<>>, index |-> 0])

-----------------------------------------------------------------------------
(* parseIioEnergyNode: until a one-word line (the timestamp) is read,     *)
(* other lines are skipped; after it a two-word line is a rail reading    *)
(* and any other line makes the parse fail.  ok is ret == 0.              *)

RECURSIVE ParseEnergyLines(_, _)
ParseEnergyLines(lines, tsRead) ==
  IF lines = <<>> THEN TRUE
  ELSE LET l == Head(lines) IN
       IF ~tsRead THEN ParseEnergyLines(Tail(lines), l = "one")
       ELSE IF l = "two" THEN ParseEnergyLines(Tail(lines), TRUE)
       ELSE FALSE

ParseIioEnergyNode(file) ==
  file # Unreadable /\ ParseEnergyLines(file, FALSE)

\* parseIioEnergyNodes: NOT_SUPPORTED without hardware; otherwise every
\* device's energy file is parsed until one fails (FILESYSTEM_ERROR).
ParseIioEnergyNodes(hwEnabled, files) ==
  hwEnabled /\ \A i \in DOMAIN files : ParseIioEnergyNode(files[i])

=============================================================================
