---------------------------- MODULE GenericParse ----------------------------
(***************************************************************************)
(* GenericStateResidencyDataProvider (src/powerstats/libpixelpowerstats/) *)
(* as operators.  A file is a sequence of lines, each abstracted to what  *)
(* the parser tells apart: a header [hdr |-> h] (after Trim), a line with *)
(* a stat prefix [field |-> f] for f in {"count", "time", "last"}, or     *)
(* another line.  A power entity's config has an id, a header ("" for     *)
(* none) and its state configs; a state config has an id, a header and    *)
(* the set of fields it supports.                                          *)
(***************************************************************************)
EXTENDS Integers, Sequences, FiniteSets

CONSTANTS
  NoHeader,    \* the empty header of PowerEntityConfig(configs)
  Unopenable   \* a file fopen fails on

Fields == {"count", "time", "last"}

-----------------------------------------------------------------------------
(* generateGenericStateResidencyConfigs and the PowerEntityConfig          *)
(* constructor: one state config per header, numbered in order, all with  *)
(* the fields of the template.                                             *)

GenerateConfigs(fields, headers) ==
  [i \in DOMAIN headers |-> [id |-> i - 1, header |-> headers[i], fields |-> fields]]

-----------------------------------------------------------------------------

\* parseState: read lines until every supported field is read or the file
\* ends; a line counts for the first supported field whose prefix it has.
RECURSIVE ParseStateLoop(_, _, _)
ParseStateLoop(fields, lines, read) ==
  IF read >= Cardinality(fields) \/ lines = <<>>
  THEN [ok |-> read = Cardinality(fields), rest |-> lines]
  ELSE LET l == Head(lines)
           counts == "field" \in DOMAIN l /\ l.field \in fields
       IN ParseStateLoop(fields, Tail(lines), IF counts THEN read + 1 ELSE read)

ParseState(fields, lines) == ParseStateLoop(fields, lines, 0)

\* findNext: the index of the first config whose header a line matches,
\* reading lines until one does; the first config at once if its header
\* is empty; 0 (cend) at the end of the file.
RECURSIVE FindNext(_, _)
FindNext(cfgs, lines) ==
  IF cfgs[1].header = NoHeader THEN [idx |-> 1, rest |-> lines]
  ELSE IF lines = <<>> THEN [idx |-> 0, rest |-> lines]
  ELSE LET l == Head(lines)
           hit == {i \in DOMAIN cfgs : "hdr" \in DOMAIN l /\ l.hdr = cfgs[i].header}
       IN IF hit = {} THEN FindNext(cfgs, Tail(lines))
          ELSE [idx |-> CHOOSE i \in hit : \A j \in hit : i <= j, rest |-> Tail(lines)]

\* getStateData: find state headers and parse each state until all were
\* read, the file ends, or a state fails to parse.
RECURSIVE StateDataLoop(_, _, _)
StateDataLoop(cfgs, lines, read) ==
  IF read >= Len(cfgs) THEN [ok |-> TRUE, rest |-> lines]
  ELSE LET f == FindNext(cfgs, lines) IN
       IF f.idx = 0 THEN [ok |-> FALSE, rest |-> f.rest]
       ELSE LET p == ParseState(cfgs[f.idx].fields, f.rest) IN
            IF p.ok THEN StateDataLoop(cfgs, p.rest, read + 1)
            ELSE [ok |-> FALSE, rest |-> p.rest]

GetStateData(cfgs, lines) == StateDataLoop(cfgs, lines, 0)

\* getResults: find entity headers and read each entity's states; the
\* results read so far are kept when the loop stops early.
RECURSIVE ResultsLoop(_, _, _, _)
ResultsLoop(ents, lines, read, found) ==
  IF read >= Len(ents) THEN [ok |-> TRUE, found |-> found]
  ELSE LET f == FindNext(ents, lines) IN
       IF f.idx = 0 THEN [ok |-> FALSE, found |-> found]
       ELSE LET s == GetStateData(ents[f.idx].states, f.rest) IN
            IF s.ok THEN ResultsLoop(ents, s.rest, read + 1,
                                     found \cup {ents[f.idx].id})
            ELSE [ok |-> FALSE, found |-> found]

GetResults(ents, file) ==
  IF file = Unopenable THEN [ok |-> FALSE, found |-> {}]
  ELSE ResultsLoop(ents, file, 0, {})

\* getStateSpaces: every entity with its states, in addEntity order.
GetStateSpaces(ents) == {ents[i].id : i \in DOMAIN ents}

=============================================================================
