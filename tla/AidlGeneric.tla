----------------------------- MODULE AidlGeneric -----------------------------
(***************************************************************************)
(* GenericStateResidencyDataProvider of the AIDL service                  *)
(* (src/powerstats/libpowerstats/dataproviders/) as operators.  The file  *)
(* is read anew on every getStateResidencies: it is a sequence of lines,  *)
(* each abstracted to what the parser tells apart after Trim: a header    *)
(* [hdr |-> h], a line with the prefix of one stat [field |-> f, v |-> n] *)
(* (f in {"count", "time", "last"}, n the number after the prefix, after  *)
(* the config's transform), or any other line.                            *)
(*                                                                         *)
(* A PowerEntityConfig is [name, header, states]; a StateResidencyConfig  *)
(* is [name, header, fields], fields the set of supported stats.  A      *)
(* StateResidency is [id, count, time, last], zero where nothing was read.*)
(***************************************************************************)
EXTENDS Integers, Sequences, FiniteSets, SequencesExt

CONSTANTS
  NoHeader,    \* the empty header ("", the default of a config)
  Unopenable   \* a file fopen fails on

\* generateGenericStateResidencyConfigs: one state config per
\* <<name, header>> pair, in order, each a copy of the template's stats.
GenerateConfigs(fields, headers) ==
  [i \in DOMAIN headers |-> [name |-> headers[i][1], header |-> headers[i][2], fields |-> fields]]

IsField(l, fields) == "field" \in DOMAIN l /\ l.field \in fields

\* parseState: read lines until as many stats were extracted as the config
\* supports or the file ends.  A line counts for the stat whose prefix it
\* has, whether or not that stat was read before, and overwrites it.
RECURSIVE ParseStateLoop(_, _, _, _)
ParseStateLoop(fields, lines, read, data) ==
  IF read >= Cardinality(fields) \/ lines = <<>>
  THEN [ok |-> read = Cardinality(fields), data |-> data, rest |-> lines]
  ELSE IF IsField(Head(lines), fields)
  THEN ParseStateLoop(fields, Tail(lines), read + 1,
                      [data EXCEPT ![Head(lines).field] = Head(lines).v])
  ELSE ParseStateLoop(fields, Tail(lines), read, data)

ParseState(cfg, id, lines) ==
  ParseStateLoop(cfg.fields, lines, 0, [id |-> id, count |-> 0, time |-> 0, last |-> 0])

\* Fault: no shortcut for a first config without a header.
RECURSIVE FindNextIndexNoEmpty(_, _)
FindNextIndexNoEmpty(cfgs, lines) ==
  IF lines = <<>> THEN [idx |-> -1, rest |-> lines]
  ELSE IF \E i \in DOMAIN cfgs : "hdr" \in DOMAIN Head(lines) /\ Head(lines).hdr = cfgs[i].header
  THEN [idx |-> Min({i \in DOMAIN cfgs : "hdr" \in DOMAIN Head(lines) /\
                                          Head(lines).hdr = cfgs[i].header}) - 1,
        rest |-> Tail(lines)]
  ELSE FindNextIndexNoEmpty(cfgs, Tail(lines))

\* findNextIndex: index 0 at once, reading nothing, when the first config
\* has the empty header; otherwise the lowest index of a config whose
\* header the next line read matches, or -1 at the end of the file.
RECURSIVE FindNextIndex(_, _)
FindNextIndex(cfgs, lines) ==
  IF cfgs[1].header = NoHeader THEN [idx |-> 0, rest |-> lines]
  ELSE IF lines = <<>> THEN [idx |-> -1, rest |-> lines]
  ELSE IF \E i \in DOMAIN cfgs : "hdr" \in DOMAIN Head(lines) /\ Head(lines).hdr = cfgs[i].header
  THEN [idx |-> Min({i \in DOMAIN cfgs : "hdr" \in DOMAIN Head(lines) /\
                                          Head(lines).hdr = cfgs[i].header}) - 1,
        rest |-> Tail(lines)]
  ELSE FindNextIndex(cfgs, Tail(lines))

\* getStateData: until as many states were read as the entity has, find
\* the next state header (of any of its states) and parse that state; the
\* result lists the states in the order they were read.
RECURSIVE StateDataLoop(_, _, _)
RECURSIVE StateFound(_, _, _)
RECURSIVE StateParsed(_, _, _)
StateDataLoop(cfgs, lines, result) ==
  IF Len(result) >= Len(cfgs) THEN [ok |-> TRUE, result |-> result, rest |-> lines]
  ELSE StateFound(cfgs, FindNextIndex(cfgs, lines), result)
StateFound(cfgs, f, result) ==
  IF f.idx < 0 THEN [ok |-> FALSE, result |-> result, rest |-> f.rest]
  ELSE StateParsed(cfgs, ParseState(cfgs[f.idx + 1], f.idx, f.rest), result)
StateParsed(cfgs, p, result) ==
  IF p.ok THEN StateDataLoop(cfgs, p.rest, Append(result, p.data))
  ELSE [ok |-> FALSE, result |-> result, rest |-> p.rest]

GetStateData(cfgs, lines) == StateDataLoop(cfgs, lines, <<>>)

\* unordered_map::emplace: an entry already there is kept.
Emplace(m, k, v) == IF k \in DOMAIN m THEN m ELSE m @@ (k :> v)

\* getStateResidencies: find entity headers and read each entity's states,
\* emplacing an entity into residencies as soon as it is read; at the
\* first entity not found or not read the loop stops and returns false,
\* and the entities emplaced before stay.
RECURSIVE EntitiesLoop(_, _, _, _)
RECURSIVE EntityFound(_, _, _, _)
RECURSIVE EntityRead(_, _, _, _, _)
EntitiesLoop(ents, lines, read, res) ==
  IF read >= Len(ents) THEN [ok |-> TRUE, res |-> res]
  ELSE EntityFound(ents, FindNextIndex(ents, lines), read, res)
EntityFound(ents, f, read, res) ==
  IF f.idx < 0 THEN [ok |-> FALSE, res |-> res]
  ELSE EntityRead(ents, f.idx + 1, GetStateData(ents[f.idx + 1].states, f.rest), read, res)
EntityRead(ents, i, s, read, res) ==
  IF s.ok THEN EntitiesLoop(ents, s.rest, read + 1, Emplace(res, ents[i].name, s.result))
  ELSE [ok |-> FALSE, res |-> res]

GetStateResidencies(ents, file, res) ==
  IF file = Unopenable THEN [ok |-> FALSE, res |-> res]
  ELSE EntitiesLoop(ents, file, 0, res)

\* getInfo: each entity's states, numbered in config order.
GetInfo(ents) ==
  [n \in {ents[i].name : i \in DOMAIN ents} |->
     LET e == ents[CHOOSE i \in DOMAIN ents : ents[i].name = n]
     IN [k \in DOMAIN e.states |-> e.states[k].name]]

-----------------------------------------------------------------------------
(* A reference reading of a well-formed file: an entity's section runs    *)
(* from its header to the next entity header, a state's block from its    *)
(* header to the next header of any kind; a state without a header is    *)
(* the entity's whole section.                                             *)

IsHdr(l, hs) == "hdr" \in DOMAIN l /\ l.hdr \in hs
EntityHeaders(ents) == {ents[i].header : i \in DOMAIN ents}

\* The lines after the first line that is a header in hs, up to the next
\* line that is a header in stop (exclusive).
After(lines, hs) ==
  LET at == SelectInSeq(lines, LAMBDA l : IsHdr(l, hs))
  IN IF at = 0 THEN <<>> ELSE SubSeq(lines, at + 1, Len(lines))
UpTo(lines, stop) ==
  LET at == SelectInSeq(lines, LAMBDA l : IsHdr(l, stop))
  IN IF at = 0 THEN lines ELSE SubSeq(lines, 1, at - 1)

Section(ents, e, file) ==
  IF e.header = NoHeader THEN file ELSE UpTo(After(file, {e.header}), EntityHeaders(ents))

\* The value of stat f in a block: its last line with that prefix.
StatIn(block, f) ==
  LET at == SelectLastInSeq(block, LAMBDA l : "field" \in DOMAIN l /\ l.field = f)
  IN IF at = 0 THEN 0 ELSE block[at].v

AllHeaders(lines) == {lines[i].hdr : i \in {i \in DOMAIN lines : "hdr" \in DOMAIN lines[i]}}

StateStats(id, block) ==
  [id |-> id, count |-> StatIn(block, "count"), time |-> StatIn(block, "time"),
   last |-> StatIn(block, "last")]

\* The states of entity e in the order their headers appear in its section,
\* each with the stats of its block.
StatesIn(e, sec) ==
  IF e.states[1].header = NoHeader THEN <<StateStats(0, sec)>>
  ELSE LET hdrs == SelectSeq(sec, LAMBDA l : IsHdr(l, {e.states[k].header : k \in DOMAIN e.states}))
       IN [j \in DOMAIN hdrs |->
             StateStats(SelectInSeq(e.states, LAMBDA c : c.header = hdrs[j].hdr) - 1,
                        UpTo(After(sec, {hdrs[j].hdr}), AllHeaders(sec)))]

SectionData(ents, e, file) == StatesIn(e, Section(ents, e, file))

\* A state is complete in a section when its header (if it has one) is
\* there and its block has a line for every stat it supports.
StateComplete(c, sec) ==
  LET block == IF c.header = NoHeader THEN sec
               ELSE UpTo(After(sec, {c.header}), AllHeaders(sec))
  IN /\ c.header = NoHeader \/ \E i \in DOMAIN sec : IsHdr(sec[i], {c.header})
     /\ \A f \in c.fields : \E i \in DOMAIN block : IsField(block[i], {f})

Position(e, file) == SelectInSeq(file, LAMBDA l : IsHdr(l, {e.header}))

EntityComplete(ents, e, file) ==
  /\ Position(e, file) > 0
  /\ \A k \in DOMAIN e.states : StateComplete(e.states[k], Section(ents, e, file))

\* The block of state c of entity e runs to the end of the file (the file
\* was cut off in it).
BlockLast(ents, e, c, file) ==
  LET sec == Section(ents, e, file)
  IN /\ sec = After(file, {e.header})
     /\ c.header = NoHeader \/ UpTo(After(sec, {c.header}), AllHeaders(sec)) = After(sec, {c.header})

\* The file is well-formed: every state block in it (a state whose header
\* is absent has none) has a line for each stat the state supports, or is
\* the last block of a file that was cut off.
BlocksWhole(ents, file) ==
  \/ file = Unopenable
  \/ \A i \in DOMAIN ents : Position(ents[i], file) > 0 =>
        \A k \in DOMAIN ents[i].states :
          \/ /\ ents[i].states[k].header # NoHeader
             /\ Position(ents[i].states[k], Section(ents, ents[i], file)) = 0
          \/ StateComplete(ents[i].states[k], Section(ents, ents[i], file))
          \/ BlockLast(ents, ents[i], ents[i].states[k], file)

\* An entity (with a header) is read when its section and the section of
\* every entity whose header comes before it in the file are complete.
SectionRead(ents, e, file) ==
  /\ file # Unopenable
  /\ Position(e, file) > 0
  /\ \A i \in DOMAIN ents :
       0 < Position(ents[i], file) /\ Position(ents[i], file) <= Position(e, file) =>
         EntityComplete(ents, ents[i], file)

=============================================================================
