--------------------------- MODULE PowerStatsAidl ---------------------------
(***************************************************************************)
(* The PowerStats AIDL service (src/powerstats/libpowerstats/             *)
(* PowerStatsAidl.cpp) with its providers: the Display provider (module   *)
(* DisplayResidency), the Pixel provider (module PixelResidency) and the  *)
(* Generic provider (module AidlGeneric) as state-residency data          *)
(* providers, the IIO energy meter (module IioMeter)                      *)
(* and the PowerStatsEnergyConsumer objects the service's main registers. *)
(*                                                                         *)
(* Setup: main adds the providers, the meter and the consumers in the     *)
(* order Setup gives, each step one action; the binder threads start      *)
(* after it.  A binder call of the service (getStateResidency,            *)
(* getEnergyConsumed, readEnergyMeter) is one step, which reads the       *)
(* providers it calls in that step.  A crash of the HAL process restarts it: init runs main     *)
(* again on a fresh process, and the boot clock and the client processes  *)
(* go on.  The attribution consumers (uid_time_in_state) and dump are not *)
(* modelled.                                                               *)
(***************************************************************************)
EXTENDS Integers, Sequences, SequencesExt, FiniteSets, FiniteSetsExt, Functions

CONSTANTS
  NumStates, Reads, MaxTime, MaxUpdates,               \* the Display provider
  EntityNames, UnknownEntity, Clients, Null, MaxCalls, \* the Pixel provider
  DisplayName,    \* the Display provider's entity (mName)
  StateNames,     \* <<name, ...>>: mStates, the Display states by index
  PixelStates,    \* <<name, ...>>: the states of every Pixel entity
  CallbackTotal,  \* totalTimeInStateMs a live callback reports for a state
  DeviceNames, IioEntries, EnabledRails, UseSelector, OdpmConfig,
  DevEnergy(_, _, _), ReadOutcomes, Unreadable, Malformed, Blank, \* the meter
  GenericEntities, \* the Generic provider's PowerEntityConfigs
  GenericFiles,    \* the contents its file may have at a call
  NoHeader, Unopenable,
  Consumers,      \* the energy consumers main creates
  Setup,          \* main's registration calls, in order
  EntityRequests, \* the id vectors clients pass to getStateResidency
  ConsumerRequests, \* the id vectors clients pass to getEnergyConsumed
  ChannelRequests,  \* the id vectors clients pass to readEnergyMeter
  MaxCrashes,     \* bound on the crashes of the HAL process
  UidStateNames,  \* the state names of uid_time_in_state's header
  UidFileAt(_)    \* t -> [uid -> <<time in each state>>]: what the kernel
                  \* has accounted by time t, uids gone and new included

VARIABLES
  now, mFdOpen, mCurState, mResidencies, pc, stamp, data, result,
  firstEntry, updates,                                  \* Display provider
  mCallback, alive, inflight, calls, crashes, lastReg,  \* Pixel provider
  infos,      \* mPowerEntityInfos, each with mStateResidencyDataProviderIndex
  providers,  \* mStateResidencyDataProviders: "display", "pixel" or "generic"
  meter,      \* mEnergyMeterDataProvider is set
  mDevicePaths, mChannelInfos, mReading, selWrites,    \* the meter
  consumers,  \* mEnergyConsumerInfos with their PowerStatsEnergyConsumer
  setupPc,    \* the next registration call of main
  reply       \* the reply the service sent in the last step, if any

Disp == INSTANCE DisplayResidency
Pixel == INSTANCE PixelResidency
Meter == INSTANCE IioMeter
Gen == INSTANCE AidlGeneric
Attr == INSTANCE EnergyAttribution

\* The Generic provider's getInfo (it depends on the constants only).
GenericInfo == Gen!GetInfo(GenericEntities)

dispVars == <<now, mFdOpen, mCurState, mResidencies, pc, stamp, data, result,
              firstEntry, updates>>
pixVars == <<mCallback, alive, inflight, calls, crashes, lastReg>>
meterState == <<meter, mDevicePaths, mChannelInfos, mReading, selWrites>>
svcVars == <<infos, providers, meterState, consumers, setupPc, reply>>
vars == <<dispVars, pixVars, svcVars>>

NoReply == [op |-> "none"]

\* Types, with the ordinal of a consumer among those of its type.
PowerStatsTypeOK ==
  /\ infos \in Seq([name : {DisplayName} \cup Range(EntityNames) \cup DOMAIN GenericInfo,
                    states : {StateNames, PixelStates} \cup Range(GenericInfo),
                    id : Nat, prov : Nat])
  /\ providers \in Seq({"display", "pixel", "generic"})
  /\ meter \in BOOLEAN
  /\ \A k \in DOMAIN consumers :
       /\ consumers[k].ordinal \in
            0 .. Cardinality({j \in DOMAIN consumers : consumers[j].type = consumers[k].type}) - 1
       /\ consumers[k].entity \in -1 .. Len(infos) - 1
  /\ setupPc \in 1 .. Len(Setup) + 1
  /\ mReading \in Seq([id : Nat, ts : Nat, energy : Int])
  /\ Len(mReading) = Len(mChannelInfos)
  /\ reply.op \in {"none", "dead", "residency", "energy", "meter"}

-----------------------------------------------------------------------------
(* What the providers hand getStateResidency: a map entity name -> its     *)
(* vector of StateResidency, each [id, time] (and count and last from the *)
(* Generic provider), time the totalTimeInStateMs.                         *)

\* A vector of StateResidency with one entry per state, in state order.
InStateOrder(total) ==
  [k \in 1 .. Cardinality(DOMAIN total) |-> [id |-> k - 1, time |-> total[k - 1]]]

\* Pixel: an entry whose callback is set and alive answers with a residency
\* for every state; a null or dead callback answers nothing.
PixelReporting == {EntityNames[i] : i \in {j \in Pixel!Idx : mCallback[j] # Null /\ alive[mCallback[j]]}}
PixelData == InStateOrder([s \in 0 .. Len(PixelStates) - 1 |-> CallbackTotal])

\* What the Generic provider's getStateResidencies reads from each content
\* its file may have (it depends on the constants only).
GenericMaps == [f \in GenericFiles |-> Gen!GetStateResidencies(GenericEntities, f, <<>>).res]
\* The Generic provider reads its file, which holds file at this call.
ProviderMap(kind, file) ==
  CASE kind = "display" -> DisplayName :> InStateOrder(Disp!Report)
    [] kind = "pixel" -> [n \in PixelReporting |-> PixelData]
    [] kind = "generic" -> GenericMaps[file]

\* The provider is asked unless the map already holds the entity's name.
NeedsCall(m, name) == name \notin DOMAIN m

\* The loop of getStateResidency over the ids: an id out of range returns
\* EX_ILLEGAL_ARGUMENT at once; a provider fills the map with every entity
\* it reports (emplace keeps an entry already there); an id whose name is
\* not in the map afterwards gets no result (only logged).
RECURSIVE ResidencyLoop(_, _, _, _)
ResidencyLoop(ids, file, k, acc) ==
  IF k > Len(ids) \/ ~acc.ok THEN acc
  ELSE IF ids[k] < 0 \/ ids[k] >= Len(infos) THEN [acc EXCEPT !.ok = FALSE]
  ELSE LET e == infos[ids[k] + 1]
           call == NeedsCall(acc.map, e.name)
           m == IF call THEN acc.map @@ ProviderMap(providers[e.prov + 1], file) ELSE acc.map
       IN ResidencyLoop(ids, file, k + 1,
            [ok |-> TRUE, map |-> m,
             called |-> acc.called \cup (IF call THEN {providers[e.prov + 1]} ELSE {}),
             results |-> IF e.name \in DOMAIN m
                         THEN Append(acc.results, [id |-> ids[k], data |-> m[e.name]])
                         ELSE acc.results])

AllIds == [k \in 1 .. Len(infos) |-> k - 1]

\* getStateResidency(ids): nothing when no entity is known, every entity
\* for an empty request.
StateResidency(ids, file) ==
  LET acc0 == [ok |-> TRUE, map |-> <<>>, called |-> {}, results |-> <<>>]
  IN IF infos = <<>> THEN acc0
     ELSE ResidencyLoop(IF ids = <<>> THEN AllIds ELSE ids, file, 1, acc0)

-----------------------------------------------------------------------------
(* PowerStatsEnergyConsumer::getEnergyConsumed.                            *)

\* PowerStats::readEnergyMeter with the files' outcomes outs, from
\* mReading = reading: ok() and nothing without a meter.
ReadMeter(ids, outs, reading) ==
  IF meter THEN Meter!ReadEnergyMeter(ids, now, outs, reading)
  ELSE [parsed |-> TRUE, ok |-> TRUE, results |-> <<>>, reading |-> reading]

MeterSum(ms) == MapThenSumSet(LAMBDA k : ms[k].energy, DOMAIN ms)
EntitySum(coeff, d) ==
  MapThenSumSet(LAMBDA k : coeff[d[k].id] * d[k].time, {k \in DOMAIN d : d[k].id \in DOMAIN coeff})

\* [ok, energy, called, crash, parsed, reading] of consumer c from its
\* meter read m and the reply r of getStateResidency({mPowerEntityId}):
\* a failed meter read gives no result; with coefficients, results[0] is
\* read, and an empty results makes that a read through the null data()
\* of an empty vector: the process crashes.
ConsumerResult(c, m, r) ==
  [parsed |-> m.parsed, reading |-> m.reading, attr |-> <<>>, ss |-> c.ss] @@
  (IF ~m.ok THEN [ok |-> FALSE, energy |-> 0, called |-> {}, crash |-> FALSE]
   ELSE IF DOMAIN c.coeff = {}
   THEN [ok |-> TRUE, energy |-> MeterSum(m.results), called |-> {}, crash |-> FALSE]
   ELSE IF ~r.ok THEN [ok |-> FALSE, energy |-> 0, called |-> r.called, crash |-> FALSE]
   ELSE IF r.results = <<>> THEN [ok |-> FALSE, energy |-> 0, called |-> r.called, crash |-> TRUE]
   ELSE [ok |-> TRUE, energy |-> MeterSum(m.results) + EntitySum(c.coeff, r.results[1].data),
         called |-> r.called, crash |-> FALSE])

\* uid_time_in_state as the kernel writes it now.
UidFile == [names |-> UidStateNames, stats |-> UidFileAt(now)]

\* The attribution branch: after the meter read m, uid_time_in_state is
\* read; without uids or states the consumer gives no result, otherwise
\* the meter energy with each uid's share, and the snapshots move on.
AttrShares(m, a) ==
  [ok |-> TRUE, energy |-> MeterSum(m.results), attr |-> a.attr, ss |-> a.ss]

AttrResult(c, m, st) ==
  [parsed |-> m.parsed, reading |-> m.reading, called |-> {}, crash |-> FALSE] @@
  (IF ~m.ok \/ Attr!Missing(st)
   THEN [ok |-> FALSE, energy |-> 0, attr |-> <<>>, ss |-> c.ss]
   ELSE AttrShares(m, Attr!Attribute(c.coeff, st, c.ss, MeterSum(m.results))))

\* getEnergyConsumed of one consumer: readEnergyMeter(mChannelIds) when it
\* has channels, then getStateResidency when it has coefficients.
MeterPart(c, outs, reading) ==
  IF c.chans = <<>> THEN [parsed |-> TRUE, ok |-> TRUE, results |-> <<>>, reading |-> reading]
  ELSE ReadMeter(c.chans, outs, reading)

ConsumerEnergy(c, outs, reading, file) ==
  IF c.attr /\ DOMAIN c.coeff # {}
  THEN AttrResult(c, MeterPart(c, outs, reading), Attr!GetAttributionStats(c.uidPath, UidFile))
  ELSE ConsumerResult(c, MeterPart(c, outs, reading), StateResidency(<<c.entity>>, file))

\* The reply so far after the k-th id's consumer answered r.
EnergyNext(ids, k, acc, r) ==
  [ok |-> TRUE, crash |-> r.crash, called |-> acc.called \cup r.called,
   parsed |-> acc.parsed /\ r.parsed, reading |-> r.reading,
   cons |-> [acc.cons EXCEPT ![ids[k] + 1].ss = r.ss],
   results |-> IF r.ok THEN Append(acc.results, [id |-> ids[k], energy |-> r.energy, attr |-> r.attr])
               ELSE acc.results]

\* The loop of getEnergyConsumed: an invalid id returns EX_ILLEGAL_ARGUMENT
\* at once, a consumer that fails gets no result (only logged).
RECURSIVE EnergyLoop(_, _, _, _, _)
EnergyLoop(ids, outs, file, k, acc) ==
  IF k > Len(ids) \/ ~acc.ok \/ acc.crash THEN acc
  ELSE IF ids[k] < 0 \/ ids[k] >= Len(consumers) THEN [acc EXCEPT !.ok = FALSE]
  ELSE EnergyLoop(ids, outs, file, k + 1,
                  EnergyNext(ids, k, acc, ConsumerEnergy(acc.cons[ids[k] + 1], outs, acc.reading, file)))

EnergyStart == [ok |-> TRUE, crash |-> FALSE, called |-> {}, parsed |-> TRUE,
                reading |-> mReading, cons |-> consumers, results |-> <<>>]

EnergyConsumed(ids, outs, file) ==
  IF consumers = <<>> THEN EnergyStart
  ELSE EnergyLoop(IF ids = <<>> THEN [k \in 1 .. Len(consumers) |-> k - 1] ELSE ids, outs, file, 1,
                  EnergyStart)

-----------------------------------------------------------------------------
(* main: the registration calls.                                           *)

Init ==
  /\ Disp!Init
  /\ Pixel!Init
  /\ Meter!Init
  /\ infos = <<>> /\ providers = <<>> /\ meter = FALSE /\ consumers = <<>>
  /\ setupPc = 1
  /\ reply = NoReply

Step(kind) == setupPc <= Len(Setup) /\ Setup[setupPc].kind = kind

\* getInfo: the Display provider's one entity, or the Pixel entries in the
\* iteration order of an unordered_map, which the model leaves open.
Orders(n) == {f \in [1 .. n -> 1 .. n] : IsInjective(f)}

ProviderInfo(kind) ==
  CASE kind = "display" -> {<<[name |-> DisplayName, states |-> StateNames]>>}
    [] kind = "pixel" ->
         {[k \in DOMAIN EntityNames |-> [name |-> EntityNames[o[k]], states |-> PixelStates]] :
            o \in Orders(Len(EntityNames))}
    [] kind = "generic" ->
         LET names == SetToSeq(DOMAIN GenericInfo)
         IN {[k \in DOMAIN names |-> [name |-> names[o[k]], states |-> GenericInfo[names[o[k]]]]] :
               o \in Orders(Len(names))}

\* Fault: the ids restart at 0 for every provider.
EntityIdPerProvider(k) == k - 1

\* The id of the provider's k-th entity: ids continue mPowerEntityInfos.
EntityId(k) == Len(infos) + k - 1

AddStateResidencyDataProvider ==
  /\ Step("provider")
  /\ \E info \in ProviderInfo(Setup[setupPc].which) :
       infos' = infos \o [k \in DOMAIN info |->
                            info[k] @@ [id |-> EntityId(k), prov |-> Len(providers)]]
  /\ providers' = Append(providers, Setup[setupPc].which)
  /\ setupPc' = setupPc + 1
  /\ reply' = NoReply
  /\ UNCHANGED <<meterState, consumers, dispVars, pixVars>>

SetEnergyMeterDataProvider ==
  /\ Step("meter")
  /\ Meter!Construct
  /\ meter' = TRUE
  /\ setupPc' = setupPc + 1
  /\ reply' = NoReply
  /\ UNCHANGED <<infos, providers, consumers, dispVars, pixVars>>

\* addEnergyMeter: the ids of the named channels, in the order of
\* getEnergyMeterInfo (mChannelInfos; nothing without a meter).
ChannelIds(names) ==
  LET sel == SelectSeq(IF meter THEN mChannelInfos ELSE <<>>, LAMBDA c : c.name \in names)
  IN [k \in DOMAIN sel |-> sel[k].id]

\* addPowerEntity: the id of the first entity of the name and a coefficient
\* per state the coefficients name; it succeeds without an entity or
\* coefficients, and fails unless every coefficient found its state.
PowerEntity(s) ==
  LET k == SelectInSeq(infos, LAMBDA e : e.name = s.entity)
      coeff == IF k = 0 THEN <<>>
               ELSE [sid \in {j \in 0 .. Len(infos[k].states) - 1 :
                                infos[k].states[j + 1] \in DOMAIN s.coeffs} |->
                       s.coeffs[infos[k].states[sid + 1]]]
  IN IF s.entity = "" \/ DOMAIN s.coeffs = {}
     THEN [ok |-> TRUE, entity |-> -1, coeff |-> <<>>]
     ELSE [ok |-> Cardinality(DOMAIN coeff) = Cardinality(DOMAIN s.coeffs),
           entity |-> IF k = 0 THEN -1 ELSE infos[k].id, coeff |-> coeff]

\* createMeterAndEntityConsumer, or createMeterAndAttrConsumer for an
\* attribution consumer (addAttribution reads uid_time_in_state now): {}
\* for nullptr; the second call is tried only when addEnergyMeter found
\* every channel.
CreateConsumer(s) ==
  LET chans == IF s.channels = {} THEN <<>> ELSE ChannelIds(s.channels)
      pe == IF s.attr THEN Attr!AddAttribution(s.uidPath, UidFile, s.coeffs) @@ [entity |-> -1]
            ELSE PowerEntity(s)
  IN IF Len(chans) = Cardinality(s.channels) /\ pe.ok
     THEN {[type |-> s.type, name |-> s.name, chans |-> chans, coeff |-> pe.coeff,
            entity |-> pe.entity, attr |-> s.attr, uidPath |-> s.uidPath, ss |-> Attr!NoSnapshot]}
     ELSE {}

\* Fault: the ordinal counts the consumers of every type.
OrdinalOfAll(t) == Len(consumers)

\* The ordinal of a new consumer: how many of its type came before.
Ordinal(t) == Cardinality({j \in DOMAIN consumers : consumers[j].type = t})

\* addEnergyConsumer(create...(...)): a nullptr is dropped.
AddEnergyConsumer ==
  /\ Step("consumer")
  /\ LET c == CreateConsumer(Consumers[Setup[setupPc].k]) IN
     consumers' = IF c = {} THEN consumers
                  ELSE LET x == CHOOSE x \in c : TRUE IN
                       Append(consumers, x @@ [ordinal |-> Ordinal(x.type)])
  /\ setupPc' = setupPc + 1
  /\ reply' = NoReply
  /\ UNCHANGED <<infos, providers, meterState, dispVars, pixVars>>

-----------------------------------------------------------------------------
(* The binder threads, once main has registered everything.               *)

Ready == setupPc > Len(Setup)

\* The providers that answered: the Display provider's result is taken,
\* the Pixel provider's dead callbacks are cleared.
Called(called) ==
  /\ IF "display" \in called THEN Disp!GetStateResidencies ELSE UNCHANGED dispVars
  /\ IF "pixel" \in called THEN Pixel!GetStateResidencies ELSE UNCHANGED pixVars

\* The contents the Generic provider's file may have in a call that may
\* read it: a call that asks for no Generic entity leaves it unread.
IsGeneric(name) == \E i \in DOMAIN GenericEntities : GenericEntities[i].name = name
FilesFor(eids) ==
  IF \E i \in eids : i \in 0 .. Len(infos) - 1 /\ IsGeneric(infos[i + 1].name)
  THEN GenericFiles ELSE {Unopenable}
Requested(ids, n) == IF ids = <<>> THEN 0 .. n - 1 ELSE Range(ids)

GetStateResidency ==
  /\ Ready
  /\ \E ids \in EntityRequests :
     \E file \in FilesFor(Requested(ids, Len(infos))) :
       LET r == StateResidency(ids, file) IN
       /\ reply' = [op |-> "residency", ids |-> ids, file |-> file, ok |-> r.ok, results |-> r.results]
       /\ Called(r.called)
  /\ UNCHANGED <<infos, providers, meterState, consumers, setupPc>>

\* init restarts the crashed HAL: a fresh process runs main again; the
\* boot clock, the clients and the bound on display events go on.
Restart ==
  /\ mFdOpen' \in BOOLEAN
  /\ mCurState' = Disp!NoState
  /\ mResidencies' = [i \in Disp!StateId |-> [total |-> 0, count |-> 0, last |-> 0]]
  /\ pc' = "poll" /\ stamp' = 0 /\ data' = {}
  /\ result' = [i \in Disp!StateId |-> 0]
  /\ firstEntry' = -1
  /\ infos' = <<>> /\ providers' = <<>> /\ meter' = FALSE /\ consumers' = <<>>
  /\ mDevicePaths' = <<>> /\ mChannelInfos' = <<>> /\ mReading' = <<>> /\ selWrites' = <<>>
  /\ setupPc' = 1
  /\ UNCHANGED <<now, updates>>

\* The step of getEnergyConsumed whose reply is r: the reply is sent, or
\* the HAL crashed while computing it and restarts.
EnergyReply(ids, file, r) ==
  \/ /\ ~r.crash
     /\ reply' = [op |-> "energy", ids |-> ids, file |-> file, ok |-> r.ok, parsed |-> r.parsed,
                  results |-> r.results]
     /\ mReading' = r.reading
     /\ consumers' = r.cons
     /\ Called(r.called)
     /\ UNCHANGED <<infos, providers, meter, mDevicePaths, mChannelInfos, selWrites, setupPc>>
  \/ /\ r.crash
     /\ reply' = [op |-> "dead"]
     /\ Restart
     /\ mCallback' = [i \in Pixel!Idx |-> Null] /\ lastReg' = mCallback'
     /\ inflight' = {} /\ crashes' = crashes + 1
     /\ UNCHANGED <<alive, calls>>

GetEnergyConsumed ==
  /\ Ready
  /\ crashes < MaxCrashes
  /\ \E ids \in ConsumerRequests, outs \in Meter!Outcomes :
     \E file \in FilesFor({consumers[k + 1].entity : k \in {j \in Requested(ids, Len(consumers)) : j + 1 \in DOMAIN consumers}}) :
       EnergyReply(ids, file, EnergyConsumed(ids, outs, file))

\* The readEnergyMeter binder call whose reply is r.
MeterReply(ids, r) ==
  /\ reply' = [op |-> "meter", ids |-> ids, ok |-> r.ok, parsed |-> r.parsed, results |-> r.results]
  /\ mReading' = r.reading

\* The readEnergyMeter binder call.
ReadEnergyMeterCall ==
  /\ Ready
  /\ \E ids \in ChannelRequests, outs \in Meter!Outcomes : MeterReply(ids, ReadMeter(ids, outs, mReading))
  /\ UNCHANGED <<dispVars, pixVars, infos, providers, meter, mDevicePaths, mChannelInfos,
                 selWrites, consumers, setupPc>>

DisplayThread ==
  /\ Disp!UpdateStatsRead \/ Disp!UpdateStatsLocked \/ Disp!Tick
  /\ reply' = NoReply
  /\ UNCHANGED <<pixVars, infos, providers, meterState, consumers, setupPc>>

PixelClient ==
  /\ \E c \in Clients : Pixel!Send(c) \/ Pixel!Die(c)
  /\ reply' = NoReply
  /\ UNCHANGED <<dispVars, infos, providers, meterState, consumers, setupPc>>

PixelRegister ==
  /\ Ready
  /\ \E q \in inflight : Pixel!RegisterCallback(q)
  /\ reply' = NoReply
  /\ UNCHANGED <<dispVars, infos, providers, meterState, consumers, setupPc>>

\* unregisterCallback; when it dereferences a null callback the whole HAL
\* process restarts.
PixelUnregister ==
  /\ Ready
  /\ \E q \in inflight : Pixel!UnregisterCallback(q)
  /\ \/ /\ crashes' = crashes /\ reply' = NoReply
        /\ UNCHANGED <<dispVars, infos, providers, meterState, consumers, setupPc>>
     \/ crashes' # crashes /\ Restart /\ reply' = [op |-> "dead"]

Next ==
  \/ AddStateResidencyDataProvider \/ SetEnergyMeterDataProvider \/ AddEnergyConsumer
  \/ GetStateResidency \/ GetEnergyConsumed \/ ReadEnergyMeterCall
  \/ DisplayThread \/ PixelClient \/ PixelRegister \/ PixelUnregister

Spec == Init /\ [][Next]_vars

-----------------------------------------------------------------------------
(* Properties.                                                             *)

\* What the entity's provider reports now, looked up by the entity's name;
\* for a Generic entity, from a reading of the file by sections.
GenericEntity(name) == GenericEntities[SelectInSeq(GenericEntities, LAMBDA e : e.name = name)]
GenericNames == {GenericEntities[i].name : i \in DOMAIN GenericEntities}
SectionReads ==
  [f \in GenericFiles |-> {n \in GenericNames : Gen!SectionRead(GenericEntities, GenericEntity(n), f)}]
WellFormed == [f \in GenericFiles |-> Gen!BlocksWhole(GenericEntities, f)]
SectionTruth ==
  [f \in GenericFiles |-> [n \in GenericNames |-> Gen!SectionData(GenericEntities, GenericEntity(n), f)]]
Reports(name, file) ==
  IF IsGeneric(name) THEN name \in SectionReads[file]
  ELSE name = DisplayName \/ name \in PixelReporting
TruthOf(name, file) ==
  CASE name = DisplayName -> InStateOrder(Disp!Report)
    [] IsGeneric(name) -> SectionTruth[file][name]
    [] OTHER -> PixelData

\* getStateResidency answers exactly the ids asked for (all ids for an
\* empty request), in request order, leaving out only an entity whose
\* provider has nothing for it, each with what that entity's own provider
\* reports; it refuses a request with an unknown id.  A Generic entity is
\* answered when its section of the file and those before it are complete,
\* with its states in the order of the file and the stats of their blocks.
\* This is stated for a well-formed Generic file, every state block of
\* which has all its stat lines; on a block that lacks one, parseState
\* takes the next block's lines (see README).  The name-keyed map, the provider index, the calls it skips, the Generic
\* provider's header search and the entities it keeps after a failure are
\* what this exercises.
ResidencyMatchesProviders ==
  [][reply'.op = "residency" /\ WellFormed[reply'.file] =>
       LET ids == IF reply'.ids = <<>> THEN AllIds ELSE reply'.ids
           valid == \A k \in DOMAIN ids : ids[k] \in 0 .. Len(infos) - 1
           sel == SelectSeq(ids, LAMBDA i : Reports(infos[i + 1].name, reply'.file))
       IN /\ reply'.ok = valid
          /\ valid => reply'.results =
                [k \in DOMAIN sel |-> [id |-> sel[k], data |-> TruthOf(infos[sel[k] + 1].name, reply'.file)]]
  ]_vars

\* The formula of PowerStatsEnergyConsumer.h: a consumer consumed the
\* energy of the meter channels it names (each as its last occurrence
\* among the meter's devices reports it now) plus, for every state of its
\* entity that it gives a coefficient (by name), the coefficient times the
\* time in that state that the entity's provider reports now.  The
\* coefficients of an attribution consumer weigh uid times instead, and
\* add nothing to its energy.
TimeIn(name, st, file) ==
  CASE name = DisplayName -> Disp!Report[CHOOSE i \in Disp!StateId : StateNames[i + 1] = st]
    [] IsGeneric(name) ->
         LET d == TruthOf(name, file)
         IN d[SelectInSeq(d, LAMBDA r : GenericEntity(name).states[r.id + 1].name = st)].time
    [] OTHER -> CallbackTotal

Formula(s, file) ==
  MapThenSumSet(LAMBDA ch : Meter!LastOccurrence(ch, now), s.channels)
    + IF s.attr THEN 0
      ELSE MapThenSumSet(LAMBDA st : s.coeffs[st] * TimeIn(s.entity, st, file), DOMAIN s.coeffs)

SpecNamed(n) == CHOOSE s \in Range(Consumers) : s.name = n

ConsumerIds(ids) == IF ids = <<>> THEN [k \in 1 .. Len(consumers) |-> k - 1] ELSE ids

\* Every reply of getEnergyConsumed that the HAL sends while the meter's
\* energy_value files parse answers each consumer asked for, in order,
\* with the energy of the formula for the consumer main created under
\* that name: setup's resolution of channel and entity names to ids, the
\* meter's channel ids across devices, and the ids at every call, are what
\* this checks.
EnergyMatchesFormula ==
  [][reply'.op = "energy" /\ reply'.ok /\ reply'.parsed =>
       /\ [k \in DOMAIN reply'.results |-> reply'.results[k].id] =
            ConsumerIds(reply'.ids)
       /\ \A k \in DOMAIN reply'.results :
            reply'.results[k].energy =
              Formula(SpecNamed(consumers[reply'.results[k].id + 1].name), reply'.file)
  ]_vars

\* An attribution consumer splits the meter energy consumed since its last
\* call among the uids, in proportion to their coefficient-weighted time
\* in state since then, on top of what each uid had before: in every
\* reply of getEnergyConsumed, the energies attributed to the uids then in
\* uid_time_in_state sum to at most the consumer's energy.  The snapshots
\* of a consumer (mUidTimeInStateSS, mUidEnergySS, mTotalEnergySS), kept
\* across calls, failed meter reads, uids that come and go, and restarts
\* of the HAL, are what this exercises.
AttributionWithinEnergy ==
  [][reply'.op = "energy" /\ reply'.ok =>
       \A k \in DOMAIN reply'.results :
         MapThenSumSet(LAMBDA u : reply'.results[k].attr[u], DOMAIN reply'.results[k].attr)
           <= reply'.results[k].energy
  ]_vars

\* Each call of getEnergyConsumed hands the meter energy an attribution
\* consumer read since its snapshot (mTotalEnergySS) out to the uids of
\* uid_time_in_state in shares truncated toward zero: what the uids gain
\* over the consumer's mUidEnergySS sums, in magnitude, to no more than
\* that difference, be it positive or, after a read that dropped the
\* meter part, negative; and nothing when the uids ran no weighted time.
\* The code computes powerScale and each share in float (32 bits), so a
\* delta above 2^24 rounds before it is divided, and shares truncated
\* from rounded products can sum past the delta.
AttributionShareBounded ==
  [][reply'.op = "energy" /\ reply'.ok =>
       \A k \in DOMAIN reply'.results :
         LET c == consumers[reply'.results[k].id + 1]
         IN c.attr =>
              Attr!AbsVal(Attr!Gain(reply'.results[k].attr, c.ss))
                <= Attr!AbsVal(reply'.results[k].energy - c.ss.total)
  ]_vars

\* Every reply of readEnergyMeter with measurements gives, for each channel
\* asked for (every channel for an empty request) and in that order, the
\* channel's id, the time of the call, and the energy of the channel's
\* last occurrence among the devices: no measurement is left over from an
\* earlier call, and a rail two devices report is the later device's.
MeterReplyFresh ==
  [][reply'.op = "meter" /\ reply'.ok /\ reply'.results # <<>> =>
       LET ids == IF reply'.ids = <<>> THEN [k \in 1 .. Len(mChannelInfos) |-> k - 1] ELSE reply'.ids
       IN reply'.results =
            [k \in DOMAIN ids |-> [id |-> ids[k], ts |-> now,
                                   energy |-> Meter!LastOccurrence(mChannelInfos[ids[k] + 1].name, now)]]
  ]_vars

\* Once the meter is constructed with its selector, each of its devices
\* has been sent exactly the lines of its first section of odpm_config,
\* in file order, and then CONFIG_COMPLETE: no line of another section,
\* of a later duplicate section, or from before the first header.
SelectorWritesSections ==
  UseSelector /\ meter =>
    \A k \in DOMAIN mDevicePaths :
      Meter!WrittenTo(mDevicePaths[k].path) = Meter!Section(mDevicePaths[k].name) \o <<Meter!Complete>>

=============================================================================
