---------------------------- MODULE PowerStatsHidl ---------------------------
(***************************************************************************)
(* The PowerStats HIDL service (src/powerstats/libpixelpowerstats/        *)
(* PowerStats.cpp, set up by src/powerstats/service.cpp): a registry of    *)
(* power entities and the state residency data providers that read them,  *)
(* and the rail energy provider.  configureRpcThreadpool(1, true): one     *)
(* HIDL thread serves the calls one at a time, so each handler is one      *)
(* step.  Next to it run the binder threads of the AIDL provider          *)
(* (AidlResidency), started before the HIDL service registers.  The rail   *)
(* provider (RailStream) answers getRailInfo and getEnergyData.            *)
(*                                                                         *)
(* A provider is a record by its kind: "generic" (a file parsed by         *)
(* GenericParse, with the entity configs of addEntity), "wlan", "device"   *)
(* (Gpu, Oslo and Iaxxx: an open and ioctls that succeed or fail) and      *)
(* "aidl".  Which file contents a provider finds, and whether a device     *)
(* answers, are chosen anew at each getResults.                            *)
(***************************************************************************)
EXTENDS RailStream, GenericParse, SequencesExt

CONSTANTS
  NumEntities,   \* the addPowerEntity calls of main: ids 0 .. NumEntities-1
  Providers,     \* the addStateResidencyDataProvider calls, in order
  AidlEntities,  \* the AIDL provider's entity names
  AidlStates,    \* [AidlEntities -> SUBSET AidlStateNames]
  AidlStateNames,
  AidlClients,   \* callback binders of the vendor processes
  AidlReplies,   \* the stats vectors a live callback may return
  AidlMaxCalls,
  NoCallback,
  UnknownEntity,
  ReqIds         \* the powerEntityIds arguments HIDL clients send

VARIABLES
  aCallbacks, aAlive, aLinks, aObits, aInflight, aCalls, aRegs, aLastRet,
  aLastResults,  \* the AIDL provider (AidlResidency)
  residency,     \* the last getPowerEntityStateResidencyData reply:
                 \* [status, ids asked for, results' entity ids in order]
  prevResValid,  \* debugStateResidency's static prevDataTimeValid (its
                 \* prevResults only choose which lines of the text show
                 \* deltas, and are left out)
  prevEnergy     \* debugEnergyData's static prevDataTimeValid

Aidl == INSTANCE AidlResidency
          WITH Entities <- AidlEntities, EntityStates <- AidlStates,
               StateNames <- AidlStateNames, Clients <- AidlClients,
               Replies <- AidlReplies, MaxCalls <- AidlMaxCalls,
               mCallbacks <- aCallbacks, alive <- aAlive, links <- aLinks,
               obits <- aObits, inflight <- aInflight, calls <- aCalls,
               regs <- aRegs, lastRet <- aLastRet, lastResults <- aLastResults

aidlVars == <<aCallbacks, aAlive, aLinks, aObits, aInflight, aCalls, aRegs,
              aLastRet, aLastResults>>
railVars == <<devicePaths, railsInfo, numRails, hwEnabled, lock, fmq, calls,
              tpc, sps, numSamples, currSamples, qlen, written, crashes>>
hidlVars == <<residency, prevResValid, prevEnergy>>
allVars == <<railVars, reply, aidlVars, hidlVars>>

-----------------------------------------------------------------------------
(* The providers.                                                          *)

WlanFields == {"sleep", "on", "counter", "tstamp"}

\* getStateSpaces of each kind: the entity ids the provider answers for.
StateSpacesOf(p) ==
  CASE p.kind = "generic" -> GetStateSpaces(p.ents)
    [] p.kind = "wlan" \/ p.kind = "device" -> {p.id}
    [] p.kind = "aidl" -> {p.ids[e] : e \in AidlEntities}

\* Wlan getResults: with the driver not "ok" zeros are returned; otherwise
\* the four fields are read from the file.
WlanResults(p) ==
  {[ok |-> TRUE, found |-> {p.id}]}
  \cup {IF f # Unopenable /\ ParseState(WlanFields, f).ok
        THEN [ok |-> TRUE, found |-> {p.id}]
        ELSE [ok |-> FALSE, found |-> {}] : f \in p.files}

\* Gpu, Oslo, Iaxxx getResults: a failed open or ioctl returns false.
DeviceResults(p) == {[ok |-> TRUE, found |-> {p.id}], [ok |-> FALSE, found |-> {}]}

\* The outcomes a getResults call of provider p may have right now.
ResultsOf(p) ==
  CASE p.kind = "generic" -> {GetResults(p.ents, f) : f \in p.files}
    [] p.kind = "wlan" -> WlanResults(p)
    [] p.kind = "device" -> DeviceResults(p)
    [] p.kind = "aidl" ->
         {LET r == Aidl!GetResultsOf(stats)
          IN [ok |-> r.ret, found |-> {p.ids[e] : e \in r.found}, aidl |-> r]
          : stats \in [AidlEntities -> AidlReplies]}

-----------------------------------------------------------------------------
(* The registry main builds.                                               *)

\* addPowerEntity: the id is the number of entities added before.
mPowerEntityInfos == [i \in 1 .. NumEntities |-> i - 1]

\* addStateResidencyDataProvider: emplace the provider's state spaces; an
\* id already present keeps its first provider.
mPowerEntityStateSpaces == UNION {StateSpacesOf(Providers[p]) : p \in DOMAIN Providers}

ProviderOf(id) ==
  CHOOSE p \in DOMAIN Providers :
    /\ id \in StateSpacesOf(Providers[p])
    /\ \A q \in 1 .. p - 1 : id \notin StateSpacesOf(Providers[q])

\* mStateResidencyDataProviders: the same ids, each with its provider.
mStateResidencyDataProviders ==
  [id \in mPowerEntityStateSpaces |-> ProviderOf(id)]

-----------------------------------------------------------------------------
(* getPowerEntityStateResidencyData's loop over the ids: st is            *)
(* [sr: ids in stateResidencies, results, inv: invalidInput, fs:          *)
(* filesystemError, aidl: {the AIDL provider's last getResults} or {}]. *)
(* The set of the states each id may lead to.                             *)

\* Fault: getResults is called only for the first id with a provider.
NeedsResultsFirstOnly(id, st) == st.sr = {} /\ ~st.fs

\* stateResidencies lacks the id: its provider's getResults is called.
NeedsResults(id, st) == id \notin st.sr

ReqStep(id, st) ==
  IF id \notin DOMAIN mStateResidencyDataProviders
  THEN {[st EXCEPT !.inv = TRUE]}
  ELSE LET p == Providers[mStateResidencyDataProviders[id]]
           outs == IF NeedsResults(id, st) THEN ResultsOf(p)
                   ELSE {[ok |-> TRUE, found |-> {}]}
       IN {LET sr == st.sr \cup o.found
           IN [sr |-> sr,
               results |-> IF id \in sr THEN Append(st.results, id) ELSE st.results,
               inv |-> st.inv,
               fs |-> st.fs \/ ~o.ok,
               aidl |-> IF "aidl" \in DOMAIN o THEN {o.aidl} ELSE st.aidl]
           : o \in outs}

RECURSIVE ReqLoop(_, _)
ReqLoop(ids, st) ==
  IF ids = <<>> THEN {st}
  ELSE UNION {ReqLoop(Tail(ids), s) : s \in ReqStep(Head(ids), st)}

\* The status: FILESYSTEM_ERROR before INVALID_INPUT before SUCCESS.
StatusOf(st) ==
  IF st.fs THEN "FILESYSTEM_ERROR" ELSE IF st.inv THEN "INVALID_INPUT" ELSE "SUCCESS"

\* An empty powerEntityIds asks for every entity of mPowerEntityStateSpaces,
\* in the iteration order of the unordered_map: fixed, as the map does not
\* change after main; taken here as ascending ids.
AllIds == SelectSeq(mPowerEntityInfos, LAMBDA id : id \in mPowerEntityStateSpaces)

ExpandIds(ids) == IF ids = <<>> THEN AllIds ELSE ids

\* The replies getPowerEntityStateResidencyData(ids) may give, each with
\* the AIDL provider's last getResults.
ResidencyReplies(ids) ==
  IF DOMAIN mStateResidencyDataProviders = {} \/ mPowerEntityStateSpaces = {}
  THEN {[status |-> "NOT_SUPPORTED", ids |-> ids, results |-> <<>>, aidl |-> {}]}
  ELSE {[status |-> StatusOf(st), ids |-> ExpandIds(ids), results |-> st.results,
         aidl |-> st.aidl]
        : st \in ReqLoop(ExpandIds(ids), [sr |-> {}, results |-> <<>>,
                                          inv |-> FALSE, fs |-> FALSE,
                                          aidl |-> {}])}

\* The AIDL provider keeps the result of its last getResults.
AidlCalled(r) ==
  IF r.aidl = {} THEN UNCHANGED <<aLastRet, aLastResults>>
  ELSE \E a \in r.aidl : aLastRet' = a.ret /\ aLastResults' = a.found

-----------------------------------------------------------------------------
(* The HIDL handlers.                                                      *)

HidlInit ==
  /\ Init
  /\ Aidl!Init
  /\ residency = [status |-> "NONE", ids |-> <<>>, results |-> <<>>]
  /\ prevResValid = FALSE /\ prevEnergy = FALSE

\* getPowerEntityInfo: NOT_SUPPORTED when no entity was added.
GetPowerEntityInfo ==
  /\ reply' = IF mPowerEntityInfos = <<>> THEN "NOT_SUPPORTED" ELSE "SUCCESS"
  /\ UNCHANGED <<railVars, aidlVars, hidlVars>>

\* getPowerEntityStateInfo: INVALID_INPUT if any id has no state space.
GetPowerEntityStateInfo(ids) ==
  /\ reply' = CASE mPowerEntityStateSpaces = {} -> "NOT_SUPPORTED"
                [] \E k \in DOMAIN ids : ids[k] \notin mPowerEntityStateSpaces
                     -> "INVALID_INPUT"
                [] OTHER -> "SUCCESS"
  /\ UNCHANGED <<railVars, aidlVars, hidlVars>>

GetPowerEntityStateResidencyData(ids) ==
  /\ \E r \in ResidencyReplies(ids) :
       /\ residency' = [status |-> r.status, ids |-> r.ids, results |-> r.results]
       /\ reply' = r.status
       /\ AidlCalled(r)
  /\ UNCHANGED <<railVars, aCallbacks, aAlive, aLinks, aObits, aInflight,
                 aCalls, aRegs, prevResValid, prevEnergy>>

\* setRailDataProvider(RailDataProvider) in main: getRailInfo and
\* getEnergyData are the provider's (RailStream).  streamEnergyData and
\* its poll threads touch only the stream's state and mOdpm.mLock; they
\* are checked in RailStream's own specification and left out here, so
\* mLock is free whenever the HIDL thread asks for it.
HasRailDataProvider == TRUE

RailHidlCall ==
  /\ HasRailDataProvider
  /\ \/ GetRailInfo
     \/ \E ix \in RailIndexArgs : GetEnergyData(ix)
  /\ UNCHANGED <<aidlVars, hidlVars>>

\* debugStateResidency: getPowerEntityStateInfo({}) must succeed; then
\* the data of every entity is dumped, with deltas against the statics
\* when delta, which then keep this dump's results and time (clock_gettime
\* of CLOCK_BOOTTIME does not fail).
DebugStateResidency(delta) ==
  IF mPowerEntityStateSpaces = {}
  THEN UNCHANGED <<aLastRet, aLastResults, prevResValid>>
  ELSE /\ \E aidl \in {r.aidl : r \in ResidencyReplies(<<>>)} :
            AidlCalled([aidl |-> aidl])
       /\ prevResValid' = (delta \/ prevResValid)

\* debugEnergyData: no rail names (getRailInfo NOT_SUPPORTED) or a failed
\* getEnergyData({}) returns early; a delta dump keeps its time.  Both
\* calls take mOdpm.mLock; the rail names cannot change in between.
DebugEnergyData(delta) ==
  IF ~hwEnabled
  THEN UNCHANGED prevEnergy
  ELSE \/ EnergyFailed /\ UNCHANGED prevEnergy
       \/ EnergyParsed /\ prevEnergy' = (delta \/ prevEnergy)

\* debug: a dump of "delta" (one argument) or not; nothing is dumped when
\* getPowerEntityInfo fails.
Debug(delta) ==
  /\ lock = 0
  /\ mPowerEntityInfos # <<>>
  /\ DebugStateResidency(delta)
  /\ DebugEnergyData(delta)
  /\ UNCHANGED <<railVars, reply, aCallbacks, aAlive, aLinks, aObits,
                 aInflight, aCalls, aRegs, residency>>

\* The binder threads of the AIDL provider serve its vendor clients.
AidlBinderCall ==
  /\ \/ \E c \in AidlClients : Aidl!Send(c) \/ Aidl!Die(c) \/ Aidl!BinderDied(c)
     \/ \E q \in aInflight : Aidl!RegisterCallback(q) \/ Aidl!UnregisterCallback(q)
  /\ UNCHANGED <<railVars, reply, hidlVars>>

AllEntityIds == {<<>>} \cup {<<i>> : i \in Range(mPowerEntityInfos)} \cup {<<NumEntities>>}

HidlNext ==
  \/ RailHidlCall
  \/ AidlBinderCall
  \/ GetPowerEntityInfo
  \/ \E ids \in AllEntityIds : GetPowerEntityStateInfo(ids)
  \/ \E ids \in ReqIds : GetPowerEntityStateResidencyData(ids)
  \/ \E delta \in BOOLEAN : Debug(delta)

\* Only safety is checked here: no fairness.
HidlSpec == HidlInit /\ [][HidlNext]_allVars

-----------------------------------------------------------------------------
(* Properties.                                                             *)

\* getPowerEntityStateResidencyData answers SUCCESS only with one result
\* for every id asked for (all ids for an empty request), in the order
\* asked: a provider's getResults is called for each id it has not yet
\* returned, and every provider returns true only after emplacing all its
\* entities.
ResidencyReplyHonest == residency.status = "SUCCESS" => residency.results = residency.ids

=============================================================================
