----------------------------- MODULE RailStream -----------------------------
(***************************************************************************)
(* RailDataProvider (src/powerstats/RailDataProvider.cpp): the on-device  *)
(* power monitor of the HIDL PowerStats service.  The constructor finds    *)
(* the PAC1934 devices and parses their rails; the HIDL thread serves      *)
(* getRailInfo, getEnergyData and streamEnergyData one at a time, each     *)
(* under mOdpm.mLock from start to end (one step).  streamEnergyData       *)
(* hands out one fast message queue (fmqSynchronized) and starts a         *)
(* detached poll thread that writes numSamples samples into it, taking     *)
(* mLock for each sample, and finally resets fmqSynchronized to nullptr.   *)
(*                                                                         *)
(* Stream g is the g-th streamEnergyData call; fmq = g while its queue is  *)
(* fmqSynchronized, 0 for nullptr.  The client reads whole samples from    *)
(* its queue whenever it likes, or never.  A SIGFPE kills the process,     *)
(* which init restarts: the constructor parses the same devices again and  *)
(* every thread and queue of the old process is gone.                      *)
(***************************************************************************)
EXTENDS Integers, FiniteSets, Sequences, RailParse

CONSTANTS
  Boards,        \* the /sys/bus/iio/devices listings the device may have
  EnergyFiles,   \* the energy_value contents a device may show
  TimesMs,       \* timeMs arguments of streamEnergyData
  Rates,         \* samplingRate arguments of streamEnergyData
  RailIndexArgs, \* railIndices arguments of getEnergyData
  MaxStreams,    \* bound on the streamEnergyData calls
  QueueSamples   \* samples the queue holds: MAX_QUEUE_SIZE / rails, scaled down

MAX_SAMPLING_RATE == 10

Stream == 1 .. MaxStreams

Status == {"NONE", "SUCCESS", "NOT_SUPPORTED", "FILESYSTEM_ERROR",
           "INVALID_INPUT", "INSUFFICIENT_RESOURCES"}

VARIABLES
  devicePaths,  \* mOdpm.devicePaths: the device entries found
  railsInfo,    \* mOdpm.railsInfo: [rail name -> [index, device, rate]]
  numRails,     \* the rail count parsePowerRails returned (reading.size())
  hwEnabled,    \* mOdpm.hwEnabled
  lock,         \* the poll thread holding mOdpm.mLock across steps, or 0
  fmq,          \* the stream whose queue is fmqSynchronized, or 0 (nullptr)
  calls,        \* streamEnergyData calls so far
  tpc,          \* [Stream -> poll thread's position]
  sps,          \* [Stream -> the thread's captured sps]
  numSamples,   \* [Stream -> the thread's captured numSamples]
  currSamples,  \* [Stream -> the thread's currSamples]
  qlen,         \* [Stream -> samples in the stream's queue, not yet read]
  written,      \* ghost: [Stream -> samples writeBlocking really wrote]
  crashes,      \* number of times the process was killed and restarted
  reply         \* status of the last HIDL call

hwVars == <<devicePaths, railsInfo, numRails, hwEnabled>>
vars == <<devicePaths, railsInfo, numRails, hwEnabled, lock, fmq, calls, tpc,
          sps, numSamples, currSamples, qlen, written, crashes, reply>>

RailTypeOK ==
  /\ numRails \in Nat /\ hwEnabled \in BOOLEAN
  /\ lock \in {0} \cup Stream /\ fmq \in {0} \cup Stream
  /\ calls \in 0 .. MaxStreams
  /\ tpc \in [Stream -> {"idle", "start", "loop", "write", "sleep", "final", "done"}]
  /\ sps \in [Stream -> 0 .. MAX_SAMPLING_RATE]
  /\ numSamples \in [Stream -> Nat] /\ currSamples \in [Stream -> Nat]
  /\ qlen \in [Stream -> 0 .. QueueSamples] /\ written \in [Stream -> Nat]
  /\ crashes \in Nat /\ reply \in Status

-----------------------------------------------------------------------------

\* The constructor: findIioPowerMonitorNodes, parsePowerRails, and the
\* hardware is enabled when a device and a rail were found.
Init ==
  /\ \E b \in Boards :
       LET paths == FindIioPowerMonitorNodes(b)
           parsed == ParsePowerRails(paths)
       IN /\ devicePaths = paths
          /\ railsInfo = parsed.info
          /\ numRails = parsed.index
          /\ hwEnabled = (paths # <<>> /\ parsed.index # 0)
  /\ lock = 0 /\ fmq = 0 /\ calls = 0
  /\ tpc = [g \in Stream |-> "idle"]
  /\ sps = [g \in Stream |-> 0] /\ numSamples = [g \in Stream |-> 0]
  /\ currSamples = [g \in Stream |-> 0]
  /\ qlen = [g \in Stream |-> 0] /\ written = [g \in Stream |-> 0]
  /\ crashes = 0 /\ reply = "NONE"

\* parseIioEnergyNodes over the energy files the devices show right now.
EnergyParsed == \E files \in [DOMAIN devicePaths -> EnergyFiles] :
                  ParseIioEnergyNodes(hwEnabled, files)
EnergyFailed == \E files \in [DOMAIN devicePaths -> EnergyFiles] :
                  ~ParseIioEnergyNodes(hwEnabled, files)

\* getRailInfo: NOT_SUPPORTED without hardware, else every rail's info.
GetRailInfo ==
  /\ lock = 0
  /\ reply' = IF hwEnabled THEN "SUCCESS" ELSE "NOT_SUPPORTED"
  /\ UNCHANGED <<hwVars, lock, fmq, calls, tpc, sps, numSamples, currSamples,
                 qlen, written, crashes>>

\* getEnergyData: the energy files are parsed first; an index past the
\* readings is INVALID_INPUT.
GetEnergyData(ix) ==
  /\ lock = 0
  /\ \/ EnergyFailed /\ reply' = IF hwEnabled THEN "FILESYSTEM_ERROR"
                                 ELSE "NOT_SUPPORTED"
     \/ EnergyParsed /\ reply' = IF \E k \in DOMAIN ix : ix[k] >= numRails
                                 THEN "INVALID_INPUT" ELSE "SUCCESS"
  /\ UNCHANGED <<hwVars, lock, fmq, calls, tpc, sps, numSamples, currSamples,
                 qlen, written, crashes>>

\* Fault: the check of fmqSynchronized is missing.
StreamFreeAlways == TRUE

\* Only one stream at a time: refused while fmqSynchronized is set.
StreamFree == fmq = 0

\* uint32_t numSamples = timeMs * sps / 1000.  The product wraps at 2^32
\* for timeMs > 429496729; TimesMs stays far below that.
NumSamplesOf(t, s) == (t * s) \div 1000

\* streamEnergyData: the queue is allocated (new may fail: the stream is
\* refused) and a poll thread is started with the captured sps and count.
StreamEnergyData(t, r) ==
  /\ lock = 0 /\ calls < MaxStreams
  /\ calls' = calls + 1
  /\ LET g == calls + 1
         s == IF r < MAX_SAMPLING_RATE THEN r ELSE MAX_SAMPLING_RATE
     IN \/ /\ ~StreamFree
           /\ reply' = "INSUFFICIENT_RESOURCES"
           /\ UNCHANGED <<fmq, tpc, sps, numSamples>>
        \/ /\ StreamFree
           /\ fmq' = 0
           /\ reply' = "INSUFFICIENT_RESOURCES"
           /\ UNCHANGED <<tpc, sps, numSamples>>
        \/ /\ StreamFree
           /\ fmq' = g
           /\ tpc' = [tpc EXCEPT ![g] = "start"]
           /\ sps' = [sps EXCEPT ![g] = s]
           /\ numSamples' = [numSamples EXCEPT ![g] = NumSamplesOf(t, s)]
           /\ reply' = "SUCCESS"
  /\ UNCHANGED <<hwVars, lock, currSamples, qlen, written, crashes>>

-----------------------------------------------------------------------------
(* The poll thread of stream g.                                            *)

\* sleepTimeUs = 1000000/sps.  With sps == 0 the division is undefined:
\* it traps (SIGFPE: the process dies and init restarts it), or, as the
\* arm64 udiv does, yields 0 and the thread goes on.
PollStart(g) ==
  /\ tpc[g] = "start"
  /\ \/ /\ tpc' = [tpc EXCEPT ![g] = "loop"]
        /\ UNCHANGED <<lock, fmq, crashes>>
     \/ /\ sps[g] = 0
        /\ crashes' = crashes + 1
        /\ lock' = 0 /\ fmq' = 0
        /\ tpc' = [h \in Stream |-> IF tpc[h] = "idle" THEN "idle" ELSE "done"]
  /\ UNCHANGED <<hwVars, calls, sps, numSamples, currSamples, qlen, written,
                 reply>>

\* Fault: the thread returns at once, without resetting the queue.
AfterParseFailureReturn == "done"

\* Where the thread goes when parseIioEnergyNodes fails: break.
AfterParseFailure == "final"

\* Fault: writeBlocking writes into a full queue.
RoomAlways(q) == TRUE

\* writeBlocking writes when the queue has room for a sample.
Room(q) == qlen[q] < QueueSamples

\* while (currSamples < numSamples): lock, parse; a failed parse unlocks
\* and leaves the loop.  The loop ends when every sample was taken.
PollParse(g) ==
  /\ tpc[g] = "loop"
  /\ \/ /\ currSamples[g] < numSamples[g] /\ lock = 0
        /\ \/ EnergyParsed /\ lock' = g /\ tpc' = [tpc EXCEPT ![g] = "write"]
           \/ EnergyFailed /\ UNCHANGED lock
                           /\ tpc' = [tpc EXCEPT ![g] = AfterParseFailure]
     \/ /\ currSamples[g] >= numSamples[g]
        /\ UNCHANGED lock /\ tpc' = [tpc EXCEPT ![g] = "final"]
  /\ UNCHANGED <<hwVars, fmq, calls, sps, numSamples, currSamples, qlen,
                 written, crashes, reply>>

\* writeBlocking(reading, reading.size(), 1 s) into fmqSynchronized, under
\* mLock: it writes when the queue has room, else it times out after 1 s
\* (the reader may make room meanwhile).  Its result is ignored: mLock is
\* released and currSamples counts the sample either way.
PollWrite(g) ==
  /\ tpc[g] = "write" /\ lock = g
  /\ \/ /\ Room(fmq)
        /\ qlen' = [qlen EXCEPT ![fmq] = @ + 1]
        /\ written' = [written EXCEPT ![g] = @ + 1]
     \/ /\ ~Room(fmq)
        /\ UNCHANGED <<qlen, written>>
  /\ lock' = 0
  /\ currSamples' = [currSamples EXCEPT ![g] = @ + 1]
  /\ tpc' = [tpc EXCEPT ![g] = "sleep"]
  /\ UNCHANGED <<hwVars, fmq, calls, sps, numSamples, crashes, reply>>

\* usleep(sleepTimeUs); an interrupted sleep leaves the loop.
PollSleep(g) ==
  /\ tpc[g] = "sleep"
  /\ \E interrupted \in BOOLEAN :
       tpc' = [tpc EXCEPT ![g] = IF interrupted THEN "final" ELSE "loop"]
  /\ UNCHANGED <<hwVars, lock, fmq, calls, sps, numSamples, currSamples, qlen,
                 written, crashes, reply>>

\* After the loop: lock, fmqSynchronized = nullptr, unlock, return.
PollFinal(g) ==
  /\ tpc[g] = "final" /\ lock = 0
  /\ fmq' = 0
  /\ tpc' = [tpc EXCEPT ![g] = "done"]
  /\ UNCHANGED <<hwVars, lock, calls, sps, numSamples, currSamples, qlen,
                 written, crashes, reply>>

\* The client reads one sample from its queue.
ReadSample(g) ==
  /\ qlen[g] > 0
  /\ qlen' = [qlen EXCEPT ![g] = @ - 1]
  /\ UNCHANGED <<hwVars, lock, fmq, calls, tpc, sps, numSamples, currSamples,
                 written, crashes, reply>>

PollStep(g) == PollStart(g) \/ PollParse(g) \/ PollWrite(g) \/ PollSleep(g)
               \/ PollFinal(g)

Next ==
  \/ GetRailInfo
  \/ \E ix \in RailIndexArgs : GetEnergyData(ix)
  \/ \E t \in TimesMs, r \in Rates : StreamEnergyData(t, r)
  \/ \E g \in Stream : PollStep(g) \/ ReadSample(g)

\* The detached poll thread is scheduled, and writeBlocking returns within
\* its 1 s timeout: each thread keeps making progress.  The client and the
\* HIDL caller need not do anything.
Spec == Init /\ [][Next]_vars /\ \A g \in Stream : WF_vars(PollStep(g))

-----------------------------------------------------------------------------
(* Properties.                                                             *)

ActiveThread == {"start", "loop", "write", "sleep", "final"}

\* streamEnergyData refuses a stream while fmqSynchronized is set, and the
\* poll thread clears it only as its last step: a running poll thread's
\* queue is always fmqSynchronized, so no two threads share it and no
\* thread writes into a queue another stream replaced.
OneStreamAtATime == \A g \in Stream : tpc[g] \in ActiveThread => fmq = g

\* Every path out of the poll thread's loop resets fmqSynchronized: once a
\* stream is handed out, the provider eventually accepts a new one.
StreamReleased == \A g \in Stream : (fmq = g) ~> (fmq # g)

\* Every sample the poll thread counts (currSamples) was written into the
\* client's queue.
SamplesCounted == \A g \in Stream : currSamples[g] = written[g]

\* getRailInfo writes rInfo[index] into a vector of railsInfo.size()
\* entries and getEnergyData copies reading.size() entries into one: the
\* rail indices are exactly 0 .. railsInfo.size()-1 = 0 .. numRails-1.
RailIndicesDense ==
  {railsInfo[n].index : n \in DOMAIN railsInfo} = 0 .. numRails - 1

=============================================================================
