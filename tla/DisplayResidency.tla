-------------------------- MODULE DisplayResidency --------------------------
(***************************************************************************)
(* DisplayStateResidencyDataProvider (src/powerstats/libpowerstats/       *)
(* dataproviders/ and its HIDL copy src/powerstats/libpowerstats/): a     *)
(* poll thread waits for the display-state sysfs node to change and       *)
(* updates the residency of the state it reads; binder threads read the   *)
(* residencies.                                                            *)
(*                                                                         *)
(* updateStats takes the time and reads the node BEFORE it takes mLock,   *)
(* and updates the residencies under mLock: two steps of the poll thread. *)
(* getStateResidencies (getResults in the HIDL copy) runs entirely under  *)
(* mLock: one step.  The text read from the node is abstracted to the set *)
(* of state indices whose names occur in it (strstr).                     *)
(***************************************************************************)
EXTENDS Integers, FiniteSetsExt

CONSTANTS
  NumStates,  \* mStates: the states 0 .. NumStates-1
  Reads,      \* the texts the node may hold, each as its set of matches
  MaxTime,    \* bound of boot_clock, in ms (ticks)
  MaxUpdates  \* bound on the display-state changes the poll thread sees

StateId == 0 .. NumStates - 1
NoState == -1

ASSUME Reads \subseteq SUBSET StateId /\ MaxTime \in Nat /\ MaxUpdates \in Nat

VARIABLES
  now,           \* boot_clock::now()
  mFdOpen,       \* the constructor opened the node (mFd >= 0)
  mCurState,     \* index of the current state, -1 before the first read
  mResidencies,  \* [StateId -> [total, count, last]]
  pc,            \* the poll thread: "poll" or "apply" (inside updateStats)
  stamp,         \* updateStats' local `now'
  data,          \* updateStats' local `data', as its set of matches
  result,        \* [StateId -> total] of the last getStateResidencies
  firstEntry,    \* ghost: the stamp of the first state entry, -1 if none
  updates        \* number of updateStats calls so far (bounded)

vars == <<now, mFdOpen, mCurState, mResidencies, pc, stamp, data, result,
          firstEntry, updates>>

Residency == [total : Nat, count : Nat, last : Nat]

DisplayTypeOK ==
  /\ now \in 0 .. MaxTime
  /\ mFdOpen \in BOOLEAN
  /\ mCurState \in StateId \cup {NoState}
  /\ mResidencies \in [StateId -> Residency]
  /\ pc \in {"poll", "apply"}
  /\ stamp \in 0 .. MaxTime
  /\ data \in Reads \cup {{}}
  /\ result \in [StateId -> Nat]
  /\ firstEntry \in {-1} \cup 0 .. MaxTime
  /\ updates \in 0 .. MaxUpdates

-----------------------------------------------------------------------------

\* Constructor: one zeroed StateResidency per state, mCurState = -1; the
\* poll thread is started only if the node could be opened.
Init ==
  /\ now = 0
  /\ mFdOpen \in BOOLEAN
  /\ mCurState = NoState
  /\ mResidencies = [i \in StateId |-> [total |-> 0, count |-> 0, last |-> 0]]
  /\ pc = "poll"
  /\ stamp = 0
  /\ data = {}
  /\ result = [i \in StateId |-> 0]
  /\ firstEntry = -1
  /\ updates = 0

\* pollLoop wakes on an event of the node and updateStats takes the time
\* and preads the node, outside mLock.  A failed pread returns at once and
\* changes nothing (a stutter step).
UpdateStatsRead ==
  /\ mFdOpen
  /\ pc = "poll"
  /\ updates < MaxUpdates
  /\ updates' = updates + 1
  /\ \E d \in Reads :
       /\ stamp' = now
       /\ data' = d
       /\ pc' = "apply"
  /\ UNCHANGED <<now, mFdOpen, mCurState, mResidencies, result, firstEntry>>

\* Under mLock: the first state whose name occurs in the text (the loop
\* breaks at the first match) becomes current; the time of the previous
\* state is closed at the stamp taken before the lock.
Matched(d) == Min(d)

\* Fault: the previous state's interval is not closed on a change.
UpdateStatsApplyNoClose(d, t) ==
  LET i == Matched(d) IN
  [mResidencies EXCEPT ![i].count = @ + 1, ![i].last = t]

UpdateStatsApply(d, t) ==
  LET i == Matched(d)
      closed == IF mCurState = NoState THEN mResidencies
                ELSE [mResidencies EXCEPT ![mCurState].total =
                        @ + (t - mResidencies[mCurState].last)]
  IN [closed EXCEPT ![i].count = @ + 1, ![i].last = t]

UpdateStatsLocked ==
  /\ pc = "apply"
  /\ pc' = "poll"
  /\ \/ /\ data = {}
        /\ UNCHANGED <<mCurState, mResidencies, firstEntry>>
     \/ /\ data # {}
        /\ mResidencies' = UpdateStatsApply(data, stamp)
        /\ mCurState' = Matched(data)
        /\ firstEntry' = IF firstEntry = -1 THEN stamp ELSE firstEntry
  /\ UNCHANGED <<now, mFdOpen, stamp, data, result, updates>>

\* Fault: the open interval is computed with its operands swapped.
OpenIntervalSwapped(i) == mResidencies[i].last - now

\* The time the current state has been entered for, up to now.
OpenInterval(i) == now - mResidencies[i].last

\* The totals getStateResidencies reports: mResidencies with the current
\* state's open interval added up to now.
Report ==
  [i \in StateId |->
     mResidencies[i].total + (IF i = mCurState THEN OpenInterval(i) ELSE 0)]

\* getStateResidencies: the report, taken under mLock.
GetStateResidencies ==
  /\ result' = Report
  /\ UNCHANGED <<now, mFdOpen, mCurState, mResidencies, pc, stamp, data,
                 firstEntry, updates>>

Tick ==
  /\ now < MaxTime
  /\ now' = now + 1
  /\ UNCHANGED <<mFdOpen, mCurState, mResidencies, pc, stamp, data, result,
                 firstEntry, updates>>

Next ==
  \/ UpdateStatsRead \/ UpdateStatsLocked
  \/ GetStateResidencies \/ Tick

Spec == Init /\ [][Next]_vars

-----------------------------------------------------------------------------
(* Properties.                                                             *)

\* updateStats closes the previous state's interval exactly where the new
\* one opens: the closed totals plus the open interval of the current state
\* always add up to the time elapsed since the first state was read, so no
\* moment is counted twice or lost, whatever getStateResidencies interleaves.
AccountingConserved ==
  mCurState # NoState =>
    MapThenSumSet(LAMBDA i : mResidencies[i].total, StateId)
      + (now - mResidencies[mCurState].last) = now - firstEntry

\* The residency a client reads for a state never decreases from one
\* getStateResidencies to the next (the totals are cumulative counters).
ReportedResidencyMonotonic ==
  [][\A i \in StateId : result'[i] >= result[i]]_vars

=============================================================================
