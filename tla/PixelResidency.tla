--------------------------- MODULE PixelResidency ---------------------------
(***************************************************************************)
(* PixelStateResidencyDataProvider (src/powerstats/libpowerstats/         *)
(* dataproviders/): one Entry per entity in addEntity order, each with an *)
(* IPixelStateResidencyCallback that vendor processes set and clear over  *)
(* binder.  getStateResidencies asks every entry's callback and clears a  *)
(* callback whose process is dead.  Every handler runs under mLock, so    *)
(* each is one step; a client's call is in flight until it is handled.   *)
(*                                                                         *)
(* A crash of the HAL process (a null dereference) restarts it: init      *)
(* starts it again with the entries of addEntity and no callbacks.        *)
(***************************************************************************)
EXTENDS Integers, FiniteSets, Sequences, Functions

CONSTANTS
  EntityNames,    \* <<name, ...>>: mEntries in addEntity order
  UnknownEntity,  \* a name that is not an entry
  Clients,        \* callback binders
  Null,           \* nullptr
  MaxCalls        \* bound on the binder calls the clients make

ASSUME /\ Null \notin Clients /\ UnknownEntity \notin Range(EntityNames)
       /\ MaxCalls \in Nat

Idx == DOMAIN EntityNames

Call == [op : {"register"}, entity : Range(EntityNames) \cup {UnknownEntity},
         client : Clients]
        \cup [op : {"unregister"}, client : Clients]

VARIABLES
  mCallback,  \* [Idx -> Clients \cup {Null}]: Entry::mCallback
  alive,      \* [Clients -> BOOLEAN]: the client process is running
  inflight,   \* binder calls sent and not yet handled
  calls,      \* number of calls sent so far
  crashes,    \* number of times the HAL process crashed
  lastReg     \* ghost: [Idx -> Clients \cup {Null}], the client of the last
              \* registerCallback that succeeded for the entry

vars == <<mCallback, alive, inflight, calls, crashes, lastReg>>

-----------------------------------------------------------------------------

\* Entry(name, states): mCallback(nullptr).
Init ==
  /\ mCallback = [i \in Idx |-> Null]
  /\ alive = [c \in Clients |-> TRUE]
  /\ inflight = {}
  /\ calls = 0
  /\ crashes = 0
  /\ lastReg = [i \in Idx |-> Null]

Send(c) ==
  /\ alive[c]
  /\ calls < MaxCalls
  /\ \E q \in Call : q.client = c /\ inflight' = inflight \cup {q}
  /\ calls' = calls + 1
  /\ UNCHANGED <<mCallback, alive, crashes, lastReg>>

\* find_if over mEntries: the first index satisfying P, or 0 (end()).
FirstIdx(P(_)) ==
  IF \E i \in Idx : P(i) THEN CHOOSE i \in Idx : P(i) /\ \A j \in 1 .. i - 1 : ~P(j)
  ELSE 0

\* registerCallback: the entry named in_entityName gets the callback,
\* replacing the one it had; an unknown name is refused (BAD_VALUE).
Register(i, c) == [mCallback EXCEPT ![i] = c]

RegisterCallback(q) ==
  /\ q \in inflight /\ q.op = "register"
  /\ inflight' = inflight \ {q}
  /\ LET i == FirstIdx(LAMBDA j : EntityNames[j] = q.entity) IN
     IF i = 0 THEN UNCHANGED <<mCallback, lastReg>>
     ELSE /\ mCallback' = Register(i, q.client)
          /\ lastReg' = [lastReg EXCEPT ![i] = q.client]
  /\ UNCHANGED <<alive, calls, crashes>>

\* unregisterCallback: find_if calls it.mCallback->asBinder() on every
\* entry it scans until the first holding in_cb.  Scanning an entry whose
\* callback is null dereferences nullptr: the HAL process crashes and is
\* restarted with no callbacks (every call in flight fails).
Scan(c) == FirstIdx(LAMBDA j : mCallback[j] = Null \/ mCallback[j] = c)

UnregisterCallback(q) ==
  /\ q \in inflight /\ q.op = "unregister"
  /\ LET i == Scan(q.client) IN
     \/ /\ i # 0 /\ mCallback[i] = q.client
        /\ inflight' = inflight \ {q}
        /\ mCallback' = [mCallback EXCEPT ![i] = Null]
        /\ UNCHANGED <<crashes, lastReg>>
     \/ /\ i = 0
        /\ inflight' = inflight \ {q}
        /\ UNCHANGED <<mCallback, crashes, lastReg>>
     \/ /\ i # 0 /\ mCallback[i] = Null
        /\ crashes' = crashes + 1
        /\ inflight' = {}
        /\ mCallback' = [j \in Idx |-> Null]
        /\ lastReg' = [j \in Idx |-> Null]
  /\ UNCHANGED <<alive, calls>>

Die(c) ==
  /\ alive[c]
  /\ alive' = [alive EXCEPT ![c] = FALSE]
  /\ UNCHANGED <<mCallback, inflight, calls, crashes, lastReg>>

\* getStateResidencies: an entry whose callback answers DEAD_OBJECT has
\* its callback cleared; a null callback fails without change.
GetStateResidencies ==
  /\ mCallback' = [i \in Idx |->
                     IF mCallback[i] # Null /\ ~alive[mCallback[i]]
                     THEN Null ELSE mCallback[i]]
  /\ UNCHANGED <<alive, inflight, calls, crashes, lastReg>>

Next ==
  \/ \E c \in Clients : Send(c) \/ Die(c)
  \/ \E q \in inflight : RegisterCallback(q) \/ UnregisterCallback(q)
  \/ GetStateResidencies

Spec == Init /\ [][Next]_vars

-----------------------------------------------------------------------------
(* Properties.                                                             *)

\* registerCallback replaces the entry's callback: a callback an entry
\* holds is always that of the last successful registerCallback for it.
CallbackIsLastRegistered ==
  \A i \in Idx : mCallback[i] # Null => mCallback[i] = lastReg[i]

\* unregisterCallback never dereferences a null callback.
NoNullDeref == crashes = 0

=============================================================================
