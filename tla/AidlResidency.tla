--------------------------- MODULE AidlResidency ----------------------------
(***************************************************************************)
(* AidlStateResidencyDataProvider (src/powerstats/libpixelpowerstats/):   *)
(* vendor processes register an IPixelPowerStatsCallback per power entity *)
(* over binder; the PowerStats HAL asks every registered callback for its *)
(* state residencies in getResults.  A client may die at any time: its    *)
(* death is delivered later, once per linkToDeath, as binderDied.         *)
(*                                                                         *)
(* Every handler runs under mLock from start to end, so each is one step; *)
(* a client's binder call is a request in flight until a binder thread    *)
(* of the HAL handles it, and the client may die in between.              *)
(***************************************************************************)
EXTENDS Integers, FiniteSets, Sequences, SequencesExt

CONSTANTS
  Entities,       \* the entity names added with addEntity (mEntityInfos)
  UnknownEntity,  \* an entity name that was never added
  EntityStates,   \* [Entities -> SUBSET StateNames]: each entity's states
  StateNames,     \* every state name a callback may report
  Clients,        \* callback binders; a restarted process is a new one
  Replies,        \* the stats vectors a live callback may return
  MaxCalls,       \* bound on the binder calls the clients make
  NoCallback      \* an entity without an entry in mCallbacks

ASSUME /\ UnknownEntity \notin Entities /\ NoCallback \notin Clients
       /\ EntityStates \in [Entities -> SUBSET StateNames]
       /\ Replies \subseteq Seq(StateNames)
       /\ MaxCalls \in Nat

Call == [op : {"register"}, entity : Entities \cup {UnknownEntity},
         client : Clients]
        \cup [op : {"unregister"}, client : Clients]

VARIABLES
  mCallbacks,  \* [Entities -> Clients \cup {NoCallback}]: unordered_map
  alive,       \* [Clients -> BOOLEAN]: the client process is running
  links,       \* [Clients -> Nat]: death links in place (linkToDeath)
  obits,       \* [Clients -> Nat]: binderDied notifications not delivered
  inflight,    \* the binder calls sent and not yet handled
  calls,       \* number of calls sent so far
  regs,        \* ghost: [Entities -> SUBSET Clients], clients whose
               \* registerCallback returned ok and that were not
               \* unregistered (explicitly or by binderDied) since
  lastRet,     \* return value of the last getResults
  lastResults  \* entities the last getResults returned a result for

vars == <<mCallbacks, alive, links, obits, inflight, calls, regs, lastRet,
          lastResults>>

-----------------------------------------------------------------------------
(* buildResult: walk the callback's stats, placing each one of a known    *)
(* state in the next slot, until every slot is filled or the stats end.  *)
(* The result is complete when every slot was filled.                     *)

RECURSIVE Fill(_, _, _)
Fill(states, stats, slots) ==
  IF Len(slots) >= Cardinality(states) \/ stats = <<>> THEN slots
  ELSE Fill(states, Tail(stats),
            IF Head(stats) \in states THEN Append(slots, Head(stats))
                                      ELSE slots)

BuildResult(e, stats) ==
  LET slots == Fill(EntityStates[e], stats, <<>>)
  IN [complete |-> Len(slots) = Cardinality(EntityStates[e]),
      states |-> ToSet(slots)]

-----------------------------------------------------------------------------

Init ==
  /\ mCallbacks = [e \in Entities |-> NoCallback]
  /\ alive = [c \in Clients |-> TRUE]
  /\ links = [c \in Clients |-> 0]
  /\ obits = [c \in Clients |-> 0]
  /\ inflight = {}
  /\ calls = 0
  /\ regs = [e \in Entities |-> {}]
  /\ lastRet = FALSE
  /\ lastResults = {}

\* A live client makes a binder call.
Send(c) ==
  /\ alive[c]
  /\ calls < MaxCalls
  /\ \E q \in Call : q.client = c /\ inflight' = inflight \cup {q}
  /\ calls' = calls + 1
  /\ UNCHANGED <<mCallbacks, alive, links, obits, regs, lastRet, lastResults>>

\* registerCallback: an unknown entity is refused; otherwise the callback
\* is emplaced (a no-op if the entity already has one) and linked to death
\* (linkToDeath of a dead binder fails, and the error is ignored).
RegisterCallback(q) ==
  /\ q \in inflight /\ q.op = "register"
  /\ inflight' = inflight \ {q}
  /\ IF q.entity \notin Entities
     THEN UNCHANGED <<mCallbacks, links, regs>>
     ELSE /\ mCallbacks' = IF mCallbacks[q.entity] = NoCallback
                           THEN [mCallbacks EXCEPT ![q.entity] = q.client]
                           ELSE mCallbacks
          /\ links' = IF alive[q.client]
                      THEN [links EXCEPT ![q.client] = @ + 1] ELSE links
          /\ regs' = [regs EXCEPT ![q.entity] = @ \cup {q.client}]
  /\ UNCHANGED <<alive, obits, calls, lastRet, lastResults>>

\* unregisterCallbackInternal: every entry holding the binder is erased.
Erase(cbs, c) == [e \in Entities |-> IF cbs[e] = c THEN NoCallback ELSE cbs[e]]

\* ... and one death link is removed (unlinkToDeath; errors ignored).
UnregisterInternal(c) ==
  /\ mCallbacks' = Erase(mCallbacks, c)
  /\ links' = [links EXCEPT ![c] = IF @ > 0 THEN @ - 1 ELSE 0]
  /\ regs' = [e \in Entities |-> regs[e] \ {c}]

UnregisterCallback(q) ==
  /\ q \in inflight /\ q.op = "unregister"
  /\ inflight' = inflight \ {q}
  /\ UnregisterInternal(q.client)
  /\ UNCHANGED <<alive, obits, calls, lastRet, lastResults>>

\* The client process dies: each death link becomes a pending obituary.
Die(c) ==
  /\ alive[c]
  /\ alive' = [alive EXCEPT ![c] = FALSE]
  /\ obits' = [obits EXCEPT ![c] = links[c]]
  /\ links' = [links EXCEPT ![c] = 0]
  /\ UNCHANGED <<mCallbacks, inflight, calls, regs, lastRet, lastResults>>

\* binderDied: unregisterCallbackInternal(who.promote()).
BinderDied(c) ==
  /\ obits[c] > 0
  /\ obits' = [obits EXCEPT ![c] = @ - 1]
  /\ UnregisterInternal(c)
  /\ UNCHANGED <<alive, inflight, calls, lastRet, lastResults>>

\* getResults' return value: numResultsFound == mEntityInfos.size(), where
\* numResultsFound counts the callbacks whose buildResult succeeded.
GetResultsRet(found, withCb) == Cardinality(found) = Cardinality(Entities)

\* getResults: every registered callback is asked for its stats (a dead
\* one, or one that does not answer within getStatsTimed's timeout, yields
\* no stats); the call succeeds when every entity got a complete result.
\* reply gives the stats each live callback returns.
GetResultsOf(reply) ==
  LET withCb == {e \in Entities : mCallbacks[e] # NoCallback}
      stats(e) == IF alive[mCallbacks[e]] THEN reply[e] ELSE <<>>
      found == {e \in withCb : BuildResult(e, stats(e)).complete}
  IN [ret |-> GetResultsRet(found, withCb), found |-> found]

GetResults ==
  \E reply \in [Entities -> Replies] :
    /\ lastResults' = GetResultsOf(reply).found
    /\ lastRet' = GetResultsOf(reply).ret
    /\ UNCHANGED <<mCallbacks, alive, links, obits, inflight, calls, regs>>

Next ==
  \/ \E c \in Clients : Send(c) \/ Die(c) \/ BinderDied(c)
  \/ \E q \in inflight : RegisterCallback(q) \/ UnregisterCallback(q)
  \/ GetResults

Spec == Init /\ [][Next]_vars

-----------------------------------------------------------------------------
(* Properties.                                                             *)

\* A client whose registerCallback returned ok, that is alive and is the
\* only live client registered for the entity, is the entity's callback.
RegisteredCallbackUsed ==
  \A e \in Entities : \A c \in regs[e] :
    (alive[c] /\ \A d \in regs[e] \ {c} : ~alive[d]) => mCallbacks[e] = c

=============================================================================
