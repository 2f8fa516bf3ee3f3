----------------------------- MODULE NodeLooper -----------------------------
(***************************************************************************)
(* The node scheduler of libperfmgr (NodeLooperThread with its Nodes).     *)
(* Its source is not part of this repository, so every definition here is *)
(* modelled from spec.md section 4.2 (and 4.1 for a node write).           *)
(*                                                                         *)
(* Each node keeps the pending requests of the hints that target it, in    *)
(* insertion order.  The winning request is the one with the furthest      *)
(* expiry, a request without timeout (timeout 0) outranking every finite   *)
(* one, ties going to the most recently inserted.  Request and Cancel run  *)
(* on the caller's thread under the scheduler lock and actuate the node    *)
(* synchronously; the looper thread removes expired requests.              *)
(***************************************************************************)
EXTENDS Integers, Sequences, SequencesExt

CONSTANTS
  Nodes,        \* the tunables (model values)
  Owners,       \* the hint names that may own a request
  NumValues,    \* every node has the value indices 0..NumValues-1
  Default,      \* [Nodes -> value index]: the node's DefaultIndex
  MaxTime,      \* bound of the discrete clock
  MaxTimeout,   \* largest timeout (ms, in clock ticks) of any node action
  WriteCanFail  \* whether a sysfs/property write may fail

ValueIdx == 0 .. NumValues - 1

ASSUME /\ Default \in [Nodes -> ValueIdx]
       /\ MaxTime \in Nat /\ MaxTimeout \in Nat
       /\ WriteCanFail \in BOOLEAN

(* steady_clock::time_point::max(): later than every reachable expiry.     *)
Forever == MaxTime + MaxTimeout + 1
Expiry == 0 .. Forever

VARIABLES
  now,      \* steady_clock, in ticks
  pending,  \* [Nodes -> Seq of [owner, value, expiry]], insertion order
  cur,      \* [Nodes -> value index]: the index last written to the node
  running   \* the looper thread has been started

looperVars == <<now, pending, cur, running>>

Request == [owner : Owners, value : ValueIdx, expiry : Expiry]
NodeAction == [node : Nodes, value : ValueIdx, timeout : 0 .. MaxTimeout]

LooperTypeOK ==
  /\ now \in 0 .. MaxTime
  /\ pending \in [Nodes -> Seq(Request)]
  /\ \A n \in Nodes : \A i, j \in DOMAIN pending[n] :
        i # j => pending[n][i].owner # pending[n][j].owner
  /\ cur \in [Nodes -> ValueIdx]
  /\ running \in BOOLEAN

-----------------------------------------------------------------------------
(* Arbitration.                                                            *)

\* A timeout of 0 means "until cancelled", never "for 0 ms".
ExpiryOf(timeout) == IF timeout = 0 THEN Forever ELSE now + timeout

Holds(q, h) == \E i \in DOMAIN q : q[i].owner = h
Without(q, h) == SelectSeq(q, LAMBDA r : r.owner # h)
OldExpiry(q, h) ==
  IF Holds(q, h) THEN q[SelectInSeq(q, LAMBDA r : r.owner = h)].expiry ELSE 0

\* Fault: the new request is appended beside the owner's old one.
InsertNoReplace(q, h, v, e) ==
  Append(q, [owner |-> h, value |-> v, expiry |-> e])

\* Re-requesting replaces the owner's request but never shortens its expiry.
Insert(q, h, v, e) ==
  Append(Without(q, h), [owner |-> h, value |-> v,
                         expiry |-> Max({e, OldExpiry(q, h)})])

Top(q) == Max({q[i].expiry : i \in DOMAIN q})
Winner(q) == q[SelectLastInSeq(q, LAMBDA r : r.expiry = Top(q))]

\* The value a node should hold: the winner's, or DefaultIndex if none.
Target(q, n) == IF q = <<>> THEN Default[n] ELSE Winner(q).value

-----------------------------------------------------------------------------
(* Actuation: nodes whose target differs from the index they hold are     *)
(* written; a failed write leaves the node and its index as they were and *)
(* makes the call fail.                                                    *)

Changed(np, N) == {n \in N : Target(np[n], n) # cur[n]}
WriteOutcomes(N) ==
  IF WriteCanFail THEN [N -> BOOLEAN] ELSE {[n \in N |-> TRUE]}
Actuate(np, ok) ==
  [n \in Nodes |-> IF n \in DOMAIN ok /\ ok[n] THEN Target(np[n], n)
                                               ELSE cur[n]]
AllOk(ok) == \A n \in DOMAIN ok : ok[n]

NodesOf(acts) == {a.node : a \in acts}

\* NodeLooperThread::Request(actions, hint): result is its return value.
RequestNodes(acts, h, result) ==
  \/ /\ ~running
     /\ result = FALSE
     /\ UNCHANGED <<pending, cur>>
  \/ /\ running
     /\ LET np == [n \in Nodes |->
                     IF n \in NodesOf(acts)
                     THEN LET a == CHOOSE x \in acts : x.node = n
                          IN Insert(pending[n], h, a.value, ExpiryOf(a.timeout))
                     ELSE pending[n]]
        IN \E ok \in WriteOutcomes(Changed(np, NodesOf(acts))) :
             /\ pending' = np
             /\ cur' = Actuate(np, ok)
             /\ result = AllOk(ok)

\* NodeLooperThread::Cancel(actions, hint).
CancelNodes(acts, h, result) ==
  LET np == [n \in Nodes |->
               IF n \in NodesOf(acts) THEN Without(pending[n], h) ELSE pending[n]]
  IN \E ok \in WriteOutcomes(Changed(np, NodesOf(acts))) :
       /\ pending' = np
       /\ cur' = Actuate(np, ok)
       /\ result = AllOk(ok)

-----------------------------------------------------------------------------
(* Steps of the looper thread and of the clock.                            *)

\* NodeLooperThread::Start.  A node's index starts at DefaultIndex (the dump
\* shows it before any write), so the ResetOnInit writes change no index.
Start ==
  /\ ~running
  /\ running' = TRUE
  /\ UNCHANGED <<now, pending, cur>>

IsExpired(r) == r.expiry <= now
HasExpired(n) == \E i \in DOMAIN pending[n] : IsExpired(pending[n][i])

\* The looper wakes at the earliest expiry, drops every expired request
\* and actuates the nodes whose winner changed.
Expire ==
  /\ running
  /\ \E n \in Nodes : HasExpired(n)
  /\ LET np == [n \in Nodes |-> SelectSeq(pending[n], LAMBDA r : ~IsExpired(r))]
         due == {n \in Nodes : HasExpired(n)}
     IN \E ok \in WriteOutcomes(Changed(np, due)) :
          /\ pending' = np
          /\ cur' = Actuate(np, ok)
  /\ UNCHANGED <<now, running>>

Tick ==
  /\ now < MaxTime
  /\ now' = now + 1
  /\ UNCHANGED <<pending, cur, running>>

LooperInit ==
  /\ now = 0
  /\ pending = [n \in Nodes |-> <<>>]
  /\ cur = Default
  /\ running = FALSE

=============================================================================
