----------------------------- MODULE HintManager ----------------------------
(***************************************************************************)
(* HintManager of libperfmgr (src/power-libperfmgr/libperfmgr/HintManager *)
(* .cc): DoHint, DoHint with a timeout override and EndHint, called by     *)
(* HAL threads, composed with the node scheduler of NodeLooper.            *)
(*                                                                         *)
(* A call is a frame on its caller's stack; each step of a frame is one    *)
(* atomic piece of the C++ function: the unlocked read of `enabled', the   *)
(* scheduler call (under the scheduler lock), the status update (under     *)
(* the hint's status mutex) and the meta-actions, one per step.  A         *)
(* DoHint or EndHint meta-action pushes a nested frame, as the recursive   *)
(* C++ call does.                                                          *)
(***************************************************************************)
EXTENDS NodeLooper

CONSTANTS
  Callers,          \* HAL threads calling into HintManager
  HintNodeActions,  \* [Owners -> SUBSET NodeAction]: a hint's node_actions
  HintActions,      \* [Owners -> Seq of [type, value]]: its hint_actions
  NoSuchHint,       \* a hint name absent from actions_
  Overrides,        \* timeouts passed to DoHint(hint, timeout_ms_override)
  MaxCalls          \* bound on the calls the HAL threads make

HintName == Owners \cup {NoSuchHint}
HintActionType == {"DoHint", "EndHint", "MaskHint"}

ASSUME /\ NoSuchHint \notin Owners
       /\ HintNodeActions \in [Owners -> SUBSET NodeAction]
       \* ParseActions rejects two actions of one hint on the same node
       /\ \A h \in Owners : \A a, b \in HintNodeActions[h] :
             a.node = b.node => a = b
       /\ HintActions \in [Owners -> Seq([type : HintActionType,
                                          value : HintName])]
       /\ Overrides \subseteq 0 .. MaxTimeout
       /\ MaxCalls \in Nat

(* time_point::min() and time_point::max() of HintStatus.                  *)
TimeMin == -1
TimeMax == Forever

NoOverride == -1

Frame == [op : {"do", "end"}, hint : HintName, tmo : Overrides \cup {NoOverride},
          pc : {"validate", "request", "cancel", "status", "actions"},
          idx : Nat]

VARIABLES
  enabled,    \* [Owners -> BOOLEAN]: Hint::enabled
  count,      \* [Owners -> Nat]: status->stats.count
  duration,   \* [Owners -> Nat]: status->stats.duration_ms
  startTime,  \* [Owners -> time]: status->start_time
  endTime,    \* [Owners -> time]: status->end_time
  stack,      \* [Callers -> Seq(Frame)]: the calls in progress per thread
  calls,      \* number of top-level calls made so far
  lastSched   \* [Owners -> {"none","do","end"}]: ghost, the last scheduler
              \* call made on behalf of the hint (Request or Cancel)

hintVars == <<enabled, count, duration, startTime, endTime, stack, calls,
              lastSched>>
vars == <<looperVars, hintVars>>

Time == TimeMin .. TimeMax

TypeOK ==
  /\ LooperTypeOK
  /\ enabled \in [Owners -> BOOLEAN]
  /\ count \in [Owners -> Nat]
  /\ duration \in [Owners -> Nat]
  /\ startTime \in [Owners -> Time]
  /\ endTime \in [Owners -> Time]
  /\ stack \in [Callers -> Seq(Frame)]
  /\ calls \in 0 .. MaxCalls
  /\ lastSched \in [Owners -> {"none", "do", "end"}]

-----------------------------------------------------------------------------
(* Configuration-derived values.                                           *)

\* InitHintStatus: a hint's max_timeout is 0 ("forever") if one of its node
\* actions has timeout 0 or it has none, else the largest timeout.
MaxTimeoutOf(h) ==
  LET ts == {a.timeout : a \in HintNodeActions[h]}
  IN IF ts = {} \/ 0 \in ts THEN 0 ELSE Max(ts)

\* The node actions a DoHint call requests: the override replaces every
\* timeout (copy of node_actions in DoHint(hint, timeout_ms_override)).
ActsOf(h, tmo) ==
  IF tmo = NoOverride THEN HintNodeActions[h]
  ELSE {[a EXCEPT !.timeout = tmo] : a \in HintNodeActions[h]}

\* The timeout DoHintStatus is given.
StatusTimeout(h, tmo) == IF tmo = NoOverride THEN MaxTimeoutOf(h) ELSE tmo

Maskers(x) ==
  {m \in Owners : \E i \in DOMAIN HintActions[m] :
                     HintActions[m][i] = [type |-> "MaskHint", value |-> x]}

-----------------------------------------------------------------------------
(* The call stack of a thread.                                             *)

Cur(c) == stack[c][Len(stack[c])]
Idle(c) == stack[c] = <<>>
NewFrame(op, h, tmo) ==
  [op |-> op, hint |-> h, tmo |-> tmo,
   pc |-> IF op = "do" THEN "validate" ELSE "cancel", idx |-> 1]

At(c, op, pc) == ~Idle(c) /\ Cur(c).op = op /\ Cur(c).pc = pc
Goto(c, pc) == stack' = [stack EXCEPT ![c][Len(stack[c])].pc = pc]
Return(c) == stack' = [stack EXCEPT ![c] = Front(stack[c])]

-----------------------------------------------------------------------------
(* A HAL thread makes a top-level call.                                    *)

Invoke(c) ==
  /\ Idle(c)
  /\ calls < MaxCalls
  /\ \E h \in HintName :
       \/ stack' = [stack EXCEPT ![c] = <<NewFrame("do", h, NoOverride)>>]
       \/ \E t \in Overrides :
            stack' = [stack EXCEPT ![c] = <<NewFrame("do", h, t)>>]
       \/ stack' = [stack EXCEPT ![c] = <<NewFrame("end", h, NoOverride)>>]
  /\ calls' = calls + 1
  /\ UNCHANGED <<looperVars, enabled, count, duration, startTime, endTime,
                 lastSched>>

-----------------------------------------------------------------------------
(* DoHint(hint_type) and DoHint(hint_type, timeout_ms_override).           *)

\* ValidateHint / IsHintEnabled fail: unknown or masked hint, return false.
DoRejected(c) ==
  /\ At(c, "do", "validate")
  /\ LET h == Cur(c).hint IN ~(h \in Owners /\ enabled[h])
  /\ Return(c)
  /\ UNCHANGED <<looperVars, enabled, count, duration, startTime, endTime,
                 calls, lastSched>>

\* The unlocked read of `enabled' succeeds; the Request comes later.
DoValidated(c) ==
  /\ At(c, "do", "validate")
  /\ LET h == Cur(c).hint IN h \in Owners /\ enabled[h]
  /\ Goto(c, "request")
  /\ UNCHANGED <<looperVars, enabled, count, duration, startTime, endTime,
                 calls, lastSched>>

\* nm_->Request(node_actions, hint_type); on false DoHint returns false.
DoRequest(c) ==
  /\ At(c, "do", "request")
  /\ LET h == Cur(c).hint IN
     \E ok \in BOOLEAN :
       /\ RequestNodes(ActsOf(h, Cur(c).tmo), h, ok)
       /\ lastSched' = IF running THEN [lastSched EXCEPT ![h] = "do"]
                                  ELSE lastSched
       /\ IF ok THEN Goto(c, "status") ELSE Return(c)
  /\ UNCHANGED <<now, running, enabled, count, duration, startTime, endTime,
                 calls>>

\* HintManager::DoHintStatus, under the hint's status mutex: a window that
\* has ended is folded into duration_ms and a new one starts now.
DoHintStatus(h, timeout) ==
  /\ count' = [count EXCEPT ![h] = @ + 1]
  /\ IF now > endTime[h]
     THEN /\ duration' = [duration EXCEPT ![h] = @ + (endTime[h] - startTime[h])]
          /\ startTime' = [startTime EXCEPT ![h] = now]
     ELSE UNCHANGED <<duration, startTime>>
  /\ endTime' = [endTime EXCEPT ![h] = IF timeout = 0 THEN TimeMax
                                                    ELSE now + timeout]

DoStatus(c) ==
  /\ At(c, "do", "status")
  /\ DoHintStatus(Cur(c).hint, StatusTimeout(Cur(c).hint, Cur(c).tmo))
  /\ Goto(c, "actions")
  /\ UNCHANGED <<looperVars, enabled, calls, lastSched>>

\* HintManager::DoHintAction, one hint action per step.  DoHint and EndHint
\* call the public functions recursively (no cycle check: see the TODO).
DoHintAction(c) ==
  /\ At(c, "do", "actions")
  /\ LET f == Cur(c)
         act == HintActions[f.hint][f.idx]
         next == [stack EXCEPT ![c][Len(stack[c])].idx = f.idx + 1]
     IN /\ f.idx <= Len(HintActions[f.hint])
        /\ \/ /\ act.type = "DoHint"
              /\ stack' = [next EXCEPT ![c] =
                             Append(@, NewFrame("do", act.value, NoOverride))]
              /\ UNCHANGED enabled
           \/ /\ act.type = "EndHint"
              /\ stack' = [next EXCEPT ![c] =
                             Append(@, NewFrame("end", act.value, NoOverride))]
              /\ UNCHANGED enabled
           \/ /\ act.type = "MaskHint"
              /\ stack' = next
              /\ enabled' = IF act.value \in Owners
                            THEN [enabled EXCEPT ![act.value] = FALSE]
                            ELSE enabled
  /\ UNCHANGED <<looperVars, count, duration, startTime, endTime, calls,
                 lastSched>>

\* All hint actions done: DoHint returns true.
DoReturn(c) ==
  /\ At(c, "do", "actions")
  /\ Cur(c).idx > Len(HintActions[Cur(c).hint])
  /\ Return(c)
  /\ UNCHANGED <<looperVars, enabled, count, duration, startTime, endTime,
                 calls, lastSched>>

-----------------------------------------------------------------------------
(* EndHint(hint_type).                                                     *)

EndRejected(c) ==
  /\ At(c, "end", "cancel")
  /\ Cur(c).hint \notin Owners
  /\ Return(c)
  /\ UNCHANGED <<looperVars, enabled, count, duration, startTime, endTime,
                 calls, lastSched>>

\* nm_->Cancel(node_actions, hint_type); on false EndHint returns false.
EndCancel(c) ==
  /\ At(c, "end", "cancel")
  /\ LET h == Cur(c).hint IN
     /\ h \in Owners
     /\ \E ok \in BOOLEAN :
          /\ CancelNodes(HintNodeActions[h], h, ok)
          /\ lastSched' = [lastSched EXCEPT ![h] = "end"]
          /\ IF ok THEN Goto(c, "status") ELSE Return(c)
  /\ UNCHANGED <<now, running, enabled, count, duration, startTime, endTime,
                 calls>>

\* HintManager::EndHintStatus: a hint ended before its end_time has the
\* elapsed part of its window folded in and its window closed now.
EndHintStatus(h) ==
  IF now < endTime[h]
  THEN /\ duration' = [duration EXCEPT ![h] = @ + (now - startTime[h])]
       /\ endTime' = [endTime EXCEPT ![h] = now]
  ELSE UNCHANGED <<duration, endTime>>

EndStatus(c) ==
  /\ At(c, "end", "status")
  /\ EndHintStatus(Cur(c).hint)
  /\ Goto(c, "actions")
  /\ UNCHANGED <<looperVars, enabled, count, startTime, calls, lastSched>>

\* HintManager::EndHintAction: every MaskHint target that exists is enabled
\* again; EndHint then returns true.
\* Fault: the masked hints are never enabled again.
EndHintActionNoUnmask(h) == UNCHANGED enabled

EndHintAction(h) ==
  enabled' = [x \in Owners |->
                IF \E i \in DOMAIN HintActions[h] :
                     HintActions[h][i] = [type |-> "MaskHint", value |-> x]
                THEN TRUE ELSE enabled[x]]

EndAction(c) ==
  /\ At(c, "end", "actions")
  /\ EndHintAction(Cur(c).hint)
  /\ Return(c)
  /\ UNCHANGED <<looperVars, count, duration, startTime, endTime, calls,
                 lastSched>>

-----------------------------------------------------------------------------
(* The specification.                                                      *)

Init ==
  /\ LooperInit
  /\ enabled = [h \in Owners |-> TRUE]
  /\ count = [h \in Owners |-> 0]
  /\ duration = [h \in Owners |-> 0]
  /\ startTime = [h \in Owners |-> TimeMin]
  /\ endTime = [h \in Owners |-> TimeMin]
  /\ stack = [c \in Callers |-> <<>>]
  /\ calls = 0
  /\ lastSched = [h \in Owners |-> "none"]

Quiescent == \A c \in Callers : Idle(c)

\* The bounds are used up and every call has returned: the model stops here.
Done ==
  /\ now = MaxTime /\ calls = MaxCalls /\ Quiescent
  /\ UNCHANGED vars

LooperStep ==
  /\ \/ Start \/ Expire \/ Tick
  /\ UNCHANGED hintVars

CallerStep(c) ==
  \/ DoRejected(c) \/ DoValidated(c) \/ DoRequest(c) \/ DoStatus(c)
  \/ DoHintAction(c) \/ DoReturn(c)
  \/ EndRejected(c) \/ EndCancel(c) \/ EndStatus(c) \/ EndAction(c)

Next ==
  \/ LooperStep
  \/ \E c \in Callers : Invoke(c) \/ CallerStep(c)
  \/ Done

\* The looper thread sleeps until the earliest expiry and then runs: it is
\* weakly fair.  Nothing forces a HAL thread to call, and no property here
\* needs the clock or a caller to make progress.
Fairness == WF_vars(Expire /\ UNCHANGED hintVars)

Spec == Init /\ [][Next]_vars /\ Fairness

-----------------------------------------------------------------------------
(* Properties of the hint dispatch.                                        *)

\* MaskHint: once every call has returned, a hint is masked exactly when
\* one of the hints that mask it was last done (Request) and not ended
\* (Cancel) since: DoHintAction masks, EndHintAction unmasks.
MaskReflectsMaskers ==
  Quiescent =>
    \A x \in Owners :
      ~enabled[x] <=> \E m \in Maskers(x) : lastSched[m] = "do"

\* The stats window of a hint (end_time set by DoHintStatus, closed by
\* EndHintStatus) covers every request the hint has pending on a node:
\* duration_ms counts the time the hint's requests are in force.
StatusCoversPending ==
  Quiescent =>
    \A n \in Nodes : \A i \in DOMAIN pending[n] :
      pending[n][i].expiry > now => endTime[pending[n][i].owner] >= pending[n][i].expiry

\* Hint windows never overlap, so a hint's duration_ms never exceeds the
\* time elapsed since start.
DurationWithinElapsed == \A h \in Owners : duration[h] <= now

=============================================================================
