---------------------------- MODULE DebugCapture ----------------------------
(***************************************************************************)
(* The debug events of evaluations: DebugManager (debug/debug.go), and the *)
(* sinks of contrib/debug it writes to, a RateLimitSink around a           *)
(* ChannelSink.  Every field is an atomic of its own: an event is captured *)
(* in steps, and so is a change of the mode.                               *)
(***************************************************************************)
EXTENDS Integers, Sequences, FiniteSets, FiniteSetsExt

CONSTANTS Evaluations,   \* each captures one event after the other
          LastSecond,    \* bound of the clock
          EventLimit,    \* RateLimitSink.limit
          BufferSize,    \* ChannelSink's buffer
          MaxEvents,     \* bounds the events
          MaxModes       \* bounds the calls of SetMode

ASSUME DebugAssumption ==
  /\ LastSecond \in Nat /\ EventLimit \in Nat \ {0} /\ BufferSize \in Nat \ {0}
  /\ MaxEvents \in Nat /\ MaxModes \in Nat
  /\ IsFiniteSet(Evaluations)

Seconds == 0 .. LastSecond
Modes == {"off", "all", "failures"}
Relations == {"in", "error"}        \* "error" stands for "dropped", too
NoDeadline == -1

VARIABLES
  second,     \* the wall clock
  mode, deadline,                 \* DebugManager
  curSec, curCnt,                 \* RateLimitSink
  buffered, sent, dropped,        \* ChannelSink
  setter,     \* the call of SetMode: the mode that was asked for last
  event,      \* event[e]: the event evaluation e captures, and how far it got
  tally       \* history: see DebugInit

debugVars == <<second, mode, deadline, curSec, curCnt, buffered, sent, dropped,
               setter, event, tally>>

DebugInitIn(modes) ==
  /\ second = 0
  /\ mode \in modes /\ deadline \in (IF mode = "all" THEN {NoDeadline, 0} ELSE {NoDeadline})
  /\ curSec = -1 /\ curCnt = 0
  /\ buffered = 0 /\ sent = 0 /\ dropped = 0
  /\ setter = [at |-> "done", mode |-> mode, until |-> deadline, n |-> 0]
  /\ event = [e \in Evaluations |-> [at |-> "done", now |-> 0]]
  /\ tally =
      [n |-> 0,                                \* events
       crossed |-> FALSE,                      \* the last SetMode met an expiry check
       offered |-> [s \in Seconds |-> 0],      \* to the limiter, by its clock
       passed |-> [s \in Seconds |-> 0],       \* by the limiter
       met |-> [s \in Seconds |-> FALSE],      \* two events met in the limiter
       through |-> 0,                          \* by the limiter, in all
       taken |-> 0]                            \* by the subscriber

At(places) == {e \in Evaluations : event[e].at \in places}
Proceed(e, place) == event' = [event EXCEPT ![e].at = place]

DebugInit == DebugInitIn(Modes)

sinkVars == <<curSec, curCnt, buffered, sent, dropped>>

-----------------------------------------------------------------------------
(* DebugManager. *)

\* The mode first, the deadline then.
SetMode ==
  /\ setter.at = "done" /\ setter.n < MaxModes
  /\ \E m \in Modes, until \in Seconds \cup {NoDeadline} :
       /\ m # "all" => until = NoDeadline
       /\ until # NoDeadline => until >= second
       /\ mode' = m
       /\ setter' = [at |-> "deadline", mode |-> m, until |-> until, n |-> setter.n + 1]
  /\ tally' = [tally EXCEPT !.crossed = At({"check", "disable"}) # {}]
  /\ UNCHANGED <<second, deadline, sinkVars, event>>

\* Mutation: a deadline is stored once and never replaced.
SetDeadlineOnce ==
  /\ setter.at = "deadline"
  /\ deadline' = IF setter.until = NoDeadline THEN deadline ELSE setter.until
  /\ setter' = [setter EXCEPT !.at = "done"]
  /\ tally' = [tally EXCEPT !.crossed = @ \/ At({"check", "disable"}) # {}]
  /\ UNCHANGED <<second, mode, sinkVars, event>>

SetDeadline ==
  /\ setter.at = "deadline"
  /\ deadline' = setter.until
  /\ setter' = [setter EXCEPT !.at = "done"]
  /\ tally' = [tally EXCEPT !.crossed = @ \/ At({"check", "disable"}) # {}]
  /\ UNCHANGED <<second, mode, sinkVars, event>>

\* Enabled(); the sink is never nil here.
BeginCapture(e) ==
  /\ event[e].at = "done" /\ tally.n < MaxEvents
  /\ Proceed(e, IF mode = "off" THEN "done" ELSE "mode")
  /\ tally' = [tally EXCEPT !.n = @ + 1]
  /\ UNCHANGED <<second, mode, deadline, sinkVars, setter>>

Filtered(m, r) == m = "off" \/ (m = "failures" /\ r # "error")

ReadMode(e) ==
  /\ event[e].at = "mode"
  /\ \E r \in Relations :
       Proceed(e, CASE mode = "all" -> "check"
                    [] Filtered(mode, r) -> "done"
                    [] OTHER -> "clock")
  /\ tally' = [tally EXCEPT !.crossed = @ \/ (mode = "all" /\ setter.at = "deadline")]
  /\ UNCHANGED <<second, mode, deadline, sinkVars, setter>>

\* isDeadlineExpired
CheckDeadline(e) ==
  /\ event[e].at = "check"
  /\ Proceed(e, IF deadline # NoDeadline /\ second > deadline THEN "disable" ELSE "clock")
  /\ UNCHANGED <<second, mode, deadline, sinkVars, setter, tally>>

\* Whatever the mode has become meanwhile.
Disable(e) ==
  /\ event[e].at = "disable"
  /\ mode' = "off"
  /\ Proceed(e, "done")
  /\ UNCHANGED <<second, deadline, sinkVars, setter, tally>>

-----------------------------------------------------------------------------
(* RateLimitSink. *)

Limiting == {"compare", "store", "reset", "count"}

\* Another event is in the limiter.
Meets(e) == At(Limiting) \ {e} # {}

ReadClock(e) ==
  /\ event[e].at = "clock"
  /\ event' = [event EXCEPT ![e].at = "compare", ![e].now = second]
  /\ tally' = [tally EXCEPT !.offered[second] = @ + 1,
                            !.met = [s \in Seconds |->
                                       \/ @[s]
                                       \/ Meets(e) /\ s \in {second}
                                                        \cup {event[o].now : o \in At(Limiting)}]]
  /\ UNCHANGED <<second, mode, deadline, sinkVars, setter>>

LoadSecond(e) ==
  /\ event[e].at = "compare"
  /\ Proceed(e, IF curSec # event[e].now THEN "store" ELSE "count")
  /\ UNCHANGED <<second, mode, deadline, sinkVars, setter, tally>>

StoreSecond(e) ==
  /\ event[e].at = "store"
  /\ curSec' = event[e].now
  /\ Proceed(e, "reset")
  /\ UNCHANGED <<second, mode, deadline, curCnt, buffered, sent, dropped, setter, tally>>

ResetCount(e) ==
  /\ event[e].at = "reset"
  /\ curCnt' = 0
  /\ Proceed(e, "count")
  /\ UNCHANGED <<second, mode, deadline, curSec, buffered, sent, dropped, setter, tally>>

\* Mutation: the last event within the limit is lost.
OverLimitByOne(n) == n >= EventLimit

OverLimit(n) == n > EventLimit

CountEvent(e) ==
  /\ event[e].at = "count"
  /\ curCnt' = curCnt + 1
  /\ Proceed(e, IF OverLimit(curCnt + 1) THEN "done" ELSE "send")
  /\ tally' = IF OverLimit(curCnt + 1) THEN tally
              ELSE [tally EXCEPT !.passed[event[e].now] = @ + 1, !.through = @ + 1]
  /\ UNCHANGED <<second, mode, deadline, curSec, buffered, sent, dropped, setter>>

-----------------------------------------------------------------------------
(* ChannelSink: it never blocks; what does not fit is dropped. *)

Send(e) ==
  /\ event[e].at = "send"
  /\ IF buffered < BufferSize
     THEN buffered' = buffered + 1 /\ Proceed(e, "sent") /\ UNCHANGED dropped
     ELSE dropped' = dropped + 1 /\ Proceed(e, "done") /\ UNCHANGED buffered
  /\ UNCHANGED <<second, mode, deadline, curSec, curCnt, sent, setter, tally>>

CountSent(e) ==
  /\ event[e].at = "sent"
  /\ sent' = sent + 1
  /\ Proceed(e, "done")
  /\ UNCHANGED <<second, mode, deadline, curSec, curCnt, buffered, dropped, setter, tally>>

\* The subscriber.
TakeEvent ==
  /\ buffered > 0
  /\ buffered' = buffered - 1
  /\ tally' = [tally EXCEPT !.taken = @ + 1]
  /\ UNCHANGED <<second, mode, deadline, curSec, curCnt, sent, dropped, setter, event>>

NextSecond ==
  /\ second < LastSecond
  /\ second' = second + 1
  /\ UNCHANGED <<mode, deadline, sinkVars, setter, event, tally>>

CaptureStep(e) ==
  \/ BeginCapture(e) \/ ReadMode(e) \/ CheckDeadline(e) \/ Disable(e)
  \/ ReadClock(e) \/ LoadSecond(e) \/ StoreSecond(e) \/ ResetCount(e)
  \/ CountEvent(e) \/ Send(e) \/ CountSent(e)

DebugNext ==
  \/ SetMode \/ SetDeadline \/ TakeEvent \/ NextSecond
  \/ \E e \in Evaluations : CaptureStep(e)

DebugSpec == DebugInit /\ [][DebugNext]_debugVars

-----------------------------------------------------------------------------
(* Properties. *)

\* The mode is the one SetMode was asked for last.  It is off instead when the
\* deadline passed, or when an event was between reading the mode and acting on
\* its deadline while SetMode ran: disable() overwrites the new mode, or the new
\* mode meets the old deadline.
ModeIsAsked ==
  mode # setter.mode =>
    /\ mode = "off"
    /\ \/ tally.crossed
       \/ setter.mode = "all" /\ setter.until # NoDeadline /\ second > setter.until

\* In a second whose events never met in the limiter exactly the first EventLimit
\* of them pass: none is lost to a count of an earlier second, none passes above.
LimitIsExact ==
  \A s \in Seconds :
    ~tally.met[s] /\ (\A e \in At(Limiting) : event[e].now # s) =>
      tally.passed[s] = Min({tally.offered[s], EventLimit})

\* Every event that passed the limiter is dropped, or goes through the channel
\* once; Stats() is behind by the events that are not counted yet.
EventsAddUp ==
  /\ sent + Cardinality(At({"sent"})) = buffered + tally.taken
  /\ tally.through = sent + dropped + Cardinality(At({"send", "sent"}))
  /\ buffered <= BufferSize

CapturesAddUp == LimitIsExact /\ EventsAddUp

=============================================================================
