------------------------ MODULE SurroundingsProofs --------------------------
(***************************************************************************)
(* Theorems about the nodes in Surroundings: the actions with effects      *)
(* outside of their evaluation (FlowNodes), the nodes that read and write  *)
(* a data point (PointNodes) and those that keep something between calls   *)
(* (StatefulNodes).  Each is first one of the specification of its part.   *)
(* The parts share no state: the last section shows that what the whole    *)
(* does is a behaviour of each part, and carries the theorems over to      *)
(* Surroundings.                                                           *)
(***************************************************************************)
EXTENDS Surroundings, FiniteSetTheorems, WellFoundedInduction, TLAPS

-----------------------------------------------------------------------------
(***************************************************************************)
(* The actions with effects outside of their evaluation, for any points,   *)
(* contexts and numbers of retries.                                        *)
(*                                                                         *)
(* Every evaluation under way has a context of its own (OwnContext), so a  *)
(* step of one leaves the data of the others alone.                        *)
(*                                                                         *)
(* Generator and price: what the memory says is not older than any message *)
(* or price noted (GeneratorInv, PriceInv), whose times only grow, and     *)
(* what an evaluation has seen of the cache no older than what was stored  *)
(* before it looked.                                                       *)
(*                                                                         *)
(* Commands: while an action retries, it has sent one command for each of  *)
(* its tries, none of them with success (Trying); afterwards it has sent   *)
(* no more than Retries, of which only the last succeeded (Kept).          *)
(*                                                                         *)
(* Effects: a context is handed on to work that is done later only by the  *)
(* asynchronous sub-chain, which drops the data of the point it is for     *)
(* (EffectsInv).                                                           *)
(***************************************************************************)

Stops == Flows \cup {"new", "finish", "over", "check", "answer", "store", "pause", "dispatch2",
                     "pause2"}
Targets == {"", "d1", "d2", "d3"}

Memories == [price : Int, until : Nat, stored : Nat, lastRun : Int]
Progress == [at : Stops, ctx : Contexts \cup {NoPoint}, tries : Nat, sent : Nat, entry : Memories]
Contents == [point : Points \cup {NoPoint}, dropped : BOOLEAN, target : Targets]
Works == [ctx : Contexts \cup {NoPoint}, for : Points]

Tagged == [what : {"tagged"}, p : Points]
Made == [what : {"made"}, ts : Stamps]
LookedUp == [what : {"looked"}, p : Points]
Hit == [what : {"hit"}, price : Int, stored : Nat, at : Nat]
Asked == [what : {"asked"}, p : Points, at : Nat]
Stored == [what : {"stored"}, p : Points, price : Nat, at : Nat]
SentTo == [what : {"sent"}, p : Points, by : {1, 2}, to : Targets,
           executed : BOOLEAN, ok : BOOLEAN]
DroppedBy == [what : {"dropped"}, p : Points \cup {NoPoint}, by : Points]
Noted == Tagged \cup Made \cup LookedUp \cup Hit \cup Asked \cup Stored \cup SentTo \cup DroppedBy

FlowTypes ==
  /\ flow \in Flows /\ tick \in Nat
  /\ eval \in [Points -> Progress] /\ holds \in [Contexts -> Contents]
  /\ memory \in Memories /\ later \subseteq Works
  /\ done \in Seq(Noted)

\* An evaluation under way has a context of its own.
OwnContext ==
  \A p \in Points : eval[p].at \notin {"new", "over"} =>
    eval[p].ctx \in Contexts /\ holds[eval[p].ctx].point = p

FlowBase == FlowTypes /\ OwnContext

-----------------------------------------------------------------------------
LEMMA Moved ==
  ASSUME FlowTypes, NEW p \in Points, NEW place \in Stops, Move(p, place)
  PROVE  /\ eval' \in [Points -> Progress]
         /\ \A q \in Points : /\ eval'[q].at = IF q = p THEN place ELSE eval[q].at
                              /\ eval'[q].ctx = eval[q].ctx
                              /\ eval'[q].tries = eval[q].tries
                              /\ eval'[q].sent = eval[q].sent
                              /\ eval'[q].entry = eval[q].entry
<1>1. eval[p] \in Progress
  BY DEF FlowTypes
<1>2. [eval[p] EXCEPT !.at = place] \in Progress
  BY <1>1 DEF Progress
<1>3. eval' = [eval EXCEPT ![p] = [eval[p] EXCEPT !.at = place]]
  BY DEF Move
<1> QED
  BY <1>1, <1>2, <1>3 DEF FlowTypes, Progress

\* The context of the point that moved on.
LEMMA ContextKept ==
  ASSUME FlowBase, NEW p \in Points, NEW place \in Stops, Move(p, place),
         eval[p].at \notin {"new", "over"}, holds' = holds
  PROVE  OwnContext'
  BY Moved DEF FlowBase, OwnContext

LEMMA NotesGrow ==
  ASSUME done \in Seq(Noted), NEW n \in Noted, done' = Append(done, n)
  PROVE  /\ done' \in Seq(Noted) /\ DOMAIN done' = DOMAIN done \cup {Len(done) + 1}
         /\ \A i \in DOMAIN done : done'[i] = done[i] /\ i < Len(done) + 1 /\ i \in Nat
         /\ done'[Len(done) + 1] = n
         /\ Len(done) \in Nat
  OBVIOUS

\* What is noted in a step.
NoteOf(n) == n \in Noted /\ done' = Append(done, n)

\* A place to go to and something to note: what a step may do to the history.
LEMMA FlowTypesKept ==
  ASSUME FlowTypes, flow' = flow, tick' \in Nat, eval' \in [Points -> Progress],
         holds' \in [Contexts -> Contents], memory' \in Memories, later' \subseteq Works,
         done' = done \/ \E n : NoteOf(n)
  PROVE  FlowTypes'
  BY NotesGrow DEF FlowTypes, NoteOf

LEMMA PastIsProgress ==
  ASSUME NEW p \in Points, eval[p] \in Progress
  PROVE  /\ PastAction(p) \in Progress
         /\ PastAction(p).at \in {"dispatch2", "finish"} /\ PastAction(p).ctx = eval[p].ctx
         /\ PastAction(p).tries = 0
         /\ PastAction(p).at = "dispatch2" => ActionOf(p) = 1
<1> DEFINE place == IF ActionOf(p) = 1 THEN "dispatch2" ELSE "finish"
<1>1. place \in Stops /\ place \in {"dispatch2", "finish"} /\ (place = "dispatch2" => ActionOf(p) = 1)
  BY DEF Stops
<1>2. PastAction(p) = [eval[p] EXCEPT !.at = place, !.tries = 0]
  BY DEF PastAction
<1> HIDE DEF place
<1>3. PastAction(p) = [at |-> place, ctx |-> eval[p].ctx, tries |-> 0,
                       sent |-> eval[p].sent, entry |-> eval[p].entry]
  BY <1>2 DEF Progress
<1> QED
  BY <1>1, <1>3 DEF Progress

\* Whatever the unit, the generator reads the timestamps in their order.
LEMMA ReadInOrder ==
  ASSUME NEW s \in Stamps, NEW t \in Stamps
  PROVE  /\ ReadTime(s) \in Nat /\ ReadTime(t) \in Nat
         /\ s \in Nat /\ t \in Nat /\ (ReadTime(s) < ReadTime(t) => s < t)
         /\ flow # "mapgenerator" => ReadTime(s) = s
<1>1. s \in Nat /\ t \in Nat /\ Skew \in Nat \ {0}
  BY FlowAssumption, SkewAssumption DEF Stamps
<1>2. s * Skew \in Nat /\ t * Skew \in Nat /\ (s * Skew < t * Skew => s < t)
  BY <1>1, SMTT(30)
<1> QED
  BY <1>1, <1>2 DEF ReadTime, UnixMilli

\* What an evaluation notes of the entry it saw.
AskedNote(p) == [what |-> "asked", p |-> p, at |-> tick]
HitNote(entry) ==
  [what |-> "hit", price |-> entry.price, stored |-> entry.stored, at |-> tick]

LEMMA AnswersNoted ==
  ASSUME FlowTypes, NEW p \in Points
  PROVE  AskedNote(p) \in Noted /\ HitNote(eval[p].entry) \in Noted
<1>1. eval[p].entry \in Memories /\ tick \in Nat
  BY DEF FlowTypes, Progress
<1>2. eval[p].entry.price \in Int /\ eval[p].entry.stored \in Nat
  BY <1>1 DEF Memories
<1>3. AskedNote(p) \in Asked
  BY <1>1 DEF AskedNote, Asked
<1>4. HitNote(eval[p].entry) \in Hit
  BY <1>1, <1>2 DEF HitNote, Hit
<1> QED
  BY <1>3, <1>4, Zenon DEF Noted

LEMMA NothingSeen == Nothing \in Memories
  BY DEF Nothing, Memories

LEMMA FlowBaseStep ==
  ASSUME FlowBase, FlowNext
  PROVE  FlowBase'
<1> USE FlowAssumption DEF FlowBase
<1>a. ASSUME TimePasses PROVE FlowBase'
  BY <1>a DEF TimePasses, FlowTypes, OwnContext
<1>b. ASSUME NEW p \in Points, BeginPoint(p) PROVE FlowBase'
  <2> PICK c \in Contexts, t \in (IF flow = "dispatch" THEN {"", "d3"} ELSE {""}) :
       /\ holds[c].point = NoPoint
       /\ holds' = [holds EXCEPT ![c] = [point |-> p, dropped |-> FALSE, target |-> t]]
       /\ eval' = [eval EXCEPT ![p] = [Idle EXCEPT !.at = flow, !.ctx = c]]
       /\ done' = IF t = "" THEN done ELSE Append(done, [what |-> "tagged", p |-> p])
    BY <1>b DEF BeginPoint
  <2> DEFINE begun == [Idle EXCEPT !.at = flow, !.ctx = c]
  <2>0. Idle \in Progress /\ flow \in Stops
    <3>1. Nothing \in Memories
      BY NothingSeen
    <3>2. "new" \in Stops /\ flow \in Stops
      BY DEF FlowTypes, Stops
    <3> QED BY <3>1, <3>2 DEF Idle, Progress
  <2>1. begun \in Progress /\ begun.ctx = c /\ eval' = [eval EXCEPT ![p] = begun]
    BY <2>0 DEF Progress
  <2> HIDE DEF begun
  <2>2. [point |-> p, dropped |-> FALSE, target |-> t] \in Contents
    BY DEF Contents, Targets
  <2>3. [what |-> "tagged", p |-> p] \in Noted
    BY DEF Noted, Tagged
  <2>4. FlowTypes'
    <3>1. eval' \in [Points -> Progress]
      BY <2>1 DEF FlowTypes
    <3>2. holds' \in [Contexts -> Contents]
      BY <2>2 DEF FlowTypes
    <3>3. done' = done \/ \E n : NoteOf(n)
      BY <2>3 DEF NoteOf
    <3> QED BY <1>b, <3>1, <3>2, <3>3, FlowTypesKept DEF BeginPoint, FlowTypes
  <2>5. OwnContext'
    <3> SUFFICES ASSUME NEW q \in Points, eval'[q].at \notin {"new", "over"}
                 PROVE  eval'[q].ctx \in Contexts /\ holds'[eval'[q].ctx].point = q
      BY DEF OwnContext
    <3>1. CASE q = p
      BY <2>1, <3>1 DEF FlowTypes
    <3>2. CASE q # p
      BY <3>2 DEF FlowTypes, OwnContext
    <3> QED BY <3>1, <3>2
  <2> QED BY <2>4, <2>5
<1>c. ASSUME NEW p \in Points, FinishPoint(p) PROVE FlowBase'
  <2>1. Empty \in Contents
    BY DEF Empty, Contents, Targets
  <2>2. eval' \in [Points -> Progress]
        /\ \A q \in Points : /\ eval'[q].at = IF q = p THEN "over" ELSE eval[q].at
                             /\ eval'[q].ctx = eval[q].ctx
    <3>1. Move(p, "over") /\ "over" \in Stops
      BY <1>c DEF FinishPoint, Move, Stops
    <3> QED BY <3>1, Moved
  <2>3. FlowTypes'
    BY <1>c, <2>1, <2>2, FlowTypesKept DEF FinishPoint, FlowTypes
  <2>4. eval[p].ctx \in Contexts /\ holds[eval[p].ctx].point = p
    BY <1>c DEF FinishPoint, OwnContext
  <2>5. OwnContext'
    BY <1>c, <2>2, <2>4 DEF FinishPoint, OwnContext, FlowTypes
  <2> QED BY <2>3, <2>5
<1>d. ASSUME NEW p \in Points, Generate(p) PROVE FlowBase'
  <2> PICK ts \in Stamps :
       /\ memory' = Remembered(ts)
       /\ done' = IF IsDue(ts) THEN Append(done, [what |-> "made", ts |-> ts]) ELSE done
    BY <1>d DEF Generate
  <2>1. Remembered(ts) \in Memories
    BY ReadInOrder, SMTT(30) DEF Remembered, Memories, FlowTypes, Stamps
  <2>2. [what |-> "made", ts |-> ts] \in Noted
    BY DEF Noted, Made
  <2>3. FlowTypes'
    BY <1>d, <2>1, <2>2, Moved, FlowTypesKept DEF Generate, FlowTypes, NoteOf, Stops
  <2>4. OwnContext'
    BY <1>d, ContextKept DEF Generate, Generators, Stops
  <2> QED BY <2>3, <2>4
<1>e. ASSUME NEW p \in Points, UseOrAsk(p) PROVE FlowBase'
  <2>1. PICK place \in Stops : Move(p, place)
    BY <1>e DEF UseOrAsk, Stops
  <2>2. AskedNote(p) \in Noted /\ HitNote(eval[p].entry) \in Noted
    BY AnswersNoted
  <2>3. FlowTypes'
    BY <1>e, <2>1, <2>2, Moved, FlowTypesKept
    DEF UseOrAsk, Note, FlowTypes, NoteOf, AskedNote, HitNote
  <2>4. OwnContext'
    BY <1>e, <2>1, ContextKept DEF UseOrAsk
  <2> QED BY <2>3, <2>4
<1>n. ASSUME NEW p \in Points, Look(p) PROVE FlowBase'
  <2> DEFINE seen == [eval[p] EXCEPT !.at = "check", !.entry = memory]
  <2>1. eval[p] \in Progress /\ memory \in Memories /\ "check" \in Stops
    BY DEF FlowTypes, Stops
  <2>2. seen \in Progress /\ seen.ctx = eval[p].ctx /\ eval' = [eval EXCEPT ![p] = seen]
    BY <1>n, <2>1 DEF Look, Progress, FlowTypes
  <2> HIDE DEF seen
  <2>3. [what |-> "looked", p |-> p] \in Noted
    BY DEF Noted, LookedUp
  <2>4. FlowTypes'
    BY <1>n, <2>2, <2>3, FlowTypesKept DEF Look, Note, FlowTypes, NoteOf
  <2>5. OwnContext'
    BY <1>n, <2>1, <2>2 DEF Look, OwnContext, FlowTypes
  <2> QED BY <2>4, <2>5
<1>f. ASSUME NEW p \in Points, MarketAnswer(p) PROVE FlowBase'
  <2>1. CASE Move(p, "finish")
    BY <1>f, <2>1, Moved, FlowTypesKept, ContextKept DEF MarketAnswer, FlowTypes, Stops
  <2>2. CASE eval' = [eval EXCEPT ![p].at = "store", ![p].sent = tick]
    <3>1. eval[p] \in Progress
      BY DEF FlowTypes
    <3>2. [eval[p] EXCEPT !.at = "store", !.sent = tick] \in Progress
      BY <3>1 DEF Progress, FlowTypes, Stops
    <3>3. eval' = [eval EXCEPT ![p] = [eval[p] EXCEPT !.at = "store", !.sent = tick]]
      BY <2>2, <3>1 DEF Progress, FlowTypes
    <3>4. FlowTypes'
      BY <1>f, <3>2, <3>3, FlowTypesKept DEF MarketAnswer, FlowTypes
    <3>5. OwnContext'
      BY <1>f, <3>1, <3>3 DEF MarketAnswer, OwnContext, FlowTypes, Progress
    <3> QED BY <3>4, <3>5
  <2> QED BY <1>f, <2>1, <2>2 DEF MarketAnswer
<1>g. ASSUME NEW p \in Points, StorePrice(p) PROVE FlowBase'
  <2>1. [what |-> "stored", p |-> p, price |-> eval[p].sent, at |-> tick] \in Noted
    BY DEF Noted, Stored, FlowTypes, Progress
  <2>2. memory' \in Memories
    <3>1. memory \in Memories /\ eval[p].sent \in Nat /\ tick \in Nat
      BY DEF FlowTypes, Progress
    <3>2. memory' = [price |-> eval[p].sent, until |-> tick + CacheTTL, stored |-> tick,
                     lastRun |-> memory.lastRun]
      BY <1>g, <3>1 DEF StorePrice, Memories
    <3> QED BY <3>1, <3>2 DEF Memories
  <2>3. FlowTypes'
    BY <1>g, <2>1, <2>2, Moved, FlowTypesKept DEF StorePrice, Note, FlowTypes, NoteOf, Stops
  <2>4. OwnContext'
    BY <1>g, ContextKept DEF StorePrice, Stops
  <2> QED BY <2>3, <2>4
<1>h. ASSUME NEW p \in Points, Dispatch(p) PROVE FlowBase'
  <2> PICK executed, ok \in BOOLEAN :
       /\ Note([what |-> "sent", p |-> p, by |-> ActionOf(p), to |-> Target(p),
                executed |-> executed, ok |-> ok])
       /\ IF ok
          THEN /\ holds' = [holds EXCEPT ![eval[p].ctx].target = Target(p)]
               /\ eval' = [eval EXCEPT ![p] = PastAction(p)]
          ELSE /\ eval' = [eval EXCEPT ![p].tries = @ + 1,
                                     ![p].at = IF ActionOf(p) = 1 THEN "pause" ELSE "pause2"]
               /\ UNCHANGED holds
    BY <1>h DEF Dispatch
  <2>1. eval[p] \in Progress /\ eval[p].ctx \in Contexts /\ holds[eval[p].ctx].point = p
        /\ holds[eval[p].ctx] \in Contents
    BY <1>h DEF Dispatch, FlowTypes, OwnContext
  <2>2. ActionOf(p) \in {1, 2} /\ Own[1] = "d1" /\ Own[2] = "d2"
    BY DEF ActionOf, Own
  <2>3. Target(p) \in Targets
    BY <2>1, <2>2 DEF Target, Contents, Targets
  <2>4. [what |-> "sent", p |-> p, by |-> ActionOf(p), to |-> Target(p),
         executed |-> executed, ok |-> ok] \in Noted
    BY <2>2, <2>3 DEF Noted, SentTo
  <2> DEFINE moved == IF ok THEN PastAction(p)
                      ELSE [eval[p] EXCEPT !.tries = @ + 1,
                                           !.at = IF ActionOf(p) = 1 THEN "pause" ELSE "pause2"]
  <2>5. moved \in Progress /\ moved.ctx = eval[p].ctx /\ moved.at # "new" /\ moved.at # "over"
    <3>1. CASE ok
      BY <2>1, <3>1, PastIsProgress
    <3>2. CASE ~ok
      <4>1. (IF ActionOf(p) = 1 THEN "pause" ELSE "pause2") \in Stops \ {"new", "over"}
        BY DEF Stops
      <4> DEFINE place == IF ActionOf(p) = 1 THEN "pause" ELSE "pause2"
      <4>2. moved = [eval[p] EXCEPT !.tries = @ + 1, !.at = place]
        BY <3>2
      <4> HIDE DEF place, moved
      <4>3. moved = [at |-> place, ctx |-> eval[p].ctx, tries |-> eval[p].tries + 1,
                     sent |-> eval[p].sent, entry |-> eval[p].entry]
        BY <2>1, <4>2 DEF Progress
      <4>4. place \in Stops \ {"new", "over"}
        BY <4>1 DEF place
      <4> QED BY <2>1, <4>3, <4>4 DEF Progress
    <3> QED BY <3>1, <3>2
  <2>6. eval' = [eval EXCEPT ![p] = moved]
    BY <2>1 DEF FlowTypes, Progress
  <2> HIDE DEF moved
  <2> DEFINE told == [holds[eval[p].ctx] EXCEPT !.target = Target(p)]
  <2>7. told \in Contents /\ told.point = holds[eval[p].ctx].point
    BY <2>1, <2>3 DEF Contents
  <2>8. holds' = [holds EXCEPT ![eval[p].ctx] = told] \/ holds' = holds
    OBVIOUS
  <2> HIDE DEF told
  <2>9. FlowTypes'
    BY <1>h, <2>1, <2>4, <2>5, <2>6, <2>7, <2>8, FlowTypesKept
    DEF Dispatch, Note, NoteOf, FlowTypes
  <2>10. OwnContext'
    BY <1>h, <2>1, <2>5, <2>6, <2>7, <2>8, SMTT(30) DEF Dispatch, OwnContext, FlowTypes
  <2> QED BY <2>9, <2>10
<1>i. ASSUME NEW p \in Points, Paused(p) \/ CancelPause(p) PROVE FlowBase'
  <2>1. eval[p] \in Progress /\ eval[p].at \notin {"new", "over"}
    BY <1>i DEF FlowTypes, Paused, CancelPause
  <2>2. CASE \E place \in Stops : Move(p, place)
    BY <1>i, <2>1, <2>2, Moved, FlowTypesKept, ContextKept DEF Paused, CancelPause, FlowTypes
  <2>3. CASE eval' = [eval EXCEPT ![p] = PastAction(p)]
    <3>1. PastAction(p) \in Progress /\ PastAction(p).ctx = eval[p].ctx
      BY <2>1, PastIsProgress
    <3>2. FlowTypes'
      BY <1>i, <2>3, <3>1, FlowTypesKept DEF Paused, CancelPause, FlowTypes
    <3>3. OwnContext'
      BY <1>i, <2>1, <2>3, <3>1 DEF Paused, CancelPause, FlowTypes, OwnContext
    <3> QED BY <3>2, <3>3
  <2>4. {"dispatch", "dispatch2", "finish"} \subseteq Stops
    BY DEF Stops, Flows
  <2> QED BY <1>i, <2>2, <2>3, <2>4 DEF Paused, CancelPause
<1>j. ASSUME NEW p \in Points, DelayInner(p) \/ SubChainAsync(p) PROVE FlowBase'
  <2>1. [ctx |-> NoPoint, for |-> p] \in Works /\ [ctx |-> eval[p].ctx, for |-> p] \in Works
    BY DEF Works, FlowTypes, Progress
  <2>2. FlowTypes'
    BY <1>j, <2>1, Moved, FlowTypesKept DEF DelayInner, SubChainAsync, FlowTypes, Stops
  <2>3. OwnContext'
    BY <1>j, ContextKept DEF DelayInner, SubChainAsync, Stops
  <2> QED BY <2>2, <2>3
<1>k. ASSUME NEW c \in Contexts \cup {NoPoint}, NEW p \in Points, DropPoint(c, p)
      PROVE  /\ holds' \in [Contexts -> Contents]
             /\ \A x \in Contexts : holds'[x].point = holds[x].point
             /\ done' = done \/ \E n : NoteOf(n)
  <2>1. CASE c = NoPoint
    BY <1>k, <2>1 DEF DropPoint, FlowTypes
  <2>2. CASE c # NoPoint
    <3>1. holds[c] \in Contents
      BY <2>2 DEF FlowTypes
    <3>2. [holds[c] EXCEPT !.dropped = TRUE] \in Contents
          /\ [holds[c] EXCEPT !.dropped = TRUE].point = holds[c].point
      BY <3>1 DEF Contents
    <3>3. [what |-> "dropped", p |-> holds[c].point, by |-> p] \in Noted
      BY <3>1 DEF Noted, DroppedBy, Contents
    <3>4. holds' = [holds EXCEPT ![c] = [holds[c] EXCEPT !.dropped = TRUE]]
      BY <1>k, <2>2 DEF DropPoint
    <3> QED BY <1>k, <2>2, <3>2, <3>3, <3>4 DEF DropPoint, FlowTypes, NoteOf
  <2> QED BY <2>1, <2>2
<1>l. ASSUME NEW p \in Points, SubChainSync(p) PROVE FlowBase'
  <2>1. /\ holds' \in [Contexts -> Contents]
        /\ \A x \in Contexts : holds'[x].point = holds[x].point
        /\ done' = done \/ \E n : NoteOf(n)
    BY <1>l, <1>k DEF SubChainSync, OwnContext
  <2>2. FlowTypes'
    BY <1>l, <2>1, Moved, FlowTypesKept DEF SubChainSync, FlowTypes, Stops
  <2>3. OwnContext'
    BY <1>l, <2>1, Moved DEF SubChainSync, OwnContext, Stops
  <2> QED BY <2>2, <2>3
<1>m. ASSUME NEW w \in later, RunLater(w) PROVE FlowBase'
  <2>1. w.ctx \in Contexts \cup {NoPoint} /\ w.for \in Points
    BY DEF FlowTypes, Works
  <2>2. /\ holds' \in [Contexts -> Contents]
        /\ \A x \in Contexts : holds'[x].point = holds[x].point
        /\ done' = done \/ \E n : NoteOf(n)
    BY <1>m, <1>k, <2>1 DEF RunLater
  <2>3. FlowTypes'
    BY <1>m, <2>2, FlowTypesKept DEF RunLater, FlowTypes
  <2>4. OwnContext'
    BY <1>m, <2>2 DEF RunLater, OwnContext
  <2> QED BY <2>3, <2>4
<1> QED
  BY <1>a, <1>b, <1>c, <1>d, <1>e, <1>f, <1>g, <1>h, <1>i, <1>j, <1>l, <1>m, <1>n DEF FlowNext

\* What a step does to an evaluation: it goes on with the context it has.
StepsOn(p) ==
  /\ eval[p].at \notin {"new", "over"} /\ eval'[p].ctx = eval[p].ctx
  /\ eval'[p].at \notin {"async", "check"}
  /\ eval[p].at = "finish" => eval'[p].at = "over"

LEMMA OneMoves ==
  ASSUME FlowBase, FlowNext, NEW p \in Points
  PROVE  \/ eval'[p] = eval[p]
         \/ eval[p].at = "new" /\ eval'[p].at = flow
         \/ Look(p) /\ eval'[p].at = "check" /\ eval'[p].ctx = eval[p].ctx /\ eval'[p].entry = memory
         \/ StepsOn(p)
<1> USE DEF FlowBase
<1> DEFINE Goal == \/ eval'[p] = eval[p]
                   \/ eval[p].at = "new" /\ eval'[p].at = flow
                   \/ /\ Look(p) /\ eval'[p].at = "check" /\ eval'[p].ctx = eval[p].ctx
                      /\ eval'[p].entry = memory
                   \/ StepsOn(p)
<1>0. eval \in [Points -> Progress] /\ eval[p] \in Progress
  BY DEF FlowTypes
<1>1. ASSUME NEW q \in Points, NEW moved, eval' = [eval EXCEPT ![q] = moved], q # p
      PROVE  eval'[p] = eval[p]
  BY <1>0, <1>1
<1>2. ASSUME NEW q \in Points, NEW moved, eval' = [eval EXCEPT ![q] = moved],
             moved.ctx = eval[q].ctx, moved.at \notin {"async", "check"},
             eval[q].at \notin {"new", "over", "finish"} \/ (eval[q].at = "finish" /\ moved.at = "over")
      PROVE  Goal
  BY <1>0, <1>2 DEF StepsOn
<1>3. ASSUME NEW q \in Points, NEW place, Move(q, place), place \notin {"async", "check"},
             eval[q].at \notin {"new", "over", "finish"} \/ (eval[q].at = "finish" /\ place = "over")
      PROVE  Goal
  <2> DEFINE moved == [eval[q] EXCEPT !.at = place]
  <2>1. eval[q] \in Progress /\ eval' = [eval EXCEPT ![q] = moved]
    BY <1>3 DEF FlowTypes, Move
  <2>2. moved.at = place /\ moved.ctx = eval[q].ctx
    BY <2>1 DEF Progress
  <2> HIDE DEF moved, Goal
  <2> QED BY <1>2, <1>3, <2>1, <2>2
<1>4. ASSUME NEW q \in Points, BeginPoint(q) PROVE Goal
  <2> PICK c \in Contexts : eval' = [eval EXCEPT ![q] = [Idle EXCEPT !.at = flow, !.ctx = c]]
    BY <1>4 DEF BeginPoint
  <2> DEFINE moved == [Idle EXCEPT !.at = flow, !.ctx = c]
  <2>1. eval' = [eval EXCEPT ![q] = moved]
    OBVIOUS
  <2>2. moved.at = flow
    BY DEF Idle
  <2>3. eval[q].at = "new"
    BY <1>4 DEF BeginPoint
  <2> HIDE DEF moved
  <2> QED BY <1>0, <1>1, <2>1, <2>2, <2>3
<1>5. ASSUME NEW q \in Points, Look(q) PROVE Goal
  <2> DEFINE moved == [eval[q] EXCEPT !.at = "check", !.entry = memory]
  <2>1. eval[q] \in Progress /\ eval' = [eval EXCEPT ![q] = moved]
    BY <1>0, <1>5 DEF Look
  <2>2. moved.at = "check" /\ moved.ctx = eval[q].ctx /\ moved.entry = memory
    BY <2>1 DEF Progress
  <2> HIDE DEF moved
  <2> QED BY <1>0, <1>1, <1>5, <2>1, <2>2
<1> HIDE DEF Goal
<1>6. ASSUME NEW q \in Points, FinishPoint(q) PROVE Goal
  <2>1. Move(q, "over") /\ eval[q].at = "finish"
    BY <1>6 DEF FinishPoint, Move
  <2> QED BY <1>3, <2>1
<1>7. ASSUME NEW q \in Points,
             Generate(q) \/ UseOrAsk(q) \/ StorePrice(q) \/ CancelPause(q)
             \/ DelayInner(q) \/ SubChainSync(q) \/ SubChainAsync(q)
      PROVE  Goal
  <2>1. Move(q, "finish") \/ Move(q, "answer")
    BY <1>7 DEF Generate, UseOrAsk, StorePrice, CancelPause, DelayInner, SubChainSync, SubChainAsync
  <2>2. eval[q].at \notin {"new", "over", "finish"}
    BY <1>7
    DEF Generate, Generators, UseOrAsk, StorePrice, CancelPause, DelayInner, SubChainSync, SubChainAsync
  <2> QED BY <1>3, <2>1, <2>2
<1>8. ASSUME NEW q \in Points, MarketAnswer(q) PROVE Goal
  <2>0. eval[q].at = "answer"
    BY <1>8 DEF MarketAnswer
  <2>1. CASE Move(q, "finish")
    BY <1>3, <2>0, <2>1
  <2>2. CASE eval' = [eval EXCEPT ![q].at = "store", ![q].sent = tick]
    <3> DEFINE moved == [eval[q] EXCEPT !.at = "store", !.sent = tick]
    <3>1. eval[q] \in Progress /\ eval' = [eval EXCEPT ![q] = moved]
      BY <1>0, <2>2
    <3>2. moved.at = "store" /\ moved.ctx = eval[q].ctx
      BY <3>1 DEF Progress
    <3> HIDE DEF moved
    <3> QED BY <1>2, <2>0, <3>1, <3>2
  <2> QED BY <1>8, <2>1, <2>2 DEF MarketAnswer
<1>9. ASSUME NEW q \in Points, eval[q].at \in {"dispatch", "dispatch2", "pause", "pause2"},
             eval' = [eval EXCEPT ![q] = PastAction(q)]
      PROVE  Goal
  BY <1>0, <1>2, <1>9, PastIsProgress
<1>10. ASSUME NEW q \in Points, Paused(q) PROVE Goal
  <2>0. eval[q].at \in {"pause", "pause2"}
    BY <1>10 DEF Paused
  <2>1. CASE Move(q, "dispatch") \/ Move(q, "dispatch2")
    BY <1>3, <2>0, <2>1
  <2>2. CASE eval' = [eval EXCEPT ![q] = PastAction(q)]
    BY <1>9, <2>0, <2>2
  <2> QED BY <1>10, <2>1, <2>2 DEF Paused
<1>11. ASSUME NEW q \in Points, Dispatch(q) PROVE Goal
  <2>0. eval[q].at \in {"dispatch", "dispatch2"}
    BY <1>11 DEF Dispatch
  <2>1. CASE eval' = [eval EXCEPT ![q] = PastAction(q)]
    BY <1>9, <2>0, <2>1
  <2> DEFINE place == IF ActionOf(q) = 1 THEN "pause" ELSE "pause2"
  <2>2. CASE eval' = [eval EXCEPT ![q].tries = @ + 1, ![q].at = place]
    <3>1. eval[q] \in Progress /\ place \notin {"async", "check"}
      BY <1>0
    <3> HIDE DEF place
    <3> DEFINE moved == [eval[q] EXCEPT !.tries = @ + 1, !.at = place]
    <3>2. moved.at = place /\ moved.ctx = eval[q].ctx
      BY <3>1 DEF Progress
    <3>3. eval' = [eval EXCEPT ![q] = moved]
      BY <2>2, <3>1 DEF Progress, FlowTypes
    <3> HIDE DEF moved
    <3> QED BY <1>2, <2>0, <3>1, <3>2, <3>3
  <2> QED BY <1>11, <2>1, <2>2 DEF Dispatch
<1>12. ASSUME UNCHANGED eval PROVE Goal
  BY <1>12 DEF Goal
<1>13. Goal
  BY <1>4, <1>5, <1>6, <1>7, <1>8, <1>10, <1>11, <1>12 DEF FlowNext, TimePasses, RunLater
<1> QED BY <1>13 DEF Goal

LEMMA FlowBaseInit == FlowInit => FlowBase
<1> SUFFICES ASSUME FlowInit PROVE FlowBase
  OBVIOUS
<1> USE FlowAssumption DEF FlowInit, FlowInitIn
<1>1. eval \in [Points -> Progress]
  BY DEF Progress, Stops, Idle, Nothing, Memories
<1>2. holds \in [Contexts -> Contents]
  BY DEF Empty, Contents, Targets
<1>3. memory \in Memories /\ later \subseteq Works /\ done \in Seq(Noted)
  BY DEF Memories, Nothing
<1>4. OwnContext
  BY DEF OwnContext, Idle
<1> QED BY <1>1, <1>2, <1>3, <1>4 DEF FlowBase, FlowTypes

-----------------------------------------------------------------------------
(* What a step adds to the history. *)

\* Nothing, or a note that only the properties of dispatch and of drops read.
Quiet ==
  /\ flow' = flow /\ memory' = memory
  /\ tick' \in Nat /\ tick' >= tick
  /\ done' = done \/ \E n : NoteOf(n) /\ n.what \in {"tagged", "dropped"}

LEMMA DropsQuietly ==
  ASSUME FlowTypes, NEW c \in Contexts \cup {NoPoint}, NEW p \in Points, DropPoint(c, p)
  PROVE  done' = done \/ \E n : NoteOf(n) /\ n.what = "dropped" /\ n.p = holds[c].point /\ n.by = p
                                  /\ c # NoPoint
<1>1. CASE c = NoPoint
  BY <1>1 DEF DropPoint
<1>2. CASE c # NoPoint
  <2> DEFINE n == [what |-> "dropped", p |-> holds[c].point, by |-> p]
  <2>1. n \in Noted
    BY <1>2 DEF FlowTypes, Contents, Noted, DroppedBy
  <2> QED BY <1>2, <2>1 DEF DropPoint, NoteOf
<1> QED BY <1>1, <1>2

LEMMA FlowSteps ==
  ASSUME FlowBase, FlowNext
  PROVE  \/ \E p \in Points :
              Generate(p) \/ Look(p) \/ UseOrAsk(p) \/ StorePrice(p) \/ Dispatch(p)
         \/ Quiet
<1> USE DEF FlowBase
<1>1. tick \in Nat
  BY DEF FlowTypes
<1>2. ASSUME TimePasses PROVE Quiet
  BY <1>1, <1>2 DEF TimePasses, Quiet
<1>3. ASSUME NEW p \in Points, BeginPoint(p) PROVE Quiet
  <2>1. [what |-> "tagged", p |-> p] \in Noted
    BY DEF Noted, Tagged
  <2>2. done' = done \/ done' = Append(done, [what |-> "tagged", p |-> p])
    BY <1>3 DEF BeginPoint
  <2>3. flow' = flow /\ memory' = memory /\ tick' = tick
    BY <1>3 DEF BeginPoint
  <2>4. ASSUME done' = Append(done, [what |-> "tagged", p |-> p])
        PROVE  \E n : NoteOf(n) /\ n.what \in {"tagged", "dropped"}
    BY <2>1, <2>4 DEF NoteOf
  <2> QED BY <1>1, <2>2, <2>3, <2>4 DEF Quiet
<1>4. ASSUME NEW p \in Points,
             FinishPoint(p) \/ MarketAnswer(p) \/ Paused(p) \/ CancelPause(p) \/ DelayInner(p)
             \/ SubChainAsync(p)
      PROVE  Quiet
  BY <1>1, <1>4 DEF FinishPoint, MarketAnswer, Paused, CancelPause, DelayInner, SubChainAsync, Quiet
<1>5. ASSUME NEW p \in Points, SubChainSync(p) PROVE Quiet
  <2>1. eval[p].ctx \in Contexts
    BY <1>5 DEF SubChainSync, OwnContext
  <2> QED BY <1>1, <1>5, <2>1, DropsQuietly DEF SubChainSync, Quiet
<1>6. ASSUME NEW w \in later, RunLater(w) PROVE Quiet
  <2>1. w.ctx \in Contexts \cup {NoPoint} /\ w.for \in Points
    BY DEF FlowTypes, Works
  <2> QED BY <1>1, <1>6, <2>1, DropsQuietly DEF RunLater, Quiet
<1> QED BY <1>2, <1>3, <1>4, <1>5, <1>6 DEF FlowNext

\* One note more.
LEMMA HappensNext ==
  ASSUME done \in Seq(Noted), NEW n, NoteOf(n), NEW what
  PROVE  Happened(what)' = IF n.what = what THEN Happened(what) \cup {Len(done) + 1}
                           ELSE Happened(what)
<1>1. /\ DOMAIN done' = DOMAIN done \cup {Len(done) + 1}
      /\ \A i \in DOMAIN done : done'[i] = done[i]
      /\ done'[Len(done) + 1] = n
      /\ Len(done) + 1 \notin DOMAIN done
  BY NotesGrow DEF NoteOf
<1> QED BY <1>1 DEF Happened

LEMMA NoteKinds ==
  ASSUME done \in Seq(Noted), NEW i \in DOMAIN done
  PROVE  /\ i \in Nat
         /\ done[i].what = "made" => done[i].ts \in Stamps /\ done[i].ts \in Nat
         /\ done[i].what = "hit" => done[i].stored \in Nat /\ done[i].at \in Nat
         /\ done[i].what = "asked" => done[i].at \in Nat
         /\ done[i].what = "stored" => done[i].at \in Nat
         /\ done[i].what = "looked" => done[i].p \in Points
         /\ done[i].what = "dropped" => done[i].by \in Points
         /\ done[i].what = "sent" => done[i].p \in Points /\ done[i].by \in {1, 2}
<1>1. done[i] \in Noted /\ i \in Nat
  OBVIOUS
<1> QED
  BY <1>1, FlowAssumption DEF Noted, Tagged, Made, LookedUp, Hit, Asked, Stored, SentTo, DroppedBy, Stamps

-----------------------------------------------------------------------------
(* The generator. *)

GeneratorInv ==
  /\ \A i \in Happened("made") : memory.lastRun # -1 /\ ReadTime(done[i].ts) <= memory.lastRun
  /\ GeneratedApart

LEMMA GeneratorStep ==
  ASSUME FlowBase, GeneratorInv, FlowNext
  PROVE  GeneratorInv'
<1>0. done \in Seq(Noted) /\ memory \in Memories
  BY DEF FlowBase, FlowTypes
<1>1. ASSUME flow' = flow, memory'.lastRun = memory.lastRun,
             done' = done \/ \E n : NoteOf(n) /\ n.what # "made"
      PROVE  GeneratorInv'
  <2>1. Happened("made")' = Happened("made") /\ \A i \in Happened("made") : done'[i] = done[i]
    BY <1>0, <1>1, HappensNext, NotesGrow DEF Happened, NoteOf
  <2>2. \A i \in Happened("made") : ReadTime(done[i].ts)' = ReadTime(done[i].ts)
    BY <1>1, <2>1 DEF ReadTime
  <2> QED BY <1>1, <2>1, <2>2 DEF GeneratorInv, GeneratedApart
<1>2. ASSUME NEW p \in Points, Generate(p) PROVE GeneratorInv'
  <2> PICK ts \in Stamps :
       /\ memory' = Remembered(ts)
       /\ done' = IF IsDue(ts) THEN Append(done, [what |-> "made", ts |-> ts]) ELSE done
    BY <1>2 DEF Generate
  <2>0. ts \in Nat /\ ReadTime(ts) \in Nat /\ Interval \in Nat \ {0} /\ memory.lastRun \in Int
    BY <1>0, FlowAssumption, ReadInOrder DEF Memories
  <2>f. flow' = flow
    BY <1>2 DEF Generate
  <2>1. CASE IsDue(ts)
    <3>1. memory'.lastRun = ReadTime(ts)
      BY <1>0, <2>1 DEF Remembered, Memories
    <3>2. NoteOf([what |-> "made", ts |-> ts])
      BY <2>1 DEF NoteOf, Noted, Made
    <3>3. /\ Happened("made")' = Happened("made") \cup {Len(done) + 1}
          /\ \A i \in Happened("made") : done'[i] = done[i] /\ i < Len(done) + 1
          /\ done'[Len(done) + 1].ts = ts
      BY <1>0, <3>2, HappensNext, NotesGrow DEF Happened, NoteOf
    <3>4. \A i \in Happened("made") : done[i].ts \in Nat /\ done[i].ts \in Stamps /\ i \in Nat
      BY <1>0, NoteKinds DEF Happened
    <3>5. Len(done) \in Nat
      BY <1>0
    <3>6. \A i \in Happened("made") : /\ done[i].ts < ts /\ ReadTime(done[i].ts) <= ReadTime(ts)
                                      /\ flow # "mapgenerator" => ts - done[i].ts >= Interval
      <4> SUFFICES ASSUME NEW i \in Happened("made")
                   PROVE  /\ done[i].ts < ts /\ ReadTime(done[i].ts) <= ReadTime(ts)
                          /\ flow # "mapgenerator" => ts - done[i].ts >= Interval
        OBVIOUS
      <4>1. ReadTime(done[i].ts) <= memory.lastRun /\ ReadTime(done[i].ts) \in Nat
        BY <3>4, ReadInOrder DEF GeneratorInv
      <4>2. ReadTime(ts) >= memory.lastRun + Interval
        BY <2>1 DEF IsDue
      <4>3. ReadTime(done[i].ts) + Interval <= ReadTime(ts) /\ ReadTime(done[i].ts) < ReadTime(ts)
        BY <2>0, <4>1, <4>2
      <4>4. done[i].ts < ts
        BY <3>4, <4>3, ReadInOrder
      <4>5. ASSUME flow # "mapgenerator" PROVE ts - done[i].ts >= Interval
        <5>1. ReadTime(ts) = ts /\ ReadTime(done[i].ts) = done[i].ts
          BY <3>4, <4>5, ReadInOrder
        <5> QED BY <2>0, <3>4, <4>3, <5>1
      <4> QED BY <2>0, <4>1, <4>3, <4>4, <4>5
    <3>8. \A i \in Happened("made")' : memory'.lastRun # -1 /\ ReadTime(done[i].ts)' <= memory'.lastRun
      <4> SUFFICES ASSUME NEW i \in Happened("made")'
                   PROVE  memory'.lastRun # -1 /\ ReadTime(done[i].ts)' <= memory'.lastRun
        OBVIOUS
      <4>1. ReadTime(ts) # -1
        BY <2>0
      <4>2. CASE i \in Happened("made")
        <5>1. ReadTime(done[i].ts)' = ReadTime(done[i].ts)
          BY <2>f, <3>3, <4>2 DEF ReadTime
        <5> QED BY <3>1, <3>6, <4>1, <4>2, <5>1
      <4>3. CASE i = Len(done) + 1
        <5>1. ReadTime(done[i].ts)' = ReadTime(ts)
          BY <2>f, <3>3, <4>3 DEF ReadTime
        <5>2. ReadTime(ts) <= ReadTime(ts)
          BY <2>0
        <5> QED BY <3>1, <4>1, <5>1, <5>2, Zenon
      <4> QED BY <3>3, <4>2, <4>3
    <3>9. GeneratedApart'
      <4> SUFFICES ASSUME NEW i \in Happened("made")', NEW j \in Happened("made")', i < j
                   PROVE  /\ done'[i].ts < done'[j].ts
                          /\ flow # "mapgenerator" => done'[j].ts - done'[i].ts >= Interval
        BY <2>f DEF GeneratedApart
      <4>1. i \in Happened("made")
        BY <3>3, <3>4, <3>5
      <4>2. CASE j \in Happened("made")
        BY <3>3, <4>1, <4>2 DEF GeneratorInv, GeneratedApart
      <4>3. CASE j = Len(done) + 1
        BY <3>3, <3>6, <4>1, <4>3
      <4> QED BY <3>3, <4>2, <4>3
    <3> QED BY <3>8, <3>9 DEF GeneratorInv
  <2>2. CASE ~IsDue(ts)
    <3>1. done' = done /\ (memory'.lastRun = memory.lastRun \/ memory.lastRun = -1)
      BY <1>0, <2>2 DEF Remembered, Memories
    <3>2. \A i \in Happened("made") : ReadTime(done[i].ts)' = ReadTime(done[i].ts)
      BY <2>f, <3>1 DEF ReadTime
    <3> QED BY <2>f, <3>1, <3>2 DEF GeneratorInv, GeneratedApart, Happened
  <2> QED BY <2>1, <2>2
<1>3. ASSUME NEW p \in Points, UseOrAsk(p) PROVE GeneratorInv'
  <2>1. \E n : NoteOf(n) /\ n.what # "made"
    <3>1. AskedNote(p) \in Noted /\ HitNote(eval[p].entry) \in Noted
      BY AnswersNoted DEF FlowBase
    <3>2. AskedNote(p).what # "made" /\ HitNote(eval[p].entry).what # "made"
      BY DEF AskedNote, HitNote
    <3> QED BY <1>3, <3>1, <3>2 DEF UseOrAsk, Note, NoteOf, AskedNote, HitNote
  <2>2. memory' = memory /\ flow' = flow
    BY <1>3 DEF UseOrAsk
  <2> QED BY <1>1, <2>1, <2>2
<1>7. ASSUME NEW p \in Points, Look(p) PROVE GeneratorInv'
  <2>1. [what |-> "looked", p |-> p] \in Noted
    BY DEF Noted, LookedUp
  <2> QED BY <1>1, <1>7, <2>1 DEF Look, Note, NoteOf
<1>4. ASSUME NEW p \in Points, StorePrice(p) PROVE GeneratorInv'
  <2>1. [what |-> "stored", p |-> p, price |-> eval[p].sent, at |-> tick] \in Noted
    BY DEF Noted, Stored, FlowBase, FlowTypes, Progress
  <2>2. memory'.lastRun = memory.lastRun /\ flow' = flow
    BY <1>0, <1>4 DEF StorePrice, Memories
  <2> QED BY <1>1, <1>4, <2>1, <2>2 DEF StorePrice, Note, NoteOf
<1>5. ASSUME NEW p \in Points, Dispatch(p) PROVE GeneratorInv'
  <2>1. flow' = flow /\ memory' = memory /\ \E n : done' = Append(done, n) /\ n.what = "sent"
    BY <1>5 DEF Dispatch, Note
  <2>2. done' \in Seq(Noted)
    BY FlowBaseStep DEF FlowBase, FlowTypes
  <2>3. PICK n : done' = Append(done, n) /\ n.what = "sent"
    BY <2>1
  <2>4. n \in Noted
    BY <1>0, <2>2, <2>3
  <2> QED BY <1>1, <2>1, <2>3, <2>4 DEF NoteOf
<1>6. CASE Quiet
  BY <1>1, <1>6 DEF Quiet
<1> QED BY <1>2, <1>3, <1>4, <1>5, <1>6, <1>7, FlowSteps

-----------------------------------------------------------------------------
(* The market. *)

\* What an evaluation has seen of the cache, and that it has looked there.
Covers(entry, l) ==
  /\ entry.price # -1 => entry.until = entry.stored + CacheTTL
  /\ \A j \in Happened("stored") :
       j < l => entry.price # -1 /\ done[j].at + CacheTTL <= entry.until

HasLooked(p) ==
  \E l \in Happened("looked") : done[l].p = p /\ Covers(eval[p].entry, l)

PriceInv ==
  /\ memory.price # -1 => memory.until = memory.stored + CacheTTL
  /\ \A j \in Happened("stored") : memory.price # -1 /\ done[j].at + CacheTTL <= memory.until
  /\ memory.until <= tick + CacheTTL
  /\ \A p \in Points : eval[p].at = "check" => HasLooked(p)
  /\ PricesAreFresh

\* A step that adds nothing the prices are about, or one such note.
LEMMA PriceNotes ==
  ASSUME FlowBase, FlowBase', NEW n, NoteOf(n)
  PROVE  /\ \A what : Happened(what)' = IF n.what = what THEN Happened(what) \cup {Len(done) + 1}
                                       ELSE Happened(what)
         /\ \A what : \A i \in Happened(what) : done'[i] = done[i] /\ i < Len(done) + 1 /\ i \in Nat
         /\ done'[Len(done) + 1] = n /\ Len(done) \in Nat
<1>1. done \in Seq(Noted)
  BY DEF FlowBase, FlowTypes
<1> QED BY <1>1, HappensNext, NotesGrow DEF NoteOf, Happened

\* Looks stay, and what is stored later does not matter for them.
LEMMA LooksStay ==
  ASSUME FlowBase, FlowBase', FlowNext, PriceInv,
         \/ done' = done
         \/ \E n : NoteOf(n)
  PROVE  \A p \in Points : eval'[p].at = "check" /\ ~Look(p) => HasLooked(p)'
<1> SUFFICES ASSUME NEW p \in Points, eval'[p].at = "check", ~Look(p)
             PROVE  HasLooked(p)'
  OBVIOUS
<1>1. eval'[p] = eval[p]
  <2>1. flow # "check"
    BY DEF FlowBase, FlowTypes, Flows, Generators
  <2> QED BY <2>1, OneMoves DEF StepsOn
<1>2. PICK l \in Happened("looked") : done[l].p = p /\ Covers(eval[p].entry, l)
  BY <1>1 DEF PriceInv, HasLooked
<1>3. CASE done' = done
  BY <1>1, <1>2, <1>3 DEF HasLooked, Covers, Happened
<1>4. CASE \E n : NoteOf(n)
  <2> PICK n : NoteOf(n)
    BY <1>4
  <2>1. /\ l \in Happened("looked")' /\ done'[l].p = p /\ l < Len(done) + 1 /\ l \in Nat
        /\ Len(done) \in Nat
        /\ \A j \in Happened("stored")' :
             (j \in Happened("stored") /\ done'[j] = done[j]) \/ j = Len(done) + 1
    BY <1>2, PriceNotes
  <2>2. ASSUME NEW j \in Happened("stored")', j < l
        PROVE  j \in Happened("stored") /\ done'[j] = done[j]
    BY <2>1, <2>2
  <2>3. Covers(eval[p].entry, l)'
    BY <1>1, <1>2, <2>2, Zenon DEF Covers
  <2> QED BY <2>1, <2>3 DEF HasLooked
<1> QED BY <1>3, <1>4

LEMMA PriceStep ==
  ASSUME FlowBase, FlowBase', PriceInv, FlowNext
  PROVE  PriceInv'
<1>0. /\ memory \in Memories /\ tick \in Nat /\ Len(done) \in Nat /\ done \in Seq(Noted)
      /\ memory.until \in Nat /\ memory.stored \in Nat /\ memory.price \in Int
      /\ CacheTTL \in Nat
  BY FlowAssumption DEF FlowBase, FlowTypes, Memories
<1>k. /\ \A i \in Happened("stored") : done[i].at \in Nat /\ i \in Nat
      /\ \A i \in Happened("asked") : done[i].at \in Nat /\ i \in Nat
      /\ \A i \in Happened("hit") : done[i].at \in Nat /\ done[i].stored \in Nat /\ i \in Nat
      /\ \A i \in Happened("looked") : i \in Nat
  BY <1>0, NoteKinds DEF Happened
<1>l. ASSUME NEW p \in Points, Look(p), NEW q \in Points, Look(q) PROVE p = q
  <2>1. done' = Append(done, [what |-> "looked", p |-> p])
        /\ done' = Append(done, [what |-> "looked", p |-> q])
    BY <1>l DEF Look, Note
  <2>2. [what |-> "looked", p |-> p] = [what |-> "looked", p |-> q]
    <3>1. /\ Append(done, [what |-> "looked", p |-> p])[Len(done) + 1] = [what |-> "looked", p |-> p]
          /\ Append(done, [what |-> "looked", p |-> q])[Len(done) + 1] = [what |-> "looked", p |-> q]
      BY <1>0
    <3> QED BY <2>1, <3>1
  <2>3. [what |-> "looked", p |-> p].p = [what |-> "looked", p |-> q].p
    BY <2>2
  <2> QED BY <2>3
<1>1. ASSUME memory'.price = memory.price, memory'.until = memory.until,
             memory'.stored = memory.stored, tick' \in Nat, tick' >= tick,
             done' = done \/ \E n : NoteOf(n) /\ n.what \notin {"hit", "asked", "stored", "looked"}
      PROVE  PriceInv'
  <2>1. ASSUME NEW what \in {"hit", "asked", "stored", "looked"}
        PROVE  Happened(what)' = Happened(what) /\ \A i \in Happened(what) : done'[i] = done[i]
    BY <1>0, <1>1, HappensNext, NotesGrow DEF Happened, NoteOf
  <2>2. memory.until <= tick' + CacheTTL
    BY <1>0, <1>1 DEF PriceInv
  <2>3. \A p \in Points : ~Look(p)
    <3> SUFFICES ASSUME NEW p \in Points, Look(p) PROVE FALSE
      OBVIOUS
    <3>1. NoteOf([what |-> "looked", p |-> p])
      BY DEF Look, Note, NoteOf, Noted, LookedUp
    <3>2. Happened("looked")' = Happened("looked") \cup {Len(done) + 1}
      BY <1>0, <3>1, HappensNext
    <3>3. Len(done) + 1 \notin DOMAIN done
      BY <1>0
    <3> QED BY <2>1, <3>2, <3>3 DEF Happened
  <2>4. \A p \in Points : (eval[p].at = "check" => HasLooked(p))'
    BY <1>1, <2>3, LooksStay
  <2> QED BY <1>1, <2>1, <2>2, <2>4 DEF PriceInv, PricesAreFresh
<1>2. ASSUME NEW p \in Points, Generate(p) PROVE PriceInv'
  <2> PICK ts \in Stamps :
       /\ memory' = Remembered(ts)
       /\ done' = IF IsDue(ts) THEN Append(done, [what |-> "made", ts |-> ts]) ELSE done
    BY <1>2 DEF Generate
  <2>1. memory'.price = memory.price /\ memory'.until = memory.until /\ memory'.stored = memory.stored
    BY <1>0 DEF Remembered, Memories
  <2>2. [what |-> "made", ts |-> ts] \in Noted
    BY DEF Noted, Made
  <2> QED BY <1>0, <1>1, <1>2, <2>1, <2>2 DEF Generate, NoteOf
<1>7. ASSUME NEW p \in Points, Look(p) PROVE PriceInv'
  <2> DEFINE n == [what |-> "looked", p |-> p]
  <2>0. memory' = memory /\ tick' = tick
    BY <1>7 DEF Look
  <2>1. NoteOf(n)
    BY <1>7 DEF Look, Note, NoteOf, Noted, LookedUp
  <2>2. /\ Happened("looked")' = Happened("looked") \cup {Len(done) + 1}
        /\ Happened("hit")' = Happened("hit") /\ Happened("asked")' = Happened("asked")
        /\ Happened("stored")' = Happened("stored")
        /\ \A what : \A i \in Happened(what) : done'[i] = done[i]
        /\ done'[Len(done) + 1] = n /\ n.p = p
    BY <2>1, PriceNotes
  <2>3. eval'[p].entry = memory
    BY <1>7 DEF Look, FlowBase, FlowTypes, Progress
  <2>4. HasLooked(p)'
    <3>1. /\ memory.price # -1 => memory.until = memory.stored + CacheTTL
          /\ \A j \in Happened("stored") : memory.price # -1 /\ done[j].at + CacheTTL <= memory.until
      BY DEF PriceInv
    <3>2. PICK l \in Happened("looked")' : l = Len(done) + 1 /\ done'[l].p = p
      BY <2>2
    <3>3. Covers(eval[p].entry, l)'
      BY <2>2, <2>3, <3>1 DEF Covers
    <3> QED BY <3>2, <3>3 DEF HasLooked
  <2>5. \A q \in Points : (eval[q].at = "check" => HasLooked(q))'
    BY <1>7, <1>l, <2>1, <2>4, LooksStay
  <2> QED BY <2>0, <2>2, <2>5 DEF PriceInv, PricesAreFresh
<1>3. ASSUME NEW p \in Points, UseOrAsk(p) PROVE PriceInv'
  <2>0. memory' = memory /\ tick' = tick /\ eval[p].at = "check"
    BY <1>3 DEF UseOrAsk
  <2>k. PICK l \in Happened("looked") : done[l].p = p /\ Covers(eval[p].entry, l)
    BY <2>0 DEF PriceInv, HasLooked
  <2>e. /\ eval[p].entry \in Memories /\ eval[p].entry.until \in Nat
        /\ eval[p].entry.stored \in Nat /\ eval[p].entry.price \in Int
    BY DEF FlowBase, FlowTypes, Progress, Memories
  <2>l. \A q \in Points : ~Look(q)
    <3> SUFFICES ASSUME NEW q \in Points, Look(q) PROVE FALSE
      OBVIOUS
    <3>1. q # p /\ eval'[q].at = "check"
      BY <2>0 DEF Look, FlowBase, FlowTypes, Progress
    <3>2. Move(p, "finish") \/ Move(p, "answer")
      BY <1>3 DEF UseOrAsk
    <3>3. eval'[q] = eval[q]
      BY <3>1, <3>2 DEF Move, FlowBase, FlowTypes
    <3> QED BY <3>1, <3>3 DEF Look
  <2>1. CASE Valid(eval[p].entry)
    <3> DEFINE n == HitNote(eval[p].entry)
    <3>1. NoteOf(n) /\ n.what = "hit" /\ n.at = tick /\ n.stored = eval[p].entry.stored
      BY <1>3, <2>1, AnswersNoted DEF UseOrAsk, Note, NoteOf, HitNote, FlowBase
    <3> HIDE DEF n
    <3>2. /\ Happened("hit")' = Happened("hit") \cup {Len(done) + 1}
          /\ Happened("asked")' = Happened("asked") /\ Happened("stored")' = Happened("stored")
          /\ Happened("looked")' = Happened("looked")
          /\ \A what : \A i \in Happened(what) : done'[i] = done[i]
          /\ done'[Len(done) + 1] = n
      BY <3>1, PriceNotes
    <3>3. tick < eval[p].entry.stored + CacheTTL
      BY <2>1, <2>k DEF Valid, Covers
    <3>4. \A q \in Points : (eval[q].at = "check" => HasLooked(q))'
      BY <2>l, <3>1, LooksStay
    <3> QED BY <2>0, <3>1, <3>2, <3>3, <3>4 DEF PriceInv, PricesAreFresh
  <2>2. CASE ~Valid(eval[p].entry)
    <3> DEFINE n == AskedNote(p)
    <3>1. NoteOf(n) /\ n.what = "asked" /\ n.at = tick /\ n.p = p
      BY <1>3, <2>2, AnswersNoted DEF UseOrAsk, Note, NoteOf, AskedNote, FlowBase
    <3> HIDE DEF n
    <3>2. /\ Happened("asked")' = Happened("asked") \cup {Len(done) + 1}
          /\ Happened("hit")' = Happened("hit") /\ Happened("stored")' = Happened("stored")
          /\ Happened("looked")' = Happened("looked")
          /\ \A what : \A i \in Happened(what) : done'[i] = done[i]
          /\ done'[Len(done) + 1] = n
      BY <3>1, PriceNotes
    <3>3. \A j \in Happened("stored") : j < l \/ l < j
      <4> SUFFICES ASSUME NEW j \in Happened("stored") PROVE j # l
        BY <1>k, <2>k
      <4>1. done[j].what = "stored" /\ done[l].what = "looked"
        BY <2>k DEF Happened
      <4> QED BY <4>1
    <3>4. \A j \in Happened("stored") : tick >= done[j].at + CacheTTL \/ l < j
      <4> SUFFICES ASSUME NEW j \in Happened("stored"), j < l
                   PROVE  tick >= done[j].at + CacheTTL
        BY <3>3
      <4>1. eval[p].entry.price # -1 /\ done[j].at + CacheTTL <= eval[p].entry.until
        BY <2>k DEF Covers
      <4>2. eval[p].entry.until <= tick
        BY <1>0, <2>2, <2>e, <4>1 DEF Valid
      <4> QED BY <1>0, <1>k, <2>e, <4>1, <4>2
    <3>5. \A q \in Points : (eval[q].at = "check" => HasLooked(q))'
      BY <2>l, <3>1, LooksStay
    <3>6. PricesAreFresh'
      <4>1. \A i \in Happened("hit")' : done'[i].at < done'[i].stored + CacheTTL
        BY <3>2 DEF PriceInv, PricesAreFresh
      <4>2. ASSUME NEW i \in Happened("asked"), NEW j \in Happened("stored"), j < i
            PROVE  \/ done'[i].at >= done'[j].at + CacheTTL
                   \/ \E x \in Happened("looked")' : x < j /\ done'[x].p = done'[i].p
        BY <3>2, <4>2 DEF PriceInv, PricesAreFresh
      <4>3. ASSUME NEW j \in Happened("stored")
            PROVE  \/ n.at >= done'[j].at + CacheTTL
                   \/ \E x \in Happened("looked")' : x < j /\ done'[x].p = n.p
        BY <2>k, <3>1, <3>2, <3>4
      <4> QED BY <3>2, <4>1, <4>2, <4>3 DEF PricesAreFresh
    <3> QED BY <2>0, <3>2, <3>5, <3>6 DEF PriceInv
  <2> QED BY <2>1, <2>2
<1>4. ASSUME NEW p \in Points, StorePrice(p) PROVE PriceInv'
  <2> DEFINE n == [what |-> "stored", p |-> p, price |-> eval[p].sent, at |-> tick]
  <2>1. NoteOf(n)
    BY <1>4 DEF StorePrice, Note, NoteOf, Noted, Stored, FlowBase, FlowTypes, Progress
  <2>2. /\ Happened("stored")' = Happened("stored") \cup {Len(done) + 1}
        /\ Happened("hit")' = Happened("hit") /\ Happened("asked")' = Happened("asked")
        /\ Happened("looked")' = Happened("looked")
        /\ \A what : \A i \in Happened(what) : done'[i] = done[i] /\ i < Len(done) + 1
        /\ done'[Len(done) + 1] = n
    BY <2>1, PriceNotes
  <2>4. eval[p].sent \in Nat
    BY DEF FlowBase, FlowTypes, Progress
  <2>5. memory'.price = eval[p].sent /\ memory'.until = tick + CacheTTL /\ memory'.stored = tick
    <3>1. memory' = [price |-> eval[p].sent, until |-> tick + CacheTTL, stored |-> tick,
                     lastRun |-> memory.lastRun]
      BY <1>0, <1>4 DEF StorePrice, Memories
    <3> QED BY <3>1
  <2>6. /\ memory'.price # -1 /\ tick' = tick
        /\ \A j \in Happened("stored")' : done'[j].at + CacheTTL <= memory'.until
    BY <1>0, <1>k, <1>4, <2>2, <2>4, <2>5, SMTT(30) DEF StorePrice, PriceInv
  <2>7. PricesAreFresh'
    <3>1. ASSUME NEW i \in Happened("asked"), NEW j \in Happened("stored"), j < i
          PROVE  \/ done[i].at >= done[j].at + CacheTTL
                 \/ \E l \in Happened("looked") : l < j /\ done[l].p = done[i].p
      BY <3>1 DEF PriceInv, PricesAreFresh
    <3>2. \A i \in Happened("hit") : done[i].at < done[i].stored + CacheTTL
      BY DEF PriceInv, PricesAreFresh
    <3>3. \A i \in Happened("asked") : ~(Len(done) + 1 < i)
      BY <1>0, <1>k, <2>2
    <3> QED BY <2>2, <3>1, <3>2, <3>3 DEF PricesAreFresh
  <2>8. \A q \in Points : ~Look(q)
    <3> SUFFICES ASSUME NEW q \in Points, Look(q) PROVE FALSE
      OBVIOUS
    <3>1. NoteOf([what |-> "looked", p |-> q])
      BY DEF Look, Note, NoteOf, Noted, LookedUp
    <3>2. done'[Len(done) + 1] = [what |-> "looked", p |-> q]
      BY <3>1, PriceNotes
    <3>3. [what |-> "looked", p |-> q].what # n.what
      OBVIOUS
    <3> QED BY <2>2, <3>2, <3>3
  <2>9. \A q \in Points : (eval[q].at = "check" => HasLooked(q))'
    BY <2>1, <2>8, LooksStay
  <2> QED BY <1>0, <2>5, <2>6, <2>7, <2>9 DEF PriceInv
<1>5. ASSUME NEW p \in Points, Dispatch(p) PROVE PriceInv'
  <2>1. memory' = memory /\ tick' = tick /\ \E n : done' = Append(done, n) /\ n.what = "sent"
    BY <1>5 DEF Dispatch, Note
  <2>2. done' \in Seq(Noted)
    BY DEF FlowBase, FlowTypes
  <2>3. PICK n : done' = Append(done, n) /\ n.what = "sent"
    BY <2>1
  <2>4. n \in Noted
    BY <1>0, <2>2, <2>3
  <2> QED BY <1>0, <1>1, <2>1, <2>3, <2>4 DEF NoteOf
<1>6. CASE Quiet
  BY <1>1, <1>6 DEF Quiet
<1> QED BY <1>2, <1>3, <1>4, <1>5, <1>6, <1>7, FlowSteps

-----------------------------------------------------------------------------
(* The dispatches. *)

SentBy(p, a) == {j \in Happened("sent") : done[j].p = p /\ done[j].by = a}

\* What the evaluation of p is at: the action, and what of it is done.
AtAction(p, a) ==
  eval[p].at \in (IF a = 1 THEN {"dispatch", "pause"} ELSE {"dispatch2", "pause2"})

TargetKnown(p) ==
  holds[eval[p].ctx].target # "" =>
    \/ \E j \in Happened("tagged") : done[j].p = p
    \/ AtAction(p, 2) /\ \E j \in SentBy(p, 1) : done[j].ok /\ done[j].to = holds[eval[p].ctx].target

Trying(p) ==
  /\ eval[p].at = "new" \/ AtAction(p, 1) => SentBy(p, 2) = {}
  /\ eval[p].at = "new" => SentBy(p, 1) = {}
  /\ \A a \in {1, 2} : AtAction(p, a) =>
       /\ Cardinality(SentBy(p, a)) = eval[p].tries
       /\ \A j \in SentBy(p, a) : ~done[j].ok
       /\ TargetKnown(p)
  /\ eval[p].at \in {"dispatch", "dispatch2"} => eval[p].tries < Retries

Kept(p, a) ==
  /\ IsFiniteSet(SentBy(p, a)) /\ Cardinality(SentBy(p, a)) <= Retries
  /\ \A i, j \in SentBy(p, a) : j < i => ~done[j].ok

SentHome ==
  \A i \in Happened("sent") :
    done[i].to # Own[done[i].by] =>
      \/ \E j \in Happened("tagged") : done[j].p = done[i].p
      \/ \E j \in Happened("sent") :
           /\ j < i /\ done[j].p = done[i].p /\ done[j].by < done[i].by
           /\ done[j].ok /\ done[j].to = done[i].to

DispatchInv == /\ \A p \in Points : Trying(p)
               /\ \A p \in Points, a \in {1, 2} : Kept(p, a)
               /\ SentHome

LEMMA AtActionOwns ==
  ASSUME FlowBase, NEW q \in Points, NEW a \in {1, 2}, AtAction(q, a)
  PROVE  /\ eval[q].at \in {"dispatch", "pause", "dispatch2", "pause2"}
         /\ eval[q].ctx \in Contexts /\ holds[eval[q].ctx].point = q
<1>1. eval[q].at \in {"dispatch", "pause", "dispatch2", "pause2"}
  BY DEF AtAction
<1> QED BY <1>1 DEF FlowBase, OwnContext

LEMMA AtPlaces ==
  ASSUME NEW p \in Points
  PROVE  /\ AtAction(p, 1)' <=> eval'[p].at \in {"dispatch", "pause"}
         /\ AtAction(p, 2)' <=> eval'[p].at \in {"dispatch2", "pause2"}
  BY DEF AtAction

LEMMA RetriesPositive == Retries \in Nat /\ 0 < Retries /\ Cardinality({}) = 0
<1>1. Retries \in Nat /\ 0 < Retries
  BY FlowAssumption DEF Retries
<1> QED BY <1>1, FS_EmptySet

LEMMA SameSent ==
  ASSUME Happened("sent")' = Happened("sent"), \A i \in Happened("sent") : done'[i] = done[i]
  PROVE  \A p \in Points, a \in {1, 2} : SentBy(p, a)' = SentBy(p, a)
  BY DEF SentBy

LEMMA OneMoreSent ==
  ASSUME NEW p \in Points, NEW a \in {1, 2}, NEW k,
         Happened("sent")' = Happened("sent") \cup {k}, k \notin Happened("sent"),
         \A i \in Happened("sent") : done'[i] = done[i],
         done'[k].p = p, done'[k].by = a
  PROVE  /\ SentBy(p, a)' = SentBy(p, a) \cup {k} /\ k \notin SentBy(p, a)
         /\ \A q \in Points, x \in {1, 2} : ~(q = p /\ x = a) => SentBy(q, x)' = SentBy(q, x)
  BY DEF SentBy

LEMMA ToCommandsGoHome ==
  ASSUME FlowBase, DispatchInv
  PROVE  CommandsGoHome
<1> SUFFICES ASSUME NEW i \in Happened("sent")
             PROVE  LET same == {j \in Happened("sent") : done[j].p = done[i].p /\ done[j].by = done[i].by}
                    IN  /\ Cardinality(same) <= Retries
                        /\ \A j \in same : j < i => ~done[j].ok
  BY DEF CommandsGoHome, DispatchInv, SentHome
<1>1. done[i].p \in Points /\ done[i].by \in {1, 2}
  BY NoteKinds DEF FlowBase, FlowTypes, Happened
<1>2. i \in SentBy(done[i].p, done[i].by)
  BY DEF SentBy
<1> QED BY <1>1, <1>2 DEF DispatchInv, Kept, SentBy

\* A step in which nothing is sent, and p does what it did or goes on so.
LEMMA NothingSent ==
  ASSUME FlowBase, DispatchInv, done \in Seq(Noted),
         done' = done \/ \E n : NoteOf(n) /\ n.what # "sent",
         \A q \in Points : \/ Trying(q)'
                           \/ /\ eval'[q] = eval[q]
                              /\ \A a \in {1, 2} : AtAction(q, a) =>
                                   holds'[eval[q].ctx].target = holds[eval[q].ctx].target
  PROVE  DispatchInv'
<1>1. /\ Happened("sent")' = Happened("sent") /\ Happened("tagged") \subseteq Happened("tagged")'
      /\ \A i \in Happened("sent") \cup Happened("tagged") : done'[i] = done[i]
  BY HappensNext, NotesGrow DEF Happened, NoteOf
<1>2. \A q \in Points, a \in {1, 2} : SentBy(q, a)' = SentBy(q, a)
  BY <1>1 DEF SentBy
<1>3. \A q \in Points, a \in {1, 2} : Kept(q, a)'
  BY <1>1, <1>2, ZenonT(30) DEF DispatchInv, Kept, SentBy
<1>4. SentHome'
  BY <1>1 DEF DispatchInv, SentHome
<1>5. ASSUME NEW q \in Points, eval'[q] = eval[q],
             \A a \in {1, 2} : AtAction(q, a) =>
               holds'[eval[q].ctx].target = holds[eval[q].ctx].target
      PROVE  Trying(q)'
  <2>1. Trying(q)
    BY DEF DispatchInv
  <2>2. \A a \in {1, 2} : AtAction(q, a)' = AtAction(q, a)
    BY <1>5 DEF AtAction
  <2>3. ASSUME NEW a \in {1, 2}, AtAction(q, a) PROVE TargetKnown(q)'
    <3>1. TargetKnown(q) /\ holds'[eval[q].ctx].target = holds[eval[q].ctx].target
      BY <1>5, <2>1, <2>3 DEF Trying
    <3> QED BY <1>1, <1>2, <1>5, <2>2, <3>1, ZenonT(30) DEF TargetKnown, SentBy
  <2>4. \A a \in {1, 2} : \A j \in SentBy(q, a) : done'[j] = done[j]
    BY <1>1 DEF SentBy
  <2>5. Retries' = Retries
    BY DEF Retries
  <2> QED BY <1>2, <1>5, <2>1, <2>2, <2>3, <2>4, <2>5 DEF Trying
<1> QED BY <1>3, <1>4, <1>5 DEF DispatchInv

LEMMA DispatchStep ==
  ASSUME FlowBase, FlowBase', DispatchInv, FlowNext
  PROVE  DispatchInv'
<1> USE FlowAssumption DEF FlowBase
<1>0. /\ done \in Seq(Noted) /\ eval \in [Points -> Progress] /\ holds \in [Contexts -> Contents]
      /\ Len(done) \in Nat /\ \A q \in Points : eval[q].tries \in Nat
  BY DEF FlowTypes, Progress
<1>1. ASSUME TimePasses PROVE DispatchInv'
  BY <1>0, <1>1, NothingSent DEF TimePasses
<1>2. ASSUME NEW p \in Points, BeginPoint(p) PROVE DispatchInv'
  <2> PICK c \in Contexts, t \in (IF flow = "dispatch" THEN {"", "d3"} ELSE {""}) :
       /\ holds[c].point = NoPoint
       /\ holds' = [holds EXCEPT ![c] = [point |-> p, dropped |-> FALSE, target |-> t]]
       /\ eval' = [eval EXCEPT ![p] = [Idle EXCEPT !.at = flow, !.ctx = c]]
       /\ done' = IF t = "" THEN done ELSE Append(done, [what |-> "tagged", p |-> p])
    BY <1>2 DEF BeginPoint
  <2>1. NoteOf([what |-> "tagged", p |-> p]) \/ done' = done
    BY DEF Noted, Tagged, NoteOf
  <2>2. \A q \in Points \ {p} : /\ eval'[q] = eval[q]
                                /\ \A a \in {1, 2} : AtAction(q, a) =>
                                     holds'[eval[q].ctx].target = holds[eval[q].ctx].target
    <3> SUFFICES ASSUME NEW q \in Points \ {p}
                 PROVE  /\ eval'[q] = eval[q]
                        /\ \A a \in {1, 2} : AtAction(q, a) =>
                             holds'[eval[q].ctx].target = holds[eval[q].ctx].target
      OBVIOUS
    <3>1. \A a \in {1, 2} : AtAction(q, a) => eval[q].ctx \in Contexts /\ eval[q].ctx # c
      <4> SUFFICES ASSUME NEW a \in {1, 2}, AtAction(q, a)
                   PROVE  eval[q].ctx \in Contexts /\ eval[q].ctx # c
        OBVIOUS
      <4>1. eval[q].ctx \in Contexts /\ holds[eval[q].ctx].point = q
        BY AtActionOwns
      <4> QED BY <4>1
    <3>2. \A x \in Contexts : x # c => holds'[x] = holds[x]
      BY <1>0
    <3>3. eval'[q] = eval[q]
      BY <1>0
    <3> QED BY <3>1, <3>2, <3>3
  <2>3. SentBy(p, 1)' = {} /\ SentBy(p, 2)' = {}
    <3>1. SentBy(p, 1) = {} /\ SentBy(p, 2) = {}
      <4>1. Trying(p) /\ eval[p].at = "new"
        BY <1>2 DEF BeginPoint, DispatchInv
      <4> QED BY <4>1 DEF Trying
    <3>2. Happened("sent")' = Happened("sent") /\ \A i \in Happened("sent") : done'[i] = done[i]
      <4>1. CASE done' = done
        BY <4>1 DEF Happened
      <4>2. CASE NoteOf([what |-> "tagged", p |-> p])
        <5> DEFINE m == [what |-> "tagged", p |-> p]
        <5>1. m.what # "sent" /\ NoteOf(m)
          BY <4>2
        <5> HIDE DEF m
        <5>2. Happened("sent")' = Happened("sent")
          BY <1>0, <5>1, HappensNext
        <5>3. \A i \in DOMAIN done : done'[i] = done[i]
          BY <1>0, <5>1, NotesGrow DEF NoteOf
        <5>4. Happened("sent") \subseteq DOMAIN done
          BY DEF Happened
        <5> QED BY <5>2, <5>3, <5>4
      <4> QED BY <2>1, <4>1, <4>2
    <3>3. \A a \in {1, 2} : SentBy(p, a)' = SentBy(p, a)
      BY <3>2, SameSent
    <3>4. SentBy(p, 1)' = SentBy(p, 1) /\ SentBy(p, 2)' = SentBy(p, 2)
      BY <3>3, Zenon
    <3> QED BY <3>1, <3>4, Zenon
  <2>4. eval'[p].at = flow /\ eval'[p].ctx = c /\ eval'[p].tries = 0 /\ holds'[c].target = t
    <3>1. /\ eval'[p] = [Idle EXCEPT !.at = flow, !.ctx = c]
          /\ holds'[c] = [point |-> p, dropped |-> FALSE, target |-> t]
      BY <1>0
    <3>2. [point |-> p, dropped |-> FALSE, target |-> t].target = t
      OBVIOUS
    <3> DEFINE new == [Idle EXCEPT !.at = flow, !.ctx = c]
    <3>3. new.at = flow /\ new.ctx = c /\ new.tries = 0
      BY DEF Idle
    <3> QED BY <3>1, <3>2, <3>3, Zenon
  <2>5. TargetKnown(p)'
    <3>1. t = "" => TargetKnown(p)'
      BY <2>4 DEF TargetKnown
    <3>2. ASSUME t # "" PROVE \E j \in Happened("tagged")' : done'[j].p = p
      <4> DEFINE n == [what |-> "tagged", p |-> p]
      <4>1. NoteOf(n)
        BY <3>2 DEF Noted, Tagged, NoteOf
      <4>2. Len(done) + 1 \in Happened("tagged")' /\ done'[Len(done) + 1] = n
        <5>1. n.what = "tagged"
          OBVIOUS
        <5> HIDE DEF n
        <5> QED BY <1>0, <4>1, <5>1, HappensNext, NotesGrow DEF NoteOf
      <4>3. n.p = p
        OBVIOUS
      <4> QED BY <4>2, <4>3
    <3> QED BY <3>1, <3>2, <2>4, Zenon DEF TargetKnown
  <2>6. Trying(p)'
    <3>1. Cardinality({}) = 0 /\ 0 < Retries
      BY RetriesPositive
    <3>2. Retries' = Retries
      BY DEF Retries
    <3>3. eval'[p].at \in Flows /\ SentBy(p, 1)' = {} /\ SentBy(p, 2)' = {}
      BY <2>3, <2>4 DEF FlowTypes
    <3>4. eval'[p].at # "new" /\ ~AtAction(p, 2)'
      <4>1. eval'[p].at \notin {"new", "dispatch2", "pause2"}
        BY <3>3 DEF Flows, Generators
      <4>2. AtAction(p, 2)' => eval'[p].at \in {"dispatch2", "pause2"}
        BY AtPlaces
      <4> QED BY <4>1, <4>2
    <3>5. \A a \in {1, 2} : AtAction(p, a)' =>
            /\ Cardinality(SentBy(p, a)') = eval'[p].tries
            /\ \A j \in SentBy(p, a)' : ~done'[j].ok
      BY <2>3, <2>4, <3>1
    <3> QED BY <2>3, <2>4, <2>5, <3>1, <3>2, <3>4, <3>5 DEF Trying
  <2>7. done' = done \/ \E n : NoteOf(n) /\ n.what # "sent"
    <3>1. [what |-> "tagged", p |-> p].what # "sent"
      OBVIOUS
    <3> QED BY <2>1, <3>1, Zenon
  <2> QED BY <1>0, <2>2, <2>6, <2>7, NothingSent
\* The others rest at no action afterwards.
<1>3. ASSUME NEW p \in Points, eval'[p].at \notin {"new", "dispatch", "pause", "dispatch2", "pause2"}
      PROVE  Trying(p)'
  <2>1. \A a \in {1, 2} : ~AtAction(p, a)'
    BY <1>3 DEF AtAction
  <2> QED BY <1>3, <2>1 DEF Trying
<1>4. ASSUME NEW p \in Points, FinishPoint(p) PROVE DispatchInv'
  <2>1. eval'[p].at = "over" /\ \A q \in Points \ {p} : eval'[q] = eval[q]
    BY <1>0, <1>4 DEF FinishPoint, Progress
  <2>2. \A q \in Points \ {p} : \A a \in {1, 2} : AtAction(q, a) =>
          holds'[eval[q].ctx].target = holds[eval[q].ctx].target
    <3> SUFFICES ASSUME NEW q \in Points \ {p}, NEW a \in {1, 2}, AtAction(q, a)
                 PROVE  holds'[eval[q].ctx].target = holds[eval[q].ctx].target
      OBVIOUS
    <3>1. eval[q].ctx \in Contexts /\ holds[eval[q].ctx].point = q
      BY AtActionOwns
    <3>2. eval[p].ctx \in Contexts /\ holds[eval[p].ctx].point = p
      BY <1>4 DEF FinishPoint, OwnContext
    <3>3. holds' = [holds EXCEPT ![eval[p].ctx] = Empty]
      BY <1>4 DEF FinishPoint
    <3> QED BY <1>0, <3>1, <3>2, <3>3
  <2> QED BY <1>0, <1>3, <1>4, <2>1, <2>2, NothingSent DEF FinishPoint
<1>5. ASSUME NEW p \in Points, NEW place \in Stops \ {"new", "dispatch", "pause", "dispatch2", "pause2"},
             Move(p, place),
             \A c \in Contexts : holds'[c].target = holds[c].target,
             done' = done \/ \E n : NoteOf(n) /\ n.what # "sent"
      PROVE  DispatchInv'
  <2>1. eval'[p].at = place /\ \A q \in Points \ {p} : eval'[q] = eval[q]
    BY <1>0, <1>5 DEF Move, Progress
  <2>2. \A q \in Points : \A a \in {1, 2} : AtAction(q, a) => eval[q].ctx \in Contexts
    BY DEF OwnContext, AtAction
  <2> QED BY <1>0, <1>3, <1>5, <2>1, <2>2, NothingSent
<1>f. "finish" \in Stops \ {"new", "dispatch", "pause", "dispatch2", "pause2"}
      /\ "answer" \in Stops \ {"new", "dispatch", "pause", "dispatch2", "pause2"}
  BY DEF Stops
<1>13. ASSUME NEW p \in Points, Look(p) PROVE DispatchInv'
  <2>1. eval'[p].at = "check" /\ \A q \in Points \ {p} : eval'[q] = eval[q]
    BY <1>0, <1>13 DEF Look, Progress
  <2>2. NoteOf([what |-> "looked", p |-> p])
    BY <1>13 DEF Look, Note, NoteOf, Noted, LookedUp
  <2>3. [what |-> "looked", p |-> p].what # "sent"
    OBVIOUS
  <2>4. holds' = holds
    BY <1>13 DEF Look
  <2>5. Trying(p)'
    BY <1>3, <2>1
  <2> QED BY <1>0, <2>1, <2>2, <2>3, <2>4, <2>5, NothingSent
<1>6. ASSUME NEW p \in Points, Generate(p) \/ UseOrAsk(p) \/ StorePrice(p) \/ DelayInner(p)
                               \/ SubChainAsync(p) \/ CancelPause(p)
      PROVE  DispatchInv'
  <2>1. \E place \in {"finish", "answer"} : Move(p, place)
    BY <1>6 DEF Generate, UseOrAsk, StorePrice, DelayInner, SubChainAsync, CancelPause
  <2>2. holds' = holds
    BY <1>6 DEF Generate, UseOrAsk, StorePrice, DelayInner, SubChainAsync, CancelPause
  <2>3. done' = done \/ \E n : done' = Append(done, n) /\ n.what # "sent"
    <3>1. ASSUME Generate(p) PROVE done' = done \/ \E n : done' = Append(done, n) /\ n.what # "sent"
      <4>1. PICK ts : done' = IF IsDue(ts) THEN Append(done, [what |-> "made", ts |-> ts]) ELSE done
        BY <3>1 DEF Generate
      <4>2. [what |-> "made", ts |-> ts].what # "sent"
        OBVIOUS
      <4> QED BY <4>1, <4>2, Zenon
    <3>2. ASSUME UseOrAsk(p) PROVE \E n : done' = Append(done, n) /\ n.what # "sent"
      <4>1. HitNote(eval[p].entry).what # "sent" /\ AskedNote(p).what # "sent"
        BY DEF HitNote, AskedNote
      <4> QED BY <3>2, <4>1, Zenon DEF UseOrAsk, Note, HitNote, AskedNote
    <3>3. ASSUME StorePrice(p) PROVE \E n : done' = Append(done, n) /\ n.what # "sent"
      <4>1. [what |-> "stored", p |-> p, price |-> eval[p].sent, at |-> tick].what # "sent"
        OBVIOUS
      <4> QED BY <3>3, <4>1, Zenon DEF StorePrice, Note
    <3> QED BY <1>6, <3>1, <3>2, <3>3 DEF DelayInner, SubChainAsync, CancelPause
  <2>4. done' \in Seq(Noted)
    BY DEF FlowTypes
  <2>5. done' = done \/ \E n : NoteOf(n) /\ n.what # "sent"
    BY <1>0, <2>3, <2>4 DEF NoteOf
  <2> QED BY <1>5, <1>f, <2>1, <2>2, <2>5
<1>7. ASSUME NEW p \in Points, MarketAnswer(p) PROVE DispatchInv'
  <2>1. eval'[p].at \in {"store", "finish"} /\ \A q \in Points \ {p} : eval'[q] = eval[q]
    BY <1>0, <1>7 DEF MarketAnswer, Move, Progress
  <2> QED BY <1>0, <1>3, <1>7, <2>1, NothingSent DEF MarketAnswer
<1>8. ASSUME NEW c \in Contexts \cup {NoPoint}, NEW p \in Points, DropPoint(c, p)
      PROVE  /\ \A x \in Contexts : holds'[x].target = holds[x].target
             /\ done' = done \/ \E n : NoteOf(n) /\ n.what # "sent"
  <2>1. done' = done \/ \E n : NoteOf(n) /\ n.what # "sent"
    BY <1>8, DropsQuietly
  <2>2. \A x \in Contexts : holds'[x].target = holds[x].target
    BY <1>0, <1>8 DEF DropPoint, Contents
  <2> QED BY <2>1, <2>2
<1>9. ASSUME NEW p \in Points, SubChainSync(p) PROVE DispatchInv'
  <2>1. eval[p].ctx \in Contexts
    BY <1>9 DEF SubChainSync, OwnContext
  <2> QED BY <1>5, <1>8, <1>9, <1>f, <2>1 DEF SubChainSync
<1>10. ASSUME NEW w \in later, RunLater(w) PROVE DispatchInv'
  <2>1. w.ctx \in Contexts \cup {NoPoint} /\ w.for \in Points
    BY DEF FlowTypes, Works
  <2>2. \A q \in Points : \A a \in {1, 2} : AtAction(q, a) => eval[q].ctx \in Contexts
    BY DEF OwnContext, AtAction
  <2> QED BY <1>0, <1>8, <1>10, <2>1, <2>2, NothingSent DEF RunLater
<1>11. ASSUME NEW p \in Points, Paused(p) PROVE DispatchInv'
  <2> PICK a \in {1, 2} : a = ActionOf(p)
    BY DEF ActionOf
  <2>0. a \in {1, 2} /\ AtAction(p, a) /\ (eval[p].at = "pause" <=> a = 1)
    BY <1>11 DEF Paused, ActionOf, AtAction
  <2>1. /\ Cardinality(SentBy(p, a)) = eval[p].tries /\ \A j \in SentBy(p, a) : ~done[j].ok
        /\ TargetKnown(p) /\ (a = 1 => SentBy(p, 2) = {})
    BY <2>0 DEF DispatchInv, Trying
  <2>2. \A q \in Points \ {p} : eval'[q] = eval[q]
    BY <1>0, <1>11 DEF Paused, Move
  <2>3. holds' = holds /\ done' = done
    BY <1>11 DEF Paused
  <2>4. \A x \in {1, 2} : SentBy(p, x)' = SentBy(p, x)
    BY <2>3 DEF SentBy, Happened
  <2>5. Trying(p)'
    <3>1. CASE eval[p].tries < Retries
      <4>1. Move(p, IF a = 1 THEN "dispatch" ELSE "dispatch2")
        BY <1>11, <2>0, <3>1 DEF Paused
      <4>2. /\ eval'[p].at = (IF a = 1 THEN "dispatch" ELSE "dispatch2")
            /\ eval'[p].ctx = eval[p].ctx /\ eval'[p].tries = eval[p].tries
        BY <1>0, <4>1 DEF Move, Progress
      <4>3. \A x \in {1, 2} : AtAction(p, x)' <=> x = a
        BY <2>0, <4>2 DEF AtAction
      <4>4. TargetKnown(p)'
        BY <2>0, <2>1, <2>3, <2>4, <4>2, <4>3 DEF TargetKnown, AtAction, Happened
      <4>5. Retries' = Retries
        BY DEF Retries
      <4> QED BY <2>0, <2>1, <2>3, <2>4, <3>1, <4>2, <4>3, <4>4, <4>5 DEF Trying
    <3>2. CASE ~(eval[p].tries < Retries)
      <4>1. eval' = [eval EXCEPT ![p] = PastAction(p)] /\ eval[p] \in Progress
        BY <1>0, <1>11, <3>2 DEF Paused
      <4>2. /\ eval'[p].at \in {"dispatch2", "finish"} /\ (eval'[p].at = "dispatch2" => a = 1)
            /\ eval'[p].ctx = eval[p].ctx /\ eval'[p].tries = 0
        BY <1>0, <4>1, PastIsProgress
      <4>3. CASE eval'[p].at = "finish"
        BY <1>3, <4>3
      <4>4. CASE eval'[p].at = "dispatch2"
        <5>1. \A x \in {1, 2} : AtAction(p, x)' <=> x = 2
          BY <4>4 DEF AtAction
        <5>2. SentBy(p, 2)' = {} /\ Cardinality({}) = 0 /\ 0 < Retries
          BY <2>1, <2>4, <4>2, <4>4, FS_EmptySet, RetriesPositive
        <5>3. TargetKnown(p)'
          BY <2>0, <2>1, <2>3, <2>4, <4>2, <4>4 DEF TargetKnown, AtAction, Happened
        <5>4. Retries' = Retries
          BY DEF Retries
        <5> QED BY <4>2, <4>4, <5>1, <5>2, <5>3, <5>4 DEF Trying
      <4> QED BY <4>2, <4>3, <4>4
    <3> QED BY <3>1, <3>2
  <2> QED BY <1>0, <2>2, <2>3, <2>5, NothingSent
<1>12. ASSUME NEW p \in Points, Dispatch(p) PROVE DispatchInv'
  <2> PICK a \in {1, 2} : a = ActionOf(p)
    BY DEF ActionOf
  <2> PICK k \in Nat : k = Len(done) + 1
    BY <1>0
  <2> PICK c : c = eval[p].ctx
    OBVIOUS
  <2> PICK executed, ok \in BOOLEAN :
       /\ Note([what |-> "sent", p |-> p, by |-> ActionOf(p), to |-> Target(p),
                executed |-> executed, ok |-> ok])
       /\ IF ok
          THEN /\ holds' = [holds EXCEPT ![eval[p].ctx].target = Target(p)]
               /\ eval' = [eval EXCEPT ![p] = PastAction(p)]
          ELSE /\ eval' = [eval EXCEPT ![p].tries = @ + 1,
                                     ![p].at = IF ActionOf(p) = 1 THEN "pause" ELSE "pause2"]
               /\ UNCHANGED holds
    BY <1>12 DEF Dispatch
  <2> DEFINE n == [what |-> "sent", p |-> p, by |-> a, to |-> Target(p),
                   executed |-> executed, ok |-> ok]
  <2>0. a \in {1, 2} /\ AtAction(p, a) /\ eval[p] \in Progress /\ c \in Contexts
        /\ eval[p].at = (IF a = 1 THEN "dispatch" ELSE "dispatch2") /\ holds[c] \in Contents
        /\ holds[c].point = p
    BY <1>0, <1>12 DEF Dispatch, ActionOf, AtAction, OwnContext
  <2>1. /\ Cardinality(SentBy(p, a)) = eval[p].tries /\ eval[p].tries < Retries
        /\ \A j \in SentBy(p, a) : ~done[j].ok
        /\ TargetKnown(p) /\ (a = 1 => SentBy(p, 2) = {})
        /\ IsFiniteSet(SentBy(p, a))
    BY <1>0, <2>0 DEF DispatchInv, Trying, Kept
  <2>2. NoteOf(n)
    <3>1. done' = Append(done, n) /\ done' \in Seq(Noted)
      BY DEF FlowTypes, Note
    <3>2. done'[Len(done')] = n /\ Len(done') = Len(done) + 1
      BY <1>0, <3>1
    <3> QED BY <1>0, <3>1, <3>2 DEF NoteOf
  <2>3. /\ Happened("sent")' = Happened("sent") \cup {k} /\ k \notin Happened("sent")
        /\ Happened("tagged")' = Happened("tagged")
        /\ \A i \in Happened("sent") \cup Happened("tagged") : done'[i] = done[i] /\ i < k /\ i \in Nat
        /\ done'[k] = n
    <3>1. n.what = "sent"
      OBVIOUS
    <3> HIDE DEF n
    <3> QED BY <1>0, <2>2, <3>1, HappensNext, NotesGrow DEF NoteOf, Happened
  <2>4. n.p = p /\ n.by = a /\ n.ok = ok /\ n.to = Target(p)
    OBVIOUS
  <2> HIDE DEF n
  <2>5. /\ SentBy(p, a)' = SentBy(p, a) \cup {k} /\ k \notin SentBy(p, a)
        /\ \A q \in Points, x \in {1, 2} : ~(q = p /\ x = a) => SentBy(q, x)' = SentBy(q, x)
    BY <2>3, <2>4, OneMoreSent
  <2>7. IsFiniteSet(SentBy(p, a)') /\ Cardinality(SentBy(p, a)') = eval[p].tries + 1
    <3>1. /\ IsFiniteSet(SentBy(p, a) \cup {k})
          /\ Cardinality(SentBy(p, a) \cup {k}) = Cardinality(SentBy(p, a)) + 1
      BY <2>1, <2>5, FS_AddElement
    <3>2. SentBy(p, a)' = SentBy(p, a) \cup {k}
      BY <2>5
    <3> QED BY <2>1, <3>1, <3>2, Zenon
  <2>8. \A q \in Points, x \in {1, 2} : Kept(q, x)'
    <3> SUFFICES ASSUME NEW q \in Points, NEW x \in {1, 2} PROVE Kept(q, x)'
      OBVIOUS
    <3>0. Retries' = Retries
      BY DEF Retries
    <3>1. CASE q = p /\ x = a
      <4>1. IsFiniteSet(SentBy(q, x)') /\ Cardinality(SentBy(q, x)') <= Retries
        <5>1. eval[p].tries + 1 <= Retries
          BY <1>0, <2>1, RetriesPositive
        <5> QED BY <2>7, <3>1, <5>1
      <4>2. SentBy(q, x)' = SentBy(p, a) \cup {k}
        BY <2>5, <3>1
      <4>3. \A j \in SentBy(p, a) : done'[j] = done[j] /\ ~done[j].ok /\ j < k /\ j \in Nat
        BY <2>1, <2>3 DEF SentBy
      <4>4. ASSUME NEW i \in SentBy(q, x)', NEW j \in SentBy(q, x)', j < i
            PROVE  ~done'[j].ok
        <5>2. j # k
          BY <4>2, <4>3, <4>4
        <5> QED BY <4>2, <4>3, <5>2
      <4> QED BY <3>0, <4>1, <4>4 DEF Kept
    <3>2. CASE ~(q = p /\ x = a)
      <4>1. SentBy(q, x)' = SentBy(q, x) /\ \A j \in SentBy(q, x) : done'[j] = done[j]
        BY <2>3, <2>5, <3>2 DEF SentBy
      <4> QED BY <3>0, <4>1 DEF Kept, DispatchInv
    <3> QED BY <3>1, <3>2
  <2>9. SentHome'
    <3> SUFFICES ASSUME NEW i \in Happened("sent")', done'[i].to # Own[done'[i].by]
                 PROVE  \/ \E j \in Happened("tagged")' : done'[j].p = done'[i].p
                        \/ \E j \in Happened("sent")' :
                             /\ j < i /\ done'[j].p = done'[i].p /\ done'[j].by < done'[i].by
                             /\ done'[j].ok /\ done'[j].to = done'[i].to
      BY DEF SentHome
    <3>1. CASE i = k
      <4>1. Target(p) # Own[a] /\ done'[i].p = p /\ done'[i].by = a /\ done'[i].to = Target(p)
        BY <2>3, <2>4, <3>1
      <4>2. holds[c].target # "" /\ Target(p) = holds[c].target
        BY <4>1 DEF Target
      <4>3. CASE \E j \in Happened("tagged") : done[j].p = p
        BY <2>3, <4>1, <4>3
      <4>4. CASE AtAction(p, 2) /\ \E j \in SentBy(p, 1) : done[j].ok /\ done[j].to = holds[c].target
        <5>1. a = 2
          BY <2>0, <4>4 DEF AtAction
        <5>2. PICK j \in SentBy(p, 1) : done[j].ok /\ done[j].to = holds[c].target
          BY <4>4
        <5>3. j \in Happened("sent") /\ done[j].p = p /\ done[j].by = 1 /\ done'[j] = done[j] /\ j < k
          BY <2>3 DEF SentBy
        <5>4. done'[j].by < done'[i].by
          BY <4>1, <5>1, <5>3
        <5>5. j \in Happened("sent")' /\ j < i /\ done'[j].p = done'[i].p
              /\ done'[j].ok /\ done'[j].to = done'[i].to
          BY <2>3, <3>1, <4>1, <4>2, <5>2, <5>3
        <5> QED BY <5>4, <5>5
      <4> QED BY <2>1, <4>2, <4>3, <4>4 DEF TargetKnown
    <3>2. CASE i \in Happened("sent")
      <4>1. done'[i] = done[i]
        BY <2>3, <3>2
      <4>2. CASE \E j \in Happened("tagged") : done[j].p = done[i].p
        BY <2>3, <4>1, <4>2
      <4>3. CASE \E j \in Happened("sent") :
                   /\ j < i /\ done[j].p = done[i].p /\ done[j].by < done[i].by
                   /\ done[j].ok /\ done[j].to = done[i].to
        BY <2>3, <4>1, <4>3
      <4> QED BY <3>2, <4>1, <4>2, <4>3 DEF DispatchInv, SentHome
    <3> QED BY <2>3, <3>1, <3>2
  <2>10. ASSUME NEW q \in Points, q # p PROVE Trying(q)'
    <3>1. eval'[q] = eval[q]
      BY <1>0, <2>10
    <3>2. \A x \in {1, 2} : AtAction(q, x)' = AtAction(q, x)
      BY <3>1 DEF AtAction
    <3>3. \A x \in {1, 2} : AtAction(q, x) => eval[q].ctx # c /\ eval[q].ctx \in Contexts
      BY <2>0, <2>10 DEF AtAction, OwnContext
    <3>4. \A x \in {1, 2} : AtAction(q, x) =>
            holds'[eval[q].ctx].target = holds[eval[q].ctx].target
      BY <1>0, <3>3
    <3>5. \A x \in {1, 2} : SentBy(q, x)' = SentBy(q, x)
      BY <2>5, <2>10
    <3>6. \A x \in {1, 2} : \A j \in SentBy(q, x) : done'[j] = done[j]
      BY <2>3 DEF SentBy
    <3>7. ASSUME NEW x \in {1, 2}, AtAction(q, x) PROVE TargetKnown(q)'
      <4>1. TargetKnown(q) /\ holds'[eval[q].ctx].target = holds[eval[q].ctx].target
        BY <3>4, <3>7 DEF DispatchInv, Trying
      <4> QED BY <2>3, <3>1, <3>2, <3>5, <3>6, <4>1 DEF TargetKnown
    <3>8. Retries' = Retries
      BY DEF Retries
    <3> QED BY <3>1, <3>2, <3>5, <3>6, <3>7, <3>8 DEF Trying, DispatchInv
  <2>11. Trying(p)'
    <3>1. CASE ok
      <4>1. /\ eval'[p].at \in {"dispatch2", "finish"} /\ (eval'[p].at = "dispatch2" => a = 1)
            /\ eval'[p].ctx = c /\ eval'[p].tries = 0
        BY <1>0, <2>0, <3>1, PastIsProgress
      <4>2. CASE eval'[p].at = "finish"
        BY <1>3, <4>2
      <4>3. CASE eval'[p].at = "dispatch2"
        <5>1. \A x \in {1, 2} : AtAction(p, x)' <=> x = 2
          BY <4>3 DEF AtAction
        <5>2. SentBy(p, 2)' = {} /\ Cardinality({}) = 0 /\ 0 < Retries
          BY <2>1, <2>5, <4>1, <4>3, FS_EmptySet, RetriesPositive
        <5>3. holds'[c].target = Target(p)
          BY <1>0, <2>0, <3>1 DEF Contents
        <5>4. k \in SentBy(p, 1)' /\ done'[k].ok /\ done'[k].to = Target(p)
          BY <2>3, <2>4, <2>5, <3>1, <4>1, <4>3
        <5>5. TargetKnown(p)'
          BY <4>1, <5>1, <5>3, <5>4 DEF TargetKnown
        <5>6. Retries' = Retries
          BY DEF Retries
        <5> QED BY <4>1, <4>3, <5>1, <5>2, <5>5, <5>6 DEF Trying
      <4> QED BY <4>1, <4>2, <4>3
    <3>2. CASE ~ok
      <4>1. /\ eval'[p].at = (IF a = 1 THEN "pause" ELSE "pause2")
            /\ eval'[p].ctx = c /\ eval'[p].tries = eval[p].tries + 1
        BY <1>0, <2>0, <3>2 DEF Progress
      <4>2. \A x \in {1, 2} : AtAction(p, x)' <=> x = a
        BY <2>0, <4>1 DEF AtAction
      <4>3. holds' = holds
        BY <3>2
      <4>4. \A x \in {1, 2} : \A j \in SentBy(p, x) : done'[j] = done[j] /\ j \in SentBy(p, x)'
        BY <2>3, <2>5 DEF SentBy
      <4>5. TargetKnown(p)'
        <5>1. \A x \in {1, 2} : AtAction(p, x) <=> x = a
          BY <2>0 DEF AtAction
        <5> QED BY <2>1, <2>3, <4>1, <4>2, <4>3, <4>4, <5>1 DEF TargetKnown
      <4>6. \A j \in SentBy(p, a)' : ~done'[j].ok
        <5>2. ~done'[k].ok
          BY <2>3, <2>4, <3>2
        <5>3. \A j \in SentBy(p, a) : ~done'[j].ok
          BY <2>0, <2>1, <4>4
        <5> QED BY <2>5, <5>2, <5>3
      <4>7. a = 1 => SentBy(p, 2)' = {}
        BY <2>1, <2>5
      <4>8. eval'[p].at \in {"pause", "pause2"} /\ (eval'[p].at = "pause" => a = 1)
        BY <2>0, <4>1
      <4>9. \A x \in {1, 2} : AtAction(p, x)' =>
              /\ Cardinality(SentBy(p, x)') = eval'[p].tries
              /\ \A j \in SentBy(p, x)' : ~done'[j].ok
        BY <2>7, <4>1, <4>2, <4>6
      <4>10. AtAction(p, 1)' => SentBy(p, 2)' = {}
        BY <4>2, <4>7
      <4> QED BY <4>5, <4>8, <4>9, <4>10 DEF Trying
    <3> QED BY <3>1, <3>2
  <2> QED BY <2>8, <2>9, <2>10, <2>11 DEF DispatchInv
<1> QED
  BY <1>1, <1>2, <1>4, <1>6, <1>7, <1>9, <1>10, <1>11, <1>12, <1>13 DEF FlowNext

-----------------------------------------------------------------------------
(* The delay and the sub-chain. *)

EffectsInv ==
  /\ flow # "async" => \A w \in later : w.ctx = NoPoint
  /\ \A p \in Points : eval[p].at = "async" => flow = "async"
  /\ \A w \in later : w.ctx # NoPoint =>
       eval[w.for].at \in {"finish", "over"} /\ eval[w.for].ctx = w.ctx
  /\ EffectsHitOwnPoint

\* Evaluations that are over stay so.
LEMMA OverStays ==
  ASSUME FlowBase, FlowNext, NEW p \in Points
  PROVE  /\ eval[p].at = "over" => eval'[p].at = "over"
         /\ eval[p].at \in {"finish", "over"} =>
              eval'[p].at \in {"finish", "over"} /\ eval'[p].ctx = eval[p].ctx
<1>1. Look(p) => eval[p].at = "market"
  BY DEF Look
<1> QED BY <1>1, OneMoves DEF StepsOn

\* What is noted in a step is no drop, or one of which the property holds.
LEMMA DropsAreFit ==
  ASSUME FlowBase, FlowNext, EffectsHitOwnPoint, flow' = flow,
         done' = done \/ \E n : /\ NoteOf(n)
                                /\ n.what = "dropped" /\ n.p # n.by =>
                                     flow = "async" /\ eval[n.by].at = "over" /\ n.by \in Points
  PROVE  EffectsHitOwnPoint'
<1>0. done \in Seq(Noted)
  BY DEF FlowBase, FlowTypes
<1>1. ASSUME NEW i \in Happened("dropped"), done[i].p # done[i].by
      PROVE  flow = "async" /\ eval'[done[i].by].at = "over"
  <2>1. flow = "async" /\ eval[done[i].by].at = "over"
    BY <1>1 DEF EffectsHitOwnPoint
  <2>2. done[i].by \in Points
    BY <1>0, NoteKinds DEF Happened
  <2> QED BY <2>1, <2>2, OverStays
<1>2. CASE done' = done
  BY <1>1, <1>2 DEF EffectsHitOwnPoint, Happened
<1>3. CASE done' # done
  <2> PICK n : /\ NoteOf(n)
               /\ n.what = "dropped" /\ n.p # n.by =>
                    flow = "async" /\ eval[n.by].at = "over" /\ n.by \in Points
    BY <1>3
  <2>1. /\ Happened("dropped")' \subseteq Happened("dropped") \cup {Len(done) + 1}
        /\ \A i \in Happened("dropped") : done'[i] = done[i]
        /\ done'[Len(done) + 1] = n
        /\ Len(done) + 1 \in Happened("dropped")' => n.what = "dropped"
    BY <1>0, HappensNext, NotesGrow DEF NoteOf, Happened
  <2>2. n.what = "dropped" /\ n.p # n.by => flow = "async" /\ eval'[n.by].at = "over"
    BY OverStays
  <2> QED BY <1>1, <2>1, <2>2 DEF EffectsHitOwnPoint
<1> QED BY <1>2, <1>3

LEMMA EffectsStep ==
  ASSUME FlowBase, FlowBase', EffectsInv, FlowNext
  PROVE  EffectsInv'
<1> USE DEF FlowBase
<1>0. done \in Seq(Noted)
  BY SMTT(30) DEF FlowTypes
<1>1. flow' = flow
  BY ZenonT(30)
     DEF FlowNext, TimePasses, BeginPoint, FinishPoint, Generate, Look, UseOrAsk, MarketAnswer,
         StorePrice, Dispatch, Paused, CancelPause, DelayInner, SubChainSync, SubChainAsync, RunLater
<1>2. \A p \in Points : eval'[p].at = "async" => flow' = "async"
  BY <1>1, OneMoves DEF EffectsInv, StepsOn
<1>3. \/ later' \subseteq later
      \/ \E p \in Points : DelayInner(p)
      \/ \E p \in Points : SubChainAsync(p)
  BY ZenonT(30)
     DEF FlowNext, TimePasses, BeginPoint, FinishPoint, Generate, Look, UseOrAsk, MarketAnswer,
         StorePrice, Dispatch, Paused, CancelPause, SubChainSync, RunLater
<1>4. \A w \in later : w.ctx # NoPoint =>
        eval'[w.for].at \in {"finish", "over"} /\ eval'[w.for].ctx = w.ctx
  <2> SUFFICES ASSUME NEW w \in later, w.ctx # NoPoint
               PROVE  eval'[w.for].at \in {"finish", "over"} /\ eval'[w.for].ctx = w.ctx
    OBVIOUS
  <2>1. w.for \in Points
    BY DEF FlowTypes, Works
  <2>2. eval[w.for].at \in {"finish", "over"} /\ eval[w.for].ctx = w.ctx
    BY DEF EffectsInv
  <2> QED BY <2>1, <2>2, OverStays
<1>5. /\ flow # "async" => \A w \in later' : w.ctx = NoPoint
      /\ \A w \in later' : w.ctx # NoPoint =>
           eval'[w.for].at \in {"finish", "over"} /\ eval'[w.for].ctx = w.ctx
  <2>1. CASE later' \subseteq later
    BY <1>4, <2>1 DEF EffectsInv
  <2>2. CASE \E p \in Points : DelayInner(p)
    BY <1>4, <2>2 DEF DelayInner, EffectsInv
  <2>3. ASSUME NEW p \in Points, SubChainAsync(p)
        PROVE  /\ flow = "async"
               /\ \A w \in later' : w.ctx # NoPoint =>
                    eval'[w.for].at \in {"finish", "over"} /\ eval'[w.for].ctx = w.ctx
    <3>1. eval[p].at = "async" /\ Move(p, "finish") /\ "finish" \in Stops
      BY <2>3 DEF SubChainAsync, Stops
    <3>2. eval'[p].at = "finish" /\ eval'[p].ctx = eval[p].ctx
      BY <3>1, Moved
    <3>3. later' = later \cup {[ctx |-> eval[p].ctx, for |-> p]}
      BY <2>3 DEF SubChainAsync
    <3> QED BY <1>4, <3>1, <3>2, <3>3 DEF EffectsInv
  <2> QED BY <1>3, <2>1, <2>2, <2>3
<1>6. EffectsHitOwnPoint'
  <2>1. CASE \E p \in Points : SubChainSync(p)
    <3> PICK p \in Points : SubChainSync(p)
      BY <2>1
    <3>1. eval[p].ctx \in Contexts /\ holds[eval[p].ctx].point = p
      BY DEF SubChainSync, OwnContext
    <3>2. done' = done \/ \E n : NoteOf(n) /\ n.what = "dropped" /\ n.p = p /\ n.by = p
      BY <3>1, DropsQuietly DEF SubChainSync
    <3> QED BY <1>1, <3>2, DropsAreFit DEF EffectsInv
  <2>2. CASE \E w \in later : RunLater(w)
    <3> PICK w \in later : RunLater(w)
      BY <2>2
    <3>1. w.ctx \in Contexts \cup {NoPoint} /\ w.for \in Points
      BY DEF FlowTypes, Works
    <3>2. done' = done \/ \E n : /\ NoteOf(n) /\ n.what = "dropped" /\ n.p = holds[w.ctx].point
                                 /\ n.by = w.for /\ w.ctx # NoPoint
      BY <3>1, DropsQuietly DEF RunLater
    <3>3. ASSUME w.ctx # NoPoint, holds[w.ctx].point # w.for
          PROVE  flow = "async" /\ eval[w.for].at = "over"
      <4>1. eval[w.for].at \in {"finish", "over"} /\ eval[w.for].ctx = w.ctx /\ flow = "async"
        BY <3>3 DEF EffectsInv
      <4> QED BY <3>1, <3>3, <4>1 DEF OwnContext
    <3> QED BY <1>1, <3>1, <3>2, <3>3, DropsAreFit DEF EffectsInv
  <2>3. CASE done' = done \/ \E n : done' = Append(done, n) /\ n.what # "dropped"
    <3>1. done' = done \/ \E n : NoteOf(n) /\ n.what # "dropped"
      <4>1. done' \in Seq(Noted)
        BY DEF FlowTypes
      <4>2. ASSUME NEW n, done' = Append(done, n) PROVE NoteOf(n)
        <5>1. done'[Len(done')] = n /\ Len(done') \in DOMAIN done'
          BY <1>0, <4>2
        <5> QED BY <4>1, <4>2, <5>1 DEF NoteOf
      <4> QED BY <2>3, <4>2
    <3> QED BY <1>1, <3>1, DropsAreFit DEF EffectsInv
  <2>4. ASSUME NEW p \in Points, BeginPoint(p)
        PROVE done' = done \/ \E n : done' = Append(done, n) /\ n.what # "dropped"
    <3>1. [what |-> "tagged", p |-> p].what # "dropped"
      OBVIOUS
    <3>2. done' = done \/ done' = Append(done, [what |-> "tagged", p |-> p])
      BY <2>4 DEF BeginPoint
    <3> QED BY <3>1, <3>2, Zenon
  <2>5. ASSUME NEW p \in Points, Generate(p)
        PROVE done' = done \/ \E n : done' = Append(done, n) /\ n.what # "dropped"
    <3>1. PICK ts : done' = done \/ done' = Append(done, [what |-> "made", ts |-> ts])
      BY <2>5 DEF Generate
    <3>2. [what |-> "made", ts |-> ts].what # "dropped"
      OBVIOUS
    <3> QED BY <3>1, <3>2, Zenon
  <2>6. ASSUME NEW p \in Points, Look(p) \/ UseOrAsk(p) \/ StorePrice(p)
        PROVE \E n : done' = Append(done, n) /\ n.what # "dropped"
    <3>1. /\ [what |-> "looked", p |-> p].what # "dropped"
          /\ HitNote(eval[p].entry).what # "dropped" /\ AskedNote(p).what # "dropped"
          /\ [what |-> "stored", p |-> p, price |-> eval[p].sent, at |-> tick].what # "dropped"
      BY DEF HitNote, AskedNote
    <3> QED BY <2>6, <3>1, Zenon DEF Look, UseOrAsk, StorePrice, Note, HitNote, AskedNote
  <2>7. ASSUME NEW p \in Points, Dispatch(p)
        PROVE \E n : done' = Append(done, n) /\ n.what # "dropped"
    <3>1. PICK executed, ok :
            done' = Append(done, [what |-> "sent", p |-> p, by |-> ActionOf(p), to |-> Target(p),
                                  executed |-> executed, ok |-> ok])
      BY <2>7 DEF Dispatch, Note
    <3>2. [what |-> "sent", p |-> p, by |-> ActionOf(p), to |-> Target(p),
           executed |-> executed, ok |-> ok].what # "dropped"
      OBVIOUS
    <3> QED BY <3>1, <3>2, Zenon
  <2>8. ASSUME NEW p \in Points,
               \/ TimePasses \/ FinishPoint(p) \/ MarketAnswer(p) \/ Paused(p) \/ CancelPause(p)
               \/ DelayInner(p) \/ SubChainAsync(p)
        PROVE  done' = done
    BY <2>8 DEF TimePasses, FinishPoint, MarketAnswer, Paused, CancelPause, DelayInner, SubChainAsync
  <2>9. TimePasses => done' = done
    BY DEF TimePasses
  <2> QED BY <2>1, <2>2, <2>3, <2>4, <2>5, <2>6, <2>7, <2>8, <2>9 DEF FlowNext
<1> QED BY <1>1, <1>2, <1>5, <1>6 DEF EffectsInv

-----------------------------------------------------------------------------
FlowInv == FlowBase /\ GeneratorInv /\ PriceInv /\ DispatchInv /\ EffectsInv

LEMMA FlowInvInit == FlowInit => FlowInv
<1> SUFFICES ASSUME FlowInit PROVE FlowInv
  OBVIOUS
<1>1. FlowBase
  BY FlowBaseInit
<1>2. done = << >> /\ later = {} /\ \A what : Happened(what) = {}
  BY DEF FlowInit, FlowInitIn, Happened
<1>3. GeneratorInv
  BY <1>2 DEF GeneratorInv, GeneratedApart
<1>4. memory.price = -1 /\ memory.until = 0 /\ tick = 0
  BY DEF FlowInit, FlowInitIn, Nothing
<1>6. \A p \in Points : eval[p].at = "new"
  BY DEF FlowInit, FlowInitIn, Idle
<1>5. PriceInv
  BY <1>2, <1>4, <1>6, FlowAssumption DEF PriceInv, PricesAreFresh
<1>7. \A p \in Points, a \in {1, 2} : SentBy(p, a) = {} /\ ~AtAction(p, a)
  BY <1>2, <1>6 DEF SentBy, AtAction
<1>8. \A p \in Points : Trying(p)
  BY <1>6, <1>7 DEF Trying
<1>9. \A p \in Points, a \in {1, 2} : Kept(p, a)
  BY <1>7, FS_EmptySet, RetriesPositive DEF Kept
<1>10. SentHome
  BY <1>2 DEF SentHome
<1>11. EffectsInv
  BY <1>2, <1>6 DEF EffectsInv, EffectsHitOwnPoint
<1> QED BY <1>1, <1>3, <1>5, <1>8, <1>9, <1>10, <1>11 DEF FlowInv, DispatchInv

LEMMA FlowInvStep ==
  ASSUME FlowInv, [FlowNext]_flowVars
  PROVE  FlowInv'
<1>1. CASE FlowNext
  <2>1. FlowBase'
    BY <1>1, FlowBaseStep DEF FlowInv
  <2> QED BY <1>1, <2>1, GeneratorStep, PriceStep, DispatchStep, EffectsStep DEF FlowInv
<1>2. CASE UNCHANGED flowVars
  <2>1. FlowBase'
    BY <1>2 DEF flowVars, FlowInv, FlowBase, FlowTypes, OwnContext
  <2>2. /\ flow' = flow /\ tick' = tick /\ eval' = eval /\ memory' = memory /\ later' = later
        /\ done' = done /\ holds' = holds
    BY <1>2 DEF flowVars
  <2>4. GeneratorInv'
    BY <2>2 DEF FlowInv, GeneratorInv, GeneratedApart, Happened, ReadTime
  <2>5. PriceInv'
    BY <2>2 DEF FlowInv, PriceInv, PricesAreFresh, HasLooked, Covers, Happened
  <2>6. EffectsInv'
    BY <2>2 DEF FlowInv, EffectsInv, EffectsHitOwnPoint, Happened
  <2>3. DispatchInv'
    <3>1. done \in Seq(Noted) /\ done' = done /\ eval' = eval /\ holds' = holds
      BY <1>2 DEF flowVars, FlowInv, FlowBase, FlowTypes
    <3> QED BY <3>1, NothingSent DEF FlowInv
  <2> QED BY <2>1, <2>3, <2>4, <2>5, <2>6 DEF FlowInv
<1> QED BY <1>1, <1>2

\* Messages of a generator come apart, prices are fresh, commands are sent no
\* more often than configured and to their own target, and what an evaluation
\* started drops its own data (msg_generator.go, market.go, dispatch.go,
\* delay.go, sub_chain.go): for every number of points, contexts and retries.
THEOREM OutsideEffectsAreKept == FlowSpec => []OutsideEffectsKept
<1>1. FlowInv => OutsideEffectsKept
  BY ToCommandsGoHome DEF FlowInv, OutsideEffectsKept, OutsideCallsKept, GeneratorInv, PriceInv, EffectsInv
<1> QED BY <1>1, FlowInvInit, FlowInvStep, PTL DEF FlowSpec

-----------------------------------------------------------------------------
(***************************************************************************)
(* The nodes that read and write a data point, for every chain and every   *)
(* number of evaluations.  What one action may change is bounded           *)
(* (Bounded), which reduces a step to that of a rule, asked or passed      *)
(* over, or an arrival (Evaluated, Arrived); each property then has an     *)
(* invariant of its own: the value and its predecessor between two         *)
(* evaluations (ChangesInv), the mark of the limits before the second rule *)
(* reads it (LimitsInv), the value that was calculated last (StoredInv),   *)
(* the dates of alarms (AlarmIsDated), and the last reading, day and sum   *)
(* of the meter (MeterInv).                                                *)
(***************************************************************************)

LEMMA Least ==
  ASSUME NEW T, T \subseteq Nat, T # {}
  PROVE  \E x \in T : \A y \in T : x <= y
<1> DEFINE R == OpToRel(<, Nat)
<1>1. IsWellFoundedOn(R, Nat)
  BY NatLessThanWellFounded
<1>2. \A x, y \in Nat : x < y => <<x, y>> \in R
  BY DEF OpToRel
<1> HIDE DEF R
<1>3. PICK x \in T : \A y \in T : ~ (<<y, x>> \in R)
  BY <1>1, WFMin
<1>4. ASSUME NEW y \in T PROVE x <= y
  <2>1. x \in Nat /\ y \in Nat
    OBVIOUS
  <2>2. ~ (y < x)
    BY <1>2, <1>3, <2>1
  <2> QED BY <2>1, <2>2
<1> QED BY <1>4

Fields == {"value", "name", "quality", "over", "free", "calc", "alarm", "alarmAt", "targets",
           "dropped", "prev", "prevAt"}
Keeps == {"meter", "stored"}

Shaped(d, o) == Fields \subseteq DOMAIN d /\ Keeps \subseteq DOMAIN o

\* What an action may change of the context, and what it leaves alone.
Bounded(n, r) ==
  /\ Shaped(r.data, r.stores)
  /\ n.is \notin WritesValue => r.data.value = data.value
  /\ r.data.prev = data.prev
  /\ n.is # "calc_node" => r.data.calc = data.calc
  /\ n.is \notin {"alarm_emit", "alarm_notify_ext"} => r.data.alarmAt = data.alarmAt
  /\ n.is # "delta_accumulator" => r.stores.meter = stores.meter
  /\ n.is \notin {"storage_write", "aggregation_write"} => r.stores.stored = stores.stored

LEMMA ResultFields ==
  ASSUME NEW d, NEW o, NEW how
  PROVE  /\ Result(d, o, how).data = d /\ Result(d, o, how).stores = o
         /\ Result(d, o, how).how = how
  BY DEF Result

LEMMA ExecuteBounded ==
  ASSUME Shaped(data, stores), NEW n, NEW r \in Execute(n)
  PROVE  Bounded(n, r)
<1>1. ASSUME NEW d, Shaped(d, stores), d.value = data.value, d.prev = data.prev,
             d.calc = data.calc, d.alarmAt = data.alarmAt,
             r \in Ok(d) \cup Error
      PROVE  Bounded(n, r)
  BY <1>1 DEF Ok, Error, Result, Bounded
<1>2. ASSUME NEW f \in Fields \ {"value", "prev", "calc", "alarmAt"}, NEW v
      PROVE  LET d == [data EXCEPT ![f] = v] IN
             /\ Shaped(d, stores) /\ d.value = data.value /\ d.prev = data.prev
             /\ d.calc = data.calc /\ d.alarmAt = data.alarmAt
  BY DEF Shaped, Fields
<1>3. ASSUME NEW f \in Fields, NEW v
      PROVE  LET d == [data EXCEPT ![f] = v] IN
             /\ Shaped(d, stores) /\ \A g \in Fields : g # f => d[g] = data[g]
  BY DEF Shaped, Fields
<1>4. Shaped(data, stores)
  OBVIOUS
<1>5. ASSUME r \in Ok(data) \cup Error PROVE Bounded(n, r)
  BY <1>1, <1>4, <1>5
\* The value, by an action that writes values.
<1>6. ASSUME NEW v, n.is \in WritesValue \ {"calc_node"}, r \in Ok(SetValue(v)) PROVE Bounded(n, r)
  <2>1. /\ Shaped(SetValue(v), stores) /\ SetValue(v).prev = data.prev
        /\ SetValue(v).calc = data.calc
        /\ SetValue(v).alarmAt = data.alarmAt
    BY <1>3 DEF SetValue, Fields
  <2> QED BY <1>6, <2>1 DEF Ok, Result, Bounded, WritesValue
<1>7. ASSUME NEW v, r \in Ok(SetTag(v)) PROVE Bounded(n, r)
  BY <1>1, <1>2, <1>7 DEF SetTag, Fields
<1>8. ASSUME NEW xs, r \in Ok(AddTargets(xs)) PROVE Bounded(n, r)
  BY <1>1, <1>2, <1>8 DEF AddTargets, Fields
<1>9. ASSUME NEW x, r \in Ok([data EXCEPT !.quality = x]) \cup Ok([data EXCEPT !.over = x])
                         \cup Ok([data EXCEPT !.name = x])
      PROVE  Bounded(n, r)
  BY <1>1, <1>2, <1>9 DEF Fields
<1>10. CASE n.is \in {"rename", "limit_check", "quality_mark", "quality_mark_ext"}
  BY <1>9, <1>10 DEF Execute, LimitCheck, QualityMark, QualityMarkExt
<1>11. CASE n.is \in {"tag", "route", "bit_unpack"}
  BY <1>7, <1>8, <1>11 DEF Execute, BitUnpack
<1>12. CASE n.is \in {"transform", "aggregator"}
  BY <1>5, <1>6, <1>12 DEF Execute, Transform, Aggregator, WritesValue
<1>13. CASE n.is = "bit_pack"
  BY <1>6, <1>7, <1>13 DEF Execute, BitPack, WritesValue
<1>14. CASE n.is = "drop"
  BY <1>4, <1>14 DEF Execute, Result, Bounded
<1>15. CASE n.is = "calc_node"
  <2> DEFINE v == Sum(data.value, 1)
             d == [SetValue(v) EXCEPT !.calc = v]
  <2>1. /\ Shaped(d, stores) /\ d.prev = data.prev /\ d.alarmAt = data.alarmAt
    BY DEF SetValue, Shaped, Fields
  <2>2. r \in Ok(d) \/ r \in Error
    BY <1>15 DEF Execute, CalcNode
  <2> HIDE DEF d
  <2> QED BY <1>5, <1>15, <2>1, <2>2 DEF Ok, Result, Bounded, WritesValue
<1>16. CASE n.is = "storage_write"
  <2>1. PICK xs, v : r \in Ok(AddTargets(xs)) \/ r \in Error
                     \/ r = Result(AddTargets(xs), stores, "error")
                     \/ r = Result(AddTargets(xs), [stores EXCEPT !.stored = v], "ok")
    BY <1>16 DEF Execute, StorageWrite
  <2>2. /\ Shaped(AddTargets(xs), stores) /\ AddTargets(xs).value = data.value
        /\ AddTargets(xs).prev = data.prev
        /\ AddTargets(xs).calc = data.calc /\ AddTargets(xs).alarmAt = data.alarmAt
    BY <1>2 DEF AddTargets, Fields
  <2>3. LET o == [stores EXCEPT !.stored = v] IN
        Shaped(AddTargets(xs), o) /\ o.meter = stores.meter
    BY <2>2 DEF Shaped, Keeps
  <2>4. r \in Ok(AddTargets(xs)) \/ r \in Error => Bounded(n, r)
    BY <1>5, <1>8
  <2>5. r = Result(AddTargets(xs), stores, "error") => Bounded(n, r)
    BY <1>16, <2>2, ResultFields DEF Bounded
  <2> DEFINE o == [stores EXCEPT !.stored = v]
  <2>6. Shaped(AddTargets(xs), o) /\ o.meter = stores.meter
    BY <2>3
  <2> HIDE DEF o
  <2>7. r = Result(AddTargets(xs), o, "ok") => Bounded(n, r)
    BY <1>16, <2>2, <2>6, ResultFields DEF Bounded
  <2> QED BY <2>1, <2>4, <2>5, <2>7 DEF o
<1>17. CASE n.is = "aggregation_write"
  <2>1. PICK v : r \in Ok(data) \cup Error \/ r = Result(data, [stores EXCEPT !.stored = v], "ok")
    BY <1>17 DEF Execute, AggregationWrite
  <2>2. LET o == [stores EXCEPT !.stored = v] IN Shaped(data, o) /\ o.meter = stores.meter
    BY DEF Shaped, Keeps
  <2> DEFINE o == [stores EXCEPT !.stored = v]
  <2>3. Shaped(data, o) /\ o.meter = stores.meter
    BY <2>2
  <2> HIDE DEF o
  <2>4. r = Result(data, o, "ok") => Bounded(n, r)
    BY <1>17, <2>3, ResultFields DEF Bounded
  <2> QED BY <1>5, <2>1, <2>4 DEF o
<1>18. CASE n.is \in {"alarm_emit", "alarm_notify_ext"}
  <2>1. PICK x, y : r \in Ok([data EXCEPT !.alarm = x, !.alarmAt = y])
    BY <1>18, ZenonT(30) DEF Execute, AlarmEmit, AlarmNotifyExt
  <2> DEFINE d == [data EXCEPT !.alarm = x, !.alarmAt = y]
  <2>2. /\ Shaped(d, stores) /\ d.value = data.value /\ d.prev = data.prev
        /\ d.calc = data.calc
    BY DEF Shaped, Fields
  <2>3. r = Result(d, stores, "ok")
    BY <2>1 DEF Ok
  <2> HIDE DEF d
  <2> QED BY <1>18, <2>2, <2>3, ResultFields, SMTT(30) DEF Bounded
<1>19. CASE n.is \in {"expr_switch", "carbon_calc", "status_change_log"}
  BY <1>5, <1>19 DEF Execute, ExprSwitch, CarbonCalc
<1>20. CASE n.is \in {"device_aggregator", "efficiency_calc", "weather_query"}
  BY <1>5, <1>7, <1>20 DEF Execute, DeviceAggregate, EfficiencyCalc, WeatherQuery
<1>21. CASE n.is = "plant_split"
  BY <1>5, <1>8, <1>21 DEF Execute, PlantSplit
<1>22. CASE n.is = "delta_accumulator"
  <2>1. PICK v : r \in Error \/ r = Result(data, [stores EXCEPT !.meter = v], "ok")
    BY <1>22 DEF Execute, DeltaAccumulator
  <2>2. LET o == [stores EXCEPT !.meter = v] IN Shaped(data, o) /\ o.stored = stores.stored
    BY DEF Shaped, Keeps
  <2> DEFINE o == [stores EXCEPT !.meter = v]
  <2>3. Shaped(data, o) /\ o.stored = stores.stored
    BY <2>2
  <2> HIDE DEF o
  <2>4. r = Result(data, o, "ok") => Bounded(n, r)
    BY <1>22, <2>3, ResultFields DEF Bounded
  <2> QED BY <1>5, <2>1, <2>4 DEF o
<1>23. CASE n.is \notin {"transform", "rename", "tag", "drop", "route", "limit_check", "quality_mark",
         "bit_unpack", "bit_pack", "calc_node", "storage_write", "aggregation_write",
         "quality_mark_ext", "alarm_emit", "alarm_notify_ext", "expr_switch", "device_aggregator",
         "aggregator", "carbon_calc", "efficiency_calc", "plant_split", "delta_accumulator",
         "weather_query", "status_change_log"}
  BY <1>5, <1>23 DEF Execute, CallService
<1> QED BY <1>10, <1>11, <1>12, <1>13, <1>14, <1>15, <1>16, <1>17, <1>18, <1>19, <1>20, <1>21,
           <1>22, <1>23

-----------------------------------------------------------------------------
(* The steps. *)

Values == {0, 2, NaN}

PointShape ==
  /\ Shaped(data, stores) /\ ruleOf \in Chains
  /\ now \in Nat /\ turn \in 0 .. 2 /\ (turn # 0 => now > 0)
  /\ DOMAIN matched = {1, 2} /\ arrivals \in [1 .. now -> Values]
  /\ acted \subseteq 1 .. now /\ (turn = 1 => now \notin acted)
  /\ acted # {} => Latest(acted) \in acted /\ \A t \in acted : t <= Latest(acted)
  /\ saves \subseteq 1 .. now /\ (turn # 0 => now \notin saves)
  /\ saves # {} => Latest(saves) \in saves
  /\ turn # 0 => matched[2] = Missing
  /\ turn = 1 => data.value = Came /\ matched[1] = Missing
  /\ stores.stored # Missing => /\ stores.stored.at \in Nat /\ stores.stored.at <= now
                                /\ (turn = 1 => stores.stored.at < now)

\* The turn of a rule, asked or passed over, read off its step: it says hit if it is
\* asked, and what it makes of the context and of what is stored is r.
Evaluated(asked, hit, r, ends, saved) ==
  /\ turn \in {1, 2} /\ now > 0 /\ UNCHANGED <<world, ruleOf, now, arrivals>>
  /\ asked => hit \in Verdicts(ruleOf[turn].when)
  /\ asked /\ hit => r \in Execute(ruleOf[turn].do) /\ Bounded(ruleOf[turn].do, r)
  /\ ~(asked /\ hit) => r.data = data /\ r.stores = stores
  /\ matched' = IF asked THEN [matched EXCEPT ![turn] = hit] ELSE matched
  /\ acted' = IF asked /\ hit /\ turn = 1 THEN acted \cup {now} ELSE acted
  /\ stores' = r.stores /\ Shaped(data', stores')
  /\ \A f \in Fields \ {"dropped", "prev", "prevAt"} : data'[f] = r.data[f]
  /\ data'.prev = (IF ends /\ saved THEN r.data.value ELSE data.prev)
  /\ saves' = (IF ends /\ saved THEN saves \cup {now} ELSE saves)
  /\ turn' = IF ends THEN 0 ELSE 2
  /\ turn = 2 => ends

\* What the turn leaves, d, with the value saved or not.
LEMMA LeaveFields ==
  ASSUME NEW d, NEW ends \in BOOLEAN, NEW saved \in BOOLEAN, Leave(d, ends, saved),
         Shaped(d, stores), d.prev = data.prev
  PROVE  /\ Shaped(data', stores) /\ \A f \in Fields \ {"prev", "prevAt"} : data'[f] = d[f]
         /\ data'.prev = (IF ends /\ saved THEN d.value ELSE data.prev)
<1>1. /\ Shaped(savePreviousValue(d), stores)
      /\ \A f \in Fields \ {"prev", "prevAt"} : savePreviousValue(d)[f] = d[f]
      /\ savePreviousValue(d).prev = d.value
  BY DEF savePreviousValue, Shaped, Fields
<1>2. CASE ends /\ saved
  <2>1. data' = savePreviousValue(d)
    BY <1>2 DEF Leave
  <2> QED BY <1>1, <1>2, <2>1
<1>3. CASE ~(ends /\ saved)
  <2>1. data' = d
    BY <1>3 DEF Leave
  <2> QED BY <1>3, <2>1
<1> QED BY <1>2, <1>3

LEMMA EvaluationOf ==
  ASSUME PointShape, EvaluateRule
  PROVE  \E hit, r, ends, saved : Evaluated(TRUE, hit, r, ends, saved)
<1>0. turn \in {1, 2} /\ now > 0 /\ UNCHANGED <<world, ruleOf, now, arrivals>>
  BY DEF EvaluateRule, PointShape
<1>1. PICK hit \in Verdicts(ruleOf[turn].when) :
     \E result \in IF hit THEN Execute(ruleOf[turn].do) ELSE Ok(data) :
       LET d == [result.data EXCEPT !.dropped = @ \/ result.how = "drop"] IN
       \E ends \in Ends(hit, result.how, d), saved \in BOOLEAN :
         /\ IF saved THEN mishaps' = mishaps ELSE ends /\ Mishap
         /\ matched' = [matched EXCEPT ![turn] = hit]
         /\ stores' = result.stores
         /\ acted' = IF hit /\ turn = 1 THEN acted \cup {now} ELSE acted
         /\ Leave(d, ends, saved)
  BY DEF EvaluateRule
<1>2. PICK r \in IF hit THEN Execute(ruleOf[turn].do) ELSE Ok(data) :
       LET d == [r.data EXCEPT !.dropped = @ \/ r.how = "drop"] IN
       \E ends \in Ends(hit, r.how, d), saved \in BOOLEAN :
         /\ IF saved THEN mishaps' = mishaps ELSE ends /\ Mishap
         /\ matched' = [matched EXCEPT ![turn] = hit]
         /\ stores' = r.stores
         /\ acted' = IF hit /\ turn = 1 THEN acted \cup {now} ELSE acted
         /\ Leave(d, ends, saved)
  BY <1>1
<1> DEFINE d == [r.data EXCEPT !.dropped = @ \/ r.how = "drop"]
<1>3. PICK ends \in Ends(hit, r.how, d), saved \in BOOLEAN :
         /\ IF saved THEN mishaps' = mishaps ELSE ends /\ Mishap
         /\ matched' = [matched EXCEPT ![turn] = hit]
         /\ stores' = r.stores
         /\ acted' = IF hit /\ turn = 1 THEN acted \cup {now} ELSE acted
         /\ Leave(d, ends, saved)
  BY <1>2
<1>4. hit => Bounded(ruleOf[turn].do, r)
  BY <1>2, ExecuteBounded DEF PointShape
<1>5. ~hit => r.data = data /\ r.stores = stores
  BY <1>2, ResultFields DEF Ok
<1>6. Shaped(r.data, r.stores) /\ r.data.prev = data.prev
  BY <1>4, <1>5 DEF Bounded, PointShape
<1>7. Shaped(d, r.stores) /\ \A f \in Fields \ {"dropped"} : d[f] = r.data[f]
  BY <1>6 DEF Shaped, Fields
<1> HIDE DEF d
<1>8. ends \in BOOLEAN /\ (turn = 2 => ends)
  BY <1>0, <1>3 DEF Ends
<1>9. d.prev = data.prev /\ d.value = r.data.value
  BY <1>6, <1>7 DEF Fields
<1>10. /\ Shaped(data', stores) /\ \A f \in Fields \ {"prev", "prevAt"} : data'[f] = d[f]
       /\ data'.prev = (IF ends /\ saved THEN d.value ELSE data.prev)
  <2>1. Shaped(d, stores)
    BY <1>7 DEF PointShape, Shaped
  <2> QED BY <1>3, <1>8, <1>9, <2>1, LeaveFields
<1>11. Shaped(data', stores')
  BY <1>3, <1>6, <1>10 DEF Shaped
<1>12. turn' = (IF ends THEN 0 ELSE 2)
       /\ saves' = (IF ends /\ saved THEN saves \cup {now} ELSE saves)
  BY <1>3 DEF Leave
<1>13. \A f \in Fields \ {"dropped", "prev", "prevAt"} : data'[f] = r.data[f]
  BY <1>7, <1>10
<1>14. data'.prev = (IF ends /\ saved THEN r.data.value ELSE data.prev)
  BY <1>9, <1>10
<1>15. Evaluated(TRUE, hit, r, ends, saved)
  BY <1>0, <1>2, <1>3, <1>4, <1>5, <1>8, <1>11, <1>12, <1>13, <1>14 DEF Evaluated
<1> QED BY <1>15

LEMMA PassOf ==
  ASSUME PointShape, PassOver
  PROVE  \E r, ends, saved : Evaluated(FALSE, FALSE, r, ends, saved)
<1>1. PICK ends \in {turn = 2, TRUE}, saved \in BOOLEAN : Leave(data, ends, saved)
  BY DEF PassOver
<1>2. ends \in BOOLEAN /\ (turn = 2 => ends)
  BY <1>1
<1>3. /\ Shaped(data', stores) /\ \A f \in Fields \ {"prev", "prevAt"} : data'[f] = data[f]
      /\ data'.prev = (IF ends /\ saved THEN data.value ELSE data.prev)
  BY <1>1, <1>2, LeaveFields DEF PointShape
<1>4. turn \in {1, 2} /\ now > 0 /\ UNCHANGED <<world, ruleOf, now, arrivals, matched, stores, acted>>
  BY DEF PassOver, PointShape
<1>5. turn' = (IF ends THEN 0 ELSE 2)
      /\ saves' = (IF ends /\ saved THEN saves \cup {now} ELSE saves)
  BY <1>1 DEF Leave
<1> DEFINE r == Result(data, stores, "ok")
<1>6. r.data = data /\ r.stores = stores
  BY ResultFields
<1> HIDE DEF r
<1>7. Evaluated(FALSE, FALSE, r, ends, saved)
  BY <1>2, <1>3, <1>4, <1>5, <1>6 DEF Evaluated
<1> QED BY <1>7

\* The context as the next value finds it.
Arrived(v) ==
  /\ v \in Values /\ turn = 0 /\ turn' = 1 /\ now' = now + 1
  /\ UNCHANGED <<world, ruleOf, stores, acted, saves>>
  /\ Shaped(data', stores') /\ data'.value = v
  /\ \A f \in Fields \ {"value"} : data'[f] = data[f]
  /\ DOMAIN matched' = {1, 2} /\ matched'[1] = Missing /\ matched'[2] = Missing
  /\ arrivals' \in [1 .. now + 1 -> Values] /\ arrivals'[now + 1] = v
  /\ \A t \in 1 .. now : arrivals'[t] = arrivals[t]

LEMMA ArrivalOf ==
  ASSUME PointShape, NEW v \in Values, Arrive(v)
  PROVE  Arrived(v)
<1>1. /\ Shaped([data EXCEPT !.value = v], stores) /\ [data EXCEPT !.value = v].value = v
      /\ \A f \in Fields \ {"value"} : [data EXCEPT !.value = v][f] = data[f]
  BY DEF PointShape, Shaped, Fields
<1>2. DOMAIN matched' = {1, 2} /\ matched'[1] = Missing /\ matched'[2] = Missing
  BY DEF Arrive
<1>3. now \in Nat /\ now' = now + 1 /\ arrivals \in [1 .. now -> Values]
  BY DEF Arrive, PointShape
<1>4. arrivals' = [t \in 1 .. now + 1 |-> IF t = now + 1 THEN v ELSE arrivals[t]]
  BY <1>3 DEF Arrive
<1>5. /\ arrivals' \in [1 .. now + 1 -> Values] /\ arrivals'[now + 1] = v
      /\ \A t \in 1 .. now : arrivals'[t] = arrivals[t]
  BY <1>3, <1>4
<1>6. turn = 0 /\ turn' = 1 /\ UNCHANGED <<world, ruleOf, stores, acted, saves>> /\ data' = [data EXCEPT !.value = v]
  BY DEF Arrive
<1> QED BY <1>1, <1>2, <1>3, <1>5, <1>6 DEF Arrived

\* What is stored is dated with the evaluation that stored it.
LEMMA StoredAtNow ==
  ASSUME PointShape, NEW n, NEW r \in Execute(n), r.stores.stored # stores.stored
  PROVE  /\ n.is \in {"storage_write", "aggregation_write"} /\ r.stores.stored.at = now
         /\ r.stores.stored.value =
              IF n.is = "storage_write" /\ data.calc # Missing THEN data.calc ELSE data.value
<1>1. n.is \in {"storage_write", "aggregation_write"}
  BY ExecuteBounded DEF Bounded, PointShape
<1>2. "stored" \in DOMAIN stores
  BY DEF PointShape, Shaped, Keeps
<1>3. ASSUME NEW v PROVE Written(v).at = now /\ Written(v).value = v
                         /\ [stores EXCEPT !.stored = Written(v)].stored = Written(v)
  BY <1>2 DEF Written
<1>4. CASE n.is = "storage_write"
  <2> DEFINE result == IF data.calc # Missing THEN data.calc ELSE data.value
  <2>1. r.stores = stores \/ r.stores = [stores EXCEPT !.stored = Written(result)]
    BY <1>4, ResultFields DEF Execute, StorageWrite, Ok
  <2> HIDE DEF result
  <2>2. r.stores = [stores EXCEPT !.stored = Written(result)]
    BY <2>1
  <2>3. r.stores.stored = Written(result) /\ Written(result).at = now /\ Written(result).value = result
    BY <1>3, <2>2
  <2> QED BY <1>4, <2>3 DEF result
<1>5. CASE n.is = "aggregation_write"
  <2>1. r.stores = stores \/ r.stores = [stores EXCEPT !.stored = Written(data.value)]
    BY <1>5, ResultFields DEF Execute, AggregationWrite, Ok, Error
  <2>2. r.stores = [stores EXCEPT !.stored = Written(data.value)]
    BY <2>1
  <2>3. r.stores.stored = Written(data.value) /\ Written(data.value).at = now
        /\ Written(data.value).value = data.value
    BY <1>3, <2>2
  <2> QED BY <1>5, <2>3
<1> QED BY <1>1, <1>4, <1>5

LEMMA ChainShape ==
  ASSUME ruleOf \in Chains
  PROVE  /\ ruleOf[2].do.is \in {"route", "storage_write", "alarm_emit", "quality_mark"}
         /\ ruleOf[2].do.is = "quality_mark" => ruleOf[2].when = Always
<1>1. PICK w1, d1, w2, d2 :
        /\ ruleOf = <<[when |-> w1, do |-> d1], [when |-> w2, do |-> d2]>>
        /\ \/ d2 = NodeOf("route", Node(1, Missing))
           \/ /\ w2 = Always
              /\ d2 \in {NodeOf("storage_write", Node(1, Missing)), NodeOf("alarm_emit", Bare),
                         NodeOf("quality_mark", Node(0, 1))}
  <2> DEFINE Takers == {NodeOf("storage_write", Node(1, Missing)), NodeOf("alarm_emit", Bare),
                      NodeOf("quality_mark", Node(0, 1))}
  <2>1. \A w \in TakenUp : w[2] \in Takers
    BY DEF TakenUp
  <2>2. CASE \E w \in Looks :
               ruleOf = <<[when |-> Always, do |-> w[1]],
                          [when |-> w[2], do |-> NodeOf("route", Node(1, Missing))]>>
    BY <2>2
  <2>3. CASE \E c : \E w \in TakenUp :
               ruleOf = <<[when |-> c, do |-> w[1]], [when |-> Always, do |-> w[2]]>>
    BY <2>1, <2>3
  <2> QED BY <2>2, <2>3 DEF Chains
<1>2. ruleOf[2].do = d2 /\ ruleOf[2].when = w2
  BY <1>1
<1> QED BY <1>1, <1>2 DEF NodeOf

\* The steps.
LEMMA PointSteps ==
  ASSUME PointShape, PointNext
  PROVE  \/ \E v \in Values : Arrived(v)
         \/ \E asked \in BOOLEAN : \E hit, r, ends, saved : Evaluated(asked, hit, r, ends, saved)
  BY ArrivalOf, EvaluationOf, PassOf DEF PointNext, Values

\* The latest of some numbers is one of them.
LEMMA LatestIn ==
  ASSUME NEW k \in Nat, NEW S, S \subseteq 1 .. k, S # {}
  PROVE  Latest(S) \in S /\ \A s \in S : s <= Latest(S)
<1> DEFINE T == {k - s : s \in S}
<1>1. T \subseteq Nat /\ T # {}
  <2>1. \A s \in S : k - s \in Nat
    OBVIOUS
  <2> QED BY <2>1
<1>2. PICK x \in T : \A y \in T : x <= y
  BY <1>1, Least
<1>3. PICK t \in S : x = k - t
  BY <1>2
<1>4. ASSUME NEW s \in S PROVE s <= t
  <2>1. k - s \in T
    OBVIOUS
  <2>2. k - t <= k - s /\ s \in Nat /\ t \in Nat
    BY <1>2, <1>3, <2>1
  <2> QED BY <2>2
<1> QED BY <1>4 DEF Latest

\* The latest of numbers to which a later one is added.
LEMMA LatestAdded ==
  ASSUME NEW k \in Nat, NEW S, S \subseteq 1 .. k
  PROVE  Latest(S \cup {k}) = k
<1>1. \A t \in S \cup {k} : t \in Nat /\ t <= k
  OBVIOUS
<1>2. \A t \in S \cup {k} : (\A s \in S \cup {k} : s <= t) => t = k
  BY <1>1
<1> QED BY <1>1, <1>2 DEF Latest

LEMMA ShapeStep ==
  ASSUME PointShape, PointNext
  PROVE  PointShape'
<1>1. ASSUME NEW v \in Values, Arrived(v) PROVE PointShape'
  <2>1. now \in Nat /\ now' = now + 1 /\ turn' = 1 /\ stores' = stores /\ ruleOf' = ruleOf
        /\ acted' = acted /\ saves' = saves
    BY <1>1 DEF PointShape, Arrived
  <2>2. arrivals' \in [1 .. now' -> Values] /\ data'.value = Came'
    BY <1>1, <2>1 DEF Arrived, Came
  <2>3. stores'.stored # Missing =>
          stores'.stored.at \in Nat /\ stores'.stored.at <= now' /\ stores'.stored.at < now'
    BY <2>1 DEF PointShape
  <2>4. acted' \subseteq 1 .. now' /\ now' \notin acted' /\ saves' \subseteq 1 .. now' /\ now' \notin saves'
    BY <2>1 DEF PointShape
  <2>5. (acted # {} => Latest(acted) \in acted /\ \A t \in acted : t <= Latest(acted))'
        /\ (saves # {} => Latest(saves) \in saves)'
    BY <2>1 DEF PointShape, Latest
  <2> QED BY <1>1, <2>1, <2>2, <2>3, <2>4, <2>5 DEF PointShape, Arrived
<1>2. ASSUME NEW asked \in BOOLEAN, NEW hit, NEW r, NEW ends, NEW saved,
             Evaluated(asked, hit, r, ends, saved)
      PROVE  PointShape'
  <2>0. turn \in {1, 2} /\ now \in Nat /\ now > 0 /\ now' = now /\ turn' = (IF ends THEN 0 ELSE 2)
        /\ DOMAIN matched = {1, 2} /\ stores' = r.stores
    BY <1>2 DEF Evaluated, PointShape
  <2>1. r.stores.stored = stores.stored \/ r.stores.stored.at = now
    BY <1>2, StoredAtNow DEF Evaluated
  <2>2. stores'.stored # Missing => stores'.stored.at \in Nat /\ stores'.stored.at <= now
    BY <2>0, <2>1 DEF PointShape
  <2>3. DOMAIN matched' = {1, 2} /\ (turn' # 0 => matched'[2] = Missing)
    BY <1>2, <2>0 DEF Evaluated, PointShape
  <2>4. /\ acted' \subseteq 1 .. now' /\ saves' \subseteq 1 .. now'
        /\ (turn' # 0 => now' \notin saves')
    <3>1. acted' = acted \/ acted' = acted \cup {now}
      BY <1>2 DEF Evaluated
    <3>2. saves' = saves \/ (saves' = saves \cup {now} /\ turn' = 0)
      BY <1>2 DEF Evaluated
    <3>3. now \in 1 .. now /\ acted \subseteq 1 .. now /\ saves \subseteq 1 .. now /\ now \notin saves
      BY <2>0 DEF PointShape
    <3>4. acted' \subseteq 1 .. now
      BY <3>1, <3>3
    <3>5. saves' \subseteq 1 .. now /\ (turn' # 0 => now \notin saves')
      BY <3>2, <3>3
    <3> QED BY <2>0, <3>4, <3>5
  <2>5. (acted # {} => Latest(acted) \in acted /\ \A t \in acted : t <= Latest(acted))'
        /\ (saves # {} => Latest(saves) \in saves)'
    BY <2>0, <2>4, LatestIn
  <2>6. turn' \in {0, 2} /\ ruleOf' = ruleOf /\ arrivals' = arrivals /\ Shaped(data', stores')
    BY <1>2, <2>0 DEF Evaluated
  <2> QED BY <2>0, <2>2, <2>3, <2>4, <2>5, <2>6 DEF PointShape
<1> QED BY <1>1, <1>2, PointSteps

LEMMA NodeFields ==
  ASSUME NEW is, NEW a, NEW b
  PROVE  NodeOf(is, Node(a, b)).is = is /\ NodeOf(is, Node(a, b)).a = a
         /\ NodeOf(is, Node(a, b)).b = b
  BY DEF NodeOf, Node

\* What calc_node with a formula does.
LEMMA Calculation ==
  ASSUME PointShape, Calculates, NEW r \in Execute(ruleOf[1].do)
  PROVE  r.data.value = Sum(data.value, 1) /\ r.data.calc = Sum(data.value, 1)
<1>1. ruleOf[1].do.is = "calc_node" /\ ruleOf[1].do.a = 1
  BY NodeFields DEF Calculates
<1> DEFINE w == Sum(data.value, 1)
<1>2. r.data = [SetValue(w) EXCEPT !.calc = w]
  BY <1>1, ResultFields DEF Execute, CalcNode, Ok
<1>3. "calc" \in DOMAIN SetValue(w) /\ SetValue(w).value = w
  BY DEF PointShape, Shaped, Fields, SetValue
<1> HIDE DEF w
<1>4. r.data.value = w /\ r.data.calc = w
  BY <1>2, <1>3
<1> QED BY <1>4 DEF w

-----------------------------------------------------------------------------
(* Changes of the value. *)

Lefts == {0, 1, 2, 3, NaN}

ChangesInv ==
  /\ LeavesValue \/ Calculates =>
       /\ now > 0 => data.value = Left(now)
       /\ data.prev = IF saves = {} THEN Missing ELSE Left(Latest(saves))
  /\ ChangesAreOfData

LEMMA LeftsOf ==
  ASSUME PointShape, NEW t \in 1 .. now
  PROVE  Left(t) \in Lefts
<1>1. arrivals[t] \in Values
  BY DEF PointShape
<1>2. NaN \notin Int
  BY PointAssumption
<1> QED BY <1>1, <1>2 DEF Left, Lefts, Values, Sum

LEMMA CalculatesIsNo ==
  Calculates => ~LeavesValue
<1> SUFFICES ASSUME Calculates PROVE ~LeavesValue
  OBVIOUS
<1>1. ruleOf[1].do.is = "calc_node"
  BY NodeFields DEF Calculates
<1>2. 1 \in 1 .. 2
  OBVIOUS
<1> QED BY <1>1, <1>2 DEF LeavesValue, WritesValue

LEMMA ChangeVerdict ==
  ASSUME PointShape, ChangesInv, turn \in {1, 2}, LeavesValue \/ (Calculates /\ turn = 1),
         NEW n, NEW hit \in Verdicts(n)
  PROVE  /\ n = NodeOf("state_change", Bare) => hit = (Saved /\ ~IsEqual(Previous, Came))
         /\ n = NodeOf("delta_threshold", Node(1, Missing)) =>
              hit = (Saved /\ Came # NaN /\ Previous # NaN /\ Previous # Came)
<1> USE PointAssumption
<1>0. now \in Nat /\ now > 0 /\ arrivals \in [1 .. now -> Values] /\ saves \subseteq 1 .. now
      /\ now \notin saves
  BY DEF PointShape
<1>1. Earlier(saves, now) = saves
  <2>1. \A s \in saves : s < now
    BY <1>0
  <2> QED BY <2>1 DEF Earlier
<1>2. data.value = Came /\ Came \in Values
  <2>1. CASE turn = 1
    BY <1>0, <2>1 DEF PointShape, Came
  <2>2. CASE LeavesValue
    BY <1>0, <2>2, CalculatesIsNo DEF ChangesInv, Left, Came
  <2> QED BY <2>1, <2>2
<1>3. /\ Saved <=> saves # {}
      /\ Saved => data.prev = Previous /\ Previous \in Lefts
      /\ ~Saved => data.prev = Missing
  <2>1. Saved <=> saves # {}
    BY <1>1 DEF Saved
  <2>2. Previous = Left(Latest(saves))
    BY <1>1 DEF Previous
  <2>3. saves # {} => Latest(saves) \in 1 .. now
    BY <1>0 DEF PointShape
  <2>4. saves # {} => Previous \in Lefts
    BY <2>2, <2>3, LeftsOf
  <2> QED BY <2>1, <2>2, <2>4 DEF ChangesInv
<1>4. Missing \notin Lefts /\ NaN \notin Int
  BY DEF Lefts
<1>5. Known <=> Saved
  BY <1>3, <1>4 DEF Known
<1>6. ASSUME n = NodeOf("state_change", Bare)
      PROVE  hit = (Saved /\ ~IsEqual(Previous, Came))
  <2>1. n.is = "state_change" /\ n.a = Missing /\ n.b = Missing
    BY <1>6, NodeFields DEF Bare
  <2>2. hit = StateChange(n)
    BY <2>1 DEF Verdicts, Is
  <2>3. StateChange(n) <=> Known /\ ~IsEqual(data.prev, data.value)
    BY <2>1 DEF StateChange
  <2>4. StateChange(n) <=> (Saved /\ ~IsEqual(Previous, Came))
    BY <1>2, <1>3, <1>5, <2>3, Zenon
  <2>5. StateChange(n) = (Saved /\ ~IsEqual(Previous, Came))
    BY <2>4 DEF StateChange
  <2> QED BY <2>2, <2>5
<1>7. ASSUME n = NodeOf("delta_threshold", Node(1, Missing))
      PROVE  hit = (Saved /\ Came # NaN /\ Previous # NaN /\ Previous # Came)
  <2>1. n.is = "delta_threshold" /\ n.a = 1 /\ n.b = Missing
    BY <1>7, NodeFields
  <2>2. hit = DeltaThreshold(n)
    BY <2>1 DEF Verdicts, Is
  <2>3. DeltaThreshold(n) = (Known /\ AtMost(1, Magnitude(Change)))
    BY <2>1 DEF DeltaThreshold, Beyond
  <2>4. ASSUME Saved
        PROVE  AtMost(1, Magnitude(Change)) = (Came # NaN /\ Previous # NaN /\ Previous # Came)
    <3>1. Change = Sum(Came, Product(-1, Previous)) /\ Came \in Values /\ Previous \in Lefts
      BY <1>2, <1>3, <2>4 DEF Change
    <3>2. CASE Previous = NaN \/ Came = NaN
      <4>1. Change = NaN
        BY <3>1, <3>2 DEF Sum, Product
      <4> QED BY <3>2, <4>1 DEF Magnitude, AtMost, IsLess, IsEqual
    <3>3. CASE Previous # NaN /\ Came # NaN
      <4>1. Previous \in 0 .. 3 /\ Came \in {0, 2} /\ Change = Came - Previous
        BY <3>1, <3>3, <1>4 DEF Values, Lefts, Sum, Product
      <4>2. Magnitude(Change) \in 0 .. 3 /\ (Magnitude(Change) = 0 <=> Previous = Came)
        BY <1>4, <4>1 DEF Magnitude, IsLess
      <4> QED BY <1>4, <3>3, <4>2 DEF AtMost, IsLess, IsEqual
    <3> QED BY <3>2, <3>3
  <2> QED BY <1>5, <2>2, <2>3, <2>4
<1> QED BY <1>6, <1>7

LEMMA ChangesStep ==
  ASSUME PointShape, ChangesInv, PointNext
  PROVE  ChangesInv'
<1>1. ASSUME NEW v \in Values, Arrived(v) PROVE ChangesInv'
  <2>1. now \in Nat /\ now' = now + 1 /\ ruleOf' = ruleOf /\ acted' = acted /\ saves' = saves
        /\ acted \subseteq 1 .. now /\ saves \subseteq 1 .. now
    BY <1>1 DEF PointShape, Arrived
  <2>2. LeavesValue' = LeavesValue /\ Calculates' = Calculates
    BY <2>1 DEF LeavesValue, Calculates
  <2>3. data'.value = Left(now)'
    <3>1. now' \notin acted'
      BY <2>1
    <3> QED BY <1>1, <2>1, <3>1 DEF Left, Arrived
  <2>4. ASSUME saves # {} PROVE Left(Latest(saves))' = Left(Latest(saves))
    <3>1. PICK t \in 1 .. now : t = Latest(saves)
      BY <2>1, <2>4 DEF PointShape
    <3>2. arrivals'[t] = arrivals[t]
      BY <1>1 DEF Arrived
    <3>3. Latest(saves)' = t
      BY <2>1, <3>1 DEF Latest
    <3> QED BY <2>1, <2>2, <3>1, <3>2, <3>3 DEF Left
  <2>5. data'.prev = data.prev
    BY <1>1 DEF Arrived, Fields
  <2>6. ChangesAreOfData'
    BY <1>1 DEF Arrived, ChangesAreOfData
  <2> QED BY <2>1, <2>2, <2>3, <2>4, <2>5, <2>6 DEF ChangesInv
<1>2. ASSUME NEW asked \in BOOLEAN, NEW hit, NEW r, NEW ends, NEW saved,
             Evaluated(asked, hit, r, ends, saved)
      PROVE  ChangesInv'
  <2>0. turn \in {1, 2} /\ now \in Nat /\ now > 0 /\ now' = now /\ arrivals' = arrivals /\ ruleOf' = ruleOf
        /\ acted \subseteq 1 .. now /\ saves \subseteq 1 .. now /\ now \notin saves
    BY <1>2 DEF Evaluated, PointShape
  <2>1. LeavesValue' = LeavesValue /\ Calculates' = Calculates /\ Came' = Came
    BY <2>0 DEF LeavesValue, Calculates, Came
  <2>2. \A t \in 1 .. now : t # now \/ turn # 1 \/ acted' = acted => Left(t)' = Left(t)
    <3> SUFFICES ASSUME NEW t \in 1 .. now, t # now \/ turn # 1 \/ acted' = acted
                 PROVE  Left(t)' = Left(t)
      OBVIOUS
    <3>1. t \in acted' <=> t \in acted
      BY <1>2 DEF Evaluated
    <3> QED BY <2>0, <2>1, <3>1 DEF Left
  <2>3. LeavesValue \/ Calculates => data'.value = Left(now)'
    <3> SUFFICES ASSUME LeavesValue \/ Calculates PROVE r.data.value = Left(now)'
      BY <1>2 DEF Evaluated, Fields
    <3>1. data.value = Left(now) /\ now \in 1 .. now
      BY <2>0 DEF ChangesInv
    <3>2. CASE r.data.value = data.value /\ acted' = acted
      BY <2>0, <2>1, <3>1, <3>2 DEF Left
    <3>3. CASE ~(asked /\ hit)
      <4>1. r.data = data /\ acted' = acted
        BY <1>2, <3>3 DEF Evaluated
      <4> QED BY <3>2, <4>1
    <3>4. CASE asked /\ hit /\ ruleOf[turn].do.is \notin WritesValue
      <4>1. r.data.value = data.value
        BY <1>2, <3>4 DEF Evaluated, Bounded
      <4>2. CASE turn = 2
        BY <2>0, <2>2, <3>1, <4>1, <4>2
      <4>3. CASE turn = 1
        <5>1. ~Calculates
          <6>1. Calculates => ruleOf[1].do.is = "calc_node"
            BY NodeFields DEF Calculates
          <6> QED BY <3>4, <4>3, <6>1 DEF WritesValue
        <5> QED BY <2>0, <2>1, <3>1, <4>1, <5>1 DEF Left
      <4> QED BY <2>0, <4>2, <4>3
    <3>5. CASE asked /\ hit /\ ruleOf[turn].do.is \in WritesValue
      <4>1. ~LeavesValue
        BY <2>0, <3>5 DEF LeavesValue
      <4>2. turn = 1
        <5>1. ruleOf[2].do.is \notin WritesValue
          BY ChainShape DEF PointShape, WritesValue
        <5> QED BY <2>0, <3>5, <5>1
      <4>3. r \in Execute(ruleOf[1].do) /\ acted' = acted \cup {now}
        BY <1>2, <3>5, <4>2 DEF Evaluated
      <4>4. r.data.value = Sum(data.value, 1) /\ data.value = Came
        BY <4>1, <4>2, <4>3, Calculation DEF PointShape
      <4> QED BY <2>0, <2>1, <4>1, <4>3, <4>4 DEF Left, Came
    <3> QED BY <3>3, <3>4, <3>5
  <2>4. LeavesValue \/ Calculates => data'.prev = (IF saves' = {} THEN Missing ELSE Left(Latest(saves))')
    <3> SUFFICES ASSUME LeavesValue \/ Calculates
                 PROVE  data'.prev = IF saves' = {} THEN Missing ELSE Left(Latest(saves))'
      OBVIOUS
    <3>1. CASE ends /\ saved
      <4>1. saves' = saves \cup {now} /\ data'.prev = r.data.value /\ data'.value = r.data.value
        BY <1>2, <3>1 DEF Evaluated, Fields
      <4>2. Latest(saves)' = now
        <5>1. Latest(saves \cup {now}) = now
          BY <2>0, LatestAdded
        <5> QED BY <4>1, <5>1 DEF Latest
      <4>3. Left(Latest(saves))' = Left(now)'
        BY <2>0, <4>2 DEF Left
      <4> QED BY <2>3, <4>1, <4>3
    <3>2. CASE ~(ends /\ saved)
      <4>1. saves' = saves /\ data'.prev = data.prev
        BY <1>2, <3>2 DEF Evaluated
      <4>2. ASSUME saves # {} PROVE Left(Latest(saves))' = Left(Latest(saves))
        <5>1. PICK t \in 1 .. now : t = Latest(saves) /\ t # now
          BY <2>0, <4>2 DEF PointShape
        <5>2. Left(t)' = Left(t)
          BY <2>2, <5>1
        <5>3. Latest(saves)' = t
          BY <4>1, <5>1 DEF Latest
        <5> QED BY <5>1, <5>2, <5>3 DEF Left
      <4> QED BY <4>1, <4>2 DEF ChangesInv
    <3> QED BY <3>1, <3>2
  <2>5. Saved' = Saved /\ (Saved => Previous' = Previous)
    <3>1. Earlier(saves, now)' = Earlier(saves, now)
      BY <1>2, <2>0 DEF Evaluated, Earlier
    <3>2. Earlier(saves, now) = saves
      <4>1. \A s \in saves : s < now
        BY <2>0
      <4> QED BY <4>1 DEF Earlier
    <3>3. ASSUME Saved PROVE Previous' = Previous
      <4>1. PICK t \in 1 .. now : t = Latest(saves) /\ t # now
        BY <2>0, <3>2, <3>3 DEF Saved, PointShape
      <4>2. Left(t)' = Left(t)
        BY <2>2, <4>1
      <4>3. Latest(Earlier(saves, now))' = t
        BY <3>1, <3>2, <4>1 DEF Latest
      <4> QED BY <3>2, <4>1, <4>2, <4>3 DEF Previous, Left
    <3> QED BY <3>1, <3>3 DEF Saved
  <2>6. ChangesAreOfData'
    <3>1. ASSUME NEW k \in 1 .. 2, LeavesValue \/ (Calculates /\ k = 1), matched'[k] # Missing
          PROVE  LET n == ruleOf[k].when IN
                 /\ n = NodeOf("state_change", Bare) =>
                      matched'[k] = (Saved /\ ~IsEqual(Previous, Came))
                 /\ n = NodeOf("delta_threshold", Node(1, Missing)) =>
                      matched'[k] = (Saved /\ Came # NaN /\ Previous # NaN /\ Previous # Came)
      <4>1. CASE k = turn /\ asked
        <5>1. matched'[k] = hit /\ hit \in Verdicts(ruleOf[k].when)
          BY <1>2, <2>0, <4>1 DEF Evaluated, PointShape
        <5> QED BY <2>0, <3>1, <4>1, <5>1, ChangeVerdict
      <4>2. CASE ~(k = turn /\ asked)
        <5>1. matched'[k] = matched[k]
          BY <1>2, <3>1, <4>2 DEF Evaluated, PointShape
        <5>2. NodeOf("state_change", Bare).is = "state_change"
              /\ NodeOf("delta_threshold", Node(1, Missing)).is = "delta_threshold"
          BY DEF NodeOf
        <5> HIDE <1>2
        <5>3. NodeOf("state_change", Bare) # NodeOf("delta_threshold", Node(1, Missing))
          BY <5>2
        <5> QED BY <3>1, <5>1, <5>3 DEF ChangesInv, ChangesAreOfData
      <4> QED BY <4>1, <4>2
    <3>2. ASSUME NEW k \in 1 .. 2, LeavesValue \/ (Calculates /\ k = 1), matched'[k] # Missing
          PROVE  LET n == ruleOf[k].when IN
                 /\ n = NodeOf("state_change", Bare) =>
                      matched'[k] = (Saved' /\ ~IsEqual(Previous', Came))
                 /\ n = NodeOf("delta_threshold", Node(1, Missing)) =>
                      matched'[k] = (Saved' /\ Came # NaN /\ Previous' # NaN /\ Previous' # Came)
      <4>1. CASE Saved
        BY <2>5, <3>1, <3>2, <4>1, Zenon
      <4>2. CASE ~Saved
        BY <2>5, <3>1, <3>2, <4>2, Zenon
      <4> QED BY <4>1, <4>2
    <3> QED BY <2>0, <2>1, <3>2, Zenon DEF ChangesAreOfData
  <2> QED BY <2>0, <2>1, <2>3, <2>4, <2>6 DEF ChangesInv
<1> QED BY <1>1, <1>2, PointSteps

-----------------------------------------------------------------------------
(* The marks, what is stored and the alarms. *)

LEMMA ValueCame ==
  ASSUME PointShape, ChangesInv, LeavesValue, now > 0
  PROVE  data.value = Came
BY CalculatesIsNo DEF ChangesInv, Left, Came

Limited == ruleOf[1].do = NodeOf("limit_check", Bare) /\ ruleOf[2].do.is = "quality_mark"

LimitsInv ==
  /\ Limited /\ turn = 2 /\ matched[1] = TRUE => data.over = (HasLimits /\ OutOfLimits(Came))
  /\ LimitsAreMarked

LEMMA LimitsStep ==
  ASSUME PointShape, ChangesInv, LimitsInv, PointNext
  PROVE  LimitsInv'
<1>0. Missing # TRUE
  BY PointAssumption
<1>1. ASSUME NEW v \in Values, Arrived(v) PROVE LimitsInv'
  BY <1>0, <1>1 DEF Arrived, LimitsInv, LimitsAreMarked
<1>2. ASSUME NEW asked \in BOOLEAN, NEW hit, NEW r, NEW ends, NEW saved,
             Evaluated(asked, hit, r, ends, saved)
      PROVE  LimitsInv'
  <2>0. turn \in {1, 2} /\ now > 0 /\ now' = now /\ arrivals' = arrivals /\ ruleOf' = ruleOf
        /\ world' = world /\ turn' = (IF ends THEN 0 ELSE 2) /\ (turn = 2 => ends)
        /\ matched' = (IF asked THEN [matched EXCEPT ![turn] = hit] ELSE matched)
        /\ DOMAIN matched = {1, 2} /\ matched[2] = Missing /\ (turn = 1 => matched[1] = Missing)
    BY <1>2 DEF Evaluated, PointShape
  <2>1. Limited' = Limited /\ HasLimits' = HasLimits /\ Came' = Came
    BY <2>0 DEF Limited, HasLimits, Came
  <2>2. CASE ~Limited
    BY <2>1, <2>2 DEF LimitsInv, LimitsAreMarked, Limited
  <2>3. CASE Limited
    <3>1. ruleOf[1].do.is = "limit_check" /\ ruleOf[2].do.is = "quality_mark"
      BY <2>3 DEF Limited, NodeOf
    <3>2. LeavesValue
      <4>1. \A k \in 1 .. 2 : ruleOf[k].do.is \in {"limit_check", "quality_mark"}
        BY <3>1
      <4> QED BY <4>1 DEF LeavesValue, WritesValue
    <3>3. data.value = Came
      BY <2>0, <3>2, ValueCame
    <3>4. matched'[turn] = TRUE => asked /\ hit
      BY <1>0, <2>0
    <3>5. matched'[turn] = TRUE => r \in Execute(ruleOf[turn].do)
      BY <1>2, <3>4 DEF Evaluated
    <3>6. CASE turn = 1
      <4>1. ASSUME matched'[1] = TRUE PROVE data'.over = (HasLimits /\ OutOfLimits(Came))
        <5>1. r \in Ok([data EXCEPT !.over = HasLimits /\ OutOfLimits(data.value)])
          BY <3>1, <3>5, <3>6, <4>1 DEF Execute, LimitCheck
        <5>2. r.data = [data EXCEPT !.over = HasLimits /\ OutOfLimits(data.value)]
          BY <5>1, ResultFields DEF Ok
        <5>3. "over" \in DOMAIN data
          BY DEF PointShape, Shaped, Fields
        <5>4. r.data.over = (HasLimits /\ OutOfLimits(Came))
          BY <3>3, <5>2, <5>3
        <5>5. data'.over = r.data.over
          BY <1>2 DEF Evaluated, Fields
        <5> QED BY <5>4, <5>5
      <4>2. matched'[2] # TRUE
        <5>1. matched'[2] = matched[2]
          BY <2>0, <3>6
        <5> QED BY <1>0, <2>0, <5>1
      <4> QED BY <2>1, <4>1, <4>2 DEF LimitsInv, LimitsAreMarked, OutOfLimits
    <3>7. CASE turn = 2
      <4> DEFINE n == ruleOf[2].do
                 q == IF data.over THEN n.b ELSE n.a
      <4>1. matched'[1] = matched[1] /\ turn' = 0
        BY <2>0, <3>7
      <4>2. ASSUME matched'[1] = TRUE, matched'[2] = TRUE
            PROVE  data'.quality = IF HasLimits /\ OutOfLimits(Came) THEN n.b ELSE n.a
        <5>1. r \in Ok([data EXCEPT !.quality = q])
          BY <3>1, <3>5, <3>7, <4>2 DEF Execute, QualityMark
        <5>2. r.data = [data EXCEPT !.quality = q]
          BY <5>1, ResultFields DEF Ok
        <5>3. "quality" \in DOMAIN data
          BY DEF PointShape, Shaped, Fields
        <5>4. r.data.quality = q
          BY <5>2, <5>3
        <5>5. data'.quality = r.data.quality
          BY <1>2 DEF Evaluated, Fields
        <5>6. data.over = (HasLimits /\ OutOfLimits(Came))
          BY <2>3, <3>7, <4>1, <4>2 DEF LimitsInv
        <5> QED BY <5>4, <5>5, <5>6
      <4>3. LimitsAreMarked'
        BY <2>0, <2>1, <4>2 DEF LimitsAreMarked, OutOfLimits
      <4> QED BY <4>1, <4>3 DEF LimitsInv
    <3> QED BY <2>0, <3>6, <3>7
  <2> QED BY <2>2, <2>3
<1> QED BY <1>1, <1>2, PointSteps

StoredInv ==
  /\ LeavesValue => data.calc = Missing
  /\ Calculates => data.calc = IF acted = {} THEN Missing ELSE Sum(arrivals[Latest(acted)], 1)
  /\ StoredIsAccountedFor

LEMMA StoredStep ==
  ASSUME PointShape, ChangesInv, StoredInv, PointNext
  PROVE  StoredInv'
<1>1. ASSUME NEW v \in Values, Arrived(v) PROVE StoredInv'
  <2>1. now \in Nat /\ now' = now + 1 /\ turn' = 1 /\ stores' = stores /\ ruleOf' = ruleOf
        /\ acted' = acted /\ data'.calc = data.calc
    BY <1>1 DEF PointShape, Arrived, Fields
  <2>2. stores.stored # Missing => stores.stored.at # now'
    BY <2>1 DEF PointShape
  <2>3. acted # {} => arrivals'[Latest(acted)'] = arrivals[Latest(acted)]
    <3>1. acted # {} => Latest(acted) \in 1 .. now
      BY DEF PointShape
    <3>2. Latest(acted)' = Latest(acted)
      BY <2>1 DEF Latest
    <3> QED BY <1>1, <3>1, <3>2 DEF Arrived
  <2>4. LeavesValue' = LeavesValue /\ Calculates' = Calculates
    BY <2>1 DEF LeavesValue, Calculates
  <2>5. StoredIsAccountedFor'
    BY <2>1, <2>2 DEF StoredIsAccountedFor
  <2> QED BY <2>1, <2>3, <2>4, <2>5 DEF StoredInv
<1>2. ASSUME NEW asked \in BOOLEAN, NEW hit, NEW r, NEW ends, NEW saved,
             Evaluated(asked, hit, r, ends, saved)
      PROVE  StoredInv'
  <2>0. turn \in {1, 2} /\ now \in Nat /\ now > 0 /\ now' = now /\ arrivals' = arrivals
        /\ ruleOf' = ruleOf /\ stores' = r.stores /\ data'.calc = r.data.calc
        /\ turn \in 1 .. 2 /\ acted \subseteq 1 .. now
        /\ acted' = (IF asked /\ hit /\ turn = 1 THEN acted \cup {now} ELSE acted)
    BY <1>2 DEF Evaluated, PointShape, Fields
  <2>1. LeavesValue' = LeavesValue /\ Calculates' = Calculates /\ Came' = Came
        /\ ~(LeavesValue /\ Calculates)
    BY <2>0, CalculatesIsNo DEF LeavesValue, Calculates, Came
  <2>2. r.stores.stored # stores.stored =>
          /\ ruleOf[turn].do.is \in {"storage_write", "aggregation_write"}
          /\ r.stores.stored.at = now
          /\ r.stores.stored.value =
               IF ruleOf[turn].do.is = "storage_write" /\ data.calc # Missing
               THEN data.calc ELSE data.value
    BY <1>2, StoredAtNow DEF Evaluated
  <2>3. ASSUME ~(asked /\ hit) \/ ruleOf[turn].do.is # "calc_node" PROVE r.data.calc = data.calc
    BY <1>2, <2>3 DEF Evaluated, Bounded
  <2>4. ASSUME LeavesValue PROVE r.data.calc = Missing
    <3>1. ruleOf[turn].do.is # "calc_node"
      BY <2>0, <2>4 DEF LeavesValue, WritesValue
    <3> QED BY <2>3, <2>4, <3>1 DEF StoredInv
  <2>5. ASSUME LeavesValue, stores'.stored # Missing, stores'.stored.at = now
        PROVE  stores'.stored.value = Came
    <3>1. CASE r.stores.stored = stores.stored
      BY <2>0, <2>5, <3>1 DEF StoredInv, StoredIsAccountedFor
    <3>2. CASE r.stores.stored # stores.stored
      BY <2>0, <2>2, <2>5, <3>2, ValueCame DEF StoredInv
    <3> QED BY <3>1, <3>2
  <2>6. CASE Calculates /\ asked /\ hit /\ turn = 1
    <3>1. ruleOf[1].do.is = "calc_node"
      BY <2>6, NodeFields DEF Calculates
    <3>2. r.data.calc = Sum(Came, 1)
      BY <1>2, <2>6, Calculation DEF Evaluated, PointShape
    <3>3. Latest(acted \cup {now}) = now
      BY <2>0, LatestAdded
    <3>4. acted' = acted \cup {now} /\ acted' # {} /\ Latest(acted)' = now
      BY <2>0, <2>6, <3>3 DEF Latest
    <3>5. r.stores.stored = stores.stored
      BY <2>2, <2>6, <3>1
    <3>6. stores'.stored # Missing => stores'.stored.at # now
      BY <2>0, <2>6, <3>5 DEF PointShape
    <3> QED BY <2>0, <2>1, <2>6, <3>2, <3>4, <3>6 DEF StoredInv, StoredIsAccountedFor, Came
  <2>7. CASE Calculates /\ ~(asked /\ hit /\ turn = 1)
    <3>1. acted' = acted /\ Latest(acted)' = Latest(acted)
      BY <2>0, <2>7 DEF Latest
    <3>2. turn = 2 => ruleOf[2].do.is # "calc_node" /\ ruleOf[2].do.is # "aggregation_write"
      BY ChainShape DEF PointShape
    <3>3. r.data.calc = data.calc
      BY <2>0, <2>3, <2>7, <3>2
    <3>4. ASSUME r.stores.stored # stores.stored
          PROVE  r.stores.stored.value = IF acted = {} THEN Came ELSE Sum(arrivals[Latest(acted)], 1)
      <4>1. turn = 2 /\ ruleOf[turn].do.is = "storage_write"
        <5>1. asked /\ hit
          BY <1>2, <3>4 DEF Evaluated
        <5> QED BY <2>0, <2>2, <2>7, <3>2, <3>4, <5>1
      <4>2. CASE acted = {}
        <5>1. data.calc = Missing /\ data.value = Came
          BY <2>0, <2>7, <4>2 DEF StoredInv, ChangesInv, Left, Came
        <5> QED BY <2>2, <3>4, <4>2, <5>1
      <4>3. CASE acted # {}
        <5>1. arrivals[Latest(acted)] \in Values
          BY <4>3 DEF PointShape
        <5>2. Sum(arrivals[Latest(acted)], 1) # Missing
          BY <5>1, PointAssumption DEF Sum, Values
        <5>3. data.calc = Sum(arrivals[Latest(acted)], 1)
          BY <2>7, <4>3 DEF StoredInv
        <5> QED BY <2>2, <3>4, <4>1, <4>3, <5>2, <5>3
      <4> QED BY <4>2, <4>3
    <3>5. StoredIsAccountedFor'
      <4>1. CASE r.stores.stored = stores.stored
        BY <2>0, <2>1, <2>7, <3>1, <4>1 DEF StoredInv, StoredIsAccountedFor
      <4>2. CASE r.stores.stored # stores.stored
        BY <2>0, <2>1, <2>7, <3>1, <3>4, <4>2 DEF StoredIsAccountedFor
      <4> QED BY <4>1, <4>2
    <3> QED BY <2>0, <2>1, <2>7, <3>1, <3>3, <3>5 DEF StoredInv
  <2>8. CASE ~Calculates
    BY <2>0, <2>1, <2>4, <2>5, <2>8 DEF StoredInv, StoredIsAccountedFor
  <2> QED BY <2>6, <2>7, <2>8
<1> QED BY <1>1, <1>2, PointSteps

LEMMA AlarmStep ==
  ASSUME PointShape, AlarmIsDated, PointNext
  PROVE  AlarmIsDated'
<1>0. Missing # TRUE /\ Missing \notin Int
  BY PointAssumption
<1>1. ASSUME NEW v \in Values, Arrived(v) PROVE AlarmIsDated'
  <2>1. ruleOf' = ruleOf /\ acted' = acted /\ data'.alarmAt = data.alarmAt
        /\ \A k \in 1 .. 2 : matched'[k] = Missing
    BY <1>1 DEF Arrived, Fields
  <2> QED BY <1>0, <2>1 DEF AlarmIsDated
<1>2. ASSUME NEW asked \in BOOLEAN, NEW hit, NEW r, NEW ends, NEW saved,
             Evaluated(asked, hit, r, ends, saved)
      PROVE  AlarmIsDated'
  <2>0. turn \in {1, 2} /\ now \in Nat /\ now' = now /\ ruleOf' = ruleOf
        /\ data'.alarmAt = r.data.alarmAt /\ acted \subseteq 1 .. now
        /\ acted' = (IF asked /\ hit /\ turn = 1 THEN acted \cup {now} ELSE acted)
        /\ matched' = (IF asked THEN [matched EXCEPT ![turn] = hit] ELSE matched)
        /\ DOMAIN matched = {1, 2} /\ matched[2] = Missing /\ (turn = 1 => matched[1] = Missing)
    BY <1>2 DEF Evaluated, PointShape, Fields
  <2>1. "alarm" \in DOMAIN data /\ "alarmAt" \in DOMAIN data
    BY DEF PointShape, Shaped, Fields
  <2>2. ASSUME ~(asked /\ hit) \/ ruleOf[turn].do.is \notin {"alarm_emit", "alarm_notify_ext"}
        PROVE  r.data.alarmAt = data.alarmAt
    BY <1>2, <2>2 DEF Evaluated, Bounded
  <2>3. ASSUME asked /\ hit PROVE r \in Execute(ruleOf[turn].do)
    BY <1>2, <2>3 DEF Evaluated
  <2>4. ASSUME asked /\ hit, ruleOf[turn].do.is = "alarm_emit" PROVE r.data.alarmAt = now
    <3>1. PICK x : r \in Ok([data EXCEPT !.alarm = x, !.alarmAt = now])
      BY <2>3, <2>4 DEF Execute, AlarmEmit
    <3>2. r.data = [data EXCEPT !.alarm = x, !.alarmAt = now]
      BY <3>1, ResultFields DEF Ok
    <3> QED BY <2>1, <3>2
  <2>5. ASSUME asked /\ hit, ruleOf[turn].do.is = "alarm_notify_ext"
        PROVE  r.data.alarmAt = IF data.alarmAt = Missing THEN now ELSE data.alarmAt
    <3> DEFINE y == IF data.alarmAt = Missing THEN now ELSE data.alarmAt
    <3>1. PICK x : r \in Ok([data EXCEPT !.alarm = x, !.alarmAt = IF @ = Missing THEN now ELSE @])
      BY <2>3, <2>5 DEF Execute, AlarmNotifyExt
    <3>2. r.data = [data EXCEPT !.alarm = x, !.alarmAt = IF @ = Missing THEN now ELSE @]
      BY <3>1, ResultFields DEF Ok
    <3>3. [data EXCEPT !.alarm = x, !.alarmAt = IF @ = Missing THEN now ELSE @]
          = [data EXCEPT !.alarm = x, !.alarmAt = y]
      BY <2>1
    <3> HIDE DEF y
    <3>4. r.data.alarmAt = y
      BY <2>1, <3>2, <3>3
    <3> QED BY <3>4 DEF y
  <2>6. ruleOf[2].do.is # "alarm_notify_ext"
    BY ChainShape DEF PointShape
  <2>7. ASSUME NEW k \in 1 .. 2, ruleOf[k].do.is = "alarm_emit", matched'[k] = TRUE
        PROVE  data'.alarmAt = now
    <3>1. CASE k = turn
      <4>1. asked /\ hit
        BY <1>0, <2>0, <2>7, <3>1
      <4> QED BY <2>0, <2>4, <2>7, <3>1, <4>1
    <3>2. CASE k # turn
      <4>1. k = 1 /\ turn = 2 /\ matched[1] = TRUE
        <5>1. matched'[k] = matched[k]
          BY <2>0, <3>2
        <5>2. matched[k] = TRUE
          BY <2>7, <5>1
        <5>3. k = 1
          <6>1. k = 2 => matched[2] = TRUE
            BY <5>2, Zenon
          <6>2. k # 2
            BY <1>0, <2>0, <6>1, Zenon
          <6> QED BY <6>2
        <5> QED BY <2>0, <3>2, <5>2, <5>3
      <4>2. data.alarmAt = now
        BY <2>7, <4>1 DEF AlarmIsDated
      <4>3. CASE asked /\ hit /\ ruleOf[2].do.is = "alarm_emit"
        BY <2>0, <2>4, <4>1, <4>3
      <4>4. CASE ~(asked /\ hit /\ ruleOf[2].do.is = "alarm_emit")
        BY <2>0, <2>2, <2>6, <4>1, <4>2, <4>4
      <4> QED BY <4>3, <4>4
    <3> QED BY <3>1, <3>2
  <2>8. ASSUME ruleOf[1].do.is = "alarm_notify_ext", ruleOf[2].do.is # "alarm_emit"
        PROVE  IF acted' = {} THEN data'.alarmAt = Missing
               ELSE data'.alarmAt \in acted' /\ \A t \in acted' : data'.alarmAt <= t
    <3>1. IF acted = {} THEN data.alarmAt = Missing
          ELSE data.alarmAt \in acted /\ \A t \in acted : data.alarmAt <= t
      BY <2>8 DEF AlarmIsDated
    <3>2. CASE asked /\ hit /\ turn = 1
      <4>1. acted' = acted \cup {now}
            /\ data'.alarmAt = IF data.alarmAt = Missing THEN now ELSE data.alarmAt
        BY <2>0, <2>5, <2>8, <3>2
      <4>2. \A t \in acted : t \in Int /\ t <= now
        <5>1. acted \subseteq 1 .. now /\ now \in Nat
          BY DEF PointShape
        <5>2. \A t \in 1 .. now : t \in Int /\ t <= now
          BY <5>1
        <5> QED BY <5>1, <5>2
      <4>3. CASE acted = {}
        BY <2>0, <3>1, <4>1, <4>3
      <4>4. CASE acted # {}
        BY <1>0, <2>0, <3>1, <4>1, <4>2, <4>4
      <4> QED BY <4>3, <4>4
    <3>3. CASE ~(asked /\ hit /\ turn = 1)
      <4>1. acted' = acted /\ data'.alarmAt = data.alarmAt
        BY <2>0, <2>2, <2>6, <2>8, <3>3
      <4> QED BY <3>1, <4>1
    <3> QED BY <3>2, <3>3
  <2> QED BY <2>0, <2>7, <2>8 DEF AlarmIsDated
<1> QED BY <1>1, <1>2, PointSteps

-----------------------------------------------------------------------------
(* The meter. *)

\* The rises that a meter of this period is to have added.
Counting(period) == (period = Missing /\ Unit = "ms") \/ period \in {-1, 0}
RisesOf(period) ==
  IF period = Missing THEN {t \in Rises : Day(t) = Day(Latest(acted))} ELSE Rises

MeterInv ==
  \A period : IsMeter(period) /\ Counting(period) =>
    LET m == stores.meter IN
    /\ acted = {} => m.last = Missing /\ m.date = Missing
    /\ acted # {} => m.last = arrivals[Latest(acted)]
    /\ acted # {} /\ period = Missing => m.date = Day(Latest(acted))
    /\ m.sum = 2 * Cardinality(RisesOf(period))

LEMMA DayFollows ==
  ASSUME NEW k \in Nat, NEW t \in 1 .. k
  PROVE  Day(t) \in Nat /\ Day(k) \in Nat /\ Day(t) <= Day(k)
BY DEF Day

LEMMA RisesFinite ==
  ASSUME PointShape
  PROVE  IsFiniteSet(Rises)
<1>1. now \in Int /\ acted \subseteq 1 .. now
  BY DEF PointShape
<1>2. IsFiniteSet(1 .. now)
  BY <1>1, FS_Interval
<1>3. Rises \subseteq 1 .. now
  BY <1>1 DEF Rises
<1> QED BY <1>2, <1>3, FS_Subset

\* One more reading, now, and whether it is a rise.
LEMMA RisesNext ==
  ASSUME PointShape, turn = 1, acted' = acted \cup {now}, arrivals' = arrivals
  PROVE  /\ Rises' = IF acted # {} /\ IsLess(arrivals[Latest(acted)], arrivals[now])
                     THEN Rises \cup {now} ELSE Rises
         /\ now \notin Rises /\ IsFiniteSet(Rises) /\ Rises \subseteq acted
<1>1. now \in Nat /\ acted \subseteq 1 .. now /\ now \notin acted
  BY DEF PointShape
<1>2. \A t \in acted : t < now
  BY <1>1
<1>3. Earlier(acted \cup {now}, now) = acted
  <2>1. ~ (now < now)
    BY <1>1
  <2> QED BY <1>2, <2>1 DEF Earlier
<1>4. ASSUME NEW t \in acted PROVE Earlier(acted \cup {now}, t) = Earlier(acted, t)
  <2>1. ~ (now < t)
    BY <1>1
  <2> QED BY <1>2, <2>1 DEF Earlier
<1> DEFINE RiseAt(t) == LET before == Earlier(acted \cup {now}, t) IN
                        before # {} /\ IsLess(arrivals[Latest(before)], arrivals[t])
<1>5. Rises' = {t \in acted \cup {now} : RiseAt(t)}
  BY DEF Rises
<1>6. \A t \in acted : RiseAt(t) <=> t \in Rises
  BY <1>4 DEF Rises
<1>7. RiseAt(now) <=> acted # {} /\ IsLess(arrivals[Latest(acted)], arrivals[now])
  BY <1>3
<1>8. Rises \subseteq acted
  BY DEF Rises
<1> HIDE DEF RiseAt
<1>9. CASE RiseAt(now)
  <2>1. Rises' = Rises \cup {now}
    BY <1>5, <1>6, <1>8, <1>9
  <2> QED BY <1>1, <1>7, <1>8, <1>9, <2>1, RisesFinite
<1>10. CASE ~RiseAt(now)
  <2>1. Rises' = Rises
    BY <1>5, <1>6, <1>8, <1>10
  <2> QED BY <1>1, <1>7, <1>8, <1>10, <2>1, RisesFinite
<1> QED BY <1>9, <1>10

\* What one more reading adds to the rises of the period.
LEMMA RisesOfNext ==
  ASSUME PointShape, turn = 1, acted' = acted \cup {now}, arrivals' = arrivals, NEW period
  PROVE  LET rises == acted # {} /\ IsLess(arrivals[Latest(acted)], arrivals[now])
             keeps == acted # {} /\ (period = Missing => Day(Latest(acted)) = Day(now))
             base == IF keeps THEN Cardinality(RisesOf(period)) ELSE 0 IN
         /\ base \in Nat
         /\ Cardinality(RisesOf(period)') = IF rises THEN base + 1 ELSE base
<1> DEFINE rises == acted # {} /\ IsLess(arrivals[Latest(acted)], arrivals[now])
           keeps == acted # {} /\ (period = Missing => Day(Latest(acted)) = Day(now))
           Counted == IF keeps THEN RisesOf(period) ELSE {}
<1>1. now \in Nat /\ acted \subseteq 1 .. now /\ now \notin acted
      /\ (acted # {} => Latest(acted) \in acted /\ \A t \in acted : t <= Latest(acted))
  BY DEF PointShape
<1>2. /\ Rises' = IF rises THEN Rises \cup {now} ELSE Rises
      /\ now \notin Rises /\ IsFiniteSet(Rises) /\ Rises \subseteq acted
  BY RisesNext
<1>3. Latest(acted \cup {now}) = now
  BY <1>1, LatestAdded
<1>4. RisesOf(period)' = IF period = Missing THEN {t \in Rises' : Day(t) = Day(now)} ELSE Rises'
  <2>1. Latest(acted)' = now
    BY <1>3 DEF Latest
  <2> QED BY <2>1 DEF RisesOf, Day
<1>5. acted = {} => Rises = {}
  BY <1>2
<1>6. acted # {} /\ Day(Latest(acted)) # Day(now) => \A t \in Rises : Day(t) # Day(now)
  <2> SUFFICES ASSUME acted # {}, Day(Latest(acted)) # Day(now), NEW t \in Rises
               PROVE  Day(t) # Day(now)
    OBVIOUS
  <2>0. t \in acted /\ Latest(acted) \in 1 .. now /\ t <= Latest(acted) /\ t \in 1 .. now
    BY <1>1, <1>2
  <2>1. PICK l \in Nat : l = Latest(acted) /\ l \in 1 .. now /\ t \in 1 .. l
    BY <2>0
  <2>2. Day(t) <= Day(l) /\ Day(l) <= Day(now) /\ Day(t) \in Nat /\ Day(l) \in Nat /\ Day(now) \in Nat
    BY <1>1, <2>1, DayFollows
  <2> QED BY <2>1, <2>2
<1>7. (IF period = Missing THEN {t \in Rises : Day(t) = Day(now)} ELSE Rises) = Counted
  <2>1. CASE period = Missing
    <3>1. CASE keeps
      BY <2>1, <3>1 DEF RisesOf
    <3>2. CASE ~keeps
      BY <1>5, <1>6, <2>1, <3>2
    <3> QED BY <3>1, <3>2
  <2>2. CASE period # Missing
    BY <1>5, <2>2 DEF RisesOf
  <2> QED BY <2>1, <2>2
<1>8. RisesOf(period)' = IF rises THEN Counted \cup {now} ELSE Counted
  <2> HIDE DEF rises, Counted
  <2>1. CASE period = Missing
    BY <1>2, <1>4, <1>7, <2>1
  <2>2. CASE period # Missing
    BY <1>2, <1>4, <1>7, <2>2
  <2> QED BY <2>1, <2>2
<1>9. now \notin Counted /\ IsFiniteSet(Counted)
  <2>1. Counted \subseteq Rises
    BY DEF RisesOf
  <2> QED BY <1>2, <2>1, FS_Subset
<1>10. Cardinality(Counted) = (IF keeps THEN Cardinality(RisesOf(period)) ELSE 0)
  BY FS_EmptySet
<1> HIDE DEF rises, Counted, keeps
<1>11. Cardinality(Counted) \in Nat /\ Cardinality(Counted \cup {now}) = Cardinality(Counted) + 1
  BY <1>9, FS_CardinalityType, FS_AddElement
<1>12. Cardinality(RisesOf(period)') = IF rises THEN Cardinality(Counted) + 1 ELSE Cardinality(Counted)
  BY <1>8, <1>11
<1> QED BY <1>10, <1>11, <1>12 DEF rises, keeps

\* What one more reading makes of the meter.
LEMMA MeterCounts ==
  ASSUME PointShape, turn = 1, MeterInv, NEW period, IsMeter(period), Counting(period),
         NEW r \in Execute(ruleOf[1].do), acted' = acted \cup {now}, arrivals' = arrivals
  PROVE  /\ r.stores.meter.last = arrivals[now]
         /\ period = Missing => r.stores.meter.date = Day(now)
         /\ r.stores.meter.sum = 2 * Cardinality(RisesOf(period)')
<1> USE PointAssumption
<1> DEFINE n == ruleOf[1].do
           m == stores.meter
           reads == UnixMilli(Unit, now)
           current == IF n.b = 1 THEN Month(reads) ELSE Day(reads)
           resets == (n.b = Missing \/ (n.b = 1 /\ m.date # Missing)) /\ m.date # current
           rise == IF m.last = Missing THEN 0 ELSE Sum(data.value, Product(-1, m.last))
           base == IF resets THEN 0 ELSE m.sum
           new == [last |-> data.value, date |-> IF resets THEN current ELSE m.date,
                   sum |-> IF IsLess(0, rise) THEN base + rise ELSE base]
           l == Latest(acted)
           up == acted # {} /\ IsLess(arrivals[l], arrivals[now])
           keeps == acted # {} /\ (period = Missing => Day(l) = Day(now))
<1>0. now \in Nat /\ now > 0 /\ arrivals \in [1 .. now -> Values] /\ data.value = arrivals[now]
      /\ (acted # {} => l \in 1 .. now) /\ arrivals[now] \in Values
  <2>1. now \in Nat /\ now > 0 /\ arrivals \in [1 .. now -> Values] /\ data.value = arrivals[now]
        /\ acted \subseteq 1 .. now /\ (acted # {} => l \in acted)
    BY DEF PointShape, Came
  <2>2. now \in 1 .. now
    BY <2>1
  <2> HIDE DEF l
  <2> QED BY <2>1, <2>2
<1>1. HasStore /\ n.a = Missing /\ n.b = period /\ n.is = "delta_accumulator"
  BY NodeFields DEF IsMeter
<1>2. /\ acted = {} => m.last = Missing /\ m.date = Missing
      /\ acted # {} => m.last = arrivals[l]
      /\ acted # {} /\ period = Missing => m.date = Day(l)
      /\ m.sum = 2 * Cardinality(RisesOf(period))
  BY DEF MeterInv
<1>3. r.stores.meter = new
  <2>1. r = Result(data, [stores EXCEPT !.meter = new], "ok")
    BY <1>1 DEF Execute, DeltaAccumulator
  <2>2. "meter" \in DOMAIN stores
    BY DEF PointShape, Shaped, Keeps
  <2> HIDE DEF new
  <2> QED BY <2>1, <2>2, ResultFields
<1>4. new.last = data.value /\ new.date = (IF resets THEN current ELSE m.date)
      /\ new.sum = IF IsLess(0, rise) THEN base + rise ELSE base
  OBVIOUS
<1>5. Day(now) \in Nat
  BY <1>0, DayFollows
<1>6. /\ period = Missing => current = Day(now) /\ (resets <=> m.date # Day(now))
      /\ period # Missing => ~resets
  <2>1. CASE period = Missing
    <3>1. Unit = "ms"
      BY <2>1 DEF Counting
    <3>2. reads = now
      BY <3>1 DEF UnixMilli
    <3>3. current = Day(now)
      BY <1>1, <2>1, <3>2
    <3> QED BY <1>1, <2>1, <3>3
  <2>2. CASE period # Missing
    BY <1>1, <2>2 DEF Counting
  <2> QED BY <2>1, <2>2
<1>7. base = 2 * (IF keeps THEN Cardinality(RisesOf(period)) ELSE 0)
  <2>1. CASE acted = {}
    <3>1. RisesOf(period) = {} /\ Cardinality({}) = 0
      BY <2>1, FS_EmptySet DEF RisesOf, Rises
    <3>2. m.sum = 0
      BY <1>2, <3>1
    <3> QED BY <2>1, <3>2
  <2>2. CASE acted # {} /\ period = Missing
    <3>1. resets <=> ~keeps
      BY <1>2, <1>6, <2>2
    <3> HIDE DEF resets, keeps
    <3> QED BY <1>2, <3>1
  <2>3. CASE acted # {} /\ period # Missing
    <3>1. ~resets /\ keeps
      BY <1>6, <2>3
    <3> HIDE DEF resets, keeps
    <3> QED BY <1>2, <3>1
  <2> QED BY <2>1, <2>2, <2>3
<1>8. IF up THEN rise = 2 ELSE ~IsLess(0, rise)
  <2>1. CASE acted = {}
    BY <1>2, <2>1 DEF IsLess
  <2>2. CASE acted # {}
    <3>1. m.last = arrivals[l] /\ arrivals[l] \in Values /\ m.last # Missing
      <4>1. Missing \notin Values
        BY DEF Values
      <4> QED BY <1>0, <1>2, <2>2, <4>1
    <3>2. rise = Sum(arrivals[now], Product(-1, arrivals[l]))
      BY <1>0, <3>1
    <3>3. CASE arrivals[l] = NaN \/ arrivals[now] = NaN
      BY <3>2, <3>3 DEF Sum, Product, IsLess
    <3>4. CASE arrivals[l] # NaN /\ arrivals[now] # NaN
      <4>1. arrivals[l] \in {0, 2} /\ arrivals[now] \in {0, 2}
        BY <1>0, <3>1, <3>4 DEF Values
      <4>2. rise = arrivals[now] - arrivals[l]
        BY <3>2, <4>1 DEF Sum, Product
      <4> HIDE DEF rise, l
      <4> QED BY <2>2, <4>1, <4>2 DEF IsLess
    <3> QED BY <3>3, <3>4
  <2> QED BY <2>1, <2>2
<1>9. new.sum = 2 * Cardinality(RisesOf(period)')
  <2> DEFINE kept == IF keeps THEN Cardinality(RisesOf(period)) ELSE 0
  <2>1. kept \in Nat /\ Cardinality(RisesOf(period)') = IF up THEN kept + 1 ELSE kept
    BY RisesOfNext
  <2>2. IsLess(0, 2)
    BY DEF IsLess
  <2>3. base = 2 * kept
    BY <1>7
  <2> HIDE DEF new, rise, base, up, kept
  <2> QED BY <1>4, <1>8, <2>1, <2>2, <2>3
<1>10. period = Missing => new.date = Day(now)
  <2> SUFFICES ASSUME period = Missing PROVE new.date = Day(now)
    OBVIOUS
  <2>1. current = Day(now) /\ (resets <=> m.date # Day(now))
    BY <1>6
  <2> HIDE DEF new, resets, current
  <2> QED BY <1>4, <2>1
<1> HIDE DEF new
<1> QED BY <1>0, <1>3, <1>4, <1>9, <1>10

LEMMA MeterStep ==
  ASSUME PointShape, MeterInv, PointNext
  PROVE  MeterInv'
<1>1. ASSUME NEW v \in Values, Arrived(v) PROVE MeterInv'
  <2>1. now \in Nat /\ ruleOf' = ruleOf /\ world' = world /\ stores' = stores /\ acted' = acted
        /\ acted \subseteq 1 .. now /\ (acted # {} => Latest(acted) \in 1 .. now)
        /\ \A t \in 1 .. now : arrivals'[t] = arrivals[t]
    BY <1>1 DEF PointShape, Arrived
  <2>2. ASSUME NEW t \in acted, Earlier(acted, t) # {}
        PROVE  LET u == Latest(Earlier(acted, t)) IN
               arrivals'[u] = arrivals[u] /\ arrivals'[t] = arrivals[t]
    <3>1. Earlier(acted, t) \subseteq 1 .. now
      BY <2>1 DEF Earlier
    <3>2. Latest(Earlier(acted, t)) \in 1 .. now
      BY <2>1, <2>2, <3>1, LatestIn
    <3> QED BY <2>1, <3>2
  <2>3. Rises' = Rises
    <3>1. \A t : Earlier(acted, t)' = Earlier(acted, t)
      BY <2>1 DEF Earlier
    <3>2. Rises' = {t \in acted : /\ Earlier(acted, t) # {}
                                 /\ IsLess(arrivals'[Latest(Earlier(acted, t))], arrivals'[t])}
      BY <2>1 DEF Rises, Earlier
    <3> QED BY <2>2, <3>2 DEF Rises
  <2>4. Latest(acted)' = Latest(acted) /\ (acted # {} => arrivals'[Latest(acted)] = arrivals[Latest(acted)])
    BY <2>1 DEF Latest
  <2>5. \A period : /\ RisesOf(period)' = RisesOf(period) /\ IsMeter(period)' = IsMeter(period)
                    /\ Counting(period)' = Counting(period)
    BY <2>1, <2>3, <2>4 DEF RisesOf, IsMeter, HasStore, Counting, Unit, Day
  <2>6. Day(Latest(acted))' = Day(Latest(acted))
    BY <2>4 DEF Day
  <2> QED BY <2>1, <2>4, <2>5, <2>6 DEF MeterInv
<1>2. ASSUME NEW asked \in BOOLEAN, NEW hit, NEW r, NEW ends, NEW saved,
             Evaluated(asked, hit, r, ends, saved)
      PROVE  MeterInv'
  <2>1. turn \in {1, 2} /\ now \in Nat /\ now' = now /\ arrivals' = arrivals
        /\ ruleOf' = ruleOf /\ world' = world /\ stores' = r.stores
        /\ acted \subseteq 1 .. now
        /\ acted' = (IF asked /\ hit /\ turn = 1 THEN acted \cup {now} ELSE acted)
    BY <1>2 DEF Evaluated, PointShape
  <2>2. \A period : IsMeter(period)' = IsMeter(period) /\ Counting(period)' = Counting(period)
    BY <2>1 DEF IsMeter, HasStore, Counting, Unit
  <2>3. CASE asked /\ hit /\ turn = 1
    <3> SUFFICES ASSUME NEW period, IsMeter(period), Counting(period)
                 PROVE  /\ acted' # {} /\ r.stores.meter.last = arrivals[Latest(acted)']
                        /\ period = Missing => r.stores.meter.date = Day(Latest(acted))'
                        /\ r.stores.meter.sum = 2 * Cardinality(RisesOf(period)')
      BY <2>1, <2>2 DEF MeterInv
    <3>1. acted' = acted \cup {now} /\ r \in Execute(ruleOf[1].do)
      BY <1>2, <2>1, <2>3 DEF Evaluated
    <3>2. Latest(acted)' = now
      <4>1. Latest(acted \cup {now}) = now
        BY <2>1, LatestAdded
      <4> QED BY <3>1, <4>1 DEF Latest
    <3>3. Day(Latest(acted))' = Day(now)
      BY <3>2 DEF Day
    <3>4. /\ r.stores.meter.last = arrivals[now]
          /\ period = Missing => r.stores.meter.date = Day(now)
          /\ r.stores.meter.sum = 2 * Cardinality(RisesOf(period)')
      BY <2>1, <2>3, <3>1, MeterCounts
    <3> QED BY <3>1, <3>2, <3>3, <3>4
  <2>4. CASE ~(asked /\ hit /\ turn = 1)
    <3>1. acted' = acted
      BY <2>1, <2>4
    <3>2. stores'.meter = stores.meter
      <4>1. turn = 2 => ruleOf[2].do.is # "delta_accumulator"
        BY ChainShape DEF PointShape
      <4> QED BY <1>2, <2>1, <2>4, <4>1 DEF Evaluated, Bounded
    <3>3. Latest(acted)' = Latest(acted) /\ Rises' = Rises
      BY <2>1, <3>1 DEF Latest, Rises, Earlier
    <3>4. Day(Latest(acted))' = Day(Latest(acted)) /\ \A period : RisesOf(period)' = RisesOf(period)
      BY <3>3 DEF Day, RisesOf
    <3> QED BY <2>1, <2>2, <3>1, <3>2, <3>3, <3>4 DEF MeterInv
  <2> QED BY <2>3, <2>4
<1> QED BY <1>1, <1>2, PointSteps

LEMMA ToMeterAddsUp == MeterInv => MeterAddsUp
<1> SUFFICES ASSUME MeterInv PROVE MeterAddsUp
  OBVIOUS
<1>1. \A period : IsMeter(period) /\ Counting(period) =>
        stores.meter.sum = 2 * Cardinality(RisesOf(period))
  BY DEF MeterInv
<1>2. Unit = "ms" => Counting(Missing)
  BY DEF Counting
<1>3. RisesOf(Missing) = {t \in Rises : Day(t) = Day(Latest(acted))}
  BY DEF RisesOf
<1>4. \A period \in {-1, 0} : Counting(period) /\ RisesOf(period) = Rises
  BY PointAssumption DEF Counting, RisesOf
<1> QED BY <1>1, <1>2, <1>3, <1>4 DEF MeterAddsUp

-----------------------------------------------------------------------------
PointInv == PointShape /\ ChangesInv /\ LimitsInv /\ StoredInv /\ AlarmIsDated /\ MeterInv

LEMMA PointInvInit == PointInit => PointInv
<1> SUFFICES ASSUME PointInit PROVE PointInv
  OBVIOUS
<1>1. /\ ruleOf \in Chains /\ turn = 0 /\ now = 0 /\ arrivals = [t \in {} |-> NaN]
      /\ matched = [k \in 1 .. 2 |-> Missing] /\ acted = {} /\ saves = {}
      /\ data = [value |-> 0, name |-> 0, quality |-> 0, over |-> FALSE, free |-> Missing,
                 calc |-> Missing, alarm |-> Missing, alarmAt |-> Missing, targets |-> {},
                 dropped |-> FALSE, prev |-> Missing, prevAt |-> Missing]
      /\ stores = [meter |-> [last |-> Missing, date |-> Missing, sum |-> 0], stored |-> Missing]
  BY DEF PointInit, PointInitIn
<1>2. Shaped(data, stores) /\ data.prev = Missing /\ data.calc = Missing /\ data.alarmAt = Missing
  BY <1>1 DEF Shaped, Fields, Keeps
<1>3. stores.stored = Missing /\ stores.meter = [last |-> Missing, date |-> Missing, sum |-> 0]
  BY <1>1
<1>4. DOMAIN matched = {1, 2} /\ \A k \in {1, 2} : matched[k] = Missing /\ matched[k] # TRUE
  <2>1. Missing # TRUE
    BY PointAssumption
  <2>2. 1 .. 2 = {1, 2} /\ matched = [k \in 1 .. 2 |-> Missing]
    BY <1>1
  <2> HIDE <1>1
  <2> QED BY <2>1, <2>2
<1>5. arrivals \in [1 .. now -> Values]
  BY <1>1
<1>6. PointShape
  BY <1>1, <1>2, <1>3, <1>4, <1>5 DEF PointShape
<1>7. ChangesInv
  <2>1. ChangesAreOfData
    <3>1. 1 .. 2 = {1, 2}
      OBVIOUS
    <3> QED BY <1>4, <3>1, Zenon DEF ChangesAreOfData
  <2> QED BY <1>1, <1>2, <2>1 DEF ChangesInv
<1>8. LimitsInv /\ StoredInv
  BY <1>1, <1>2, <1>3, <1>4 DEF LimitsInv, LimitsAreMarked, StoredInv, StoredIsAccountedFor
<1>9. AlarmIsDated
  <2>1. 1 .. 2 = {1, 2}
    OBVIOUS
  <2> QED BY <1>1, <1>2, <1>4, <2>1, Zenon DEF AlarmIsDated
<1>10. MeterInv
  <2>1. stores.meter.sum = 0 /\ stores.meter.last = Missing /\ stores.meter.date = Missing
    BY <1>3
  <2>2. \A period : RisesOf(period) = {}
    BY <1>1 DEF RisesOf, Rises
  <2>3. stores.meter.sum = 2 * Cardinality({})
    BY <2>1, FS_EmptySet
  <2>4. \A period : stores.meter.sum = 2 * Cardinality(RisesOf(period))
    BY <2>2, <2>3
  <2> QED BY <1>1, <2>1, <2>4, Zenon DEF MeterInv
<1> QED BY <1>6, <1>7, <1>8, <1>9, <1>10 DEF PointInv

LEMMA PointInvStep ==
  ASSUME PointInv, [PointNext]_pointVars
  PROVE  PointInv'
<1>1. CASE PointNext
  BY <1>1, ShapeStep, ChangesStep, LimitsStep, StoredStep, AlarmStep, MeterStep DEF PointInv
<1>2. CASE UNCHANGED pointVars
  <2>1. /\ world' = world /\ ruleOf' = ruleOf /\ data' = data /\ matched' = matched /\ turn' = turn
        /\ now' = now /\ stores' = stores /\ arrivals' = arrivals /\ acted' = acted /\ saves' = saves
    BY <1>2 DEF pointVars
  <2>2. PointShape'
    BY <2>1 DEF PointInv, PointShape, Came, Latest
  <2>3. ChangesInv'
    BY <2>1 DEF PointInv, ChangesInv, ChangesAreOfData, LeavesValue, Calculates, Came, Previous,
                Saved, Left, Latest, Earlier
  <2>4. LimitsInv'
    BY <2>1 DEF PointInv, LimitsInv, LimitsAreMarked, Limited, HasLimits, Came
  <2>5. StoredInv'
    BY <2>1 DEF PointInv, StoredInv, StoredIsAccountedFor, Calculates, LeavesValue, Came, Latest
  <2>6. AlarmIsDated'
    BY <2>1 DEF PointInv, AlarmIsDated
  <2>7. MeterInv'
    <3>1. \A period : /\ RisesOf(period)' = RisesOf(period) /\ IsMeter(period)' = IsMeter(period)
                      /\ Counting(period)' = Counting(period)
      BY <2>1 DEF RisesOf, Rises, Earlier, IsMeter, HasStore, Counting, Unit, Day, Latest
    <3> QED BY <2>1, <3>1 DEF PointInv, MeterInv, Latest, Day
  <2> QED BY <2>2, <2>3, <2>4, <2>5, <2>6, <2>7 DEF PointInv
<1> QED BY <1>1, <1>2

LEMMA PointInvariance == PointSpec => []PointInv
  BY PointInvInit, PointInvStep, PTL DEF PointSpec

LEMMA ToPoints == PointInv => ChangesAreOfData /\ PointsAreExact
  BY ToMeterAddsUp DEF PointInv, ChangesInv, PointsAreExact, LimitsInv, StoredInv

\* A condition on a change compares each value with what the last evaluation that
\* saved one has left, the value that a calculation made of it included, whatever
\* ended the evaluations since, refusals and panics among them (state_change,
\* delta_threshold, calc_node and savePreviousValue): in every chain and for every
\* number of evaluations and mishaps.
THEOREM ChangesCorrect == PointSpec => []ChangesAreOfData
BY ToPoints, PointInvariance, PTL

\* The mark of the limits is that of the value that came; what storage_write writes is
\* the value, or what was calculated last, this evaluation's or an earlier one's; an
\* alarm has the date of its last or its first raising; and a meter counts every rise
\* once, of the day of its last reading where times are milliseconds, of all days
\* where it knows no period (limit_check, storage_write, alarm_emit,
\* alarm_notify_ext, delta_accumulator): in every chain and for every number of
\* evaluations and mishaps.
THEOREM PointsCorrect == PointSpec => []PointsAreExact
BY ToPoints, PointInvariance, PTL

-----------------------------------------------------------------------------
(***************************************************************************)
(* The nodes that keep something between calls, for any evaluations and    *)
(* times.  A step of a call is Begun, GoesOn or Ended to the history       *)
(* (StepMoves), which keeps History; which call came after which is        *)
(* settled once the later one is there (AfterSettled), so that what was    *)
(* earned when a call fired stays earned (EarnedStays).  What is left is   *)
(* why a call that fires has earned it, and this is in what it has read:   *)
(*                                                                         *)
(* Waits: the time stored is that of a call that the node waits for, and   *)
(* no call that has returned has ended the wait since (StoreWaits); a call *)
(* that has read it knows this of the calls before it (SeenWaits).         *)
(*                                                                         *)
(* Pauses: what is stored is the call that fired last (StoreFired), and    *)
(* what a call has read is no older than any that had fired when it began  *)
(* (SeenFired).                                                            *)
(*                                                                         *)
(* limit_recovery: the same of its object, where there is one              *)
(* (RecoveryInv); periodic: an object has counted no more than the calls   *)
(* that have changed one (PeriodicInv).                                    *)
(***************************************************************************)

Times == 0 .. MaxTime
Steps == {"done", "get", "put", "decide"}
PastCalls == [ts : Nat, v : 0 .. 2, fired : BOOLEAN, end : Times \cup {None}]

\* A call, whatever its node has seen.
CallShape(c) == c \in [at : Steps, ts : Times, v : 0 .. 2, ref : {c.ref}, seen : {c.seen},
                       fired : BOOLEAN]

UnderWay(t) == call[t].at # "done"

\* A call under way and what the history says of it.
Recorded(t) ==
  /\ UnderWay(t) => /\ call[t].ts \in 1 .. clock /\ past[call[t].ts].v = call[t].v
                    /\ past[call[t].ts].end = None
  /\ ~UnderWay(t) /\ call[t].fired => call[t].ts \in 1 .. clock /\ past[call[t].ts].fired

History ==
  /\ kind \in Kinds /\ unit \in {"ms", "ns"}
  /\ clock \in Times /\ past \in Seq(PastCalls) /\ Len(past) = clock
  /\ \A i \in 1 .. clock : /\ past[i].ts = i
                           /\ Returned(i) => past[i].end \in i .. clock
                           /\ past[i].fired => Returned(i)
                           /\ ~Returned(i) => \E t \in Threads : UnderWay(t) /\ call[t].ts = i
  /\ DOMAIN call = Threads /\ \A t \in Threads : CallShape(call[t]) /\ Recorded(t)
  /\ \A t, u \in Threads : UnderWay(t) /\ UnderWay(u) /\ call[t].ts = call[u].ts => t = u

-----------------------------------------------------------------------------
(* Steps, as the history shows them. *)

\* A call of value v has begun; it may be over already.
Begun(t, v) ==
  /\ ~UnderWay(t) /\ clock' = clock + 1
  /\ past' = Append(past, past'[clock + 1])
  /\ past'[clock + 1].v = v
  /\ call'[t].ts = clock + 1 /\ call'[t].v = v /\ call'[t].seen = None /\ call'[t].ref = None
  /\ call'[t].at # "done" => call'[t].at \in {"get", "put"}
  /\ UNCHANGED <<store, heap>>

\* The call of t has returned.
Ended(t) ==
  /\ UnderWay(t) /\ call[t].at # "get" /\ clock' = clock
  /\ past' = [past EXCEPT ![call[t].ts] = past'[call[t].ts]]
  /\ past'[call[t].ts] = [past[call[t].ts] EXCEPT !.end = clock, !.fired = call'[t].fired]
  /\ call'[t].at = "done" /\ call'[t].ts = call[t].ts /\ call'[t].v = call[t].v
  /\ call'[t].seen = None

\* The call of t goes on.
GoesOn(t) ==
  /\ UnderWay(t) /\ UNCHANGED <<clock, past>>
  /\ call'[t].at \in {"put", "decide"}
  /\ call'[t].ts = call[t].ts /\ call'[t].v = call[t].v

Others(t) == \A u \in Threads \ {t} : call'[u] = call[u]

LEMMA NoneIsNoTime == None \notin Times /\ None \notin Threads /\ MaxTime \in Nat
  BY NodesAssumption, SkewAssumption DEF Times

LEMMA UpdatedAt ==
  ASSUME NEW c, CallShape(c), NEW at \in Steps, NEW new,
         new = [c EXCEPT !.at = at]
  PROVE  /\ CallShape(new) /\ new.at = at /\ new.ref = c.ref /\ new.seen = c.seen
         /\ new.fired = c.fired /\ new.ts = c.ts /\ new.v = c.v
<1>1. PICK r, s : c \in [at : Steps, ts : Times, v : 0 .. 2, ref : {r}, seen : {s}, fired : BOOLEAN]
                  /\ r = c.ref /\ s = c.seen
  BY DEF CallShape
<1>2. /\ new.at = at /\ new.ref = c.ref /\ new.seen = c.seen /\ new.fired = c.fired
      /\ new.ts = c.ts /\ new.v = c.v
  BY <1>1
<1>3. new \in [at : Steps, ts : Times, v : 0 .. 2, ref : {c.ref}, seen : {c.seen}, fired : BOOLEAN]
  BY <1>1
<1> QED BY <1>2, <1>3 DEF CallShape

LEMMA OverOf ==
  ASSUME History, NEW t \in Threads, NEW fired \in BOOLEAN, UnderWay(t), call[t].at # "get",
         Over(t, fired), UNCHANGED <<kind, unit, clock>>
  PROVE  /\ Ended(t) /\ Others(t) /\ DOMAIN call' = Threads /\ CallShape(call'[t])
         /\ call'[t].fired = fired /\ past'[call[t].ts].fired = fired /\ past' \in Seq(PastCalls)
<1> DEFINE c == call[t]
           new == [c EXCEPT !.at = "done", !.ref = None, !.seen = None, !.fired = fired]
           old == past[c.ts]
           entry == [old EXCEPT !.end = clock, !.fired = fired]
<1>1. CallShape(c) /\ c.ts \in 1 .. clock /\ DOMAIN call = Threads /\ clock \in Times
      /\ past \in Seq(PastCalls) /\ Len(past) = clock /\ old \in PastCalls
  BY NoneIsNoTime DEF History, Recorded, Times
<1>2. call' = [call EXCEPT ![t] = new]
  BY DEF Over
<1>3. /\ new.at = "done" /\ new.ts = c.ts /\ new.v = c.v /\ new.fired = fired /\ CallShape(new)
      /\ new.seen = None
  <2>1. PICK r, s : c \in [at : Steps, ts : Times, v : 0 .. 2, ref : {r}, seen : {s},
                          fired : BOOLEAN]
    BY <1>1 DEF CallShape
  <2>2. "done" \in Steps
    BY DEF Steps
  <2> HIDE DEF c
  <2>3. new.at = "done" /\ new.ts = c.ts /\ new.v = c.v /\ new.fired = fired /\ new.seen = None
        /\ new.ref = None
    BY <2>1
  <2>4. new \in [at : Steps, ts : Times, v : 0 .. 2, ref : {None}, seen : {None}, fired : BOOLEAN]
    BY <2>1, <2>2
  <2> QED BY <2>3, <2>4 DEF CallShape
<1>4. past' = [past EXCEPT ![c.ts] = entry]
  <2>1. past' = [past EXCEPT ![c.ts].end = clock, ![c.ts].fired = fired]
    BY DEF Over
  <2> QED BY <2>1, <1>1
<1>5. entry \in PastCalls /\ entry.fired = fired
  BY <1>1 DEF PastCalls, Times
<1> HIDE DEF new, entry
<1>6. call'[t] = new /\ Others(t) /\ DOMAIN call' = Threads
  BY <1>1, <1>2 DEF Others
<1>7. past'[c.ts] = entry /\ past' \in Seq(PastCalls)
  BY <1>1, <1>4, <1>5
<1>8. past'[c.ts] = [old EXCEPT !.end = clock, !.fired = call'[t].fired]
  BY <1>3, <1>6, <1>7 DEF entry
<1>9. Ended(t)
  BY <1>3, <1>4, <1>6, <1>7, <1>8 DEF Ended
<1> QED BY <1>3, <1>5, <1>6, <1>7, <1>9

LEMMA CallStep ==
  ASSUME History, NEW t \in Threads, NEW new,
         call' = [call EXCEPT ![t] = new], CallShape(new)
  PROVE  call'[t] = new /\ Others(t) /\ DOMAIN call' = Threads /\ CallShape(call'[t])
BY DEF History, Others

\* What each of the actions is to the history.
Moves(t) ==
  /\ UNCHANGED <<kind, unit>>
  /\ Others(t) /\ DOMAIN call' = Threads /\ CallShape(call'[t]) /\ past' \in Seq(PastCalls)
  /\ \/ \E v \in 0 .. 2 : /\ Begun(t, v) /\ clock < MaxTime
                          /\ IF call'[t].at = "done"
                             THEN /\ NeedsNoState(v) /\ past'[clock'].end = clock'
                                  /\ past'[clock'].fired = (v = 2)
                                  /\ call'[t].fired = (v = 2)
                             ELSE past'[clock'].end = None /\ ~past'[clock'].fired
                          /\ past'[clock'].ts = clock'
     \/ Ended(t)
     \/ GoesOn(t)

LEMMA BeginMoves ==
  ASSUME History, NEW t \in Threads, NEW v \in 0 .. 2, Begin(t, v)
  PROVE  Moves(t) /\ Begun(t, v)
         /\ call'[t].at = (IF NeedsNoState(v) THEN "done"
                           ELSE IF kind = "duration" /\ v # 2 THEN "put" ELSE "get")
<1> DEFINE at == IF NeedsNoState(v) THEN "done"
                 ELSE IF kind = "duration" /\ v # 2 THEN "put" ELSE "get"
           new == [at |-> at, ts |-> clock', v |-> v, ref |-> None,
                   seen |-> None, fired |-> NeedsNoState(v) /\ v = 2]
           entry == [ts |-> clock', v |-> v, fired |-> at = "done" /\ v = 2,
                     end |-> IF at = "done" THEN clock' ELSE None]
<1>b. clock \in Nat /\ (clock < LastCall => clock < MaxTime)
  BY NoneIsNoTime DEF LastCall, History, Times
<1>1. /\ call[t].at = "done" /\ clock < MaxTime /\ clock' = clock + 1
      /\ call' = [call EXCEPT ![t] = new] /\ past' = Append(past, entry)
      /\ UNCHANGED <<kind, unit, store, heap>>
  BY <1>b DEF Begin
<1>2. at \in {"done", "get", "put"} /\ (at = "done" <=> NeedsNoState(v))
      /\ clock' \in Times /\ NeedsNoState(v) \in BOOLEAN /\ clock \in Times /\ Len(past) = clock
      /\ past \in Seq(PastCalls)
  BY <1>1, NoneIsNoTime DEF NeedsNoState, History, Times
<1>a. at = (IF NeedsNoState(v) THEN "done"
            ELSE IF kind = "duration" /\ v # 2 THEN "put" ELSE "get")
  OBVIOUS
<1> HIDE DEF at
<1>3. CallShape(new)
  BY <1>2 DEF CallShape, Steps
<1>4. /\ new.at = at /\ new.ts = clock' /\ new.v = v /\ new.ref = None /\ new.seen = None
      /\ new.fired = (NeedsNoState(v) /\ v = 2)
  OBVIOUS
<1>5. /\ entry \in PastCalls /\ entry.ts = clock' /\ entry.v = v
      /\ entry.fired = (at = "done" /\ v = 2)
      /\ entry.end = IF at = "done" THEN clock' ELSE None
  BY <1>2 DEF PastCalls, Times
<1> HIDE DEF new, entry
<1>6. call'[t] = new /\ Others(t) /\ DOMAIN call' = Threads /\ CallShape(call'[t])
  BY <1>1, <1>3, CallStep
<1>7. past'[clock + 1] = entry /\ past' \in Seq(PastCalls) /\ past' = Append(past, past'[clock + 1])
  BY <1>1, <1>2, <1>5 DEF Times
<1>8. Begun(t, v)
  BY <1>1, <1>2, <1>4, <1>5, <1>6, <1>7 DEF Begun, UnderWay
<1>9. /\ past'[clock'].ts = clock'
      /\ at = "done" => /\ past'[clock'].end = clock' /\ past'[clock'].fired = (v = 2)
                        /\ call'[t].fired = (v = 2)
      /\ at # "done" => past'[clock'].end = None /\ ~past'[clock'].fired
  BY <1>1, <1>2, <1>4, <1>5, <1>6, <1>7
<1> QED BY <1>1, <1>2, <1>4, <1>6, <1>7, <1>8, <1>9, <1>a DEF Moves

\* What the call of t gets.
GetSees(t) ==
  /\ kind \in ByPointer =>
       /\ heap' = IF store = None THEN [heap EXCEPT ![t] = Fresh] ELSE heap
       /\ call'[t].ref = IF store = None THEN t ELSE store
       /\ call'[t].seen = heap'[call'[t].ref]
  /\ kind \notin ByPointer =>
       /\ heap' = heap
       /\ call'[t].seen = IF store = None /\ kind \in Windowed THEN Fresh ELSE store

LEMMA GetMoves ==
  ASSUME History, NEW t \in Threads, Get(t)
  PROVE  /\ Moves(t) /\ GoesOn(t) /\ UnderWay(t) /\ call[t].at = "get" /\ call'[t].at = "put"
         /\ UNCHANGED <<kind, unit, clock, store, past>>
         /\ GetSees(t)
<1>1. /\ UnderWay(t) /\ call[t].at = "get" /\ CallShape(call[t]) /\ DOMAIN call = Threads /\ past \in Seq(PastCalls)
      /\ UNCHANGED <<kind, unit, clock, store, past>>
  BY DEF Get, UnderWay, History
<1>2. ASSUME NEW ref, NEW seen,
             call' = [call EXCEPT ![t].at = "put", ![t].ref = ref, ![t].seen = seen]
      PROVE  Moves(t) /\ GoesOn(t) /\ call'[t].at = "put" /\ call'[t].ref = ref
             /\ call'[t].seen = seen
  <2> DEFINE c == call[t]
             new == [c EXCEPT !.at = "put", !.ref = ref, !.seen = seen]
  <2>1. call' = [call EXCEPT ![t] = new]
    BY <1>2
  <2>2. "put" \in Steps /\ CallShape(c) /\ c.fired \in BOOLEAN
    BY <1>1 DEF Steps, CallShape
  <2> HIDE DEF c
  <2>3. PICK r, s : c \in [at : Steps, ts : Times, v : 0 .. 2, ref : {r}, seen : {s},
                          fired : BOOLEAN] /\ r = c.ref
    BY <2>2 DEF CallShape
  <2>6. new.at = "put" /\ new.ref = ref /\ new.seen = seen /\ new.ts = c.ts /\ new.v = c.v
    BY <2>3
  <2>7. new \in [at : Steps, ts : Times, v : 0 .. 2, ref : {ref}, seen : {seen},
                fired : BOOLEAN]
    BY <2>2, <2>3
  <2>4. /\ CallShape(new) /\ new.at = "put" /\ new.ref = ref /\ new.seen = seen
        /\ new.ts = c.ts /\ new.v = c.v
    BY <2>6, <2>7 DEF CallShape
  <2> HIDE DEF new
  <2> USE DEF c
  <2>5. call'[t] = new /\ Others(t) /\ DOMAIN call' = Threads /\ CallShape(call'[t])
    BY <2>1, <2>4, CallStep
  <2> QED BY <1>1, <2>4, <2>5 DEF Moves, GoesOn
<1>3. CASE kind \in ByPointer
  <2> DEFINE ref == IF store = None THEN t ELSE store
             made == IF store = None THEN [heap EXCEPT ![t] = Fresh] ELSE heap
  <2>1. heap' = made
        /\ call' = [call EXCEPT ![t].at = "put", ![t].ref = ref, ![t].seen = made[ref]]
    BY <1>3 DEF Get
  <2>2. Moves(t) /\ GoesOn(t) /\ call'[t].at = "put" /\ call'[t].ref = ref
        /\ call'[t].seen = made[ref]
    BY <1>2, <2>1
  <2>3. made[ref] = heap'[call'[t].ref]
    BY <2>1, <2>2
  <2>4. GetSees(t)
    BY <1>3, <2>1, <2>2, <2>3 DEF GetSees
  <2> QED BY <1>1, <2>2, <2>4
<1>4. CASE kind \notin ByPointer
  <2> DEFINE seen == IF store = None /\ kind \in Windowed THEN Fresh ELSE store
             c == call[t]
             new == [c EXCEPT !.at = "put", !.seen = seen]
  <2>1. heap' = heap /\ call' = [call EXCEPT ![t].at = "put", ![t].seen = seen]
    BY <1>4 DEF Get
  <2>a. call' = [call EXCEPT ![t] = new]
    BY <2>1
  <2>2. "put" \in Steps /\ CallShape(c) /\ c.fired \in BOOLEAN
    BY <1>1 DEF Steps, CallShape
  <2> HIDE DEF c
  <2>3. PICK r, s : c \in [at : Steps, ts : Times, v : 0 .. 2, ref : {r}, seen : {s},
                          fired : BOOLEAN] /\ r = c.ref
    BY <2>2 DEF CallShape
  <2>6. new.at = "put" /\ new.ref = c.ref /\ new.seen = seen /\ new.ts = c.ts /\ new.v = c.v
    BY <2>3
  <2>7. new \in [at : Steps, ts : Times, v : 0 .. 2, ref : {c.ref}, seen : {seen},
                fired : BOOLEAN]
    BY <2>2, <2>3
  <2>4. /\ CallShape(new) /\ new.at = "put" /\ new.seen = seen
        /\ new.ts = c.ts /\ new.v = c.v
    BY <2>6, <2>7 DEF CallShape
  <2> HIDE DEF new
  <2> USE DEF c
  <2>5. call'[t] = new /\ Others(t) /\ DOMAIN call' = Threads /\ CallShape(call'[t])
    BY <2>a, <2>4, CallStep
  <2>8. Moves(t) /\ GoesOn(t)
    BY <1>1, <2>4, <2>5 DEF Moves, GoesOn
  <2>9. GetSees(t)
    BY <1>4, <2>1, <2>4, <2>5 DEF GetSees
  <2> QED BY <1>1, <2>4, <2>5, <2>8, <2>9
<1> QED BY <1>3, <1>4

\* A step is that of a call, and the history knows which.
LEMMA StepMoves ==
  ASSUME History, NEW t \in Threads,
         \/ \E v \in 0 .. 2 : Begin(t, v)
         \/ Get(t) \/ PutSince(t) \/ PutMatch(t) \/ PutFreeze(t)
         \/ PutSamples(t) \/ PutObject(t) \/ Decide(t)
  PROVE  Moves(t)
<1>o. ASSUME NEW fired \in BOOLEAN, UnderWay(t), call[t].at # "get",
             Over(t, fired), UNCHANGED <<kind, unit, clock>>
      PROVE  Moves(t)
  BY <1>o, OverOf DEF Moves
<1>1. CASE \E v \in 0 .. 2 : Begin(t, v)
  BY <1>1, BeginMoves
<1>2. CASE Get(t)
  BY <1>2, GetMoves
<1>3. CASE PutSince(t)
  BY <1>3, <1>o DEF PutSince, UnderWay, Held
<1>4. CASE PutMatch(t)
  BY <1>4, <1>o DEF PutMatch, UnderWay, StillPausing
<1>5. CASE PutFreeze(t)
  BY <1>5, <1>o, ZenonT(30) DEF PutFreeze, UnderWay
<1>6. CASE PutSamples(t)
  BY <1>6, <1>o DEF PutSamples, UnderWay, SteepEnough
<1>7. CASE PutObject(t)
  <2>1. CASE kind = "recovery"
    BY <1>7, <2>1, <1>o DEF PutObject, UnderWay, RecoveryFires
  <2>2. CASE kind # "recovery"
    <3> DEFINE c == call[t]
               new == [c EXCEPT !.at = "decide"]
    <3>1. call' = [call EXCEPT ![t].at = "decide"] /\ UNCHANGED <<kind, unit, clock, past>>
          /\ UnderWay(t) /\ CallShape(c) /\ past \in Seq(PastCalls)
      BY <1>7, <2>2 DEF PutObject, UnderWay, History
    <3>2. call' = [call EXCEPT ![t] = new]
      BY <3>1
    <3>3. "decide" \in Steps /\ c.fired \in BOOLEAN
      BY <3>1 DEF Steps, CallShape
    <3>4. new = [c EXCEPT !.at = "decide"]
      OBVIOUS
    <3> HIDE DEF c, new
    <3>5. CallShape(new) /\ new.at = "decide" /\ new.ts = c.ts /\ new.v = c.v
      BY <3>1, <3>3, <3>4, UpdatedAt
    <3> USE DEF c
    <3>6. call'[t] = new /\ Others(t) /\ DOMAIN call' = Threads /\ CallShape(call'[t])
      BY <3>2, <3>5, CallStep
    <3> QED BY <3>1, <3>5, <3>6 DEF Moves, GoesOn
  <2> QED BY <2>1, <2>2
<1>8. CASE Decide(t)
  <2> DEFINE fires == CASE kind = "periodic" -> heap[call[t].ref].n >= Count
                        [] kind \in {"tracker", "demand"} -> FALSE
                        [] OTHER -> SteepEnough(heap[call[t].ref])
  <2>1. UnderWay(t) /\ call[t].at # "get" /\ Over(t, fires) /\ UNCHANGED <<kind, unit, clock>>
    BY <1>8 DEF Decide, UnderWay
  <2>2. fires \in BOOLEAN
    <3>1. kind = "periodic" => fires = (heap[call[t].ref].n >= Count)
      OBVIOUS
    <3>2. kind \in {"tracker", "demand"} => fires = FALSE
      OBVIOUS
    <3>3. kind \notin {"periodic", "tracker", "demand"} => fires = SteepEnough(heap[call[t].ref])
      OBVIOUS
    <3>4. (heap[call[t].ref].n >= Count) \in BOOLEAN
      OBVIOUS
    <3>5. SteepEnough(heap[call[t].ref]) \in BOOLEAN
      BY DEF SteepEnough
    <3> HIDE DEF fires
    <3> QED BY <3>1, <3>2, <3>3, <3>4, <3>5, Zenon
  <2> HIDE DEF fires
  <2> QED BY <2>1, <2>2, <1>o
<1> QED BY <1>1, <1>2, <1>3, <1>4, <1>5, <1>6, <1>7, <1>8

-----------------------------------------------------------------------------
(* What the history keeps. *)

\* The calls that were there are as they were, but for that one which returns.
LEMMA PastMoves ==
  ASSUME History, NEW t \in Threads, Moves(t)
  PROVE  /\ clock' \in Times /\ clock <= clock' /\ Len(past') = clock'
         /\ DOMAIN past = 1 .. clock /\ DOMAIN past' = 1 .. clock'
         /\ \A i \in 1 .. clock :
              /\ past'[i].ts = past[i].ts /\ past'[i].v = past[i].v
              /\ past'[i] = past[i] \/ (Ended(t) /\ i = call[t].ts)
              /\ Returned(i) => past'[i] = past[i]
              /\ ~Returned(i) /\ Returned(i)' => past'[i].end = clock /\ clock' = clock
<1>1. clock \in Times /\ clock \in Nat /\ past \in Seq(PastCalls) /\ Len(past) = clock
      /\ DOMAIN past = 1 .. clock /\ past' \in Seq(PastCalls)
  BY NoneIsNoTime DEF History, Times, Moves
<1>2. CASE \E v \in 0 .. 2 : Begun(t, v) /\ clock < MaxTime
  <2>1. PICK e : clock' = clock + 1 /\ past' = Append(past, e)
    BY <1>2 DEF Begun
  <2>2. clock' \in Times /\ Len(past') = clock' /\ DOMAIN past' = 1 .. clock'
    BY <1>1, <1>2, <2>1, NoneIsNoTime DEF Times
  <2>3. \A i \in 1 .. clock : past'[i] = past[i]
    BY <1>1, <2>1
  <2> QED BY <1>1, <2>1, <2>2, <2>3 DEF Returned
<1>3. CASE Ended(t)
  <2> DEFINE i == call[t].ts
  <2>1. PICK e : past' = [past EXCEPT ![i] = e] /\ e = [past[i] EXCEPT !.end = clock, !.fired = e.fired]
    BY <1>3, ZenonT(30) DEF Ended
  <2>2. i \in 1 .. clock /\ past[i].end = None /\ past[i] \in PastCalls /\ clock' = clock
    BY <1>1, <1>3 DEF History, Recorded, Ended, UnderWay
  <2> HIDE DEF i
  <2>3. past'[i] = e /\ Len(past') = clock /\ DOMAIN past' = 1 .. clock
        /\ \A j \in 1 .. clock : j # i => past'[j] = past[j]
    BY <1>1, <2>1, <2>2
  <2>4. e.ts = past[i].ts /\ e.v = past[i].v /\ e.end = clock
    BY <2>1, <2>2 DEF PastCalls
  <2> QED BY <1>1, <1>3, <2>2, <2>3, <2>4 DEF Returned, i
<1>4. CASE GoesOn(t)
  BY <1>1, <1>4 DEF GoesOn, Returned
<1> QED BY <1>2, <1>3, <1>4 DEF Moves

LEMMA HistoryStep ==
  ASSUME History, NEW t \in Threads, Moves(t)
  PROVE  History'
<1>1. /\ clock \in Times /\ clock \in Nat /\ past \in Seq(PastCalls) /\ Len(past) = clock
      /\ kind' \in Kinds /\ unit' \in {"ms", "ns"}
      /\ DOMAIN call' = Threads /\ CallShape(call'[t]) /\ Others(t) /\ past' \in Seq(PastCalls)
      /\ \A u \in Threads : CallShape(call[u]) /\ Recorded(u)
  BY NoneIsNoTime DEF History, Times, Moves
<1>2. /\ clock' \in Times /\ clock <= clock' /\ Len(past') = clock'
      /\ \A i \in 1 .. clock : past'[i] = past[i] \/ (Ended(t) /\ i = call[t].ts)
  BY PastMoves
<1>3. \A u \in Threads : CallShape(call'[u])
  BY <1>1 DEF Others
<1>4. \A u \in Threads \ {t} : Recorded(u)' /\ (UnderWay(u)' <=> UnderWay(u)) /\ call'[u] = call[u]
  <2> SUFFICES ASSUME NEW u \in Threads \ {t}
               PROVE  Recorded(u)' /\ (UnderWay(u)' <=> UnderWay(u)) /\ call'[u] = call[u]
    OBVIOUS
  <2>1. call'[u] = call[u]
    BY <1>1 DEF Others
  <2>2. UnderWay(u) => call[u].ts \in 1 .. clock /\ past'[call[u].ts] = past[call[u].ts]
    BY <1>1, <1>2 DEF Recorded, Ended, History
  <2>3. ~UnderWay(u) /\ call[u].fired =>
          call[u].ts \in 1 .. clock /\ past'[call[u].ts] = past[call[u].ts]
    BY <1>1, <1>2 DEF Recorded, Ended, History, Returned
  <2>4. \A i \in 1 .. clock : i \in 1 .. clock'
    BY <1>1, <1>2 DEF Times
  <2> QED BY <1>1, <2>1, <2>2, <2>3, <2>4 DEF Recorded, UnderWay
<1>5. CASE \E v \in 0 .. 2 : /\ Begun(t, v) /\ clock < MaxTime
                             /\ IF call'[t].at = "done"
                                THEN /\ NeedsNoState(v) /\ past'[clock'].end = clock'
                                     /\ past'[clock'].fired = (v = 2)
                                     /\ call'[t].fired = (v = 2)
                                ELSE past'[clock'].end = None /\ ~past'[clock'].fired
                             /\ past'[clock'].ts = clock'
  <2>1. PICK v \in 0 .. 2 : /\ Begun(t, v) /\ clock < MaxTime
                            /\ IF call'[t].at = "done"
                                THEN /\ NeedsNoState(v) /\ past'[clock'].end = clock'
                                     /\ past'[clock'].fired = (v = 2)
                                     /\ call'[t].fired = (v = 2)
                                ELSE past'[clock'].end = None /\ ~past'[clock'].fired
                            /\ past'[clock'].ts = clock'
    BY <1>5
  <2>2. /\ ~UnderWay(t) /\ clock' = clock + 1 /\ past'[clock'].v = v
        /\ call'[t].ts = clock' /\ call'[t].v = v
        /\ \A i \in 1 .. clock : past'[i] = past[i]
    BY <1>1, <2>1 DEF Begun
  <2>3. /\ UnderWay(t)' => past'[clock'].end = None /\ ~past'[clock'].fired
        /\ ~UnderWay(t)' => past'[clock'].end = clock' /\ past'[clock'].fired = call'[t].fired
    BY <2>1 DEF UnderWay
  <2>4. Recorded(t)'
    BY <1>1, <2>2, <2>3 DEF Recorded
  <2>5. ASSUME NEW i \in 1 .. clock'
        PROVE  /\ past'[i].ts = i
               /\ Returned(i)' => past'[i].end \in i .. clock'
               /\ past'[i].fired => Returned(i)'
               /\ ~Returned(i)' => \E u \in Threads : UnderWay(u)' /\ call'[u].ts = i
    <3>1. CASE i = clock'
      <4>1. past'[i].ts = i /\ clock' \in Nat /\ clock' # None /\ clock' \in i .. clock'
        <5>1. past'[clock'].ts = clock'
          BY <2>1
        <5>2. clock' \in Nat /\ clock' # None /\ clock' \in clock' .. clock'
          BY <1>2, NoneIsNoTime DEF Times
        <5> QED BY <3>1, <5>1, <5>2
      <4>2. CASE UnderWay(t)'
        <5>1. past'[i].end = None /\ ~past'[i].fired /\ call'[t].ts = i
          BY <2>2, <2>3, <3>1, <4>2
        <5> QED BY <4>1, <4>2, <5>1 DEF Returned
      <4>3. CASE ~UnderWay(t)'
        <5>1. past'[i].end = clock'
          BY <2>3, <3>1, <4>3
        <5> QED BY <4>1, <5>1 DEF Returned
      <4> QED BY <4>2, <4>3
    <3>2. CASE i # clock'
      <4>1. i \in 1 .. clock /\ past'[i] = past[i] /\ Returned(i)' = Returned(i)
        BY <1>1, <2>2, <3>2 DEF Returned
      <4>2. i .. clock \subseteq i .. clock'
        BY <1>1, <2>2
      <4> QED BY <2>2, <4>1, <4>2, <1>4 DEF History
    <3> QED BY <3>1, <3>2
  <2>6. ASSUME NEW u \in Threads, NEW w \in Threads,
               UnderWay(u)', UnderWay(w)', call'[u].ts = call'[w].ts
        PROVE  u = w
    BY <1>1, <1>4, <2>2, <2>6 DEF History, Recorded
  <2> QED BY <1>1, <1>2, <1>3, <1>4, <2>4, <2>5, <2>6 DEF History
<1>6. CASE Ended(t)
  <2> DEFINE k == call[t].ts
  <2>1. /\ k \in 1 .. clock /\ clock' = clock /\ past[k] \in PastCalls
        /\ past' = [past EXCEPT ![k] = past'[k]]
        /\ past'[k] = [past[k] EXCEPT !.end = clock, !.fired = call'[t].fired]
        /\ call'[t].at = "done" /\ call'[t].ts = k
    BY <1>1, <1>6 DEF Ended, Recorded
  <2>2. past'[k].ts = past[k].ts /\ past'[k].end = clock /\ past'[k].fired = call'[t].fired
    BY <2>1 DEF PastCalls
  <2>3. ~UnderWay(t)' /\ Recorded(t)'
    BY <2>1, <2>2 DEF UnderWay, Recorded
  <2>5. ASSUME NEW i \in 1 .. clock'
        PROVE  /\ past'[i].ts = i
               /\ Returned(i)' => past'[i].end \in i .. clock'
               /\ past'[i].fired => Returned(i)'
               /\ ~Returned(i)' => \E u \in Threads : UnderWay(u)' /\ call'[u].ts = i
    <3>1. CASE i = k
      <4>1. clock' \in k .. clock' /\ clock' # None
        BY <1>1, <2>1, NoneIsNoTime
      <4>2. past[k].ts = k
        BY <2>1 DEF History
      <4> HIDE DEF k
      <4> QED BY <2>1, <2>2, <3>1, <4>1, <4>2 DEF Returned
    <3>2. CASE i # k
      <4>1. i \in 1 .. clock /\ past'[i] = past[i] /\ Returned(i)' = Returned(i)
        BY <1>1, <1>2, <2>1, <3>2 DEF Returned
      <4> QED BY <2>1, <4>1, <1>4, <3>2 DEF History
    <3> QED BY <3>1, <3>2
  <2>6. ASSUME NEW u \in Threads, NEW w \in Threads,
               UnderWay(u)', UnderWay(w)', call'[u].ts = call'[w].ts
        PROVE  u = w
    BY <1>1, <1>4, <2>3, <2>6 DEF History
  <2> QED BY <1>1, <1>2, <1>3, <1>4, <2>3, <2>5, <2>6 DEF History
<1>7. CASE GoesOn(t)
  <2>1. /\ UNCHANGED <<clock, past>> /\ UnderWay(t)' /\ UnderWay(t)
        /\ call'[t].ts = call[t].ts /\ call'[t].v = call[t].v
    BY <1>7 DEF GoesOn, UnderWay
  <2>2. Recorded(t)'
    BY <1>1, <2>1 DEF Recorded
  <2>3. \A u \in Threads : (UnderWay(u)' <=> UnderWay(u)) /\ call'[u].ts = call[u].ts
    BY <1>4, <2>1
  <2>5. ASSUME NEW i \in 1 .. clock'
        PROVE  /\ past'[i].ts = i
               /\ Returned(i)' => past'[i].end \in i .. clock'
               /\ past'[i].fired => Returned(i)'
               /\ ~Returned(i)' => \E u \in Threads : UnderWay(u)' /\ call'[u].ts = i
    BY <2>1, <2>3 DEF History, Returned
  <2>6. ASSUME NEW u \in Threads, NEW w \in Threads,
               UnderWay(u)', UnderWay(w)', call'[u].ts = call'[w].ts
        PROVE  u = w
    BY <2>3, <2>6 DEF History
  <2> QED BY <1>1, <1>2, <1>3, <1>4, <2>2, <2>5, <2>6 DEF History
<1> QED BY <1>5, <1>6, <1>7 DEF Moves

LEMMA HistoryInit == NodesInit => History
<1> SUFFICES ASSUME NodesInit PROVE History
  OBVIOUS
<1>1. kind \in Kinds /\ unit \in {"ms", "ns"} /\ clock = 0 /\ past = << >> /\ DOMAIN call = Threads
      /\ \A t \in Threads : call[t] = [at |-> "done", ts |-> 0, v |-> 0, ref |-> None,
                                       seen |-> None, fired |-> FALSE]
  BY DEF NodesInit, NodesInitIn
<1>2. 0 \in Times /\ "done" \in Steps
  BY NoneIsNoTime DEF Times, Steps
<1>3. ASSUME NEW t \in Threads
      PROVE  call[t].at = "done" /\ ~call[t].fired /\ CallShape(call[t])
  <2>1. PICK c : c = call[t] /\ c = [at |-> "done", ts |-> 0, v |-> 0, ref |-> None,
                                   seen |-> None, fired |-> FALSE]
    BY <1>1
  <2>2. c.at = "done" /\ ~c.fired /\ c.ref = None /\ c.seen = None
    BY <2>1
  <2>3. c \in [at : Steps, ts : Times, v : 0 .. 2, ref : {None}, seen : {None}, fired : BOOLEAN]
    BY <1>2, <2>1
  <2>4. CallShape(c)
    BY <2>2, <2>3 DEF CallShape
  <2> QED BY <2>1, <2>2, <2>4
<1> QED BY <1>1, <1>2, <1>3 DEF History, Recorded, UnderWay

\* Which call came after which is settled once the later one is there.
LEMMA AfterSettled ==
  ASSUME History, NEW t \in Threads, Moves(t), NEW i \in 1 .. clock, NEW j \in 1 .. clock
  PROVE  /\ After(j, i)' = After(j, i)
         /\ Returned(i) => Returned(i)'
<1>1. past'[j].ts = j /\ past[j].ts = j
  BY PastMoves DEF History
<1>2. CASE Returned(i)
  <2>1. past'[i] = past[i]
    BY <1>2, PastMoves
  <2> QED BY <1>1, <1>2, <2>1 DEF After, Returned
<1>3. CASE ~Returned(i)
  <2>1. Returned(i)' => past'[i].end = clock
    BY <1>3, PastMoves
  <2>2. ~(j > clock)
    BY NoneIsNoTime DEF History, Times
  <2> QED BY <1>1, <1>3, <2>1, <2>2 DEF After
<1> QED BY <1>2, <1>3

\* A call that has begun comes after those that have returned, and none after it.
LEMMA AfterNew ==
  ASSUME History, NEW t \in Threads, Moves(t), NEW i \in 1 .. clock', i \notin 1 .. clock
  PROVE  /\ clock' = clock + 1 /\ i = clock'
         /\ \A j \in 1 .. clock' : ~After(j, i)'
         /\ \A j \in 1 .. clock : After(i, j)' <=> Returned(j)
<1>1. clock \in Nat /\ clock' \in Nat
  BY PastMoves, NoneIsNoTime DEF Times, History
<1>2. clock' = clock + 1 /\ i = clock'
  BY <1>1 DEF Moves, Begun, Ended, GoesOn
<1>3. History'
  BY HistoryStep
<1>4. past'[i].ts = i /\ (Returned(i)' => past'[i].end \in i .. clock')
      /\ \A j \in 1 .. clock' : past'[j].ts = j
  BY <1>3 DEF History
<1>5. \A j \in 1 .. clock' : ~After(j, i)'
  BY <1>1, <1>2, <1>4 DEF After
<1>6. ASSUME NEW j \in 1 .. clock PROVE After(i, j)' <=> Returned(j)
  <2>1. CASE Returned(j)
    <3>1. past'[j] = past[j]
      BY <2>1, PastMoves
    <3>2. past[j].end \in j .. clock
      BY <2>1 DEF History
    <3> QED BY <1>1, <1>2, <1>4, <2>1, <3>1, <3>2 DEF After, Returned
  <2>2. CASE ~Returned(j)
    <3>1. ~Returned(j)'
      BY <1>1, <1>2, <2>2, PastMoves
    <3> QED BY <2>2, <3>1 DEF After
  <2> QED BY <2>1, <2>2
<1> QED BY <1>2, <1>5, <1>6

-----------------------------------------------------------------------------
(* What a node fires for. *)

\* What a node fires for as it reads the times, and between which calls the periods
\* that it reads lie.
HeldAsRead(i, f, good, ending) ==
  /\ past[i].v = good
  /\ ReadAs(past[f].ts - past[i].ts) >= Ticks(Duration)
  /\ \A j \in DOMAIN past : past[j].v \in ending /\ After(j, i) => ~After(f, j)

RestedAsRead(f) ==
  \A j \in DOMAIN past :
    (/\ past[j].fired /\ After(f, j)
     /\ \A k \in DOMAIN past \ {j} : past[k].fired => After(k, j) \/ After(j, k))
    => ReadAs(past[f].ts - past[j].ts) >= Ticks(Period)

OfExceeded == {i \in DOMAIN past : past[i].v = 2}

PeriodsApart(met) == \A i, j \in met : i < j => ReadAs(j - i) >= Ticks(Period)

EarnedAsRead(f) ==
  /\ kind = "duration" => past[f].v = 2 /\ \E i \in 1 .. f : HeldAsRead(i, f, 2, {0, 1})
  /\ kind \in {"reverse", "threshold"} => past[f].v = 2 /\ \E i \in 1 .. f : HeldAsRead(i, f, 2, {})
  /\ kind = "recovery" /\ OneObject =>
       past[f].v = 0 /\ \E k, i \in DOMAIN past :
                          past[k].v = 2 /\ ~After(k, f) /\ HeldAsRead(i, f, 0, {2})
  /\ kind = "periodic" =>
       \E met \in SUBSET OfExceeded : Cardinality(met) >= Count /\ PeriodsApart(met)
  /\ kind \in Pausing => RestedAsRead(f)

LEMMA ReadAsScales ==
  ASSUME unit \in {"ms", "ns"}
  PROVE  \E K \in Nat \ {0} : \A d \in Int : ReadAs(d) = d * K
<1>1. Skew \in Nat \ {0} /\ Skew * Skew \in Nat \ {0}
  BY NodesAssumption, SkewAssumption
<1>2. \A d \in Int : (d * Skew) * Skew = d * (Skew * Skew)
  BY <1>1
<1> DEFINE K == CASE kind \in {"trend", "periodic"} -> IF unit = "ms" THEN 1 ELSE Skew * Skew
                  [] OTHER -> IF unit = "ms" THEN Skew ELSE Skew * Skew
<1>3. K \in Nat \ {0}
  BY <1>1
<1>4. ASSUME NEW d \in Int PROVE ReadAs(d) = d * K
  <2>1. CASE kind \in {"trend", "periodic"}
    BY <1>1, <1>2, <2>1 DEF ReadAs
  <2>2. CASE kind \notin {"trend", "periodic"}
    BY <1>1, <1>2, <2>2 DEF ReadAs
  <2> QED BY <2>1, <2>2
<1> HIDE DEF K
<1> QED BY <1>3, <1>4

LEMMA ReadAsGrows ==
  ASSUME unit \in {"ms", "ns"}, NEW d \in Int, NEW e \in Int
  PROVE  /\ ReadAs(d) \in Int /\ (d <= e => ReadAs(d) <= ReadAs(e)) /\ ReadAs(0) = 0
         /\ \A n \in Nat : Ticks(n) \in Nat /\ (ReadAs(d) >= Ticks(n) => d >= 0)
<1>1. PICK K \in Nat \ {0} : \A x \in Int : ReadAs(x) = x * K
  BY ReadAsScales
<1>2. \A x \in Int : x < 0 => x * K < 0
  OBVIOUS
<1>3. d <= e => d * K <= e * K
  OBVIOUS
<1>4. \A n \in Nat : Ticks(n) \in Nat
  BY NodesAssumption, SkewAssumption DEF Ticks
<1>5. ReadAs(d) = d * K /\ ReadAs(e) = e * K /\ ReadAs(0) = 0 /\ d * K \in Int /\ e * K \in Int
  BY <1>1
<1> QED BY <1>2, <1>3, <1>4, <1>5

LEMMA HeldSinceStays ==
  ASSUME History, NEW t \in Threads, Moves(t), NEW i \in 1 .. clock, NEW f \in 1 .. clock,
         NEW good, NEW ending, HeldAsRead(i, f, good, ending)
  PROVE  HeldAsRead(i, f, good, ending)'
<1>1. /\ past'[i].ts = past[i].ts /\ past'[f].ts = past[f].ts /\ past'[i].v = past[i].v
      /\ DOMAIN past = 1 .. clock /\ DOMAIN past' = 1 .. clock'
  BY PastMoves
<1>2. ReadAs(past[f].ts - past[i].ts)' = ReadAs(past[f].ts - past[i].ts)
  BY <1>1 DEF ReadAs, Moves
<1>3. ASSUME NEW j \in 1 .. clock', past'[j].v \in ending, After(j, i)' PROVE ~After(f, j)'
  <2>1. CASE j \in 1 .. clock
    <3>1. past'[j].v = past[j].v /\ After(j, i)' = After(j, i) /\ After(f, j)' = After(f, j)
      BY <2>1, PastMoves, AfterSettled
    <3> QED BY <1>1, <1>3, <2>1, <3>1 DEF HeldAsRead
  <2>2. CASE j \notin 1 .. clock
    <3>1. f \in 1 .. clock'
      BY PastMoves, NoneIsNoTime DEF Times, History
    <3> QED BY <2>2, <3>1, AfterNew
  <2> QED BY <2>1, <2>2
<1>4. past[i].v = good /\ ReadAs(past[f].ts - past[i].ts) >= Ticks(Duration)
  BY DEF HeldAsRead
<1> QED BY <1>1, <1>2, <1>3, <1>4 DEF HeldAsRead, Ticks

LEMMA RestedStays ==
  ASSUME History, NEW t \in Threads, Moves(t), NEW f \in 1 .. clock, RestedAsRead(f)
  PROVE  RestedAsRead(f)'
<1>1. DOMAIN past = 1 .. clock /\ DOMAIN past' = 1 .. clock'
      /\ \A j \in 1 .. clock : past'[j].ts = past[j].ts
  BY PastMoves
<1>2. 1 .. clock \subseteq 1 .. clock'
  BY PastMoves, NoneIsNoTime DEF Times, History
<1>3. SUFFICES ASSUME NEW j \in 1 .. clock', past'[j].fired, After(f, j)',
                      \A k \in 1 .. clock' \ {j} : past'[k].fired => After(k, j)' \/ After(j, k)'
               PROVE  ReadAs(past[f].ts - past[j].ts)' >= Ticks(Period)
  BY <1>1 DEF RestedAsRead, Ticks
<1>4. j \in 1 .. clock
  BY <1>2, <1>3, AfterNew
<1>5. After(f, j) /\ past[j].fired
  <2>1. After(f, j)
    BY <1>3, <1>4, AfterSettled
  <2>2. past'[j] = past[j]
    BY <1>4, <2>1, PastMoves DEF After
  <2> QED BY <1>3, <2>1, <2>2
<1>6. ASSUME NEW k \in 1 .. clock \ {j}, past[k].fired PROVE After(k, j) \/ After(j, k)
  <2>1. past'[k] = past[k]
    BY <1>6, PastMoves DEF History
  <2>2. After(k, j)' \/ After(j, k)'
    BY <1>2, <1>3, <1>6, <2>1
  <2> QED BY <1>4, <2>2, AfterSettled
<1>7. ReadAs(past[f].ts - past[j].ts) >= Ticks(Period)
  BY <1>1, <1>4, <1>5, <1>6 DEF RestedAsRead
<1>8. ReadAs(past[f].ts - past[j].ts)' = ReadAs(past[f].ts - past[j].ts)
  BY <1>1, <1>4 DEF ReadAs, Moves
<1> QED BY <1>7, <1>8

LEMMA ExceededStay ==
  ASSUME History, NEW t \in Threads, Moves(t)
  PROVE  /\ IsFiniteSet(OfExceeded) /\ IsFiniteSet(OfExceeded') /\ OfExceeded \subseteq OfExceeded'
         /\ Cardinality(OfExceeded) \in Nat /\ Cardinality(OfExceeded') \in Nat
         /\ Cardinality(OfExceeded) <= Cardinality(OfExceeded')
<1>1. /\ DOMAIN past = 1 .. clock /\ DOMAIN past' = 1 .. clock'
      /\ \A j \in 1 .. clock : past'[j].v = past[j].v
      /\ 1 .. clock \subseteq 1 .. clock' /\ clock \in Int /\ clock' \in Int
  BY PastMoves, NoneIsNoTime DEF Times, History
<1>2. IsFiniteSet(1 .. clock) /\ IsFiniteSet(1 .. clock')
  <2>1. \A n \in Int : IsFiniteSet(1 .. n)
    BY FS_Interval
  <2> QED BY <1>1, <2>1, Zenon
<1>3. OfExceeded \subseteq 1 .. clock /\ OfExceeded' \subseteq 1 .. clock' /\ OfExceeded \subseteq OfExceeded'
  BY <1>1 DEF OfExceeded
<1>4. IsFiniteSet(OfExceeded) /\ IsFiniteSet(OfExceeded')
  BY <1>2, <1>3, FS_Subset
<1> QED BY <1>3, <1>4, FS_Subset, FS_CardinalityType

\* What was earned when a call fired stays so.
LEMMA EarnedStays ==
  ASSUME History, NEW t \in Threads, Moves(t), NEW f \in 1 .. clock, past[f].fired, EarnedAsRead(f),
         kind = "recovery" /\ OneObject' => OneObject
  PROVE  EarnedAsRead(f)'
<1>1. /\ DOMAIN past = 1 .. clock /\ DOMAIN past' = 1 .. clock'
      /\ \A j \in 1 .. clock : past'[j].v = past[j].v
      /\ 1 .. clock \subseteq 1 .. clock' /\ 1 .. f \subseteq 1 .. clock /\ kind' = kind
  BY PastMoves, NoneIsNoTime DEF Times, History, Moves
<1>2. CASE kind = "duration"
  <2>1. past[f].v = 2 /\ \E i \in 1 .. f : HeldAsRead(i, f, 2, {0, 1})
    BY <1>2 DEF EarnedAsRead, Pausing
  <2>2. \E i \in 1 .. f : HeldAsRead(i, f, 2, {0, 1})'
    BY <1>1, <2>1, HeldSinceStays
  <2> QED BY <1>1, <1>2, <2>1, <2>2 DEF EarnedAsRead, Pausing
<1>3. CASE kind \in {"reverse", "threshold"}
  <2>1. past[f].v = 2 /\ \E i \in 1 .. f : HeldAsRead(i, f, 2, {})
    BY <1>3 DEF EarnedAsRead, Pausing
  <2>2. \E i \in 1 .. f : HeldAsRead(i, f, 2, {})'
    BY <1>1, <2>1, HeldSinceStays
  <2> QED BY <1>1, <1>3, <2>1, <2>2 DEF EarnedAsRead, Pausing
<1>4. CASE kind = "recovery"
  <2> SUFFICES ASSUME OneObject' PROVE EarnedAsRead(f)'
    BY <1>1, <1>4 DEF EarnedAsRead, Pausing
  <2>1. PICK k \in 1 .. clock, i \in 1 .. clock :
          past[f].v = 0 /\ past[k].v = 2 /\ ~After(k, f) /\ HeldAsRead(i, f, 0, {2})
    BY <1>1, <1>4 DEF EarnedAsRead, Pausing
  <2>2. HeldAsRead(i, f, 0, {2})'
    BY <2>1, HeldSinceStays
  <2>3. ~After(k, f)'
    BY <2>1, AfterSettled
  <2> QED BY <1>1, <1>4, <2>1, <2>2, <2>3 DEF EarnedAsRead, Pausing
<1>5. CASE kind = "periodic"
  <2>1. PICK met \in SUBSET OfExceeded : Cardinality(met) >= Count /\ PeriodsApart(met)
    BY <1>5 DEF EarnedAsRead, Pausing
  <2>2. PeriodsApart(met)'
    BY <2>1 DEF PeriodsApart, Moves, ReadAs, Ticks
  <2>3. met \in SUBSET OfExceeded'
    BY <2>1, ExceededStay
  <2> QED BY <1>1, <1>5, <2>1, <2>2, <2>3 DEF EarnedAsRead, Pausing
<1>6. CASE kind \in Pausing
  <2>1. RestedAsRead(f)'
    BY <1>6, RestedStays DEF EarnedAsRead, Pausing
  <2> QED BY <1>1, <1>6, <2>1 DEF EarnedAsRead, Pausing
<1>7. CASE kind \notin Pausing \cup {"duration", "reverse", "threshold", "recovery", "periodic"}
  BY <1>1, <1>7 DEF EarnedAsRead, Pausing
<1> QED BY <1>2, <1>3, <1>4, <1>5, <1>6, <1>7

FiredEarned == \A f \in 1 .. clock : past[f].fired => EarnedAsRead(f)

\* The wait has begun with a call that the node waits for, and no call that has
\* returned has ended it since.
StoreWaits ==
  store # None =>
    /\ store \in 1 .. clock /\ past[store].v = 2
    /\ kind = "duration" =>
         \A j \in 1 .. clock : past[j].v # 2 /\ After(j, store) => ~Returned(j)

\* What a call has seen of it: those that returned before the call began.
SeenWaits(t) ==
  call[t].at = "put" /\ call[t].seen # None =>
    /\ call[t].v = 2 /\ call[t].seen \in 1 .. clock /\ past[call[t].seen].v = 2
    /\ kind = "duration" =>
         \A j \in 1 .. clock : past[j].v # 2 /\ After(j, call[t].seen) => ~After(call[t].ts, j)

WaitInv ==
  kind \in Waiting =>
    /\ StoreWaits /\ FiredEarned
    /\ \A t \in Threads : /\ SeenWaits(t) /\ call[t].at # "decide"
                          /\ call[t].at = "get" \/ (kind # "duration" /\ UnderWay(t)) => call[t].v = 2

\* The earlier calls have earned it; so it is the call that returns.
LEMMA FiredEarnedStays ==
  ASSUME History, NEW t \in Threads, Moves(t), FiredEarned,
         kind = "recovery" /\ OneObject' => OneObject,
         \A f \in 1 .. clock' : past'[f].fired /\ (f \in 1 .. clock => ~past[f].fired) => EarnedAsRead(f)'
  PROVE  FiredEarned'
<1> SUFFICES ASSUME NEW f \in 1 .. clock', past'[f].fired PROVE EarnedAsRead(f)'
  BY DEF FiredEarned
<1>1. CASE f \in 1 .. clock /\ past[f].fired
  BY <1>1, EarnedStays DEF FiredEarned
<1> QED BY <1>1

\* A call that goes on changes nothing of the history.
LEMMA GoesOnFires ==
  ASSUME History, NEW t \in Threads, Moves(t), GoesOn(t), FiredEarned,
         kind = "recovery" /\ OneObject' => OneObject
  PROVE  FiredEarned'
  BY FiredEarnedStays DEF GoesOn

LEMMA WaitGet ==
  ASSUME History, WaitInv, kind \in Waiting, NEW t \in Threads, Get(t)
  PROVE  WaitInv'
<1>1. /\ Moves(t) /\ GoesOn(t) /\ UnderWay(t) /\ call[t].at = "get" /\ call'[t].at = "put"
      /\ UNCHANGED <<kind, unit, clock, store, past>> /\ GetSees(t)
  BY GetMoves
<1>2. kind \notin ByPointer /\ kind \notin Windowed /\ kind # "recovery"
  BY DEF Waiting, ByPointer, Windowed
<1>3. call'[t].seen = store /\ call'[t].ts = call[t].ts /\ call'[t].v = call[t].v /\ Others(t)
  BY <1>1, <1>2 DEF GetSees, GoesOn, Moves
<1>4. FiredEarned'
  BY <1>1, <1>2, GoesOnFires DEF WaitInv
<1>5. StoreWaits'
  BY <1>1 DEF WaitInv, StoreWaits, After, Returned
<1>6. SeenWaits(t)'
  <2>1. call[t].v = 2 /\ StoreWaits
    BY <1>1 DEF WaitInv
  <2>2. \A j : ~Returned(j) => ~After(call[t].ts, j)
    BY DEF After
  <2> QED BY <1>1, <1>3, <2>1, <2>2 DEF SeenWaits, StoreWaits, After, Returned
<1>7. ASSUME NEW u \in Threads \ {t} PROVE SeenWaits(u)'
  BY <1>1, <1>3 DEF WaitInv, SeenWaits, After, Returned, Others
<1>8. ASSUME NEW u \in Threads
      PROVE  /\ call'[u].at # "decide"
             /\ call'[u].at = "get" \/ (kind # "duration" /\ UnderWay(u)') => call'[u].v = 2
  BY <1>1, <1>3 DEF WaitInv, UnderWay, Others
<1> QED BY <1>1, <1>4, <1>5, <1>6, <1>7, <1>8 DEF WaitInv

LEMMA WaitBegin ==
  ASSUME History, WaitInv, kind \in Waiting, NEW t \in Threads, NEW v \in 0 .. 2, Begin(t, v)
  PROVE  WaitInv'
<1>1. /\ Moves(t) /\ Begun(t, v) /\ kind' = kind /\ Others(t)
      /\ call'[t].at = (IF NeedsNoState(v) THEN "done"
                        ELSE IF kind = "duration" /\ v # 2 THEN "put" ELSE "get")
  BY BeginMoves, SMTT(30) DEF Moves
<1>2. /\ clock' = clock + 1 /\ call'[t].v = v /\ call'[t].seen = None /\ store' = store
      /\ \A i \in 1 .. clock : past'[i] = past[i]
      /\ ~UnderWay(t)
  BY <1>1, PastMoves, ZenonT(30) DEF Begun, Ended
<1>3. NeedsNoState(v) => kind # "duration" /\ v # 2
  BY DEF NeedsNoState, Waiting
<1>4. FiredEarned'
  <2>1. ~past'[clock'].fired
    <3>1. call'[t].at = "done" => past'[clock'].fired = (v = 2)
      BY <1>1 DEF Moves, Begun, Ended, GoesOn
    <3>2. call'[t].at # "done" => ~past'[clock'].fired
      BY <1>1 DEF Moves, Begun, Ended, GoesOn
    <3> QED BY <1>1, <1>3, <3>1, <3>2
  <2> QED
    BY <1>1, <1>2, <2>1, AfterNew, FiredEarnedStays DEF WaitInv, Waiting
<1>5. \A i, j \in 1 .. clock : /\ i \in 1 .. clock' /\ Returned(i)' = Returned(i)
                               /\ After(j, i)' = After(j, i)
  BY <1>1, <1>2, AfterSettled, NoneIsNoTime DEF Returned, History, Times
<1>6. StoreWaits'
  <2> SUFFICES ASSUME store # None PROVE StoreWaits'
    BY <1>2 DEF StoreWaits
  <2>1. store \in 1 .. clock /\ past'[store].v = 2 /\ store \in 1 .. clock'
    BY <1>2, <1>5 DEF WaitInv, StoreWaits
  <2>2. ASSUME kind = "duration", NEW j \in 1 .. clock', past'[j].v # 2, After(j, store)'
        PROVE  ~Returned(j)'
    <3>1. CASE j \in 1 .. clock
      BY <1>2, <1>5, <2>1, <2>2, <3>1 DEF WaitInv, StoreWaits
    <3>2. CASE j \notin 1 .. clock
      <4>1. j = clock'
        BY <1>1, <3>2, AfterNew
      <4>2. call'[t].at # "done"
        BY <1>1, <1>3, <2>2
      <4>3. past'[clock'].end = None
        BY <1>1, <4>2 DEF Moves, Begun, Ended, GoesOn
      <4> QED BY <4>1, <4>3 DEF Returned
    <3> QED BY <3>1, <3>2
  <2> QED BY <1>1, <1>2, <2>1, <2>2 DEF StoreWaits
<1>7. ASSUME NEW u \in Threads \ {t} PROVE SeenWaits(u)'
  <2> SUFFICES ASSUME call'[u].at = "put", call'[u].seen # None PROVE SeenWaits(u)'
    BY DEF SeenWaits
  <2>1. /\ call'[u] = call[u] /\ SeenWaits(u) /\ call[u].ts \in 1 .. clock
        /\ call[u].v = 2 /\ call[u].seen \in 1 .. clock /\ past[call[u].seen].v = 2
    BY <1>1 DEF Others, WaitInv, SeenWaits, History, Recorded, UnderWay
  <2>2. ASSUME kind = "duration", NEW j \in 1 .. clock', past'[j].v # 2, After(j, call[u].seen)'
        PROVE  ~After(call[u].ts, j)'
    <3>1. CASE j \in 1 .. clock
      BY <1>2, <1>5, <2>1, <2>2, <3>1 DEF SeenWaits
    <3>2. CASE j \notin 1 .. clock
      BY <1>1, <1>5, <2>1, <3>2, AfterNew
    <3> QED BY <3>1, <3>2
  <2> QED BY <1>1, <1>2, <1>5, <2>1, <2>2 DEF SeenWaits
<1>8. SeenWaits(t)'
  BY <1>2 DEF SeenWaits
<1>9. ASSUME NEW u \in Threads
      PROVE  /\ call'[u].at # "decide"
             /\ call'[u].at = "get" \/ (kind # "duration" /\ UnderWay(u)') => call'[u].v = 2
  <2>1. CASE u = t
    <3>1. v # 2 /\ kind # "duration" => NeedsNoState(v)
      BY DEF Waiting, NeedsNoState
    <3> QED BY <1>1, <1>2, <2>1, <3>1 DEF UnderWay
  <2>2. CASE u # t
    BY <1>1, <2>2 DEF WaitInv, Others, UnderWay
  <2> QED BY <2>1, <2>2
<1> QED BY <1>1, <1>4, <1>6, <1>7, <1>8, <1>9 DEF WaitInv

LEMMA WaitPut ==
  ASSUME History, WaitInv, kind \in Waiting, NEW t \in Threads, PutSince(t)
  PROVE  WaitInv'
<1>c. PICK c : c = call[t]
  OBVIOUS
<1>1. /\ c.at = "put" /\ store' = Since(c) /\ Over(t, Held(c)) /\ UNCHANGED <<kind, unit, clock>>
      /\ UnderWay(t) /\ Held(c) \in BOOLEAN
  BY <1>c DEF PutSince, UnderWay, Held
<1>2. Ended(t) /\ Others(t) /\ past'[c.ts].fired = Held(c) /\ Moves(t) /\ History'
  BY <1>c, <1>1, OverOf, StepMoves, HistoryStep
<1>3. /\ c.ts \in 1 .. clock /\ past[c.ts].v = c.v /\ past[c.ts].end = None /\ past[c.ts].ts = c.ts
      /\ past'[c.ts].ts = c.ts /\ past'[c.ts].v = c.v /\ past'[c.ts].end = clock /\ clock \in Nat
      /\ \A i \in 1 .. clock : i # c.ts => past'[i] = past[i]
  <2>1. c.ts \in 1 .. clock /\ past[c.ts].v = c.v /\ past[c.ts].end = None
    BY <1>c, <1>1 DEF History, Recorded
  <2>2. past[c.ts].ts = c.ts /\ clock \in Nat /\ past[c.ts] \in PastCalls
    BY <2>1, NoneIsNoTime DEF History, Times
  <2>3. past'[c.ts].end = clock
    BY <1>c, <1>2, <2>2 DEF Ended, PastCalls
  <2> QED BY <1>c, <1>2, <2>1, <2>2, <2>3, PastMoves
<1>4. \A i, j \in 1 .. clock : After(j, i)' = After(j, i)
  BY <1>2, AfterSettled
<1>5. \A j \in 1 .. clock : past'[j].v = past[j].v /\ (j # c.ts => Returned(j)' = Returned(j))
  BY <1>3 DEF Returned
<1>6. StoreWaits'
  <2>1. CASE c.v # 2
    BY <1>1, <2>1 DEF Since, StoreWaits
  <2>2. CASE c.v = 2 /\ c.seen = None
    <3>1. store' = c.ts
      BY <1>1, <2>2 DEF Since
    <3>2. \A j \in 1 .. clock : ~After(j, c.ts)'
      BY <1>2, <1>3, <1>1 DEF After, History
    <3> QED BY <1>1, <1>3, <2>2, <3>1, <3>2 DEF StoreWaits
  <2>3. CASE c.v = 2 /\ c.seen # None
    <3>1. store' = store
      BY <1>1, <2>3 DEF Since
    <3> SUFFICES ASSUME store # None PROVE StoreWaits'
      BY <3>1 DEF StoreWaits
    <3>2. store \in 1 .. clock /\ past[store].v = 2
      BY DEF WaitInv, StoreWaits
    <3>i. PICK i : i = store
      OBVIOUS
    <3>3. ASSUME kind = "duration", NEW j \in 1 .. clock, past'[j].v # 2, After(j, i)'
          PROVE  ~Returned(j)'
      <4>1. past[j].v # 2 /\ After(j, i) /\ j # c.ts
        BY <1>3, <1>4, <1>5, <2>3, <3>2, <3>3, <3>i
      <4>2. ~Returned(j)
        BY <3>3, <3>i, <4>1 DEF WaitInv, StoreWaits
      <4> QED BY <1>5, <4>1, <4>2
    <3> QED BY <1>1, <1>5, <3>1, <3>2, <3>3, <3>i DEF StoreWaits
  <2> QED BY <2>1, <2>2, <2>3
<1>7. ASSUME NEW u \in Threads \ {t} PROVE SeenWaits(u)'
  <2> SUFFICES ASSUME call'[u].at = "put", call'[u].seen # None PROVE SeenWaits(u)'
    BY DEF SeenWaits
  <2>1. /\ call'[u] = call[u] /\ SeenWaits(u) /\ call[u].ts \in 1 .. clock
        /\ call[u].v = 2 /\ call[u].seen \in 1 .. clock /\ past[call[u].seen].v = 2
    BY <1>2, SMTT(30) DEF Others, WaitInv, SeenWaits, History, Recorded, UnderWay
  <2> QED BY <1>1, <1>4, <1>5, <2>1 DEF SeenWaits
<1>8. call'[t].at = "done" /\ ~UnderWay(t)' /\ SeenWaits(t)'
  BY <1>2 DEF Ended, UnderWay, SeenWaits
<1>9. ASSUME NEW u \in Threads
      PROVE  /\ call'[u].at # "decide"
             /\ call'[u].at = "get" \/ (kind # "duration" /\ UnderWay(u)') => call'[u].v = 2
  BY <1>2, <1>8 DEF WaitInv, Others, UnderWay
<1>10. Held(c) => EarnedAsRead(c.ts)'
  <2> SUFFICES ASSUME Held(c) PROVE EarnedAsRead(c.ts)'
    OBVIOUS
  <2>i. PICK i : i = c.seen
    OBVIOUS
  <2>1. /\ c.v = 2 /\ ReadAs(c.ts - i) >= Ticks(Duration) /\ i \in 1 .. clock /\ past[i].v = 2
        /\ kind = "duration" => \A j \in 1 .. clock : past[j].v # 2 /\ After(j, i) => ~After(c.ts, j)
    BY <1>c, <1>1, <2>i DEF Held, WaitInv, SeenWaits
  <2>2. i <= c.ts
    <3>3. i \in Int /\ c.ts \in Int
      BY <1>3, <2>1
    <3>4. unit \in {"ms", "ns"} /\ Duration \in Nat
      BY NodesAssumption, SkewAssumption DEF History
    <3>1. c.ts - i \in Int /\ unit \in {"ms", "ns"} /\ Duration \in Nat
      BY <3>3, <3>4
    <3>2. c.ts - i >= 0
      BY <2>1, <3>1, ReadAsGrows
    <3> QED BY <1>3, <2>1, <3>2
  <2>3. past'[i].ts = i /\ past'[i].v = 2
    BY <1>2, <1>1, <1>5, <2>1, PastMoves DEF History
  <2>4. ReadAs(past[c.ts].ts - past[i].ts)' >= Ticks(Duration)'
    BY <1>1, <1>3, <2>1, <2>3 DEF ReadAs, Ticks
  <2>5. DOMAIN past' = 1 .. clock
    BY <1>1, <1>2, PastMoves
  <2>6. kind = "duration" => HeldAsRead(i, c.ts, 2, {0, 1})'
    BY <1>3, <1>4, <1>5, <2>1, <2>3, <2>4, <2>5 DEF HeldAsRead
  <2>7. HeldAsRead(i, c.ts, 2, {})'
    BY <2>3, <2>4 DEF HeldAsRead
  <2>8. i \in 1 .. c.ts
    BY <1>3, <2>1, <2>2
  <2> QED BY <1>1, <1>3, <2>1, <2>6, <2>7, <2>8 DEF EarnedAsRead, Waiting, Pausing
<1>11. FiredEarned'
  <2>1. \A f \in 1 .. clock' : past'[f].fired /\ (f \in 1 .. clock => ~past[f].fired) => f = c.ts
    BY <1>1, <1>3
  <2> QED BY <1>1, <1>2, <1>10, <2>1, FiredEarnedStays DEF WaitInv, Waiting
<1> QED BY <1>1, <1>6, <1>7, <1>8, <1>9, <1>11 DEF WaitInv

-----------------------------------------------------------------------------
(* Pauses. *)

\* What is stored under the key is the call that fired last.
StoreFired ==
  /\ store # None => store \in 1 .. clock /\ past[store].fired
  /\ \A j \in 1 .. clock : past[j].fired =>
       store \in 1 .. clock /\ past[store].fired /\ past[store].end >= past[j].end

\* What a call has seen is no older than any that had fired when the call began.
SeenFired(t) ==
  call[t].at = "put" =>
    /\ call[t].seen # None => call[t].seen \in 1 .. clock /\ past[call[t].seen].fired
    /\ \A j \in 1 .. clock : past[j].fired /\ After(call[t].ts, j) =>
         /\ call[t].seen \in 1 .. clock /\ past[call[t].seen].fired
         /\ past[call[t].seen].end >= past[j].end

PauseInv ==
  kind \in Pausing =>
    FiredEarned /\ StoreFired /\ \A t \in Threads : SeenFired(t) /\ call[t].at # "decide"

LEMMA PauseGet ==
  ASSUME History, PauseInv, kind \in Pausing, NEW t \in Threads, Get(t)
  PROVE  PauseInv'
<1>1. /\ Moves(t) /\ GoesOn(t) /\ UnderWay(t) /\ call'[t].at = "put"
      /\ UNCHANGED <<kind, unit, clock, store, past>> /\ GetSees(t)
  BY GetMoves
<1>2. kind \notin ByPointer /\ kind \notin Windowed /\ kind # "recovery"
  BY DEF Pausing, ByPointer, Windowed
<1>3. call'[t].seen = store /\ call'[t].ts = call[t].ts /\ Others(t)
  BY <1>1, <1>2 DEF GetSees, GoesOn, Moves
<1>4. FiredEarned'
  BY <1>1, <1>2, GoesOnFires DEF PauseInv
<1>5. StoreFired'
  BY <1>1 DEF PauseInv, StoreFired
<1>6. SeenFired(t)'
  BY <1>1, <1>3 DEF PauseInv, StoreFired, SeenFired, After, Returned
<1>7. ASSUME NEW u \in Threads \ {t} PROVE SeenFired(u)'
  BY <1>1, <1>3 DEF PauseInv, SeenFired, After, Returned, Others
<1>8. \A u \in Threads : call'[u].at # "decide"
  BY <1>1, <1>3 DEF PauseInv, Others
<1> QED BY <1>4, <1>5, <1>6, <1>7, <1>8 DEF PauseInv

\* What the others have seen stays as it is.
LEMMA SeenFiredStays ==
  ASSUME History, NEW t \in Threads, Moves(t), NEW u \in Threads \ {t}, SeenFired(u)
  PROVE  SeenFired(u)'
<1>1. call'[u] = call[u]
  BY DEF Moves, Others
<1>s. PICK f, s : f = call[u].ts /\ s = call[u].seen
  OBVIOUS
<1> SUFFICES ASSUME call[u].at = "put" PROVE SeenFired(u)'
  BY <1>1 DEF SeenFired
<1>2. f \in 1 .. clock /\ clock \in Nat /\ clock' \in Nat /\ clock <= clock'
  BY <1>s, PastMoves, NoneIsNoTime DEF History, Recorded, UnderWay, Times
<1>3. \A i \in 1 .. clock : past[i].fired => past'[i] = past[i] /\ past'[i].fired /\ i \in 1 .. clock'
  BY <1>2, PastMoves DEF History
<1>4. s # None => s \in 1 .. clock /\ past[s].fired
  BY <1>s DEF SeenFired
<1>5. ASSUME NEW j \in 1 .. clock', past'[j].fired, After(f, j)'
      PROVE  s \in 1 .. clock' /\ past'[s].fired /\ past'[s].end >= past'[j].end
  <2>1. j \in 1 .. clock
    BY <1>2, <1>5, AfterNew
  <2>2. After(f, j)
    BY <1>2, <1>5, <2>1, AfterSettled
  <2>3. past'[j] = past[j]
    BY <2>1, <2>2, PastMoves DEF After
  <2>4. s \in 1 .. clock /\ past[s].fired /\ past[s].end >= past[j].end
    BY <1>s, <1>5, <2>1, <2>2, <2>3 DEF SeenFired
  <2> QED BY <1>3, <2>3, <2>4
<1> QED BY <1>1, <1>s, <1>3, <1>4, <1>5 DEF SeenFired

LEMMA PauseBegin ==
  ASSUME History, PauseInv, kind \in Pausing, NEW t \in Threads, NEW v \in 0 .. 2, Begin(t, v)
  PROVE  PauseInv'
<1>1. /\ Moves(t) /\ Begun(t, v) /\ Others(t)
      /\ call'[t].at = (IF NeedsNoState(v) THEN "done"
                        ELSE IF kind = "duration" /\ v # 2 THEN "put" ELSE "get")
  BY BeginMoves DEF Moves
<1>2. /\ clock' = clock + 1 /\ store' = store /\ ~UnderWay(t) /\ kind # "duration"
      /\ \A i \in 1 .. clock : past'[i] = past[i] /\ i \in 1 .. clock'
  <2>1. clock' = clock + 1 /\ store' = store /\ ~UnderWay(t) /\ kind # "duration"
    BY <1>1 DEF Begun, Pausing
  <2>2. \A i \in 1 .. clock : past'[i] = past[i]
    <3>1. ~Ended(t)
      BY <2>1 DEF Ended
    <3> QED BY <1>1, <3>1, PastMoves
  <2>3. clock \in Nat
    BY NoneIsNoTime DEF History, Times
  <2> QED BY <2>1, <2>2, <2>3
<1>3. ~past'[clock'].fired
  <2>1. NeedsNoState(v) => v # 2
    BY DEF NeedsNoState, Pausing
  <2>2. call'[t].at = "done" => past'[clock'].fired = (v = 2)
    BY <1>1 DEF Moves, Begun, Ended, GoesOn
  <2>3. call'[t].at # "done" => ~past'[clock'].fired
    BY <1>1 DEF Moves, Begun, Ended, GoesOn
  <2> QED BY <1>1, <2>1, <2>2, <2>3
<1>4. \A j \in 1 .. clock' : past'[j].fired => j \in 1 .. clock
  BY <1>1, <1>3, AfterNew
<1>5. FiredEarned'
  BY <1>1, <1>2, <1>4, FiredEarnedStays DEF PauseInv, Pausing
<1>6. StoreFired'
  BY <1>2, <1>4 DEF PauseInv, StoreFired
<1>7. \A u \in Threads : SeenFired(u)'
  <2>1. SeenFired(t)'
    BY <1>1, <1>2 DEF SeenFired
  <2> QED BY <1>1, <2>1, SeenFiredStays DEF PauseInv
<1>8. \A u \in Threads : call'[u].at # "decide"
  BY <1>1, <1>2 DEF PauseInv, Others
<1> QED BY <1>5, <1>6, <1>7, <1>8 DEF PauseInv

LEMMA PausePut ==
  ASSUME History, PauseInv, kind \in Pausing, NEW t \in Threads, PutMatch(t) \/ PutFreeze(t)
  PROVE  PauseInv'
<1>c. PICK c : c = call[t]
  OBVIOUS
<1>1. PICK fired \in BOOLEAN :
        /\ c.at = "put" /\ Over(t, fired) /\ UNCHANGED <<kind, unit, clock>> /\ UnderWay(t)
        /\ fired => ~StillPausing(c) /\ store' = c.ts
        /\ ~fired => store' = store
  <2>1. CASE PutMatch(t)
    <3>1. StillPausing(c) \in BOOLEAN
      BY DEF StillPausing
    <3> QED BY <1>c, <2>1, <3>1 DEF PutMatch, UnderWay
  <2>2. CASE PutFreeze(t)
    BY <1>c, <2>2 DEF PutFreeze, UnderWay
  <2> QED BY <2>1, <2>2
<1>2. Ended(t) /\ Others(t) /\ past'[c.ts].fired = fired /\ Moves(t) /\ History'
  BY <1>c, <1>1, OverOf, StepMoves, HistoryStep
<1>3. /\ c.ts \in 1 .. clock /\ past[c.ts].end = None /\ past[c.ts].ts = c.ts /\ ~past[c.ts].fired
      /\ past'[c.ts].ts = c.ts /\ past'[c.ts].end = clock /\ clock \in Nat
      /\ \A i \in 1 .. clock : i # c.ts => past'[i] = past[i]
  <2>1. c.ts \in 1 .. clock /\ past[c.ts].end = None
    BY <1>c, <1>1 DEF History, Recorded
  <2>2. past[c.ts].ts = c.ts /\ clock \in Nat /\ past[c.ts] \in PastCalls /\ ~past[c.ts].fired
    BY <2>1, NoneIsNoTime DEF History, Times, Returned
  <2>3. past'[c.ts].end = clock
    BY <1>c, <1>2, <2>2 DEF Ended, PastCalls
  <2> QED BY <1>c, <1>2, <2>1, <2>2, <2>3, PastMoves
<1>4. \A i, j \in 1 .. clock : After(j, i)' = After(j, i)
  BY <1>2, AfterSettled
<1>5. \A j \in 1 .. clock : past[j].fired => /\ j # c.ts /\ past'[j] = past[j]
                                             /\ past[j].end \in j .. clock
  BY <1>3 DEF History
<1>6. StoreFired'
  <2>1. CASE fired
    <3>1. \A j \in 1 .. clock : past'[j].fired => past'[j].end <= clock
      BY <1>3, <1>5
    <3> QED BY <1>1, <1>2, <1>3, <2>1, <3>1 DEF StoreFired
  <2>2. CASE ~fired
    <3>1. \A j \in 1 .. clock : past'[j].fired => past[j].fired /\ past'[j] = past[j]
      BY <1>2, <1>3, <2>2
    <3> QED BY <1>1, <1>5, <2>2, <3>1 DEF StoreFired, PauseInv
  <2> QED BY <2>1, <2>2
<1>7. \A u \in Threads : SeenFired(u)' /\ call'[u].at # "decide"
  <2>1. SeenFired(t)' /\ call'[t].at # "decide"
    BY <1>2 DEF SeenFired, Ended
  <2> QED BY <1>2, <2>1, SeenFiredStays DEF PauseInv, Others
<1>8. fired => RestedAsRead(c.ts)'
  <2> SUFFICES ASSUME fired, NEW j \in 1 .. clock, past'[j].fired, After(c.ts, j)',
                      \A k \in 1 .. clock \ {j} : past'[k].fired => After(k, j)' \/ After(j, k)'
               PROVE  ReadAs(past[c.ts].ts - past[j].ts)' >= Ticks(Period)'
    <3>1. DOMAIN past' = 1 .. clock
      BY <1>1, <1>2, PastMoves
    <3> QED BY <3>1 DEF RestedAsRead
  <2>1. After(c.ts, j) /\ j # c.ts /\ past[j].fired /\ past'[j] = past[j] /\ past[j].ts = j
        /\ past[j].end \in j .. clock
    <3>1. After(c.ts, j)
      BY <1>3, <1>4
    <3>2. j # c.ts
      BY <1>3, <3>1 DEF After, Returned
    <3> QED BY <1>3, <1>5, <3>1, <3>2 DEF History
  <2>b. PICK b : b = c.seen
    OBVIOUS
  <2>2. b \in 1 .. clock /\ past[b].fired /\ past[b].end >= past[j].end /\ b # None
    <3>1. SeenFired(t)
      BY DEF PauseInv
    <3> QED BY <1>c, <1>1, <2>1, <2>b, <3>1, NoneIsNoTime DEF SeenFired, Times, History
  <2>3. ~(ReadAs(c.ts - b) < Ticks(Period))
    BY <1>1, <2>b, <2>2 DEF StillPausing
  <2>4. b = j \/ After(b, j)
    <3>1. past[b].end \in b .. clock /\ past'[b].fired
      BY <1>5, <2>2
    <3>2. ~After(j, b)
      BY <2>1, <2>2, <3>1 DEF After
    <3> QED BY <1>4, <2>2, <3>1, <3>2
  <2>5. b >= j
    <3>1. past[b].ts = b
      BY <2>2 DEF History
    <3> QED BY <2>1, <2>2, <2>4, <3>1 DEF After
  <2>6. ReadAs(c.ts - j) >= Ticks(Period)
    <3>1. c.ts - b \in Int /\ c.ts - j \in Int /\ c.ts - b <= c.ts - j
      BY <1>3, <2>2, <2>5
    <3>2. unit \in {"ms", "ns"} /\ Period \in Nat
      BY NodesAssumption, SkewAssumption DEF History
    <3>3. /\ ReadAs(c.ts - b) \in Int /\ ReadAs(c.ts - j) \in Int /\ Ticks(Period) \in Nat
          /\ ReadAs(c.ts - b) <= ReadAs(c.ts - j)
      BY <3>1, <3>2, ReadAsGrows
    <3> QED BY <2>3, <3>3
  <2> QED BY <1>1, <1>3, <2>1, <2>6 DEF ReadAs, Ticks
<1>9. FiredEarned'
  <2>1. \A f \in 1 .. clock' : past'[f].fired /\ (f \in 1 .. clock => ~past[f].fired) => f = c.ts
    BY <1>1, <1>3
  <2>2. fired => EarnedAsRead(c.ts)'
    BY <1>1, <1>8 DEF EarnedAsRead, Pausing
  <2> QED BY <1>1, <1>2, <2>1, <2>2, FiredEarnedStays DEF PauseInv, Pausing
<1> QED BY <1>6, <1>7, <1>9 DEF PauseInv

-----------------------------------------------------------------------------
(* limit_recovery. *)

Recoveries == [was : BOOLEAN, start : Nat]

\* What an object says: the limits were exceeded, and the value is back within them
\* since a call; no call that has returned found it otherwise since then.
RecoveryHolds(o) ==
  /\ o.was => \E k \in 1 .. clock : past[k].v = 2
  /\ o.start # 0 => /\ o.start \in 1 .. clock /\ past[o.start].v = 0
                    /\ \A j \in 1 .. clock : past[j].v = 2 /\ After(j, o.start) => ~Returned(j)

SeenRecovers(t) ==
  call[t].at = "put" =>
    LET s == call[t].seen IN
    /\ s.was => \E k \in 1 .. clock : past[k].v = 2
    /\ s.start # 0 =>
         /\ s.start \in 1 .. clock /\ past[s.start].v = 0
         /\ \A j \in 1 .. clock : past[j].v = 2 /\ After(j, s.start) => ~After(call[t].ts, j)

RecoveryShape ==
  /\ DOMAIN heap = Threads /\ \A t \in Threads : heap[t] \in Recoveries \cup {None}
  /\ store # None => store \in Threads /\ heap[store] # None
  /\ \A t \in Threads :
       /\ call[t].at # "decide"
       /\ call[t].at = "put" =>
            call[t].ref \in Threads /\ heap[call[t].ref] # None /\ call[t].seen \in Recoveries

RecoveryInv ==
  kind = "recovery" =>
    /\ RecoveryShape /\ FiredEarned
    /\ OneObject => \A t \in Threads : /\ heap[t] # None => RecoveryHolds(heap[t])
                                       /\ SeenRecovers(t)

LEMMA NoneIsNoObject == None \notin Recoveries /\ None \notin Seq([ts : Nat, v : Nat])
  BY NodesAssumption, SkewAssumption DEF Recoveries

\* An object stays one, so that once there are two there are two for good.
LEMMA ObjectsStay ==
  ASSUME \A t \in Threads : heap[t] # None => heap'[t] # None, OneObject'
  PROVE  OneObject
  BY DEF OneObject

\* What an object, or a call, said of the wait holds on where no call returns
\* that ended it.
LEMMA RecoveryStays ==
  ASSUME History, kind = "recovery", NEW t \in Threads, Moves(t), NEW o, o.start \in Nat,
         RecoveryHolds(o), Ended(t) => call[t].v # 2
  PROVE  RecoveryHolds(o)'
<1>s. PICK i \in Nat : i = o.start
  OBVIOUS
<1>1. /\ clock \in Nat /\ clock' \in Nat /\ clock <= clock'
      /\ \A j \in 1 .. clock : j \in 1 .. clock' /\ past'[j].v = past[j].v
  BY PastMoves, NoneIsNoTime DEF History, Times
<1>2. o.was => \E k \in 1 .. clock' : past'[k].v = 2
  BY <1>1 DEF RecoveryHolds
<1>3. ASSUME i # 0, NEW j \in 1 .. clock', past'[j].v = 2, After(j, i)'
      PROVE  ~Returned(j)'
  <2>1. i \in 1 .. clock /\ \A k \in 1 .. clock : past[k].v = 2 /\ After(k, i) => ~Returned(k)
    BY <1>s, <1>3 DEF RecoveryHolds
  <2>2. CASE j \in 1 .. clock
    <3>1. ~Returned(j)
      BY <1>1, <1>3, <2>1, <2>2, AfterSettled
    <3>2. past'[j] = past[j]
      <4>1. Ended(t) => past[call[t].ts].v # 2
        BY DEF History, Recorded, Ended
      <4>2. past[j].v = 2
        BY <1>1, <1>3, <2>2
      <4> QED BY <2>2, <4>1, <4>2, PastMoves
    <3> QED BY <3>1, <3>2 DEF Returned
  <2>3. CASE j \notin 1 .. clock
    <3>1. j = clock' /\ clock' = clock + 1
      BY <1>1, <2>3, AfterNew
    <3>2. CASE call'[t].at = "done"
      <4>1. NeedsNoState(past'[j].v)
        BY <1>1, <3>1, <3>2 DEF Moves, Begun, Ended, GoesOn
      <4> QED BY <4>1 DEF NeedsNoState
    <3>3. CASE call'[t].at # "done"
      BY <1>1, <3>1, <3>3 DEF Moves, Begun, Ended, GoesOn, Returned
    <3> QED BY <3>2, <3>3
  <2> QED BY <2>2, <2>3
<1> QED BY <1>s, <1>1, <1>2, <1>3 DEF RecoveryHolds

LEMMA SeenRecoversStays ==
  ASSUME History, kind = "recovery", NEW t \in Threads, Moves(t), NEW u \in Threads \ {t},
         SeenRecovers(u), call[u].at = "put" => call[u].seen \in Recoveries
  PROVE  SeenRecovers(u)'
<1>1. call'[u] = call[u]
  BY DEF Moves, Others
<1> SUFFICES ASSUME call[u].at = "put" PROVE SeenRecovers(u)'
  BY <1>1 DEF SeenRecovers
<1>0. call[u].seen \in Recoveries
  OBVIOUS
<1>s. PICK f, s : f = call[u].ts /\ s = call[u].seen /\ s \in Recoveries
  BY <1>0
<1>2. /\ clock \in Nat /\ clock' \in Nat /\ clock <= clock' /\ f \in 1 .. clock
      /\ \A j \in 1 .. clock : j \in 1 .. clock' /\ past'[j].v = past[j].v
  BY <1>s, PastMoves, NoneIsNoTime DEF History, Times, Recorded, UnderWay
<1>3. s.was => \E k \in 1 .. clock' : past'[k].v = 2
  BY <1>2, <1>s DEF SeenRecovers
<1>4. ASSUME s.start # 0
      PROVE  /\ s.start \in 1 .. clock' /\ past'[s.start].v = 0
             /\ \A j \in 1 .. clock' : past'[j].v = 2 /\ After(j, s.start)' => ~After(f, j)'
  <2>i. PICK i : i = s.start
    OBVIOUS
  <2>1. /\ i \in 1 .. clock /\ past[i].v = 0
        /\ \A j \in 1 .. clock : past[j].v = 2 /\ After(j, i) => ~After(f, j)
    BY <1>s, <1>4, <2>i DEF SeenRecovers
  <2>2. ASSUME NEW j \in 1 .. clock', past'[j].v = 2, After(j, i)' PROVE ~After(f, j)'
    <3>1. CASE j \in 1 .. clock
      BY <1>2, <2>1, <2>2, <3>1, AfterSettled
    <3>2. CASE j \notin 1 .. clock
      BY <1>2, <3>2, AfterNew
    <3> QED BY <3>1, <3>2
  <2> QED BY <1>2, <2>i, <2>1, <2>2
<1> QED BY <1>1, <1>s, <1>3, <1>4 DEF SeenRecovers

LEMMA RecoveryGet ==
  ASSUME History, RecoveryInv, kind = "recovery", NEW t \in Threads, Get(t)
  PROVE  RecoveryInv'
<1>1. /\ Moves(t) /\ GoesOn(t) /\ UnderWay(t) /\ call'[t].at = "put" /\ Others(t)
      /\ UNCHANGED <<kind, unit, clock, store, past>> /\ GetSees(t)
  BY GetMoves DEF Moves
<1>2. RecoveryShape /\ Fresh = [was |-> FALSE, start |-> 0] /\ Fresh \in Recoveries
      /\ ~Fresh.was /\ Fresh.start = 0
  BY DEF RecoveryInv, Fresh, Recoveries
<1> HIDE DEF Fresh
<1>3. /\ heap' = IF store = None THEN [heap EXCEPT ![t] = Fresh] ELSE heap
      /\ call'[t].ref = IF store = None THEN t ELSE store
      /\ call'[t].seen = heap'[call'[t].ref]
  BY <1>1 DEF GetSees, ByPointer
<1>4. /\ DOMAIN heap' = Threads
      /\ \A u \in Threads : heap'[u] = heap[u] \/ (u = t /\ heap'[u] = Fresh)
  BY <1>2, <1>3 DEF RecoveryShape
<1>5. /\ \A u \in Threads : heap[u] # None => heap'[u] # None
      /\ call'[t].ref \in Threads /\ heap'[call'[t].ref] # None
  <2>1. Fresh # None
    BY <1>2, NoneIsNoObject
  <2>2. CASE store = None
    <3>1. heap'[t] = Fresh
      BY <1>2, <1>3, <2>2 DEF RecoveryShape
    <3> QED BY <1>3, <1>4, <2>1, <2>2, <3>1
  <2>3. CASE store # None
    BY <1>2, <1>3, <2>3 DEF RecoveryShape
  <2> QED BY <2>2, <2>3
<1>6. RecoveryShape'
  BY <1>1, <1>2, <1>3, <1>4, <1>5 DEF RecoveryShape, Others
<1>7. FiredEarned'
  BY <1>1, <1>5, ObjectsStay, GoesOnFires DEF RecoveryInv
<1>8. ASSUME OneObject', NEW u \in Threads, heap'[u] # None PROVE RecoveryHolds(heap[u])'
  <2>1. OneObject
    BY <1>5, <1>8, ObjectsStay
  <2>o. PICK o : o = heap'[u]
    OBVIOUS
  <2>2. RecoveryHolds(o)
    BY <1>2, <1>4, <1>8, <2>1, <2>o DEF RecoveryInv, RecoveryHolds
  <2> QED BY <1>1, <2>2, <2>o DEF RecoveryHolds, After, Returned
<1>9. ASSUME OneObject' PROVE SeenRecovers(t)'
  <2>o. PICK o, f, r : o = call'[t].seen /\ f = call'[t].ts /\ r = call'[t].ref
    OBVIOUS
  <2>1. RecoveryHolds(heap[r])'
    BY <1>5, <1>8, <1>9, <2>o
  <2>2. RecoveryHolds(o)'
    BY <1>3, <2>1, <2>o
  <2>3. \A j \in 1 .. clock : ~Returned(j)' => ~After(f, j)'
    BY DEF After
  <2> QED BY <1>1, <2>2, <2>3, <2>o DEF SeenRecovers, RecoveryHolds
<1>10. ASSUME OneObject', NEW u \in Threads \ {t} PROVE SeenRecovers(u)'
  BY <1>1, <1>2, <1>5, <1>10, ObjectsStay, SeenRecoversStays DEF RecoveryInv, RecoveryShape
<1> QED BY <1>1, <1>6, <1>7, <1>8, <1>9, <1>10 DEF RecoveryInv

LEMMA RecoveryBegin ==
  ASSUME History, RecoveryInv, kind = "recovery", NEW t \in Threads, NEW v \in 0 .. 2, Begin(t, v)
  PROVE  RecoveryInv'
<1>1. /\ Moves(t) /\ Begun(t, v) /\ Others(t) /\ store' = store /\ heap' = heap
      /\ call'[t].at = "get" /\ ~UnderWay(t) /\ clock' = clock + 1
  BY BeginMoves DEF Moves, Begun, NeedsNoState
<1>2. RecoveryShape'
  BY <1>1 DEF RecoveryInv, RecoveryShape, Others
<1>3. (OneObject' => OneObject) /\ ~Ended(t)
  BY <1>1 DEF OneObject, Ended
<1>4. FiredEarned'
  <2>1. ~past'[clock'].fired
    BY <1>1 DEF Moves, Begun, Ended, GoesOn
  <2>2. \A i \in 1 .. clock : past'[i] = past[i]
    BY <1>1, <1>3, PastMoves
  <2> QED BY <1>1, <1>3, <2>1, <2>2, AfterNew, FiredEarnedStays DEF RecoveryInv
<1>5. ASSUME OneObject', NEW u \in Threads, heap'[u] # None PROVE RecoveryHolds(heap[u])'
  <2>o. PICK o : o = heap[u]
    OBVIOUS
  <2>1. RecoveryHolds(o) /\ o.start \in Nat
    BY <1>1, <1>3, <1>5, <2>o DEF RecoveryInv, RecoveryShape, Recoveries
  <2>2. RecoveryHolds(o)'
    BY <1>1, <1>3, <2>1, RecoveryStays
  <2> QED BY <1>1, <2>2, <2>o
<1>6. ASSUME OneObject', NEW u \in Threads PROVE SeenRecovers(u)'
  <2>1. SeenRecovers(t)'
    BY <1>1 DEF SeenRecovers
  <2> QED BY <1>1, <1>3, <1>6, <2>1, SeenRecoversStays DEF RecoveryInv, RecoveryShape
<1> QED BY <1>1, <1>2, <1>4, <1>5, <1>6 DEF RecoveryInv

LEMMA RecoveryPut ==
  ASSUME History, RecoveryInv, kind = "recovery", NEW t \in Threads, PutObject(t)
  PROVE  RecoveryInv'
<1>c. PICK c, s, r : c = call[t] /\ s = c.seen /\ r = c.ref
  OBVIOUS
<1>o. PICK o, n : o = heap[r] /\ n = Recovery(o, s, c)
  OBVIOUS
<1>1. /\ c.at = "put" /\ UnderWay(t) /\ Over(t, RecoveryFires(s, c)) /\ store' = r
      /\ UNCHANGED <<kind, unit, clock>> /\ RecoveryFires(s, c) \in BOOLEAN
      /\ heap' = [heap EXCEPT ![r] = n]
  <2>1. Changed(o, s, c) = n
    BY <1>o DEF Changed
  <2> QED BY <1>c, <1>o, <2>1 DEF PutObject, UnderWay, RecoveryFires
<1>2. Ended(t) /\ Others(t) /\ past'[c.ts].fired = RecoveryFires(s, c) /\ Moves(t) /\ History'
  BY <1>c, <1>1, OverOf, StepMoves, HistoryStep
<1>3. /\ c.ts \in 1 .. clock /\ past[c.ts].v = c.v /\ past[c.ts].end = None /\ ~past[c.ts].fired
      /\ past'[c.ts].ts = c.ts /\ past'[c.ts].v = c.v /\ past'[c.ts].end = clock /\ clock \in Nat
      /\ c.v \in 0 .. 2
      /\ \A i \in 1 .. clock : i # c.ts => past'[i] = past[i]
  <2>1. c.ts \in 1 .. clock /\ past[c.ts].end = None /\ past[c.ts].v = c.v
    BY <1>c, <1>1 DEF History, Recorded
  <2>2. clock \in Nat /\ past[c.ts] \in PastCalls /\ ~past[c.ts].fired /\ past[c.ts].ts = c.ts
    BY <2>1, NoneIsNoTime DEF History, Times, Returned
  <2>3. past'[c.ts].end = clock
    BY <1>c, <1>2, <2>2 DEF Ended, PastCalls
  <2>4. past[c.ts].v \in 0 .. 2
    BY <2>2 DEF PastCalls
  <2> QED BY <1>c, <1>2, <2>1, <2>2, <2>3, <2>4, PastMoves
<1>4. \A i, j \in 1 .. clock : After(j, i)' = After(j, i)
  BY <1>2, AfterSettled
<1>5. \A j \in 1 .. clock : past'[j].v = past[j].v
  BY <1>3
<1>6. RecoveryShape /\ o \in Recoveries /\ s \in Recoveries /\ r \in Threads /\ o # None
  BY <1>c, <1>o, <1>1 DEF RecoveryInv, RecoveryShape
<1>7. /\ c.v = 2 => ~(n.was => FALSE) /\ n.start = 0
      /\ c.v # 2 /\ n # o => c.v = 0 /\ n.was = o.was /\ n.start = c.ts
      /\ n \in Recoveries /\ n # None
  <2>1. CASE c.v = 2
    <3>1. n = [was |-> TRUE, start |-> 0]
      BY <1>o, <2>1 DEF Recovery, Exceeded
    <3>2. n \in Recoveries /\ n.start = 0 /\ n.was = TRUE
      BY <3>1 DEF Recoveries
    <3> QED BY <2>1, <3>2, NoneIsNoObject
  <2>2. CASE c.v # 2
    <3>1. n = o \/ (c.v = 0 /\ n = [o EXCEPT !.start = c.ts])
      BY <1>o, <2>2 DEF Recovery, Exceeded, Recovered
    <3>2. CASE n = o
      BY <1>6, <2>2, <3>2
    <3>3. CASE c.v = 0 /\ n = [o EXCEPT !.start = c.ts]
      <4>1. n \in Recoveries /\ n.start = c.ts /\ n.was = o.was
        BY <1>3, <1>6, <3>3 DEF Recoveries
      <4> QED BY <2>2, <3>3, <4>1, NoneIsNoObject
    <3> QED BY <3>1, <3>2, <3>3
  <2> QED BY <2>1, <2>2
<1>8. /\ heap'[r] = n /\ DOMAIN heap' = Threads /\ \A u \in Threads \ {r} : heap'[u] = heap[u]
  BY <1>1, <1>6 DEF RecoveryShape
<1>9. \A u \in Threads : heap[u] # None => heap'[u] # None
  BY <1>7, <1>8
<1>10. RecoveryShape'
  <2>1. call'[t].at = "done"
    BY <1>2 DEF Ended
  <2>2. \A u \in Threads : heap'[u] \in Recoveries \cup {None}
    BY <1>6, <1>7, <1>8 DEF RecoveryShape
  <2>3. store' \in Threads /\ heap'[store'] # None
    BY <1>1, <1>6, <1>7, <1>8
  <2> QED BY <1>2, <1>6, <1>8, <1>9, <2>1, <2>2, <2>3 DEF RecoveryShape, Others
<1>11. ASSUME OneObject', NEW u \in Threads, heap'[u] # None PROVE RecoveryHolds(heap[u])'
  <2>1. u = r
    BY <1>6, <1>7, <1>8, <1>11 DEF OneObject
  <2>2. OneObject /\ RecoveryHolds(o)
    BY <1>6, <1>9, <1>11, <1>o, ObjectsStay DEF RecoveryInv
  <2>3. CASE c.v = 2
    <3>1. \E k \in 1 .. clock : past'[k].v = 2
      BY <1>3, <2>3
    <3>2. RecoveryHolds(n)'
      BY <1>1, <1>7, <2>3, <3>1 DEF RecoveryHolds
    <3> QED BY <1>8, <2>1, <3>2
  <2>4. CASE c.v # 2 /\ n = o
    <3>1. o.start \in Nat
      BY <1>6 DEF Recoveries
    <3>2. RecoveryHolds(o)'
      BY <1>2, <1>c, <2>2, <2>4, <3>1, RecoveryStays
    <3> QED BY <1>8, <2>1, <2>4, <3>2
  <2>5. CASE c.v # 2 /\ n # o
    <3>1. n.start = c.ts /\ c.v = 0 /\ n.was = o.was
      BY <1>7, <2>5
    <3>2. \A j \in 1 .. clock : ~After(j, c.ts)'
      BY <1>1, <1>2, <1>3 DEF After, History
    <3>3. n.was => \E k \in 1 .. clock : past'[k].v = 2
      BY <1>5, <2>2, <3>1 DEF RecoveryHolds
    <3>4. RecoveryHolds(n)'
      BY <1>1, <1>3, <3>1, <3>2, <3>3 DEF RecoveryHolds
    <3> QED BY <1>8, <2>1, <3>4
  <2> QED BY <2>3, <2>4, <2>5
<1>12. ASSUME OneObject', NEW u \in Threads PROVE SeenRecovers(u)'
  <2>1. SeenRecovers(t)'
    BY <1>2 DEF Ended, SeenRecovers
  <2> QED BY <1>2, <1>6, <1>9, <1>12, <2>1, ObjectsStay, SeenRecoversStays
          DEF RecoveryInv, RecoveryShape
<1>13. RecoveryFires(s, c) /\ OneObject' =>
         past'[c.ts].v = 0 /\ \E k, i \in 1 .. clock :
           past'[k].v = 2 /\ ~After(k, c.ts)' /\ HeldAsRead(i, c.ts, 0, {2})'
  <2> SUFFICES ASSUME RecoveryFires(s, c), OneObject'
               PROVE  past'[c.ts].v = 0 /\ \E k, i \in 1 .. clock :
                        past'[k].v = 2 /\ ~After(k, c.ts)' /\ HeldAsRead(i, c.ts, 0, {2})'
    OBVIOUS
  <2>i. PICK i : i = s.start
    OBVIOUS
  <2>1. c.v = 0 /\ s.was /\ i # 0 /\ ReadAs(c.ts - i) >= Ticks(Duration)
    BY <2>i DEF RecoveryFires, Exceeded, Recovered
  <2>2. SeenRecovers(t)
    BY <1>9, ObjectsStay DEF RecoveryInv
  <2>3. /\ i \in 1 .. clock /\ past[i].v = 0
        /\ \A j \in 1 .. clock : past[j].v = 2 /\ After(j, i) => ~After(c.ts, j)
    BY <1>1, <1>c, <2>i, <2>1, <2>2 DEF SeenRecovers
  <2>4. PICK k \in 1 .. clock : past[k].v = 2
    BY <1>1, <1>c, <2>1, <2>2 DEF SeenRecovers
  <2>5. ~After(k, c.ts)'
    BY <1>1, <1>2, <1>3 DEF After, History
  <2>6. past'[i].ts = i /\ past'[i].v = 0 /\ DOMAIN past' = 1 .. clock
    BY <1>1, <1>2, <1>5, <2>3, PastMoves DEF History
  <2>7. ReadAs(past[c.ts].ts - past[i].ts)' >= Ticks(Duration)'
    BY <1>1, <1>3, <2>1, <2>6 DEF ReadAs, Ticks
  <2>8. HeldAsRead(i, c.ts, 0, {2})'
    BY <1>3, <1>4, <1>5, <2>3, <2>6, <2>7 DEF HeldAsRead
  <2> QED BY <1>3, <1>5, <2>1, <2>3, <2>4, <2>5, <2>8
<1>14. FiredEarned'
  <2>1. \A f \in 1 .. clock' : past'[f].fired /\ (f \in 1 .. clock => ~past[f].fired) => f = c.ts
    BY <1>1, <1>3
  <2>2. DOMAIN past' = 1 .. clock
    BY <1>1, <1>2, PastMoves
  <2>3. RecoveryFires(s, c) => EarnedAsRead(c.ts)'
    BY <1>1, <1>13, <2>2 DEF EarnedAsRead, Pausing
  <2> QED BY <1>1, <1>2, <1>9, <2>1, <2>3, ObjectsStay, FiredEarnedStays DEF RecoveryInv
<1> QED BY <1>1, <1>10, <1>11, <1>12, <1>14 DEF RecoveryInv

-----------------------------------------------------------------------------
(* periodic. *)

Periodics == [last : Times \cup {None}, n : Nat]

\* The calls of a value that counts which have changed their object.
Looked == {i \in OfExceeded : \A t \in Threads : call[t].at \in {"get", "put"} => call[t].ts # i}

\* It has looked at as many of them as it says, a period apart.
Justified(o) ==
  /\ o \in Periodics
  /\ \E met \in SUBSET Looked :
       /\ o.n = Cardinality(met) /\ PeriodsApart(met)
       /\ \A i \in met : o.last # None /\ i <= o.last

PeriodicInv ==
  kind = "periodic" =>
    /\ DOMAIN heap = Threads /\ FiredEarned
    /\ store # None => store \in Threads /\ Justified(heap[store])
    /\ \A t \in Threads : /\ call[t].at \in {"put", "decide"} =>
                               call[t].ref \in Threads /\ Justified(heap[call[t].ref])
                          /\ call[t].at = "put" => Justified(call[t].seen)

LEMMA LookedFinite ==
  ASSUME History
  PROVE  Looked \subseteq 1 .. clock
         /\ \A met \in SUBSET Looked : IsFiniteSet(met) /\ Cardinality(met) \in Nat
<1>1. clock \in Int /\ DOMAIN past = 1 .. clock
  BY NoneIsNoTime DEF History, Times
<1>2. IsFiniteSet(1 .. clock) /\ OfExceeded \subseteq 1 .. clock /\ Looked \subseteq OfExceeded
  BY <1>1, FS_Interval DEF OfExceeded, Looked
<1> QED BY <1>2, FS_Subset, FS_CardinalityType

\* What is justified stays so, as long as no call takes its look back.
LEMMA JustifiedStays ==
  ASSUME History, NEW t \in Threads, Moves(t), call'[t].at = "put" => call[t].at = "get"
  PROVE  Looked \subseteq Looked' /\ \A o : Justified(o) => Justified(o)'
<1>1. ASSUME NEW i \in Looked PROVE i \in Looked'
  <2>1. i \in OfExceeded' /\ i \in 1 .. clock
    BY ExceededStay, PastMoves DEF Looked, OfExceeded
  <2>2. ASSUME NEW u \in Threads, call'[u].at \in {"get", "put"} PROVE call'[u].ts # i
    <3>1. CASE u # t
      BY <2>2, <3>1 DEF Moves, Others, Looked
    <3>2. CASE u = t /\ ~UnderWay(t)
      BY <2>1, <3>2, NoneIsNoTime DEF Moves, Begun, Ended, GoesOn, History, Times
    <3>3. CASE u = t /\ UnderWay(t)
      <4>1. GoesOn(t) \/ Ended(t)
        BY <3>3 DEF Moves, Begun
      <4>2. call'[t].at = "put" /\ call'[t].ts = call[t].ts
        BY <2>2, <3>3, <4>1 DEF GoesOn, Ended
      <4> QED BY <3>3, <4>2 DEF Looked
    <3> QED BY <3>1, <3>2, <3>3
  <2> QED BY <2>1, <2>2 DEF Looked
<1>2. \A met : PeriodsApart(met)' <=> PeriodsApart(met)
  BY DEF PeriodsApart, Moves, ReadAs, Ticks
<1>3. ASSUME NEW o, Justified(o) PROVE Justified(o)'
  <2>1. PICK met \in SUBSET Looked :
          /\ o.n = Cardinality(met) /\ PeriodsApart(met)
          /\ \A i \in met : o.last # None /\ i <= o.last
    BY <1>3 DEF Justified
  <2>2. met \in SUBSET Looked' /\ PeriodsApart(met)'
    BY <1>1, <1>2, <2>1
  <2> QED BY <1>3, <2>1, <2>2 DEF Justified
<1> QED BY <1>1, <1>3

LEMMA PeriodicStep ==
  ASSUME History, PeriodicInv, kind = "periodic", NEW t \in Threads,
         (\E v \in 0 .. 2 : Begin(t, v)) \/ Get(t) \/ PutObject(t) \/ Decide(t)
  PROVE  PeriodicInv'
<1>1. Moves(t) /\ kind' = kind /\ Others(t)
  BY StepMoves DEF Moves
<1>2. CASE \E v \in 0 .. 2 : Begin(t, v)
  <2>1. PICK v \in 0 .. 2 : Begin(t, v)
    BY <1>2
  <2>2. /\ store' = store /\ heap' = heap /\ call'[t].at = "get" /\ clock' = clock + 1
        /\ Begun(t, v) /\ ~UnderWay(t)
    BY <2>1, BeginMoves DEF Begun, NeedsNoState
  <2>3. ~past'[clock'].fired /\ \A i \in 1 .. clock : past'[i] = past[i]
    <3>1. ~Ended(t)
      BY <2>2 DEF Ended
    <3>2. ~past'[clock'].fired
      BY <1>1, <2>2 DEF Moves, Begun, Ended, GoesOn
    <3> QED BY <1>1, <3>1, <3>2, PastMoves
  <2>4. FiredEarned'
    BY <1>1, <2>2, <2>3, AfterNew, FiredEarnedStays DEF PeriodicInv
  <2>5. \A o : Justified(o) => Justified(o)'
    BY <1>1, <2>2, JustifiedStays
  <2> QED BY <1>1, <2>2, <2>4, <2>5 DEF PeriodicInv, Others
<1>3. CASE Get(t)
  <2>1. /\ GoesOn(t) /\ call[t].at = "get" /\ call'[t].at = "put"
        /\ UNCHANGED <<kind, unit, clock, store, past>> /\ GetSees(t)
    BY <1>3, GetMoves
  <2>2. FiredEarned'
    BY <1>1, <2>1, GoesOnFires DEF PeriodicInv
  <2>3. \A o : Justified(o) => Justified(o)'
    BY <1>1, <2>1, JustifiedStays
  <2>4. Fresh \in Periodics /\ Fresh.n = 0
    <3>1. Fresh = [last |-> None, n |-> 0]
      BY DEF Fresh
    <3> QED BY <3>1 DEF Periodics
  <2>5. Justified(Fresh)
    <3>1. PeriodsApart({}) /\ Cardinality({}) = 0
      BY FS_EmptySet DEF PeriodsApart
    <3> QED BY <2>4, <3>1 DEF Justified
  <2> HIDE DEF Fresh
  <2>6. /\ heap' = IF store = None THEN [heap EXCEPT ![t] = Fresh] ELSE heap
        /\ call'[t].ref = IF store = None THEN t ELSE store
        /\ call'[t].seen = heap'[call'[t].ref]
    BY <2>1 DEF GetSees, ByPointer
  <2>7. /\ DOMAIN heap' = Threads
        /\ \A u \in Threads : Justified(heap[u]) => Justified(heap'[u])
        /\ call'[t].ref \in Threads /\ Justified(heap'[call'[t].ref])
    <3>1. CASE store = None
      <4>1. heap'[t] = Fresh /\ \A u \in Threads : heap'[u] = heap[u] \/ heap'[u] = Fresh
        BY <2>6, <3>1 DEF PeriodicInv
      <4> QED BY <2>5, <2>6, <3>1, <4>1 DEF PeriodicInv
    <3>2. CASE store # None
      BY <2>6, <3>2 DEF PeriodicInv
    <3> QED BY <3>1, <3>2
  <2>8. store' # None => store' \in Threads /\ Justified(heap'[store'])
    BY <2>1, <2>7 DEF PeriodicInv
  <2> QED BY <1>1, <2>1, <2>2, <2>3, <2>6, <2>7, <2>8 DEF PeriodicInv, Others
<1>4. CASE PutObject(t)
  <2>c. PICK c, s, r, o, n : /\ c = call[t] /\ s = c.seen /\ r = c.ref /\ o = heap[r]
                             /\ n = Periodic(o, s, c)
    OBVIOUS
  <2>1. /\ c.at = "put" /\ heap' = [heap EXCEPT ![r] = n] /\ store' = r
        /\ call' = [call EXCEPT ![t].at = "decide"] /\ UNCHANGED <<kind, unit, clock, past>>
    <3>1. Changed(o, s, c) = n
      BY <2>c DEF Changed
    <3> QED BY <1>4, <2>c, <3>1 DEF PutObject
  <2>2. call'[t].at = "decide" /\ call'[t].ref = r /\ GoesOn(t)
    <3>1. GoesOn(t)
      BY <1>1, <2>1, <2>c DEF Moves, Begun, Ended, UnderWay
    <3>2. CallShape(c)
      BY <2>c DEF History
    <3>3. call'[t] = [c EXCEPT !.at = "decide"]
      BY <2>1, <2>c DEF History
    <3> QED BY <2>c, <3>1, <3>2, <3>3 DEF CallShape
  <2>3. FiredEarned'
    BY <1>1, <2>2, GoesOnFires DEF PeriodicInv
  <2>4. /\ Looked \subseteq Looked'
        /\ \A x : Justified(x) => Justified(x)'
    BY <1>1, <2>2, JustifiedStays
  <2>5. r \in Threads /\ Justified(o) /\ Justified(s)
    BY <2>c, <2>1 DEF PeriodicInv
  <2>6. c.ts \in 1 .. clock /\ past[c.ts].v = c.v /\ clock \in Times /\ DOMAIN past = 1 .. clock
        /\ c.ts \in Times
    BY <2>c, <2>1, PastMoves, <1>1 DEF History, Recorded, UnderWay, CallShape
  <2>7. Justified(n)'
    <3>1. CASE n = o
      BY <2>4, <2>5, <3>1
    <3>2. CASE n # o
      <4>1. n = [last |-> c.ts, n |-> IF Exceeded(c) THEN s.n + 1 ELSE 0]
        BY <2>c, <3>2 DEF Periodic
      <4>2. PICK met \in SUBSET Looked :
              /\ s.n = Cardinality(met) /\ PeriodsApart(met)
              /\ \A i \in met : s.last # None /\ i <= s.last
        BY <2>5 DEF Justified
      <4>3. s.n \in Nat /\ s.last \in Times \cup {None}
        BY <2>5 DEF Justified, Periodics
      <4>4. n \in Periodics /\ n.n = (IF Exceeded(c) THEN s.n + 1 ELSE 0) /\ n.last = c.ts
        BY <2>6, <4>1, <4>3 DEF Periodics
      <4>5. \A d : ReadAs(d)' = ReadAs(d)
        BY <2>1 DEF ReadAs
      <4>6. CASE Exceeded(c)
        <5>1. c.ts \in Looked' /\ c.ts \notin Looked
          <6>1. c.ts \in OfExceeded'
            BY <2>1, <2>6, <4>6 DEF OfExceeded, Exceeded
          <6>2. ASSUME NEW u \in Threads, call'[u].at \in {"get", "put"} PROVE call'[u].ts # c.ts
            <7>1. u # t
              BY <2>2, <6>2
            <7>2. call'[u] = call[u] /\ UnderWay(u) /\ UnderWay(t)
              BY <1>1, <2>c, <2>1, <6>2, <7>1 DEF Others, UnderWay
            <7> QED BY <2>c, <7>1, <7>2 DEF History
          <6>3. c.ts \notin Looked
            BY <2>c, <2>1 DEF Looked
          <6> QED BY <6>1, <6>2, <6>3 DEF Looked
        <5>2. PICK met2 : met2 = met \cup {c.ts}
          OBVIOUS
        <5>3. met2 \in SUBSET Looked' /\ Cardinality(met2) = n.n
          <6>1. IsFiniteSet(met) /\ c.ts \notin met
            BY <4>2, <5>1, LookedFinite
          <6>2. Cardinality(met2) = Cardinality(met) + 1
            BY <5>2, <6>1, FS_AddElement
          <6>3. n.n = s.n + 1
            BY <4>4, <4>6
          <6> QED BY <2>4, <4>2, <5>1, <5>2, <6>2, <6>3
        <5>4. ASSUME NEW i \in met PROVE i \in Int /\ i <= c.ts /\ ReadAs(c.ts - i) >= Ticks(Period)
          <6>1. i \in 1 .. clock /\ s.last \in Times /\ i <= s.last /\ i \in Int /\ s.last \in Int
                /\ c.ts \in Int
            BY <2>6, <4>2, <4>3, LookedFinite, NoneIsNoTime DEF Times
          <6>2. ReadAs(c.ts - s.last) >= Ticks(Period)
            BY <2>c, <3>2, <4>2 DEF Periodic
          <6>3. PICK d, e : d = c.ts - s.last /\ e = c.ts - i
            OBVIOUS
          <6>4. d \in Int /\ e \in Int /\ d <= e /\ unit \in {"ms", "ns"} /\ Period \in Nat
            BY <6>1, <6>3, NodesAssumption, SkewAssumption DEF History
          <6>5. d >= 0 /\ ReadAs(d) <= ReadAs(e) /\ ReadAs(d) \in Int /\ ReadAs(e) \in Int
                /\ Ticks(Period) \in Nat
            BY <6>2, <6>3, <6>4, ReadAsGrows
          <6> QED BY <6>1, <6>2, <6>3, <6>5
        <5>5. PeriodsApart(met2)'
          <6>1. ASSUME NEW i \in met2, NEW j \in met2, i < j PROVE ReadAs(j - i) >= Ticks(Period)
            <7>1. CASE i \in met /\ j \in met
              BY <4>2, <6>1, <7>1 DEF PeriodsApart
            <7>2. CASE j = c.ts /\ i \in met
              BY <5>4, <7>2
            <7>3. CASE i = c.ts
              BY <2>6, <5>2, <5>4, <6>1, <7>3, NoneIsNoTime DEF Times
            <7> QED BY <5>2, <7>1, <7>2, <7>3
          <6> QED BY <4>5, <6>1 DEF PeriodsApart, Ticks
        <5>6. \A i \in met2 : n.last # None /\ i <= n.last
          BY <2>6, <4>4, <5>2, <5>4, NoneIsNoTime DEF Times
        <5> QED BY <4>4, <5>3, <5>5, <5>6 DEF Justified
      <4>7. CASE ~Exceeded(c)
        <5>1. PeriodsApart({})' /\ Cardinality({}) = 0
          BY FS_EmptySet DEF PeriodsApart
        <5> QED BY <4>4, <4>7, <5>1 DEF Justified
      <4> QED BY <4>6, <4>7
    <3> QED BY <3>1, <3>2
  <2>8. /\ DOMAIN heap' = Threads /\ heap'[r] = n
        /\ \A u \in Threads : u # r => heap'[u] = heap[u]
    BY <2>1, <2>5 DEF PeriodicInv
  <2>9. \A u \in Threads : Justified(heap[u]) => Justified(heap[u])'
    <3> SUFFICES ASSUME NEW u \in Threads, Justified(heap[u]) PROVE Justified(heap[u])'
      OBVIOUS
    <3>1. PICK x : x = heap'[u]
      OBVIOUS
    <3>2. Justified(x)'
      BY <2>4, <2>7, <2>8, <3>1
    <3> QED BY <3>1, <3>2
  <2>10. ASSUME NEW u \in Threads
         PROVE  /\ call'[u].at \in {"put", "decide"} =>
                     call'[u].ref \in Threads /\ Justified(heap[call[u].ref])'
                /\ call'[u].at = "put" => Justified(call[u].seen)'
    <3>1. CASE u = t
      <4>1. Justified(heap[r])'
        BY <2>5, <2>7, <2>8
      <4> QED BY <2>2, <2>5, <3>1, <4>1
    <3>2. CASE u # t
      <4>1. call'[u] = call[u]
        BY <1>1, <3>2 DEF Others
      <4>2. PICK q, x : q = call[u].ref /\ x = call[u].seen
        OBVIOUS
      <4>3. call[u].at \in {"put", "decide"} => q \in Threads /\ Justified(heap[q])'
        BY <2>9, <4>2 DEF PeriodicInv
      <4>4. call[u].at = "put" => Justified(x)'
        BY <2>4, <4>2 DEF PeriodicInv
      <4> QED BY <4>1, <4>2, <4>3, <4>4
    <3> QED BY <3>1, <3>2
  <2>11. store' \in Threads /\ Justified(heap[store])'
    <3>1. Justified(heap[r])'
      BY <2>5, <2>7, <2>8
    <3> QED BY <2>1, <2>5, <3>1
  <2> QED BY <1>1, <2>3, <2>8, <2>10, <2>11 DEF PeriodicInv
<1>5. CASE Decide(t)
  <2>c. PICK c, o : c = call[t] /\ o = heap[c.ref]
    OBVIOUS
  <2>1. /\ c.at = "decide" /\ Over(t, o.n >= Count) /\ UNCHANGED <<kind, unit, clock, store, heap>>
        /\ UnderWay(t)
    BY <1>5, <2>c, SMTT(30) DEF Decide, UnderWay
  <2>2. Ended(t) /\ past'[c.ts].fired = (o.n >= Count) /\ call'[t].at = "done"
    <3>1. (o.n >= Count) \in BOOLEAN
      OBVIOUS
    <3>2. PICK fires \in BOOLEAN : fires = (o.n >= Count)
      BY <3>1
    <3> QED BY <2>1, <2>c, <3>2, OverOf, ZenonT(30) DEF Ended
  <2>3. \A x : Justified(x) => Justified(x)'
    BY <1>1, <2>2, JustifiedStays
  <2>4. PICK met \in SUBSET Looked : o.n = Cardinality(met) /\ PeriodsApart(met)
    BY <2>c, <2>1 DEF PeriodicInv, Justified
  <2>5. o.n >= Count => EarnedAsRead(c.ts)'
    <3>1. met \in SUBSET OfExceeded'
      BY <1>1, <2>4, ExceededStay DEF Looked
    <3>2. PeriodsApart(met)'
      BY <2>1, <2>4 DEF PeriodsApart, ReadAs, Ticks
    <3> QED BY <1>1, <2>4, <3>1, <3>2 DEF EarnedAsRead, Pausing
  <2>6. FiredEarned'
    <3>1. \A f \in 1 .. clock' : past'[f].fired /\ (f \in 1 .. clock => ~past[f].fired) => f = c.ts
      BY <1>1, <2>1, <2>2, <2>c, PastMoves
    <3> QED BY <1>1, <2>2, <2>5, <3>1, FiredEarnedStays DEF PeriodicInv
  <2> QED BY <1>1, <2>1, <2>2, <2>3, <2>6 DEF PeriodicInv, Others
<1> QED BY <1>2, <1>3, <1>4, <1>5

-----------------------------------------------------------------------------
FiresInv == History /\ WaitInv /\ PauseInv /\ RecoveryInv /\ PeriodicInv

LEMMA FiresInvInit == NodesInit => FiresInv
<1> SUFFICES ASSUME NodesInit PROVE FiresInv
  OBVIOUS
<1>1. History
  BY HistoryInit
<1>2. /\ clock = 0 /\ store = None /\ heap = [t \in Threads |-> None]
      /\ \A t \in Threads : call[t].at = "done"
  BY DEF NodesInit, NodesInitIn
<1>3. FiredEarned
  BY <1>2 DEF FiredEarned
<1>4. WaitInv /\ PauseInv
  BY <1>2, <1>3 DEF WaitInv, StoreWaits, SeenWaits, UnderWay, PauseInv, StoreFired, SeenFired
<1>5. RecoveryInv
  BY <1>2, <1>3 DEF RecoveryInv, RecoveryShape, SeenRecovers
<1>6. PeriodicInv
  BY <1>2, <1>3 DEF PeriodicInv
<1> QED BY <1>1, <1>4, <1>5, <1>6 DEF FiresInv

LEMMA FiresInvStep == FiresInv /\ [NodesNext]_nodeVars => FiresInv'
<1> SUFFICES ASSUME FiresInv, [NodesNext]_nodeVars PROVE FiresInv'
  OBVIOUS
<1>1. CASE NodesNext
  <2>1. PICK t \in Threads :
          \/ \E v \in 0 .. 2 : Begin(t, v)
          \/ Get(t) \/ PutSince(t) \/ PutMatch(t) \/ PutFreeze(t)
          \/ PutSamples(t) \/ PutObject(t) \/ Decide(t)
    BY <1>1 DEF NodesNext, Levels
  <2>2. Moves(t) /\ History' /\ kind' = kind
    BY <2>1, StepMoves, HistoryStep DEF FiresInv, Moves
  <2>3. WaitInv'
    <3> SUFFICES ASSUME kind \in Waiting PROVE WaitInv'
      BY <2>2 DEF WaitInv
    <3>1. \/ \E v \in 0 .. 2 : Begin(t, v)
          \/ Get(t) \/ PutSince(t)
      BY <2>1 DEF FiresInv, WaitInv, Waiting, Windowed, ByPointer, PutMatch, PutFreeze,
                  PutSamples, PutObject, Decide
    <3> QED BY <3>1, WaitBegin, WaitGet, WaitPut DEF FiresInv
  <2>4. PauseInv'
    <3> SUFFICES ASSUME kind \in Pausing PROVE PauseInv'
      BY <2>2 DEF PauseInv
    <3>1. \/ \E v \in 0 .. 2 : Begin(t, v)
          \/ Get(t) \/ PutMatch(t) \/ PutFreeze(t)
      BY <2>1 DEF FiresInv, PauseInv, Pausing, Waiting, Windowed, ByPointer, PutSince,
                  PutSamples, PutObject, Decide
    <3> QED BY <3>1, PauseBegin, PauseGet, PausePut DEF FiresInv
  <2>5. RecoveryInv'
    <3> SUFFICES ASSUME kind = "recovery" PROVE RecoveryInv'
      BY <2>2 DEF RecoveryInv
    <3>1. \/ \E v \in 0 .. 2 : Begin(t, v)
          \/ Get(t) \/ PutObject(t)
      BY <2>1 DEF FiresInv, RecoveryInv, RecoveryShape, Waiting, Windowed, PutSince, PutMatch,
                  PutFreeze, PutSamples, Decide
    <3> QED BY <3>1, RecoveryBegin, RecoveryGet, RecoveryPut DEF FiresInv
  <2>6. PeriodicInv'
    <3> SUFFICES ASSUME kind = "periodic" PROVE PeriodicInv'
      BY <2>2 DEF PeriodicInv
    <3>1. \/ \E v \in 0 .. 2 : Begin(t, v)
          \/ Get(t) \/ PutObject(t) \/ Decide(t)
      BY <2>1 DEF Waiting, Windowed, PutSince, PutMatch, PutFreeze, PutSamples
    <3> QED BY <3>1, PeriodicStep DEF FiresInv
  <2> QED BY <2>2, <2>3, <2>4, <2>5, <2>6 DEF FiresInv
<1>2. CASE UNCHANGED nodeVars
  <2>1. History'
    BY <1>2 DEF FiresInv, nodeVars, History, Recorded, Returned, UnderWay
  <2>2. FiredEarned => FiredEarned'
    <3>1. \A i, j : After(j, i)' = After(j, i)
      BY <1>2 DEF nodeVars, After, Returned
    <3>2. \A d : ReadAs(d)' = ReadAs(d)
      BY <1>2 DEF nodeVars, ReadAs
    <3>3. \A i, f, good, ending : HeldAsRead(i, f, good, ending) => HeldAsRead(i, f, good, ending)'
      BY <1>2, <3>1, <3>2 DEF nodeVars, HeldAsRead, Ticks
    <3>4. \A f : RestedAsRead(f) => RestedAsRead(f)'
      BY <1>2, <3>1, <3>2 DEF nodeVars, RestedAsRead, Ticks
    <3>5. OfExceeded' = OfExceeded /\ \A met : PeriodsApart(met)' <=> PeriodsApart(met)
      BY <1>2, <3>2 DEF nodeVars, OfExceeded, PeriodsApart, Ticks
    <3>6. \A f : EarnedAsRead(f) => EarnedAsRead(f)'
      BY <1>2, <3>1, <3>3, <3>4, <3>5 DEF nodeVars, EarnedAsRead, OneObject
    <3> QED BY <1>2, <3>6 DEF nodeVars, FiredEarned
  <2>3. WaitInv'
    BY <1>2, <2>2 DEF FiresInv, nodeVars, WaitInv, StoreWaits, SeenWaits, UnderWay, After, Returned
  <2>4. PauseInv'
    BY <1>2, <2>2 DEF FiresInv, nodeVars, PauseInv, StoreFired, SeenFired, After, Returned
  <2>5. RecoveryInv'
    BY <1>2, <2>2 DEF FiresInv, nodeVars, RecoveryInv, RecoveryShape, RecoveryHolds, SeenRecovers,
                      OneObject, After, Returned
  <2>6. PeriodicInv'
    <3>1. Looked' = Looked
      BY <1>2 DEF nodeVars, Looked, OfExceeded
    <3>2. \A o : Justified(o)' <=> Justified(o)
      BY <1>2, <3>1 DEF nodeVars, Justified, PeriodsApart, ReadAs, Ticks
    <3> QED BY <1>2, <2>2, <3>2 DEF FiresInv, nodeVars, PeriodicInv
  <2> QED BY <2>1, <2>3, <2>4, <2>5, <2>6 DEF FiresInv
<1> QED BY <1>1, <1>2

-----------------------------------------------------------------------------
(***************************************************************************)
(* What these nodes store.                                                 *)
(*                                                                         *)
(* A step is to the samples what SampleStep says, to an object what        *)
(* ObjectStep says.  Sampled is reasoned about by what it returns: some of *)
(* the samples in their order, with all within the window (Thinned).       *)
(*                                                                         *)
(* The samples are of calls with their work behind them (Entered), one     *)
(* each (SoundInv).  Once a call has run alone to where it has stored its  *)
(* sample (Settled), the sample is stored and whoever is about to store    *)
(* has seen it (KeptInv).  While no calls have overlapped (InTurn) one is  *)
(* on its way at most, so the samples are in order and none is too old     *)
(* (OrderInv), the peak is that of the values entered (PeakInv), and the   *)
(* counts are those of the calls that found the value outside (TrackInv).  *)
(***************************************************************************)

RankIn(Y, k) == Cardinality({j \in Y : j <= k})

\* The elements of a finite set of numbers, counted up.
LEMMA Ranks ==
  ASSUME NEW Y, Y \subseteq Int, IsFiniteSet(Y)
  PROVE  /\ Cardinality(Y) \in Nat
         /\ \A k \in Y : RankIn(Y, k) \in 1 .. Cardinality(Y)
         /\ \A j, k \in Y : j < k => RankIn(Y, j) < RankIn(Y, k)
         /\ \A n \in 1 .. Cardinality(Y) : \E k \in Y : RankIn(Y, k) = n
<1> DEFINE N == Cardinality(Y)
           Upto(k) == {j \in Y : j <= k}
           f == [k \in Y |-> RankIn(Y, k)]
<1>1. N \in Nat /\ IsFiniteSet(1 .. N) /\ Cardinality(1 .. N) = N
  <2>1. N \in Nat
    BY FS_CardinalityType
  <2> QED BY <2>1, FS_Interval
<1>2. ASSUME NEW k \in Y PROVE /\ IsFiniteSet(Upto(k)) /\ RankIn(Y, k) \in 1 .. N
  <2>1. Upto(k) \in SUBSET Y
    OBVIOUS
  <2>2. IsFiniteSet(Upto(k)) /\ Cardinality(Upto(k)) <= N
    BY <2>1, FS_Subset
  <2>3. Cardinality(Upto(k)) \in Nat
    BY <2>2, FS_CardinalityType
  <2>4. k \in Upto(k)
    OBVIOUS
  <2>5. Cardinality(Upto(k)) # 0
    BY <2>2, <2>4, FS_EmptySet
  <2> QED BY <1>1, <2>2, <2>3, <2>5 DEF RankIn
<1>3. ASSUME NEW j \in Y, NEW k \in Y, j < k PROVE RankIn(Y, j) < RankIn(Y, k)
  <2>0. \A i \in Y : i \in Int
    OBVIOUS
  <2>a. \A i \in Y : i <= j => i <= k
    BY <1>3, <2>0
  <2>b. k <= k /\ ~(k <= j)
    BY <1>3, <2>0
  <2>1. Upto(j) \in SUBSET Upto(k) /\ k \in Upto(k) /\ k \notin Upto(j)
    BY <2>a, <2>b, Zenon
  <2>2. Cardinality(Upto(j)) <= Cardinality(Upto(k)) /\ Cardinality(Upto(k)) # Cardinality(Upto(j))
    BY <1>2, <2>1, FS_Subset
  <2>3. RankIn(Y, j) \in 1 .. N /\ RankIn(Y, k) \in 1 .. N
    BY <1>2
  <2> QED BY <1>1, <2>2, <2>3 DEF RankIn
<1>4. f \in Injection(Y, 1 .. N)
  <2>1. f \in [Y -> 1 .. N]
    BY <1>2
  <2>2. ASSUME NEW j \in Y, NEW k \in Y, f[j] = f[k] PROVE j = k
    <3>1. RankIn(Y, j) = RankIn(Y, k)
      BY <2>2
    <3>2. RankIn(Y, j) \in Int /\ RankIn(Y, k) \in Int
      <4>1. RankIn(Y, j) \in 1 .. N /\ RankIn(Y, k) \in 1 .. N
        BY <1>2, Zenon
      <4> QED BY <1>1, <4>1
    <3>3. ~(j < k) /\ ~(k < j)
      BY <1>3, <3>1, <3>2
    <3> QED BY <3>3
  <2> HIDE DEF f, Upto
  <2>3. IsInjective(f)
    BY <2>1, <2>2 DEF IsInjective
  <2> QED BY <2>1, <2>3 DEF Injection
<1>5. f \in Surjection(Y, 1 .. N)
  BY <1>1, <1>4, FS_Injection
<1>6. ASSUME NEW n \in 1 .. N PROVE \E k \in Y : RankIn(Y, k) = n
  <2>1. PICK k \in Y : f[k] = n
    BY <1>5 DEF Surjection
  <2> QED BY <2>1
<1> QED BY <1>1, <1>2, <1>3, <1>6

-----------------------------------------------------------------------------
(* What Sampled makes of the samples. *)

SampleRec == [ts : Nat, v : Nat]

Sorted(s) == \A j, k \in DOMAIN s : j < k => s[j].ts < s[k].ts

StaysIn(x, c) == ReadAs(c.ts - x.ts) < Ticks(Window)
                 \/ (kind # "detect" /\ ReadAs(c.ts - x.ts) = Ticks(Window))

\* Elements of the one sequence, in their order, with all that stay.
Thinned(out, all, c) ==
  \E h \in [1 .. Len(out) -> 1 .. Len(all)] :
    /\ \A k \in 1 .. Len(out) : out[k] = all[h[k]]
    /\ \A j, k \in 1 .. Len(out) : j < k => h[j] < h[k]
    /\ \A j \in 1 .. Len(all) : StaysIn(all[j], c) => \E k \in 1 .. Len(out) : h[k] = j

LEMMA ReadAsIsInt ==
  ASSUME unit \in {"ms", "ns"}
  PROVE  /\ \A a, x \in Int : ReadAs(a - x) \in Int
         /\ Ticks(Window) \in Nat /\ ReadAs(0) = 0
<1>1. \A a, x \in Int : a - x \in Int
  OBVIOUS
<1>2. \A d \in Int : ReadAs(d) \in Int
  BY ReadAsGrows
<1>3. Ticks(Window) \in Nat
  BY NodesAssumption, SkewAssumption DEF Ticks
<1>4. ReadAs(0) = 0
  BY ReadAsGrows
<1> QED BY <1>1, <1>2, <1>3, <1>4, Zenon

LEMMA ReadAsSince ==
  ASSUME unit \in {"ms", "ns"}, NEW a \in Int, NEW x \in Int, NEW y \in Int, x <= y
  PROVE  /\ ReadAs(a - x) \in Int /\ ReadAs(a - y) \in Int /\ ReadAs(a - y) <= ReadAs(a - x)
         /\ ReadAs(a - a) = 0 /\ Ticks(Window) \in Nat
<1>1. a - x \in Int /\ a - y \in Int /\ a - y <= a - x /\ a - a = 0
  OBVIOUS
<1>2. Ticks(Window) \in Nat
  BY NodesAssumption, SkewAssumption DEF Ticks
<1> QED BY <1>1, <1>2, ReadAsGrows

LEMMA FrontDropped ==
  ASSUME unit \in {"ms", "ns"}, kind # "detect", NEW s \in Seq(SampleRec), NEW c,
         c.ts \in Nat, c.v \in Nat
  PROVE  LET all == Append(s, Sample(c)) IN
         /\ Sampled(s, c) \in Seq(SampleRec) /\ Thinned(Sampled(s, c), all, c)
         /\ Sorted(all) => \A k \in 1 .. Len(Sampled(s, c)) : StaysIn(Sampled(s, c)[k], c)
<1> DEFINE all == Append(s, Sample(c))
           Young(x) == ReadAs(c.ts - x.ts) <= Ticks(Window)
           I == {i \in 1 .. Len(all) : Young(all[i])}
           n == Min(I)
           out == Sampled(s, c)
<1>1. /\ all \in Seq(SampleRec) /\ Len(all) = Len(s) + 1 /\ all[Len(all)] = Sample(c)
      /\ Sample(c).ts = c.ts /\ Len(all) \in Nat \ {0}
      /\ \A j \in 1 .. Len(all) : all[j].ts \in Nat
  <2>1. Sample(c) \in SampleRec /\ Sample(c).ts = c.ts
    BY DEF Sample, SampleRec
  <2>2. all \in Seq(SampleRec) /\ Len(all) = Len(s) + 1 /\ all[Len(all)] = Sample(c) /\ Len(all) \in Nat \ {0}
    BY <2>1
  <2>3. \A j \in 1 .. Len(all) : all[j] \in SampleRec
    BY <2>2
  <2> QED BY <2>1, <2>2, <2>3 DEF SampleRec
<1>2. \A i \in 1 .. Len(all) : StaysIn(all[i], c) <=> Young(all[i])
  <2> SUFFICES ASSUME NEW i \in 1 .. Len(all) PROVE StaysIn(all[i], c) <=> Young(all[i])
    OBVIOUS
  <2>1. all[i].ts \in Int /\ c.ts \in Int
    BY <1>1
  <2>2. ReadAs(c.ts - all[i].ts) \in Int /\ Ticks(Window) \in Int
    BY <2>1, ReadAsIsInt
  <2> QED BY <2>2 DEF StaysIn
<1>3. Len(all) \in I
  <2>1. ReadAs(0) = 0 /\ Ticks(Window) >= 0
    BY ReadAsGrows, NodesAssumption, SkewAssumption DEF Ticks
  <2>2. c.ts - all[Len(all)].ts = 0
    BY <1>1
  <2> QED BY <1>1, <2>1, <2>2
<1>4. n \in I /\ \A i \in I : n <= i
  <2>1. I \subseteq Nat /\ I # {}
    BY <1>1, <1>3
  <2> HIDE DEF I
  <2>2. \E x \in I : \A y \in I : x <= y
    BY <2>1, Least
  <2> QED BY <2>2 DEF Min
<1>5. out = SubSeq(all, n, Len(all))
  BY <1>3 DEF Sampled, SelectInSeq
<1>6. n \in 1 .. Len(all)
  BY <1>4
<1> HIDE DEF all, n, out, I
<1>7. /\ out \in Seq(SampleRec) /\ Len(out) = Len(all) - n + 1
      /\ \A k \in 1 .. Len(out) : k + n - 1 \in 1 .. Len(all) /\ out[k] = all[k + n - 1]
  BY <1>1, <1>5, <1>6
<1>8. Thinned(out, all, c)
  <2> DEFINE h == [k \in 1 .. Len(out) |-> k + n - 1]
  <2>1. h \in [1 .. Len(out) -> 1 .. Len(all)]
    BY <1>7
  <2>2. \A k \in 1 .. Len(out) : out[k] = all[h[k]]
    BY <1>7
  <2>3. \A j, k \in 1 .. Len(out) : j < k => h[j] < h[k]
    BY <1>1, <1>6, <1>7
  <2>4. ASSUME NEW j \in 1 .. Len(all), StaysIn(all[j], c) PROVE \E k \in 1 .. Len(out) : h[k] = j
    <3>1. n <= j
      BY <1>2, <1>4, <2>4 DEF I
    <3>2. j - n + 1 \in 1 .. Len(out) /\ h[j - n + 1] = j
      BY <1>1, <1>6, <1>7, <3>1
    <3> QED BY <3>2
  <2> HIDE DEF h
  <2> QED BY <2>1, <2>2, <2>3, <2>4 DEF Thinned
<1>9. ASSUME Sorted(all), NEW k \in 1 .. Len(out) PROVE StaysIn(out[k], c)
  <2> DEFINE j == k + n - 1
  <2>1. j \in 1 .. Len(all) /\ n <= j /\ out[k] = all[j]
    BY <1>1, <1>6, <1>7
  <2>a. all[j].ts \in Nat /\ all[n].ts \in Nat /\ DOMAIN all = 1 .. Len(all) /\ n \in Int /\ j \in Int
    BY <1>1, <1>6, <2>1
  <2> HIDE DEF j
  <2>2. all[n].ts <= all[j].ts
    <3>1. CASE n = j
      BY <2>a, <3>1
    <3>2. CASE n < j
      BY <1>6, <1>9, <2>1, <2>a, <3>2, SMTT(30) DEF Sorted
    <3> QED BY <2>1, <2>a, <3>1, <3>2
  <2>3. Young(all[n])
    BY <1>4 DEF I
  <2>4. ReadAs(c.ts - all[j].ts) <= ReadAs(c.ts - all[n].ts) /\ ReadAs(c.ts - all[j].ts) \in Int
        /\ ReadAs(c.ts - all[n].ts) \in Int /\ Ticks(Window) \in Int
    <3>1. c.ts \in Int /\ all[j].ts \in Int /\ all[n].ts \in Int
      BY <2>a
    <3> QED BY <2>2, <3>1, ReadAsSince
  <2> QED BY <1>2, <2>1, <2>3, <2>4
<1> QED BY <1>7, <1>8, <1>9 DEF all, out

LEMMA OldDropped ==
  ASSUME unit \in {"ms", "ns"}, kind = "detect", NEW s \in Seq(SampleRec), NEW c,
         c.ts \in Nat, c.v \in Nat
  PROVE  LET all == Append(s, Sample(c)) IN
         /\ Sampled(s, c) \in Seq(SampleRec) /\ Thinned(Sampled(s, c), all, c)
         /\ \A k \in 1 .. Len(Sampled(s, c)) : StaysIn(Sampled(s, c)[k], c)
<1> DEFINE all == Append(s, Sample(c))
           young == {k \in DOMAIN all : ReadAs(c.ts - all[k].ts) < Ticks(Window)}
           N == Cardinality(young)
           Spot(n) == CHOOSE k \in young : RankIn(young, k) = n
           out == Sampled(s, c)
<1>1. all \in Seq(SampleRec) /\ DOMAIN all = 1 .. Len(all) /\ Len(all) \in Nat
  <2>1. Sample(c) \in SampleRec
    BY DEF Sample, SampleRec
  <2> QED BY <2>1
<1>2. young \subseteq Int /\ IsFiniteSet(young) /\ young \subseteq 1 .. Len(all)
      /\ \A k \in 1 .. Len(all) : k \in young <=> StaysIn(all[k], c)
  <2>1. young \subseteq 1 .. Len(all)
    BY <1>1
  <2>2. IsFiniteSet(1 .. Len(all))
    BY <1>1, FS_Interval
  <2>3. IsFiniteSet(young) /\ young \subseteq Int
    BY <2>1, <2>2, FS_Subset
  <2> QED BY <1>1, <2>1, <2>3 DEF StaysIn
<1>3. out = [n \in 1 .. N |-> all[Spot(n)]]
  BY DEF Sampled, OnlyYounger, RankIn
<1> HIDE DEF young
<1>4. /\ N \in Nat
      /\ \A k \in young : RankIn(young, k) \in 1 .. N
      /\ \A j, k \in young : j < k => RankIn(young, j) < RankIn(young, k)
      /\ \A n \in 1 .. N : \E k \in young : RankIn(young, k) = n
  BY <1>2, Ranks
<1>5. \A n \in 1 .. N : Spot(n) \in young /\ RankIn(young, Spot(n)) = n
  BY <1>4, Zenon
<1> DEFINE h == [n \in 1 .. N |-> Spot(n)]
<1>6. h \in [1 .. N -> young] /\ \A n \in 1 .. N : h[n] \in young /\ RankIn(young, h[n]) = n
  BY <1>5, Zenon
<1>7. out = [n \in 1 .. N |-> all[h[n]]]
  BY <1>3
<1> HIDE DEF all, N, Spot, out, h
<1>a. \A k \in 1 .. Len(all) : all[k] \in SampleRec /\ k \in Int
  BY <1>1
<1>8. \A n \in 1 .. N : h[n] \in 1 .. Len(all) /\ all[h[n]] \in SampleRec /\ h[n] \in Int
  BY <1>a, <1>2, <1>6, Zenon
<1>9. /\ out \in Seq(SampleRec) /\ Len(out) = N
      /\ \A k \in 1 .. Len(out) : out[k] = all[h[k]]
  BY <1>4, <1>7, <1>8
<1>10. Thinned(out, all, c)
  <2>1. h \in [1 .. Len(out) -> 1 .. Len(all)]
    BY <1>2, <1>6, <1>9
  <2>2. ASSUME NEW j \in 1 .. Len(out), NEW k \in 1 .. Len(out), j < k PROVE h[j] < h[k]
    <3>0. j \in 1 .. N /\ k \in 1 .. N
      BY <1>9
    <3>1. /\ h[j] \in young /\ h[k] \in young /\ RankIn(young, h[j]) = j /\ RankIn(young, h[k]) = k
          /\ h[j] \in Int /\ h[k] \in Int /\ j \in Int /\ k \in Int
      BY <1>4, <1>6, <1>8, <3>0
    <3>2. h[j] # h[k]
      BY <2>2, <3>1
    <3>3. ~(h[k] < h[j])
      BY <1>4, <2>2, <3>1
    <3> QED BY <3>1, <3>2, <3>3
  <2>3. ASSUME NEW j \in 1 .. Len(all), StaysIn(all[j], c) PROVE \E k \in 1 .. Len(out) : h[k] = j
    <3> DEFINE k == RankIn(young, j)
    <3>1. j \in young /\ k \in 1 .. Len(out) /\ j \in Int
      BY <1>2, <1>4, <1>9, <2>3
    <3> HIDE DEF k
    <3>a. k \in 1 .. N
      BY <1>9, <3>1
    <3>2. h[k] \in young /\ RankIn(young, h[k]) = k /\ h[k] \in Int /\ k \in Int
      BY <1>4, <1>6, <1>8, <3>a
    <3>3. ~(h[k] < j) /\ ~(j < h[k])
      BY <1>4, <3>1, <3>2 DEF k
    <3>4. h[k] = j
      BY <3>1, <3>2, <3>3
    <3> QED BY <3>1, <3>4
  <2> QED BY <1>9, <2>1, <2>2, <2>3 DEF Thinned
<1>11. ASSUME NEW k \in 1 .. Len(out) PROVE StaysIn(out[k], c)
  BY <1>2, <1>6, <1>8, <1>9
<1> QED BY <1>9, <1>10, <1>11 DEF all, out

\* The sequence is Thinned, none of its samples too old if they were in order.
LEMMA SampledIs ==
  ASSUME unit \in {"ms", "ns"}, NEW s \in Seq(SampleRec), NEW c, c.ts \in Nat, c.v \in Nat
  PROVE  LET all == Append(s, Sample(c)) IN
         /\ Sampled(s, c) \in Seq(SampleRec) /\ Thinned(Sampled(s, c), all, c)
         /\ Sorted(all) => \A k \in 1 .. Len(Sampled(s, c)) : StaysIn(Sampled(s, c)[k], c)
<1>1. CASE kind = "detect"
  BY <1>1, OldDropped
<1>2. CASE kind # "detect"
  BY <1>2, FrontDropped
<1> QED BY <1>1, <1>2

-----------------------------------------------------------------------------
(* Which calls ran alone. *)

\* The calls that do not have their work on the state before them.
Entered == {i \in 1 .. clock : \A u \in Threads : call[u].at \in {"get", "put"} => call[u].ts # i}

SoFarAlone(i) == \A j \in 1 .. clock \ {i} : After(i, j)

\* Call i ran alone, or does so far and has its work behind it.
Settled(i) == Alone(i) \/ (SoFarAlone(i) /\ \E u \in Threads : call[u].at = "decide" /\ call[u].ts = i)

\* No two calls have overlapped.
InTurn == \A i, j \in 1 .. clock : j < i => After(i, j)

LEMMA PastOrder ==
  ASSUME History, NEW i \in 1 .. clock, NEW j \in 1 .. clock
  PROVE  After(j, i) => Returned(i) /\ i < j
<1>1. past[j].ts = j /\ (Returned(i) => past[i].end \in i .. clock) /\ clock \in Int
  BY NoneIsNoTime DEF History, Times
<1> QED BY <1>1 DEF After

LEMMA AloneSoFar ==
  ASSUME History, NEW i \in 1 .. clock, SoFarAlone(i)
  PROVE  i = clock /\ \A u \in Threads : UnderWay(u) => call[u].ts = i
<1>1. clock \in Int /\ clock \in 1 .. clock
  BY NoneIsNoTime DEF History, Times
<1>2. i = clock
  BY <1>1, PastOrder DEF SoFarAlone
<1>3. ASSUME NEW u \in Threads, UnderWay(u), call[u].ts # i PROVE FALSE
  <2>1. call[u].ts \in 1 .. clock /\ past[call[u].ts].end = None
    BY <1>3 DEF History, Recorded
  <2> QED BY <1>3, <2>1 DEF SoFarAlone, After, Returned
<1> QED BY <1>2, <1>3

LEMMA InTurnUnderWay ==
  ASSUME History, InTurn, NEW u \in Threads, UnderWay(u)
  PROVE  call[u].ts = clock /\ \A w \in Threads : UnderWay(w) => w = u
<1>1. clock \in Int /\ clock \in Nat
  BY NoneIsNoTime DEF History, Times
<1>2. ASSUME NEW w \in Threads, UnderWay(w) PROVE call[w].ts = clock
  <2>1. call[w].ts \in 1 .. clock /\ past[call[w].ts].end = None
    BY <1>2 DEF History, Recorded
  <2>2. ~(call[w].ts < clock)
    BY <1>1, <2>1 DEF InTurn, After, Returned
  <2> QED BY <1>1, <2>1, <2>2
<1> QED BY <1>2 DEF History

LEMMA AloneBefore ==
  ASSUME History, NEW t \in Threads, Moves(t), NEW i \in 1 .. clock, Alone(i)'
  PROVE  Alone(i) \/ (Ended(t) /\ i = call[t].ts /\ SoFarAlone(i))
<1>1. /\ DOMAIN past = 1 .. clock /\ DOMAIN past' = 1 .. clock' /\ 1 .. clock \subseteq 1 .. clock'
      /\ clock \in Int
  BY PastMoves, NoneIsNoTime DEF Times, History
<1>2. \A j \in 1 .. clock \ {i} : After(i, j)' \/ After(j, i)'
  BY <1>1 DEF Alone
<1>3. \A j \in 1 .. clock \ {i} : After(i, j) \/ After(j, i)
  BY <1>2, AfterSettled
<1>4. CASE Returned(i)
  BY <1>1, <1>3, <1>4 DEF Alone
<1>5. CASE ~Returned(i)
  <2>1. Returned(i)'
    BY DEF Alone
  <2>2. past'[i] # past[i]
    BY <1>5, <2>1 DEF Returned
  <2>3. Ended(t) /\ i = call[t].ts
    BY <2>2, PastMoves
  <2>4. \A j \in 1 .. clock : ~After(j, i)
    BY <1>5 DEF After
  <2> QED BY <1>3, <2>3, <2>4 DEF SoFarAlone
<1> QED BY <1>4, <1>5

\* A call that goes on settles no other.
LEMMA SettledBefore ==
  ASSUME History, NEW t \in Threads, Moves(t), NEW i \in 1 .. clock, Settled(i)',
         UnderWay(t) => i # call[t].ts
  PROVE  Settled(i)
<1>1. CASE Alone(i)'
  BY <1>1, AloneBefore, ZenonT(30) DEF Settled, Ended
<1>2. CASE SoFarAlone(i)' /\ \E u \in Threads : call'[u].at = "decide" /\ call'[u].ts = i
  <2>1. PICK u \in Threads : call'[u].at = "decide" /\ call'[u].ts = i
    BY <1>2
  <2>2. u # t
    BY <2>1, NoneIsNoTime DEF Moves, Begun, Ended, GoesOn, History, Times
  <2>3. call[u].at = "decide" /\ call[u].ts = i
    BY <2>1, <2>2 DEF Moves, Others
  <2>4. 1 .. clock \subseteq 1 .. clock'
    BY PastMoves, NoneIsNoTime DEF Times, History
  <2>5. SoFarAlone(i)
    BY <1>2, <2>4, AfterSettled DEF SoFarAlone
  <2> QED BY <2>3, <2>5 DEF Settled
<1> QED BY <1>1, <1>2, SMTT(30) DEF Settled

\* The call that takes its step.
LEMMA SettledOwn ==
  ASSUME History, NEW t \in Threads, Moves(t), UnderWay(t), NEW i, i = call[t].ts, Settled(i)'
  PROVE  call'[t].at # "put" /\ SoFarAlone(i) /\ i = clock
         /\ \A u \in Threads : UnderWay(u) => u = t
<1>1. i \in 1 .. clock /\ past[i].end = None /\ i \in 1 .. clock' /\ 1 .. clock \subseteq 1 .. clock'
  BY PastMoves, NoneIsNoTime DEF Times, History, Recorded
<1>2. GoesOn(t) \/ Ended(t)
  BY DEF Moves, Begun
<1>3. call'[t].ts = i
  BY <1>2 DEF GoesOn, Ended
<1>4. CASE Alone(i)'
  <2>1. ~Alone(i)
    BY <1>1 DEF Alone, Returned
  <2>2. Ended(t) /\ SoFarAlone(i)
    BY <1>1, <1>4, <2>1, AloneBefore
  <2> QED BY <1>1, <2>2, AloneSoFar DEF Ended, History
<1>5. CASE SoFarAlone(i)' /\ \E u \in Threads : call'[u].at = "decide" /\ call'[u].ts = i
  <2>1. PICK u \in Threads : call'[u].at = "decide" /\ call'[u].ts = i
    BY <1>5
  <2>2. SoFarAlone(i)
    BY <1>1, <1>5, AfterSettled DEF SoFarAlone
  <2>3. i = clock /\ \A w \in Threads : UnderWay(w) => call[w].ts = i
    BY <1>1, <2>2, AloneSoFar
  <2>4. \A w \in Threads : UnderWay(w) => w = t
    BY <2>3 DEF History
  <2>5. u = t
    BY <2>1, <2>4 DEF Moves, Others, UnderWay
  <2> QED BY <2>1, <2>2, <2>3, <2>4, <2>5
<1> QED BY <1>4, <1>5 DEF Settled

LEMMA InTurnBefore ==
  ASSUME History, NEW t \in Threads, Moves(t), InTurn'
  PROVE  InTurn /\ (clock' # clock => \A u \in Threads : ~UnderWay(u))
<1>1. clock \in Int /\ clock' \in Int /\ 1 .. clock \subseteq 1 .. clock'
  BY PastMoves, NoneIsNoTime DEF Times, History
<1>2. InTurn
  BY <1>1, AfterSettled DEF InTurn
<1>3. ASSUME clock' # clock, NEW u \in Threads, UnderWay(u) PROVE FALSE
  <2>0. PICK n : n = clock + 1
    OBVIOUS
  <2>1. clock' = n /\ n \in 1 .. clock' /\ n \notin 1 .. clock
    BY <2>0, <1>1, <1>3, NoneIsNoTime DEF Moves, Begun, Ended, GoesOn, History, Times
  <2>2. PICK j : j \in 1 .. clock /\ past[j].end = None
    BY <1>3 DEF History, Recorded
  <2>3. After(n, j)'
    BY <1>1, <2>0, <2>1, <2>2 DEF InTurn
  <2> QED BY <2>1, <2>2, <2>3, AfterNew DEF Returned
<1> QED BY <1>2, <1>3

LEMMA AllAloneInTurn ==
  ASSUME History, AllAlone
  PROVE  InTurn /\ Entered = 1 .. clock /\ DOMAIN past = 1 .. clock
<1>1. DOMAIN past = 1 .. clock
  BY NoneIsNoTime DEF History, Times
<1>2. \A i \in 1 .. clock : Returned(i) /\ i \in Int /\ \A j \in 1 .. clock \ {i} : After(i, j) \/ After(j, i)
  BY <1>1 DEF AllAlone, Alone
<1>3. InTurn
  <2> SUFFICES ASSUME NEW i \in 1 .. clock, NEW j \in 1 .. clock, j < i PROVE After(i, j)
    BY DEF InTurn
  <2>1. ~After(j, i)
    BY <1>2, PastOrder
  <2> QED BY <1>2, <2>1
<1>4. ASSUME NEW i \in 1 .. clock PROVE i \in Entered
  <2>1. ASSUME NEW u \in Threads, call[u].at \in {"get", "put"} PROVE call[u].ts # i
    BY <1>2, <2>1 DEF History, Recorded, UnderWay, Returned
  <2> QED BY <2>1 DEF Entered
<1> QED BY <1>1, <1>3, <1>4 DEF Entered

ToWork(u) == call[u].at \in {"get", "put"}

\* The calls noted stay so, and the call whose work is done joins them.
LEMMA EnteredGrows ==
  ASSUME History, NEW t \in Threads, Moves(t), call'[t].at = "put" /\ UnderWay(t) => ToWork(t)
  PROVE  Entered \subseteq Entered'
<1>1. clock \in Int /\ clock' \in Int /\ 1 .. clock \subseteq 1 .. clock'
  BY PastMoves, NoneIsNoTime DEF Times, History
<1>2. ASSUME NEW i \in Entered, NEW u \in Threads, call'[u].at \in {"get", "put"}, call'[u].ts = i
      PROVE  FALSE
  <2>1. i \in 1 .. clock
    BY DEF Entered
  <2>2. u = t
    BY <1>2 DEF Entered, Moves, Others
  <2>3. UnderWay(t)
    BY <1>1, <1>2, <2>1, <2>2 DEF Moves, Begun, Ended, GoesOn
  <2>4. GoesOn(t) /\ call'[t].at = "put" /\ call[t].ts = i
    BY <1>2, <2>2, <2>3 DEF Moves, Begun, Ended, GoesOn
  <2> QED BY <1>2, <2>2, <2>3, <2>4 DEF ToWork, Entered
<1> QED BY <1>1, <1>2 DEF Entered

LEMMA EnteredNow ==
  ASSUME History, NEW t \in Threads, Moves(t), ToWork(t), call'[t].at \notin {"get", "put"}
  PROVE  /\ Entered' = Entered \cup {call[t].ts} /\ call[t].ts \notin Entered
         /\ call[t].ts \in 1 .. clock /\ clock' = clock
<1>1. UnderWay(t) /\ clock' = clock /\ call[t].ts \in 1 .. clock
  BY DEF ToWork, UnderWay, Moves, Begun, Ended, GoesOn, History, Recorded
<1>2. \A u \in Threads \ {t} : call'[u] = call[u]
  BY DEF Moves, Others
<1>3. \A u \in Threads \ {t} : call[u].at \in {"get", "put"} => call[u].ts # call[t].ts
  BY <1>1 DEF History, UnderWay
<1>4. call[t].ts \notin Entered
  BY DEF Entered, ToWork
<1>5. ASSUME NEW i PROVE i \in Entered' <=> i \in Entered \cup {call[t].ts}
  <2>1. CASE i = call[t].ts
    BY <1>1, <1>2, <1>3, <2>1 DEF Entered
  <2>2. CASE i # call[t].ts
    BY <1>1, <1>2, <2>2 DEF Entered, ToWork
  <2> QED BY <2>1, <2>2
<1> QED BY <1>1, <1>4, <1>5

\* Otherwise nothing is noted: a call that begins has its work before it.
LEMMA EnteredSame ==
  ASSUME History, NEW t \in Threads, Moves(t), ToWork(t)' <=> (~UnderWay(t) \/ ToWork(t))
  PROVE  Entered' = Entered
<1>1. clock \in Int /\ clock' \in Int /\ 1 .. clock \subseteq 1 .. clock'
  BY PastMoves, NoneIsNoTime DEF Times, History
<1>2. Entered \subseteq Entered'
  BY EnteredGrows DEF ToWork
<1>3. \A u \in Threads \ {t} : call'[u] = call[u]
  BY DEF Moves, Others
<1>4. CASE UnderWay(t)
  <2>1. clock' = clock /\ call'[t].ts = call[t].ts
    BY <1>4 DEF Moves, Begun, Ended, GoesOn
  <2>2. \A u \in Threads : (call'[u].at \in {"get", "put"} <=> call[u].at \in {"get", "put"})
                           /\ (call[u].at \in {"get", "put"} => call'[u].ts = call[u].ts)
    BY <1>3, <1>4, <2>1 DEF ToWork
  <2> QED BY <2>1, <2>2 DEF Entered
<1>5. CASE ~UnderWay(t)
  <2>1. clock' = clock + 1 /\ call'[t].ts = clock + 1 /\ call'[t].at \in {"get", "put"}
    BY <1>5 DEF Moves, Begun, Ended, GoesOn, ToWork
  <2>2. \A i \in Entered' : i \in 1 .. clock
    BY <1>1, <2>1 DEF Entered
  <2>3. \A i \in Entered' : i \in Entered
    BY <1>3, <1>5, <2>2 DEF Entered, UnderWay
  <2> QED BY <1>2, <2>3
<1> QED BY <1>4, <1>5

-----------------------------------------------------------------------------
(* What the steps do to the store. *)

\* The evaluation is named where an object is.
ShapeInv ==
  /\ DOMAIN heap = Threads
  /\ store # None => clock > 0 /\ (kind \in ByPointer => store \in Threads)
  /\ \A u \in Threads : /\ call[u].at \in {"put", "decide"} /\ kind \in ByPointer => call[u].ref \in Threads
                        /\ call[u].at = "decide" => kind \in ByPointer

Of(x) == IF kind = "demand" THEN x.samples ELSE x

SamplesSeen(u) == Of(call[u].seen)

SamplesKept == Samples' = Samples /\ store' = store

LEMMA SamplesAre ==
  ASSUME kind \in Windowed
  PROVE  /\ store = None => Samples = << >>
         /\ store # None /\ kind \in ByPointer => Samples = Of(heap[store])
         /\ store # None /\ kind \notin ByPointer => Samples = store
<1>1. kind = "demand" => kind \in ByPointer
  BY DEF ByPointer
<1> QED BY <1>1 DEF Samples, Of

LEMMA SampledObject ==
  ASSUME kind \in Windowed, kind \in ByPointer, NEW object, NEW seen, NEW c
  PROVE  Of(Changed(object, seen, c)) = Sampled(Of(seen), c)
<1>1. kind \notin {"recovery", "tracker", "periodic"}
  BY DEF Windowed
<1>2. CASE kind = "demand"
  BY <1>1, <1>2 DEF Changed, Demand, Of
<1>3. CASE kind # "demand"
  BY <1>1, <1>3 DEF Changed, Of
<1> QED BY <1>2, <1>3

LEMMA BeginSamples ==
  ASSUME History, kind \in Windowed, NEW t \in Threads, NEW v \in 0 .. 2, Begin(t, v)
  PROVE  /\ Moves(t) /\ Begun(t, v) /\ SamplesKept /\ heap' = heap
         /\ IF NeedsNoState(v) THEN call'[t].at = "done" /\ kind = "frequency" /\ v = 2
            ELSE call'[t].at = "get"
<1>1. Moves(t) /\ Begun(t, v) /\ UNCHANGED <<kind, store, heap>>
      /\ call'[t].at = (IF NeedsNoState(v) THEN "done"
                        ELSE IF kind = "duration" /\ v # 2 THEN "put" ELSE "get")
  BY BeginMoves DEF Moves, Begun
<1>2. NeedsNoState(v) => kind = "frequency" /\ v = 2
  BY DEF NeedsNoState, Windowed
<1> QED BY <1>1, <1>2 DEF Samples, SamplesKept, Windowed

LEMMA GetSamples ==
  ASSUME History, ShapeInv, kind \in Windowed, NEW t \in Threads, Get(t)
  PROVE  /\ Moves(t) /\ GoesOn(t) /\ SamplesKept /\ SamplesSeen(t)' = Samples
         /\ call[t].at = "get" /\ call'[t].at = "put"
         /\ store # None /\ kind \in ByPointer => call'[t].ref = store
<1>1. /\ Moves(t) /\ GoesOn(t) /\ call[t].at = "get" /\ call'[t].at = "put"
      /\ UNCHANGED <<kind, unit, clock, store, past>> /\ GetSees(t)
  BY GetMoves
<1>2. Of(Fresh) = << >>
  <2>1. CASE kind = "demand"
    BY <2>1 DEF Fresh, Of
  <2>2. CASE kind # "demand"
    <3>1. Fresh = << >>
      BY <2>2 DEF Fresh, Windowed
    <3> QED BY <2>2, <3>1 DEF Of
  <2> QED BY <2>1, <2>2
<1>3. kind' \in Windowed /\ (\A x : Of(x)' = Of(x)) /\ SamplesSeen(t)' = Of(call'[t].seen)
  BY <1>1 DEF Of, SamplesSeen
<1>4. CASE kind \notin ByPointer
  <2>1. heap' = heap /\ call'[t].seen = IF store = None THEN Fresh ELSE store
    BY <1>1, <1>4 DEF GetSees
  <2>2. Samples' = Samples
    BY <1>1, <2>1 DEF Samples
  <2>3. store # None => Of(store) = store
    BY <1>4 DEF Of, ByPointer
  <2>4. Of(call'[t].seen) = Samples
    BY <1>2, <1>4, <2>1, <2>3, SamplesAre
  <2> QED BY <1>1, <1>3, <1>4, <2>2, <2>4 DEF SamplesKept
<1>5. CASE kind \in ByPointer /\ store = None
  <2>1. heap' = [heap EXCEPT ![t] = Fresh] /\ call'[t].seen = heap'[t]
    BY <1>1, <1>5 DEF GetSees
  <2>2. call'[t].seen = Fresh
    BY <2>1 DEF ShapeInv
  <2>3. Samples = << >> /\ Samples' = << >>
    BY <1>1, <1>5 DEF Samples
  <2> QED BY <1>1, <1>2, <1>3, <1>5, <2>2, <2>3 DEF SamplesKept
<1>6. CASE kind \in ByPointer /\ store # None
  <2>1. heap' = heap /\ call'[t].ref = store /\ call'[t].seen = heap[store]
    BY <1>1, <1>6 DEF GetSees
  <2>2. Samples' = Samples
    BY <1>1, <2>1 DEF Samples
  <2>3. Of(call'[t].seen) = Samples
    BY <1>6, <2>1, SamplesAre
  <2> QED BY <1>1, <1>3, <2>1, <2>2, <2>3 DEF SamplesKept
<1> QED BY <1>4, <1>5, <1>6

LEMMA CallIs ==
  ASSUME History, NEW t \in Threads
  PROVE  call[t].ts \in Nat /\ call[t].v \in 0 .. 2 /\ call[t].v \in Nat
<1>1. CallShape(call[t])
  BY DEF History
<1>2. call[t].ts \in Times /\ call[t].v \in 0 .. 2
  BY <1>1 DEF CallShape
<1> QED BY <1>2, NoneIsNoTime DEF Times

\* The call of t puts what it makes of the samples it has seen.
SamplesPut(t) ==
  /\ Moves(t) /\ call[t].at = "put" /\ call'[t].at \notin {"get", "put"}
  /\ clock' = clock /\ store' # None
  /\ Samples' = Sampled(SamplesSeen(t), call[t])
  /\ kind \in ByPointer => /\ store' = call[t].ref /\ call'[t].ref = call[t].ref
                           /\ call'[t].at = "decide" /\ past' = past
  /\ kind \notin ByPointer => Ended(t)

LEMMA PutValue ==
  ASSUME History, kind \in Windowed, NEW t \in Threads, PutSamples(t),
         SamplesSeen(t) \in Seq(SampleRec)
  PROVE  SamplesPut(t) /\ heap' = heap
<1>1. /\ Moves(t) /\ call[t].at = "put" /\ kind \notin ByPointer /\ kind' = kind /\ heap' = heap
      /\ clock' = clock /\ store' = Sampled(call[t].seen, call[t]) /\ unit \in {"ms", "ns"}
  BY StepMoves, SMTT(30) DEF PutSamples, History
<1>2. Ended(t) /\ call'[t].at = "done"
  BY OverOf, ZenonT(30) DEF PutSamples, UnderWay, SteepEnough, Ended
<1>3. SamplesSeen(t) = call[t].seen
  BY <1>1 DEF SamplesSeen, Of, ByPointer
<1>4. store' \in Seq(SampleRec)
  BY <1>1, <1>3, CallIs, SampledIs
<1>5. store' # None
  BY <1>4, NoneIsNoObject DEF SampleRec
<1>6. Samples' = store'
  BY <1>1, <1>5 DEF Samples, ByPointer
<1> QED BY <1>1, <1>2, <1>3, <1>5, <1>6 DEF SamplesPut

LEMMA PutInObject ==
  ASSUME History, ShapeInv, kind # "recovery", NEW t \in Threads, PutObject(t)
  PROVE  /\ Moves(t) /\ call[t].at = "put" /\ kind \in ByPointer
         /\ UNCHANGED <<kind, unit, clock, past>>
         /\ call[t].ref \in Threads /\ store' = call[t].ref /\ store' # None
         /\ heap'[call[t].ref] = Changed(heap[call[t].ref], call[t].seen, call[t])
         /\ DOMAIN heap' = Threads
         /\ call'[t].at = "decide" /\ call'[t].ref = call[t].ref
<1>1. /\ call[t].at = "put" /\ kind \in ByPointer /\ UNCHANGED <<kind, unit, clock, past>>
      /\ heap' = [heap EXCEPT ![call[t].ref] = Changed(@, call[t].seen, call[t])]
      /\ store' = call[t].ref /\ call' = [call EXCEPT ![t].at = "decide"]
  BY DEF PutObject
<1>2. call[t].ref \in Threads /\ call[t].ref # None
  BY <1>1, NoneIsNoTime DEF ShapeInv
<1>3. heap'[call[t].ref] = Changed(heap[call[t].ref], call[t].seen, call[t]) /\ DOMAIN heap' = Threads
  BY <1>1, <1>2 DEF ShapeInv
<1>4. call'[t].at = "decide" /\ call'[t].ref = call[t].ref
  <2>1. DOMAIN call = Threads /\ CallShape(call[t])
    BY DEF History
  <2>2. call'[t] = [call[t] EXCEPT !.at = "decide"]
    BY <1>1, <2>1
  <2> QED BY <2>1, <2>2, UpdatedAt DEF Steps
<1>5. Moves(t)
  BY StepMoves
<1> QED BY <1>1, <1>2, <1>3, <1>4, <1>5

LEMMA PutPointer ==
  ASSUME History, ShapeInv, kind \in Windowed, NEW t \in Threads, PutObject(t)
  PROVE  SamplesPut(t)
<1>1. kind # "recovery"
  BY DEF Windowed
<1> DEFINE ref == call[t].ref
<1>2. /\ Moves(t) /\ call[t].at = "put" /\ kind \in ByPointer
      /\ UNCHANGED <<kind, unit, clock, past>>
      /\ store' = ref /\ store' # None
      /\ heap'[ref] = Changed(heap[ref], call[t].seen, call[t])
      /\ call'[t].at = "decide" /\ call'[t].ref = ref
  BY <1>1, PutInObject
<1>3. Samples' = IF kind = "demand" THEN heap'[ref].samples ELSE heap'[ref]
  BY <1>2 DEF Samples
<1>4. Samples' = Sampled(SamplesSeen(t), call[t])
  BY <1>2, <1>3, SampledObject DEF Of, SamplesSeen
<1> QED BY <1>2, <1>4 DEF SamplesPut

LEMMA OverIsDone ==
  ASSUME History, NEW t \in Threads, NEW fired, Over(t, fired)
  PROVE  call'[t].at = "done" /\ Others(t)
<1>1. DOMAIN call = Threads /\ CallShape(call[t])
  BY DEF History
<1>2. PICK r, s : call[t] \in [at : Steps, ts : Times, v : 0 .. 2, ref : {r}, seen : {s}, fired : BOOLEAN]
  BY <1>1 DEF CallShape
<1>3. call'[t] = [call[t] EXCEPT !.at = "done", !.ref = None, !.seen = None, !.fired = fired]
      /\ Others(t)
  BY <1>1 DEF Over, Others
<1> QED BY <1>2, <1>3

LEMMA DecideSamples ==
  ASSUME History, NEW t \in Threads, Decide(t)
  PROVE  Moves(t) /\ Ended(t) /\ SamplesKept /\ heap' = heap /\ call[t].at = "decide"
<1>1. Moves(t) /\ call[t].at = "decide" /\ UNCHANGED <<kind, store, heap, clock>>
  BY StepMoves DEF Decide
<1>2. Ended(t)
  <2>1. call'[t].at = "done"
    BY OverIsDone DEF Decide
  <2> QED BY <1>1, <2>1 DEF Moves, Begun, GoesOn, UnderWay
<1>3. SamplesKept
  BY <1>1 DEF SamplesKept, Samples
<1> QED BY <1>1, <1>2, <1>3

LEMMA ShapeKept ==
  ASSUME History, ShapeInv, NEW t \in Threads,
         \/ \E v \in 0 .. 2 : Begin(t, v)
         \/ Get(t) \/ PutSince(t) \/ PutMatch(t) \/ PutFreeze(t)
         \/ PutSamples(t) \/ PutObject(t) \/ Decide(t)
  PROVE  ShapeInv'
<1>1. Moves(t) /\ kind' = kind /\ Others(t) /\ clock <= clock' /\ clock \in Nat /\ clock' \in Nat
  BY StepMoves, PastMoves, NoneIsNoTime DEF Moves, Times, History
<1>2. ASSUME DOMAIN heap' = Threads,
             store' # None => clock' > 0 /\ (kind \in ByPointer => store' \in Threads),
             call'[t].at \in {"put", "decide"} /\ kind \in ByPointer => call'[t].ref \in Threads,
             call'[t].at = "decide" => kind \in ByPointer
      PROVE  ShapeInv'
  BY <1>1, <1>2 DEF ShapeInv, Others
<1>3. CASE \E v \in 0 .. 2 : Begin(t, v)
  <2>1. PICK v \in 0 .. 2 : Begin(t, v)
    BY <1>3
  <2>2. /\ store' = store /\ heap' = heap
        /\ call'[t].at = (IF NeedsNoState(v) THEN "done"
                          ELSE IF kind = "duration" /\ v # 2 THEN "put" ELSE "get")
    BY <2>1, BeginMoves DEF Begun
  <2>3. call'[t].at \in {"done", "get"} \/ kind = "duration"
    BY <2>2
  <2>4. call'[t].at # "decide"
    BY <2>2
  <2> QED BY <1>1, <1>2, <2>2, <2>3, <2>4 DEF ShapeInv, ByPointer
<1>4. CASE Get(t)
  <2>1. GetSees(t) /\ call'[t].at = "put" /\ store' = store /\ clock' = clock
    BY <1>4, GetMoves
  <2>2. DOMAIN heap' = Threads /\ (kind \in ByPointer => call'[t].ref \in Threads)
    BY <2>1 DEF GetSees, ShapeInv
  <2> QED BY <1>2, <2>1, <2>2 DEF ShapeInv
<1>5. clock > 0 \/ ~UnderWay(t)
  BY <1>1 DEF History, Recorded
<1>6. CASE PutSince(t) \/ PutMatch(t) \/ PutFreeze(t) \/ PutSamples(t)
  <2>1. kind \notin ByPointer /\ heap' = heap /\ call[t].at = "put" /\ clock' = clock
    BY <1>6 DEF PutSince, PutMatch, PutFreeze, PutSamples, ByPointer, Waiting
  <2>2. call'[t].at = "done"
    BY <1>6, OverIsDone DEF PutSince, PutMatch, PutFreeze, PutSamples
  <2> QED BY <1>1, <1>2, <1>5, <2>1, <2>2 DEF ShapeInv, UnderWay
<1>7. CASE PutObject(t) /\ kind = "recovery"
  <2>1. /\ DOMAIN heap' = DOMAIN heap /\ store' = call[t].ref /\ call[t].at = "put" /\ clock' = clock
        /\ kind \in ByPointer
    BY <1>7 DEF PutObject
  <2>2. call'[t].at = "done"
    BY <1>7, OverIsDone DEF PutObject
  <2> QED BY <1>1, <1>2, <1>5, <2>1, <2>2 DEF ShapeInv, UnderWay
<1>8. CASE PutObject(t) /\ kind # "recovery"
  <2>1. /\ DOMAIN heap' = Threads /\ store' \in Threads /\ call'[t].at = "decide" /\ clock' = clock
        /\ kind \in ByPointer /\ call'[t].ref \in Threads /\ call[t].at = "put"
    BY <1>8, PutInObject
  <2> QED BY <1>1, <1>2, <1>5, <2>1 DEF UnderWay
<1>9. CASE Decide(t)
  <2>1. heap' = heap /\ store' = store /\ call'[t].at = "done" /\ clock' = clock
    BY <1>9, OverIsDone DEF Decide
  <2> QED BY <1>1, <1>2, <2>1 DEF ShapeInv
<1> QED BY <1>3, <1>4, <1>6, <1>7, <1>8, <1>9

-----------------------------------------------------------------------------
(* The samples that are stored. *)

\* Samples of calls that have noted them, one of each.
Sound(s) ==
  /\ s \in Seq(SampleRec)
  /\ \A k \in DOMAIN s : s[k].ts \in Entered /\ s[k] = Sample(past[s[k].ts])
  /\ \A j, k \in DOMAIN s : s[j].ts = s[k].ts => j = k

SoundInv ==
  kind \in Windowed =>
    Sound(Samples) /\ \A u \in Threads : call[u].at = "put" => Sound(SamplesSeen(u))

\* What a step of t is to the samples.
SampleStep(t) ==
  /\ Moves(t)
  /\ \/ /\ ~UnderWay(t) /\ SamplesKept /\ clock' = clock + 1
        /\ IF call'[t].at = "done" THEN kind = "frequency" /\ past'[clock'].v = 2
           ELSE call'[t].at = "get"
     \/ /\ GoesOn(t) /\ SamplesKept /\ SamplesSeen(t)' = Samples
        /\ call[t].at = "get" /\ call'[t].at = "put"
        /\ store # None /\ kind \in ByPointer => call'[t].ref = store
     \/ SamplesPut(t)
     \/ Ended(t) /\ SamplesKept /\ call[t].at = "decide"

LEMMA StepOfSamples ==
  ASSUME History, ShapeInv, SoundInv, kind \in Windowed, NEW t \in Threads,
         \/ \E v \in 0 .. 2 : Begin(t, v)
         \/ Get(t) \/ PutSince(t) \/ PutMatch(t) \/ PutFreeze(t)
         \/ PutSamples(t) \/ PutObject(t) \/ Decide(t)
  PROVE  SampleStep(t)
<1>1. CASE \E v \in 0 .. 2 : Begin(t, v)
  <2>1. PICK v \in 0 .. 2 : Begin(t, v)
    BY <1>1
  <2>2. /\ Moves(t) /\ Begun(t, v) /\ SamplesKept
        /\ IF NeedsNoState(v) THEN call'[t].at = "done" /\ kind = "frequency" /\ v = 2
           ELSE call'[t].at = "get"
    BY <2>1, BeginSamples
  <2> QED BY <2>2 DEF SampleStep, Begun
<1>2. CASE Get(t)
  BY <1>2, GetSamples DEF SampleStep
<1>3. CASE PutSamples(t)
  <2>1. call[t].at = "put"
    BY <1>3 DEF PutSamples
  <2>2. SamplesSeen(t) \in Seq(SampleRec)
    BY <2>1 DEF SoundInv, Sound
  <2>3. SamplesPut(t)
    BY <1>3, <2>2, PutValue
  <2>4. Moves(t)
    BY <2>3 DEF SamplesPut
  <2> QED BY <2>3, <2>4 DEF SampleStep
<1>4. CASE PutObject(t)
  <2>1. SamplesPut(t)
    BY <1>4, PutPointer
  <2>2. Moves(t)
    BY <2>1 DEF SamplesPut
  <2> QED BY <2>1, <2>2 DEF SampleStep
<1>5. CASE Decide(t)
  BY <1>5, DecideSamples DEF SampleStep
<1>6. kind \notin Waiting /\ kind \notin {"debounce", "freeze"}
  BY DEF Waiting, Windowed
<1> QED BY <1>1, <1>2, <1>3, <1>4, <1>5, <1>6 DEF PutSince, PutMatch, PutFreeze

LEMMA SoundStays ==
  ASSUME History, NEW t \in Threads, Moves(t), Entered \subseteq Entered', NEW s, Sound(s)
  PROVE  Sound(s)'
<1>1. \A i \in Entered : past'[i].ts = past[i].ts /\ past'[i].v = past[i].v
  BY PastMoves DEF Entered
<1> QED BY <1>1 DEF Sound, Sample

LEMMA AppendSound ==
  ASSUME History, NEW t \in Threads, Moves(t), call[t].at = "put", call'[t].at \notin {"get", "put"},
         NEW s, Sound(s), NEW all, all = Append(s, Sample(call[t]))
  PROVE  Sound(all)' /\ Len(all) = Len(s) + 1 /\ all[Len(all)] = Sample(call[t])
         /\ Len(all) \in Nat \ {0} /\ \A k \in 1 .. Len(s) : all[k] = s[k]
<1> DEFINE c == call[t]
<1>1. /\ Entered' = Entered \cup {c.ts} /\ c.ts \notin Entered /\ c.ts \in 1 .. clock
      /\ Entered \subseteq Entered'
  BY EnteredNow DEF ToWork
<1>2. Sample(c) \in SampleRec /\ Sample(c).ts = c.ts
  BY CallIs DEF Sample, SampleRec
<1>3. Sample(c) = Sample(past'[c.ts])
  <2>1. past[c.ts].v = c.v /\ past[c.ts].ts = c.ts
    BY <1>1 DEF History, Recorded, UnderWay
  <2>2. past'[c.ts].v = c.v /\ past'[c.ts].ts = c.ts
    BY <1>1, <2>1, PastMoves
  <2> QED BY <2>2 DEF Sample
<1>4. s \in Seq(SampleRec) /\ DOMAIN s = 1 .. Len(s) /\ Len(s) \in Nat
  BY DEF Sound
<1>5. Sound(s)'
  BY <1>1, SoundStays
<1> DEFINE x == Sample(c)
<1> HIDE DEF c
<1>6. x.ts = c.ts /\ x \in SampleRec /\ x = Sample(past'[x.ts]) /\ x.ts \in Entered' /\ x.ts \notin Entered
  BY <1>1, <1>2, <1>3
<1>7. all = Append(s, x)
  BY DEF c
<1> HIDE DEF x
<1>8. /\ all \in Seq(SampleRec) /\ DOMAIN all = 1 .. (Len(s) + 1) /\ Len(all) = Len(s) + 1
      /\ all[Len(s) + 1] = x /\ \A k \in 1 .. Len(s) : all[k] = s[k]
  BY <1>4, <1>6, <1>7
<1>9. \A k \in DOMAIN all : all[k].ts \in Entered' /\ all[k] = Sample(past'[all[k].ts])
  BY <1>4, <1>5, <1>6, <1>8 DEF Sound
<1>10. \A j, k \in DOMAIN all : all[j].ts = all[k].ts => j = k
  BY <1>4, <1>6, <1>8 DEF Sound
<1> QED BY <1>4, <1>8, <1>9, <1>10 DEF Sound, x, c

LEMMA ThinSound ==
  ASSUME NEW all, Sound(all)', NEW out \in Seq(SampleRec), NEW c, Thinned(out, all, c)
  PROVE  Sound(out)'
<1>1. PICK h \in [1 .. Len(out) -> 1 .. Len(all)] :
        /\ \A k \in 1 .. Len(out) : out[k] = all[h[k]]
        /\ \A j, k \in 1 .. Len(out) : j < k => h[j] < h[k]
  BY DEF Thinned
<1>2. DOMAIN out = 1 .. Len(out) /\ DOMAIN all = 1 .. Len(all) /\ Len(out) \in Nat /\ Len(all) \in Nat
  BY DEF Sound
<1>3. \A k \in DOMAIN out : h[k] \in DOMAIN all /\ out[k] = all[h[k]]
  BY <1>1, <1>2
<1>4. ASSUME NEW j \in DOMAIN out, NEW k \in DOMAIN out, h[j] = h[k] PROVE j = k
  <2>1. j \in Int /\ k \in Int /\ h[j] \in Int /\ h[k] \in Int
    BY <1>1, <1>2
  <2>2. ~(j < k) /\ ~(k < j)
    BY <1>1, <1>2, <1>4, <2>1
  <2> QED BY <2>1, <2>2
<1>5. \A j, k \in DOMAIN out : out[j].ts = out[k].ts => j = k
  BY <1>3, <1>4 DEF Sound
<1>6. \A k \in DOMAIN out : out[k].ts \in Entered' /\ out[k] = Sample(past'[out[k].ts])
  BY <1>3 DEF Sound
<1> QED BY <1>5, <1>6 DEF Sound

LEMMA SoundStep ==
  ASSUME History, SoundInv, kind \in Windowed, NEW t \in Threads, SampleStep(t)
  PROVE  SoundInv' /\ Entered \subseteq Entered'
<1>1. Moves(t) /\ kind' = kind /\ Others(t) /\ Sound(Samples)
  BY DEF SampleStep, Moves, SoundInv
<1>2. Entered \subseteq Entered'
  BY <1>1, EnteredGrows DEF SampleStep, SamplesPut, ToWork, UnderWay, Ended
<1>3. \A s : Sound(s) => Sound(s)'
  BY <1>1, <1>2, SoundStays
<1>4. \A u \in Threads \ {t} : call'[u].at = "put" => Sound(SamplesSeen(u))'
  <2> SUFFICES ASSUME NEW u \in Threads \ {t}, call'[u].at = "put" PROVE Sound(SamplesSeen(u))'
    OBVIOUS
  <2>1. PICK s : s = SamplesSeen(u)
    OBVIOUS
  <2>2. Sound(s)
    BY <1>1, <2>1 DEF SoundInv, Others
  <2>3. SamplesSeen(u)' = s
    BY <1>1, <2>1 DEF Others, SamplesSeen, Of
  <2>4. Sound(s)'
    BY <1>3, <2>2
  <2> QED BY <2>3, <2>4
<1>5. PICK s : s = Samples
  OBVIOUS
<1>6. CASE SamplesPut(t)
  <2>1. PICK b, c : b = SamplesSeen(t) /\ c = call[t]
    OBVIOUS
  <2>2. Sound(b) /\ b \in Seq(SampleRec) /\ call[t].at = "put"
    BY <1>6, <2>1 DEF SoundInv, SamplesPut, Sound
  <2>3. PICK all, out : all = Append(b, Sample(c)) /\ out = Sampled(b, c)
    OBVIOUS
  <2>4. Sound(all)'
    BY <1>1, <1>6, <2>1, <2>2, <2>3, AppendSound DEF SamplesPut
  <2>5. out \in Seq(SampleRec) /\ Thinned(out, all, c)
    BY <2>1, <2>2, <2>3, CallIs, SampledIs DEF History
  <2>6. Sound(out)' /\ Samples' = out
    BY <1>6, <2>1, <2>3, <2>4, <2>5, ThinSound DEF SamplesPut
  <2>7. Sound(Samples)'
    BY <2>6
  <2>8. call'[t].at # "put"
    BY <1>6 DEF SamplesPut
  <2> QED BY <1>1, <1>2, <1>4, <2>7, <2>8 DEF SoundInv
<1>7. CASE SamplesKept /\ (call'[t].at # "put" \/ SamplesSeen(t)' = Samples)
  <2>1. Sound(s)' /\ Samples' = s
    BY <1>1, <1>3, <1>5, <1>7 DEF SamplesKept
  <2>2. call'[t].at = "put" => SamplesSeen(t)' = s
    BY <1>5, <1>7
  <2>3. Sound(Samples)' /\ (call'[t].at = "put" => Sound(SamplesSeen(t))')
    BY <2>1, <2>2
  <2> QED BY <1>1, <1>2, <1>4, <2>3 DEF SoundInv
<1> QED BY <1>6, <1>7 DEF SampleStep, Ended

-----------------------------------------------------------------------------
(* The samples of the calls that ran alone. *)

InWindowAsRead(i) == ReadAs(clock - past[i].ts) < Ticks(Window)
                     \/ (kind # "detect" /\ ReadAs(clock - past[i].ts) = Ticks(Window))

Has(s, i) == \E k \in DOMAIN s : s[k] = Sample(past[i])

\* The sample is stored, and whoever is about to store has seen it.
KeptFor(i) ==
  /\ store # None /\ Has(Samples, i)
  /\ \A u \in Threads : /\ call[u].at = "put" => Has(SamplesSeen(u), i)
                        /\ call[u].at \in {"put", "decide"} /\ kind \in ByPointer => call[u].ref = store

KeptInv ==
  kind \in Windowed =>
    \A i \in 1 .. clock : Settled(i) /\ Sampling(i) /\ InWindowAsRead(i) => KeptFor(i)

LEMMA WindowBefore ==
  ASSUME History, NEW t \in Threads, Moves(t), NEW i \in 1 .. clock
  PROVE  /\ InWindowAsRead(i)' => InWindowAsRead(i)
         /\ Sampling(i)' => Sampling(i)
         /\ Sample(past'[i]) = Sample(past[i])
         /\ \A s : Has(s, i)' <=> Has(s, i)
<1>1. /\ clock \in Int /\ clock' \in Int /\ i \in Int /\ clock <= clock' /\ kind' = kind /\ unit' = unit
      /\ past'[i].ts = i /\ past[i].ts = i /\ past'[i].v = past[i].v /\ unit \in {"ms", "ns"}
  BY PastMoves, NoneIsNoTime DEF Times, History, Moves
<1>2. clock - i \in Int /\ clock' - i \in Int /\ clock - i <= clock' - i
  BY <1>1
<1>3. /\ ReadAs(clock - i) <= ReadAs(clock' - i) /\ ReadAs(clock - i) \in Int
      /\ ReadAs(clock' - i) \in Int /\ Ticks(Window) \in Int
  BY <1>1, <1>2, ReadAsGrows, ReadAsIsInt
<1>4. \A d : ReadAs(d)' = ReadAs(d)
  BY <1>1 DEF ReadAs
<1>5. PICK d : d = clock' - i
  OBVIOUS
<1>6. InWindowAsRead(i)' => InWindowAsRead(i)
  <2>1. InWindowAsRead(i)' => ReadAs(d) < Ticks(Window) \/ (kind # "detect" /\ ReadAs(d) = Ticks(Window))
    BY <1>1, <1>4, <1>5 DEF InWindowAsRead, Ticks
  <2>2. ReadAs(clock - i) <= ReadAs(d) /\ ReadAs(d) \in Int
    BY <1>3, <1>5
  <2> QED BY <1>1, <1>3, <2>1, <2>2 DEF InWindowAsRead
<1>7. Sample(past'[i]) = Sample(past[i])
  BY <1>1 DEF Sample
<1> QED BY <1>1, <1>6, <1>7 DEF Sampling, Has, Sample

LEMMA HasWhenThin ==
  ASSUME History, NEW i \in 1 .. clock, InWindowAsRead(i), NEW c, c.ts \in Int, c.ts <= clock,
         NEW all \in Seq(SampleRec), NEW out \in Seq(SampleRec), Thinned(out, all, c), Has(all, i)
  PROVE  Has(out, i)
<1>1. PICK j \in 1 .. Len(all) : all[j] = Sample(past[i])
  BY DEF Has
<1>2. all[j].ts = i /\ past[i].ts = i /\ clock \in Int /\ i \in Int /\ unit \in {"ms", "ns"}
  BY <1>1, NoneIsNoTime DEF Sample, History, Times
<1>3. c.ts - i \in Int /\ clock - i \in Int /\ c.ts - i <= clock - i
  BY <1>2
<1>4. /\ ReadAs(c.ts - i) <= ReadAs(clock - i) /\ ReadAs(c.ts - i) \in Int
      /\ ReadAs(clock - i) \in Int /\ Ticks(Window) \in Int
  <2>1. Ticks(Window) \in Int
    BY <1>2, ReadAsIsInt
  <2>2. PICK d, e : d = c.ts - i /\ e = clock - i
    OBVIOUS
  <2>3. d \in Int /\ e \in Int /\ d <= e
    BY <1>3, <2>2
  <2>4. ReadAs(d) <= ReadAs(e) /\ ReadAs(d) \in Int /\ ReadAs(e) \in Int
    BY <1>2, <2>3, ReadAsGrows
  <2> QED BY <2>1, <2>2, <2>4
<1>5. StaysIn(all[j], c)
  BY <1>2, <1>4 DEF InWindowAsRead, StaysIn
<1>6. PICK h \in [1 .. Len(out) -> 1 .. Len(all)] :
        /\ \A k \in 1 .. Len(out) : out[k] = all[h[k]]
        /\ \A m \in 1 .. Len(all) : StaysIn(all[m], c) => \E k \in 1 .. Len(out) : h[k] = m
  BY DEF Thinned
<1>7. PICK k \in 1 .. Len(out) : h[k] = j
  BY <1>1, <1>5, <1>6
<1>8. out[k] = Sample(past[i]) /\ k \in DOMAIN out
  BY <1>1, <1>6, <1>7
<1> QED BY <1>8 DEF Has

\* What a call puts has its own sample and those that it has seen.
LEMMA PutHas ==
  ASSUME History, SoundInv, kind \in Windowed, NEW t \in Threads, SamplesPut(t),
         NEW i \in 1 .. clock, InWindowAsRead(i), i = call[t].ts \/ Has(SamplesSeen(t), i)
  PROVE  Has(Samples, i)'
<1>1. PICK b, c : b = SamplesSeen(t) /\ c = call[t]
  OBVIOUS
<1>2. Moves(t) /\ Sound(b) /\ b \in Seq(SampleRec) /\ call[t].at = "put"
  BY <1>1 DEF SoundInv, SamplesPut, Sound
<1>3. PICK all, out : all = Append(b, Sample(c)) /\ out = Sampled(b, c)
  OBVIOUS
<1>4. /\ Sound(all)' /\ Len(all) = Len(b) + 1 /\ all[Len(all)] = Sample(c) /\ Len(all) \in Nat \ {0}
      /\ \A k \in 1 .. Len(b) : all[k] = b[k]
  <2>1. all = Append(b, Sample(call[t])) /\ call'[t].at \notin {"get", "put"}
    BY <1>1, <1>3 DEF SamplesPut
  <2>2. /\ Sound(all)' /\ Len(all) = Len(b) + 1 /\ all[Len(all)] = Sample(call[t])
        /\ Len(all) \in Nat \ {0} /\ \A k \in 1 .. Len(b) : all[k] = b[k]
    <3>1. Sound(all)'
      BY <1>2, <2>1, AppendSound
    <3>2. Len(all) = Len(b) + 1
      BY <1>2, <2>1, AppendSound
    <3>3. all[Len(all)] = Sample(call[t])
      BY <1>2, <2>1, AppendSound
    <3>4. Len(all) \in Nat \ {0} /\ \A k \in 1 .. Len(b) : all[k] = b[k]
      BY <1>2, <2>1, AppendSound
    <3> QED BY <3>1, <3>2, <3>3, <3>4
  <2> QED BY <1>1, <2>2
<1>5. out \in Seq(SampleRec) /\ Thinned(out, all, c) /\ Samples' = out
  BY <1>1, <1>2, <1>3, CallIs, SampledIs DEF History, SamplesPut
<1>6. all \in Seq(SampleRec) /\ DOMAIN all = 1 .. Len(all) /\ DOMAIN b = 1 .. Len(b) /\ Len(b) \in Nat
  BY <1>2, <1>4 DEF Sound
<1>7. /\ c.ts \in 1 .. clock /\ past[c.ts].v = c.v /\ past[c.ts].ts = c.ts /\ clock \in Int
      /\ c.ts \in Int /\ c.ts <= clock
  BY <1>1, <1>2, NoneIsNoTime DEF History, Recorded, UnderWay, Times
<1>8. Has(all, i)
  <2>1. CASE i = c.ts
    BY <1>4, <1>6, <1>7, <2>1 DEF Has, Sample
  <2>2. CASE Has(b, i)
    BY <1>4, <1>6, <2>2 DEF Has
  <2> QED BY <1>1, <2>1, <2>2
<1>9. Has(out, i)
  BY <1>5, <1>6, <1>7, <1>8, HasWhenThin
<1>10. Has(out, i)'
  BY <1>2, <1>9, WindowBefore
<1> QED BY <1>5, <1>10

LEMMA KeptThrough ==
  ASSUME History, SoundInv, kind \in Windowed, NEW t \in Threads, SampleStep(t),
         NEW i \in 1 .. clock, InWindowAsRead(i), KeptFor(i)
  PROVE  KeptFor(i)'
<1>1. /\ Moves(t) /\ kind' = kind /\ \A u \in Threads \ {t} : call'[u] = call[u]
      /\ \A s : Has(s, i)' <=> Has(s, i)
  BY WindowBefore DEF SampleStep, Moves, Others
<1>2. \A u \in Threads \ {t} : call'[u].at = "put" => Has(SamplesSeen(u), i)'
  <2> SUFFICES ASSUME NEW u \in Threads \ {t}, call'[u].at = "put" PROVE Has(SamplesSeen(u), i)'
    OBVIOUS
  <2>1. PICK s : s = SamplesSeen(u)
    OBVIOUS
  <2>2. Has(s, i) /\ SamplesSeen(u)' = s
    BY <1>1, <2>1 DEF KeptFor, SamplesSeen, Of
  <2>3. Has(s, i)'
    BY <1>1, <2>2
  <2> QED BY <2>2, <2>3
<1>3. CASE SamplesPut(t)
  <2>1. Has(Samples, i)' /\ store' # None /\ call'[t].at # "put"
    BY <1>3, PutHas DEF KeptFor, SamplesPut
  <2>2. kind \in ByPointer => store' = store /\ call'[t].ref = store
    BY <1>3 DEF SamplesPut, KeptFor
  <2>3. kind \notin ByPointer => call'[t].at = "done"
    BY <1>3 DEF SamplesPut, Ended
  <2>4. \A u \in Threads : call'[u].at \in {"put", "decide"} /\ kind \in ByPointer => call'[u].ref = store'
    BY <1>1, <2>2 DEF KeptFor
  <2> QED BY <1>1, <1>2, <2>1, <2>4 DEF KeptFor
<1>4. CASE SamplesKept /\ (call'[t].at \notin {"put", "decide"}
                            \/ (/\ call'[t].at = "put" /\ SamplesSeen(t)' = Samples
                                /\ store # None /\ kind \in ByPointer => call'[t].ref = store))
  <2>1. PICK s : s = Samples
    OBVIOUS
  <2>2. Has(s, i) /\ Samples' = s /\ store' = store /\ store # None
    BY <1>4, <2>1 DEF KeptFor, SamplesKept
  <2>3. Has(s, i)'
    BY <1>1, <2>2
  <2>4. Has(Samples, i)'
    BY <2>2, <2>3
  <2>5. call'[t].at = "put" => Has(SamplesSeen(t), i)'
    <3>1. call'[t].at = "put" => SamplesSeen(t)' = s
      BY <1>4, <2>1
    <3> QED BY <2>3, <3>1
  <2>6. \A u \in Threads : call'[u].at \in {"put", "decide"} /\ kind \in ByPointer => call'[u].ref = store'
    BY <1>1, <1>4, <2>2 DEF KeptFor
  <2> QED BY <1>1, <1>2, <2>2, <2>4, <2>5, <2>6 DEF KeptFor
<1> QED BY <1>3, <1>4 DEF SampleStep, Ended

\* A call that is over as it begins keeps no sample; no other is settled then.
LEMMA NewUnsettled ==
  ASSUME History, kind \in Windowed, NEW t \in Threads, SampleStep(t),
         NEW i \in 1 .. clock', i \notin 1 .. clock, Settled(i)', Sampling(i)'
  PROVE  FALSE
<1>m. Moves(t)
  BY DEF SampleStep
<1>1. Moves(t) /\ clock' = clock + 1 /\ i = clock' /\ kind' = kind /\ clock \in Int
  BY <1>m, AfterNew, NoneIsNoTime, SMTT(30) DEF Moves, History, Times
<1>2. /\ ~UnderWay(t)
      /\ IF call'[t].at = "done" THEN kind = "frequency" /\ past'[clock'].v = 2
         ELSE call'[t].at = "get" /\ past'[clock'].end = None
  BY <1>1 DEF SampleStep, SamplesPut, Moves, Begun, Ended, GoesOn
<1>3. call'[t].at = "get" /\ ~Returned(i)'
  BY <1>1, <1>2 DEF Sampling, Returned
<1>4. PICK u \in Threads : call'[u].at = "decide" /\ call'[u].ts = i
  BY <1>3 DEF Settled, Alone
<1>5. u # t
  BY <1>3, <1>4
<1>6. call[u].at = "decide" /\ call[u].ts = i
  BY <1>1, <1>4, <1>5 DEF Moves, Others
<1> QED BY <1>6 DEF History, Recorded, UnderWay

LEMMA KeptStep ==
  ASSUME History, SoundInv, KeptInv, kind \in Windowed, NEW t \in Threads, SampleStep(t)
  PROVE  KeptInv'
<1>1. Moves(t) /\ kind' = kind
  BY DEF SampleStep, Moves
<1> SUFFICES ASSUME NEW i \in 1 .. clock', Settled(i)', Sampling(i)', InWindowAsRead(i)' PROVE KeptFor(i)'
  BY DEF KeptInv
<1>2. i \in 1 .. clock
  BY NewUnsettled
<1>3. Sampling(i) /\ InWindowAsRead(i)
  BY <1>1, <1>2, WindowBefore
<1>4. CASE Settled(i)
  BY <1>2, <1>3, <1>4, KeptThrough DEF KeptInv
<1>5. CASE ~Settled(i)
  <2>1. UnderWay(t) /\ i = call[t].ts
    BY <1>1, <1>2, <1>5, SettledBefore
  <2>2. call'[t].at # "put" /\ SoFarAlone(i) /\ \A u \in Threads : UnderWay(u) => u = t
    BY <1>1, <2>1, SettledOwn
  <2>3. SamplesPut(t)
    BY <1>2, <1>5, <2>1, <2>2 DEF SampleStep, Settled
  <2>4. Has(Samples, i)' /\ store' # None
    BY <1>2, <1>3, <2>1, <2>3, PutHas DEF SamplesPut
  <2>5. \A u \in Threads \ {t} : call'[u].at = "done"
    BY <1>1, <2>2 DEF Moves, Others, UnderWay
  <2>6. kind \in ByPointer => call'[t].ref = store'
    BY <2>3 DEF SamplesPut
  <2>7. kind \notin ByPointer => call'[t].at = "done"
    BY <2>3 DEF SamplesPut, Ended
  <2> QED BY <1>1, <2>2, <2>4, <2>5, <2>6, <2>7 DEF KeptFor
<1> QED BY <1>4, <1>5

-----------------------------------------------------------------------------
(* The samples of calls that did not overlap are in order. *)

Fits(s) == \A k \in DOMAIN s : ReadAs(s[Len(s)].ts - s[k].ts) <= Ticks(Window)

OrderInv ==
  kind \in Windowed /\ InTurn =>
    Sorted(Samples) /\ Fits(Samples) /\ \A u \in Threads : call[u].at = "put" => Sorted(SamplesSeen(u))

\* The sample of the last call comes after the others.
LEMMA AppendSorted ==
  ASSUME History, InTurn, NEW t \in Threads, Moves(t), call[t].at = "put",
         call'[t].at \notin {"get", "put"},
         NEW s, Sound(s), Sorted(s), NEW all, all = Append(s, Sample(call[t]))
  PROVE  Sorted(all)
<1>1. /\ call[t].ts = clock /\ clock \in Int /\ call[t].ts \notin Entered
      /\ \A i \in Entered : i \in 1 .. clock
  BY InTurnUnderWay, EnteredNow, NoneIsNoTime DEF History, Times, ToWork, UnderWay, Entered
<1>2. /\ s \in Seq(SampleRec) /\ DOMAIN s = 1 .. Len(s) /\ Len(s) \in Nat
      /\ \A k \in 1 .. Len(s) : s[k].ts \in Entered
  BY DEF Sound
<1>3. \A k \in 1 .. Len(s) : s[k].ts \in Int /\ s[k].ts < clock
  <2> SUFFICES ASSUME NEW k \in 1 .. Len(s) PROVE s[k].ts \in Int /\ s[k].ts < clock
    OBVIOUS
  <2>1. PICK n : n = s[k].ts
    OBVIOUS
  <2>2. n \in 1 .. clock /\ n # clock
    BY <1>1, <1>2, <2>1
  <2> QED BY <1>1, <2>1, <2>2
<1>4. PICK x : x = Sample(call[t])
  OBVIOUS
<1>5. x \in SampleRec /\ x.ts = clock
  BY <1>1, <1>4, CallIs DEF Sample, SampleRec
<1>6. /\ all \in Seq(SampleRec) /\ DOMAIN all = 1 .. (Len(s) + 1) /\ all[Len(s) + 1] = x
      /\ \A k \in 1 .. Len(s) : all[k] = s[k]
  BY <1>2, <1>4, <1>5
<1> SUFFICES ASSUME NEW j \in DOMAIN all, NEW k \in DOMAIN all, j < k PROVE all[j].ts < all[k].ts
  BY DEF Sorted
<1>7. j \in 1 .. Len(s) /\ (k \in 1 .. Len(s) \/ k = Len(s) + 1)
  BY <1>2, <1>6
<1>8. CASE k \in 1 .. Len(s)
  BY <1>2, <1>6, <1>7, <1>8 DEF Sorted
<1>9. CASE k = Len(s) + 1
  BY <1>3, <1>5, <1>6, <1>7, <1>9
<1> QED BY <1>7, <1>8, <1>9

LEMMA ThinSorted ==
  ASSUME NEW all \in Seq(SampleRec), Sorted(all), NEW out \in Seq(SampleRec), NEW c, Thinned(out, all, c)
  PROVE  Sorted(out)
<1>1. PICK h \in [1 .. Len(out) -> 1 .. Len(all)] :
        /\ \A k \in 1 .. Len(out) : out[k] = all[h[k]]
        /\ \A j, k \in 1 .. Len(out) : j < k => h[j] < h[k]
  BY DEF Thinned
<1>2. DOMAIN out = 1 .. Len(out) /\ DOMAIN all = 1 .. Len(all)
  OBVIOUS
<1>3. \A k \in DOMAIN out : h[k] \in DOMAIN all /\ out[k] = all[h[k]]
  BY <1>1, <1>2
<1> QED BY <1>1, <1>2, <1>3 DEF Sorted

LEMMA ThinFits ==
  ASSUME unit \in {"ms", "ns"}, NEW all \in Seq(SampleRec), NEW out \in Seq(SampleRec), NEW c,
         c.ts \in Nat, Thinned(out, all, c), \A k \in 1 .. Len(all) : all[k].ts <= c.ts,
         \A k \in 1 .. Len(out) : StaysIn(out[k], c)
  PROVE  Fits(out)
<1> SUFFICES ASSUME NEW k \in DOMAIN out
             PROVE  ReadAs(out[Len(out)].ts - out[k].ts) <= Ticks(Window)
  BY DEF Fits
<1>1. /\ k \in 1 .. Len(out) /\ Len(out) \in 1 .. Len(out)
      /\ out[k] \in SampleRec /\ out[Len(out)] \in SampleRec
  OBVIOUS
<1>2. PICK m, n : m = out[Len(out)].ts /\ n = out[k].ts
  OBVIOUS
<1>3. m \in Nat /\ n \in Nat
  BY <1>1, <1>2 DEF SampleRec
<1>4. m <= c.ts
  <2>1. PICK h \in [1 .. Len(out) -> 1 .. Len(all)] : \A i \in 1 .. Len(out) : out[i] = all[h[i]]
    BY DEF Thinned
  <2>2. out[Len(out)] = all[h[Len(out)]] /\ h[Len(out)] \in 1 .. Len(all)
    BY <1>1, <2>1
  <2> QED BY <1>2, <2>2
<1>5. PICK d, e : d = m - n /\ e = c.ts - n
  OBVIOUS
<1>6. d \in Int /\ e \in Int /\ d <= e
  BY <1>3, <1>4, <1>5
<1>7. ReadAs(d) \in Int /\ ReadAs(e) \in Int /\ ReadAs(d) <= ReadAs(e) /\ Ticks(Window) \in Int
  <2>1. ReadAs(d) \in Int /\ ReadAs(e) \in Int /\ ReadAs(d) <= ReadAs(e)
    BY <1>6, ReadAsGrows
  <2> QED BY <2>1, ReadAsIsInt
<1>8. ReadAs(e) <= Ticks(Window)
  BY <1>1, <1>2, <1>5, <1>7 DEF StaysIn
<1> QED BY <1>2, <1>5, <1>7, <1>8

LEMMA PutOrder ==
  ASSUME History, SoundInv, OrderInv, InTurn, kind \in Windowed, NEW t \in Threads, SamplesPut(t)
  PROVE  Sorted(Samples') /\ Fits(Samples')
<1>1. PICK b, c : b = SamplesSeen(t) /\ c = call[t]
  OBVIOUS
<1>2. Moves(t) /\ Sound(b) /\ b \in Seq(SampleRec) /\ call[t].at = "put" /\ Sorted(b)
  BY <1>1 DEF SoundInv, SamplesPut, Sound, OrderInv
<1>3. PICK all, out : all = Append(b, Sample(c)) /\ out = Sampled(b, c)
  OBVIOUS
<1>4. all = Append(b, Sample(call[t])) /\ call'[t].at \notin {"get", "put"}
  BY <1>1, <1>3 DEF SamplesPut
<1>5. Sound(all)'
  BY <1>2, <1>4, AppendSound
<1>6. Sorted(all)
  BY <1>2, <1>4, AppendSorted
<1>7. /\ out \in Seq(SampleRec) /\ Thinned(out, all, c) /\ Samples' = out
      /\ \A k \in 1 .. Len(out) : StaysIn(out[k], c)
  BY <1>1, <1>2, <1>3, <1>6, CallIs, SampledIs DEF History, SamplesPut
<1>8. all \in Seq(SampleRec) /\ \A k \in 1 .. Len(all) : all[k].ts \in Entered'
  BY <1>5 DEF Sound
<1>9. c.ts = clock /\ clock' = clock /\ unit \in {"ms", "ns"} /\ c.ts \in Nat /\ clock \in Int
  BY <1>1, <1>2, InTurnUnderWay, CallIs, NoneIsNoTime DEF UnderWay, SamplesPut, History, Times
<1>10. \A k \in 1 .. Len(all) : all[k].ts <= c.ts
  <2>1. \A i \in Entered' : i <= c.ts
    BY <1>9 DEF Entered
  <2> QED BY <1>8, <2>1
<1>11. Sorted(out) /\ Fits(out)
  BY <1>6, <1>7, <1>8, <1>9, <1>10, ThinSorted, ThinFits
<1> QED BY <1>7, <1>11

LEMMA OrderStep ==
  ASSUME History, SoundInv, OrderInv, kind \in Windowed, NEW t \in Threads, SampleStep(t)
  PROVE  OrderInv'
<1>1. /\ Moves(t) /\ kind' = kind /\ unit' = unit /\ \A u \in Threads \ {t} : call'[u] = call[u]
  BY DEF SampleStep, Moves, Others
<1> SUFFICES ASSUME InTurn'
             PROVE  (Sorted(Samples) /\ Fits(Samples)
                     /\ \A u \in Threads : call[u].at = "put" => Sorted(SamplesSeen(u)))'
  BY <1>1 DEF OrderInv
<1>2. InTurn
  BY <1>1, InTurnBefore
<1>3. Sorted(Samples) /\ Fits(Samples) /\ \A u \in Threads : call[u].at = "put" => Sorted(SamplesSeen(u))
  BY <1>2 DEF OrderInv
<1>4. \A u \in Threads \ {t} : call'[u].at = "put" => Sorted(SamplesSeen(u)')
  <2> SUFFICES ASSUME NEW u \in Threads \ {t}, call'[u].at = "put" PROVE Sorted(SamplesSeen(u)')
    OBVIOUS
  <2>1. SamplesSeen(u)' = SamplesSeen(u)
    BY <1>1 DEF SamplesSeen, Of
  <2> QED BY <1>1, <1>3, <2>1
<1>5. \A s : (Sorted(s)' <=> Sorted(s)) /\ (Fits(s)' <=> Fits(s))
  BY <1>1 DEF Sorted, Fits, ReadAs, Ticks
<1>6. CASE SamplesPut(t)
  <2>1. PICK s : s = Samples'
    OBVIOUS
  <2>2. Sorted(s) /\ Fits(s) /\ call'[t].at # "put"
    BY <1>2, <1>6, <2>1, PutOrder DEF SamplesPut
  <2>3. (Sorted(Samples) /\ Fits(Samples))'
    BY <1>5, <2>1, <2>2
  <2> QED BY <1>4, <2>2, <2>3
<1>7. CASE SamplesKept /\ (call'[t].at # "put" \/ SamplesSeen(t)' = Samples)
  <2>1. PICK s : s = Samples
    OBVIOUS
  <2>2. Sorted(s) /\ Fits(s) /\ Samples' = s
    BY <1>3, <1>7, <2>1 DEF SamplesKept
  <2>3. (Sorted(Samples) /\ Fits(Samples))'
    BY <1>5, <2>2
  <2>4. call'[t].at = "put" => Sorted(SamplesSeen(t)')
    BY <1>7, <2>1, <2>2
  <2> QED BY <1>4, <2>3, <2>4
<1> QED BY <1>6, <1>7 DEF SampleStep, Ended

-----------------------------------------------------------------------------
(* The nodes that count in an object. *)

\* What a step of t is to the object.
ObjectStep(t) ==
  /\ Moves(t) /\ kind \in ByPointer
  /\ \/ ~UnderWay(t) /\ UNCHANGED <<store, heap>> /\ call'[t].at = "get" /\ Entered' = Entered
     \/ /\ UnderWay(t) /\ GetSees(t) /\ UNCHANGED <<clock, store, past>>
        /\ call[t].at = "get" /\ call'[t].at = "put" /\ Entered' = Entered
     \/ /\ call[t].at = "put" /\ call'[t].at = "decide" /\ UNCHANGED <<clock, past>>
        /\ call[t].ref \in Threads /\ store' = call[t].ref /\ store' # None
        /\ call'[t].ref = store'
        /\ heap'[store'] = Changed(heap[store'], call[t].seen, call[t])
        /\ Entered' = Entered \cup {call[t].ts} /\ call[t].ts \notin Entered
     \/ /\ Decide(t) /\ UNCHANGED <<store, heap>> /\ call'[t].at = "done" /\ Entered' = Entered

LEMMA StepOfObject ==
  ASSUME History, ShapeInv, kind \in {"demand", "tracker", "periodic"}, NEW t \in Threads,
         \/ \E v \in 0 .. 2 : Begin(t, v)
         \/ Get(t) \/ PutSince(t) \/ PutMatch(t) \/ PutFreeze(t)
         \/ PutSamples(t) \/ PutObject(t) \/ Decide(t)
  PROVE  ObjectStep(t)
<1>1. Moves(t) /\ kind \in ByPointer /\ kind \notin Waiting /\ kind # "debounce" /\ kind # "freeze"
      /\ kind # "duration" /\ kind # "recovery" /\ \A v : ~NeedsNoState(v)
  BY StepMoves DEF ByPointer, Waiting, NeedsNoState
<1>2. CASE \E v \in 0 .. 2 : Begin(t, v)
  <2>1. PICK v \in 0 .. 2 : Begin(t, v)
    BY <1>2
  <2>2. call'[t].at = "get" /\ Begun(t, v)
    BY <1>1, <2>1, BeginMoves
  <2>3. ~UnderWay(t) /\ UNCHANGED <<store, heap>>
    BY <2>2 DEF Begun
  <2>4. Entered' = Entered
    BY <1>1, <2>2, <2>3, EnteredSame DEF ToWork
  <2> QED BY <1>1, <2>2, <2>3, <2>4 DEF ObjectStep
<1>3. CASE Get(t)
  <2>1. /\ GetSees(t) /\ call[t].at = "get" /\ call'[t].at = "put" /\ UnderWay(t)
        /\ UNCHANGED <<clock, store, past>>
    BY <1>3, GetMoves
  <2>2. Entered' = Entered
    BY <1>1, <2>1, EnteredSame DEF ToWork
  <2> QED BY <1>1, <2>1, <2>2 DEF ObjectStep
<1>4. CASE PutObject(t)
  <2>1. /\ call[t].at = "put" /\ UNCHANGED <<kind, unit, clock, past>>
        /\ call[t].ref \in Threads /\ store' = call[t].ref /\ store' # None
        /\ heap'[call[t].ref] = Changed(heap[call[t].ref], call[t].seen, call[t])
        /\ call'[t].at = "decide" /\ call'[t].ref = call[t].ref
    BY <1>1, <1>4, PutInObject
  <2>2. Entered' = Entered \cup {call[t].ts} /\ call[t].ts \notin Entered
    BY <1>1, <2>1, EnteredNow DEF ToWork
  <2> QED BY <1>1, <2>1, <2>2 DEF ObjectStep
<1>5. CASE Decide(t)
  <2>1. UNCHANGED <<store, heap>> /\ call[t].at = "decide" /\ call'[t].at = "done"
    BY <1>5, OverIsDone DEF Decide
  <2>2. Entered' = Entered
    BY <1>1, <2>1, EnteredSame DEF ToWork, UnderWay
  <2> QED BY <1>1, <1>5, <2>1, <2>2 DEF ObjectStep
<1>6. CASE PutSince(t) \/ PutMatch(t) \/ PutFreeze(t) \/ PutSamples(t)
  BY <1>1, <1>6 DEF PutSince, PutMatch, PutFreeze, PutSamples
<1> QED BY <1>2, <1>3, <1>4, <1>5, <1>6

\* Where calls do not overlap, one at a time is on its way.
LEMMA OneUnderWay ==
  ASSUME History, NEW t \in Threads, Moves(t), InTurn'
  PROVE  /\ InTurn
         /\ \A u \in Threads \ {t} : call'[u] = call[u] /\ ~UnderWay(u)
         /\ UnderWay(t) => call[t].ts = clock
<1>1. InTurn /\ (clock' # clock => \A u \in Threads : ~UnderWay(u))
  BY InTurnBefore
<1>2. clock \in Int
  BY NoneIsNoTime DEF History, Times
<1>3. ~UnderWay(t) => clock' # clock
  BY <1>2 DEF Moves, Begun, Ended, GoesOn
<1>4. \A u \in Threads \ {t} : ~UnderWay(u)
  BY <1>1, <1>3, InTurnUnderWay
<1> QED BY <1>1, <1>4, InTurnUnderWay DEF Moves, Others

-----------------------------------------------------------------------------
(* The greatest value. *)

\* The greatest of the values noted, and 0 where there are none.
Peaks(p) == /\ p \in 0 .. 2 /\ \A i \in Entered : past[i].v <= p
            /\ p = 0 \/ \E i \in Entered : past[i].v = p

PeakInv ==
  kind = "demand" /\ InTurn =>
    /\ store = None => Entered = {}
    /\ store # None => Peaks(heap[store].peak)
    /\ \A u \in Threads : call[u].at = "put" => Peaks(call[u].seen.peak)

LEMMA MaxOf ==
  ASSUME NEW S, S \subseteq Nat, NEW m \in S, \A x \in S : x <= m
  PROVE  Max(S) = m
<1>1. \A x \in S : x \in Nat
  OBVIOUS
<1>2. Max(S) = CHOOSE x \in S : \A y \in S : x >= y
  BY DEF Max
<1>3. \E x \in S : \A y \in S : x >= y
  BY <1>1
<1>4. Max(S) \in S /\ \A y \in S : Max(S) >= y
  BY <1>2, <1>3
<1>5. Max(S) >= m /\ Max(S) <= m /\ Max(S) \in Nat
  BY <1>1, <1>4
<1> QED BY <1>5

LEMMA MaxThere ==
  ASSUME NEW S, S \subseteq 0 .. 2, S # {}
  PROVE  Max(S) \in S /\ \A x \in S : x <= Max(S)
<1>1. PICK m \in S : \A x \in S : x <= m
  <2>1. CASE 2 \in S
    BY <2>1
  <2>2. CASE 2 \notin S /\ 1 \in S
    BY <2>2
  <2>3. CASE 2 \notin S /\ 1 \notin S
    <3>1. \A x \in S : x = 0
      BY <2>3
    <3>2. 0 \in S
      BY <3>1
    <3> QED BY <3>1, <3>2
  <2> QED BY <2>1, <2>2, <2>3
<1>2. S \subseteq Nat
  OBVIOUS
<1>3. Max(S) = m
  BY <1>1, <1>2, MaxOf
<1> QED BY <1>1, <1>3

LEMMA PeaksStay ==
  ASSUME History, NEW t \in Threads, Moves(t), Entered' = Entered, NEW p, Peaks(p)
  PROVE  Peaks(p)'
<1>1. \A i \in Entered : past'[i].v = past[i].v
  BY PastMoves DEF Entered
<1> QED BY <1>1 DEF Peaks

\* The greatest value that was seen, or that is in the window now.
LEMMA PeakPut ==
  ASSUME History, ShapeInv, SoundInv, PeakInv, kind = "demand", InTurn, NEW t \in Threads,
         SampleStep(t), SamplesPut(t), Entered' = Entered \cup {call[t].ts},
         NEW object, object = Demand(call[t].seen, call[t])
  PROVE  Peaks(object.peak)'
<1>1. PICK p, out, own : p = call[t].seen.peak /\ out = Samples' /\ own = call[t].ts
  OBVIOUS
<1>2. /\ Moves(t) /\ call[t].at = "put" /\ out = Sampled(call[t].seen.samples, call[t])
      /\ kind \in Windowed
  BY <1>1 DEF SamplesPut, SamplesSeen, Of, Windowed
<1>3. /\ p \in 0 .. 2 /\ \A i \in Entered : past[i].v <= p
      /\ p = 0 \/ \E i \in Entered : past[i].v = p
  BY <1>1, <1>2 DEF PeakInv, Peaks
<1>4. /\ own \in 1 .. clock /\ own = clock /\ past[own].ts = own /\ clock \in Int
      /\ unit \in {"ms", "ns"} /\ past \in Seq(PastCalls) /\ Len(past) = clock
  BY <1>1, <1>2, InTurnUnderWay, NoneIsNoTime DEF History, Recorded, UnderWay, Times
<1>5. InWindowAsRead(own)
  <2>1. PICK d : d = clock - past[own].ts
    OBVIOUS
  <2>2. d = 0
    BY <1>4, <2>1
  <2>3. ReadAs(d) = 0 /\ Ticks(Window) \in Nat
    BY <1>4, <2>2, ReadAsIsInt
  <2> QED BY <2>1, <2>3 DEF InWindowAsRead
<1>6. Has(out, own)'
  <2>1. Has(Samples, own)'
    BY <1>1, <1>2, <1>4, <1>5, PutHas
  <2> QED BY <1>1, <2>1 DEF Has
<1>7. Sound(out)'
  <2>1. SoundInv' /\ kind' = kind
    BY <1>2, SoundStep DEF SampleStep, Moves
  <2>2. Sound(Samples)'
    BY <1>2, <2>1 DEF SoundInv
  <2> QED BY <1>1, <2>2 DEF Sound
<1>8. \A i \in 1 .. clock : past'[i].v = past[i].v /\ past'[i].v \in 0 .. 2 /\ past[i].v \in 0 .. 2
  <2>1. \A i \in 1 .. clock : past'[i].v = past[i].v
    BY <1>2, PastMoves
  <2>2. \A i \in 1 .. clock : past[i] \in PastCalls
    BY <1>4
  <2> QED BY <2>1, <2>2 DEF PastCalls
<1>9. \A i \in Entered' : i \in 1 .. clock
  BY <1>1, <1>4 DEF Entered
<1>10. PICK S : S = {p} \cup {out[k].v : k \in DOMAIN out}
  OBVIOUS
<1>11. \A k \in DOMAIN out : out[k].ts \in Entered' /\ out[k].v = past'[out[k].ts].v
  BY <1>7 DEF Sound, Sample
<1>12. S \subseteq 0 .. 2 /\ S # {}
  BY <1>3, <1>8, <1>9, <1>10, <1>11
<1>13. object.peak = Max(S)
  BY <1>1, <1>2, <1>10 DEF Demand
<1>14. PICK m : m = Max(S)
  OBVIOUS
<1>15. m \in S /\ (\A x \in S : x <= m) /\ m \in 0 .. 2 /\ p <= m
  BY <1>10, <1>12, <1>14, MaxThere
<1>16. past'[own].v \in S
  <2>1. PICK k \in DOMAIN out : out[k] = Sample(past'[own])
    BY <1>6 DEF Has, Sample
  <2>2. out[k].v = past'[own].v
    BY <2>1 DEF Sample
  <2> QED BY <1>10, <2>1, <2>2
<1>17. \A i \in Entered' : past'[i].v <= m
  <2> SUFFICES ASSUME NEW i \in Entered' PROVE past'[i].v <= m
    OBVIOUS
  <2>1. CASE i = own
    BY <1>15, <1>16, <2>1
  <2>2. CASE i \in Entered
    <3>1. past[i].v <= p /\ past'[i].v = past[i].v /\ past[i].v \in 0 .. 2
      BY <1>3, <1>8, <1>9, <2>2
    <3> QED BY <1>3, <1>15, <3>1
  <2> QED BY <1>1, <2>1, <2>2
<1>18. m = 0 \/ \E i \in Entered' : past'[i].v = m
  <2>1. CASE m = p
    BY <1>3, <1>8, <1>9, <2>1
  <2>2. CASE m # p
    <3>1. PICK k \in DOMAIN out : m = out[k].v
      BY <1>10, <1>15, <2>2
    <3> QED BY <1>11, <3>1
  <2> QED BY <2>1, <2>2
<1>19. Peaks(m)'
  BY <1>15, <1>17, <1>18 DEF Peaks
<1> QED BY <1>13, <1>14, <1>19

LEMMA PeakStep ==
  ASSUME History, ShapeInv, SoundInv, PeakInv, kind = "demand", NEW t \in Threads,
         SampleStep(t), ObjectStep(t)
  PROVE  PeakInv'
<1>1. Moves(t) /\ kind' = kind
  BY DEF SampleStep, Moves
<1> SUFFICES ASSUME InTurn'
             PROVE  (/\ store = None => Entered = {}
                     /\ store # None => Peaks(heap[store].peak)
                     /\ \A u \in Threads : call[u].at = "put" => Peaks(call[u].seen.peak))'
  BY <1>1 DEF PeakInv
<1>2. InTurn /\ \A u \in Threads \ {t} : call'[u].at # "put"
  BY <1>1, OneUnderWay DEF UnderWay
<1>3. /\ store = None => Entered = {}
      /\ store # None => Peaks(heap[store].peak)
  BY <1>2 DEF PeakInv
<1>4. CASE UNCHANGED <<store, heap>> /\ call'[t].at # "put" /\ Entered' = Entered
  <2>1. PICK p : p = heap[store].peak
    OBVIOUS
  <2>2. store # None => Peaks(p)'
    BY <1>1, <1>3, <1>4, <2>1, PeaksStay
  <2>3. (store # None => Peaks(heap[store].peak))'
    BY <1>4, <2>1, <2>2
  <2> QED BY <1>2, <1>3, <1>4, <2>3
<1>5. CASE GetSees(t) /\ store' = store /\ Entered' = Entered
  <2>1. PICK p, q : p = call'[t].seen.peak /\ q = heap[store].peak
    OBVIOUS
  <2>2. CASE store = None
    <3>1. heap' = [heap EXCEPT ![t] = Fresh] /\ call'[t].seen = heap'[t]
      BY <1>5, <2>2 DEF GetSees, ByPointer
    <3>2. p = 0
      BY <2>1, <3>1 DEF ShapeInv, Fresh
    <3>3. Peaks(p)'
      BY <1>3, <1>5, <2>2, <3>2 DEF Peaks
    <3>4. Peaks(call[t].seen.peak)'
      BY <2>1, <3>3
    <3> QED BY <1>2, <1>3, <1>5, <2>2, <3>4
  <2>3. CASE store # None
    <3>1. heap' = heap /\ call'[t].seen = heap[store]
      BY <1>5, <2>3 DEF GetSees, ByPointer
    <3>2. Peaks(q)' /\ q = p
      BY <1>1, <1>3, <1>5, <2>1, <2>3, <3>1, PeaksStay
    <3>3. Peaks(call[t].seen.peak)'
      BY <2>1, <3>2
    <3>4. Peaks(heap[store].peak)'
      BY <1>5, <2>1, <3>1, <3>2
    <3> QED BY <1>2, <1>5, <2>3, <3>3, <3>4
  <2> QED BY <2>2, <2>3
<1>6. CASE /\ call[t].at = "put" /\ call'[t].at = "decide" /\ store' # None
           /\ heap'[store'] = Changed(heap[store'], call[t].seen, call[t])
           /\ Entered' = Entered \cup {call[t].ts}
  <2>1. SamplesPut(t)
    BY <1>6 DEF SampleStep, Ended, UnderWay
  <2>2. PICK object : object = heap'[store']
    OBVIOUS
  <2>3. object = Demand(call[t].seen, call[t])
    BY <1>6, <2>2 DEF Changed
  <2>4. Peaks(object.peak)'
    BY <1>2, <1>6, <2>1, <2>3, PeakPut
  <2>5. Peaks(heap[store].peak)'
    BY <2>2, <2>4
  <2> QED BY <1>2, <1>6, <2>5
<1> QED BY <1>4, <1>5, <1>6 DEF ObjectStep

-----------------------------------------------------------------------------
(* The excursions. *)

\* The calls that found the value outside of the limits: first, and still.
Outside == {i \in Entered : past[i].v = 2}
Excursions == {i \in Outside : i - 1 \notin Outside}
Stayed == {i \in Outside : i - 1 \in Outside}

Tracks(o) ==
  /\ o \in [n : Nat, lasted : Nat, last : Nat, out : BOOLEAN]
  /\ o.n = Cardinality(Excursions) /\ o.lasted = Cardinality(Stayed)
  /\ o.out <=> \E i \in Outside : i + 1 \notin Entered
  /\ o.out => o.last \in Entered /\ o.last + 1 \notin Entered

TrackInv ==
  kind = "tracker" /\ InTurn =>
    /\ store = None => Entered = {}
    /\ store # None => Tracks(heap[store])
    /\ \A u \in Threads : call[u].at = "put" =>
         Tracks(call[u].seen) /\ heap[call[u].ref] = call[u].seen

LEMMA OutsideStays ==
  ASSUME History, NEW t \in Threads, Moves(t), Entered' = Entered
  PROVE  Outside' = Outside /\ Excursions' = Excursions /\ Stayed' = Stayed /\ \A o : Tracks(o)' <=> Tracks(o)
<1>1. \A i \in Entered : past'[i].v = past[i].v
  BY PastMoves DEF Entered
<1>2. Outside' = Outside
  BY <1>1 DEF Outside
<1>3. Excursions' = Excursions /\ Stayed' = Stayed
  BY <1>2 DEF Excursions, Stayed
<1> QED BY <1>2, <1>3 DEF Tracks

LEMMA OutsideFinite ==
  ASSUME History
  PROVE  /\ IsFiniteSet(Excursions) /\ IsFiniteSet(Stayed)
         /\ Cardinality(Excursions) \in Nat /\ Cardinality(Stayed) \in Nat
         /\ \A i \in Entered : i \in 1 .. clock
<1>1. IsFiniteSet(1 .. clock)
  <2>1. \A n \in Int : IsFiniteSet(1 .. n)
    BY FS_Interval
  <2> QED BY <2>1, NoneIsNoTime DEF History, Times
<1>2. Excursions \subseteq 1 .. clock /\ Stayed \subseteq 1 .. clock
  BY DEF Excursions, Stayed, Outside, Entered
<1>3. IsFiniteSet(Excursions) /\ IsFiniteSet(Stayed)
  BY <1>1, <1>2, FS_Subset
<1> QED BY <1>3, FS_CardinalityType DEF Entered

\* The call of t, alone on its way, is noted.
LEMMA OutsideEntered ==
  ASSUME History, InTurn, NEW t \in Threads, Moves(t), call[t].at = "put",
         NEW m, m = call[t].ts, Entered' = Entered \cup {m}, m \notin Entered
  PROVE  /\ m \in Int /\ Entered = 1 .. m - 1 /\ Entered' = 1 .. m
         /\ Outside \subseteq 1 .. m - 1
         /\ call[t].v # 2 => Outside' = Outside
         /\ call[t].v = 2 => Outside' = Outside \cup {m}
<1>1. m = clock /\ m \in Nat /\ m \in 1 .. clock /\ past[m].v = call[t].v
      /\ \A u \in Threads : UnderWay(u) => u = t
  BY InTurnUnderWay, NoneIsNoTime DEF History, Times, UnderWay, Recorded
<1>2. Entered \subseteq 1 .. m - 1
  <2> SUFFICES ASSUME NEW i \in Entered PROVE i \in 1 .. m - 1
    OBVIOUS
  <2>1. i \in 1 .. m /\ i # m
    BY <1>1 DEF Entered
  <2> QED BY <1>1, <2>1
<1>3. 1 .. m - 1 \subseteq Entered
  <2> SUFFICES ASSUME NEW i \in 1 .. m - 1 PROVE i \in Entered
    OBVIOUS
  <2>1. i \in 1 .. clock /\ i # m
    BY <1>1
  <2>2. \A u \in Threads : call[u].at \in {"get", "put"} => call[u].ts # i
    BY <1>1, <2>1 DEF UnderWay
  <2> QED BY <2>1, <2>2 DEF Entered
<1>4. Entered = 1 .. m - 1 /\ Entered' = 1 .. m
  <2>1. Entered = 1 .. m - 1
    BY <1>2, <1>3
  <2>2. (1 .. m - 1) \cup {m} = 1 .. m
    BY <1>1
  <2> QED BY <2>1, <2>2
<1>5. \A i \in Entered' : past'[i].v = past[i].v
  BY <1>1, <1>4, PastMoves
<1>6. Outside' = {i \in Entered \cup {m} : past[i].v = 2}
  BY <1>5 DEF Outside
<1> QED BY <1>1, <1>4, <1>6 DEF Outside

\* What limit_tracker makes of the object that it has seen.
LEMMA TrackPut ==
  ASSUME History, InTurn, NEW t \in Threads, Moves(t), call[t].at = "put",
         NEW m, m = call[t].ts, Entered' = Entered \cup {m}, m \notin Entered,
         NEW o, Tracks(o), NEW new, new = Tracked(o, o, call[t])
  PROVE  Tracks(new)'
<1> DEFINE O == Outside
           N == Cardinality(Excursions)
           L == Cardinality(Stayed)
<1>1. /\ m \in Nat /\ m >= 1 /\ Entered = 1 .. m - 1 /\ Entered' = 1 .. m
      /\ O \subseteq 1 .. m - 1
      /\ call[t].v # 2 => Outside' = O
      /\ call[t].v = 2 => Outside' = O \cup {m}
  BY OutsideEntered, NoneIsNoTime DEF History, Times, Recorded, UnderWay
<1>2. /\ IsFiniteSet(Excursions) /\ IsFiniteSet(Stayed) /\ N \in Nat /\ L \in Nat
  BY OutsideFinite
<1>3. o \in [n : Nat, lasted : Nat, last : Nat, out : BOOLEAN] /\ o.n = N /\ o.lasted = L
      /\ (o.out <=> \E i \in O : i + 1 \notin Entered)
      /\ (o.out => o.last \in Entered /\ o.last + 1 \notin Entered)
  BY DEF Tracks
<1>4. o.out <=> m - 1 \in O
  <2>1. \A i \in O : i + 1 \notin Entered <=> i = m - 1
    BY <1>1
  <2> QED BY <1>3, <2>1
<1>5. o.out => o.last = m - 1
  BY <1>1, <1>3
<1>6. CASE call[t].v # 2
  <2>1. new = [o EXCEPT !.out = FALSE]
    BY <1>6 DEF Tracked, Exceeded
  <2>2. Outside' = O /\ Excursions' = Excursions /\ Stayed' = Stayed
    BY <1>1, <1>6 DEF Excursions, Stayed
  <2>3. \A i \in Outside' : i + 1 \in Entered'
    BY <1>1, <2>2
  <2>4. /\ new \in [n : Nat, lasted : Nat, last : Nat, out : BOOLEAN]
        /\ new.n = N /\ new.lasted = L /\ new.out = FALSE
    BY <1>3, <2>1
  <2> QED BY <2>2, <2>3, <2>4 DEF Tracks
<1>7. CASE call[t].v = 2
  <2>1. Outside' = O \cup {m} /\ m \notin O /\ m + 1 \notin Entered' /\ m \in Entered' /\ m \in Outside'
    BY <1>1, <1>7
  <2>2. \A i \in O : i - 1 # m
    BY <1>1
  <2>3. CASE ~o.out
    <3>1. new = [o EXCEPT !.n = o.n + 1, !.last = m, !.out = TRUE]
      BY <1>7, <2>3 DEF Tracked, Exceeded
    <3>2. m - 1 \notin Outside' /\ m \notin Excursions
      BY <1>1, <1>4, <2>1, <2>3 DEF Excursions
    <3>3. Excursions' = Excursions \cup {m} /\ Stayed' = Stayed
      BY <2>1, <2>2, <3>2 DEF Excursions, Stayed
    <3>4. Cardinality(Excursions') = N + 1
      BY <1>2, <3>2, <3>3, FS_AddElement
    <3>5. /\ new \in [n : Nat, lasted : Nat, last : Nat, out : BOOLEAN]
          /\ new.n = N + 1 /\ new.lasted = L /\ new.last = m /\ new.out
      <4>1. o.n + 1 = N + 1 /\ o.n + 1 \in Nat /\ m \in Nat /\ o.lasted = L
        BY <1>1, <1>2, <1>3
      <4>2. PICK x : x = o.n + 1
        OBVIOUS
      <4>3. /\ new \in [n : Nat, lasted : Nat, last : Nat, out : BOOLEAN]
            /\ new.n = x /\ new.lasted = o.lasted /\ new.last = m /\ new.out = TRUE
        <5>1. new = [o EXCEPT !.n = x, !.last = m, !.out = TRUE] /\ x \in Nat
          BY <3>1, <4>1, <4>2
        <5>2. o \in [n : Nat, lasted : Nat, last : Nat, out : BOOLEAN]
          BY <1>3
        <5> QED BY <4>1, <5>1, <5>2
      <4> QED BY <4>1, <4>2, <4>3
    <3> QED BY <2>1, <3>3, <3>4, <3>5 DEF Tracks
  <2>4. CASE o.out
    <3>1. new = [o EXCEPT !.lasted = o.lasted + (m - o.last), !.last = m]
      BY <1>7, <2>4 DEF Tracked, Exceeded
    <3>2. m - 1 \in Outside' /\ m \notin Stayed /\ m - o.last = 1
      BY <1>1, <1>4, <1>5, <2>1, <2>4 DEF Stayed
    <3>3. Stayed' = Stayed \cup {m} /\ Excursions' = Excursions
      BY <2>1, <2>2, <3>2 DEF Excursions, Stayed
    <3>4. Cardinality(Stayed') = L + 1
      BY <1>2, <3>2, <3>3, FS_AddElement
    <3>5. /\ new \in [n : Nat, lasted : Nat, last : Nat, out : BOOLEAN]
          /\ new.n = N /\ new.lasted = L + 1 /\ new.last = m /\ new.out
      <4>1. PICK x : x = o.lasted + (m - o.last)
        OBVIOUS
      <4>2. x = L + 1 /\ x \in Nat /\ m \in Nat
        <5>1. PICK y, z : y = o.lasted /\ z = m - o.last
          OBVIOUS
        <5>2. y = L /\ z = 1 /\ x = y + z
          BY <1>3, <3>2, <4>1, <5>1
        <5> QED BY <1>1, <1>2, <5>2
      <4>3. /\ new \in [n : Nat, lasted : Nat, last : Nat, out : BOOLEAN]
            /\ new.n = o.n /\ new.lasted = x /\ new.last = m /\ new.out = o.out
        <5>1. new = [o EXCEPT !.lasted = x, !.last = m]
          BY <3>1, <4>1
        <5>2. o \in [n : Nat, lasted : Nat, last : Nat, out : BOOLEAN]
          BY <1>3
        <5> QED BY <4>2, <5>1, <5>2
      <4> QED BY <1>3, <2>4, <4>2, <4>3
    <3> QED BY <2>1, <3>3, <3>4, <3>5 DEF Tracks
  <2> QED BY <2>3, <2>4
<1> QED BY <1>6, <1>7

LEMMA TrackStep ==
  ASSUME History, ShapeInv, TrackInv, kind = "tracker", NEW t \in Threads, ObjectStep(t)
  PROVE  TrackInv'
<1>1. Moves(t) /\ kind' = kind
  BY DEF ObjectStep, Moves
<1> SUFFICES ASSUME InTurn'
             PROVE  (/\ store = None => Entered = {}
                     /\ store # None => Tracks(heap[store])
                     /\ \A u \in Threads : call[u].at = "put" =>
                          Tracks(call[u].seen) /\ heap[call[u].ref] = call[u].seen)'
  BY <1>1 DEF TrackInv
<1>2. InTurn /\ \A u \in Threads \ {t} : call'[u].at # "put"
  BY <1>1, OneUnderWay DEF UnderWay
<1>3. /\ store = None => Entered = {}
      /\ store # None => Tracks(heap[store])
  BY <1>2 DEF TrackInv
<1>4. CASE UNCHANGED <<store, heap>> /\ call'[t].at # "put" /\ Entered' = Entered
  <2>1. PICK o : o = heap[store]
    OBVIOUS
  <2>2. store # None => Tracks(o)'
    BY <1>1, <1>3, <1>4, <2>1, OutsideStays
  <2>3. (store # None => Tracks(heap[store]))'
    BY <1>4, <2>1, <2>2
  <2> QED BY <1>2, <1>3, <1>4, <2>3
<1>5. CASE GetSees(t) /\ store' = store /\ Entered' = Entered
  <2>1. PICK o : o = call'[t].seen
    OBVIOUS
  <2>2. heap'[call'[t].ref] = o
    BY <1>5, <2>1 DEF GetSees, ByPointer
  <2>3. CASE store = None
    <3>1. heap' = [heap EXCEPT ![t] = Fresh] /\ call'[t].seen = heap'[t]
      BY <1>5, <2>3 DEF GetSees, ByPointer
    <3>2. o = [n |-> 0, lasted |-> 0, last |-> 0, out |-> FALSE]
      BY <2>1, <3>1 DEF ShapeInv, Fresh
    <3>3. Entered = {} /\ Outside = {} /\ Excursions = {} /\ Stayed = {}
      BY <1>3, <2>3 DEF Outside, Excursions, Stayed
    <3>4. Tracks(o)
      BY <3>2, <3>3, FS_EmptySet DEF Tracks
    <3>5. Tracks(o)'
      BY <1>1, <1>5, <3>4, OutsideStays
    <3>6. (Tracks(call[t].seen) /\ heap[call[t].ref] = call[t].seen)'
      BY <2>1, <2>2, <3>5
    <3> QED BY <1>2, <1>3, <1>5, <2>3, <3>6
  <2>4. CASE store # None
    <3>1. heap' = heap /\ o = heap[store]
      BY <1>5, <2>1, <2>4 DEF GetSees, ByPointer
    <3>2. Tracks(o)'
      BY <1>1, <1>3, <1>5, <2>4, <3>1, OutsideStays
    <3>3. (Tracks(call[t].seen) /\ heap[call[t].ref] = call[t].seen)'
      BY <2>1, <2>2, <3>2
    <3>4. Tracks(heap[store])'
      BY <1>5, <3>1, <3>2
    <3> QED BY <1>2, <1>5, <2>4, <3>3, <3>4
  <2> QED BY <2>3, <2>4
<1>6. CASE /\ call[t].at = "put" /\ call'[t].at = "decide" /\ store' # None /\ store' = call[t].ref
           /\ heap'[store'] = Changed(heap[store'], call[t].seen, call[t])
           /\ Entered' = Entered \cup {call[t].ts} /\ call[t].ts \notin Entered
  <2>1. PICK o, m, new : o = call[t].seen /\ m = call[t].ts /\ new = heap'[store']
    OBVIOUS
  <2>2. Tracks(o) /\ heap[store'] = o
    BY <1>2, <1>6, <2>1 DEF TrackInv
  <2>3. new = Tracked(o, o, call[t])
    BY <1>6, <2>1, <2>2 DEF Changed
  <2>4. Tracks(new)'
    BY <1>1, <1>2, <1>6, <2>1, <2>2, <2>3, TrackPut
  <2>5. Tracks(heap[store])'
    BY <2>1, <2>4
  <2> QED BY <1>2, <1>6, <2>5
<1> QED BY <1>4, <1>5, <1>6 DEF ObjectStep

-----------------------------------------------------------------------------
(* What periodic counts. *)

\* The calls met, and of the others up to f only those that were no look.
OnlyMet(met, calls) ==
  \A j \in calls : past[j].v # 2 /\ (\E i \in met : i < j) =>
    \E i \in met : i < j /\ ReadAs(j - i) < Ticks(Period)

Counts(o) ==
  \E met \in SUBSET Outside :
    /\ o.n = Cardinality(met) /\ OnlyMet(met, Entered)
    /\ met # {} => o.last \in met

CountMet(f) ==
  \E met \in SUBSET Outside : Cardinality(met) >= Count /\ OnlyMet(met, 1 .. f)

CycleInv ==
  kind = "periodic" /\ InTurn =>
    /\ store = None => Entered = {}
    /\ store # None => Counts(heap[store])
    /\ \A u \in Threads :
         /\ call[u].at = "put" => Counts(call[u].seen) /\ heap[call[u].ref] = call[u].seen
         /\ call[u].at = "decide" => call[u].ref = store
    /\ \A f \in 1 .. clock : past[f].fired => CountMet(f)

LEMMA OnlyMetStays ==
  ASSUME History, NEW t \in Threads, Moves(t), NEW met, NEW calls, calls \subseteq 1 .. clock
  PROVE  OnlyMet(met, calls)' <=> OnlyMet(met, calls)
<1>1. \A j \in calls : past'[j].v = past[j].v
  BY PastMoves
<1>2. \A d : ReadAs(d)' = ReadAs(d)
  BY DEF ReadAs, Moves
<1> QED BY <1>1, <1>2 DEF OnlyMet, Ticks

LEMMA CountsStays ==
  ASSUME History, NEW t \in Threads, Moves(t), Entered' = Entered, NEW o
  PROVE  Counts(o)' <=> Counts(o)
<1>1. Outside' = Outside
  BY OutsideStays
<1>2. \A met : OnlyMet(met, Entered)' <=> OnlyMet(met, Entered)
  <2>1. PICK E : E = Entered
    OBVIOUS
  <2>2. E \subseteq 1 .. clock
    BY <2>1 DEF Entered
  <2>3. ASSUME NEW met PROVE OnlyMet(met, E)' <=> OnlyMet(met, E)
    BY <2>2, OnlyMetStays
  <2> QED BY <2>1, <2>3
<1> QED BY <1>1, <1>2 DEF Counts

LEMMA CountMetStays ==
  ASSUME History, NEW t \in Threads, Moves(t), Entered \subseteq Entered', NEW f \in 1 .. clock, CountMet(f)
  PROVE  CountMet(f)'
<1>1. PICK met \in SUBSET Outside : Cardinality(met) >= Count /\ OnlyMet(met, 1 .. f)
  BY DEF CountMet
<1>2. Outside \subseteq Outside'
  BY PastMoves DEF Outside, Entered
<1>3. 1 .. f \subseteq 1 .. clock
  BY NoneIsNoTime DEF History, Times
<1>4. OnlyMet(met, 1 .. f)'
  BY <1>1, <1>3, OnlyMetStays
<1> QED BY <1>1, <1>2, <1>4 DEF CountMet

\* What a look, or a call that is none, makes of the object.
LEMMA CountsPut ==
  ASSUME History, InTurn, NEW t \in Threads, Moves(t), call[t].at = "put", kind = "periodic",
         NEW m, m = call[t].ts, Entered' = Entered \cup {m}, m \notin Entered,
         NEW o, Counts(o), NEW new, new = Periodic(o, o, call[t])
  PROVE  Counts(new)'
<1>1. /\ m \in Int /\ Entered = 1 .. m - 1 /\ Entered' = 1 .. m
      /\ Outside \subseteq 1 .. m - 1
      /\ call[t].v # 2 => Outside' = Outside
      /\ call[t].v = 2 => Outside' = Outside \cup {m}
  BY OutsideEntered
<1>2. PICK met \in SUBSET Outside :
        /\ o.n = Cardinality(met) /\ OnlyMet(met, Entered)
        /\ met # {} => o.last \in met
  BY DEF Counts
<1>3. /\ m \in 1 .. clock /\ past[m].v = call[t].v /\ unit \in {"ms", "ns"}
      /\ \A j \in 1 .. clock : past'[j].v = past[j].v
      /\ (\A d : ReadAs(d)' = ReadAs(d)) /\ clock \in Int
  BY PastMoves, NoneIsNoTime DEF History, Recorded, UnderWay, Moves, ReadAs, Times
<1>4. IsFiniteSet(met)
  <2>1. met \subseteq 1 .. m - 1 /\ m - 1 \in Int
    BY <1>1, <1>2
  <2>2. \A k \in Int : IsFiniteSet(1 .. k)
    BY FS_Interval
  <2> QED BY <2>1, <2>2, FS_Subset
<1>5. OnlyMet(met, 1 .. m - 1)'
  <2>1. 1 .. m - 1 \subseteq 1 .. clock
    BY <1>1, <1>3
  <2>2. OnlyMet(met, 1 .. m - 1)
    BY <1>1, <1>2
  <2> QED BY <2>1, <2>2, OnlyMetStays
<1>6. CASE o.last = None \/ ReadAs(m - o.last) >= Ticks(Period)
  <2>1. new = [last |-> m, n |-> IF Exceeded(call[t]) THEN o.n + 1 ELSE 0]
    BY <1>6 DEF Periodic
  <2>2. CASE call[t].v = 2
    <3>1. PICK met2 : met2 = met \cup {m}
      OBVIOUS
    <3>2. m \notin met /\ Cardinality(met2) = Cardinality(met) + 1
      <4>1. m \notin met
        BY <1>1, <1>2
      <4> QED BY <1>4, <3>1, <4>1, FS_AddElement
    <3>3. new.n = Cardinality(met2) /\ new.last \in met2 /\ met2 \in SUBSET Outside'
      <4>1. new.n = o.n + 1 /\ new.last = m
        BY <2>1, <2>2 DEF Exceeded
      <4> QED BY <1>1, <1>2, <2>2, <3>1, <3>2, <4>1
    <3>4. OnlyMet(met2, Entered)'
      <4> SUFFICES ASSUME NEW j \in 1 .. m, past'[j].v # 2, NEW i \in met2, i < j
                   PROVE  \E k \in met2 : k < j /\ ReadAs(j - k)' < Ticks(Period)
        BY <1>1, <1>3 DEF OnlyMet, Ticks
      <4>1. j \in 1 .. m - 1 /\ i \in met
        <5>1. j # m
          BY <1>3, <2>2
        <5> QED BY <1>1, <3>1, <5>1
      <4>2. \E k \in met : k < j /\ ReadAs(j - k)' < Ticks(Period)
        BY <1>5, <4>1 DEF OnlyMet, Ticks
      <4> QED BY <3>1, <4>2
    <3> QED BY <3>3, <3>4 DEF Counts
  <2>3. CASE call[t].v # 2
    <3>1. new.n = 0 /\ Cardinality({}) = 0
      BY <2>1, <2>3, FS_EmptySet DEF Exceeded
    <3>2. OnlyMet({}, Entered)'
      BY DEF OnlyMet
    <3> QED BY <3>1, <3>2 DEF Counts
  <2> QED BY <2>2, <2>3
<1>7. CASE o.last # None /\ ~(ReadAs(m - o.last) >= Ticks(Period))
  <2>1. new = o
    BY <1>7 DEF Periodic
  <2>2. met # {} => ReadAs(m - o.last) < Ticks(Period) /\ o.last < m
    <3> SUFFICES ASSUME met # {} PROVE ReadAs(m - o.last) < Ticks(Period) /\ o.last < m
      OBVIOUS
    <3>1. o.last \in 1 .. m - 1
      BY <1>1, <1>2
    <3>2. PICK d : d = m - o.last
      OBVIOUS
    <3>3. d \in Int /\ o.last < m
      BY <1>1, <3>1, <3>2
    <3>4. ReadAs(d) \in Int /\ Ticks(Period) \in Int
      <4>1. Period \in Nat
        BY NodesAssumption, SkewAssumption
      <4> QED BY <1>3, <3>3, <4>1, ReadAsGrows
    <3> QED BY <1>7, <3>2, <3>3, <3>4
  <2>3. OnlyMet(met, Entered)'
    <3> SUFFICES ASSUME NEW j \in 1 .. m, past'[j].v # 2, NEW i \in met, i < j
                 PROVE  \E k \in met : k < j /\ ReadAs(j - k)' < Ticks(Period)
      BY <1>1, <1>3 DEF OnlyMet, Ticks
    <3>1. CASE j = m
      BY <1>2, <1>3, <2>2, <3>1
    <3>2. CASE j # m
      <4>1. j \in 1 .. m - 1
        BY <1>1, <3>2
      <4> QED BY <1>5, <4>1 DEF OnlyMet, Ticks
    <3> QED BY <3>1, <3>2
  <2>4. met \in SUBSET Outside'
    BY <1>1, <1>2
  <2> QED BY <1>2, <2>1, <2>3, <2>4 DEF Counts
<1> QED BY <1>6, <1>7

LEMMA CycleStep ==
  ASSUME History, ShapeInv, CycleInv, kind = "periodic", NEW t \in Threads, ObjectStep(t)
  PROVE  CycleInv'
<1>1. Moves(t) /\ kind' = kind /\ kind \in ByPointer
  BY DEF ObjectStep, Moves
<1> SUFFICES ASSUME InTurn'
             PROVE  (/\ store = None => Entered = {}
                     /\ store # None => Counts(heap[store])
                     /\ \A u \in Threads :
                          /\ call[u].at = "put" => Counts(call[u].seen) /\ heap[call[u].ref] = call[u].seen
                          /\ call[u].at = "decide" => call[u].ref = store
                     /\ \A f \in 1 .. clock : past[f].fired => CountMet(f))'
  BY <1>1 DEF CycleInv
<1>2. InTurn /\ \A u \in Threads \ {t} : call'[u].at # "put" /\ call'[u].at # "decide"
  BY <1>1, OneUnderWay DEF UnderWay
<1>3. /\ store = None => Entered = {}
      /\ store # None => Counts(heap[store])
      /\ \A f \in 1 .. clock : past[f].fired => CountMet(f)
      /\ call[t].at = "put" => Counts(call[t].seen) /\ heap[call[t].ref] = call[t].seen
      /\ call[t].at = "decide" => call[t].ref = store
  BY <1>2 DEF CycleInv
<1>4. Entered \subseteq Entered'
  BY DEF ObjectStep
<1>5. ASSUME past' = past, clock' = clock
      PROVE  \A f \in 1 .. clock' : past'[f].fired => CountMet(f)'
  <2>1. ASSUME NEW f \in 1 .. clock', past'[f].fired PROVE CountMet(f)'
    BY <1>1, <1>3, <1>4, <1>5, <2>1, CountMetStays
  <2> QED BY <2>1
<1>6. CASE ~UnderWay(t) /\ UNCHANGED <<store, heap>> /\ call'[t].at = "get" /\ Entered' = Entered
  <2>1. PICK o : o = heap[store]
    OBVIOUS
  <2>2. (store # None => Counts(heap[store]))'
    <3>1. Counts(o)' <=> Counts(o)
      BY <1>1, <1>6, CountsStays
    <3>2. Counts(heap[store])' <=> Counts(o)'
      BY <1>6, <2>1
    <3> QED BY <1>3, <1>6, <2>1, <3>1, <3>2
  <2>3. ASSUME NEW f \in 1 .. clock', past'[f].fired PROVE CountMet(f)'
    <3>1. PICK v \in 0 .. 2 : Begun(t, v) /\ ~past'[clock'].fired
      BY <1>1, <1>6 DEF Moves, Ended, GoesOn
    <3>2. f \in 1 .. clock /\ past'[f] = past[f]
      <4>1. clock' = clock + 1 /\ clock \in Nat /\ f # clock'
        BY <2>3, <3>1, NoneIsNoTime DEF Begun, History, Times
      <4>2. f \in 1 .. clock
        BY <4>1
      <4>3. ~Ended(t)
        BY <1>6 DEF Ended
      <4> QED BY <1>1, <4>2, <4>3, PastMoves
    <3> QED BY <1>1, <1>3, <1>4, <2>3, <3>2, CountMetStays
  <2> QED BY <1>2, <1>3, <1>6, <2>2, <2>3
<1>7. CASE /\ UnderWay(t) /\ GetSees(t) /\ UNCHANGED <<clock, store, past>>
           /\ call'[t].at = "put" /\ Entered' = Entered
  <2>1. PICK o : o = call'[t].seen
    OBVIOUS
  <2>2. heap'[call'[t].ref] = o
    BY <1>1, <1>7, <2>1 DEF GetSees
  <2>3. CASE store = None
    <3>1. heap' = [heap EXCEPT ![t] = Fresh] /\ call'[t].seen = heap'[t]
      BY <1>1, <1>7, <2>3 DEF GetSees
    <3>2. o = [last |-> None, n |-> 0]
      BY <2>1, <3>1 DEF ShapeInv, Fresh
    <3>3. Counts(o)
      <4>1. o.n = Cardinality({}) /\ OnlyMet({}, Entered)
        BY <3>2, FS_EmptySet DEF OnlyMet
      <4> QED BY <4>1 DEF Counts
    <3>4. Counts(o)'
      BY <1>1, <1>7, <3>3, CountsStays
    <3>5. (Counts(call[t].seen) /\ heap[call[t].ref] = call[t].seen)'
      BY <2>1, <2>2, <3>4
    <3> QED BY <1>2, <1>3, <1>5, <1>7, <2>3, <3>5
  <2>4. CASE store # None
    <3>1. heap' = heap /\ o = heap[store]
      BY <1>1, <1>7, <2>1, <2>4 DEF GetSees
    <3>2. Counts(o)'
      BY <1>1, <1>3, <1>7, <2>4, <3>1, CountsStays
    <3>3. (Counts(call[t].seen) /\ heap[call[t].ref] = call[t].seen)'
      BY <2>1, <2>2, <3>2
    <3>4. Counts(heap[store])'
      BY <1>7, <3>1, <3>2
    <3> QED BY <1>2, <1>5, <1>7, <2>4, <3>3, <3>4
  <2> QED BY <2>3, <2>4
<1>8. CASE /\ call[t].at = "put" /\ call'[t].at = "decide" /\ UNCHANGED <<clock, past>>
           /\ store' = call[t].ref /\ store' # None /\ call'[t].ref = store'
           /\ heap'[store'] = Changed(heap[store'], call[t].seen, call[t])
           /\ Entered' = Entered \cup {call[t].ts} /\ call[t].ts \notin Entered
  <2>1. PICK o, m, new : o = call[t].seen /\ m = call[t].ts /\ new = heap'[store']
    OBVIOUS
  <2>2. Counts(o) /\ heap[store'] = o
    BY <1>3, <1>8, <2>1
  <2>3. new = Periodic(o, o, call[t])
    BY <1>8, <2>1, <2>2 DEF Changed
  <2>4. Counts(new)'
    BY <1>1, <1>2, <1>8, <2>1, <2>2, <2>3, CountsPut
  <2>5. Counts(heap[store])'
    BY <2>1, <2>4
  <2> QED BY <1>2, <1>5, <1>8, <2>5
<1>9. CASE Decide(t) /\ UNCHANGED <<store, heap>> /\ call'[t].at = "done" /\ Entered' = Entered
  <2>c. PICK o, f : o = heap[store] /\ f = call[t].ts
    OBVIOUS
  <2>1. /\ call[t].at = "decide" /\ Over(t, heap[call[t].ref].n >= Count)
        /\ UNCHANGED <<kind, unit, clock, store, heap>> /\ UnderWay(t)
    BY <1>9, SMTT(30) DEF Decide, UnderWay
  <2>2. f = clock /\ f \in 1 .. clock /\ Entered = 1 .. clock /\ store # None
    <3>1. f = clock /\ f \in 1 .. clock /\ \A u \in Threads : UnderWay(u) => u = t
      BY <1>2, <2>c, <2>1, InTurnUnderWay DEF History, Recorded
    <3>2. \A u \in Threads : call[u].at \notin {"get", "put"}
      BY <2>1, <3>1 DEF UnderWay
    <3>3. Entered = 1 .. clock
      BY <3>2 DEF Entered
    <3> QED BY <1>3, <3>1, <3>3
  <2>3. Counts(o) /\ call[t].ref = store
    BY <1>3, <2>c, <2>1, <2>2
  <2>4. Ended(t) /\ past'[f].fired = (o.n >= Count)
    <3>a. (o.n >= Count) \in BOOLEAN
      OBVIOUS
    <3>1. PICK fires \in BOOLEAN : fires = (o.n >= Count)
      BY <3>a
    <3>2. Over(t, fires)
      BY <2>c, <2>1, <2>3, <3>1
    <3> QED BY <2>c, <2>1, <3>1, <3>2, OverOf, ZenonT(30)
  <2>6. o.n >= Count => CountMet(f)
    <3>1. PICK met \in SUBSET Outside : o.n = Cardinality(met) /\ OnlyMet(met, Entered)
      BY <2>3 DEF Counts
    <3> QED BY <2>2, <3>1 DEF CountMet
  <2>7. ASSUME NEW k \in 1 .. clock', past'[k].fired PROVE CountMet(k)'
    <3>1. k \in 1 .. clock
      BY <2>1
    <3>2. CountMet(k)
      <4>1. CASE k = f
        BY <2>4, <2>6, <2>7, <4>1
      <4>2. CASE k # f
        BY <1>1, <1>3, <2>c, <2>7, <3>1, <4>2, PastMoves
      <4> QED BY <4>1, <4>2
    <3> QED BY <1>1, <1>4, <3>1, <3>2, CountMetStays
  <2>8. Counts(heap[store])'
    <3>1. Counts(o)'
      BY <1>1, <1>9, <2>3, CountsStays
    <3> QED BY <1>9, <2>c, <3>1
  <2> QED BY <1>2, <1>9, <2>2, <2>7, <2>8
<1> QED BY <1>6, <1>7, <1>8, <1>9 DEF ObjectStep

-----------------------------------------------------------------------------
(* The theorem. *)

StoreInv ==
  History /\ ShapeInv /\ SoundInv /\ KeptInv /\ OrderInv /\ PeakInv /\ TrackInv /\ CycleInv

LEMMA StoreInit == NodesInit => StoreInv
<1> SUFFICES ASSUME NodesInit PROVE StoreInv
  OBVIOUS
<1>1. History
  BY HistoryInit
<1>2. /\ clock = 0 /\ store = None /\ heap = [u \in Threads |-> None]
      /\ \A u \in Threads : call[u].at = "done"
  BY DEF NodesInit, NodesInitIn
<1>3. ShapeInv
  BY <1>2 DEF ShapeInv
<1>4. Samples = << >> /\ Entered = {}
  BY <1>2 DEF Samples, Entered
<1>5. Sound(<< >>) /\ Sorted(<< >>) /\ Fits(<< >>)
  BY DEF Sound, Sorted, Fits
<1>6. SoundInv /\ KeptInv /\ OrderInv
  BY <1>2, <1>4, <1>5 DEF SoundInv, KeptInv, OrderInv
<1>7. PeakInv /\ TrackInv /\ CycleInv
  BY <1>2, <1>4 DEF PeakInv, TrackInv, CycleInv
<1> QED BY <1>1, <1>3, <1>6, <1>7 DEF StoreInv

LEMMA StoreStep == StoreInv /\ [NodesNext]_nodeVars => StoreInv'
<1> SUFFICES ASSUME StoreInv, [NodesNext]_nodeVars PROVE StoreInv'
  OBVIOUS
<1>1. History /\ ShapeInv /\ SoundInv /\ KeptInv /\ OrderInv /\ PeakInv /\ TrackInv /\ CycleInv
  BY DEF StoreInv
<1>2. ASSUME NEW t \in Threads,
             \/ \E v \in 0 .. 2 : Begin(t, v)
             \/ Get(t) \/ PutSince(t) \/ PutMatch(t) \/ PutFreeze(t)
             \/ PutSamples(t) \/ PutObject(t) \/ Decide(t)
      PROVE  StoreInv'
  <2>1. Moves(t) /\ kind' = kind
    BY <1>1, <1>2, StepMoves DEF Moves
  <2>2. History' /\ ShapeInv'
    BY <1>1, <1>2, <2>1, HistoryStep, ShapeKept
  <2>3. kind \in Windowed => SampleStep(t)
    BY <1>1, <1>2, StepOfSamples
  <2>4. SoundInv'
    <3>1. CASE kind \in Windowed
      BY <1>1, <2>3, <3>1, SoundStep
    <3>2. CASE kind \notin Windowed
      BY <2>1, <3>2 DEF SoundInv
    <3> QED BY <3>1, <3>2
  <2>5. KeptInv'
    <3>1. CASE kind \in Windowed
      BY <1>1, <2>3, <3>1, KeptStep
    <3>2. CASE kind \notin Windowed
      BY <2>1, <3>2 DEF KeptInv
    <3> QED BY <3>1, <3>2
  <2>6. OrderInv'
    <3>1. CASE kind \in Windowed
      BY <1>1, <2>3, <3>1, OrderStep
    <3>2. CASE kind \notin Windowed
      BY <2>1, <3>2 DEF OrderInv
    <3> QED BY <3>1, <3>2
  <2>7. PeakInv'
    <3>1. CASE kind = "demand"
      <4>1. ObjectStep(t)
        BY <1>1, <1>2, <3>1, StepOfObject
      <4>2. SampleStep(t)
        BY <2>3, <3>1 DEF Windowed
      <4> QED BY <1>1, <3>1, <4>1, <4>2, PeakStep
    <3>2. CASE kind # "demand"
      BY <2>1, <3>2 DEF PeakInv
    <3> QED BY <3>1, <3>2
  <2>8. TrackInv'
    <3>1. CASE kind = "tracker"
      <4>1. ObjectStep(t)
        BY <1>1, <1>2, <3>1, StepOfObject
      <4> QED BY <1>1, <3>1, <4>1, TrackStep
    <3>2. CASE kind # "tracker"
      BY <2>1, <3>2 DEF TrackInv
    <3> QED BY <3>1, <3>2
  <2>9. CycleInv'
    <3>1. CASE kind = "periodic"
      <4>1. ObjectStep(t)
        BY <1>1, <1>2, <3>1, StepOfObject
      <4> QED BY <1>1, <3>1, <4>1, CycleStep
    <3>2. CASE kind # "periodic"
      BY <2>1, <3>2 DEF CycleInv
    <3> QED BY <3>1, <3>2
  <2> QED BY <2>2, <2>4, <2>5, <2>6, <2>7, <2>8, <2>9 DEF StoreInv
<1>3. CASE UNCHANGED nodeVars
  <2>1. /\ kind' = kind /\ unit' = unit /\ clock' = clock /\ store' = store /\ heap' = heap
        /\ call' = call /\ past' = past
    BY <1>3 DEF nodeVars
  <2>2. History'
    BY <1>1, <2>1 DEF History, Recorded, UnderWay, Returned
  <2>3. ShapeInv'
    BY <1>1, <2>1 DEF ShapeInv
  <2>4. Samples' = Samples /\ Entered' = Entered /\ \A u : SamplesSeen(u)' = SamplesSeen(u)
    BY <2>1 DEF Samples, Entered, SamplesSeen, Of
  <2>5. \A s : /\ Sound(s)' <=> Sound(s)
               /\ Sorted(s)' <=> Sorted(s)
               /\ Fits(s)' <=> Fits(s)
    BY <2>1, <2>4 DEF Sound, Sample, Sorted, Fits, ReadAs, Ticks
  <2>6. PICK s : s = Samples
    OBVIOUS
  <2>7. \A u \in Threads : call'[u].at = "put" =>
          /\ Sound(SamplesSeen(u)) => Sound(SamplesSeen(u))'
          /\ Sorted(SamplesSeen(u)) => Sorted(SamplesSeen(u))'
    <3> SUFFICES ASSUME NEW u \in Threads
                 PROVE  /\ Sound(SamplesSeen(u)) => Sound(SamplesSeen(u))'
                        /\ Sorted(SamplesSeen(u)) => Sorted(SamplesSeen(u))'
      OBVIOUS
    <3>1. PICK x : x = SamplesSeen(u)
      OBVIOUS
    <3>2. SamplesSeen(u)' = x /\ (Sound(x)' <=> Sound(x)) /\ (Sorted(x)' <=> Sorted(x))
      BY <2>4, <2>5, <3>1
    <3> QED BY <3>1, <3>2
  <2>8. (Sound(Samples) => Sound(Samples)') /\ (Sorted(Samples) => Sorted(Samples)')
        /\ (Fits(Samples) => Fits(Samples)')
    <3>1. Samples' = s /\ (Sound(s)' <=> Sound(s)) /\ (Sorted(s)' <=> Sorted(s)) /\ (Fits(s)' <=> Fits(s))
      BY <2>4, <2>5, <2>6
    <3> QED BY <2>6, <3>1
  <2>9. \A i, j : (After(j, i)' <=> After(j, i)) /\ (Alone(i)' <=> Alone(i)) /\ (InTurn' <=> InTurn)
    BY <2>1 DEF After, Returned, Alone, InTurn
  <2>10. SoundInv'
    BY <1>1, <2>1, <2>7, <2>8 DEF SoundInv
  <2>11. OrderInv'
    BY <1>1, <2>1, <2>7, <2>8, <2>9 DEF OrderInv
  <2>12. KeptInv'
    <3>1. \A i : (Settled(i)' <=> Settled(i)) /\ (Sampling(i)' <=> Sampling(i))
                 /\ (InWindowAsRead(i)' <=> InWindowAsRead(i))
      BY <2>1, <2>9 DEF Settled, SoFarAlone, Sampling, InWindowAsRead, ReadAs, Ticks
    <3>2. \A i : KeptFor(i) => KeptFor(i)'
      BY <2>1, <2>4 DEF KeptFor, Has, Sample
    <3> QED BY <1>1, <2>1, <3>1, <3>2 DEF KeptInv
  <2>13. PeakInv'
    BY <1>1, <2>1, <2>4, <2>9 DEF PeakInv, Peaks
  <2>14. TrackInv'
    <3>1. Outside' = Outside
      BY <2>1, <2>4 DEF Outside
    <3>2. Excursions' = Excursions /\ Stayed' = Stayed
      BY <3>1 DEF Excursions, Stayed
    <3>3. \A o : Tracks(o)' <=> Tracks(o)
      BY <2>4, <3>1, <3>2 DEF Tracks
    <3> QED BY <1>1, <2>1, <2>4, <2>9, <3>1, <3>2 DEF TrackInv, Tracks
  <2>15. CycleInv'
    <3>1. Outside' = Outside
      BY <2>1, <2>4 DEF Outside
    <3>2. \A met, calls : OnlyMet(met, calls)' <=> OnlyMet(met, calls)
      BY <2>1 DEF OnlyMet, ReadAs, Ticks
    <3>3. (\A o : Counts(o)' <=> Counts(o)) /\ \A f : CountMet(f)' <=> CountMet(f)
      BY <2>4, <3>1, <3>2 DEF Counts, CountMet
    <3> QED BY <1>1, <2>1, <2>4, <2>9, <3>3 DEF CycleInv
  <2> QED BY <2>2, <2>3, <2>10, <2>11, <2>12, <2>13, <2>14, <2>15 DEF StoreInv
<1> QED BY <1>2, <1>3 DEF NodesNext, Levels

-----------------------------------------------------------------------------
(* From what the nodes read to the ticks. *)

\* Milliseconds are read as what they are, or by trend and periodic as less.
LEMMA MillisecondsRead ==
  ASSUME unit = "ms", NEW d \in Int, NEW n \in Nat
  PROVE  /\ ReadAs(d) >= Ticks(n) => d >= n
         /\ d < n => ReadAs(d) < Ticks(n)
         /\ d = n => ReadAs(d) <= Ticks(n)
         /\ kind \notin {"trend", "periodic"} =>
              /\ (ReadAs(d) <= Ticks(n) => d <= n)
              /\ (d = n => ReadAs(d) = Ticks(n))
         /\ ReadAs(d) \in Int /\ Ticks(n) \in Int
<1>1. PICK K \in Nat \ {0} : K = Skew
  BY NodesAssumption, SkewAssumption
<1>2. Ticks(n) = n * K
  BY <1>1 DEF Ticks
<1>3. ReadAs(d) = IF kind \in {"trend", "periodic"} THEN d ELSE d * K
  BY <1>1 DEF ReadAs
<1>4. /\ d * K >= n * K <=> d >= n
      /\ d * K <= n * K <=> d <= n
      /\ n * K >= n /\ d * K \in Int /\ n * K \in Int
  OBVIOUS
<1>5. (d < n => d * K < n * K) /\ (d = n => d * K = n * K)
  OBVIOUS
<1> QED BY <1>2, <1>3, <1>4, <1>5

\* Nanoseconds are read as more.
LEMMA NanosecondsRead ==
  ASSUME unit = "ns", NEW d \in Int, NEW n \in Nat
  PROVE  /\ ReadAs(d) < Ticks(n) => d < n
         /\ ReadAs(d) <= Ticks(n) => d <= n
<1>1. PICK K \in Nat \ {0} : K = Skew
  BY NodesAssumption, SkewAssumption
<1>2. PICK e \in Int : e = d * K
  BY <1>1
<1>3. Ticks(n) = n * K /\ ReadAs(d) = e * K
  BY <1>1, <1>2 DEF Ticks, ReadAs
<1>4. (e * K < n * K => e < n) /\ (e * K <= n * K => e <= n)
  OBVIOUS
<1>5. (e < n => d < n) /\ (e <= n => d <= n)
  <2>1. d >= 0 => e >= d
    BY <1>2
  <2> QED BY <2>1
<1> QED BY <1>3, <1>4, <1>5

LEMMA EarnedInTicks ==
  ASSUME History, CycleInv, NEW f \in 1 .. clock, past[f].fired, EarnedAsRead(f)
  PROVE  Earned(f)
<1>1. /\ DOMAIN past = 1 .. clock /\ \A i \in 1 .. clock : past[i].ts = i /\ i \in Int
      /\ unit \in {"ms", "ns"} /\ Duration \in Nat /\ Period \in Nat /\ clock \in Nat
  BY NoneIsNoTime, NodesAssumption, SkewAssumption DEF History, Times
<1>2. \A i \in 1 .. clock : \A good, ending : HeldAsRead(i, f, good, ending) => HeldSince(i, f, good, ending)
  <2> SUFFICES ASSUME NEW i \in 1 .. clock, NEW good, NEW ending, HeldAsRead(i, f, good, ending)
               PROVE  HeldSince(i, f, good, ending)
    OBVIOUS
  <2>1. PICK d \in Int : d = past[f].ts - past[i].ts
    BY <1>1
  <2>2. unit = "ms" => d >= Duration
    BY <1>1, <2>1, MillisecondsRead DEF HeldAsRead
  <2> QED BY <2>1, <2>2 DEF HeldAsRead, HeldSince
<1>3. RestedAsRead(f) => Rested(f)
  <2> SUFFICES ASSUME RestedAsRead(f), unit = "ms", NEW j \in 1 .. clock,
                      past[j].fired, After(f, j),
                      \A k \in 1 .. clock \ {j} : past[k].fired => After(k, j) \/ After(j, k)
               PROVE  past[f].ts - past[j].ts >= Period
    BY <1>1 DEF Rested
  <2>1. PICK d \in Int : d = past[f].ts - past[j].ts
    BY <1>1
  <2>2. ReadAs(d) >= Ticks(Period)
    BY <1>1, <2>1 DEF RestedAsRead
  <2> QED BY <1>1, <2>1, <2>2, MillisecondsRead
<1>4. 1 .. f \subseteq 1 .. clock
  BY <1>1
<1>5. kind = "periodic" => InCycles(f)
  <2> SUFFICES ASSUME kind = "periodic" PROVE InCycles(f)
    OBVIOUS
  <2>1. CASE unit = "ms" \/ ~AllAlone
    <3>1. PICK met \in SUBSET OfExceeded : Cardinality(met) >= Count /\ PeriodsApart(met)
      BY DEF EarnedAsRead, Pausing
    <3>2. ASSUME unit = "ms", NEW i \in met, NEW j \in met, i < j
          PROVE  past[j].ts - past[i].ts >= Period
      <4>1. i \in 1 .. clock /\ j \in 1 .. clock
        BY <1>1, <3>1 DEF OfExceeded
      <4>2. PICK d \in Int : d = j - i
        BY <1>1, <4>1
      <4>3. ReadAs(d) >= Ticks(Period)
        BY <3>1, <3>2, <4>2 DEF PeriodsApart
      <4>4. d >= Period
        BY <1>1, <3>2, <4>3, MillisecondsRead
      <4> QED BY <1>1, <4>1, <4>2, <4>4
    <3>3. ~(unit = "ns" /\ AllAlone)
      BY <2>1
    <3>4. met \in SUBSET {i \in DOMAIN past : past[i].v = 2}
      BY <3>1 DEF OfExceeded
    <3> QED BY <3>1, <3>2, <3>3, <3>4 DEF InCycles
  <2>2. CASE unit = "ns" /\ AllAlone
    <3>1. InTurn
      BY <2>2, AllAloneInTurn
    <3>2. PICK met \in SUBSET Outside : Cardinality(met) >= Count /\ OnlyMet(met, 1 .. f)
      BY <3>1 DEF CycleInv, CountMet
    <3>3. met \in SUBSET {i \in DOMAIN past : past[i].v = 2} /\ \A i \in met : i \in 1 .. clock
      BY <1>1, <3>2 DEF Outside, Entered
    <3>4. ASSUME NEW j \in 1 .. f, past[j].v # 2, \E i \in met : i < j
          PROVE  \E i \in met : i < j /\ past[j].ts - past[i].ts < Period
      <4>1. PICK i \in met : i < j /\ ReadAs(j - i) < Ticks(Period)
        BY <3>2, <3>4 DEF OnlyMet
      <4>2. j \in 1 .. clock /\ i \in 1 .. clock
        BY <1>4, <3>3
      <4>3. PICK d \in Int : d = j - i
        BY <1>1, <4>2
      <4>4. d < Period
        BY <1>1, <2>2, <4>1, <4>3, NanosecondsRead
      <4> QED BY <1>1, <4>1, <4>2, <4>3, <4>4
    <3> QED BY <2>2, <3>2, <3>3, <3>4 DEF InCycles
  <2> QED BY <1>1, <2>1, <2>2
<1>6. CASE kind = "duration"
  BY <1>2, <1>4, <1>6 DEF EarnedAsRead, Earned, Pausing
<1>7. CASE kind \in {"reverse", "threshold"}
  BY <1>2, <1>4, <1>7 DEF EarnedAsRead, Earned, Pausing
<1>8. CASE kind = "recovery"
  BY <1>1, <1>2, <1>8 DEF EarnedAsRead, Earned, Pausing
<1>9. CASE kind \in Pausing
  BY <1>3, <1>9 DEF EarnedAsRead, Earned, Pausing
<1>10. CASE kind = "periodic"
  BY <1>5, <1>10 DEF Earned, Pausing
<1>11. CASE kind \notin Pausing \cup {"duration", "reverse", "threshold", "recovery", "periodic"}
  BY <1>11 DEF Earned, Pausing
<1> QED BY <1>6, <1>7, <1>8, <1>9, <1>10, <1>11

\* A node with a duration fires only if it has been waiting that long (milliseconds)
\* and no call has ended the wait meanwhile, periodic for as many calls as it counts,
\* and a node with a pause keeps it (duration.go, grid.go, recovery.go, periodic.go,
\* action_meter_freeze.go): for any number of overlapping calls.
THEOREM FiresEarned == NodesSpec => []FiresAreEarned
<1>1. FiresInv /\ StoreInv => FiresAreEarned
  <2> SUFFICES ASSUME FiresInv, StoreInv, NEW t \in Threads, call[t].at = "done", call[t].fired
               PROVE  Earned(call[t].ts)
    BY DEF FiresAreEarned
  <2>1. call[t].ts \in 1 .. clock /\ past[call[t].ts].fired /\ kind \in Kinds
    BY DEF FiresInv, History, Recorded, UnderWay
  <2>2. EarnedAsRead(call[t].ts) => Earned(call[t].ts)
    BY <2>1, EarnedInTicks DEF StoreInv
  <2>3. CASE kind \in Waiting
    BY <2>1, <2>2, <2>3 DEF FiresInv, WaitInv, FiredEarned
  <2>4. CASE kind \in Pausing
    BY <2>1, <2>2, <2>4 DEF FiresInv, PauseInv, FiredEarned
  <2>5. CASE kind \in {"recovery", "periodic"}
    BY <2>1, <2>2, <2>5 DEF FiresInv, RecoveryInv, PeriodicInv, FiredEarned
  <2>6. CASE kind \notin Waiting \cup Pausing \cup {"recovery", "periodic"}
    BY <2>6 DEF Earned, Waiting, Pausing
  <2> QED BY <2>3, <2>4, <2>5, <2>6
<1> QED BY <1>1, FiresInvInit, FiresInvStep, StoreInit, StoreStep, PTL DEF NodesSpec

LEMMA SamplesExact ==
  ASSUME StoreInv
  PROVE  LoneSamplesStay
<1> SUFFICES ASSUME kind \in Windowed
             PROVE  /\ \A i \in DOMAIN past :
                         unit = "ms" /\ Alone(i) /\ Sampling(i) /\ InWindow(i) => Has(Samples, i)
                    /\ AllAlone /\ ~(kind = "trend" /\ unit = "ms") =>
                         \A k \in DOMAIN Samples : Samples[Len(Samples)].ts - Samples[k].ts <= Window
                    /\ IsInjective(Samples)
  BY DEF LoneSamplesStay, Has
<1>1. History /\ Sound(Samples) /\ KeptInv /\ OrderInv
  BY DEF StoreInv, SoundInv
<1>2. DOMAIN past = 1 .. clock /\ clock \in Nat /\ Window \in Nat /\ unit \in {"ms", "ns"}
      /\ \A i \in 1 .. clock : past[i].ts = i
  BY <1>1, NoneIsNoTime, NodesAssumption, SkewAssumption DEF History, Times
<1>3. ASSUME NEW i \in DOMAIN past, unit = "ms", Alone(i), Sampling(i), InWindow(i)
      PROVE  Has(Samples, i)
  <2>1. PICK d \in Int : d = clock - past[i].ts
    BY <1>2
  <2>2. d < Window \/ (kind # "detect" /\ d = Window)
    BY <1>3, <2>1 DEF InWindow
  <2>3. InWindowAsRead(i)
    <3>1. ReadAs(d) \in Int /\ Ticks(Window) \in Int /\ (d < Window => ReadAs(d) < Ticks(Window))
          /\ (d = Window => ReadAs(d) <= Ticks(Window))
      BY <1>2, <1>3, MillisecondsRead
    <3> QED BY <2>1, <2>2, <3>1 DEF InWindowAsRead
  <2> QED BY <1>1, <1>2, <1>3, <2>3 DEF KeptInv, KeptFor, Settled
<1>4. ASSUME AllAlone, ~(kind = "trend" /\ unit = "ms"), NEW k \in DOMAIN Samples
      PROVE  Samples[Len(Samples)].ts - Samples[k].ts <= Window
  <2>1. ReadAs(Samples[Len(Samples)].ts - Samples[k].ts) <= Ticks(Window)
    BY <1>1, <1>4, AllAloneInTurn DEF OrderInv, Fits
  <2>2. PICK d : d = Samples[Len(Samples)].ts - Samples[k].ts
    OBVIOUS
  <2>3. d \in Int
    <3>1. Samples \in Seq(SampleRec) /\ Len(Samples) \in DOMAIN Samples
      <4>1. Samples \in Seq(SampleRec)
        BY <1>1 DEF Sound
      <4> QED BY <1>4, <4>1
    <3>2. Samples[Len(Samples)] \in SampleRec /\ Samples[k] \in SampleRec
      BY <1>4, <3>1
    <3> QED BY <2>2, <3>2 DEF SampleRec
  <2>4. kind # "periodic"
    BY DEF Windowed
  <2> QED BY <1>2, <1>4, <2>1, <2>2, <2>3, <2>4, MillisecondsRead, NanosecondsRead
<1>5. \A j, k \in DOMAIN Samples : Samples[j] = Samples[k] => j = k
  BY <1>1 DEF Sound
<1> QED BY <1>3, <1>4, <1>5 DEF IsInjective

LEMMA PeakExact ==
  ASSUME StoreInv
  PROVE  PeakIsReached
<1> SUFFICES ASSUME kind = "demand", store # None, AllAlone
             PROVE  heap[store].peak = Max({past[i].v : i \in DOMAIN past})
  BY DEF PeakIsReached
<1>1. History /\ InTurn /\ Entered = 1 .. clock /\ DOMAIN past = 1 .. clock
      /\ \A i \in 1 .. clock : past[i].v \in 0 .. 2
  <2>1. History /\ InTurn /\ Entered = 1 .. clock /\ DOMAIN past = 1 .. clock
    BY AllAloneInTurn DEF StoreInv
  <2>2. \A i \in 1 .. clock : past[i] \in PastCalls
    BY <2>1 DEF History
  <2> QED BY <2>1, <2>2 DEF PastCalls
<1>2. PICK p, S : p = heap[store].peak /\ S = {past[i].v : i \in DOMAIN past}
  OBVIOUS
<1>3. /\ p \in 0 .. 2 /\ \A i \in 1 .. clock : past[i].v <= p
      /\ p = 0 \/ \E i \in 1 .. clock : past[i].v = p
  BY <1>1, <1>2 DEF StoreInv, PeakInv, Peaks
<1>4. S \subseteq Nat /\ \A x \in S : x <= p
  BY <1>1, <1>2, <1>3
<1>5. p \in S
  <2>1. 1 \in 1 .. clock
    BY NoneIsNoTime DEF StoreInv, ShapeInv, History, Times
  <2>2. p = 0 => past[1].v = p
    BY <1>1, <1>3, <2>1
  <2> QED BY <1>1, <1>2, <1>3, <2>1, <2>2
<1> QED BY <1>2, <1>4, <1>5, MaxOf

LEMMA ExcursionsExact ==
  ASSUME StoreInv
  PROVE  ExcursionsCounted
<1> DEFINE outside == {i \in DOMAIN past : past[i].v = 2}
<1> SUFFICES ASSUME kind = "tracker", store # None, AllAlone
             PROVE  /\ heap[store].n = Cardinality({i \in outside : ~(i \in outside /\ i - 1 \in outside)})
                    /\ heap[store].lasted = Cardinality({i \in outside : i \in outside /\ i - 1 \in outside})
  BY DEF ExcursionsCounted
<1>1. InTurn /\ Entered = DOMAIN past
  BY AllAloneInTurn DEF StoreInv
<1>2. outside = Outside
  BY <1>1 DEF Outside
<1>3. /\ Excursions = {i \in outside : ~(i \in outside /\ i - 1 \in outside)}
      /\ Stayed = {i \in outside : i \in outside /\ i - 1 \in outside}
  BY <1>2 DEF Excursions, Stayed
<1>4. Tracks(heap[store])
  BY <1>1 DEF StoreInv, TrackInv
<1> QED BY <1>3, <1>4 DEF Tracks

\* What the nodes store is what the calls make of it: every sample within the window
\* of a call that ran alone, none twice and none too old where no calls overlapped
\* (rate_limit_window, trend, frequency_wobble, ramp_rate_limit, rate_detect,
\* demand_calc), the greatest value ever (demand_calc), and the number of excursions
\* and what they lasted (limit_tracker), for any number of evaluations and of calls,
\* any window and any order of their steps.
THEOREM StoredExact == NodesSpec => []StoredStateIsExact
<1>1. StoreInv => StoredStateIsExact
  BY SamplesExact, PeakExact, ExcursionsExact DEF StoredStateIsExact
<1> QED BY <1>1, StoreInit, StoreStep, PTL DEF NodesSpec

-----------------------------------------------------------------------------
(***************************************************************************)
(* The whole.  One part moves at a time; which one, the initial state      *)
(* chooses.  The steps of a part leave the variables of the others alone.  *)
(***************************************************************************)

\* A step of the whole is a step of each part, or leaves that part alone.
LEMMA StepsAreOfParts ==
  ASSUME [Next]_vars
  PROVE  /\ [NodesNext]_nodeVars /\ [FlowNext]_flowVars /\ [DebugNext]_debugVars
         /\ [PointNext]_pointVars /\ [DefinitionNext]_definitionVars
         /\ part' = part /\ (part # "points" => UNCHANGED pointVars)
<1>1. CASE StatefulNodeStep
  BY <1>1 DEF StatefulNodeStep
<1>2. CASE DefinitionStep
  BY <1>2 DEF DefinitionStep
<1>3. CASE FlowStep
  BY <1>3 DEF FlowStep
<1>4. CASE DebugStep
  BY <1>4 DEF DebugStep
<1>5. CASE PointStep
  BY <1>5 DEF PointStep
<1>6. CASE UNCHANGED vars
  BY <1>6 DEF vars
<1> QED BY <1>1, <1>2, <1>3, <1>4, <1>5, <1>6 DEF Next

LEMMA StartsAreOfParts ==
  ASSUME Init
  PROVE  /\ NodesInit /\ FlowInit /\ DebugInit
         /\ part = "definition" => DefinitionInit
         /\ IF part = "points" THEN PointInit ELSE PointInitIn({"config"}, {<<NoRule, NoRule>>})
<1>1. NodesInit
  <2>1. NodesInitIn({"duration"}) => NodesInit
    <3>1. "duration" \in Kinds
      BY DEF Kinds, Waiting
    <3>2. ASSUME kind \in {"duration"} PROVE kind \in Kinds
      BY <3>1, <3>2
    <3> QED BY <3>2, Zenon DEF NodesInit, NodesInitIn
  <2> QED BY <2>1, Zenon DEF Init
<1>2. FlowInit
  <2>1. FlowInitIn({"delay"}) => FlowInit
    <3>1. ASSUME flow \in {"delay"} PROVE flow \in Flows
      BY <3>1 DEF Flows
    <3> QED BY <3>1, Zenon DEF FlowInit, FlowInitIn
  <2> QED BY <2>1, Zenon DEF Init
<1>3. DebugInit
  <2>1. DebugInitIn({"off"}) => DebugInit
    <3>1. ASSUME mode \in {"off"} PROVE mode \in Modes
      BY <3>1 DEF Modes
    <3> QED BY <3>1, Zenon DEF DebugInit, DebugInitIn
  <2> QED BY <2>1, Zenon DEF Init
<1> QED BY <1>1, <1>2, <1>3, Zenon DEF Init

\* The parts share no state: what the whole does is, for each part, a behaviour of that
\* part (Surroundings).
THEOREM PartsAreTheirOwn ==
  Spec => /\ NodesSpec /\ FlowSpec /\ DebugSpec
          /\ part = "points" => PointSpec
          /\ part = "definition" => DefinitionSpec
<1>1. Init => /\ NodesInit /\ FlowInit /\ DebugInit
              /\ part = "points" => PointInit
              /\ part = "definition" => DefinitionInit
  BY StartsAreOfParts
<1>2. [Next]_vars => /\ [NodesNext]_nodeVars /\ [FlowNext]_flowVars /\ [DebugNext]_debugVars
                     /\ [PointNext]_pointVars /\ [DefinitionNext]_definitionVars
  BY StepsAreOfParts
<1> QED BY <1>1, <1>2, PTL
        DEF Spec, NodesSpec, FlowSpec, DebugSpec, PointSpec, DefinitionSpec

\* The data point while another part moves.
Resting == PointInitIn({"config"}, {<<NoRule, NoRule>>})

LEMMA RestIsExact ==
  ASSUME Resting
  PROVE  ChangesAreOfData /\ PointsAreExact
<1>1. /\ turn = 0 /\ stores.stored = Missing /\ matched = [r \in 1 .. 2 |-> Missing]
      /\ acted = {} /\ data.alarmAt = Missing /\ ~HasStore
  BY DEF Resting, PointInitIn, HasStore
<1>2. \A r \in 1 .. 2 : matched[r] = Missing /\ matched[r] # TRUE
  BY <1>1, PointAssumption
<1>3. ChangesAreOfData
  BY <1>2, Zenon DEF ChangesAreOfData
<1>4. LimitsAreMarked
  <2>1. 1 \in 1 .. 2
    OBVIOUS
  <2> QED BY <1>2, <2>1, Zenon DEF LimitsAreMarked
<1>5. StoredIsAccountedFor
  BY <1>1 DEF StoredIsAccountedFor
<1>6. AlarmIsDated
  BY <1>1, <1>2, Zenon DEF AlarmIsDated
<1>7. MeterAddsUp
  BY <1>1 DEF MeterAddsUp, IsMeter
<1> QED BY <1>3, <1>4, <1>5, <1>6, <1>7 DEF PointsAreExact

\* Whatever the other parts do, the nodes keep what they promise: those that keep
\* something between calls, the actions with outside effects and those that read and
\* write a data point (Surroundings).
THEOREM SurroundingsCorrect ==
  Spec => [](/\ FiresAreEarned /\ StoredStateIsExact /\ OutsideEffectsKept
             /\ ChangesAreOfData /\ PointsAreExact)
<1> DEFINE MovesOrRests == IF part = "points" THEN PointInv ELSE Resting
<1>1. Init => MovesOrRests
  BY StartsAreOfParts, PointInvInit DEF Resting
<1>2. MovesOrRests /\ [Next]_vars => MovesOrRests'
  <2> SUFFICES ASSUME MovesOrRests, [Next]_vars PROVE MovesOrRests'
    OBVIOUS
  <2>1. part' = part /\ [PointNext]_pointVars /\ (part # "points" => UNCHANGED pointVars)
    BY StepsAreOfParts
  <2>2. CASE part = "points"
    BY <2>1, <2>2, PointInvStep
  <2>3. CASE part # "points"
    BY <2>1, <2>3 DEF Resting, PointInitIn, pointVars
  <2> QED BY <2>2, <2>3
<1>3. MovesOrRests => ChangesAreOfData /\ PointsAreExact
  BY ToPoints, RestIsExact
<1> HIDE DEF MovesOrRests
<1>4. Spec => [](ChangesAreOfData /\ PointsAreExact)
  BY <1>1, <1>2, <1>3, PTL DEF Spec
<1> QED BY <1>4, PartsAreTheirOwn, FiresEarned, StoredExact, OutsideEffectsAreKept, PTL

=============================================================================
