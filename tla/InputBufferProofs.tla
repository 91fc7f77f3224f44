------------------------- MODULE InputBufferProofs -------------------------
(***************************************************************************)
(* Theorems about InputBuffer, for any devices, chains, inputs and objects:*)
(* a context has one holder, counts what is in it, leaves the buffer as    *)
(* soon as it is complete, and is handed over whole and left alone by      *)
(* everyone else until its callback returns.                               *)
(*                                                                         *)
(* The invariant says of each context of the cache that it is Good: what   *)
(* pooled objects keep of their last use is overwritten by Acquire, and    *)
(* AddPoint keeps points, Ready and Count in step.                         *)
(***************************************************************************)
EXTENDS InputBuffer, FiniteSetTheorems, TLAPS

Good(x, s) ==
  /\ x \in Contexts
  /\ x.owner = s /\ x.names = Inputs[s[2]]
  /\ x.ready = {p \in Points : x.points[p] # Nil}
  /\ x.ready \subseteq x.names
  /\ x.count = Cardinality(x.ready)

CacheGood == \A s \in Slots : entries[s] # Nil => Good(mdc[entries[s]], s)

Inv == TypeOK /\ OneHolder /\ CacheGood /\ FiredUntouched

-----------------------------------------------------------------------------
(* The context. *)

LEMMA SlotInputs ==
  ASSUME NEW s \in Slots
  PROVE  s[2] \in Chains /\ Inputs[s[2]] \subseteq Points /\ IsFiniteSet(Inputs[s[2]])
  BY BufferAssumption DEF Slots

LEMMA AcquiredIsGood ==
  ASSUME NEW s \in Slots, NEW o
  PROVE  Good(Acquired(o, s), s)
<1>1. Acquired(o, s) \in Contexts
  BY SlotInputs, BufferAssumption DEF Acquired, Contexts, NoPoints
<1>2. {p \in Points : NoPoints[p] # Nil} = {}
  BY DEF NoPoints
<1>3. QED
  BY <1>1, <1>2, FS_EmptySet DEF Good, Acquired

LEMMA AddPointIsGood ==
  ASSUME NEW s \in Slots, NEW x, Good(x, s),
         NEW p \in Inputs[s[2]], NEW v \in Values
  PROVE  Good(AddPoint(x, p, v), s)
<1> DEFINE y == AddPoint(x, p, v)
<1>1. /\ x \in Contexts /\ p \in x.names /\ p \in Points /\ v # Nil
      /\ x.names \subseteq Points /\ IsFiniteSet(x.names)
  BY SlotInputs, BufferAssumption DEF Good
<1>2. IsFiniteSet(x.ready)
  BY <1>1, FS_Subset DEF Good
<1>3. /\ y.owner = s /\ y.names = x.names
      /\ y.points = [x.points EXCEPT ![p] = v]
      /\ y.ready = x.ready \cup {p}
      /\ y.count = IF p \in x.ready THEN x.count ELSE x.count + 1
  BY <1>1 DEF AddPoint, Contexts, Good
<1>4. y \in Contexts
  <2>1. [x.points EXCEPT ![p] = v] \in [Points -> Values \cup {Nil}]
    BY <1>1 DEF Contexts
  <2>2. x.ready \cup {p} \in SUBSET Points
    BY <1>1 DEF Contexts
  <2>3. (IF p \in x.ready THEN x.count ELSE x.count + 1) \in Nat
    BY <1>1 DEF Contexts
  <2>4. y = [x EXCEPT !.points[p] = v, !.ready = @ \cup {p},
                      !.count = IF p \in x.ready THEN @ ELSE @ + 1, !.age = 0]
    BY <1>1 DEF AddPoint
  <2>5. 0 \in 0 .. Timeout + 1
    BY BufferAssumption
  <2>. HIDE DEF y
  <2>6. QED
    BY <1>1, <2>1, <2>2, <2>3, <2>4, <2>5 DEF Contexts
<1>5. y.ready = {q \in Points : y.points[q] # Nil}
  BY <1>1, <1>3 DEF Good, Contexts
<1>6. y.count = Cardinality(y.ready)
  <2>1. CASE p \in x.ready
    <3>1. y.ready = x.ready
      BY <2>1, <1>3
    <3>2. QED
      BY <2>1, <3>1, <1>3 DEF Good
  <2>2. CASE p \notin x.ready
    <3>1. Cardinality(x.ready \cup {p}) = Cardinality(x.ready) + 1
      BY <2>2, <1>2, FS_AddElement
    <3>2. y.count = x.count + 1 /\ y.ready = x.ready \cup {p} /\ x.count = Cardinality(x.ready)
      BY <2>2, <1>3 DEF Good
    <3>. HIDE DEF y
    <3>3. QED
      BY <3>1, <3>2
  <2>3. QED
    BY <2>1, <2>2
<1>7. QED
  BY <1>1, <1>3, <1>4, <1>5, <1>6 DEF Good

LEMMA CompleteIsWhole ==
  ASSUME NEW s \in Slots, NEW x, Good(x, s), Complete(x)
  PROVE  \A p \in Inputs[s[2]] : x.points[p] # Nil
<1>1. x.ready = x.names
  BY SlotInputs, FS_Subset DEF Good, Complete
<1>2. QED
  BY <1>1, SlotInputs DEF Good

LEMMA BlankType == Blank \in Contexts
<1>1. PICK d \in Devices, c \in Chains : TRUE
  BY BufferAssumption
<1>2. <<d, c>> \in Slots
  BY DEF Slots
<1>3. (CHOOSE s \in Slots : TRUE) \in Slots
  BY <1>2
<1>4. QED
  BY <1>3, BufferAssumption DEF Blank, Contexts, NoPoints

LEMMA ReleasedType ==
  ASSUME NEW x \in Contexts
  PROVE  Released(x) \in Contexts
  BY DEF Released, Contexts, NoPoints

-----------------------------------------------------------------------------
(* The steps. *)

LEMMA InitInv == BufferInit => Inv
<1> SUFFICES ASSUME BufferInit PROVE Inv
  OBVIOUS
<1>1. Blank \in Contexts
  BY BlankType
<1>2. TypeOK
  BY <1>1 DEF BufferInit, TypeOK, NoPoints
<1>3. OneHolder /\ CacheGood /\ FiredUntouched
  BY DEF BufferInit, OneHolder, Cached, CacheGood, FiredUntouched
<1>4. QED
  BY <1>2, <1>3 DEF Inv

LEMMA DropInv ==
  ASSUME Inv, NEW S \in SUBSET Slots, Drop(S), UNCHANGED <<firing, given>>,
         callback' \in BOOLEAN, ticker' \in BOOLEAN, done' \in BOOLEAN, loop' \in BOOLEAN
  PROVE  Inv'
<1> DEFINE gone == {entries[s] : s \in S} \ {Nil}
<1>0. TypeOK /\ OneHolder /\ CacheGood /\ FiredUntouched
  BY DEF Inv
<1>1. /\ mdc' = [o \in Objects |-> IF o \in gone THEN Released(mdc[o]) ELSE mdc[o]]
      /\ pool' = pool \cup gone
      /\ entries' = [s \in Slots |-> IF s \in S THEN Nil ELSE entries[s]]
      /\ gone \subseteq Cached /\ Cached \subseteq Objects
  BY <1>0 DEF Drop, Cached, TypeOK
<1>2. TypeOK'
  <2>1. mdc' \in [Objects -> Contexts]
    BY <1>0, <1>1, ReleasedType DEF TypeOK
  <2>2. QED
    BY <2>1, <1>0, <1>1 DEF TypeOK
<1>3. Cached' = Cached \ gone
  <2>1. \A s \in Slots : entries[s] \in gone => s \in S
    BY <1>0 DEF OneHolder
  <2>2. QED
    BY <2>1, <1>1 DEF Cached
<1>4. OneHolder'
  BY <1>0, <1>1, <1>3 DEF OneHolder
<1>5. CacheGood'
  <2>1. \A s \in Slots : entries'[s] # Nil =>
          entries'[s] = entries[s] /\ mdc'[entries[s]] = mdc[entries[s]]
    BY <1>0, <1>1 DEF OneHolder, TypeOK
  <2>2. QED
    BY <2>1, <1>0 DEF CacheGood, Good
<1>6. FiredUntouched'
  <2>1. \A o \in firing : mdc'[o] = mdc[o]
    BY <1>0, <1>1 DEF OneHolder, TypeOK
  <2>2. QED
    BY <2>1, <1>0 DEF FiredUntouched
<1>7. QED
  BY <1>2, <1>4, <1>5, <1>6 DEF Inv

LEMMA AddInv ==
  ASSUME Inv, NEW s \in Slots, NEW p \in Points, NEW v \in Values, Add(s, p, v)
  PROVE  Inv'
<1>0. TypeOK /\ OneHolder /\ CacheGood /\ FiredUntouched
  BY DEF Inv
<1> PICK o \in Candidates(s) :
      LET x == AddPoint(IF entries[s] = Nil THEN Acquired(o, s) ELSE mdc[o], p, v)
          fire == Complete(x) /\ callback IN
      /\ p \in Inputs[s[2]]
      /\ mdc' = [mdc EXCEPT ![o] = x]
      /\ pool' = pool \ {o}
      /\ firing' = IF fire THEN firing \cup {o} ELSE firing
      /\ given' = IF fire THEN [given EXCEPT ![o] = x.points] ELSE given
      /\ entries' = [entries EXCEPT ![s] = IF fire THEN Nil ELSE o]
      /\ UNCHANGED <<callback, ticker, done, loop>>
  BY DEF Add
<1> DEFINE base == IF entries[s] = Nil THEN Acquired(o, s) ELSE mdc[o]
           x == AddPoint(base, p, v)
           fire == Complete(x) /\ callback
<1>1. /\ o \in Objects /\ o \notin firing /\ o # Nil
      /\ \A t \in Slots : entries[t] = o => t = s
      /\ entries[s] # Nil => entries[s] = o
  BY <1>0, BufferAssumption DEF Candidates, Unborn, OneHolder, TypeOK, Cached
<1>2. Good(base, s)
  <2>1. CASE entries[s] = Nil
    BY <2>1, AcquiredIsGood
  <2>2. CASE entries[s] # Nil
    BY <2>2, <1>0, <1>1 DEF CacheGood
  <2>3. QED
    BY <2>1, <2>2
<1>3. Good(x, s)
  BY <1>2, AddPointIsGood
<1> HIDE DEF base, x
<1>4. x \in Contexts /\ x.owner = s /\ x.points \in [Points -> Values \cup {Nil}]
  BY <1>3 DEF Good, Contexts
<1>5. TypeOK'
  BY <1>0, <1>1, <1>4 DEF TypeOK, x, base
<1>6. /\ \A t \in Slots : t # s => entries'[t] = entries[t]
      /\ entries'[s] = IF fire THEN Nil ELSE o
      /\ mdc'[o] = x
      /\ \A q \in Objects : q # o => mdc'[q] = mdc[q]
      /\ firing' = IF fire THEN firing \cup {o} ELSE firing
      /\ pool' = pool \ {o}
      /\ fire => given'[o] = x.points
      /\ \A q \in Objects : q # o => given'[q] = given[q]
  BY <1>0, <1>1 DEF TypeOK, x, base
<1>7. OneHolder'
  <2>1. Cached' \subseteq Cached \cup {o} /\ (fire => o \notin Cached')
    BY <1>1, <1>6 DEF Cached
  <2>2. /\ Cached' \cap pool' = {} /\ Cached' \cap firing' = {} /\ pool' \cap firing' = {}
    BY <2>1, <1>0, <1>1, <1>6 DEF OneHolder
  <2>3. \A t, u \in Slots : entries'[t] # Nil /\ entries'[t] = entries'[u] => t = u
    BY <1>0, <1>1, <1>6 DEF OneHolder
  <2>4. QED
    BY <2>2, <2>3 DEF OneHolder
<1>8. CacheGood'
  <2>1. \A t \in Slots : entries'[t] # Nil => Good(mdc'[entries'[t]], t)
    <3>1. ASSUME NEW t \in Slots, entries'[t] # Nil PROVE Good(mdc'[entries'[t]], t)
      <4>1. CASE t = s
        BY <4>1, <3>1, <1>3, <1>6
      <4>2. CASE t # s
        BY <4>2, <3>1, <1>0, <1>1, <1>6 DEF CacheGood, TypeOK
      <4>3. QED
        BY <4>1, <4>2
    <3>2. QED
      BY <3>1
  <2>2. QED
    BY <2>1 DEF CacheGood, Good
<1>9. FiredUntouched'
  <2>1. ASSUME NEW q \in firing' PROVE /\ mdc'[q].points = given'[q]
                                       /\ \A r \in Inputs[mdc'[q].owner[2]] : given'[q][r] # Nil
    <3>1. CASE q = o
      <4>1. fire
        BY <3>1, <2>1, <1>1, <1>6
      <4>2. \A r \in Inputs[s[2]] : x.points[r] # Nil
        BY <4>1, <1>3, CompleteIsWhole
      <4>3. QED
        BY <3>1, <4>1, <4>2, <1>4, <1>6
    <3>2. CASE q # o
      BY <3>2, <2>1, <1>0, <1>6 DEF FiredUntouched, TypeOK
    <3>3. QED
      BY <3>1, <3>2
  <2>2. QED
    BY <2>1 DEF FiredUntouched
<1>10. QED
  BY <1>5, <1>7, <1>8, <1>9 DEF Inv

LEMMA FinishInv ==
  ASSUME Inv, NEW o \in Objects, Finish(o)
  PROVE  Inv'
<1>0. TypeOK /\ OneHolder /\ CacheGood /\ FiredUntouched
  BY DEF Inv
<1>1. /\ o \in firing /\ firing' = firing \ {o}
      /\ mdc' = [mdc EXCEPT ![o] = Released(@)]
      /\ pool' = pool \cup {o}
      /\ given' = [given EXCEPT ![o] = NoPoints]
      /\ UNCHANGED <<entries, callback, ticker, done, loop>>
  BY DEF Finish
<1>2. TypeOK'
  BY <1>0, <1>1, ReleasedType DEF TypeOK, NoPoints
<1>3. Cached' = Cached
  BY <1>1 DEF Cached
<1>4. OneHolder'
  BY <1>0, <1>1, <1>3 DEF OneHolder
<1>5. \A q \in Objects : q # o => mdc'[q] = mdc[q] /\ given'[q] = given[q]
  BY <1>0, <1>1 DEF TypeOK
<1>6. CacheGood'
  <2>1. \A s \in Slots : entries[s] # Nil => entries[s] \in Objects /\ entries[s] # o
    BY <1>0, <1>1 DEF OneHolder, Cached, TypeOK
  <2>2. QED
    BY <2>1, <1>0, <1>1, <1>5 DEF CacheGood, Good
<1>7. FiredUntouched'
  BY <1>0, <1>1, <1>5 DEF FiredUntouched, TypeOK
<1>8. QED
  BY <1>2, <1>4, <1>6, <1>7 DEF Inv

LEMMA PoolForgetsInv ==
  ASSUME Inv, PoolForgets
  PROVE  Inv'
<1>0. TypeOK /\ OneHolder /\ CacheGood /\ FiredUntouched
  BY DEF Inv
<1> PICK o \in pool : /\ pool' = pool \ {o}
                      /\ mdc' = [mdc EXCEPT ![o] = Blank]
                      /\ UNCHANGED <<entries, firing, callback, ticker, done, loop, given>>
  BY DEF PoolForgets
<1>1. Blank \in Contexts
  BY BlankType
<1>2. TypeOK'
  BY <1>0, <1>1 DEF TypeOK
<1>3. Cached' = Cached
  BY DEF Cached
<1>4. OneHolder'
  BY <1>0, <1>3 DEF OneHolder
<1>5. \A q \in Objects : q # o => mdc'[q] = mdc[q]
  BY <1>0 DEF TypeOK
<1>6. CacheGood'
  <2>1. \A s \in Slots : entries[s] # Nil => entries[s] \in Objects /\ entries[s] # o
    BY <1>0 DEF OneHolder, Cached, TypeOK
  <2>2. QED
    BY <2>1, <1>0, <1>5 DEF CacheGood, Good
<1>7. FiredUntouched'
  BY <1>0, <1>5 DEF FiredUntouched, TypeOK, OneHolder
<1>8. QED
  BY <1>2, <1>4, <1>6, <1>7 DEF Inv

LEMMA TickInv ==
  ASSUME Inv, Tick
  PROVE  Inv'
<1>0. TypeOK /\ OneHolder /\ CacheGood /\ FiredUntouched
  BY DEF Inv
<1>1. /\ mdc' = [o \in Objects |->
               IF o \in Cached /\ mdc[o].age <= Timeout THEN [mdc[o] EXCEPT !.age = @ + 1]
                                                        ELSE mdc[o]]
      /\ UNCHANGED <<entries, pool, firing, callback, ticker, done, loop, given>>
  BY DEF Tick
<1>2. \A o \in Objects :
        /\ mdc'[o] \in Contexts
        /\ mdc'[o].owner = mdc[o].owner /\ mdc'[o].points = mdc[o].points
        /\ mdc'[o].ready = mdc[o].ready /\ mdc'[o].names = mdc[o].names
        /\ mdc'[o].count = mdc[o].count
  <2>1. ASSUME NEW y \in Contexts, y.age <= Timeout
        PROVE  LET z == [y EXCEPT !.age = @ + 1] IN
               /\ z \in Contexts /\ z.owner = y.owner /\ z.points = y.points
               /\ z.ready = y.ready /\ z.names = y.names /\ z.count = y.count
    BY <2>1, BufferAssumption DEF Contexts
  <2>2. QED
    BY <2>1, <1>0, <1>1 DEF TypeOK
<1>3. TypeOK'
  BY <1>0, <1>1, <1>2 DEF TypeOK
<1>4. OneHolder'
  BY <1>0, <1>1 DEF OneHolder, Cached
<1>5. CacheGood'
  <2>1. \A s \in Slots : entries[s] # Nil => entries[s] \in Objects
    BY <1>0 DEF TypeOK
  <2>2. QED
    BY <2>1, <1>0, <1>1, <1>2 DEF CacheGood, Good
<1>6. FiredUntouched'
  BY <1>0, <1>1, <1>2 DEF FiredUntouched, TypeOK
<1>7. QED
  BY <1>3, <1>4, <1>5, <1>6 DEF Inv

\* The steps that leave entries, contexts, pool and callbacks alone.
LEMMA FlagsInv ==
  ASSUME Inv, UNCHANGED <<entries, mdc, pool, firing, given>>,
         callback' \in BOOLEAN, ticker' \in BOOLEAN, done' \in BOOLEAN, loop' \in BOOLEAN
  PROVE  Inv'
  BY DEF Inv, TypeOK, OneHolder, Cached, CacheGood, Good, FiredUntouched

LEMMA NextInv == Inv /\ [Next]_bufferVars => Inv'
<1> SUFFICES ASSUME Inv, [Next]_bufferVars PROVE Inv'
  OBVIOUS
<1>0. callback \in BOOLEAN /\ ticker \in BOOLEAN /\ done \in BOOLEAN /\ loop \in BOOLEAN
  BY DEF Inv, TypeOK
<1>1. ASSUME NEW s \in Slots, NEW p \in Points, NEW v \in Values, Add(s, p, v) PROVE Inv'
  BY <1>1, AddInv
<1>2. ASSUME NEW d \in Devices, Remove(d) PROVE Inv'
  <2>1. {s \in Slots : s[1] = d} \in SUBSET Slots
    OBVIOUS
  <2>2. QED
    BY <1>2, <2>1, <1>0, DropInv DEF Remove
<1>3. CASE Clear
  BY <1>3, <1>0, DropInv DEF Clear
<1>4. CASE Stop
  BY <1>4, <1>0, DropInv DEF Stop
<1>5. CASE Cleanup
  <2>1. Expired \in SUBSET Slots
    BY DEF Expired
  <2>2. QED
    BY <1>5, <2>1, <1>0, DropInv DEF Cleanup
<1>6. CASE LoopEnds
  BY <1>6, <1>0, FlagsInv DEF LoopEnds
<1>7. CASE SetTriggerCallback
  BY <1>7, <1>0, FlagsInv DEF SetTriggerCallback
<1>8. CASE PoolForgets
  BY <1>8, PoolForgetsInv
<1>9. CASE CtxDone
  BY <1>9, <1>0, FlagsInv DEF CtxDone
<1>10. CASE Tick
  BY <1>10, TickInv
<1>11. ASSUME NEW o \in Objects, Finish(o) PROVE Inv'
  BY <1>11, FinishInv
<1>12. CASE UNCHANGED bufferVars
  BY <1>12, <1>0, FlagsInv DEF bufferVars
<1>13. QED
  BY <1>1, <1>2, <1>3, <1>4, <1>5, <1>6, <1>7, <1>8, <1>9, <1>10, <1>11, <1>12 DEF Next

LEMMA Invariance == Spec => []Inv
  BY InitInv, NextInv, PTL DEF Spec

-----------------------------------------------------------------------------
\* Each context has one holder at a time, its slot, its callback or the pool, and
\* the count it is judged by is the number of its inputs that have come.
THEOREM ContextsCorrect == Spec => []ContextsExact
<1>1. Inv => ContextsExact
  BY DEF Inv, CacheGood, Good, CountExact, ContextsExact
<1>2. QED
  BY Invariance, <1>1, PTL

\* A callback gets a context with all inputs of its chain, and no one changes it
\* before the callback returns.
THEOREM FiredCorrect == Spec => []FiredUntouched
<1>1. Inv => FiredUntouched
  BY DEF Inv
<1>2. QED
  BY Invariance, <1>1, PTL
\* A step that takes contexts out of the cache and leaves those that stay as
\* they were, but for their age.
LEMMA CacheOnlyShrinks ==
  ASSUME \A s \in Slots : entries'[s] # Nil =>
           entries'[s] = entries[s] /\ mdc'[entries[s]].points = mdc[entries[s]].points
  PROVE  \A s \in Slots :
           callback /\ entries'[s] # Nil /\ Complete(mdc'[entries'[s]])
             => entries'[s] = entries[s] /\ mdc'[entries[s]].points = mdc[entries[s]].points
  OBVIOUS

LEMMA DropShrinks ==
  ASSUME Inv, NEW S \in SUBSET Slots, Drop(S)
  PROVE  \A s \in Slots : entries'[s] # Nil =>
           entries'[s] = entries[s] /\ mdc'[entries[s]].points = mdc[entries[s]].points
<1> SUFFICES ASSUME NEW s \in Slots, entries'[s] # Nil
             PROVE  entries'[s] = entries[s] /\ mdc'[entries[s]].points = mdc[entries[s]].points
  OBVIOUS
<1>1. s \notin S /\ entries'[s] = entries[s] /\ entries[s] \in Objects
  BY DEF Drop, Inv, TypeOK
<1>2. entries[s] \notin {entries[t] : t \in S} \ {Nil}
  BY <1>1 DEF Inv, OneHolder
<1> QED BY <1>1, <1>2 DEF Drop

\* With a callback set, a context that has become complete is not in the cache:
\* whoever completed it has handed it over.
THEOREM CompleteContextsLeave == Spec => CompleteLeaves
<1> DEFINE Leaves == \A s \in Slots :
             callback /\ entries'[s] # Nil /\ Complete(mdc'[entries'[s]])
               => entries'[s] = entries[s] /\ mdc'[entries[s]].points = mdc[entries[s]].points
<1>1. ASSUME Inv, Next PROVE Leaves
  <2>0. TypeOK /\ OneHolder
    BY <1>1 DEF Inv
  <2>1. ASSUME NEW s \in Slots, NEW p \in Points, NEW v \in Values, Add(s, p, v) PROVE Leaves
    <3>1. PICK o, x :
            /\ o \in Candidates(s)
            /\ mdc' = [mdc EXCEPT ![o] = x]
            /\ entries' = [entries EXCEPT ![s] = IF Complete(x) /\ callback THEN Nil ELSE o]
      BY <2>1 DEF Add
    <3>2. o \in Objects /\ \A t \in Slots : entries[t] = o => t = s
      BY <2>0, <3>1, BufferAssumption DEF Candidates, Unborn, OneHolder, TypeOK, Cached
    <3> SUFFICES ASSUME NEW t \in Slots, callback, entries'[t] # Nil, Complete(mdc'[entries'[t]])
                 PROVE  entries'[t] = entries[t] /\ mdc'[entries[t]].points = mdc[entries[t]].points
      OBVIOUS
    <3>3. CASE t = s
      <4>1. entries'[t] = o /\ ~Complete(x)
        BY <2>0, <3>1, <3>3 DEF TypeOK
      <4>2. mdc'[o] = x
        BY <2>0, <3>1, <3>2 DEF TypeOK
      <4> QED BY <4>1, <4>2
    <3>4. CASE t # s
      <4>1. entries'[t] = entries[t] /\ entries[t] \in Objects /\ entries[t] # o
        BY <2>0, <3>1, <3>2, <3>4 DEF TypeOK
      <4> QED BY <2>0, <3>1, <4>1 DEF TypeOK
    <3> QED BY <3>3, <3>4
  <2>2. ASSUME NEW d \in Devices, Remove(d) PROVE Leaves
    <3>1. {s \in Slots : s[1] = d} \in SUBSET Slots
      OBVIOUS
    <3> QED BY <1>1, <2>2, <3>1, DropShrinks, CacheOnlyShrinks DEF Remove
  <2>3. CASE Clear \/ Stop \/ Cleanup
    <3>1. Expired \in SUBSET Slots /\ Slots \in SUBSET Slots
      BY DEF Expired
    <3> QED BY <1>1, <2>3, <3>1, DropShrinks, CacheOnlyShrinks DEF Clear, Stop, Cleanup
  <2>4. CASE LoopEnds \/ SetTriggerCallback \/ CtxDone
    BY <2>4, CacheOnlyShrinks DEF LoopEnds, SetTriggerCallback, CtxDone
  <2>5. ASSUME NEW o \in Objects, o \notin Cached, NEW x, mdc' = [mdc EXCEPT ![o] = x],
               entries' = entries
        PROVE  Leaves
    <3>1. \A s \in Slots : entries[s] # Nil => entries[s] \in Objects /\ entries[s] # o
      BY <2>0, <2>5 DEF Cached, TypeOK
    <3> QED BY <2>0, <2>5, <3>1, CacheOnlyShrinks DEF TypeOK
  <2>6. ASSUME NEW o \in Objects, Finish(o) PROVE Leaves
    BY <2>0, <2>5, <2>6 DEF Finish, OneHolder
  <2>7. CASE PoolForgets
    BY <2>0, <2>5, <2>7 DEF PoolForgets, OneHolder, TypeOK
  <2>8. CASE Tick
    <3>1. \A o \in Objects : mdc'[o].points = mdc[o].points
      BY <2>0, <2>8 DEF Tick, TypeOK, Contexts
    <3> QED BY <2>0, <2>8, <3>1, CacheOnlyShrinks DEF Tick, TypeOK
  <2> QED BY <1>1, <2>1, <2>2, <2>3, <2>4, <2>6, <2>7, <2>8 DEF Next
<1>2. Inv /\ [Next]_bufferVars => [Leaves]_bufferVars
  BY <1>1
<1> QED BY Invariance, <1>2, PTL DEF Spec, CompleteLeaves
=============================================================================
