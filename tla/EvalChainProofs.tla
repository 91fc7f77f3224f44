---------------------------- MODULE EvalChainProofs ----------------------------
(***************************************************************************)
(* Theorems about EvalChain: what a result says, and how a call is         *)
(* counted, for every chain, whatever the collaborators answer and         *)
(* whenever the context ends.                                              *)
(***************************************************************************)
EXTENDS EvalChain, TLAPS

-----------------------------------------------------------------------------
(* The inductive invariant                                                 *)

\* The stages before a rule has matched, after, and after its first failure.
Unmatched == {"loop", "condition"}
Failed == {"consult", "retry", "fallback", "failed"}
Matched == {"action"} \union Failed
Ended == {"exiting", "returned"}

Last(s) == s[Len(s)]

\* How often the actions of a rule were executed, and how often what happens
\* once per call has happened.
Counts ==
    /\ pc \in {"condition"} \union Matched => rule <= N
    /\ pc \in {"start", "action"} \union Unmatched => \A r \in rule..N : executions[r] = 0
    /\ pc \in Failed => \A r \in rule+1..N : executions[r] = 0
    /\ pc \in Failed \ {"failed"} => executions[rule] = 1
    /\ pc \notin {"panicked"} \union Ended => saved = 0
    /\ hooks = saved
    /\ pc = "start" => evalTotal["backpressure_dropped"] = 0
    /\ \A c \in Classes \ {"backpressure_dropped"} :
           evalTotal[c] = IF pc = "returned" /\ c = evalResult THEN 1 ELSE 0

\* Where the positions in the three lists are, relative to the current rule.
Order ==
    /\ Increasing(matched) /\ Increasing(targets)
    /\ \A i \in DOMAIN matched : matched[i] <= rule /\ (pc \in Unmatched => matched[i] < rule)
    /\ \A i \in DOMAIN targets : targets[i] <= rule /\ (pc \in Unmatched \union Matched => targets[i] < rule)
    /\ pc = "start" => rule = 1 /\ matched = << >> /\ targets = << >> /\ errors = << >>
    /\ pc \in Unmatched \union {"action"} => \A i \in DOMAIN errors : errors[i] < rule
    /\ pc \in Failed => \A i \in DOMAIN errors : errors[i] <= rule
    /\ pc \in Matched => matched # << >> /\ Last(matched) = rule
    /\ pc \in Failed => errors # << >> /\ Last(errors) = rule

\* Which list every matched rule is in, until a panic replaces the result.
Settled(r) ==
    /\ InSeq(r, matched) <=> InSeq(r, targets) \/ InSeq(r, errors)
    /\ executions[r] = 2 => InSeq(r, errors)
    /\ InSeq(r, targets) /\ ~InSeq(r, errors) =>
           executions[r] = IF SortedRules[r].acts THEN 1 ELSE 0
Accounts ==
    /\ pc \in Unmatched \union Failed \union {"finishing"} => \A r \in 1..N : Settled(r)
    /\ pc = "action" => \A r \in 1..N \ {rule} : Settled(r)
    /\ pc = "action" => SortedRules[rule].acts
    /\ pc \in Ended /\ ending # "none" /\ err # "panic" => \A r \in 1..N : Settled(r)

\* How the loop ended, and what is returned for it.
Outcome ==
    /\ pc \notin {"finishing", "panicked"} \union Ended => ending = "none"
    /\ pc = "finishing" => ending # "none"
    /\ pc \notin Ended => evalResult = "unmatched" /\ err = "nil"
    /\ pc \notin {"panicked"} \union Ended => reported = FALSE
    /\ pc \notin Ended /\ targets # << >> => matched # << >>
    /\ mode = "First" /\ pc \in Unmatched \union Matched => targets = << >>
    /\ mode = "First" /\ targets # << >> => Len(targets) = 1
    /\ mode = "First" /\ targets # << >> /\ err # "panic" => Last(targets) = Last(matched)
    /\ pc = "finishing" /\ ending = "dropped" =>
           dropped /\ targets # << >> /\ Last(targets) = Last(matched)
    /\ pc = "finishing" /\ ending = "abort" =>
           /\ errors # << >> /\ Last(errors) = Last(matched)
           /\ ~InSeq(Last(errors), targets)
    /\ pc \in Ended =>
           /\ evalResult = "dropped" <=> reported
           /\ evalResult = "errored" <=> err # "nil"
           /\ evalResult = "unmatched" => matched = << >> /\ targets = << >>
           /\ ending # "none" /\ err # "panic" => hooks = 1
           /\ reported => /\ dropped /\ err = "nil"
                          /\ targets # << >> /\ Last(targets) = Last(matched)
           /\ err = "action" => /\ errors # << >> /\ Last(errors) = Last(matched)
                                /\ ~InSeq(Last(errors), targets)

Inv == TypeOK /\ Counts /\ Order /\ Accounts /\ Outcome

-----------------------------------------------------------------------------
(* Sequences that grow at the end                                          *)

\* Appending adds one member.
LEMMA AppendMembers ==
    ASSUME NEW S, NEW s \in Seq(S), NEW e \in S, NEW x
    PROVE  InSeq(x, Append(s, e)) <=> InSeq(x, s) \/ x = e
  <1>1. ASSUME InSeq(x, Append(s, e)) PROVE InSeq(x, s) \/ x = e
    <2>1. PICK i \in DOMAIN Append(s, e) : Append(s, e)[i] = x
      BY <1>1 DEF InSeq
    <2>. QED
      BY <2>1 DEF InSeq
  <1>2. ASSUME InSeq(x, s) PROVE InSeq(x, Append(s, e))
    <2>1. PICK i \in DOMAIN s : s[i] = x
      BY <1>2 DEF InSeq
    <2>2. i \in DOMAIN Append(s, e) /\ Append(s, e)[i] = x
      BY <2>1
    <2>. QED
      BY <2>2 DEF InSeq
  <1>3. ASSUME x = e PROVE InSeq(x, Append(s, e))
    <2>1. Len(s) + 1 \in DOMAIN Append(s, e) /\ Append(s, e)[Len(s) + 1] = x
      BY <1>3
    <2>. QED
      BY <2>1 DEF InSeq
  <1>. QED
    BY <1>1, <1>2, <1>3

\* Appending gives the last member.
LEMMA AppendLast ==
    ASSUME NEW S, NEW s \in Seq(S), NEW e \in S
    PROVE  Append(s, e) # << >> /\ Last(Append(s, e)) = e
  BY DEF Last

\* A sequence stays increasing when something larger is appended.
LEMMA AppendIncreasing ==
    ASSUME NEW m \in Nat, NEW s \in Seq(1..m), NEW e \in 1..m,
           Increasing(s), \A i \in DOMAIN s : s[i] < e
    PROVE  /\ Increasing(Append(s, e))
           /\ \A i \in DOMAIN Append(s, e) : Append(s, e)[i] <= e
  BY DEF Increasing

-----------------------------------------------------------------------------
(* A rule that takes effect                                                *)

USE DEF config, onData, result, meters

\* The chain is finite.
LEMMA LengthNat == N \in Nat
  BY RulesTyped DEF N

\* The targets of the rule are added, and the loop goes on or ends.
TookEffect ==
    /\ targets' = Append(targets, rule)
    /\ \/ pc' = "loop" /\ rule' = rule + 1 /\ ending' = ending /\ mode # "First"
       \/ pc' = "finishing" /\ rule' = rule /\ ending' = "end"
       \/ pc' = "finishing" /\ rule' = rule /\ ending' = "dropped" /\ mode # "First"

\* A first success makes the rule take effect.
LEMMA AfterSuccessEffect == ASSUME NEW d, AfterSuccess(d) PROVE TookEffect
  <1>1. CASE mode = "First"
    BY <1>1 DEF AfterSuccess, EndLoop, TookEffect
  <1>2. CASE mode # "First" /\ d
    BY <1>2 DEF AfterSuccess, EndLoop, TookEffect
  <1>3. CASE mode # "First" /\ ~d
    BY <1>3 DEF AfterSuccess, NextRule, TookEffect
  <1>. QED  BY <1>1, <1>2, <1>3

\* It ends the call as dropped only when the data is.
LEMMA AfterSuccessDrop ==
    ASSUME NEW d, AfterSuccess(d), ending' = "dropped", pc' = "finishing" PROVE d
  BY DEF AfterSuccess, EndLoop, NextRule

\* A second success makes the rule take effect, and never ends the call as dropped.
LEMMA SecondSuccessEffect ==
    ASSUME SecondSuccess
    PROVE  TookEffect /\ ~(ending' = "dropped" /\ ending # "dropped")
  BY DEF SecondSuccess, EndLoop, NextRule, TookEffect

\* What the lists of a state say to the rule that takes effect.
LEMMA EffectOrder ==
    ASSUME TypeOK, TookEffect, rule \in 1..N, errors' = errors,
           Increasing(targets), \A i \in DOMAIN targets : targets[i] < rule,
           matched' \in Seq(1..N), Increasing(matched'),
           \A i \in DOMAIN matched' : matched'[i] <= rule,
           \A i \in DOMAIN errors : errors[i] <= rule
    PROVE  Order'
  <1>1. N \in Nat /\ targets \in Seq(1..N) /\ errors \in Seq(0..N)
    BY LengthNat DEF TypeOK, Positions
  <1>2. /\ Increasing(targets')
        /\ \A i \in DOMAIN targets' : targets'[i] <= rule
    BY <1>1, AppendIncreasing DEF TookEffect
  <1>3. targets' \in Seq(1..N)
    BY <1>1 DEF TookEffect
  <1>4. CASE pc' = "loop" /\ rule' = rule + 1
    <2>1. \A i \in DOMAIN targets' : targets'[i] < rule' /\ targets'[i] <= rule'
      BY <1>1, <1>2, <1>3, <1>4
    <2>2. \A i \in DOMAIN matched' : matched'[i] < rule' /\ matched'[i] <= rule'
      BY <1>1, <1>4
    <2>3. \A i \in DOMAIN errors' : errors'[i] < rule'
      BY <1>1, <1>4
    <2>4. Increasing(matched)' /\ Increasing(targets)'
      BY <1>2 DEF Increasing
    <2>. QED
      BY <1>4, <2>1, <2>2, <2>3, <2>4 DEF Order, Unmatched, Matched, Failed
  <1>5. CASE pc' = "finishing" /\ rule' = rule
    <2>1. Increasing(matched)' /\ Increasing(targets)'
      BY <1>2 DEF Increasing
    <2>. QED
      BY <1>2, <1>5, <2>1 DEF Order, Unmatched, Matched, Failed
  <1>. QED
    BY <1>4, <1>5 DEF TookEffect

\* Membership in a variable of the next state.
LEMMA PrimedInSeq ==
    ASSUME NEW r
    PROVE  /\ InSeq(r, targets)' <=> InSeq(r, targets')
           /\ InSeq(r, matched)' <=> InSeq(r, matched')
           /\ InSeq(r, errors)' <=> InSeq(r, errors')
  BY DEF InSeq

\* The rule that takes effect is settled by it, the others stay settled.
LEMMA EffectAccounts ==
    ASSUME TypeOK, TookEffect, rule \in 1..N, InSeq(rule, matched'), errors' = errors,
           \A r \in 1..N \ {rule} :
               /\ Settled(r)
               /\ executions'[r] = executions[r]
               /\ InSeq(r, matched') <=> InSeq(r, matched),
           InSeq(rule, errors) \/ executions'[rule] = IF SortedRules[rule].acts THEN 1 ELSE 0
    PROVE  Accounts'
  <1>1. \A r \in 1..N : InSeq(r, targets') <=> InSeq(r, targets) \/ r = rule
    <2>1. targets \in Seq(1..N) /\ targets' = Append(targets, rule)
      BY DEF TookEffect, TypeOK, Positions
    <2>. QED
      BY <2>1, AppendMembers
  <1>2. \A r \in 1..N : InSeq(r, errors') <=> InSeq(r, errors)
    OBVIOUS
  <1>3. ASSUME NEW r \in 1..N PROVE Settled(r)'
    <2>1. CASE r # rule
      <3>1. Settled(r) /\ executions'[r] = executions[r]
        BY <2>1
      <3>2. /\ InSeq(r, targets') <=> InSeq(r, targets)
            /\ InSeq(r, matched') <=> InSeq(r, matched)
            /\ InSeq(r, errors') <=> InSeq(r, errors)
        BY <1>1, <1>2, <2>1
      <3>. QED
        BY <3>1, <3>2, PrimedInSeq DEF Settled
    <2>2. CASE r = rule
      <3>1. InSeq(r, targets') /\ InSeq(r, matched') /\ (InSeq(r, errors') <=> InSeq(r, errors))
        BY <1>1, <1>2, <2>2
      <3>. QED
        BY <2>2, <3>1, PrimedInSeq DEF Settled
    <2>. QED  BY <2>1, <2>2
  <1>4. pc' # "action"
    BY DEF TookEffect
  <1>. QED
    BY <1>3, <1>4 DEF Accounts

\* A rule that takes effect was the last to match.
LEMMA EffectOutcome ==
    ASSUME TypeOK, Outcome, TookEffect, rule \in 1..N, pc \in {"condition"} \union Matched,
           UNCHANGED <<mode, errors, err, evalResult, reported>>,
           matched' # << >>, Last(matched') = rule,
           ending' = "dropped" => dropped'
    PROVE  Outcome'
  <1>1. targets \in Seq(1..N) /\ targets' = Append(targets, rule)
    BY DEF TypeOK, TookEffect, Positions
  <1>2. targets' # << >> /\ Last(targets') = Last(matched')
    BY <1>1, AppendLast
  <1>3. ending = "none" /\ evalResult' = "unmatched" /\ err' = "nil" /\ reported' = FALSE
    BY DEF Outcome, Matched, Failed, Ended
  <1>4. ASSUME mode' = "First" PROVE Len(targets') = 1 /\ pc' = "finishing"
    <2>1. targets = << >>
      BY <1>4 DEF Outcome, Matched, Failed, Unmatched
    <2>2. pc' = "finishing"
      BY <1>4 DEF TookEffect
    <2>. QED
      BY <1>1, <2>1, <2>2
  <1>5. CASE pc' = "loop" /\ ending' = ending /\ mode # "First"
    BY <1>2, <1>3, <1>4, <1>5 DEF Outcome, Unmatched, Matched, Failed, Ended, Last
  <1>6. CASE pc' = "finishing" /\ ending' = "end"
    BY <1>2, <1>3, <1>4, <1>6 DEF Outcome, Unmatched, Matched, Failed, Ended, Last
  <1>7. CASE pc' = "finishing" /\ ending' = "dropped" /\ mode # "First"
    BY <1>2, <1>3, <1>4, <1>7 DEF Outcome, Unmatched, Matched, Failed, Ended, Last
  <1>. QED
    BY <1>5, <1>6, <1>7 DEF TookEffect

\* The four steps by which a rule takes effect: it matches and has no actions,
\* its actions succeed at once, on the retry, or are replaced by the fallback.
Effective == (Match /\ ~SortedRules[rule].acts) \/ ExecuteOk \/ RetryOk \/ FallbackOk

\* A match appends the rule to the matched ones.
LEMMA MatchAppends ==
    ASSUME TypeOK, Counts, Order, Match
    PROVE  /\ rule \in 1..N /\ errors' = errors
           /\ matched' \in Seq(1..N) /\ Increasing(matched')
           /\ \A i \in DOMAIN matched' : matched'[i] <= rule
           /\ \A r \in 1..N : InSeq(r, matched') <=> InSeq(r, matched) \/ r = rule
           /\ matched' # << >> /\ Last(matched') = rule
  <1>1. N \in Nat /\ rule \in 1..N /\ matched \in Seq(1..N) /\ matched' = Append(matched, rule)
    BY LengthNat DEF TypeOK, Counts, Matched, Match, Positions
  <1>2. Increasing(matched) /\ \A i \in DOMAIN matched : matched[i] < rule
    BY DEF Order, Match, Unmatched
  <1>3. errors' = errors /\ matched' \in Seq(1..N)
    BY <1>1 DEF Match
  <1>4. Increasing(matched') /\ \A i \in DOMAIN matched' : matched'[i] <= rule
    BY <1>1, <1>2, AppendIncreasing
  <1>5. \A r \in 1..N : InSeq(r, matched') <=> InSeq(r, matched) \/ r = rule
    BY <1>1, AppendMembers
  <1>6. matched' # << >> /\ Last(matched') = rule
    BY <1>1, AppendLast
  <1>. QED
    BY <1>1, <1>3, <1>4, <1>5, <1>6

\* What the four steps have in common.
LEMMA EffectiveStep ==
    ASSUME TypeOK, Counts, Order, Outcome, Effective
    PROVE  /\ TookEffect
           /\ pc \in {"condition"} \union Matched
           /\ UNCHANGED <<mode, errors, err, evalResult, reported>>
           /\ ending' = "dropped" => dropped'
           /\ rule \in 1..N
           /\ matched' \in Seq(1..N) /\ Increasing(matched')
           /\ \A i \in DOMAIN matched' : matched'[i] <= rule
           /\ \A r \in 1..N \ {rule} : InSeq(r, matched') <=> InSeq(r, matched)
           /\ InSeq(rule, matched')
           /\ matched' # << >> /\ Last(matched') = rule
  <1>1. CASE Match /\ ~SortedRules[rule].acts
    <2>1. AfterSuccess(dropped)
      BY <1>1 DEF Match
    <2>2. TookEffect
      BY <2>1, AfterSuccessEffect
    <2>3. pc = "condition" /\ UNCHANGED <<mode, dropped, errors, err, evalResult, reported>>
      BY <1>1 DEF Match
    <2>4. ASSUME ending' = "dropped" PROVE dropped
      <3>1. ending = "none"
        BY <2>3 DEF Outcome, Ended
      <3>2. pc' = "finishing"
        BY <2>1, <2>4, <3>1 DEF AfterSuccess, EndLoop
      <3>. QED
        BY <2>1, <2>4, <3>2, AfterSuccessDrop
    <2>. QED
      BY <1>1, <2>2, <2>3, <2>4, MatchAppends
  <1>2. CASE ExecuteOk \/ RetryOk \/ FallbackOk
    <2>1. TookEffect
      BY <1>2, AfterSuccessEffect, SecondSuccessEffect DEF ExecuteOk, RetryOk, FallbackOk
    <2>2. pc \in Matched /\ UNCHANGED <<mode, matched, errors, err, evalResult, reported>>
      BY <1>2 DEF ExecuteOk, RetryOk, FallbackOk, Matched, Failed
    <2>3. ASSUME ending' = "dropped" PROVE dropped'
      <3>1. ending = "none"
        BY <2>2 DEF Outcome, Matched, Failed, Ended
      <3>2. CASE ExecuteOk
        <4>1. AfterSuccess(dropped')
          BY <3>2 DEF ExecuteOk
        <4>2. pc' = "finishing"
          BY <2>3, <3>1, <4>1 DEF AfterSuccess, EndLoop
        <4>. QED
          BY <2>3, <4>1, <4>2, AfterSuccessDrop
      <3>3. CASE SecondSuccess
        BY <2>3, <3>1, <3>3, SecondSuccessEffect
      <3>. QED
        BY <1>2, <3>2, <3>3 DEF RetryOk, FallbackOk
    <2>4. N \in Nat /\ rule \in 1..N /\ matched \in Seq(1..N)
      BY <2>2, LengthNat DEF TypeOK, Counts, Positions
    <2>5. Increasing(matched) /\ matched # << >> /\ Last(matched) = rule
          /\ \A i \in DOMAIN matched : matched[i] <= rule
      BY <2>2 DEF Order
    <2>6. InSeq(rule, matched)
      BY <2>4, <2>5 DEF InSeq, Last
    <2>. QED
      BY <2>1, <2>2, <2>3, <2>4, <2>5, <2>6
  <1>. QED
    BY <1>1, <1>2 DEF Effective

-----------------------------------------------------------------------------
(* The invariant is inductive: one step per action                         *)

\* A drop mark stays a truth value.
LEMMA DropTyped == ASSUME dropped \in BOOLEAN, MayDrop PROVE dropped' \in BOOLEAN
  BY Zenon DEF MayDrop

\* Every step keeps the variables in their types.
LEMMA TypeNext == Inv /\ [Next]_vars => TypeOK'
  <1>. SUFFICES ASSUME Inv, [Next]_vars PROVE TypeOK'
    OBVIOUS
  <1>1. Inv /\ N \in Nat /\ (MayDrop => dropped' \in BOOLEAN)
    BY LengthNat, DropTyped DEF Inv, TypeOK
  <1>2. CASE Match
    <2>1. rule \in 1..N /\ matched \in Seq(1..N) /\ targets \in Seq(1..N)
      BY <1>1, <1>2 DEF Inv, Match, Counts, TypeOK, Positions
    <2>2. Append(matched, rule) \in Positions /\ Append(targets, rule) \in Positions
      BY <2>1 DEF Positions
    <2>3. CASE SortedRules[rule].acts
      BY <1>1, <1>2, <2>2, <2>3 DEF Match, TypeOK, Inv, Pcs, Levels, Answers, Classes, Endings
    <2>4. CASE ~SortedRules[rule].acts
      <3>1. TookEffect
        BY <1>2, <2>4, AfterSuccessEffect DEF Match
      <3>. QED
        BY <1>1, <1>2, <2>1, <2>2, <3>1 DEF Match, TookEffect, TypeOK, Inv, Pcs, Endings
    <2>. QED  BY <2>3, <2>4
  <1>3. CASE Recover
    <2>1. << >> \in Seq(1..N) /\ <<0>> \in Seq(0..N)
      BY <1>1
    <2>. QED
      BY <1>1, <1>3, <2>1 DEF Recover, TypeOK, Inv, Pcs, Answers, Classes, Endings, Positions
  <1>. USE DEF Inv, TypeOK, Counts, Levels, Answers, Classes, Endings, Pcs, Positions,
         Unmatched, Failed, Matched, Ended
  <1>4. CASE Enter
    BY <1>1, <1>4 DEF Enter, Count
  <1>5. CASE LeaveLoop
    BY <1>1, <1>5 DEF LeaveLoop, EndLoop
  <1>6. CASE Skip
    BY <1>1, <1>6 DEF Skip, NextRule
  <1>7. CASE Begin
    BY <1>1, <1>7 DEF Begin
  <1>8. CASE NoMatch
    BY <1>1, <1>8 DEF NoMatch, NextRule
  <1>9. CASE ExecuteOk
    BY <1>1, <1>9 DEF ExecuteOk, AfterSuccess, EndLoop, NextRule
  <1>10. CASE ExecuteError
    BY <1>1, <1>10 DEF ExecuteError
  <1>11. CASE ConsultErrorHandler
    BY <1>1, <1>11 DEF ConsultErrorHandler
  <1>12. CASE RetryOk
    BY <1>1, <1>12 DEF RetryOk, SecondSuccess, EndLoop, NextRule
  <1>13. CASE RetryError
    BY <1>1, <1>13 DEF RetryError
  <1>14. CASE FallbackOk
    BY <1>1, <1>14 DEF FallbackOk, SecondSuccess, EndLoop, NextRule
  <1>15. CASE FallbackError
    BY <1>1, <1>15 DEF FallbackError
  <1>16. CASE AfterFailure
    BY <1>1, <1>16 DEF AfterFailure, AbortNow, EndLoop, NextRule
  <1>17. CASE Finish
    BY <1>1, <1>17 DEF Finish
  <1>18. CASE HookPanics
    BY <1>1, <1>18 DEF HookPanics
  <1>19. CASE Panic
    BY <1>1, <1>19 DEF Panic
  <1>20. CASE Exit
    BY <1>1, <1>20 DEF Exit, Count
  <1>21. CASE Cancel
    BY <1>1, <1>21 DEF Cancel
  <1>22. CASE UNCHANGED vars
    BY <1>1, <1>22 DEF vars
  <1>. HIDE DEF Inv, TypeOK, Counts, Levels, Answers, Classes, Endings, Pcs, Positions,
         Unmatched, Failed, Matched, Ended
  <1>. QED
    BY <1>1, <1>2, <1>3, <1>4, <1>5, <1>6, <1>7, <1>8, <1>9, <1>10, <1>11, <1>12, <1>13, <1>14,
           <1>15, <1>16, <1>17, <1>18, <1>19, <1>20, <1>21, <1>22 DEF Next, Step, Loop

\* Every step keeps the counts.
LEMMA CountsNext == Inv /\ [Next]_vars => Counts'
  <1>. SUFFICES ASSUME Inv, [Next]_vars PROVE Counts'
    OBVIOUS
  <1>1. Inv /\ N \in Nat
    BY LengthNat
  <1>. USE DEF Inv, Counts, TypeOK, Unmatched, Failed, Matched, Ended, Classes
  <1>2. CASE Enter
    BY <1>1, <1>2 DEF Enter, Count
  <1>3. CASE LeaveLoop
    BY <1>1, <1>3 DEF LeaveLoop, EndLoop
  <1>4. CASE Skip
    BY <1>1, <1>4 DEF Skip, NextRule
  <1>5. CASE Begin
    BY <1>1, <1>5 DEF Begin
  <1>6. CASE NoMatch
    BY <1>1, <1>6 DEF NoMatch, NextRule
  <1>7. CASE Match
    BY <1>1, <1>7 DEF Match, AfterSuccess, EndLoop, NextRule
  <1>8. CASE ExecuteOk
    BY <1>1, <1>8 DEF ExecuteOk, AfterSuccess, EndLoop, NextRule
  <1>9. CASE ExecuteError
    BY <1>1, <1>9 DEF ExecuteError
  <1>10. CASE ConsultErrorHandler
    BY <1>1, <1>10 DEF ConsultErrorHandler
  <1>11. CASE RetryOk
    BY <1>1, <1>11 DEF RetryOk, SecondSuccess, EndLoop, NextRule
  <1>12. CASE RetryError
    BY <1>1, <1>12 DEF RetryError
  <1>13. CASE FallbackOk
    BY <1>1, <1>13 DEF FallbackOk, SecondSuccess, EndLoop, NextRule
  <1>14. CASE FallbackError
    BY <1>1, <1>14 DEF FallbackError
  <1>15. CASE AfterFailure
    BY <1>1, <1>15 DEF AfterFailure, AbortNow, EndLoop, NextRule
  <1>16. CASE Finish
    BY <1>1, <1>16 DEF Finish
  <1>17. CASE HookPanics
    BY <1>1, <1>17 DEF HookPanics
  <1>18. CASE Panic
    BY <1>1, <1>18 DEF Panic
  <1>19. CASE Recover
    BY <1>1, <1>19 DEF Recover
  <1>20. CASE Exit
    BY <1>1, <1>20 DEF Exit, Count
  <1>21. CASE Cancel
    BY <1>1, <1>21 DEF Cancel
  <1>22. CASE UNCHANGED vars
    BY <1>1, <1>22 DEF vars
  <1>. HIDE DEF Inv, Counts, TypeOK, Unmatched, Failed, Matched, Ended, Classes
  <1>. QED
    BY <1>1, <1>2, <1>3, <1>4, <1>5, <1>6, <1>7, <1>8, <1>9, <1>10, <1>11, <1>12, <1>13, <1>14,
           <1>15, <1>16, <1>17, <1>18, <1>19, <1>20, <1>21, <1>22 DEF Next, Step, Loop

\* Every step keeps the order of the lists.
LEMMA OrderNext == Inv /\ [Next]_vars => Order'
  <1>. SUFFICES ASSUME Inv, [Next]_vars PROVE Order'
    OBVIOUS
  <1>1. Inv /\ N \in Nat
    BY LengthNat
  <1>2. ASSUME Effective PROVE Order'
    <2>1. pc \in {"condition"} \union Matched
      BY <1>1, <1>2, EffectiveStep DEF Inv
    <2>2. Increasing(targets) /\ \A i \in DOMAIN targets : targets[i] < rule
      BY <1>1, <2>1 DEF Inv, Order, Unmatched
    <2>3. \A i \in DOMAIN errors : errors[i] <= rule
      BY <1>1, <2>1 DEF Inv, Order, TypeOK, Unmatched, Matched
    <2>. QED
      BY <1>1, <1>2, <2>2, <2>3, EffectiveStep, EffectOrder DEF Inv
  <1>3. CASE Match
    <2>1. CASE SortedRules[rule].acts
      <3>1. pc = "condition" /\ pc' = "action" /\ UNCHANGED <<rule, targets, errors>>
        BY <1>3, <2>1 DEF Match
      <3>2. Increasing(matched)' /\ Increasing(targets)'
        BY <1>1, <1>3, <3>1, MatchAppends DEF Inv, Order, Increasing
      <3>. QED
        BY <1>1, <1>3, <3>1, <3>2, MatchAppends DEF Inv, Order, Unmatched, Matched, Failed
    <2>2. CASE ~SortedRules[rule].acts
      BY <1>2, <1>3, <2>2 DEF Effective
    <2>. QED  BY <2>1, <2>2
  <1>4. CASE ExecuteOk
    BY <1>2, <1>4 DEF Effective
  <1>5. CASE ExecuteError
    <2>1. /\ pc = "action" /\ pc' = "consult" /\ errors' = Append(errors, rule)
          /\ UNCHANGED <<rule, targets, matched>>
      BY <1>5 DEF ExecuteError
    <2>2. rule \in 1..N /\ errors \in Seq(0..N)
      BY <1>1, <2>1 DEF Inv, TypeOK, Counts, Matched
    <2>3. Increasing(matched)' /\ Increasing(targets)'
      BY <1>1, <2>1 DEF Inv, Order, Increasing
    <2>4. \A i \in DOMAIN errors' : errors'[i] <= rule
      <3>1. \A i \in DOMAIN errors : errors[i] < rule /\ errors[i] \in Nat
        BY <1>1, <2>1, <2>2 DEF Inv, Order
      <3>. QED
        BY <2>1, <2>2, <3>1
    <2>5. errors' # << >> /\ Last(errors') = rule
      BY <2>1, <2>2 DEF Last
    <2>. QED
      BY <1>1, <2>1, <2>3, <2>4, <2>5 DEF Inv, Order, Unmatched, Matched, Failed, Last
  <1>6. CASE RetryOk
    BY <1>2, <1>6 DEF Effective
  <1>7. CASE FallbackOk
    BY <1>2, <1>7 DEF Effective
  <1>8. CASE AfterFailure
    <2>1. pc = "failed" /\ UNCHANGED <<targets, matched, errors>>
      BY <1>8 DEF AfterFailure
    <2>2. Increasing(matched)' /\ Increasing(targets)'
      BY <1>1, <2>1 DEF Inv, Order, Increasing
    <2>3. CASE pc' = "finishing" /\ rule' = rule
      BY <1>1, <2>1, <2>2, <2>3 DEF Inv, Order, TypeOK, Unmatched, Matched, Failed
    <2>4. CASE pc' = "loop" /\ rule' = rule + 1
      BY <1>1, <2>1, <2>2, <2>4 DEF Inv, Order, TypeOK, Positions, Unmatched, Matched, Failed
    <2>. QED
      BY <1>8, <2>3, <2>4 DEF AfterFailure, EndLoop, NextRule
  <1>. USE DEF Inv, Order, Counts, TypeOK, Positions, Increasing, Last, Unmatched, Failed, Matched
  <1>9. CASE Enter
    BY <1>1, <1>9 DEF Enter, Count
  <1>10. CASE LeaveLoop
    BY <1>1, <1>10 DEF LeaveLoop, EndLoop
  <1>11. CASE Skip
    BY <1>1, <1>11 DEF Skip, NextRule
  <1>12. CASE Begin
    BY <1>1, <1>12 DEF Begin
  <1>13. CASE NoMatch
    BY <1>1, <1>13 DEF NoMatch, NextRule
  <1>14. CASE ConsultErrorHandler
    BY <1>1, <1>14 DEF ConsultErrorHandler
  <1>15. CASE RetryError
    BY <1>1, <1>15 DEF RetryError
  <1>16. CASE FallbackError
    BY <1>1, <1>16 DEF FallbackError
  <1>17. CASE Finish
    BY <1>1, <1>17 DEF Finish
  <1>18. CASE HookPanics
    BY <1>1, <1>18 DEF HookPanics
  <1>19. CASE Panic
    BY <1>1, <1>19 DEF Panic
  <1>20. CASE Recover
    BY <1>1, <1>20 DEF Recover
  <1>21. CASE Exit
    BY <1>1, <1>21 DEF Exit, Count
  <1>22. CASE Cancel
    BY <1>1, <1>22 DEF Cancel
  <1>23. CASE UNCHANGED vars
    BY <1>1, <1>23 DEF vars
  <1>. HIDE DEF Inv, Order, Counts, TypeOK, Positions, Increasing, Last, Unmatched, Failed, Matched
  <1>. QED
    BY <1>1, <1>3, <1>4, <1>5, <1>6, <1>7, <1>8, <1>9, <1>10, <1>11, <1>12, <1>13, <1>14, <1>15,
           <1>16, <1>17, <1>18, <1>19, <1>20, <1>21, <1>22, <1>23 DEF Next, Step, Loop

\* Every step keeps the accounts of the matched rules.
LEMMA AccountsNext == Inv /\ [Next]_vars => Accounts'
  <1>. SUFFICES ASSUME Inv, [Next]_vars PROVE Accounts'
    OBVIOUS
  <1>1. Inv /\ N \in Nat
    BY LengthNat
  <1>2. ASSUME Effective PROVE Accounts'
    <2>1. /\ TookEffect /\ rule \in 1..N /\ InSeq(rule, matched') /\ errors' = errors
          /\ \A r \in 1..N \ {rule} : InSeq(r, matched') <=> InSeq(r, matched)
          /\ pc \in {"condition"} \union Matched
      BY <1>1, <1>2, EffectiveStep DEF Inv
    <2>2. \A r \in 1..N \ {rule} : executions'[r] = executions[r]
      BY <1>1, <1>2, <2>1 DEF Effective, Match, ExecuteOk, RetryOk, FallbackOk, Inv, TypeOK
    <2>3. \A r \in 1..N \ {rule} : Settled(r)
      BY <1>1, <2>1 DEF Inv, Accounts, Unmatched, Matched
    <2>4. InSeq(rule, errors) \/ executions'[rule] = IF SortedRules[rule].acts THEN 1 ELSE 0
      <3>1. CASE Match /\ ~SortedRules[rule].acts
        <4>1. pc = "condition" /\ executions' = executions
          BY <3>1 DEF Match
        <4>2. executions[rule] = 0
          BY <1>1, <2>1, <4>1 DEF Inv, Counts, Unmatched, TypeOK
        <4>. QED
          BY <3>1, <4>1, <4>2
      <3>2. CASE ExecuteOk
        BY <1>1, <2>1, <3>2 DEF ExecuteOk, Inv, Counts, Accounts, TypeOK
      <3>3. CASE RetryOk \/ FallbackOk
        <4>1. pc \in Failed
          BY <3>3 DEF RetryOk, FallbackOk, Failed
        <4>. QED
          BY <1>1, <4>1 DEF Inv, Order, TypeOK, InSeq, Last
      <3>. QED
        BY <1>2, <3>1, <3>2, <3>3 DEF Effective
    <2>. QED
      BY <1>1, <2>1, <2>2, <2>3, <2>4, EffectAccounts DEF Inv
  <1>3. CASE Match
    <2>1. CASE SortedRules[rule].acts
      <3>1. pc = "condition" /\ pc' = "action" /\ UNCHANGED <<rule, targets, errors, executions>>
        BY <1>3, <2>1 DEF Match
      <3>2. ASSUME NEW r \in 1..N \ {rule} PROVE Settled(r)'
        <4>1. Settled(r) /\ (InSeq(r, matched') <=> InSeq(r, matched))
          BY <1>1, <1>3, <3>1, MatchAppends DEF Inv, Accounts, Unmatched
        <4>2. InSeq(r, targets') <=> InSeq(r, targets)
          BY <3>1
        <4>3. InSeq(r, errors') <=> InSeq(r, errors)
          BY <3>1
        <4>. QED
          BY <3>1, <4>1, <4>2, <4>3, PrimedInSeq DEF Settled
      <3>. QED
        BY <2>1, <3>1, <3>2 DEF Accounts, Unmatched, Failed, Ended
    <2>2. CASE ~SortedRules[rule].acts
      BY <1>2, <1>3, <2>2 DEF Effective
    <2>. QED  BY <2>1, <2>2
  <1>4. CASE ExecuteOk
    BY <1>2, <1>4 DEF Effective
  <1>5. CASE ExecuteError
    <2>1. rule \in 1..N /\ errors \in Seq(0..N) /\ errors' = Append(errors, rule)
      BY <1>1, <1>5 DEF Inv, TypeOK, Counts, Matched, ExecuteError
    <2>2. /\ pc = "action" /\ pc' = "consult"
          /\ UNCHANGED <<targets, matched>>
          /\ \A r \in 1..N \ {rule} : executions'[r] = executions[r]
      BY <1>1, <1>5, <2>1 DEF Inv, TypeOK, ExecuteError
    <2>3. \A r \in 1..N : InSeq(r, errors') <=> InSeq(r, errors) \/ r = rule
      <3>1. rule \in 0..N
        BY <1>1, <2>1
      <3>. QED
        BY <2>1, <3>1, AppendMembers
    <2>4. InSeq(rule, matched)
      BY <1>1, <2>1, <2>2 DEF Inv, Order, TypeOK, Matched, Positions, InSeq, Last
    <2>5. ASSUME NEW r \in 1..N PROVE Settled(r)'
      <3>1. InSeq(r, targets') <=> InSeq(r, targets)
        BY <2>2
      <3>2. InSeq(r, matched') <=> InSeq(r, matched)
        BY <2>2
      <3>3. CASE r = rule
        BY <2>3, <2>4, <3>1, <3>2, <3>3, PrimedInSeq DEF Settled
      <3>4. CASE r # rule
        <4>1. Settled(r)
          BY <1>1, <2>2, <3>4 DEF Inv, Accounts
        <4>. QED
          BY <2>2, <2>3, <3>1, <3>2, <3>4, <4>1, PrimedInSeq DEF Settled
      <3>. QED  BY <3>3, <3>4
    <2>. QED
      BY <2>2, <2>5 DEF Accounts, Ended
  <1>6. CASE RetryOk
    BY <1>2, <1>6 DEF Effective
  <1>7. CASE FallbackOk
    BY <1>2, <1>7 DEF Effective
  <1>. USE DEF Inv, Accounts, Settled, InSeq, Order, Counts, TypeOK, Positions, Last, Unmatched,
         Failed, Matched, Ended
  <1>8. CASE Enter
    BY <1>1, <1>8 DEF Enter, Count
  <1>9. CASE LeaveLoop
    BY <1>1, <1>9 DEF LeaveLoop, EndLoop
  <1>10. CASE Skip
    BY <1>1, <1>10 DEF Skip, NextRule
  <1>11. CASE Begin
    BY <1>1, <1>11 DEF Begin
  <1>12. CASE NoMatch
    BY <1>1, <1>12 DEF NoMatch, NextRule
  <1>13. CASE ConsultErrorHandler
    BY <1>1, <1>13 DEF ConsultErrorHandler
  <1>14. CASE RetryError
    BY <1>1, <1>14 DEF RetryError
  <1>15. CASE FallbackError
    BY <1>1, <1>15 DEF FallbackError
  <1>16. CASE AfterFailure
    BY <1>1, <1>16 DEF AfterFailure, AbortNow, EndLoop, NextRule
  <1>17. CASE Finish
    BY <1>1, <1>17 DEF Finish
  <1>18. CASE HookPanics
    BY <1>1, <1>18 DEF HookPanics
  <1>19. CASE Panic
    BY <1>1, <1>19 DEF Panic
  <1>20. CASE Recover
    BY <1>1, <1>20 DEF Recover
  <1>21. CASE Exit
    BY <1>1, <1>21 DEF Exit, Count
  <1>22. CASE Cancel
    BY <1>1, <1>22 DEF Cancel
  <1>23. CASE UNCHANGED vars
    BY <1>1, <1>23 DEF vars
  <1>. HIDE DEF Inv, Accounts, Settled, InSeq, Order, Counts, TypeOK, Positions, Last,
         Unmatched, Failed, Matched, Ended
  <1>. QED
    BY <1>1, <1>3, <1>4, <1>5, <1>6, <1>7, <1>8, <1>9, <1>10, <1>11, <1>12, <1>13, <1>14, <1>15,
           <1>16, <1>17, <1>18, <1>19, <1>20, <1>21, <1>22, <1>23 DEF Next, Step, Loop

\* Every step keeps the agreement of the outcome with the way it came about.
LEMMA OutcomeNext == Inv /\ [Next]_vars => Outcome'
  <1>. SUFFICES ASSUME Inv, [Next]_vars PROVE Outcome'
    OBVIOUS
  <1>1. Inv /\ N \in Nat
    BY LengthNat
  <1>2. ASSUME Effective PROVE Outcome'
    BY <1>1, <1>2, EffectiveStep, EffectOutcome DEF Inv
  <1>3. CASE Match
    <2>1. CASE SortedRules[rule].acts
      <3>1. /\ pc = "condition" /\ pc' = "action"
            /\ UNCHANGED <<mode, targets, errors, ending, err, evalResult, reported>>
        BY <1>3, <2>1 DEF Match
      <3>. QED
        BY <1>1, <1>3, <3>1, MatchAppends DEF Inv, Outcome, Unmatched, Matched, Failed, Ended
    <2>2. CASE ~SortedRules[rule].acts
      BY <1>2, <1>3, <2>2 DEF Effective
    <2>. QED  BY <2>1, <2>2
  <1>4. CASE ExecuteOk
    BY <1>2, <1>4 DEF Effective
  <1>5. CASE RetryOk
    BY <1>2, <1>5 DEF Effective
  <1>6. CASE FallbackOk
    BY <1>2, <1>6 DEF Effective
  <1>. USE DEF Inv, Outcome, Order, Counts, TypeOK, Positions, InSeq, Last, Unmatched, Failed,
         Matched, Ended
  <1>7. CASE Enter
    BY <1>1, <1>7 DEF Enter, Count
  <1>8. CASE LeaveLoop
    BY <1>1, <1>8 DEF LeaveLoop, EndLoop
  <1>9. CASE Skip
    BY <1>1, <1>9 DEF Skip, NextRule
  <1>10. CASE Begin
    BY <1>1, <1>10 DEF Begin
  <1>11. CASE NoMatch
    BY <1>1, <1>11 DEF NoMatch, NextRule
  <1>12. CASE ExecuteError
    BY <1>1, <1>12 DEF ExecuteError
  <1>13. CASE ConsultErrorHandler
    BY <1>1, <1>13 DEF ConsultErrorHandler
  <1>14. CASE RetryError
    BY <1>1, <1>14 DEF RetryError
  <1>15. CASE FallbackError
    BY <1>1, <1>15 DEF FallbackError
  <1>16. CASE AfterFailure
    BY <1>1, <1>16 DEF AfterFailure, AbortNow, EndLoop, NextRule
  <1>17. CASE Finish
    BY <1>1, <1>17 DEF Finish
  <1>18. CASE HookPanics
    BY <1>1, <1>18 DEF HookPanics
  <1>19. CASE Panic
    BY <1>1, <1>19 DEF Panic
  <1>20. CASE Recover
    BY <1>1, <1>20 DEF Recover
  <1>21. CASE Exit
    BY <1>1, <1>21 DEF Exit, Count
  <1>22. CASE Cancel
    BY <1>1, <1>22 DEF Cancel
  <1>23. CASE UNCHANGED vars
    BY <1>1, <1>23 DEF vars
  <1>. HIDE DEF Inv, Outcome, Order, Counts, TypeOK, Positions, InSeq, Last, Unmatched, Failed,
         Matched, Ended
  <1>. QED
    BY <1>1, <1>3, <1>4, <1>5, <1>6, <1>7, <1>8, <1>9, <1>10, <1>11, <1>12, <1>13, <1>14, <1>15,
           <1>16, <1>17, <1>18, <1>19, <1>20, <1>21, <1>22, <1>23 DEF Next, Step, Loop

-----------------------------------------------------------------------------
(* The theorems                                                            *)

\* A call starts in the invariant.
LEMMA InitInv == Init => Inv
  <1>. SUFFICES ASSUME Init PROVE Inv
    OBVIOUS
  <1>1. N \in Nat /\ << >> \in Seq(1..N) /\ << >> \in Seq(0..N)
    BY LengthNat
  <1>2. TypeOK
    <2>1. marked \in BOOLEAN /\ dropped \in BOOLEAN
      BY Zenon DEF Init
    <2>2. /\ rule \in 1..N+1
          /\ targets \in Positions /\ matched \in Positions /\ errors \in Seq(0..N)
          /\ executions \in [1..N -> 0..2]
          /\ saved \in {0, 1} /\ hooks \in {0, 1}
          /\ evalTotal \in [Classes -> {0, 1}]
      BY <1>1 DEF Init, Positions
    <2>3. /\ level \in Levels /\ mode \in {"All", "First"} /\ strategy \in {"Continue", "Abort"}
          /\ pc \in Pcs /\ cancelled \in BOOLEAN /\ reported \in BOOLEAN
          /\ err \in {"nil", "action", "panic"}
          /\ evalResult \in Classes \ {"backpressure_dropped"}
          /\ answer \in Answers /\ ending \in Endings
      BY DEF Init, Pcs, Answers, Classes, Endings
    <2>. QED
      BY <2>1, <2>2, <2>3 DEF TypeOK
  <1>3. Counts
    BY <1>1 DEF Init, Counts, Classes, Unmatched, Matched, Failed, Ended
  <1>4. Order
    BY <1>1 DEF Init, Order, Increasing, Unmatched, Matched, Failed
  <1>5. Accounts
    BY DEF Init, Accounts, Unmatched, Failed, Ended
  <1>6. Outcome
    BY DEF Init, Outcome, Unmatched, Matched, Failed, Ended
  <1>. QED
    BY <1>2, <1>3, <1>4, <1>5, <1>6 DEF Inv

\* The invariant holds throughout a call.
THEOREM Invariance == Spec => []Inv
  <1>1. Inv /\ [Next]_vars => Inv'
    BY TypeNext, CountsNext, OrderNext, AccountsNext, OutcomeNext DEF Inv
  <1>. QED
    BY InitInv, <1>1, PTL DEF Spec

\* The variables of a call have their types: in particular every position
\* that ends up in the result or on the data is one of the chain, and a rule is
\* executed at most twice, whatever the handler answers.
THEOREM TypeCorrect == Spec => []TypeOK
  <1>1. Inv => TypeOK
    BY DEF Inv
  <1>. QED
    BY Invariance, <1>1, PTL

\* MatchedRules and the targets name rules in chain order, each once.
THEOREM OnceInOrder == Spec => []EachRuleOnceInOrder
  <1>1. Inv => EachRuleOnceInOrder
    BY DEF Inv, Order, EachRuleOnceInOrder
  <1>. QED
    BY Invariance, <1>1, PTL

\* In an orderly result the matched rules are those that took effect and those
\* with an error, and no repeated execution hides its first error.
THEOREM Accounting == Spec => []MatchedAccounting
  <1>1. Inv => MatchedAccounting
    BY DEF Inv, Accounts, Settled, Ended, MatchedAccounting, Orderly, Returned
  <1>. QED
    BY Invariance, <1>1, PTL

\* A result that says Dropped is about marked data, and the last rule that
\* matched took effect.
THEOREM DropIsReal == Spec => []ReportedDropIsReal
  <1>1. Inv => ReportedDropIsReal
    BY DEF Inv, Outcome, Ended, Last, ReportedDropIsReal, Returned
  <1>. QED
    BY Invariance, <1>1, PTL

\* In mode First at most one rule takes effect, the last one that matched.
THEOREM OneEffectInFirst == Spec => []FirstHasOneEffect
  <1>1. ASSUME Inv PROVE FirstHasOneEffect
    <2>1. ASSUME mode = "First", targets # << >>
          PROVE  Len(targets) = 1 /\ (err # "panic" => targets[1] = matched[Len(matched)])
      BY <1>1, <2>1 DEF Inv, Outcome, Last
    <2>2. targets \in Seq(1..N)
      BY <1>1 DEF Inv, TypeOK, Positions
    <2>3. Len(targets) = 1 => targets = <<targets[1]>>
      BY <2>2
    <2>. QED
      BY <2>1, <2>2, <2>3 DEF FirstHasOneEffect
  <1>. QED
    BY Invariance, <1>1, PTL

\* The class under which a call is counted agrees with its result, and the
\* call is counted in that class only, once.
THEOREM CountedAsReturned == Spec => []ClassAgrees
  <1>1. Inv => ClassAgrees
    BY DEF Inv, Counts, Outcome, Ended, ClassAgrees, Returned
  <1>. QED
    BY Invariance, <1>1, PTL

\* Saving and the hook happen at most once, and once for an orderly result.
THEOREM SavedOnce == Spec => []SavedAndHookedOnce
  <1>1. Inv => SavedAndHookedOnce
    BY DEF Inv, TypeOK, Counts, Outcome, Ended, SavedAndHookedOnce, Orderly, Returned
  <1>. QED
    BY Invariance, <1>1, PTL

\* The error of an action is returned only when that action ended the loop.
THEOREM AbortEndsTheCall == Spec => []AbortIsFinal
  <1>1. Inv => AbortIsFinal
    BY DEF Inv, Outcome, Ended, Last, AbortIsFinal, Returned
  <1>. QED
    BY Invariance, <1>1, PTL

\* What result, metrics, saving and hook tell of a call is what happened in it.
THEOREM AccountsCorrect == Spec => []AccountsExact
  <1>1. TypeOK /\ MatchedAccounting /\ ClassAgrees /\ SavedAndHookedOnce => AccountsExact
    BY DEF AccountsExact
  <1>. QED
    BY TypeCorrect, Accounting, CountedAsReturned, SavedOnce, <1>1, PTL
===============================================================================
