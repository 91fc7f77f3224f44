------------------------------- MODULE EvalChain -------------------------------
(***************************************************************************)
(* One call of Engine.EvalChain (core/engine/eval.go), from the            *)
(* backpressure test to the deferred metrics: the loop over the rules of   *)
(* the chain, the answers of the error handler, the four ways to end the   *)
(* loop and the recovery from a panic.  The goroutine runs alone; what     *)
(* happens around it is the cancellation of its context.  Conditions,      *)
(* actions, the limiter, the handler, the fallback and the hook are the    *)
(* application's: they succeed, fail, panic and mark the data as dropped   *)
(* as they like, but do not take a drop mark back.  The metrics sink, the  *)
(* loss tracker, the debug manager and the logger are taken not to panic.  *)
(***************************************************************************)
EXTENDS Naturals, Sequences, FiniteSets

CONSTANT SortedRules   \* the compiled chain: [priority, acts] per rule

N == Len(SortedRules)

ASSUME RulesTyped == SortedRules \in Seq([priority : Nat, acts : BOOLEAN])
ASSUME RulesSorted == \A i, j \in 1..N : i < j => SortedRules[i].priority <= SortedRules[j].priority

VARIABLES
    level, mode, strategy,   \* bpLevel, chain.EvalMode, chain.ErrorStrategy
    marked,       \* history: the data came with the drop mark
    pc,
    rule,         \* the rule of the current iteration
    cancelled,    \* has ctx ended (by its owner, or by evalTimeout)?
    dropped,      \* data.Dropped()
    targets,      \* the rules whose targets were added to the data
    matched,      \* result.MatchedRules
    errors,       \* the rules in result.Errors, 0 for the panic itself
    reported,     \* result.Dropped
    err,          \* the error that is returned
    evalResult,   \* the class under which the call is counted
    answer,       \* what the error handler said last
    ending,       \* which of the three orderly ends was taken
    executions,   \* how often the actions of each rule were executed
    saved,        \* calls of savePreviousValue
    hooks,        \* calls of evalHook.OnEval
    evalTotal     \* metricsSink.IncEvalTotal, per class

config == <<level, mode, strategy, marked>>
onData == <<dropped, targets>>
result == <<matched, errors, reported, err>>
meters == <<saved, hooks, evalTotal>>
vars == <<config, pc, rule, cancelled, onData, result, evalResult, answer,
          ending, executions, meters>>

Levels == {"Normal", "Degraded", "Paused", "Dropping"}
Answers == {"Continue", "Abort", "Retry", "Fallback"}
Classes == {"matched", "unmatched", "dropped", "errored", "backpressure_dropped"}
Endings == {"none", "end", "dropped", "abort"}
Pcs == {"start", "loop", "condition", "action", "consult", "retry", "fallback",
        "failed", "finishing", "panicked", "exiting", "returned"}

InSeq(x, s) == \E i \in DOMAIN s : s[i] = x

Init ==
    /\ level \in Levels
    /\ mode \in {"All", "First"}
    /\ strategy \in {"Continue", "Abort"}
    /\ pc = "start"
    /\ rule = 1
    /\ cancelled = FALSE
    /\ marked \in BOOLEAN
    /\ dropped = marked
    /\ targets = << >> /\ matched = << >> /\ errors = << >>
    /\ reported = FALSE
    /\ err = "nil"
    /\ evalResult = "unmatched"
    /\ answer = "Continue"
    /\ ending = "none"
    /\ executions = [r \in 1..N |-> 0]
    /\ saved = 0 /\ hooks = 0
    /\ evalTotal = [c \in Classes |-> 0]

Count(class) == evalTotal' = [evalTotal EXCEPT ![class] = @ + 1]

-----------------------------------------------------------------------------
(* Faulty variants of the definitions below, one mistake each: the         *)
(* properties at the end of the module reject them.                        *)

\* The second success falls through to the code of the first.
SecondSuccessFallsThrough ==
    /\ dropped' \in {dropped, TRUE}
    /\ targets' = targets \o <<rule, rule>>
    /\ pc' = "loop" /\ rule' = rule + 1 /\ UNCHANGED ending

\* The second success does not look at the mode.
SecondSuccessGoesOn ==
    /\ dropped' \in {dropped, TRUE}
    /\ targets' = Append(targets, rule)
    /\ pc' = "loop" /\ rule' = rule + 1 /\ UNCHANGED ending

\* The handler is asked again after a retry that failed.
RetryErrorAgain ==
    /\ pc = "retry"
    /\ dropped' \in {dropped, TRUE}
    /\ pc' = "consult"
    /\ UNCHANGED <<config, rule, cancelled, targets, result, evalResult, answer, ending,
                   executions, meters>>

\* An abort returns at once, past the saving and the hook.
AfterFailureUnsaved ==
    /\ pc = "failed"
    /\ \/ /\ answer = "Abort" \/ (answer = "Continue" /\ strategy = "Abort")
          /\ pc' = "exiting" /\ ending' = "abort" /\ UNCHANGED rule
       \/ /\ ~(answer = "Abort" \/ (answer = "Continue" /\ strategy = "Abort"))
          /\ pc' = "loop" /\ rule' = rule + 1 /\ UNCHANGED ending
    /\ UNCHANGED <<config, cancelled, onData, result, evalResult, answer, executions, meters>>

\* Any recorded error is returned, not the one that ended the loop.
FinishWithAnyError ==
    /\ pc = "finishing"
    /\ reported' = (ending = "dropped")
    /\ saved' = saved + 1 /\ hooks' = hooks + 1
    /\ evalResult' = IF errors # << >> THEN "errored" ELSE evalResult
    /\ err' = IF errors # << >> THEN "action" ELSE err
    /\ pc' = "exiting"
    /\ UNCHANGED <<config, rule, cancelled, onData, matched, errors, answer, ending,
                   executions, evalTotal>>

\* The result at hand is returned with the panic added.
RecoverIntoResult ==
    /\ pc = "panicked"
    /\ errors' = Append(errors, 0)
    /\ err' = "panic"
    /\ evalResult' = "errored"
    /\ answer' \in Answers
    /\ pc' = "exiting"
    /\ UNCHANGED <<config, rule, cancelled, onData, matched, reported, ending, executions, meters>>

-----------------------------------------------------------------------------
(* The iteration                                                           *)

NextRule == pc' = "loop" /\ rule' = rule + 1
EndLoop(how) == pc' = "finishing" /\ ending' = how /\ UNCHANGED rule

\* The level decides which rules are left out of this evaluation.
SkippedAt(lvl, r) ==
    \/ lvl = "Degraded" /\ SortedRules[r].priority > 10
    \/ lvl = "Paused" /\ SortedRules[r].priority > 0

\* Actions never take a drop mark back.
MayDrop == dropped' \in {dropped, TRUE}

-----------------------------------------------------------------------------
(* Before the loop                                                         *)

\* Level Dropping and a chain that is not in the snapshot both return the data
\* as it came; the deferred metrics run for them too.
Enter ==
    /\ pc = "start"
    /\ \/ level = "Dropping" /\ Count("backpressure_dropped") /\ pc' = "exiting"
       \/ level # "Dropping" /\ UNCHANGED evalTotal /\ pc' \in {"exiting", "loop"}
    /\ UNCHANGED <<config, rule, cancelled, onData, result, evalResult, answer,
                   ending, executions, saved, hooks>>

-----------------------------------------------------------------------------
(* The loop                                                                *)

LeaveLoop ==
    /\ pc = "loop"
    /\ rule > N \/ cancelled
    /\ EndLoop("end")
    /\ UNCHANGED <<config, cancelled, onData, result, evalResult, answer, executions, meters>>

\* The level, or the limiter, leaves the rule out.
Skip ==
    /\ pc = "loop" /\ rule <= N /\ ~cancelled
    /\ NextRule
    /\ UNCHANGED <<config, cancelled, onData, result, evalResult, answer, ending, executions, meters>>

Begin ==
    /\ pc = "loop" /\ rule <= N /\ ~cancelled
    /\ ~SkippedAt(level, rule)
    /\ pc' = "condition"
    /\ UNCHANGED <<config, rule, cancelled, onData, result, evalResult, answer, ending,
                   executions, meters>>

NoMatch ==
    /\ pc = "condition"
    /\ NextRule
    /\ UNCHANGED <<config, cancelled, onData, result, evalResult, answer, ending, executions, meters>>

\* A rule without actions succeeds by matching.
AfterSuccess(isDropped) ==
    /\ targets' = Append(targets, rule)
    /\ IF mode = "First" THEN EndLoop("end")
       ELSE IF isDropped THEN EndLoop("dropped")
       ELSE NextRule /\ UNCHANGED ending

Match ==
    /\ pc = "condition"
    /\ matched' = Append(matched, rule)
    /\ \/ /\ SortedRules[rule].acts
          /\ pc' = "action"
          /\ UNCHANGED <<rule, targets, ending>>
       \/ /\ ~SortedRules[rule].acts
          /\ AfterSuccess(dropped)
    /\ UNCHANGED <<config, cancelled, dropped, errors, reported, err, evalResult, answer,
                   executions, meters>>

\* The first execution: the action chain turns ErrDropData into a drop mark
\* and a nil error, so a drop is a success here.
ExecuteOk ==
    /\ pc = "action"
    /\ executions' = [executions EXCEPT ![rule] = @ + 1]
    /\ MayDrop
    /\ AfterSuccess(dropped')
    /\ UNCHANGED <<config, cancelled, result, evalResult, answer, meters>>

\* An error, or a panic that executeWithGuard turned into one.
ExecuteError ==
    /\ pc = "action"
    /\ executions' = [executions EXCEPT ![rule] = @ + 1]
    /\ MayDrop
    /\ errors' = Append(errors, rule)
    /\ pc' = "consult"
    /\ UNCHANGED <<config, rule, cancelled, targets, matched, reported, err, evalResult, answer,
                   ending, meters>>

\* No handler, and a handler that panics, count as Continue.
ConsultErrorHandler ==
    /\ pc = "consult"
    /\ \E a \in Answers :
           /\ answer' = a
           /\ pc' = CASE a = "Retry" -> "retry" [] a = "Fallback" -> "fallback" [] OTHER -> "failed"
    /\ UNCHANGED <<config, rule, cancelled, onData, result, evalResult, ending, executions, meters>>

\* Success on the second attempt: the targets are added and mode First ends
\* the loop, but the drop mark is not looked at.
SecondSuccess ==
    /\ MayDrop
    /\ targets' = Append(targets, rule)
    /\ IF mode = "First" THEN EndLoop("end") ELSE NextRule /\ UNCHANGED ending

RetryOk ==
    /\ pc = "retry"
    /\ executions' = [executions EXCEPT ![rule] = @ + 1]
    /\ SecondSuccess
    /\ UNCHANGED <<config, cancelled, result, evalResult, answer, meters>>

RetryError ==
    /\ pc = "retry"
    /\ executions' = [executions EXCEPT ![rule] = @ + 1]
    /\ MayDrop
    /\ pc' = "failed"
    /\ UNCHANGED <<config, rule, cancelled, targets, result, evalResult, answer, ending, meters>>

FallbackOk ==
    /\ pc = "fallback"
    /\ SecondSuccess
    /\ UNCHANGED <<config, cancelled, result, evalResult, answer, executions, meters>>

\* The fallback failed, or there is none.
FallbackError ==
    /\ pc = "fallback"
    /\ MayDrop
    /\ pc' = "failed"
    /\ UNCHANGED <<config, rule, cancelled, targets, result, evalResult, answer, ending,
                   executions, meters>>

\* The strategy of the chain only counts when the handler said Continue.
AbortNow == answer = "Abort" \/ (answer = "Continue" /\ strategy = "Abort")

AfterFailure ==
    /\ pc = "failed"
    /\ \/ AbortNow /\ EndLoop("abort")
       \/ ~AbortNow /\ NextRule /\ UNCHANGED ending
    /\ UNCHANGED <<config, cancelled, onData, result, evalResult, answer, executions, meters>>

-----------------------------------------------------------------------------
(* The end                                                                 *)

\* The result is completed, the value of the data saved, the hook called; the
\* class and the error are set only after the hook.
Finish ==
    /\ pc = "finishing"
    /\ reported' = (ending = "dropped")
    /\ saved' = saved + 1
    /\ hooks' = hooks + 1
    /\ evalResult' = CASE ending = "dropped" -> "dropped"
                       [] ending = "abort" -> "errored"
                       [] OTHER -> IF matched # << >> THEN "matched" ELSE evalResult
    /\ err' = IF ending = "abort" THEN "action" ELSE err
    /\ pc' = "exiting"
    /\ UNCHANGED <<config, rule, cancelled, onData, matched, errors, answer, ending,
                   executions, evalTotal>>

HookPanics ==
    /\ pc = "finishing"
    /\ reported' = (ending = "dropped")
    /\ saved' = saved + 1
    /\ hooks' = hooks + 1
    /\ pc' = "panicked"
    /\ UNCHANGED <<config, rule, cancelled, onData, matched, errors, err, evalResult, answer,
                   ending, executions, evalTotal>>

\* A panic of the indicator, the limiter, a condition or the fallback.
Panic ==
    /\ \/ pc \in {"start", "condition"} /\ UNCHANGED dropped
       \/ pc = "loop" /\ rule <= N /\ ~cancelled /\ ~SkippedAt(level, rule) /\ UNCHANGED dropped
       \/ pc = "fallback" /\ MayDrop
    /\ pc' = "panicked"
    /\ UNCHANGED <<config, rule, cancelled, targets, result, evalResult, answer, ending,
                   executions, meters>>

\* The recovering defer replaces the result, whatever the handler answers.
Recover ==
    /\ pc = "panicked"
    /\ matched' = << >> /\ errors' = <<0>> /\ reported' = FALSE
    /\ err' = "panic"
    /\ evalResult' = "errored"
    /\ answer' \in Answers
    /\ pc' = "exiting"
    /\ UNCHANGED <<config, rule, cancelled, onData, ending, executions, meters>>

\* The deferred metrics.
Exit ==
    /\ pc = "exiting"
    /\ Count(evalResult)
    /\ pc' = "returned"
    /\ UNCHANGED <<config, rule, cancelled, onData, result, evalResult, answer, ending,
                   executions, saved, hooks>>

\* At any time, from outside.
Cancel ==
    /\ ~cancelled /\ pc # "returned"
    /\ cancelled' = TRUE
    /\ UNCHANGED <<config, pc, rule, onData, result, evalResult, answer, ending,
                   executions, meters>>

-----------------------------------------------------------------------------
Loop ==
    \/ LeaveLoop \/ Skip \/ Begin \/ NoMatch \/ Match
    \/ ExecuteOk \/ ExecuteError \/ ConsultErrorHandler
    \/ RetryOk \/ RetryError \/ FallbackOk \/ FallbackError \/ AfterFailure

Step == Enter \/ Loop \/ Finish \/ HookPanics \/ Panic \/ Recover \/ Exit

Next == Step \/ Cancel

Spec == Init /\ [][Next]_vars

\* The goroutine goes on, and what the application supplies returns.
FairSpec == Spec /\ WF_vars(Step)

-----------------------------------------------------------------------------
(* Properties                                                              *)

Positions == Seq(1..N)

TypeOK ==
    /\ level \in Levels /\ mode \in {"All", "First"} /\ strategy \in {"Continue", "Abort"}
    /\ pc \in Pcs
    /\ rule \in 1..N+1
    /\ marked \in BOOLEAN /\ cancelled \in BOOLEAN /\ dropped \in BOOLEAN /\ reported \in BOOLEAN
    /\ targets \in Positions /\ matched \in Positions
    /\ errors \in Seq(0..N)
    /\ err \in {"nil", "action", "panic"}
    /\ evalResult \in Classes \ {"backpressure_dropped"}
    /\ answer \in Answers
    /\ ending \in Endings
    /\ executions \in [1..N -> 0..2]
    /\ saved \in {0, 1} /\ hooks \in {0, 1}
    /\ evalTotal \in [Classes -> {0, 1}]

Returned == pc = "returned"
Orderly == Returned /\ ending # "none" /\ err # "panic"

(***************************************************************************)
(* MatchedRules and the targets of the data are in the order of the chain  *)
(* and name each rule once, whatever is retried or replaced by a fallback. *)
(***************************************************************************)
Increasing(s) == \A i, j \in DOMAIN s : i < j => s[i] < s[j]
EachRuleOnceInOrder == Increasing(matched) /\ Increasing(targets)

(***************************************************************************)
(* In a result that is not a panic, every matched rule took effect or is   *)
(* in Errors, nothing else is, and a second execution of the actions of a  *)
(* rule always has the error of the first in the result.                   *)
(***************************************************************************)
MatchedAccounting ==
    Orderly =>
        \A r \in 1..N :
            /\ InSeq(r, matched) <=> InSeq(r, targets) \/ InSeq(r, errors)
            /\ executions[r] = 2 => InSeq(r, errors)
            /\ InSeq(r, targets) /\ ~InSeq(r, errors) =>
                   executions[r] = IF SortedRules[r].acts THEN 1 ELSE 0

(***************************************************************************)
(* A result that says Dropped is about data that carries the mark, and the *)
(* last rule that matched took effect: no rule runs after the drop.        *)
(***************************************************************************)
ReportedDropIsReal ==
    Returned /\ reported =>
        /\ dropped /\ err = "nil"
        /\ targets # << >> /\ targets[Len(targets)] = matched[Len(matched)]

(***************************************************************************)
(* In mode First the loop goes on only past rules that matched and failed: *)
(* at most one rule takes effect, at its first attempt, by a retry or by a *)
(* fallback, and it is the last one that matched.  It says nothing of how  *)
(* many rules match, which the documentation does (FirstEndsAtMatch).      *)
(***************************************************************************)
FirstHasOneEffect ==
    mode = "First" =>
        /\ Len(targets) <= 1
        /\ targets # << >> /\ err # "panic" => targets = <<matched[Len(matched)]>>

(***************************************************************************)
(* The class under which a call is counted agrees with what it returns,    *)
(* and it is counted there once.  (At level Dropping it is counted as      *)
(* backpressure_dropped besides.)                                          *)
(***************************************************************************)
ClassAgrees ==
    Returned =>
        /\ evalResult = "dropped" <=> reported
        /\ evalResult = "errored" <=> err # "nil"
        /\ evalResult = "unmatched" => matched = << >> /\ targets = << >>
        /\ \A c \in Classes \ {"backpressure_dropped"} :
               evalTotal[c] = IF c = evalResult THEN 1 ELSE 0

(***************************************************************************)
(* A result that is not a panic was saved and given to the hook, once, on  *)
(* each of the three ways out of the loop; on no way out is it done twice. *)
(***************************************************************************)
SavedAndHookedOnce ==
    /\ saved <= 1 /\ hooks = saved
    /\ Orderly => hooks = 1

(***************************************************************************)
(* Result, metrics, saving and hook tell of a call what happened in it.    *)
(***************************************************************************)
AccountsExact == TypeOK /\ MatchedAccounting /\ ClassAgrees /\ SavedAndHookedOnce

(***************************************************************************)
(* The error of an action is returned only when that action was the last   *)
(* thing that happened: its rule matched last, its targets were not added, *)
(* and its error is the last one in the result.                            *)
(***************************************************************************)
AbortIsFinal ==
    Returned /\ err = "action" =>
        /\ errors # << >> /\ errors[Len(errors)] = matched[Len(matched)]
        /\ ~InSeq(errors[Len(errors)], targets)

(***************************************************************************)
(* A call returns, however its collaborators answer: the handler cannot    *)
(* keep it in a loop of retries.                                           *)
(***************************************************************************)
Terminates == <>Returned

(***************************************************************************)
(* A drop ends the evaluation and is reported (the evaluation flow of      *)
(* docs/architecture.md: "if err == ErrDropData: return dropped").         *)
(***************************************************************************)
DropIsReported == Orderly /\ err = "nil" /\ dropped /\ ~marked => reported

(***************************************************************************)
(* Mode First ends at the first match (core/types.go: "ends after the      *)
(* first match"; docs/architecture.md: "if EvalModeFirst && matched:       *)
(* break").                                                                *)
(***************************************************************************)
FirstEndsAtMatch == mode = "First" => Len(matched) <= 1

(***************************************************************************)
(* A call keeps to the documented flow in one of these respects at least.  *)
(* The code can break both at once: in mode First it goes on past a rule   *)
(* that matched and failed, and a drop is not reported.                    *)
(***************************************************************************)
FlowAsDocumented == FirstEndsAtMatch \/ DropIsReported
===============================================================================
