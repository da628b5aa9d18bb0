------------------------------ MODULE AgentLoop ------------------------------
(***************************************************************************)
(* One run of an AI agent: requests to the model, the stream of deltas of  *)
(* each answer, the tool calls in it, the token budget, and the events the *)
(* consumer of the run is sent (backend/crates/ai-orchestrator/src:        *)
(* agent.rs, budget.rs, tools.rs, router.rs).                              *)
(*                                                                         *)
(* The provider is external and may stream anything; tool calls are        *)
(* numbered in the order they arrive.  Texts, arguments, results and the   *)
(* transcript are left out.                                                *)
(***************************************************************************)
EXTENDS Integers, FiniteSets, Sequences

CONSTANTS
  MaxSteps,   \* requests of a run (16)
  Top,        \* the largest number a counter holds (2^64 - 1)
  Reports,    \* token counts a provider may report
  MaxEvents   \* bound of the model

ASSUME LoopNumbers ==
  /\ MaxSteps \in Nat \ {0} /\ Top \in Nat /\ MaxEvents \in Nat
  /\ Reports \subseteq 0..Top

VARIABLES
  stage,    \* where the run is; "returned" is Ok(()), "failed" an Err
  step,     \* requests made
  called,   \* tool calls received
  todo,     \* the tool calls of this answer that were not run yet
  budget,   \* limits and what was used of them
  events    \* the events sent, in order

vars == <<stage, step, called, todo, budget, events>>

Kinds == {"Text", "ToolCall", "ToolResult", "Finished", "BudgetExceeded"}
Terminal == {"Finished", "BudgetExceeded"}

RunEvent == [kind : Kinds, id : Nat]
Budget == [max_input : 0..Top, max_output : 0..Top,
           used_input : 0..Top, used_output : 0..Top]

TypeOK ==
  /\ stage \in {"start", "asking", "streaming", "tools", "returned", "failed"}
  /\ step \in 0..MaxSteps
  /\ called \in Nat
  /\ todo \in Seq(1..called)
  /\ budget \in Budget
  /\ events \in Seq(RunEvent)

Init ==
  /\ stage = "start" /\ step = 0
  /\ called = 0 /\ todo = <<>>
  /\ \E i, o \in 0..Top :
       budget = [max_input |-> i, max_output |-> o, used_input |-> 0, used_output |-> 0]
  /\ events = <<>>

Emit(kind, id) == events' = Append(events, [kind |-> kind, id |-> id])

\* Finish the run with a last event.
Return(kind) == stage' = "returned" /\ Emit(kind, 0)

-----------------------------------------------------------------------------
\* ModelRouter::resolve: without a provider for the model the run fails.
Resolve ==
  /\ stage = "start"
  /\ stage' \in {"asking", "failed"}
  /\ UNCHANGED <<step, called, todo, budget, events>>

\* provider.complete: an error is handed to the caller, and no event is sent.
Ask ==
  /\ stage = "asking"
  /\ stage' \in {"streaming", "failed"}
  /\ step' = step + 1
  /\ UNCHANGED <<called, todo, budget, events>>

\* The provider streams another delta (bounded in the model).
Streaming == stage = "streaming" /\ Len(events) < MaxEvents

TextDelta ==
  /\ Streaming
  /\ Emit("Text", 0)
  /\ UNCHANGED <<stage, step, called, todo, budget>>

ToolCallDelta ==
  /\ Streaming
  /\ called' = called + 1
  /\ Emit("ToolCall", called')
  /\ todo' = Append(todo, called')
  /\ UNCHANGED <<stage, step, budget>>

SaturatingAdd(m, n) == IF m + n > Top THEN Top ELSE m + n

\* Mutant: the budget is checked before it is spent.
ConsumeLate(i, o) ==
  [budget |-> [budget EXCEPT !.used_input = SaturatingAdd(@, i),
                             !.used_output = SaturatingAdd(@, o)],
   ok |-> budget.used_input <= budget.max_input
            /\ budget.used_output <= budget.max_output]

\* TokenBudget::consume: spend, then compare.
Consume(i, o) ==
  LET input == SaturatingAdd(budget.used_input, i)
      output == SaturatingAdd(budget.used_output, o)
  IN [budget |-> [max_input |-> budget.max_input, max_output |-> budget.max_output,
                  used_input |-> input, used_output |-> output],
      ok |-> input <= budget.max_input /\ output <= budget.max_output]

\* A run over its budget ends where it is: calls of this answer are not run.
Usage ==
  /\ stage = "streaming"
  /\ \E i, o \in Reports :
       /\ budget' = Consume(i, o).budget
       /\ \/ Consume(i, o).ok /\ UNCHANGED <<stage, events>>
          \/ ~Consume(i, o).ok /\ Return("BudgetExceeded")
  /\ UNCHANGED <<step, called, todo>>

\* The finish reason "stop" without tool calls; any other has no effect.
FinishStop ==
  /\ stage = "streaming" /\ todo = <<>>
  /\ Return("Finished")
  /\ UNCHANGED <<step, called, todo, budget>>

\* Mutant: an error in the stream is told and the answer so far is used.
StreamErrorContinues ==
  /\ stage = "streaming"
  /\ stage' = "tools" /\ Emit("Finished", 0)
  /\ UNCHANGED <<step, called, todo, budget>>

StreamError ==
  /\ stage = "streaming"
  /\ Return("Finished")
  /\ UNCHANGED <<step, called, todo, budget>>

StreamEnds ==
  /\ stage = "streaming"
  /\ stage' = "tools"
  /\ UNCHANGED <<step, called, todo, budget, events>>

\* A call of an unknown tool and one that fails have a result as well.
RunTool ==
  /\ stage = "tools" /\ todo # <<>>
  /\ Emit("ToolResult", Head(todo))
  /\ todo' = Tail(todo)
  /\ UNCHANGED <<stage, step, called, budget>>

\* Mutant: one request too many.
NextStepOff ==
  /\ stage = "tools" /\ todo = <<>>
  /\ \/ step <= MaxSteps /\ stage' = "asking" /\ UNCHANGED events
     \/ step > MaxSteps /\ Return("Finished")
  /\ UNCHANGED <<step, called, todo, budget>>

NextStep ==
  /\ stage = "tools" /\ todo = <<>>
  /\ \/ step < MaxSteps /\ stage' = "asking" /\ UNCHANGED events
     \/ step = MaxSteps /\ Return("Finished")
  /\ UNCHANGED <<step, called, todo, budget>>

Next ==
  \/ Resolve \/ Ask
  \/ TextDelta \/ ToolCallDelta \/ Usage \/ FinishStop \/ StreamError \/ StreamEnds
  \/ RunTool \/ NextStep

Spec == Init /\ [][Next]_vars

-----------------------------------------------------------------------------
\* Where a call or a result of the call with this number was sent.
SentAt(kind, id) == {i \in DOMAIN events : events[i] = [kind |-> kind, id |-> id]}

\* What a consumer of the run can rely on: there is a last event exactly when the
\* run returns Ok and nothing comes after it; and when the model is asked again,
\* every tool call that was told has been answered, once, and later.
EventsAreComplete ==
  /\ \A i \in DOMAIN events :
       events[i].kind \in Terminal <=> (stage = "returned" /\ i = Len(events))
  /\ stage = "returned" => events # <<>>
  /\ stage = "asking" =>
       \A id \in 1..called :
         \E i, j \in DOMAIN events :
           /\ SentAt("ToolCall", id) = {i} /\ SentAt("ToolResult", id) = {j}
           /\ i < j

\* The model is only asked again while the counters of the tokens reported so far
\* are within both limits: what a run can exceed its budget by is one report.  A
\* counter stays at Top when it gets there, so a limit of Top is never exceeded.
AskedWithinBudget ==
  stage \in {"asking", "tools"} =>
    budget.used_input <= budget.max_input /\ budget.used_output <= budget.max_output
=============================================================================
