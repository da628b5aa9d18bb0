--------------------------- MODULE AgentLoop_proofs ---------------------------
(***************************************************************************)
(* Proofs about AgentLoop, for every number of requests, every width of    *)
(* the counters and every stream a provider may send.                      *)
(***************************************************************************)
EXTENDS AgentLoop, TLAPS

Running == stage \in {"start", "asking", "streaming", "tools"}

\* Before a request there are steps left and no call waits to be run.
StepsLeft == stage \in {"start", "asking"} => step < MaxSteps /\ todo = <<>>

\* What was used is within the limits until the run ends.
WithinLimits ==
  Running => /\ budget.used_input <= budget.max_input
             /\ budget.used_output <= budget.max_output

\* The last event is sent exactly by the step that returns.
OneLastEvent ==
  /\ \A i \in DOMAIN events :
       events[i].kind \in Terminal <=> (stage = "returned" /\ i = Len(events))
  /\ stage = "returned" => events # <<>>

Waiting(id) == \E n \in 1..Len(todo) : todo[n] = id

\* The events as a ledger of tool calls: a call was told once; while it waits it
\* has no result, and afterwards one, which is later.
Told(id) == \E i \in DOMAIN events : SentAt("ToolCall", id) = {i}
Answered(id) ==
  \E i, j \in DOMAIN events :
    SentAt("ToolCall", id) = {i} /\ SentAt("ToolResult", id) = {j} /\ i < j

Ledger ==
  Running =>
    /\ \A m, n \in 1..Len(todo) : todo[m] = todo[n] => m = n
    /\ \A id \in Nat : id \notin 1..called =>
         SentAt("ToolCall", id) = {} /\ SentAt("ToolResult", id) = {}
    /\ \A id \in 1..called :
         \/ Waiting(id) /\ Told(id) /\ SentAt("ToolResult", id) = {}
         \/ ~Waiting(id) /\ Answered(id)

LoopInv == TypeOK /\ StepsLeft /\ WithinLimits /\ OneLastEvent /\ Ledger

-----------------------------------------------------------------------------
\* What sending an event does to the ledger.
LEMMA EmitEffect ==
  ASSUME events \in Seq(RunEvent), NEW kind \in Kinds, NEW id \in Nat, Emit(kind, id)
  PROVE  /\ events' \in Seq(RunEvent)
         /\ DOMAIN events = 1..Len(events) /\ DOMAIN events' = 1..(Len(events) + 1)
         /\ Len(events) \in Nat /\ Len(events') = Len(events) + 1
         /\ \A i \in 1..Len(events) : events'[i] = events[i]
         /\ events'[Len(events) + 1] = [kind |-> kind, id |-> id]
BY DEF Emit, RunEvent

\* An event of another kind, or about another call, leaves a call's places alone.
LEMMA SentElsewhere ==
  ASSUME events \in Seq(RunEvent), NEW kind \in Kinds, NEW id \in Nat, Emit(kind, id),
         NEW k \in Kinds, NEW n \in Nat, k # kind \/ n # id
  PROVE  SentAt(k, n)' = SentAt(k, n)
<1>1. [kind |-> kind, id |-> id] # [kind |-> k, id |-> n]
  OBVIOUS
<1>2. ASSUME NEW i
      PROVE  i \in SentAt(k, n)' <=> i \in SentAt(k, n)
  BY <1>1, EmitEffect DEF SentAt
<1>3. QED
  BY <1>2 DEF SentAt

LEMMA SentHere ==
  ASSUME events \in Seq(RunEvent), NEW kind \in Kinds, NEW id \in Nat, Emit(kind, id)
  PROVE  SentAt(kind, id)' = SentAt(kind, id) \cup {Len(events) + 1}
<1>1. ASSUME NEW i
      PROVE  i \in SentAt(kind, id)' <=> i \in SentAt(kind, id) \/ i = Len(events) + 1
  BY EmitEffect DEF SentAt
<1>2. QED
  BY <1>1

LEMMA SentInside ==
  ASSUME NEW k, NEW n
  PROVE  SentAt(k, n) \subseteq DOMAIN events
BY DEF SentAt

\* The reports are counted within the width of the counters.
LEMMA ConsumeTypes ==
  ASSUME TypeOK, NEW i \in Reports, NEW o \in Reports
  PROVE  /\ Consume(i, o).budget \in Budget
         /\ Consume(i, o).ok <=>
              /\ Consume(i, o).budget.used_input <= budget.max_input
              /\ Consume(i, o).budget.used_output <= budget.max_output
         /\ Consume(i, o).budget.max_input = budget.max_input
         /\ Consume(i, o).budget.max_output = budget.max_output
<1>1. /\ i \in 0..Top /\ o \in 0..Top /\ Top \in Nat
      /\ budget.used_input \in 0..Top /\ budget.used_output \in 0..Top
      /\ budget.max_input \in 0..Top /\ budget.max_output \in 0..Top
  BY LoopNumbers DEF TypeOK, Budget
<1>2. /\ SaturatingAdd(budget.used_input, i) \in 0..Top
      /\ SaturatingAdd(budget.used_output, o) \in 0..Top
  BY <1>1 DEF SaturatingAdd
<1>3. QED
  BY <1>1, <1>2 DEF Consume, Budget

-----------------------------------------------------------------------------
\* The parts of the invariant one by one.
LEMMA TypesStep == ASSUME TypeOK, StepsLeft, [Next]_vars PROVE TypeOK'
<1> USE DEF TypeOK
<1>0. MaxSteps \in Nat \ {0}
  BY LoopNumbers
<1>k. {"Text", "ToolCall", "ToolResult", "Finished", "BudgetExceeded"} = Kinds
  BY DEF Kinds
<1>s. ASSUME NEW t \in Seq(1..called) PROVE t \in Seq(1..(called + 1))
  OBVIOUS
<1>1. CASE Resolve
  BY <1>1 DEF Resolve
<1>2. CASE Ask
  BY <1>2, <1>0 DEF Ask, StepsLeft
<1>3. CASE TextDelta
  BY <1>3, <1>k, EmitEffect DEF TextDelta, Streaming
<1>4. CASE ToolCallDelta
  <2>1. called' = called + 1 /\ called' \in Nat
    BY <1>4 DEF ToolCallDelta
  <2>2. events' \in Seq(RunEvent)
    BY <1>4, <1>k, <2>1, EmitEffect DEF ToolCallDelta
  <2>3. todo' \in Seq(1..called')
    BY <1>4, <1>s, <2>1 DEF ToolCallDelta
  <2>4. QED
    BY <1>4, <2>1, <2>2, <2>3 DEF ToolCallDelta, Streaming
<1>5. CASE Usage
  <2>1. PICK i \in Reports, o \in Reports :
          /\ budget' = Consume(i, o).budget
          /\ \/ Consume(i, o).ok /\ UNCHANGED <<stage, events>>
             \/ ~Consume(i, o).ok /\ Return("BudgetExceeded")
    BY <1>5 DEF Usage
  <2>2. budget' \in Budget
    BY <2>1, ConsumeTypes
  <2>3. events' \in Seq(RunEvent) /\ stage' \in {"streaming", "returned"}
    BY <1>5, <2>1, <1>k, EmitEffect DEF Usage, Return
  <2>4. QED
    BY <1>5, <2>2, <2>3 DEF Usage
<1>6. CASE FinishStop
  BY <1>6, <1>k, EmitEffect DEF FinishStop, Return
<1>7. CASE StreamError
  BY <1>7, <1>k, EmitEffect DEF StreamError, Return
<1>8. CASE StreamEnds
  BY <1>8 DEF StreamEnds
<1>9. CASE RunTool
  <2>1. Head(todo) \in Nat /\ todo' \in Seq(1..called)
    BY <1>9 DEF RunTool
  <2>2. events' \in Seq(RunEvent)
    BY <1>9, <1>k, <2>1, EmitEffect DEF RunTool
  <2>3. QED
    BY <1>9, <2>1, <2>2 DEF RunTool
<1>10. CASE NextStep
  BY <1>10, <1>k, EmitEffect DEF NextStep, Return
<1>11. CASE UNCHANGED vars
  BY <1>11 DEF vars
<1>12. QED
  BY <1>1, <1>2, <1>3, <1>4, <1>5, <1>6, <1>7, <1>8, <1>9, <1>10, <1>11 DEF Next

LEMMA StepsLeftStep == ASSUME TypeOK, StepsLeft, [Next]_vars PROVE StepsLeft'
BY DEF TypeOK, StepsLeft, Next, vars, Resolve, Ask, TextDelta, ToolCallDelta, Usage,
       FinishStop, StreamError, StreamEnds, RunTool, NextStep, Return, Streaming

LEMMA WithinLimitsStep == ASSUME TypeOK, WithinLimits, [Next]_vars PROVE WithinLimits'
<1>1. CASE Usage
  <2>1. PICK i \in Reports, o \in Reports :
          /\ budget' = Consume(i, o).budget
          /\ \/ Consume(i, o).ok
             \/ stage' = "returned"
    BY <1>1 DEF Usage, Return
  <2>2. QED
    BY <2>1, ConsumeTypes DEF WithinLimits, Running
<1>2. CASE ~Usage
  BY <1>2 DEF WithinLimits, Running, Next, vars, Resolve, Ask, TextDelta, ToolCallDelta,
              FinishStop, StreamError, StreamEnds, RunTool, NextStep, Return, Streaming
<1>3. QED
  BY <1>1, <1>2
LEMMA OneLastEventStep ==
  ASSUME TypeOK, TypeOK', OneLastEvent, [Next]_vars
  PROVE  OneLastEvent'
<1>0. events \in Seq(RunEvent) /\ DOMAIN events = 1..Len(events) /\ Len(events) \in Nat
  BY DEF TypeOK
<1>a. ASSUME stage # "returned", stage' # "returned", UNCHANGED events
      PROVE  OneLastEvent'
  BY <1>a DEF OneLastEvent
<1>b. ASSUME NEW kind \in Kinds \ Terminal, NEW id \in Nat, Emit(kind, id),
             stage # "returned", stage' # "returned"
      PROVE  OneLastEvent'
  <2>0. /\ DOMAIN events' = 1..(Len(events) + 1)
        /\ \A i \in 1..Len(events) : events'[i] = events[i]
        /\ events'[Len(events) + 1] = [kind |-> kind, id |-> id]
    BY <1>0, <1>b, EmitEffect
  <2>1. \A i \in DOMAIN events' : events'[i].kind \notin Terminal
    BY <1>0, <1>b, <2>0 DEF OneLastEvent
  <2>2. QED
    BY <2>1, <1>b DEF OneLastEvent
<1>c. ASSUME NEW kind \in Terminal, Return(kind), stage # "returned"
      PROVE  OneLastEvent'
  <2>1. Emit(kind, 0) /\ kind \in Kinds /\ stage' = "returned"
    BY <1>c DEF Return, Terminal, Kinds
  <2>0. /\ DOMAIN events' = 1..(Len(events) + 1) /\ Len(events') = Len(events) + 1
        /\ \A i \in 1..Len(events) : events'[i] = events[i]
        /\ events'[Len(events) + 1] = [kind |-> kind, id |-> 0]
    BY <1>0, <2>1, EmitEffect
  <2>2. \A i \in DOMAIN events' : events'[i].kind \in Terminal <=> i = Len(events')
    BY <1>0, <1>c, <2>0 DEF OneLastEvent
  <2>3. events' # <<>>
    BY <1>0, <2>0
  <2>4. QED
    BY <2>1, <2>2, <2>3 DEF OneLastEvent
<1>k. /\ {"Text", "ToolCall", "ToolResult"} \subseteq Kinds \ Terminal
      /\ {"Finished", "BudgetExceeded"} \subseteq Terminal
  BY DEF Kinds, Terminal
<1>1. CASE Resolve \/ Ask \/ StreamEnds
  BY <1>1, <1>a DEF Resolve, Ask, StreamEnds
<1>2. CASE TextDelta
  BY <1>2, <1>b, <1>k DEF TextDelta, Streaming
<1>3. CASE ToolCallDelta
  <2>1. called' \in Nat
    BY <1>3 DEF TypeOK
  <2>2. QED
    BY <1>3, <2>1, <1>b, <1>k DEF ToolCallDelta, Streaming
<1>4. CASE Usage
  BY <1>4, <1>a, <1>c, <1>k DEF Usage
<1>5. CASE FinishStop \/ StreamError
  BY <1>5, <1>c, <1>k DEF FinishStop, StreamError
<1>6. CASE RunTool
  <2>1. Head(todo) \in Nat
    BY <1>6 DEF RunTool, TypeOK
  <2>2. QED
    BY <1>6, <2>1, <1>b, <1>k DEF RunTool
<1>7. CASE NextStep
  BY <1>7, <1>a, <1>c, <1>k DEF NextStep
<1>8. CASE UNCHANGED vars
  BY <1>8 DEF vars, OneLastEvent
<1>9. QED
  BY <1>1, <1>2, <1>3, <1>4, <1>5, <1>6, <1>7, <1>8 DEF Next

-----------------------------------------------------------------------------
\* A call that is told joins those that wait and the ledger.
LEMMA LedgerToolCall ==
  ASSUME TypeOK, TypeOK', Ledger, ToolCallDelta
  PROVE  Ledger'
<1>0. PICK new \in Nat : new = called'
  BY DEF TypeOK, ToolCallDelta
<1>1. /\ Running /\ called \in Nat /\ new = called + 1
      /\ Emit("ToolCall", new) /\ todo' = Append(todo, new)
      /\ todo \in Seq(1..called) /\ events \in Seq(RunEvent)
  BY <1>0 DEF TypeOK, ToolCallDelta, Streaming, Running
<1>2. {"ToolCall", "ToolResult"} \subseteq Kinds
  BY DEF Kinds
<1>3. \A m, n \in 1..Len(todo') : todo'[m] = todo'[n] => m = n
  BY <1>1 DEF Ledger
<1>4. \A id \in Nat : Waiting(id)' <=> Waiting(id) \/ id = new
  BY <1>1 DEF Waiting
<1>5. \A id \in Nat : id # new => SentAt("ToolCall", id)' = SentAt("ToolCall", id)
  BY <1>1, <1>2, SentElsewhere
<1>6. \A id \in Nat : SentAt("ToolResult", id)' = SentAt("ToolResult", id)
  BY <1>1, <1>2, SentElsewhere
<1>7. SentAt("ToolCall", new) = {} /\ SentAt("ToolResult", new) = {}
  BY <1>1 DEF Ledger
<1>8. SentAt("ToolCall", new)' = {Len(events) + 1}
  BY <1>1, <1>2, <1>7, SentHere
<1>9. DOMAIN events \subseteq DOMAIN events' /\ Len(events) + 1 \in DOMAIN events'
  <2>1. /\ DOMAIN events = 1..Len(events) /\ Len(events) \in Nat
        /\ DOMAIN events' = 1..(Len(events) + 1)
    BY <1>1, <1>2, EmitEffect
  <2>2. QED
    BY <2>1
<1>10. ASSUME NEW id \in Nat, id \notin 1..called'
       PROVE  SentAt("ToolCall", id)' = {} /\ SentAt("ToolResult", id)' = {}
  <2>1. id \notin 1..called /\ id # new
    BY <1>0, <1>1, <1>10
  <2>2. QED
    BY <2>1, <1>1, <1>5, <1>6 DEF Ledger
<1>11. ASSUME NEW id \in 1..called'
       PROVE  \/ Waiting(id)' /\ Told(id)' /\ SentAt("ToolResult", id)' = {}
              \/ ~Waiting(id)' /\ Answered(id)'
  <2>1. CASE id = new
    BY <2>1, <1>1, <1>4, <1>6, <1>7, <1>8, <1>9 DEF Told
  <2>2. CASE id # new
    <3>1. id \in Nat /\ id \in 1..called
      BY <2>2, <1>0, <1>1
    <3>a. /\ Waiting(id)' <=> Waiting(id)
          /\ SentAt("ToolCall", id)' = SentAt("ToolCall", id)
          /\ SentAt("ToolResult", id)' = SentAt("ToolResult", id)
      BY <2>2, <3>1, <1>4, <1>5, <1>6
    <3>2. CASE Waiting(id) /\ Told(id) /\ SentAt("ToolResult", id) = {}
      BY <3>2, <3>a, <1>9 DEF Told
    <3>3. CASE ~Waiting(id) /\ Answered(id)
      BY <3>3, <3>a, <1>9 DEF Answered
    <3>4. QED
      BY <3>1, <3>2, <3>3, <1>1 DEF Ledger
  <2>3. QED
    BY <2>1, <2>2
<1>12. QED
  BY <1>3, <1>10, <1>11 DEF Ledger

\* A call that is run leaves those that wait and gets its result.
LEMMA LedgerRunTool ==
  ASSUME TypeOK, TypeOK', Ledger, RunTool
  PROVE  Ledger'
<1>0. PICK this \in Nat : this = Head(todo)
  BY DEF TypeOK, RunTool
<1>1. /\ Running /\ called \in Nat /\ called' = called
      /\ Emit("ToolResult", this) /\ todo' = Tail(todo) /\ todo # <<>>
      /\ todo \in Seq(1..called) /\ events \in Seq(RunEvent)
  BY <1>0 DEF TypeOK, RunTool, Running
<1>2. {"ToolCall", "ToolResult"} \subseteq Kinds
  BY DEF Kinds
<1>3. /\ this \in 1..called /\ this = todo[1] /\ Len(todo) \in Nat \ {0}
      /\ Len(todo') = Len(todo) - 1
      /\ \A n \in 1..Len(todo') : todo'[n] = todo[n + 1]
  BY <1>0, <1>1
<1>4. \A m, n \in 1..Len(todo) : todo[m] = todo[n] => m = n
  BY <1>1 DEF Ledger
<1>5. \A m, n \in 1..Len(todo') : todo'[m] = todo'[n] => m = n
  BY <1>3, <1>4
<1>6. ASSUME NEW id \in Nat
      PROVE  Waiting(id)' <=> Waiting(id) /\ id # this
  <2>1. ASSUME NEW n \in 1..Len(todo'), todo'[n] = id
        PROVE  Waiting(id) /\ id # this
    BY <2>1, <1>3, <1>4 DEF Waiting
  <2>2. ASSUME NEW n \in 1..Len(todo), todo[n] = id, id # this
        PROVE  Waiting(id)'
    <3>1. n - 1 \in 1..Len(todo') /\ todo'[n - 1] = id
      BY <2>2, <1>3
    <3>2. QED
      BY <3>1 DEF Waiting
  <2>3. QED
    BY <2>1, <2>2 DEF Waiting
<1>7. \A id \in Nat : SentAt("ToolCall", id)' = SentAt("ToolCall", id)
  BY <1>1, <1>2, <1>3, SentElsewhere
<1>8. \A id \in Nat : id # this => SentAt("ToolResult", id)' = SentAt("ToolResult", id)
  BY <1>1, <1>2, <1>3, SentElsewhere
<1>9. Waiting(this)
  BY <1>3 DEF Waiting
<1>10. Told(this) /\ SentAt("ToolResult", this) = {}
  BY <1>1, <1>3, <1>9 DEF Ledger
<1>11. SentAt("ToolResult", this)' = {Len(events) + 1}
  BY <1>1, <1>2, <1>3, <1>10, SentHere
<1>12. /\ DOMAIN events = 1..Len(events) /\ Len(events) \in Nat
       /\ DOMAIN events' = 1..(Len(events) + 1)
  BY <1>1, <1>2, <1>3, EmitEffect
<1>13. ASSUME NEW id \in Nat, id \notin 1..called'
       PROVE  SentAt("ToolCall", id)' = {} /\ SentAt("ToolResult", id)' = {}
  BY <1>1, <1>3, <1>7, <1>8, <1>13 DEF Ledger
<1>14. ASSUME NEW id \in 1..called'
       PROVE  \/ Waiting(id)' /\ Told(id)' /\ SentAt("ToolResult", id)' = {}
              \/ ~Waiting(id)' /\ Answered(id)'
  <2>1. CASE id = this
    <3>1. PICK i \in DOMAIN events : SentAt("ToolCall", this) = {i}
      BY <1>10 DEF Told
    <3>2. i \in DOMAIN events' /\ Len(events) + 1 \in DOMAIN events' /\ i < Len(events) + 1
      BY <3>1, <1>12
    <3>3. SentAt("ToolCall", id)' = {i} /\ SentAt("ToolResult", id)' = {Len(events) + 1}
      BY <2>1, <3>1, <1>3, <1>7, <1>11
    <3>4. ~Waiting(id)'
      BY <2>1, <1>3, <1>6
    <3>5. QED
      BY <3>2, <3>3, <3>4 DEF Answered
  <2>2. CASE id # this
    <3>1. id \in Nat /\ id \in 1..called
      BY <1>1
    <3>2. CASE Waiting(id) /\ Told(id) /\ SentAt("ToolResult", id) = {}
      BY <2>2, <3>1, <3>2, <1>6, <1>7, <1>8, <1>12 DEF Told
    <3>3. CASE ~Waiting(id) /\ Answered(id)
      BY <2>2, <3>1, <3>3, <1>6, <1>7, <1>8, <1>12 DEF Answered
    <3>4. QED
      BY <3>1, <3>2, <3>3, <1>1 DEF Ledger
  <2>3. QED
    BY <2>1, <2>2
<1>15. QED
  BY <1>5, <1>13, <1>14 DEF Ledger

\* Events that are no calls or results do not touch the ledger.
LEMMA LedgerOthers ==
  ASSUME TypeOK, Ledger, UNCHANGED <<called, todo>>, Running' => Running,
         \/ UNCHANGED events
         \/ Emit("Text", 0)
         \/ ~Running'
  PROVE  Ledger'
<1>0. SUFFICES ASSUME Running, Running', UNCHANGED events \/ Emit("Text", 0) PROVE Ledger'
  BY DEF Ledger
<1>1. /\ {"Text", "ToolCall", "ToolResult"} \subseteq Kinds
      /\ events \in Seq(RunEvent) /\ called \in Nat
  BY DEF TypeOK, Kinds
<1>2. \A id \in Nat : /\ SentAt("ToolCall", id)' = SentAt("ToolCall", id)
                      /\ SentAt("ToolResult", id)' = SentAt("ToolResult", id)
  BY <1>0, <1>1, SentElsewhere DEF SentAt
<1>3. DOMAIN events \subseteq DOMAIN events'
  <2>1. CASE Emit("Text", 0)
    <3>1. /\ DOMAIN events = 1..Len(events) /\ Len(events) \in Nat
          /\ DOMAIN events' = 1..(Len(events) + 1)
      BY <1>1, <2>1, EmitEffect
    <3>2. QED
      BY <3>1
  <2>2. CASE UNCHANGED events
    BY <2>2
  <2>3. QED
    BY <2>1, <2>2, <1>0
<1>4. \A id \in Nat : Waiting(id)' <=> Waiting(id)
  BY DEF Waiting
<1>5. ASSUME NEW id \in 1..called
      PROVE  \/ Waiting(id)' /\ Told(id)' /\ SentAt("ToolResult", id)' = {}
             \/ ~Waiting(id)' /\ Answered(id)'
  <2>1. CASE Waiting(id) /\ Told(id) /\ SentAt("ToolResult", id) = {}
    BY <2>1, <1>1, <1>2, <1>3, <1>4 DEF Told
  <2>2. CASE ~Waiting(id) /\ Answered(id)
    BY <2>2, <1>1, <1>2, <1>3, <1>4 DEF Answered
  <2>3. QED
    BY <2>1, <2>2, <1>0 DEF Ledger
<1>6. QED
  BY <1>0, <1>1, <1>2, <1>5 DEF Ledger

LEMMA LedgerStep == ASSUME TypeOK, TypeOK', Ledger, [Next]_vars PROVE Ledger'
<1>1. CASE ToolCallDelta
  BY <1>1, LedgerToolCall
<1>2. CASE RunTool
  BY <1>2, LedgerRunTool
<1>3. CASE ~ToolCallDelta /\ ~RunTool
  <2>1. /\ UNCHANGED <<called, todo>>
        /\ Running' => Running
        /\ UNCHANGED events \/ Emit("Text", 0) \/ ~Running'
    BY <1>3 DEF Next, vars, Running, Resolve, Ask, TextDelta, Usage, FinishStop,
                StreamError, StreamEnds, NextStep, Return, Streaming
  <2>2. QED
    BY <2>1, LedgerOthers
<1>4. QED
  BY <1>1, <1>2, <1>3

-----------------------------------------------------------------------------
LEMMA InitLoopInv == Init => LoopInv
<1> SUFFICES ASSUME Init PROVE LoopInv
  OBVIOUS
<1>1. TypeOK
  BY LoopNumbers DEF Init, TypeOK, Budget
<1>2. StepsLeft /\ WithinLimits
  BY LoopNumbers DEF Init, StepsLeft, WithinLimits, Running
<1>3. OneLastEvent
  BY DEF Init, OneLastEvent
<1>4. Ledger
  BY DEF Init, Ledger, SentAt
<1>5. QED
  BY <1>1, <1>2, <1>3, <1>4 DEF LoopInv

\* The inductive invariant of a run.
THEOREM LoopInvariant == Spec => []LoopInv
<1>1. LoopInv /\ [Next]_vars => LoopInv'
  BY TypesStep, StepsLeftStep, WithinLimitsStep, OneLastEventStep, LedgerStep DEF LoopInv
<1>2. QED
  BY <1>1, InitLoopInv, PTL DEF Spec

\* Every reachable state is well typed: at most MaxSteps requests, and counters
\* that never leave their width.
THEOREM LoopTypes == Spec => []TypeOK
<1>1. LoopInv => TypeOK
  BY DEF LoopInv
<1>2. QED
  BY <1>1, LoopInvariant, PTL

\* The model is never asked over budget, whatever is reported.
THEOREM NeverAskedOverBudget == Spec => []AskedWithinBudget
<1>1. LoopInv => AskedWithinBudget
  BY DEF LoopInv, WithinLimits, Running, AskedWithinBudget
<1>2. QED
  BY <1>1, LoopInvariant, PTL

\* A returned run has one last event, and each tool call that was told has one
\* result after it when the model is asked again.
THEOREM EventsComplete == Spec => []EventsAreComplete
<1>1. ASSUME LoopInv PROVE EventsAreComplete
  <2>1. ASSUME stage = "asking", NEW id \in 1..called
        PROVE  Answered(id)
    BY <1>1, <2>1 DEF LoopInv, StepsLeft, Ledger, Running, Waiting
  <2>2. QED
    BY <1>1, <2>1 DEF LoopInv, OneLastEvent, EventsAreComplete, Answered
<1>2. QED
  BY <1>1, LoopInvariant, PTL
=============================================================================
