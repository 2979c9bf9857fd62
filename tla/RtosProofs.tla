----------------------------- MODULE RtosProofs -----------------------------
(***************************************************************************)
(* What TLAPS proves about Rtos, for any number of items, any queue length *)
(* and any delay.                                                          *)
(***************************************************************************)
EXTENDS Rtos, SequenceTheorems, TLAPS

\* Places of the code and other variables that Accounts depends on.
Places ==
    /\ pc["P"] \in {"send", "give", "delay"} => i <= NUM_ITEMS
    /\ pc["C"] = "done" => g_consumed = NUM_ITEMS
    /\ tohost = "pass" => g_consumed = NUM_ITEMS

\* Before the scheduler starts no task has run; a task that was not created
\* never prints.
Started ==
    /\ cur = "main" => /\ pc["P"] = "send" /\ pc["C"] = "take"
                       /\ \A t \in Tasks : put[t] = 0
    /\ \A t \in Tasks : put[t] > 0 => t \in heap

\* While the Producer prints, the Consumer waits.
Undisturbed == put["P"] > 0 => ~Ready("C")

\* Whoever runs and has seen the transmitter idle finds it idle.
PollHolds == cur \in Contexts /\ polled[cur] => ~tx_busy

\* Without a tick the Producer does not get past its first delay.
Stuck ==
    ~tick_on => \/ i = 1 /\ pc["P"] \in {"send", "give", "delay"}
                \/ i = 2 /\ pc["P"] = "delayed" /\ delay > 0

\* The types of Rtos, without the ranges that Accounts gives.
Inv ==
    /\ TypeOK /\ Accounts /\ Places /\ Started /\ Undisturbed
    /\ PollHolds /\ Stuck /\ NoByteLost /\ LinesWhole


\* The sizes, one by one.
LEMMA Constants ==
    /\ NUM_ITEMS \in Nat /\ NUM_ITEMS > 0 /\ QUEUE_LEN \in Nat /\ QUEUE_LEN > 0
    /\ DELAY \in Nat /\ DELAY > 0 /\ LineCalls \in Nat /\ LineCalls > 0 /\ MAX_REPORTS \in Nat
  BY Sizes

\* The place a context may go to is one of its own.
LEMMA Label ==
  /\ \A l \in {"boot", "queue", "sem", "check", "C", "P", "W", "idle", "timer", "started", "fail"} :
        l \in Labels["main"]
  /\ \A l \in {"send", "give", "delay", "delayed", "deleted"} : l \in Labels["P"]
  /\ \A l \in {"take", "receive", "got", "done"} : l \in Labels["C"]
  /\ "spin" \in Labels["W"]
  BY DEF Labels

\* The initial state satisfies the invariant.
LEMMA InitInv == Init => Inv
<1> SUFFICES ASSUME Init PROVE Inv
  OBVIOUS
<1>1. /\ pc["P"] = "send" /\ pc["C"] = "take" /\ pc["W"] = "spin" /\ pc["main"] = "boot"
      /\ pc \in [Contexts -> AnyLabel]
  <2>1. pc = [c \in Contexts |-> Entry[c]]
    BY DEF Init
  <2>2. Entry["P"] = "send" /\ Entry["C"] = "take" /\ Entry["W"] = "spin" /\ Entry["main"] = "boot"
    BY DEF Entry
  <2>3. "P" \in Contexts /\ "C" \in Contexts /\ "W" \in Contexts /\ "main" \in Contexts
        /\ \A c \in Contexts : c = "P" \/ c = "C" \/ c = "W" \/ c = "main"
    BY DEF Contexts, Tasks
  <2> HIDE DEF Entry, Contexts
  <2>4. pc["P"] = "send" /\ pc["C"] = "take" /\ pc["W"] = "spin" /\ pc["main"] = "boot"
    BY <2>1, <2>2, <2>3
  <2>5. \A c \in Contexts : Entry[c] \in Labels[c]
    BY <2>2, <2>3, Label
  <2> QED
    BY <2>1, <2>4, <2>5 DEF AnyLabel
<1>2. TypeOK
  <2>1. heap \in SUBSET Objects /\ cur \in Contexts \cup {"idle"} /\ writer \in Contexts
    BY DEF Init, Contexts
  <2>2. \A c \in Contexts : pc[c] \in Labels[c]
    BY <1>1 DEF Contexts, Tasks, Labels
  <2>3. put \in [Contexts -> 0 .. LineCalls] /\ polled \in [Contexts -> BOOLEAN]
    BY Constants DEF Init
  <2>4. queue \in Seq(1 .. NUM_ITEMS) /\ Len(queue) <= QUEUE_LEN
    BY Constants DEF Init
  <2>5. sem \in 0 .. NUM_ITEMS /\ delay \in 0 .. DELAY /\ i \in 1 .. NUM_ITEMS + 1
        /\ rx \in 0 .. NUM_ITEMS /\ g_sem_taken \in 0 .. NUM_ITEMS
        /\ g_consumed \in 0 .. NUM_ITEMS /\ reports \in 0 .. MAX_REPORTS
    BY Constants DEF Init
  <2>6. tick_on \in BOOLEAN /\ tx_busy \in BOOLEAN /\ lost \in BOOLEAN /\ advanced \in BOOLEAN
        /\ tohost \in {"none", "pass", "fail"}
    BY DEF Init
  <2> QED
    BY <1>1, <2>1, <2>2, <2>3, <2>4, <2>5, <2>6, Zenon DEF TypeOK
<1>3. Accounts
  BY <1>1 DEF Init, Accounts, Sent, Given
<1>4. \A c \in Contexts : put[c] = 0 /\ polled[c] = FALSE
  BY DEF Init
<1>5. Places /\ Started /\ Undisturbed /\ PollHolds
  BY <1>1, <1>4, Constants DEF Init, Places, Started, Undisturbed, PollHolds, Contexts, Tasks
<1>6. Stuck /\ NoByteLost /\ LinesWhole
  BY <1>1, <1>4, Constants DEF Init, Stuck, NoByteLost, LinesWhole, Contexts, Tasks
<1> QED
  BY <1>2, <1>3, <1>5, <1>6 DEF Inv

----------------------------------------------------------------------------
(* One context moves at a time.                                            *)
Moves(c, label) ==
    /\ pc' \in [Contexts -> AnyLabel] /\ pc'[c] = label
    /\ \A d \in Contexts \ {c} : pc'[d] = pc[d]
    /\ \A d \in Contexts : pc'[d] \in Labels[d]

\* A context that goes on without printing.
LEMMA GotoMoves ==
  ASSUME TypeOK, NEW c \in Contexts, NEW label \in Labels[c], Goto(c, label)
  PROVE  Moves(c, label) /\ put' = put
  BY DEF TypeOK, Goto, Moves, AnyLabel

\* A context that begins a line.
LEMMA PutsMoves ==
  ASSUME TypeOK, NEW c \in Contexts, NEW label \in Labels[c], Puts(c, label)
  PROVE  /\ Moves(c, label)
         /\ put' \in [Contexts -> 0 .. LineCalls] /\ put'[c] = LineCalls
         /\ \A d \in Contexts \ {c} : put'[d] = put[d]
<1>1. pc' = [pc EXCEPT ![c] = label] /\ put' = [put EXCEPT ![c] = LineCalls]
  BY DEF Puts
<1>2. pc \in [Contexts -> AnyLabel] /\ put \in [Contexts -> 0 .. LineCalls]
      /\ \A d \in Contexts : pc[d] \in Labels[d]
  BY DEF TypeOK
<1>3. label \in AnyLabel
  BY DEF AnyLabel
<1>4. LineCalls \in 0 .. LineCalls
  BY Constants
<1>5. Moves(c, label)
  BY <1>1, <1>2, <1>3 DEF Moves
<1> QED
  BY <1>1, <1>2, <1>4, <1>5

\* Both, for the parts of the invariant that only ask what the others do.
LEMMA Step ==
  ASSUME TypeOK, NEW c \in Contexts, NEW label \in Labels[c],
         Goto(c, label) \/ Puts(c, label)
  PROVE  /\ Moves(c, label)
         /\ put' \in [Contexts -> 0 .. LineCalls] /\ put'[c] \in {put[c], LineCalls}
         /\ \A d \in Contexts \ {c} : put'[d] = put[d]
  BY GotoMoves, PutsMoves DEF TypeOK

\* The contexts and where their code can be.
LEMMA Where ==
  ASSUME TypeOK
  PROVE  /\ pc["P"] \in {"send", "give", "delay", "delayed", "deleted"}
         /\ pc["C"] \in {"take", "receive", "got", "done"}
         /\ "P" \in Contexts /\ "C" \in Contexts /\ "W" \in Contexts /\ "main" \in Contexts
  BY DEF TypeOK, Labels, Contexts, Tasks

----------------------------------------------------------------------------
(* The console driver and the hardware.                                    *)

\* uart_putc's poll: the line it belongs to is still whole.
LEMMA PollInv == Inv /\ Poll => Inv'
<1> SUFFICES ASSUME Inv, Poll PROVE Inv'
  OBVIOUS
<1> USE DEF Inv, Poll, task, line
<1>1. TypeOK'
  BY DEF TypeOK, Contexts
<1>2. Accounts' /\ Places' /\ Stuck' /\ NoByteLost'
  BY DEF Accounts, Sent, Given, Places, Stuck, NoByteLost
<1>3. Started' /\ Undisturbed' /\ LinesWhole'
  BY DEF Started, Undisturbed, Ready, Waits, LinesWhole
<1>4. PollHolds'
  BY DEF PollHolds
<1> QED
  BY <1>1, <1>2, <1>3, <1>4

\* uart_putc's write: only a highest-priority task gets that far, and it
\* saw the transmitter idle.
LEMMA WriteInv == Inv /\ Write => Inv'
<1> SUFFICES ASSUME Inv, Write PROVE Inv'
  OBVIOUS
<1> USE DEF Inv, Write, task
<1>1. cur \in Contexts /\ put[cur] \in 1 .. LineCalls
  BY Constants DEF TypeOK, Runs, Contexts
<1>2. put' \in [Contexts -> 0 .. LineCalls] /\ polled' \in [Contexts -> BOOLEAN]
      /\ put'[cur] = put[cur] - 1 /\ \A d \in Contexts \ {cur} : put'[d] = put[d]
      /\ polled'[cur] = FALSE
  BY <1>1, Constants DEF TypeOK
<1>3. TypeOK'
  BY <1>1, <1>2 DEF TypeOK
<1>4. Accounts' /\ Places' /\ Stuck'
  BY DEF Accounts, Sent, Given, Places, Stuck
<1>5. PollHolds' /\ NoByteLost'
  BY <1>1, <1>2 DEF PollHolds, NoByteLost, TypeOK
<1>6. Started'
  BY <1>1, <1>2 DEF Started, Contexts, Tasks, TypeOK
<1>7. Undisturbed'
  <2> SUFFICES ASSUME put'["P"] > 0, Ready("C")' PROVE FALSE
    BY DEF Undisturbed
  <2>1. put["P"] > 0
    BY <1>1, <1>2, Where, Constants DEF TypeOK
  <2>2. ~Ready("C")
    BY <2>1 DEF Undisturbed
  <2>3. cur # "C"
    BY <2>2 DEF Runs, IsHighest
  <2> QED
    BY <2>2, <2>3, <1>2, Where DEF Ready, Waits, Contexts, Tasks
<1>8. LinesWhole'
  <2> SUFFICES ASSUME NEW t \in {"C", "P"}, put'[t] \in 1 .. LineCalls - 1, t # cur
               PROVE  FALSE
    BY DEF LinesWhole
  <2>1. put[t] > 0 /\ put'[t] = put[t]
    BY <1>2, Where
  <2>2. t \in heap /\ Ready(t) /\ cur # "main"
    BY <2>1 DEF Started, Ready, Tasks
  <2>3. IsHighest(cur)
    BY <2>2 DEF Runs
  <2>4. CASE t = "C"
    BY <2>2, <2>3, <2>4, <1>1 DEF IsHighest, Prio, Contexts, Tasks
  <2>5. CASE t = "P"
    <3>1. ~Ready("C")
      BY <2>1, <2>5 DEF Undisturbed
    <3> QED
      BY <3>1, <2>2, <2>3, <2>5, <1>1 DEF IsHighest, Prio, Contexts, Tasks
  <2> QED
    BY <2>4, <2>5
<1> QED
  BY <1>3, <1>4, <1>5, <1>6, <1>7, <1>8

\* A context switch moves no data; only the Worker is switched out in a line.
LEMMA SwitchInv == Inv /\ Switch => Inv'
<1> SUFFICES ASSUME Inv, Switch PROVE Inv'
  OBVIOUS
<1> USE DEF Inv, Switch, task
<1>1. TypeOK'
  BY DEF TypeOK, Contexts
<1>2. Accounts' /\ Places' /\ Stuck' /\ NoByteLost' /\ LinesWhole' /\ PollHolds'
  BY DEF Accounts, Sent, Given, Places, Stuck, NoByteLost, LinesWhole, PollHolds
<1>3. Started' /\ Undisturbed'
  BY DEF Started, Undisturbed, Ready, Waits, Tasks
<1> QED
  BY <1>1, <1>2, <1>3

\* The end of a frame.
LEMMA FrameSentInv == Inv /\ FrameSent => Inv'
<1> SUFFICES ASSUME Inv, FrameSent PROVE Inv'
  OBVIOUS
<1> USE DEF Inv, FrameSent, task
<1>1. TypeOK'
  BY DEF TypeOK
<1>2. Accounts' /\ Places' /\ Stuck' /\ NoByteLost' /\ LinesWhole' /\ PollHolds'
  BY DEF Accounts, Sent, Given, Places, Stuck, NoByteLost, LinesWhole, PollHolds
<1>3. Started' /\ Undisturbed'
  BY DEF Started, Undisturbed, Ready, Waits
<1> QED
  BY <1>1, <1>2, <1>3

\* A tick wakes the Producer and changes nothing else.
LEMMA TickInv == Inv /\ Tick => Inv'
<1> SUFFICES ASSUME Inv, Tick PROVE Inv'
  OBVIOUS
<1> USE DEF Inv, Tick, line
<1>1. TypeOK'
  BY Constants DEF TypeOK
<1>2. Accounts' /\ Places' /\ Stuck' /\ NoByteLost' /\ LinesWhole' /\ PollHolds'
  BY DEF Accounts, Sent, Given, Places, Stuck, NoByteLost, LinesWhole, PollHolds
<1>3. Started' /\ Undisturbed'
  BY DEF Started, Undisturbed, Ready, Waits
<1> QED
  BY <1>1, <1>2, <1>3

----------------------------------------------------------------------------
(* main.                                                                   *)

\* main creates the objects while no task runs.
LEMMA MainInv == Inv /\ Main => Inv'
<1> SUFFICES ASSUME Inv, Main PROVE Inv'
  OBVIOUS
<1> USE DEF Inv
<1>1. /\ cur = "main" /\ tohost = "none" /\ put["main"] = 0
      /\ UNCHANGED <<heap, tick_on, polled, line, task>>
  BY DEF Main, Boot, Create, Assert, SetupTimer, StartFirstTask, sim_fail, At, Runs, CpuOnly
<1>2. CASE cur' = "main" /\ tohost' = "none"
           /\ \E l \in Labels["main"] : Goto("main", l) \/ Puts("main", l)
  <2>1. PICK l \in Labels["main"] : Goto("main", l) \/ Puts("main", l)
    BY <1>2
  <2>2. Moves("main", l) /\ put' \in [Contexts -> 0 .. LineCalls]
        /\ \A d \in Contexts \ {"main"} : put'[d] = put[d]
    BY <2>1, Step, Where
  <2>3. pc'["P"] = pc["P"] /\ pc'["C"] = pc["C"] /\ put'["P"] = put["P"] /\ put'["C"] = put["C"]
        /\ put'["W"] = put["W"]
    BY <2>2, Where DEF Moves
  <2>4. TypeOK'
    BY <1>1, <1>2, <2>2 DEF TypeOK, Moves, line, task
  <2>5. Accounts' /\ Places' /\ Stuck' /\ NoByteLost' /\ LinesWhole' /\ PollHolds'
    BY <1>1, <1>2, <2>3 DEF Accounts, Sent, Given, Places, Stuck, NoByteLost, LinesWhole,
       PollHolds, line, task
  <2>6. Started' /\ Undisturbed'
    BY <1>1, <1>2, <2>3 DEF Started, Undisturbed, Ready, Waits, line, task, Tasks
  <2> QED
    BY <2>4, <2>5, <2>6
<1>3. CASE StartFirstTask \/ sim_fail
  <2>1. UNCHANGED <<pc, put>> /\ cur' \in {"main", "idle"} /\ tohost' \in {"none", "fail"}
    BY <1>3, <1>1 DEF StartFirstTask, sim_fail
  <2>2. TypeOK'
    BY <1>1, <2>1 DEF TypeOK, line, task
  <2>3. Accounts' /\ Places' /\ Stuck' /\ NoByteLost' /\ LinesWhole'
    BY <1>1, <2>1 DEF Accounts, Sent, Given, Places, Stuck, NoByteLost, LinesWhole, line, task
  <2>4. Started' /\ Undisturbed'
    BY <1>1, <2>1 DEF Started, Undisturbed, Ready, Waits, line, task, Tasks
  <2>5. PollHolds'
    BY <1>1, <2>1 DEF PollHolds, line, Contexts, Tasks
  <2> QED
    BY <2>2, <2>3, <2>4, <2>5
<1>4. CASE Boot \/ SetupTimer \/ \E l \in {"queue", "sem", "C", "P", "W"},
                n \in {"sem", "check", "P", "W", "idle"} : Create(l, n)
  <2>1. \E l \in Labels["main"] : Goto("main", l) \/ Puts("main", l)
    BY <1>4, Label DEF Boot, SetupTimer, Create
  <2> QED
    BY <1>1, <1>4, <1>2, <2>1 DEF Boot, SetupTimer, Create
<1>5. CASE Assert("check", {"queue", "sem"}, "C") \/ Assert("idle", {"idle"}, "timer")
  <2>1. \E l \in Labels["main"] : Goto("main", l) \/ Puts("main", l)
    BY <1>5, Label DEF Assert
  <2> QED
    BY <1>1, <1>5, <1>2, <2>1 DEF Assert
<1> QED
  BY <1>3, <1>4, <1>5 DEF Main

----------------------------------------------------------------------------
(* vProducer.                                                              *)

\* When the Producer runs, nothing more urgent could.
LEMMA ProducerRuns ==
  ASSUME Inv, NEW l, At("P", l)
  PROVE  /\ cur = "P" /\ "P" \in heap /\ tohost = "none" /\ put["P"] = 0 /\ pc["P"] = l
         /\ ~Ready("C") /\ ~Waits("P")
<1>1. cur = "P" /\ tohost = "none" /\ put["P"] = 0 /\ pc["P"] = l /\ IsHighest("P")
  BY DEF At, Runs
<1>2. ~Ready("C")
  BY <1>1 DEF IsHighest, Prio, Tasks
<1>3. Ready("P")
  BY <1>1 DEF IsHighest
<1> QED
  BY <1>1, <1>2, <1>3 DEF Ready

\* xQueueSend: the item is one ahead of the units given.
LEMMA SendInv == Inv /\ Send => Inv'
<1> SUFFICES ASSUME Inv, Send PROVE Inv'
  OBVIOUS
<1> USE DEF Inv, Send
<1>1. cur = "P" /\ "P" \in heap /\ tohost = "none" /\ put["P"] = 0 /\ pc["P"] = "send"
      /\ ~Ready("C") /\ Len(queue) # QUEUE_LEN
  BY ProducerRuns DEF Waits
<1>2. Moves("P", "give") /\ put' \in [Contexts -> 0 .. LineCalls] /\ put'["P"] = LineCalls
      /\ \A d \in Contexts \ {"P"} : put'[d] = put[d]
  BY PutsMoves, Where, Label
<1>3. pc'["P"] = "give" /\ pc'["C"] = pc["C"] /\ put'["C"] = put["C"] /\ put'["W"] = put["W"]
  BY <1>2, Where DEF Moves
<1>4. i \in 1 .. NUM_ITEMS
  BY <1>1, Constants DEF TypeOK, Places
<1>5. queue' \in Seq(1 .. NUM_ITEMS) /\ Len(queue') = Len(queue) + 1
      /\ \A k \in 1 .. Len(queue) : queue'[k] = queue[k]
      /\ queue'[Len(queue) + 1] = i
  BY <1>4 DEF TypeOK
<1>6. TypeOK'
  BY <1>1, <1>2, <1>5, Constants DEF TypeOK, Moves, CpuOnly, line
<1>7. Accounts'
  <2>1. Sent = i - 1 /\ Sent' = i /\ Given' = Given
    BY <1>1, <1>3 DEF Sent, Given
  <2>2. Len(queue') = Sent' - g_consumed'
    BY <1>5, <2>1 DEF Accounts, TypeOK
  <2>3. \A k \in 1 .. Len(queue') : queue'[k] = g_consumed' + k
    BY <1>5, <2>1 DEF Accounts, TypeOK
  <2> QED
    BY <2>1, <2>2, <2>3, <1>3 DEF Accounts
<1>8. Places' /\ Stuck' /\ NoByteLost' /\ PollHolds'
  BY <1>1, <1>3, <1>4 DEF Places, Stuck, NoByteLost, PollHolds, CpuOnly, line
<1>9. LinesWhole'
  BY <1>2, <1>3, Constants DEF LinesWhole, CpuOnly, line
<1>10. Started'
  BY <1>1, <1>3 DEF Started, CpuOnly, Tasks
<1>11. Undisturbed'
  <2>1. ~(pc["C"] = "receive" /\ queue = <<>>)
    <3> SUFFICES ASSUME pc["C"] = "receive", queue = <<>> PROVE FALSE
      OBVIOUS
    <3>1. Len(queue) = 0 /\ Given = Sent
      BY <1>1 DEF Sent, Given
    <3> QED
      BY <3>1, Constants DEF Accounts, TypeOK, Sent, Given
  <2>2. CASE "C" \in heap
    <3>1. ~(put["C"] > 0) /\ pc["C"] = "take" /\ sem = 0
      BY <1>1, <2>1, <2>2 DEF Ready, Waits, Tasks
    <3>2. ~(put'["C"] > 0) /\ pc'["C"] = "take" /\ sem' = 0
      BY <1>3, <3>1
    <3> QED
      BY <3>2 DEF Undisturbed, Ready, Waits
  <2>3. CASE "C" \notin heap
    BY <2>3 DEF Undisturbed, Ready, CpuOnly
  <2> QED
    BY <2>2, <2>3
<1> QED
  BY <1>6, <1>7, <1>8, <1>9, <1>10, <1>11

\* xSemaphoreGive: the unit follows its item.
LEMMA GiveInv == Inv /\ Give => Inv'
<1> SUFFICES ASSUME Inv, Give PROVE Inv'
  OBVIOUS
<1> USE DEF Inv, Give
<1>1. cur = "P" /\ "P" \in heap /\ tohost = "none" /\ put["P"] = 0 /\ pc["P"] = "give"
  BY ProducerRuns
<1>2. Moves("P", "delay") /\ put' = put
  BY GotoMoves, Where, Label
<1>3. pc'["P"] = "delay" /\ pc'["C"] = pc["C"]
  BY <1>2, Where DEF Moves
<1>4. i \in 1 .. NUM_ITEMS
  BY <1>1, Constants DEF TypeOK, Places
<1>5. sem < NUM_ITEMS /\ sem' = sem + 1
  BY <1>1, <1>4, Constants DEF Accounts, Given, TypeOK
<1>6. TypeOK'
  BY <1>1, <1>2, <1>5, Constants DEF TypeOK, Moves, CpuOnly, line
<1>7. Accounts'
  BY <1>1, <1>3, <1>4, <1>5, Constants DEF Accounts, Sent, Given, TypeOK
<1>8. Places' /\ Stuck' /\ NoByteLost' /\ PollHolds' /\ LinesWhole'
  BY <1>1, <1>2, <1>3, <1>4 DEF Places, Stuck, NoByteLost, PollHolds, LinesWhole, CpuOnly, line
<1>9. Started' /\ Undisturbed'
  BY <1>1, <1>2 DEF Started, Undisturbed, CpuOnly, Tasks
<1> QED
  BY <1>6, <1>7, <1>8, <1>9

\* vTaskDelay: the Producer leaves the processor between two items.
LEMMA vTaskDelayInv == Inv /\ vTaskDelay => Inv'
<1> SUFFICES ASSUME Inv, vTaskDelay PROVE Inv'
  OBVIOUS
<1> USE DEF Inv, vTaskDelay
<1>1. cur = "P" /\ "P" \in heap /\ tohost = "none" /\ put["P"] = 0 /\ pc["P"] = "delay"
  BY ProducerRuns
<1>2. Moves("P", "delayed") /\ put' = put
  BY GotoMoves, Where, Label
<1>3. pc'["P"] = "delayed" /\ pc'["C"] = pc["C"]
  BY <1>2, Where DEF Moves
<1>4. i \in 1 .. NUM_ITEMS
  BY <1>1, Constants DEF TypeOK, Places
<1>6. TypeOK'
  BY <1>1, <1>2, <1>4, Constants DEF TypeOK, Moves, CpuOnly, line
<1>7. Accounts'
  BY <1>1, <1>3, <1>4, Constants DEF Accounts, Sent, Given, TypeOK
<1>8. Places' /\ NoByteLost' /\ PollHolds' /\ LinesWhole'
  BY <1>1, <1>2, <1>3, <1>4 DEF Places, NoByteLost, PollHolds, LinesWhole, CpuOnly, line
<1>9. Started' /\ Undisturbed'
  BY <1>1, <1>2 DEF Started, Undisturbed, CpuOnly, Tasks
<1>10. Stuck'
  BY <1>1, <1>3, <1>4, Constants DEF Stuck, CpuOnly
<1> QED
  BY <1>6, <1>7, <1>8, <1>9, <1>10

\* The Producer's loop ends after NUM_ITEMS.
LEMMA LoopInv == Inv /\ Loop => Inv'
<1> SUFFICES ASSUME Inv, Loop PROVE Inv'
  OBVIOUS
<1> USE DEF Inv, Loop
<1>1. cur = "P" /\ "P" \in heap /\ tohost = "none" /\ put["P"] = 0 /\ pc["P"] = "delayed"
      /\ ~(delay > 0)
  BY ProducerRuns DEF Waits
<1>2. Moves("P", IF i <= NUM_ITEMS THEN "send" ELSE "deleted") /\ put' = put
  BY GotoMoves, Where, Label
<1>3. pc'["P"] = (IF i <= NUM_ITEMS THEN "send" ELSE "deleted") /\ pc'["C"] = pc["C"]
  BY <1>2, Where DEF Moves
<1>6. TypeOK'
  BY <1>1, <1>2, Constants DEF TypeOK, Moves, CpuOnly, line, task
<1>7. Accounts'
  BY <1>1, <1>3, Constants DEF Accounts, Sent, Given, TypeOK, task
<1>8. Places' /\ NoByteLost' /\ PollHolds' /\ LinesWhole'
  BY <1>1, <1>2, <1>3 DEF Places, NoByteLost, PollHolds, LinesWhole, CpuOnly, line, task
<1>9. Started' /\ Undisturbed'
  BY <1>1, <1>2 DEF Started, Undisturbed, CpuOnly, Tasks
<1>10. Stuck'
  BY <1>1 DEF Stuck, CpuOnly, task
<1> QED
  BY <1>6, <1>7, <1>8, <1>9, <1>10

----------------------------------------------------------------------------
(* vConsumer and vWorker.                                                  *)

\* A task that runs exists and does not wait.
LEMMA TaskRuns ==
  ASSUME Inv, NEW t \in Tasks, NEW l, At(t, l)
  PROVE  cur = t /\ t \in heap /\ tohost = "none" /\ put[t] = 0 /\ pc[t] = l /\ ~Waits(t)
<1>1. cur = t /\ tohost = "none" /\ put[t] = 0 /\ pc[t] = l /\ IsHighest(t)
  BY DEF At, Runs, Tasks
<1>2. Ready(t)
  BY <1>1 DEF IsHighest
<1> QED
  BY <1>1, <1>2 DEF Ready, Tasks

\* The Producer is not in the middle of a line when the Consumer runs.
LEMMA ConsumerRuns ==
  ASSUME Inv, NEW l, At("C", l)
  PROVE  put["P"] = 0
<1>1. Ready("C")
  BY DEF At, Runs, IsHighest
<1> QED
  BY <1>1, Where, Constants DEF Inv, Undisturbed, TypeOK

\* xSemaphoreTake: one unit taken ahead of the item.
LEMMA TakeInv == Inv /\ Take => Inv'
<1> SUFFICES ASSUME Inv, Take PROVE Inv'
  OBVIOUS
<1> USE DEF Inv, Take
<1>1. cur = "C" /\ "C" \in heap /\ tohost = "none" /\ put["C"] = 0 /\ pc["C"] = "take"
      /\ sem # 0 /\ put["P"] = 0
  BY TaskRuns, ConsumerRuns DEF Tasks, Waits
<1>2. Moves("C", "receive") /\ put' \in [Contexts -> 0 .. LineCalls] /\ put'["C"] = LineCalls
      /\ \A d \in Contexts \ {"C"} : put'[d] = put[d]
  BY PutsMoves, Where, Label
<1>3. pc'["C"] = "receive" /\ pc'["P"] = pc["P"] /\ put'["P"] = put["P"] /\ put'["W"] = put["W"]
  BY <1>2, Where DEF Moves
<1>4. g_sem_taken + 1 \in 0 .. NUM_ITEMS /\ sem' \in 0 .. NUM_ITEMS
  BY <1>1, Constants, Where DEF TypeOK, Accounts, Given, Places
<1>5. TypeOK'
  BY <1>1, <1>2, <1>4, Constants DEF TypeOK, Moves, CpuOnly, line
<1>6. Accounts'
  BY <1>1, <1>3, <1>4 DEF Accounts, Sent, Given, TypeOK
<1>7. Places' /\ Stuck' /\ NoByteLost' /\ PollHolds'
  BY <1>1, <1>3 DEF Places, Stuck, NoByteLost, PollHolds, CpuOnly, line
<1>8. LinesWhole' /\ Undisturbed'
  BY <1>1, <1>2, <1>3, Constants DEF LinesWhole, Undisturbed, CpuOnly, line
<1>9. Started'
  BY <1>1, <1>3 DEF Started, CpuOnly, Tasks
<1> QED
  BY <1>5, <1>6, <1>7, <1>8, <1>9

\* xQueueReceive: the oldest item is the next one to be counted.
LEMMA ReceiveInv == Inv /\ Receive => Inv'
<1> SUFFICES ASSUME Inv, Receive PROVE Inv'
  OBVIOUS
<1> USE DEF Inv, Receive
<1>1. cur = "C" /\ "C" \in heap /\ tohost = "none" /\ put["C"] = 0 /\ pc["C"] = "receive"
      /\ queue # <<>> /\ put["P"] = 0
  BY TaskRuns, ConsumerRuns DEF Tasks, Waits
<1>2. Moves("C", "got") /\ put' \in [Contexts -> 0 .. LineCalls] /\ put'["C"] = LineCalls
      /\ \A d \in Contexts \ {"C"} : put'[d] = put[d]
  BY PutsMoves, Where, Label
<1>3. pc'["C"] = "got" /\ pc'["P"] = pc["P"] /\ put'["P"] = put["P"] /\ put'["W"] = put["W"]
  BY <1>2, Where DEF Moves
<1>4. /\ Len(queue) > 0 /\ Len(queue) \in Nat
      /\ queue' \in Seq(1 .. NUM_ITEMS) /\ Len(queue') = Len(queue) - 1
      /\ \A k \in 1 .. Len(queue) - 1 : queue'[k] = queue[k + 1]
      /\ rx' = queue[1]
  BY <1>1 DEF TypeOK
<1>5. rx' = g_consumed + 1 /\ rx' \in 1 .. NUM_ITEMS
  <2>1. 1 \in 1 .. Len(queue)
    BY <1>4
  <2>2. queue[1] = g_consumed + 1
    BY <2>1 DEF Accounts
  <2>3. queue[1] \in 1 .. NUM_ITEMS
    <3>1. queue \in Seq(1 .. NUM_ITEMS)
      BY DEF TypeOK
    <3> QED
      BY <2>1, <3>1, ElementOfSeq
  <2> QED
    BY <1>4, <2>2, <2>3
<1>6. TypeOK'
  BY <1>1, <1>2, <1>4, <1>5, Constants DEF TypeOK, Moves, CpuOnly, line
<1>7. Accounts'
  <2>1. Sent' = Sent /\ Given' = Given /\ Sent \in Int
    BY <1>3 DEF Sent, Given, TypeOK
  <2>2. Len(queue') = Sent' - g_consumed'
    BY <1>4, <1>5, <2>1 DEF Accounts, TypeOK
  <2>3. \A k \in 1 .. Len(queue') : queue'[k] = g_consumed' + k
    BY <1>4, <1>5, <2>1 DEF Accounts, TypeOK
  <2>4. sem' = Given' - g_sem_taken'
    BY <2>1 DEF Accounts
  <2>5. g_sem_taken' = g_consumed' + (IF pc'["C"] = "receive" THEN 1 ELSE 0) /\ rx' = g_consumed'
    BY <1>1, <1>3, <1>5 DEF Accounts, TypeOK
  <2> QED
    BY <2>2, <2>3, <2>4, <2>5 DEF Accounts
<1>8. Places' /\ Stuck' /\ NoByteLost' /\ PollHolds'
  BY <1>1, <1>3 DEF Places, Stuck, NoByteLost, PollHolds, CpuOnly, line
<1>9. LinesWhole' /\ Undisturbed'
  BY <1>1, <1>2, <1>3, Constants DEF LinesWhole, Undisturbed, CpuOnly, line
<1>10. Started'
  BY <1>1, <1>3 DEF Started, CpuOnly, Tasks
<1> QED
  BY <1>6, <1>7, <1>8, <1>9, <1>10

\* The Consumer goes on with its loop or is done.
LEMMA GotInv == Inv /\ Got => Inv'
<1> SUFFICES ASSUME Inv, Got PROVE Inv'
  OBVIOUS
<1> USE DEF Inv, Got
<1>1. cur = "C" /\ "C" \in heap /\ tohost = "none" /\ put["C"] = 0 /\ pc["C"] = "got"
      /\ put["P"] = 0
  BY TaskRuns, ConsumerRuns DEF Tasks
<1>2. PICK l \in {"take", "done"} : /\ Goto("C", l) \/ Puts("C", l)
                                    /\ l = "done" => g_consumed = NUM_ITEMS
  OBVIOUS
<1>3. Moves("C", l) /\ put' \in [Contexts -> 0 .. LineCalls] /\ put'["C"] \in {put["C"], LineCalls}
      /\ \A d \in Contexts \ {"C"} : put'[d] = put[d]
  BY <1>2, Step, Where, Label
<1>4. pc'["C"] = l /\ pc'["P"] = pc["P"] /\ put'["P"] = put["P"] /\ put'["W"] = put["W"]
  BY <1>3, Where DEF Moves
<1>5. TypeOK'
  BY <1>1, <1>3 DEF TypeOK, Moves, CpuOnly, line, task
<1>6. Accounts'
  BY <1>1, <1>2, <1>4 DEF Accounts, Sent, Given, TypeOK, task
<1>7. Places' /\ Stuck' /\ NoByteLost' /\ PollHolds'
  BY <1>1, <1>2, <1>4 DEF Places, Stuck, NoByteLost, PollHolds, CpuOnly, line, task
<1>8. LinesWhole' /\ Undisturbed'
  BY <1>1, <1>3, <1>4, Constants DEF LinesWhole, Undisturbed, CpuOnly, line
<1>9. Started'
  BY <1>1, <1>4 DEF Started, CpuOnly, Tasks
<1> QED
  BY <1>5, <1>6, <1>7, <1>8, <1>9

\* sim_pass is reached only after the last item.
LEMMA sim_passInv == Inv /\ sim_pass => Inv'
<1> SUFFICES ASSUME Inv, sim_pass PROVE Inv'
  OBVIOUS
<1> USE DEF Inv, sim_pass
<1>1. pc["C"] = "done"
  BY DEF At
<1>2. TypeOK'
  BY DEF TypeOK, CpuOnly, line, task
<1>3. Accounts' /\ Places' /\ Stuck' /\ NoByteLost' /\ PollHolds' /\ LinesWhole'
  BY <1>1 DEF Accounts, Sent, Given, Places, Stuck, NoByteLost, PollHolds, LinesWhole,
     CpuOnly, line, task
<1>4. Started' /\ Undisturbed'
  BY DEF Started, Undisturbed, Ready, Waits, CpuOnly, task
<1> QED
  BY <1>2, <1>3, <1>4

\* The Worker counts and prints below the other two.
LEMMA SampleInv == Inv /\ Sample => Inv'
<1> SUFFICES ASSUME Inv, Sample PROVE Inv'
  OBVIOUS
<1> USE DEF Inv, Sample
<1>1. cur = "W" /\ "W" \in heap /\ tohost = "none" /\ put["W"] = 0 /\ pc["W"] = "spin"
  BY TaskRuns DEF Tasks
<1>2. reports' \in 0 .. MAX_REPORTS
  BY Constants DEF TypeOK
<1>3. \/ UNCHANGED <<pc, put>>
      \/ /\ Moves("W", "spin") /\ put' \in [Contexts -> 0 .. LineCalls]
         /\ \A d \in Contexts \ {"W"} : put'[d] = put[d]
  BY PutsMoves, Where, Label
<1>4. pc'["C"] = pc["C"] /\ pc'["P"] = pc["P"] /\ put'["P"] = put["P"] /\ put'["C"] = put["C"]
  BY <1>3, Where DEF Moves
<1>5. TypeOK'
  BY <1>1, <1>2, <1>3 DEF TypeOK, Moves, CpuOnly, line
<1>6. Accounts'
  BY <1>4 DEF Accounts, Sent, Given
<1>7. Places' /\ Stuck' /\ NoByteLost' /\ PollHolds' /\ LinesWhole'
  BY <1>1, <1>4 DEF Places, Stuck, NoByteLost, PollHolds, LinesWhole, CpuOnly, line
<1>8. Undisturbed'
  BY <1>4 DEF Undisturbed, Ready, Waits, CpuOnly
<1>9. Started'
  BY <1>1, <1>4 DEF Started, CpuOnly, Tasks
<1> QED
  BY <1>5, <1>6, <1>7, <1>8, <1>9

----------------------------------------------------------------------------
(* Theorems.                                                               *)

\* Every step preserves the invariant.
LEMMA NextInv == Inv /\ [Next]_vars => Inv'
<1> SUFFICES ASSUME Inv, [Next]_vars PROVE Inv'
  OBVIOUS
<1>1. CASE UNCHANGED vars
  <2> USE <1>1 DEF vars, line, task, Inv
  <2>1. TypeOK'
    BY DEF TypeOK
  <2>2. Accounts' /\ Places' /\ Stuck' /\ NoByteLost' /\ PollHolds' /\ LinesWhole'
    BY DEF Accounts, Sent, Given, Places, Stuck, NoByteLost, PollHolds, LinesWhole
  <2>3. Started' /\ Undisturbed'
    BY DEF Started, Undisturbed, Ready, Waits
  <2> QED
    BY <2>1, <2>2, <2>3
<1>2. CASE Cpu
  BY <1>2, PollInv, WriteInv, SwitchInv, MainInv, SendInv, GiveInv, vTaskDelayInv, LoopInv,
     TakeInv, ReceiveInv, GotInv, sim_passInv, SampleInv DEF Cpu
<1> QED
  BY <1>1, <1>2, TickInv, FrameSentInv DEF Next, Spin

\* The invariant holds in every reachable state.
THEOREM Invariant == Spec => []Inv
<1> QED
  BY InitInv, NextInv, PTL DEF Spec

\* For any number of items and any queue length: every variable keeps its
\* type, the queue and the semaphore stay within the sizes they were created
\* with, so that no send and no give is ever refused.
THEOREM RtosTypeOK == Spec => []TypeOK
<1>1. Inv => TypeOK
  BY DEF Inv
<1> QED
  BY <1>1, Invariant, PTL

\* Queue, semaphore and the two tasks' counts agree in every state.
THEOREM RtosAccounts == Spec => []Accounts
<1>1. Inv => Accounts
  BY DEF Inv
<1> QED
  BY <1>1, Invariant, PTL

\* The Consumer never waits for an item the semaphore has announced.
THEOREM RtosItemIsThere == Spec => []ItemIsThere
<1>1. Inv => ItemIsThere
  <2> SUFFICES ASSUME Inv, pc["C"] = "receive", queue = <<>> PROVE FALSE
    BY DEF ItemIsThere
  <2>1. Len(queue) = 0
    OBVIOUS
  <2> QED
    BY <2>1, Where DEF Inv, Accounts, TypeOK, Sent, Given
<1> QED
  BY <1>1, Invariant, PTL

\* main prints nothing once the scheduler runs.
MainSilent == cur # "main" => put["main"] = 0

\* A step keeps main silent.
LEMMA MainSilentStep ==
  ASSUME TypeOK, MainSilent, [Next]_vars
  PROVE  MainSilent'
<1>1. put \in [Contexts -> 0 .. LineCalls] /\ {"main", "C", "P", "W"} \subseteq Contexts
  BY DEF TypeOK, Contexts, Tasks
<1>2. cur' = cur /\ put' = put => MainSilent'
  BY DEF MainSilent
<1>3. CASE Write
  BY <1>1, <1>3 DEF Write, MainSilent
<1>4. CASE Switch
  BY <1>4 DEF Switch, MainSilent
<1>5. CASE Main
  <2>1. cur = "main"
    BY <1>5 DEF Main, Boot, Create, Assert, SetupTimer, StartFirstTask, sim_fail, At, Runs
  <2>2. CASE StartFirstTask
    BY <2>2 DEF StartFirstTask, At, MainSilent
  <2>3. CASE ~StartFirstTask
    <3>1. cur' = cur
      BY <1>5, <2>3 DEF Main, Boot, Create, Assert, SetupTimer, sim_fail
    <3> QED
      BY <2>1, <3>1 DEF MainSilent
  <2> QED
    BY <2>2, <2>3
<1>6. CASE Send \/ Give \/ vTaskDelay \/ Loop \/ Take \/ Receive \/ Got \/ sim_pass \/ Sample
  <2>1. cur' = cur /\ cur # "main"
    BY <1>6 DEF Send, Give, vTaskDelay, Loop, Take, Receive, Got, sim_pass, Sample, At, Runs
  <2>2. put'["main"] = put["main"]
    BY <1>1, <1>6 DEF Send, Give, vTaskDelay, Loop, Take, Receive, Got, sim_pass, Sample, Goto, Puts
  <2> QED
    BY <2>1, <2>2 DEF MainSilent
<1> QED
  BY <1>2, <1>3, <1>4, <1>5, <1>6 DEF Next, Cpu, Poll, Tick, FrameSent, Spin, vars

\* Whoever runs and is about to begin a line finds no other line unfinished,
\* unless it is the Worker's: main has finished, the Producer prints only while
\* the Consumer waits, and the Consumer is never preempted.
LEMMA BehindWorkerHolds ==
  ASSUME Inv, MainSilent
  PROVE  BehindWorker
<1> SUFFICES ASSUME NEW t \in {"C", "P"}, Runs(t), put[t] = LineCalls, ~Fresh, writer # "W"
             PROVE  FALSE
  BY DEF BehindWorker
<1>1. /\ put \in [Contexts -> 0 .. LineCalls] /\ writer \in {"main", "C", "P"}
      /\ put[writer] \in 1 .. LineCalls - 1 /\ writer # t /\ cur = t
  BY Constants DEF Inv, TypeOK, Fresh, Contexts, Tasks, Runs
<1>2. CASE writer = "main"
  BY <1>1, <1>2 DEF MainSilent
<1>3. CASE writer = "P"
  <2>1. t = "C" /\ put["P"] > 0
    BY <1>1, <1>3, Constants
  <2> QED
    BY <2>1 DEF Inv, Undisturbed, Runs, IsHighest
<1>4. CASE writer = "C"
  <2>1. t = "P" /\ put["C"] > 0
    BY <1>1, <1>4, Constants
  <2>2. Ready("C")
    BY <2>1 DEF Inv, Started, Ready, Tasks
  <2>3. Prio["C"] <= Prio["P"]
    BY <2>1, <2>2 DEF Runs, IsHighest, Tasks
  <2> QED
    BY <2>3 DEF Prio
<1> QED
  BY <1>1, <1>2, <1>3, <1>4

\* Lines of the Producer and the Consumer are never torn, stand behind nothing
\* but the beginning of a Worker's line, and no byte is lost.
THEOREM RtosConsole == Spec => []LinesIntact
<1>1. Init => MainSilent
  BY DEF Init, MainSilent
<1>2. TypeOK /\ MainSilent /\ [Next]_vars => MainSilent'
  BY MainSilentStep
<1>3. Inv /\ MainSilent => LinesIntact
  BY BehindWorkerHolds DEF Inv, LinesIntact
<1>4. Inv => TypeOK
  BY DEF Inv
<1> QED
  BY <1>1, <1>2, <1>3, <1>4, Invariant, PTL DEF Spec

\* Without the tick at most one item is consumed.
THEOREM RtosTickIsLoadBearing == Spec => []TickIsLoadBearing
<1>1. Inv => TickIsLoadBearing
  <2> SUFFICES ASSUME Inv, ~tick_on
               PROVE  g_consumed <= 1 /\ (tohost = "pass" => NUM_ITEMS = 1)
    BY DEF TickIsLoadBearing
  <2>1. Sent <= 1 /\ Len(queue) >= 0
    BY DEF Inv, Stuck, Sent, TypeOK
  <2>2. g_consumed <= 1
    BY <2>1 DEF Inv, Accounts, TypeOK, Sent
  <2> QED
    BY <2>2, Constants DEF Inv, Places, TypeOK
<1> QED
  BY <1>1, Invariant, PTL

----------------------------------------------------------------------------
(* The console implements the abstract channel.                            *)

\* What the mapping does not see.
LEMMA Unseen ==
  ASSUME pc'["P"] = pc["P"], pc'["C"] = pc["C"], i' = i, rx' = rx, g_consumed' = g_consumed,
         tohost' = tohost, (put'["P"] = 0) = (put["P"] = 0), (put'["C"] > 0) = (put["C"] > 0)
  PROVE  UNCHANGED Console!vars
  BY DEF Console!vars, Announced, Received

\* The initial states correspond.
LEMMA InitChannel == Init => Console!Init
<1> SUFFICES ASSUME Init PROVE Console!Init
  OBVIOUS
<1>1. Inv
  BY InitInv
<1>2. pc["P"] = "send" /\ pc["C"] = "take" /\ i = 1 /\ rx = 0 /\ tohost = "none"
  BY <1>1 DEF Init, Inv, Started
<1> QED
  BY <1>2 DEF Console!Init, Announced, Received

\* A write that ends a line announces or delivers its item.
LEMMA WriteChannel == Inv /\ Write => [Console!Next]_Console!vars
<1> SUFFICES ASSUME Inv, Write PROVE [Console!Next]_Console!vars
  OBVIOUS
<1> USE DEF Write, task
<1>1. put[cur] > 0 /\ cur \in Contexts /\ put \in [Contexts -> 0 .. LineCalls]
  BY DEF Inv, TypeOK, Runs, Contexts
<1>2. put'[cur] = put[cur] - 1 /\ \A d \in Contexts \ {cur} : put'[d] = put[d]
  BY <1>1
<1>3. CASE cur = "P" /\ put["P"] = 1 /\ pc["P"] = "give"
  <2>1. put'["P"] = 0 /\ put'["C"] = put["C"]
    BY <1>2, <1>3, <1>1, Where DEF Inv
  <2>2. Announced = i - 1 /\ Announced' = i /\ Received' = Received
    BY <1>3, <2>1 DEF Announced, Received
  <2>3. i \in 1 .. NUM_ITEMS
    BY <1>3, Constants DEF Inv, TypeOK, Places
  <2>4. Console!Announce
    BY <2>2, <2>3, Constants DEF Console!Announce
  <2> QED
    BY <2>4 DEF Console!Next
<1>4. CASE cur = "C" /\ put["C"] = 1 /\ pc["C"] = "got"
  <2>1. put'["C"] = 0 /\ put'["P"] = put["P"]
    BY <1>2, <1>4, <1>1, Where DEF Inv
  <2>2. Received = g_consumed - 1 /\ Received' = g_consumed /\ Announced' = Announced
    BY <1>4, <2>1 DEF Announced, Received, Inv, Accounts
  <2>3. g_consumed <= Announced /\ g_consumed \in Nat /\ Announced \in Int
    BY <1>4, Where DEF Inv, Accounts, Given, Announced, TypeOK
  <2>4. Console!Receive
    BY <2>2, <2>3 DEF Console!Receive
  <2> QED
    BY <2>4 DEF Console!Next
<1>5. CASE ~(cur = "P" /\ put["P"] = 1 /\ pc["P"] = "give")
           /\ ~(cur = "C" /\ put["C"] = 1 /\ pc["C"] = "got")
  <2>1. cur = "P" => put["P"] > 0 /\ put["P"] \in Nat /\ put'["P"] = put["P"] - 1 /\ put'["C"] = put["C"]
    BY <1>1, <1>2, Where DEF Inv
  <2>2. cur = "C" => put["C"] > 0 /\ put["C"] \in Nat /\ put'["C"] = put["C"] - 1 /\ put'["P"] = put["P"]
    BY <1>1, <1>2, Where DEF Inv
  <2>3. cur \notin {"C", "P"} => put'["C"] = put["C"] /\ put'["P"] = put["P"]
    BY <1>1, <1>2, Where DEF Inv
  <2>4. Announced' = Announced
    BY <1>5, <2>1, <2>2, <2>3 DEF Announced
  <2>5. Received' = Received
    BY <1>5, <2>1, <2>2, <2>3 DEF Received
  <2> QED
    BY <2>4, <2>5 DEF Console!vars
<1> QED
  BY <1>3, <1>4, <1>5

\* The Producer's and the Consumer's own steps.
LEMMA TasksChannel ==
  Inv /\ (Send \/ Give \/ vTaskDelay \/ Loop \/ Take \/ Receive \/ Got \/ sim_pass \/ Sample)
  => [Console!Next]_Console!vars
<1> SUFFICES ASSUME Inv, Send \/ Give \/ vTaskDelay \/ Loop \/ Take \/ Receive \/ Got
                         \/ sim_pass \/ Sample
             PROVE  [Console!Next]_Console!vars
  OBVIOUS
<1>0. TypeOK /\ i \in Int /\ g_consumed \in Nat
  BY DEF Inv, TypeOK
<1>1. CASE Send \/ Give \/ vTaskDelay \/ Loop
  <2>1. PICK l \in {"give", "delay", "delayed", "send", "deleted"} :
          /\ pc'["P"] = l /\ pc'["C"] = pc["C"] /\ put'["C"] = put["C"]
          /\ put'["P"] \in {put["P"], LineCalls}
          /\ Send => l = "give" /\ put'["P"] = LineCalls
          /\ Give => l = "delay" /\ put'["P"] = put["P"]
          /\ vTaskDelay => l = "delayed" /\ put'["P"] = put["P"]
          /\ Loop => l \in {"send", "deleted"} /\ put'["P"] = put["P"]
    <3>1. CASE Send
      <4>1. Moves("P", "give") /\ put'["P"] = LineCalls /\ \A d \in Contexts \ {"P"} : put'[d] = put[d]
        BY <3>1, <1>0, PutsMoves, Where, Label DEF Send
      <4>2. pc["P"] = "send"
        BY <3>1 DEF Send, At
      <4> QED
        BY <3>1, <4>1, <4>2, <1>0, Where DEF Moves, Give, vTaskDelay, Loop, At
    <3>2. CASE Give
      <4>1. Moves("P", "delay") /\ put' = put
        BY <3>2, <1>0, GotoMoves, Where, Label DEF Give
      <4>2. pc["P"] = "give"
        BY <3>2 DEF Give, At
      <4> QED
        BY <3>2, <4>1, <4>2, <1>0, Where DEF Moves, Send, vTaskDelay, Loop, At
    <3>3. CASE vTaskDelay
      <4>1. Moves("P", "delayed") /\ put' = put
        BY <3>3, <1>0, GotoMoves, Where, Label DEF vTaskDelay
      <4>2. pc["P"] = "delay"
        BY <3>3 DEF vTaskDelay, At
      <4> QED
        BY <3>3, <4>1, <4>2, <1>0, Where DEF Moves, Send, Give, Loop, At
    <3>4. CASE Loop
      <4>1. Moves("P", IF i <= NUM_ITEMS THEN "send" ELSE "deleted") /\ put' = put
        BY <3>4, <1>0, GotoMoves, Where, Label DEF Loop
      <4>2. pc["P"] = "delayed"
        BY <3>4 DEF Loop, At
      <4> QED
        BY <3>4, <4>1, <4>2, <1>0, Where DEF Moves, Send, Give, vTaskDelay, At
    <3> QED
      BY <1>1, <3>1, <3>2, <3>3, <3>4
  <2>2. put["P"] = 0 /\ rx' = rx /\ g_consumed' = g_consumed /\ tohost' = tohost
    BY <1>1 DEF Send, Give, vTaskDelay, Loop, At, task
  <2>3. Received' = Received
    BY <2>1, <2>2 DEF Received
  <2>4. Announced' = Announced
    BY <1>1, <2>1, <2>2, <1>0, Constants DEF Announced, Send, Give, vTaskDelay, Loop, At, task
  <2> QED
    BY <2>2, <2>3, <2>4 DEF Console!vars
<1>2. CASE Take \/ Receive \/ Got
  <2>1. PICK l \in {"receive", "got", "take", "done"} :
          /\ pc'["C"] = l /\ pc'["P"] = pc["P"] /\ put'["P"] = put["P"]
          /\ Take => l = "receive"
          /\ Receive => l = "got" /\ put'["C"] = LineCalls
          /\ Got => l \in {"take", "done"}
    <3>1. CASE Take
      <4>1. Moves("C", "receive") /\ \A d \in Contexts \ {"C"} : put'[d] = put[d]
        BY <3>1, <1>0, PutsMoves, Where, Label DEF Take
      <4>2. pc["C"] = "take"
        BY <3>1 DEF Take, At
      <4> QED
        BY <3>1, <4>1, <4>2, <1>0, Where DEF Moves, Receive, Got, At
    <3>2. CASE Receive
      <4>1. Moves("C", "got") /\ put'["C"] = LineCalls /\ \A d \in Contexts \ {"C"} : put'[d] = put[d]
        BY <3>2, <1>0, PutsMoves, Where, Label DEF Receive
      <4>2. pc["C"] = "receive"
        BY <3>2 DEF Receive, At
      <4> QED
        BY <3>2, <4>1, <4>2, <1>0, Where DEF Moves, Take, Got, At
    <3>3. CASE Got
      <4>1. PICK l \in {"take", "done"} : Goto("C", l) \/ Puts("C", l)
        BY <3>3 DEF Got
      <4>2. Moves("C", l) /\ \A d \in Contexts \ {"C"} : put'[d] = put[d]
        BY <4>1, <1>0, Step, Where, Label
      <4>3. pc["C"] = "got"
        BY <3>3 DEF Got, At
      <4> QED
        BY <3>3, <4>1, <4>2, <4>3, <1>0, Where DEF Moves, Take, Receive, At
    <3> QED
      BY <1>2, <3>1, <3>2, <3>3
  <2>2. put["C"] = 0 /\ i' = i /\ tohost' = tohost
    BY <1>2 DEF Take, Receive, Got, At, task
  <2>3. Announced' = Announced
    BY <2>1, <2>2 DEF Announced
  <2>4. rx = g_consumed
    BY DEF Inv, Accounts
  <2>5. Received = rx
    BY <2>2 DEF Received
  <2>6. Received' = rx
    BY <1>2, <2>1, <2>2, <2>4, <1>0, Constants DEF Received, Take, Receive, Got, task
  <2> QED
    BY <2>2, <2>3, <2>5, <2>6 DEF Console!vars
<1>3. CASE sim_pass
  <2>1. pc["C"] = "done" /\ UNCHANGED <<pc, put, i, rx, g_consumed>> /\ tohost' = "pass"
    BY <1>3 DEF sim_pass, At, task
  <2>2. Announced' = Announced /\ Received' = Received /\ Received = NUM_ITEMS
    BY <2>1 DEF Announced, Received, Inv, Places, Accounts
  <2> QED
    BY <2>1, <2>2 DEF Console!Next, Console!Pass
<1>4. CASE Sample
  <2>1. \A d \in Contexts \ {"W"} : pc'[d] = pc[d] /\ put'[d] = put[d]
    BY <1>4, <1>0, PutsMoves, Where, Label DEF Sample, Moves
  <2>2. i' = i /\ rx' = rx /\ g_consumed' = g_consumed /\ tohost' = tohost
    BY <1>4 DEF Sample
  <2> QED
    BY <2>1, <2>2, <1>0, Where, Unseen
<1> QED
  BY <1>1, <1>2, <1>3, <1>4

\* Every step of the demo is a step of the channel or leaves it alone.
LEMMA NextChannel == Inv /\ [Next]_vars => [Console!Next]_Console!vars
<1> SUFFICES ASSUME Inv, [Next]_vars PROVE [Console!Next]_Console!vars
  OBVIOUS
<1>0. TypeOK
  BY DEF Inv
<1>1. CASE UNCHANGED vars \/ Poll \/ Switch \/ Tick \/ FrameSent \/ Spin
  BY <1>1, Unseen DEF vars, Poll, Switch, Tick, FrameSent, Spin, task
<1>2. CASE Main
  <2>1. tohost = "none" /\ i' = i /\ rx' = rx /\ g_consumed' = g_consumed
    BY <1>2 DEF Main, Boot, Create, Assert, SetupTimer, StartFirstTask, sim_fail, At, Runs, task
  <2>2. tohost' \in {"none", "fail"}
    BY <1>2, <2>1 DEF Main, Boot, Create, Assert, SetupTimer, StartFirstTask, sim_fail
  <2>3. \A d \in Contexts \ {"main"} : pc'[d] = pc[d] /\ put'[d] = put[d]
    <3>1. UNCHANGED <<pc, put>> \/ \E l \in Labels["main"] : Goto("main", l) \/ Puts("main", l)
      BY <1>2, Label DEF Main, Boot, Create, Assert, SetupTimer, StartFirstTask, sim_fail
    <3> QED
      BY <3>1, <1>0, Step, Where DEF Moves
  <2> QED
    BY <2>1, <2>2, <2>3, <1>0, Where DEF Console!vars, Announced, Received
<1> QED
  BY <1>1, <1>2, WriteChannel, TasksChannel DEF Next, Cpu

\* For any number of items: the console announces the items in order, shows
\* each received in order after its announcement, and passes after the last.
THEOREM RtosImplementsChannel == Spec => ImplementsChannel
<1> QED
  BY InitChannel, NextChannel, Invariant, PTL DEF Spec, ImplementsChannel, Console!Spec
=============================================================================
