-------------------------------- MODULE Rtos --------------------------------
(***************************************************************************)
(* The FreeRTOS demo: the tasks of src/rtos/app/main.c and the console     *)
(* driver and failure paths of src/rtos/bsp/bsp.c, on the kernel they use. *)
(*                                                                         *)
(* The kernel is external: a fixed-priority preemptive scheduler with a    *)
(* queue, a counting semaphore and delays counted in ticks.  It switches   *)
(* to the ready task of the highest priority whenever that changes.        *)
(*                                                                         *)
(* A console line is LineCalls calls that print; each call, whatever its   *)
(* number of bytes, is one poll of the transmitter and one write to it.    *)
(***************************************************************************)
EXTENDS Integers, Sequences

CONSTANTS
    NUM_ITEMS,      \* items the Producer sends
    QUEUE_LEN,      \* places in the queue
    DELAY,          \* ticks the Producer waits between two items
    MAX_REPORTS,    \* lines the Worker prints
    LineCalls       \* calls of the console driver in a line

ASSUME Sizes ==
    /\ {NUM_ITEMS, QUEUE_LEN, DELAY, LineCalls} \subseteq Nat \ {0}
    /\ MAX_REPORTS \in Nat

Tasks    == {"C", "P", "W"}             \* Consumer, Producer, Worker
Contexts == Tasks \cup {"main"}
Objects  == Tasks \cup {"queue", "sem", "idle"}     \* what the heap has to hold

VARIABLES
    heap,           \* the objects there is room for on the heap
    tick_on,        \* the timer is set up: not the NEG_NO_TICK build
    cur,            \* the context the processor runs
    pc,             \* where each context is, once its current line is printed
    put,            \* calls left to print of each context's line
    polled,         \* it has seen the transmitter idle and has not written yet
    tx_busy,        \* the transmitter shifts a frame out
    lost,           \* a byte was written to a busy transmitter
    writer,         \* the context that wrote last
    queue, sem,     \* the kernel objects
    delay,          \* ticks until the Producer wakes
    i,              \* the Producer's loop variable
    rx,             \* the value the Consumer received last
    g_sem_taken, g_consumed,
    advanced,       \* the tick count is no longer the Worker's "last"
    reports,
    tohost
task == <<queue, sem, delay, i, rx, g_sem_taken, g_consumed, advanced, reports>>
line == <<tx_busy, lost, writer>>
vars == <<heap, tick_on, cur, pc, put, polled, line, task, tohost>>

\* Where each context's code begins.
Entry == [main |-> "boot", P |-> "send", C |-> "take", W |-> "spin"]

Init ==
    /\ heap \in SUBSET Objects /\ tick_on \in BOOLEAN
    /\ cur = "main"
    /\ pc = [c \in Contexts |-> Entry[c]]
    /\ put = [c \in Contexts |-> 0] /\ polled = [c \in Contexts |-> FALSE]
    /\ tx_busy = FALSE /\ lost = FALSE /\ writer = "main"
    /\ queue = <<>> /\ sem = 0 /\ delay = 0
    /\ i = 1 /\ rx = 0 /\ g_sem_taken = 0 /\ g_consumed = 0
    /\ advanced = FALSE /\ reports = 0
    /\ tohost = "none"

----------------------------------------------------------------------------
(* The kernel.                                                             *)
Prio_Fault == [C |-> 2, P |-> 3, W |-> 1, idle |-> 0]
Prio == [C |-> 3, P |-> 2, W |-> 1, idle |-> 0]

Waits_Fault(t) ==
    \/ t = "P" /\ pc[t] = "delayed" /\ delay > 0
    \/ t = "P" /\ pc[t] = "deleted"
    \/ t = "C" /\ pc[t] = "take" /\ sem = 0
    \/ t = "C" /\ pc[t] = "receive" /\ queue = <<>>
\* The kernel call a task is in does not return yet.
Waits(t) ==
    \/ t = "P" /\ pc[t] = "send" /\ Len(queue) = QUEUE_LEN
    \/ t = "P" /\ pc[t] = "delayed" /\ delay > 0
    \/ t = "P" /\ pc[t] = "deleted"
    \/ t = "C" /\ pc[t] = "take" /\ sem = 0
    \/ t = "C" /\ pc[t] = "receive" /\ queue = <<>>
Ready(t) == t = "idle" \/ (t \in heap \cap Tasks /\ (put[t] > 0 \/ ~Waits(t)))
IsHighest(t) == Ready(t) /\ \A u \in Tasks : Ready(u) => Prio[u] <= Prio[t]

\* Context c runs and has printed what it had to print.
Runs(c) == tohost = "none" /\ cur = c /\ (c # "main" => IsHighest(c))
At(c, label) == Runs(c) /\ put[c] = 0 /\ pc[c] = label
Goto(c, label) == pc' = [pc EXCEPT ![c] = label] /\ UNCHANGED put
Puts(c, label) == pc' = [pc EXCEPT ![c] = label] /\ put' = [put EXCEPT ![c] = LineCalls]

\* A switch lasts longer than a frame at the rate uart_init sets.
Switch ==
    /\ tohost = "none" /\ cur # "main" /\ ~IsHighest(cur)
    /\ \E t \in Tasks \cup {"idle"} : IsHighest(t) /\ cur' = t
    /\ tx_busy' = FALSE
    /\ UNCHANGED <<heap, tick_on, pc, put, polled, lost, writer, task, tohost>>

Tick ==
    /\ tohost = "none" /\ cur # "main" /\ tick_on
    /\ delay' = IF delay > 0 THEN delay - 1 ELSE 0
    /\ advanced' = TRUE
    /\ UNCHANGED <<heap, tick_on, cur, pc, put, polled, line, tohost,
                   queue, sem, i, rx, g_sem_taken, g_consumed, reports>>

----------------------------------------------------------------------------
(* uart_putc.                                                              *)
Poll ==
    /\ Runs(cur) /\ cur # "idle" /\ put[cur] > 0 /\ ~polled[cur] /\ ~tx_busy
    /\ polled' = [polled EXCEPT ![cur] = TRUE]
    /\ UNCHANGED <<heap, tick_on, cur, pc, put, line, task, tohost>>

\* A write to a busy transmitter has no effect.
Write ==
    /\ Runs(cur) /\ cur # "idle" /\ put[cur] > 0 /\ polled[cur]
    /\ tx_busy' = TRUE /\ lost' = (lost \/ tx_busy) /\ writer' = cur
    /\ put' = [put EXCEPT ![cur] = put[cur] - 1]
    /\ polled' = [polled EXCEPT ![cur] = FALSE]
    /\ UNCHANGED <<heap, tick_on, cur, pc, task, tohost>>

FrameSent ==
    /\ tx_busy /\ tx_busy' = FALSE
    /\ UNCHANGED <<heap, tick_on, cur, pc, put, polled, lost, writer, task, tohost>>

----------------------------------------------------------------------------
(* main, and what it calls when an allocation fails.                       *)
CpuOnly == UNCHANGED <<heap, tick_on, polled, line>>

Boot ==
    /\ At("main", "boot") /\ Puts("main", "queue")
    /\ CpuOnly /\ UNCHANGED <<cur, task, tohost>>

\* The malloc-failed hook prints a line and lets the creation return.
Create(object, next) ==
    /\ At("main", object)
    /\ IF object \in heap THEN Goto("main", next) ELSE Puts("main", next)
    /\ CpuOnly /\ UNCHANGED <<cur, task, tohost>>

Assert_Fault(label, objects, next) ==
    /\ At("main", label) /\ Goto("main", next)
    /\ CpuOnly /\ UNCHANGED <<cur, task, tohost>>
\* configASSERT, here or in the kernel; its failure disables interrupts.
Assert(label, objects, next) ==
    /\ At("main", label)
    /\ IF objects \subseteq heap THEN Goto("main", next) ELSE Puts("main", "fail")
    /\ CpuOnly /\ UNCHANGED <<cur, task, tohost>>

\* vPortSetupTimerInterrupt; the NEG_NO_TICK build prints a line instead.
SetupTimer ==
    /\ At("main", "timer")
    /\ IF tick_on THEN Goto("main", "started") ELSE Puts("main", "started")
    /\ CpuOnly /\ UNCHANGED <<cur, task, tohost>>

StartFirstTask ==
    /\ At("main", "started") /\ cur' = "idle"
    /\ CpuOnly /\ UNCHANGED <<pc, put, task, tohost>>

sim_fail ==
    /\ At("main", "fail") /\ tohost' = "fail"
    /\ CpuOnly /\ UNCHANGED <<cur, pc, put, task>>

Main ==
    \/ Boot \/ Create("queue", "sem") \/ Create("sem", "check")
    \/ Assert("check", {"queue", "sem"}, "C")
    \/ Create("C", "P") \/ Create("P", "W") \/ Create("W", "idle")
    \/ Assert("idle", {"idle"}, "timer")
    \/ SetupTimer \/ StartFirstTask \/ sim_fail

----------------------------------------------------------------------------
(* vProducer.                                                              *)
Send ==
    /\ At("P", "send")
    /\ queue' = Append(queue, i) /\ Puts("P", "give")
    /\ CpuOnly
    /\ UNCHANGED <<cur, sem, delay, i, rx, g_sem_taken, g_consumed, advanced, reports, tohost>>

Give ==
    /\ At("P", "give")
    /\ sem' = IF sem < NUM_ITEMS THEN sem + 1 ELSE sem
    /\ Goto("P", "delay")
    /\ CpuOnly
    /\ UNCHANGED <<cur, queue, delay, i, rx, g_sem_taken, g_consumed, advanced, reports, tohost>>

vTaskDelay_Fault ==
    /\ At("P", "delay")
    /\ delay' = 0 /\ i' = i + 1 /\ Goto("P", "delayed")
    /\ CpuOnly
    /\ UNCHANGED <<cur, queue, sem, rx, g_sem_taken, g_consumed, advanced, reports, tohost>>
vTaskDelay ==
    /\ At("P", "delay")
    /\ delay' = DELAY /\ i' = i + 1 /\ Goto("P", "delayed")
    /\ CpuOnly
    /\ UNCHANGED <<cur, queue, sem, rx, g_sem_taken, g_consumed, advanced, reports, tohost>>

\* The loop's test, once the delay is over.
Loop ==
    /\ At("P", "delayed")
    /\ Goto("P", IF i <= NUM_ITEMS THEN "send" ELSE "deleted")
    /\ CpuOnly /\ UNCHANGED <<cur, task, tohost>>

(* vConsumer.                                                              *)
Take ==
    /\ At("C", "take")
    /\ sem' = sem - 1 /\ g_sem_taken' = g_sem_taken + 1 /\ Puts("C", "receive")
    /\ CpuOnly
    /\ UNCHANGED <<cur, queue, delay, i, rx, g_consumed, advanced, reports, tohost>>

Receive_Fault ==
    /\ At("C", "receive")
    /\ rx' = Head(queue) /\ queue' = queue
    /\ g_consumed' = g_consumed + 1 /\ Puts("C", "got")
    /\ CpuOnly
    /\ UNCHANGED <<cur, sem, delay, i, g_sem_taken, advanced, reports, tohost>>
Receive ==
    /\ At("C", "receive")
    /\ rx' = Head(queue) /\ queue' = Tail(queue)
    /\ g_consumed' = g_consumed + 1 /\ Puts("C", "got")
    /\ CpuOnly
    /\ UNCHANGED <<cur, sem, delay, i, g_sem_taken, advanced, reports, tohost>>

Got_Fault ==
    /\ At("C", "got")
    /\ IF g_consumed >= NUM_ITEMS - 1 THEN Puts("C", "done") ELSE Goto("C", "take")
    /\ CpuOnly /\ UNCHANGED <<cur, task, tohost>>
Got ==
    /\ At("C", "got")
    /\ IF g_consumed = NUM_ITEMS THEN Puts("C", "done") ELSE Goto("C", "take")
    /\ CpuOnly /\ UNCHANGED <<cur, task, tohost>>

sim_pass ==
    /\ At("C", "done") /\ tohost' = "pass"
    /\ CpuOnly /\ UNCHANGED <<cur, pc, put, task>>

(* vWorker: one turn of its loop that finds the tick count advanced.       *)
Sample ==
    /\ At("W", "spin") /\ advanced
    /\ advanced' = FALSE
    /\ IF reports < MAX_REPORTS
       THEN reports' = reports + 1 /\ Puts("W", "spin")
       ELSE UNCHANGED <<reports, pc, put>>
    /\ CpuOnly
    /\ UNCHANGED <<cur, queue, sem, delay, i, rx, g_sem_taken, g_consumed, tohost>>

\* The loops that wait: after the end of the test, in Worker, in the idle task.
Spin == (tohost # "none" \/ cur \in {"W", "idle"}) /\ UNCHANGED vars

Cpu ==
    \/ Poll \/ Write \/ Switch \/ Main
    \/ Send \/ Give \/ vTaskDelay \/ Loop
    \/ Take \/ Receive \/ Got \/ sim_pass \/ Sample
Next == Cpu \/ Tick \/ FrameSent \/ Spin

\* The processor, the timer and the transmitter never stop.
Fairness == WF_vars(Cpu) /\ WF_vars(Tick) /\ WF_vars(FrameSent)
Spec == Init /\ [][Next]_vars /\ Fairness

----------------------------------------------------------------------------
(* Properties.                                                             *)

\* The places of each context's code.
Labels ==
    [main |-> {"boot", "queue", "sem", "check", "C", "P", "W", "idle", "timer",
               "started", "fail"},
     P |-> {"send", "give", "delay", "delayed", "deleted"},
     C |-> {"take", "receive", "got", "done"},
     W |-> {"spin"}]
AnyLabel == UNION {Labels[c] : c \in Contexts}

\* The types of the variables: the semaphore and the queue stay within the
\* sizes main creates them with, so that no give or send is refused.
TypeOK ==
    /\ heap \in SUBSET Objects /\ tick_on \in BOOLEAN
    /\ cur \in Contexts \cup {"idle"}
    /\ pc \in [Contexts -> AnyLabel] /\ \A c \in Contexts : pc[c] \in Labels[c]
    /\ put \in [Contexts -> 0 .. LineCalls] /\ polled \in [Contexts -> BOOLEAN]
    /\ tx_busy \in BOOLEAN /\ lost \in BOOLEAN /\ writer \in Contexts
    /\ queue \in Seq(1 .. NUM_ITEMS) /\ Len(queue) <= QUEUE_LEN
    /\ sem \in 0 .. NUM_ITEMS /\ delay \in 0 .. DELAY
    /\ i \in 1 .. NUM_ITEMS + 1 /\ rx \in 0 .. NUM_ITEMS
    /\ g_sem_taken \in 0 .. NUM_ITEMS /\ g_consumed \in 0 .. NUM_ITEMS
    /\ advanced \in BOOLEAN /\ reports \in 0 .. MAX_REPORTS
    /\ tohost \in {"none", "pass", "fail"}

\* Items the Producer has put into the queue, and units it has given.
Sent  == IF pc["P"] \in {"give", "delay"} THEN i ELSE i - 1
Given == IF pc["P"] = "delay" THEN i ELSE i - 1

\* Queue and semaphore, kept by two tasks that never share a lock, agree:
\* the queue holds, in order, exactly what was sent and not yet received;
\* the semaphore exactly the units given and not yet taken; the Consumer has
\* taken a unit for every item it receives, and one more while it is between
\* the two calls.
Accounts ==
    /\ Len(queue) = Sent - g_consumed
    /\ \A k \in 1 .. Len(queue) : queue[k] = g_consumed + k
    /\ sem = Given - g_sem_taken
    /\ g_sem_taken = g_consumed + (IF pc["C"] = "receive" THEN 1 ELSE 0)
    /\ rx = g_consumed

\* The item the semaphore announced is in the queue: the Consumer never
\* waits in xQueueReceive, where a lost item would leave it forever.
ItemIsThere == pc["C"] = "receive" => queue # <<>>

\* A line of the Producer or the Consumer is never torn by another task's
\* output.  The Worker's lines may be.
LinesWhole ==
    \A t \in {"C", "P"} : put[t] \in 1 .. LineCalls - 1 => writer = t

\* No byte is written while the transmitter is busy, even by a Worker that
\* was preempted between its poll and its write.
NoByteLost == ~lost

\* The console stands at its left margin: who wrote last ended a line with it.
Fresh == put[writer] \notin 1 .. LineCalls - 1

\* The only output a line of the Producer or the Consumer is ever appended to
\* is the beginning of a line of the Worker.
BehindWorker ==
    \A t \in {"C", "P"} : Runs(t) /\ put[t] = LineCalls => Fresh \/ writer = "W"

\* What the console keeps although three tasks print to it without a lock: a
\* line of the Producer or the Consumer is in one piece, at most a torn line
\* of the Worker stands before it, and no byte is lost.
\* Such a line need not begin at the left margin: "[W]run@" is put out by a call
\* of its own, and a tick behind it may give "[W]run@[P]send:2".
LinesIntact == LinesWhole /\ BehindWorker /\ NoByteLost

\* Without the tick the demo does not get past its first item (the claim of
\* the NEG_NO_TICK build).
TickIsLoadBearing ==
    ~tick_on => g_consumed <= 1 /\ (tohost = "pass" => NUM_ITEMS = 1)

\* What has appeared on the console, for the abstract channel.
Announced ==
    IF pc["P"] = "delay" \/ (pc["P"] = "give" /\ put["P"] = 0) THEN i ELSE i - 1
Received == IF pc["C"] = "got" /\ put["C"] > 0 THEN g_consumed - 1 ELSE rx

Console == INSTANCE Channel WITH
    N <- NUM_ITEMS, announced <- Announced, received <- Received, passed <- tohost = "pass"

\* The console shows every "[P]send:N" before its "[C]got:N", both in order,
\* and the demo passes only after the last of them.
ImplementsChannel == Console!Spec

\* The demo passes when everything could be allocated and the timer runs;
\* it reports failure when the queue, the semaphore or the idle task could
\* not be allocated.
Outcome ==
    /\ heap = Objects /\ tick_on => <>(tohost = "pass")
    /\ ~({"queue", "sem", "idle"} \subseteq heap) => <>(tohost = "fail")
=============================================================================
