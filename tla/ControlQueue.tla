---------------------------- MODULE ControlQueue ----------------------------
(***************************************************************************)
(* The command queue between the server threads and the emulator thread    *)
(* (control_queue.c) and its closing sequence (main.c, emulator_cleanup).  *)
(*                                                                         *)
(* A producer has at most one item at a time, so an item is named by its   *)
(* producer.  The name survives a free and the next calloc: this is the    *)
(* allocator that reuses the address at once, the worst case for a stale   *)
(* pointer.  A critical section of the queue's mutex is one step; what the *)
(* code does outside the mutex (fill an item, dispatch, collect the reply) *)
(* is a step of its own.                                                   *)
(***************************************************************************)
EXTENDS Naturals, Sequences

CONSTANTS
  Producers,  \* threads that call control_queue_submit
  Commands    \* command lines, told apart by identity only

ASSUME NotACommand == "none" \notin Commands

VARIABLES
  queue,          \* the list from q->head to q->tail, of items
  count,          \* q->count
  shutting_down,  \* q->shutting_down
  qstate,         \* the memory of q itself: "live" or "freed"
  pc,             \* where each producer is
  item,           \* each producer's control_cmd_t
  answer,         \* what the last submit of each producer returned
  ran,            \* history: dispatches of the producer's present command
  epc,            \* where the emulator thread is
  batch,          \* drain's snapshot of count
  processed,      \* drain's loop counter
  cur,            \* the item drain has popped
  running         \* srv->running: producers start new requests

prodVars == <<pc, item, answer, ran>>
queueVars == <<queue, count, shutting_down, qstate>>
emuVars == <<epc, batch, processed, cur, running>>
vars == <<prodVars, queueVars, emuVars>>

NoItem == [alive |-> FALSE, line |-> "none", reply |-> "none",
           done |-> FALSE, signalled |-> FALSE]

NewItem(c) == [alive |-> TRUE, line |-> c, reply |-> "none",
              done |-> FALSE, signalled |-> FALSE]

control_queue_create ==
  /\ queue = <<>>
  /\ count = 0
  /\ shutting_down = FALSE
  /\ qstate = "live"

Init ==
  /\ control_queue_create
  /\ pc = [p \in Producers |-> "idle"]
  /\ item = [p \in Producers |-> NoItem]
  /\ answer = [p \in Producers |-> "none"]
  /\ ran = [p \in Producers |-> 0]
  /\ epc = "frame"
  /\ batch = 0
  /\ processed = 0
  /\ cur = "none"
  /\ running = TRUE

-----------------------------------------------------------------------------
(* control_queue_submit, step by step *)

\* The item is allocated and filled before the lock is taken.
Submit(p, c) ==
  /\ pc[p] = "idle"
  /\ running
  /\ pc' = [pc EXCEPT ![p] = "entering"]
  /\ item' = [item EXCEPT ![p] = NewItem(c)]
  /\ answer' = [answer EXCEPT ![p] = "none"]
  /\ ran' = [ran EXCEPT ![p] = 0]
  /\ UNCHANGED <<queueVars, emuVars>>

\* calloc failed: submit returns at once and nothing was queued.
SubmitNoMemory(p) ==
  /\ pc[p] = "idle"
  /\ running
  /\ pc' = [pc EXCEPT ![p] = "refused"]
  /\ answer' = [answer EXCEPT ![p] = "none"]
  /\ ran' = [ran EXCEPT ![p] = 0]
  /\ UNCHANGED <<item, queueVars, emuVars>>

\* Variant: the closed queue is not noticed and the item is queued.
EnterLateAnyway(p) ==
  /\ pc[p] = "entering"
  /\ queue' = Append(queue, p)
  /\ count' = count + 1
  /\ pc' = [pc EXCEPT ![p] = "waiting"]
  /\ UNCHANGED <<item, answer, ran, shutting_down, qstate, emuVars>>

\* First critical section: enqueue at the tail and wait, which releases the
\* mutex, or see that the queue is closed.
Enter(p) ==
  /\ pc[p] = "entering"
  /\ \/ /\ shutting_down
        /\ pc' = [pc EXCEPT ![p] = "refused"]
        /\ UNCHANGED <<queue, count>>
     \/ /\ ~shutting_down
        /\ queue' = Append(queue, p)
        /\ count' = count + 1
        /\ pc' = [pc EXCEPT ![p] = "waiting"]
  /\ UNCHANGED <<item, answer, ran, shutting_down, qstate, emuVars>>

\* The error path frees the item and returns with no reply.
ReturnRefused(p) ==
  /\ pc[p] = "refused"
  /\ pc' = [pc EXCEPT ![p] = "idle"]
  /\ item' = [item EXCEPT ![p] = NoItem]
  /\ UNCHANGED <<answer, ran, queueVars, emuVars>>

\* Variant: one wake-up is taken for completion, done is not tested again.
WakeOnAnySignal(p) ==
  /\ pc[p] = "waiting"
  /\ pc' = [pc EXCEPT ![p] = "owned"]
  /\ UNCHANGED <<item, answer, ran, queueVars, emuVars>>

\* The wait ends: the waiter was signalled, takes the mutex again, finds done
\* and releases the mutex.  A spurious wake-up finds done unset and waits
\* again, which is a stuttering step.
Wake(p) ==
  /\ pc[p] = "waiting"
  /\ item[p].signalled
  /\ item[p].done
  /\ pc' = [pc EXCEPT ![p] = "owned"]
  /\ UNCHANGED <<item, answer, ran, queueVars, emuVars>>

\* The reply is handed to the caller and the item is freed.
Collect(p) ==
  /\ pc[p] = "owned"
  /\ pc' = [pc EXCEPT ![p] = "idle"]
  /\ answer' = [answer EXCEPT ![p] = item[p].reply]
  /\ item' = [item EXCEPT ![p] = NoItem]
  /\ UNCHANGED <<ran, queueVars, emuVars>>

\* A producer between two requests sees running cleared and ends.
Exit(p) ==
  /\ pc[p] = "idle"
  /\ ~running
  /\ pc' = [pc EXCEPT ![p] = "exited"]
  /\ UNCHANGED <<item, answer, ran, queueVars, emuVars>>

-----------------------------------------------------------------------------
(* control_queue_drain, called by the emulator thread once per frame *)

\* Variant: the popped item keeps its place in the list.
PopKeepsHead ==
  /\ cur' = Head(queue)
  /\ count' = count - 1
  /\ epc' = "exec"
  /\ UNCHANGED queue

\* Variant: the helper counts the item out and so does its caller.
PopCountsTwice ==
  /\ cur' = Head(queue)
  /\ queue' = Tail(queue)
  /\ count' = count - 2
  /\ epc' = "exec"

\* dequeue_locked: detach the head and leave the mutex to execute it.
dequeue_locked ==
  /\ cur' = Head(queue)
  /\ queue' = Tail(queue)
  /\ count' = count - 1
  /\ epc' = "exec"

\* The loop head, under the mutex, with n items processed of a batch of b.
DrainLoop(n, b) ==
  \/ /\ n < b
     /\ queue # <<>>
     /\ dequeue_locked
  \/ /\ n >= b \/ queue = <<>>
     /\ cur' = "none"
     /\ epc' = "frame"
     /\ UNCHANGED <<queue, count>>

DrainBegin ==
  /\ epc = "frame"
  /\ batch' = count
  /\ processed' = 0
  /\ DrainLoop(0, count)
  /\ UNCHANGED <<prodVars, shutting_down, qstate, running>>

\* control_dispatch runs outside the mutex and writes the item's reply.
Dispatch ==
  /\ epc = "exec"
  /\ item' = [item EXCEPT ![cur].reply = item[cur].line]
  /\ ran' = [ran EXCEPT ![cur] = @ + 1]
  /\ epc' = "publish"
  /\ UNCHANGED <<pc, answer, queueVars, batch, processed, cur, running>>

\* Variant: done is published and nobody is signalled.
PublishSilently ==
  /\ epc = "publish"
  /\ item' = [item EXCEPT ![cur].done = TRUE]
  /\ processed' = processed + 1
  /\ DrainLoop(processed + 1, batch)
  /\ UNCHANGED <<pc, answer, ran, shutting_down, qstate, batch, running>>

\* Variant: the loop runs until the list is empty instead of to its snapshot.
PublishUntilEmpty ==
  /\ epc = "publish"
  /\ item' = [item EXCEPT ![cur].done = TRUE, ![cur].signalled = TRUE]
  /\ processed' = processed + 1
  /\ DrainLoop(0, 1)
  /\ UNCHANGED <<pc, answer, ran, shutting_down, qstate, batch, running>>

\* Second critical section: done, signal, count it, and the loop head again.
Publish ==
  /\ epc = "publish"
  /\ item' = [item EXCEPT ![cur].done = TRUE, ![cur].signalled = TRUE]
  /\ processed' = processed + 1
  /\ DrainLoop(processed + 1, batch)
  /\ UNCHANGED <<pc, answer, ran, shutting_down, qstate, batch, running>>

-----------------------------------------------------------------------------
(* Closing: shutdown, stop and join the producers, destroy *)

InQueue(p) == \E i \in 1..Len(queue) : queue[i] = p

\* Every queued item is released with an empty reply and the list dropped.
control_queue_shutdown ==
  /\ epc = "frame"
  /\ shutting_down' = TRUE
  /\ item' = [p \in Producers |->
                IF InQueue(p)
                THEN [item[p] EXCEPT !.done = TRUE, !.signalled = TRUE]
                ELSE item[p]]
  /\ queue' = <<>>
  /\ count' = 0
  /\ epc' = "shut"
  /\ UNCHANGED <<qstate, pc, answer, ran, batch, processed, cur, running>>

http_api_stop ==
  /\ epc = "shut"
  /\ running' = FALSE
  /\ epc' = "joining"
  /\ UNCHANGED <<prodVars, queueVars, batch, processed, cur>>

\* Variant: the threads are told to stop and not waited for.
NoJoin ==
  /\ epc = "joining"
  /\ epc' = "joined"
  /\ UNCHANGED <<prodVars, queueVars, batch, processed, cur, running>>

Join ==
  /\ epc = "joining"
  /\ \A p \in Producers : pc[p] = "exited"
  /\ epc' = "joined"
  /\ UNCHANGED <<prodVars, queueVars, batch, processed, cur, running>>

\* The second shutdown inside destroy finds the list empty and changes nothing.
control_queue_destroy ==
  /\ epc = "joined"
  /\ qstate' = "freed"
  /\ epc' = "ended"
  /\ UNCHANGED <<prodVars, queue, count, shutting_down, batch, processed, cur, running>>

\* The process is gone.
Ended ==
  /\ epc = "ended"
  /\ UNCHANGED vars

-----------------------------------------------------------------------------

ProducerStep(p) ==
  \/ Enter(p)
  \/ ReturnRefused(p)
  \/ Wake(p)
  \/ Collect(p)
  \/ Exit(p)

DrainStep == DrainBegin \/ Dispatch \/ Publish

CloseStep == http_api_stop \/ Join \/ control_queue_destroy

Next ==
  \/ \E p \in Producers : \E c \in Commands : Submit(p, c)
  \/ \E p \in Producers : SubmitNoMemory(p)
  \/ \E p \in Producers : ProducerStep(p)
  \/ DrainStep
  \/ control_queue_shutdown
  \/ CloseStep
  \/ Ended

Spec == Init /\ [][Next]_vars

\* A thread that can move does; the emulator thread keeps calling drain, as
\* control_queue.h asks of its loop, until it closes the queue.  Nothing
\* obliges a client to submit or the emulator to close.
FairSpec ==
  /\ Spec
  /\ \A p \in Producers : WF_vars(ProducerStep(p))
  /\ WF_vars(DrainStep)
  /\ WF_vars(CloseStep)

-----------------------------------------------------------------------------
(* Properties *)

Item == [alive : BOOLEAN, line : Commands \cup {"none"},
         reply : Commands \cup {"none"}, done : BOOLEAN, signalled : BOOLEAN]

TypeOK ==
  /\ queue \in Seq(Producers)
  /\ count \in Nat
  /\ shutting_down \in BOOLEAN
  /\ qstate \in {"live", "freed"}
  /\ pc \in [Producers -> {"idle", "entering", "waiting", "owned", "refused", "exited"}]
  /\ item \in [Producers -> Item]
  /\ answer \in [Producers -> Commands \cup {"none"}]
  /\ ran \in [Producers -> Nat]
  /\ epc \in {"frame", "exec", "publish", "shut", "joining", "joined", "ended"}
  /\ batch \in Nat
  /\ processed \in Nat
  /\ cur \in Producers \cup {"none"}
  /\ running \in BOOLEAN

Executing == epc \in {"exec", "publish"}

\* No thread holds a pointer to freed memory: every item the list or drain
\* can reach is allocated and its owner is blocked in the wait, and once q is
\* freed no producer is inside submit or can call it again
\* (control_queue.c, "it stays alive until the producer frees it"; main.c,
\* "so no submit() can touch freed memory").
NoDanglingPointer ==
  /\ \A p \in Producers :
       InQueue(p) \/ (Executing /\ cur = p) =>
         item[p].alive /\ pc[p] = "waiting" /\ ~item[p].done
  /\ qstate = "freed" => \A p \in Producers : pc[p] = "exited"

\* A submit that returned a reply returned the reply of its own command, which
\* ran exactly once; a submit that returned empty-handed never ran.
ReplyMeansRanOnce ==
  \A p \in Producers :
    /\ ran[p] <= 1
    /\ pc[p] \in {"idle", "exited"} => (answer[p] # "none" <=> ran[p] = 1)
    /\ pc[p] = "owned" /\ item[p].reply # "none" => item[p].reply = item[p].line

\* One drain executes the commands that were queued when it began and no more:
\* those enqueued while it runs wait for the next frame.
BatchBoundsDrain ==
  /\ Executing => processed < batch
  /\ Executing /\ batch - processed > 1 => count >= batch - processed - 1

\* Commands run once each, and only those that were queued when the drain began
\* (control_queue_submit, control_queue_drain).
CommandsRunOnce == ReplyMeansRanOnce /\ BatchBoundsDrain

\* Every submit returns, whether the loop runs or the queue is being closed.
SubmitReturns ==
  \A p \in Producers : (pc[p] = "entering") ~> (pc[p] \in {"idle", "exited"})

\* Closing always ends: no producer keeps the join waiting.
CloseTerminates == (epc = "shut") ~> (epc = "ended")

\* Nobody waits for ever, neither a client for its reply nor the exit for its clients
\* (control_queue_submit, control_queue_shutdown).
NobodyWaitsForever == SubmitReturns /\ CloseTerminates

\* Refinement mapping: a command is served when control_dispatch has run it,
\* and refused when it is released without having run.
ServiceLine == IF epc = "exec" THEN <<cur>> \o queue ELSE queue

ServiceStatus(p) ==
  IF pc[p] = "refused" THEN "refused"
  ELSE IF pc[p] \notin {"waiting", "owned"} THEN "idle"
  ELSE IF ran[p] > 0 THEN "served"
  ELSE IF item[p].done THEN "refused"
  ELSE "waiting"

Service == INSTANCE CommandService WITH
  Clients <- Producers,
  line <- ServiceLine,
  status <- [p \in Producers |-> ServiceStatus(p)],
  open <- ~shutting_down

\* The queue implements the abstract command service: first come, first
\* served, one at a time.
ImplementsService == Service!Spec
=============================================================================
