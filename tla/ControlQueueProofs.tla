-------------------------- MODULE ControlQueueProofs --------------------------
(***************************************************************************)
(* Proofs about ControlQueue, for every set of producers and of commands,  *)
(* and about HttpServer, for any clients and requests.                     *)
(***************************************************************************)
EXTENDS ControlQueue, HttpServer, SequenceTheorems, TLAPS

USE DEF prodVars, queueVars, emuVars

-----------------------------------------------------------------------------
(* The inductive invariant.  A blocked producer's item is either untouched *)
(* or carries the reply of its own command, and the list, drain's popped   *)
(* item and the collected items never overlap.                             *)

\* The command of p has not run, or ran once and its reply is in the item.
Fresh(p) == ran[p] = 0 /\ item[p].reply = "none"
Replied(p) == ran[p] = 1 /\ item[p].reply = item[p].line

\* No item is on the list twice.
QueueDistinct ==
  \A i, j \in 1..Len(queue) : queue[i] = queue[j] => i = j

\* What holds of an item on the list, ...
QueuedItems ==
  \A i \in 1..Len(queue) :
    /\ pc[queue[i]] = "waiting"
    /\ item[queue[i]].alive
    /\ item[queue[i]].done = FALSE
    /\ Fresh(queue[i])
    /\ Executing => cur # queue[i]

\* ... of the item drain has popped, ...
PoppedItem ==
  Executing =>
    /\ cur \in Producers
    /\ pc[cur] = "waiting"
    /\ item[cur].alive
    /\ item[cur].done = FALSE
    /\ epc = "exec" => Fresh(cur)
    /\ epc = "publish" => Replied(cur)

\* ... and of a producer at each point of submit.
ProducerState ==
  \A p \in Producers :
    /\ pc[p] = "entering" => /\ item[p].alive
                             /\ item[p].done = FALSE
                             /\ Fresh(p)
                             /\ answer[p] = "none"
    /\ pc[p] \in {"entering", "waiting", "owned"} => item[p].line \in Commands
    /\ pc[p] \in {"waiting", "owned"} => Fresh(p) \/ Replied(p)
    /\ pc[p] = "owned" => item[p].done
    /\ pc[p] = "refused" => ran[p] = 0 /\ answer[p] = "none"
    /\ pc[p] \in {"idle", "exited"} =>
         \/ ran[p] = 0 /\ answer[p] = "none"
         \/ ran[p] = 1 /\ answer[p] \in Commands

Counting ==
  /\ count = Len(queue)
  /\ Executing => processed < batch /\ count + processed + 1 >= batch

Closing ==
  /\ epc \in {"joined", "ended"} => \A p \in Producers : pc[p] = "exited"
  /\ qstate = "freed" => epc = "ended"
  /\ shutting_down <=> epc \in {"shut", "joining", "joined", "ended"}

IInv ==
  /\ TypeOK
  /\ QueueDistinct
  /\ QueuedItems
  /\ PoppedItem
  /\ ProducerState
  /\ Counting
  /\ Closing

-----------------------------------------------------------------------------
(* Facts about lists *)

\* A list with something on it is its head followed by its tail.
LEMMA HeadTail ==
  ASSUME NEW S, NEW s \in Seq(S), s # <<>>
  PROVE  /\ Head(s) \in S
         /\ Head(s) = s[1]
         /\ Tail(s) \in Seq(S)
         /\ Len(s) \in Nat \ {0}
         /\ Len(Tail(s)) = Len(s) - 1
         /\ \A i \in 1..Len(Tail(s)) : Tail(s)[i] = s[i + 1]
  OBVIOUS

\* Appending keeps what is there and puts the new element last.
LEMMA AppendFacts ==
  ASSUME NEW S, NEW s \in Seq(S), NEW e \in S
  PROVE  /\ Append(s, e) \in Seq(S)
         /\ Len(s) \in Nat
         /\ Len(Append(s, e)) = Len(s) + 1
         /\ \A i \in 1..Len(s) : Append(s, e)[i] = s[i]
         /\ Append(s, e)[Len(s) + 1] = e
  OBVIOUS

-----------------------------------------------------------------------------

\* control_queue_create establishes the inductive invariant.
LEMMA InitEstablishes == Init => IInv
<1> SUFFICES ASSUME Init PROVE IInv
  OBVIOUS
<1> USE DEF Init, control_queue_create
<1>a. NoItem \in Item BY DEF Item, NoItem
<1>b. item \in [Producers -> Item] BY <1>a
<1>c. /\ pc \in [Producers -> {"idle", "entering", "waiting", "owned", "refused", "exited"}]
      /\ answer \in [Producers -> Commands \cup {"none"}]
      /\ ran \in [Producers -> Nat]
  OBVIOUS
<1>d. queue \in Seq(Producers) /\ count \in Nat /\ batch \in Nat /\ processed \in Nat
  OBVIOUS
<1>1. TypeOK BY <1>b, <1>c, <1>d, Zenon DEF TypeOK
<1>2. QueueDistinct /\ QueuedItems BY DEF QueueDistinct, QueuedItems
<1>3. PoppedItem BY DEF PoppedItem, Executing
<1>4. ProducerState BY DEF ProducerState
<1>5. Counting /\ Closing BY DEF Counting, Closing, Executing
<1> QED BY <1>1, <1>2, <1>3, <1>4, <1>5 DEF IInv

\* The steps of a producer.  Only Enter touches the list.
LEMMA ProducerPreserves ==
  ASSUME IInv, NEW p \in Producers,
         \/ \E c \in Commands : Submit(p, c)
         \/ SubmitNoMemory(p)
         \/ ProducerStep(p)
  PROVE  IInv'
<1> USE DEF IInv
<1>1. ASSUME NEW c \in Commands, Submit(p, c) PROVE IInv'
  <2> USE <1>1 DEF Submit, NewItem, NoItem
  <2>1. TypeOK' BY DEF TypeOK, Item
  <2>2. QueueDistinct' BY DEF QueueDistinct
  <2>3. QueuedItems' BY DEF TypeOK, QueuedItems, Executing, Fresh
  <2>4. PoppedItem' BY DEF TypeOK, PoppedItem, Executing, Fresh, Replied
  <2>5. ProducerState' BY DEF TypeOK, ProducerState, Fresh, Replied
  <2>6. Counting' /\ Closing' BY DEF TypeOK, Counting, Closing, Executing
  <2> QED BY <2>1, <2>2, <2>3, <2>4, <2>5, <2>6
<1>2. CASE SubmitNoMemory(p)
  <2> USE <1>2 DEF SubmitNoMemory
  <2>1. TypeOK' BY DEF TypeOK, Item
  <2>2. QueueDistinct' BY DEF QueueDistinct
  <2>3. QueuedItems' BY DEF TypeOK, QueuedItems, Executing, Fresh
  <2>4. PoppedItem' BY DEF TypeOK, PoppedItem, Executing, Fresh, Replied
  <2>5. ProducerState' BY DEF TypeOK, ProducerState, Fresh, Replied
  <2>6. Counting' /\ Closing' BY DEF TypeOK, Counting, Closing, Executing
  <2> QED BY <2>1, <2>2, <2>3, <2>4, <2>5, <2>6
<1>3. CASE Enter(p)
  <2>1. CASE shutting_down
    <3> USE <1>3, <2>1 DEF Enter
    <3>1. TypeOK' BY DEF TypeOK, Item
    <3>2. QueueDistinct' BY DEF QueueDistinct
    <3>3. QueuedItems' BY DEF TypeOK, QueuedItems, Executing, Fresh
    <3>4. PoppedItem' BY DEF TypeOK, PoppedItem, Executing, Fresh, Replied
    <3>5. ProducerState' BY DEF TypeOK, ProducerState, Fresh, Replied
    <3>6. Counting' /\ Closing' BY DEF TypeOK, Counting, Closing, Executing
    <3> QED BY <3>1, <3>2, <3>3, <3>4, <3>5, <3>6
  <2>2. CASE ~shutting_down
    <3> USE <1>3, <2>2 DEF Enter
    <3>0. /\ queue \in Seq(Producers)
          /\ queue' = Append(queue, p)
          /\ pc[p] = "entering"
          /\ UNCHANGED <<item, ran, epc, cur>>
      BY DEF TypeOK
    <3>a. /\ queue' \in Seq(Producers)
          /\ Len(queue) \in Nat
          /\ Len(queue') = Len(queue) + 1
          /\ \A i \in 1..Len(queue) : queue'[i] = queue[i]
          /\ queue'[Len(queue) + 1] = p
      BY <3>0, AppendFacts
    <3>b. \A i \in 1..Len(queue) : queue[i] # p
      BY <3>0 DEF QueuedItems
    <3>c. \A i \in 1..Len(queue) : queue[i] \in Producers
      BY <3>0
    <3>1. TypeOK'
      <4>1. pc' \in [Producers -> {"idle", "entering", "waiting", "owned", "refused", "exited"}]
        BY DEF TypeOK
      <4>2. count' \in Nat
        BY DEF TypeOK
      <4> QED BY <3>a, <4>1, <4>2 DEF TypeOK
    <3>2. QueueDistinct'
      BY <3>a, <3>b DEF QueueDistinct
    <3>3. QueuedItems'
      <4> SUFFICES ASSUME NEW i \in 1..Len(queue')
                   PROVE /\ pc'[queue'[i]] = "waiting"
                         /\ item[queue'[i]].alive
                         /\ item[queue'[i]].done = FALSE
                         /\ Fresh(queue'[i])
                         /\ Executing => cur # queue'[i]
        BY ZenonT(30), <3>0 DEF QueuedItems, Fresh, Executing
      <4>1. CASE i \in 1..Len(queue)
        <5>1. queue'[i] = queue[i] /\ queue[i] # p /\ queue[i] \in Producers
          BY <4>1, <3>a, <3>b, <3>c
        <5>2. pc'[queue[i]] = pc[queue[i]]
          BY <5>1 DEF TypeOK
        <5> QED BY <4>1, <5>1, <5>2 DEF QueuedItems
      <4>2. CASE i = Len(queue) + 1
        BY <4>2, <3>0, <3>a DEF ProducerState, PoppedItem, TypeOK
      <4>3. i \in 1..Len(queue) \/ i = Len(queue) + 1
        BY <3>a
      <4> QED BY <4>1, <4>2, <4>3, Zenon
    <3>4. PoppedItem' BY DEF TypeOK, PoppedItem, Executing, Fresh, Replied
    <3>5. ProducerState' BY DEF TypeOK, ProducerState, Fresh, Replied
    <3>6. Counting' /\ Closing' BY <3>a DEF TypeOK, Counting, Closing, Executing
    <3> QED BY <3>1, <3>2, <3>3, <3>4, <3>5, <3>6
  <2> QED BY <2>1, <2>2
<1>4. CASE ReturnRefused(p)
  <2> USE <1>4 DEF ReturnRefused, NoItem
  <2>1. TypeOK' BY DEF TypeOK, Item
  <2>2. QueueDistinct' BY DEF QueueDistinct
  <2>3. QueuedItems' BY DEF TypeOK, QueuedItems, Executing, Fresh
  <2>4. PoppedItem' BY DEF TypeOK, PoppedItem, Executing, Fresh, Replied
  <2>5. ProducerState' BY DEF TypeOK, ProducerState, Fresh, Replied
  <2>6. Counting' /\ Closing' BY DEF TypeOK, Counting, Closing, Executing
  <2> QED BY <2>1, <2>2, <2>3, <2>4, <2>5, <2>6
<1>5. CASE Wake(p)
  <2> USE <1>5 DEF Wake
  <2>1. TypeOK' BY DEF TypeOK
  <2>2. QueueDistinct' BY DEF QueueDistinct
  <2>3. QueuedItems' BY DEF TypeOK, QueuedItems, Executing, Fresh
  <2>4. PoppedItem' BY DEF TypeOK, PoppedItem, Executing, Fresh, Replied
  <2>5. ProducerState' BY DEF TypeOK, ProducerState, Fresh, Replied
  <2>6. Counting' /\ Closing' BY DEF TypeOK, Counting, Closing, Executing
  <2> QED BY <2>1, <2>2, <2>3, <2>4, <2>5, <2>6
<1>6. CASE Collect(p)
  <2> USE <1>6 DEF Collect, NoItem
  <2>1. TypeOK' BY DEF TypeOK, Item
  <2>2. QueueDistinct' BY DEF QueueDistinct
  <2>3. QueuedItems' BY DEF TypeOK, QueuedItems, Executing, Fresh
  <2>4. PoppedItem' BY DEF TypeOK, PoppedItem, Executing, Fresh, Replied
  <2>5. ProducerState' BY DEF TypeOK, ProducerState, Fresh, Replied
  <2>6. Counting' /\ Closing' BY DEF TypeOK, Counting, Closing, Executing
  <2> QED BY <2>1, <2>2, <2>3, <2>4, <2>5, <2>6
<1>7. CASE Exit(p)
  <2> USE <1>7 DEF Exit
  <2>1. TypeOK' BY DEF TypeOK
  <2>2. QueueDistinct' BY DEF QueueDistinct
  <2>3. QueuedItems' BY DEF TypeOK, QueuedItems, Executing, Fresh
  <2>4. PoppedItem' BY DEF TypeOK, PoppedItem, Executing, Fresh, Replied
  <2>5. ProducerState' BY DEF TypeOK, ProducerState, Fresh, Replied
  <2>6. Counting' /\ Closing' BY DEF TypeOK, Counting, Closing, Executing
  <2> QED BY <2>1, <2>2, <2>3, <2>4, <2>5, <2>6
<1> QED BY <1>1, <1>2, <1>3, <1>4, <1>5, <1>6, <1>7 DEF ProducerStep

-----------------------------------------------------------------------------
(* The steps of the emulator thread *)

\* Where the loop head leaves drain: with a fresh item popped, or done.
LEMMA DrainLoopFacts ==
  ASSUME NEW n \in Nat, NEW b \in Nat, DrainLoop(n, b)
  PROVE  \/ /\ epc' = "exec" /\ n < b /\ queue # <<>>
            /\ cur' = Head(queue) /\ queue' = Tail(queue) /\ count' = count - 1
         \/ /\ epc' = "frame" /\ cur' = "none" /\ UNCHANGED <<queue, count>>
  BY DEF DrainLoop, dequeue_locked

\* The facts the popped item and the rest of the list bring along.
LEMMA PopFacts ==
  ASSUME IInv, queue # <<>>
  PROVE  /\ Head(queue) \in Producers
         /\ Tail(queue) \in Seq(Producers)
         /\ Len(queue) \in Nat \ {0}
         /\ Len(Tail(queue)) = Len(queue) - 1
         /\ \A i \in 1..Len(Tail(queue)) :
              /\ i + 1 \in 1..Len(queue)
              /\ Tail(queue)[i] = queue[i + 1]
              /\ Tail(queue)[i] # Head(queue)
              /\ Tail(queue)[i] \in Producers
         /\ \A i, j \in 1..Len(Tail(queue)) : Tail(queue)[i] = Tail(queue)[j] => i = j
         /\ pc[Head(queue)] = "waiting"
         /\ item[Head(queue)].alive
         /\ item[Head(queue)].done = FALSE
         /\ Fresh(Head(queue))
         /\ Executing => cur # Head(queue)
<1>0. queue \in Seq(Producers)
  BY DEF IInv, TypeOK
<1>1. /\ Head(queue) \in Producers
      /\ Head(queue) = queue[1]
      /\ Tail(queue) \in Seq(Producers)
      /\ Len(queue) \in Nat \ {0}
      /\ Len(Tail(queue)) = Len(queue) - 1
      /\ \A i \in 1..Len(Tail(queue)) : Tail(queue)[i] = queue[i + 1]
  BY <1>0, HeadTail
<1>2. \A i \in 1..Len(Tail(queue)) :
        i + 1 \in 1..Len(queue) /\ i + 1 # 1
  BY <1>1
<1>3. 1 \in 1..Len(queue)
  BY <1>1
<1>4. \A i \in 1..Len(Tail(queue)) :
        /\ Tail(queue)[i] # Head(queue)
        /\ Tail(queue)[i] \in Producers
  <2> SUFFICES ASSUME NEW i \in 1..Len(Tail(queue))
               PROVE Tail(queue)[i] # Head(queue) /\ Tail(queue)[i] \in Producers
    OBVIOUS
  <2>1. Tail(queue)[i] \in Producers
    BY <1>1
  <2>2. queue[i + 1] # queue[1]
    BY <1>2, <1>3 DEF IInv, QueueDistinct
  <2> QED BY <2>1, <2>2, <1>1
<1>5. \A i, j \in 1..Len(Tail(queue)) : Tail(queue)[i] = Tail(queue)[j] => i = j
  <2> SUFFICES ASSUME NEW i \in 1..Len(Tail(queue)), NEW j \in 1..Len(Tail(queue)),
                      Tail(queue)[i] = Tail(queue)[j]
               PROVE i = j
    OBVIOUS
  <2>1. queue[i + 1] = queue[j + 1]
    BY <1>1
  <2>2. i + 1 = j + 1
    BY <2>1, <1>2 DEF IInv, QueueDistinct
  <2> QED BY <2>2
<1>6. /\ pc[Head(queue)] = "waiting"
      /\ item[Head(queue)].alive
      /\ item[Head(queue)].done = FALSE
      /\ Fresh(Head(queue))
      /\ Executing => cur # Head(queue)
  BY <1>1, <1>3 DEF IInv, QueuedItems
<1> QED BY <1>1, <1>2, <1>4, <1>5, <1>6

\* One critical section of drain: it may publish the popped item and leaves
\* every other item alone.
LEMMA DrainLoopPreserves ==
  ASSUME IInv, NEW n \in Nat, NEW b \in Nat, DrainLoop(n, b),
         UNCHANGED <<pc, answer, ran, shutting_down, qstate, running>>,
         processed' = n, batch' = b,
         epc \in {"frame", "publish"},
         b <= count + n,
         item' \in [Producers -> Item],
         \A p \in Producers :
           /\ item'[p].line = item[p].line
           /\ item'[p].reply = item[p].reply
           /\ ~(Executing /\ p = cur) => item'[p] = item[p]
  PROVE  IInv'
<1> USE DEF IInv
<1>0. count \in Nat /\ count = Len(queue) BY DEF TypeOK, Counting
<1>a. \A p \in Producers : pc[p] # "waiting" => item'[p] = item[p]
  BY DEF PoppedItem
<1>b. ProducerState'
  BY <1>a DEF ProducerState, Fresh, Replied
<1>1. CASE /\ epc' = "exec" /\ n < b /\ queue # <<>>
           /\ cur' = Head(queue) /\ queue' = Tail(queue) /\ count' = count - 1
  <2>0. Executing' BY <1>1 DEF Executing
  <2>1. item'[Head(queue)] = item[Head(queue)] BY <1>1, PopFacts
  <2>2. TypeOK'
    <3>1. queue' \in Seq(Producers) /\ cur' \in Producers BY <1>1, PopFacts
    <3>2. count' \in Nat BY <1>1, <1>0, PopFacts
    <3>3. epc' \in {"frame", "exec", "publish", "shut", "joining", "joined", "ended"} BY <1>1
    <3> QED BY <3>1, <3>2, <3>3 DEF TypeOK
  <2>3. QueueDistinct' BY <1>1, PopFacts DEF QueueDistinct
  <2>4. QueuedItems'
    <3> SUFFICES ASSUME NEW i \in 1..Len(Tail(queue))
                 PROVE /\ pc[Tail(queue)[i]] = "waiting"
                       /\ item'[Tail(queue)[i]].alive
                       /\ item'[Tail(queue)[i]].done = FALSE
                       /\ ran[Tail(queue)[i]] = 0
                       /\ item'[Tail(queue)[i]].reply = "none"
                       /\ Head(queue) # Tail(queue)[i]
      BY <1>1 DEF QueuedItems, Fresh
    <3>1. /\ i + 1 \in 1..Len(queue)
          /\ Tail(queue)[i] = queue[i + 1]
          /\ Tail(queue)[i] # Head(queue)
          /\ Tail(queue)[i] \in Producers
      BY <1>1, PopFacts
    <3>2. Executing => cur # queue[i + 1]
      BY <3>1 DEF QueuedItems
    <3>3. item'[Tail(queue)[i]] = item[Tail(queue)[i]]
      BY <3>1, <3>2
    <3> QED BY <3>1, <3>3 DEF QueuedItems, Fresh
  <2>5. PoppedItem'
    <3>1. ran[Head(queue)] = 0 /\ item'[Head(queue)].reply = "none"
      BY <1>1, <2>1, PopFacts DEF Fresh
    <3> QED BY <1>1, <2>1, <3>1, PopFacts DEF PoppedItem, Fresh
  <2>6. Counting' BY <1>1, <1>0, PopFacts DEF Counting
  <2>7. Closing' BY <1>1 DEF Closing
  <2> QED BY <2>2, <2>3, <2>4, <2>5, <2>6, <2>7, <1>b
<1>2. CASE epc' = "frame" /\ cur' = "none" /\ UNCHANGED <<queue, count>>
  <2>0. ~Executing' BY <1>2 DEF Executing
  <2>2. TypeOK' BY <1>2 DEF TypeOK
  <2>3. QueueDistinct' BY <1>2 DEF QueueDistinct
  <2>4. QueuedItems'
    <3> SUFFICES ASSUME NEW i \in 1..Len(queue)
                 PROVE /\ pc[queue[i]] = "waiting"
                       /\ item'[queue[i]].alive
                       /\ item'[queue[i]].done = FALSE
                       /\ ran[queue[i]] = 0
                       /\ item'[queue[i]].reply = "none"
      BY <1>2, <2>0 DEF QueuedItems, Fresh
    <3>1. queue[i] \in Producers BY DEF TypeOK
    <3>2. Executing => cur # queue[i] BY DEF QueuedItems
    <3>3. item'[queue[i]] = item[queue[i]] BY <3>1, <3>2
    <3> QED BY <3>1, <3>3 DEF QueuedItems, Fresh
  <2>5. PoppedItem' BY <2>0 DEF PoppedItem
  <2>6. Counting' /\ Closing' BY <1>2, <2>0 DEF Counting, Closing, TypeOK
  <2> QED BY <2>2, <2>3, <2>4, <2>5, <2>6, <1>b
<1> QED BY <1>1, <1>2, DrainLoopFacts

\* No step of control_queue_drain breaks the inductive invariant.
LEMMA DrainPreserves == IInv /\ DrainStep => IInv'
<1> SUFFICES ASSUME IInv, DrainStep PROVE IInv'
  OBVIOUS
<1>0. count \in Nat /\ processed \in Nat /\ batch \in Nat BY DEF IInv, TypeOK
<1>1. CASE DrainBegin
  <2>1. item' \in [Producers -> Item] BY <1>1 DEF DrainBegin, IInv, TypeOK
  <2>2. count <= count + 0 BY <1>0
  <2> QED BY <1>0, <1>1, <2>1, <2>2, DrainLoopPreserves DEF DrainBegin
<1>2. CASE Dispatch
  <2> USE <1>2 DEF IInv, Dispatch
  <2>0. /\ cur \in Producers
        /\ Executing
        /\ Executing'
        /\ pc[cur] = "waiting"
        /\ Fresh(cur)
        /\ item[cur] \in Item
        /\ item[cur].line \in Commands
    BY DEF PoppedItem, Executing, ProducerState, TypeOK
  <2>a. /\ item'[cur] = [item[cur] EXCEPT !.reply = item[cur].line]
        /\ ran'[cur] = 1
        /\ \A p \in Producers : p # cur => item'[p] = item[p] /\ ran'[p] = ran[p]
    BY <2>0 DEF TypeOK, Fresh
  <2>b. /\ item'[cur] \in Item
        /\ item'[cur].alive = item[cur].alive
        /\ item'[cur].done = item[cur].done
        /\ item'[cur].line = item[cur].line
        /\ item'[cur].reply = item[cur].line
    BY <2>0, <2>a DEF Item
  <2>1. TypeOK'
    <3>1. item' \in [Producers -> Item] BY <2>0, <2>a, <2>b DEF TypeOK
    <3>2. ran' \in [Producers -> Nat] BY <2>0 DEF TypeOK
    <3> QED BY <3>1, <3>2 DEF TypeOK
  <2>2. QueueDistinct' BY DEF QueueDistinct
  <2>3. QueuedItems'
    <3> SUFFICES ASSUME NEW i \in 1..Len(queue)
                 PROVE /\ pc[queue[i]] = "waiting"
                       /\ item'[queue[i]].alive
                       /\ item'[queue[i]].done = FALSE
                       /\ Fresh(queue[i])'
                       /\ cur # queue[i]
      BY DEF QueuedItems, Fresh
    <3>1. queue[i] \in Producers BY DEF TypeOK
    <3>2. cur # queue[i] BY <2>0 DEF QueuedItems
    <3>3. item'[queue[i]] = item[queue[i]] /\ ran'[queue[i]] = ran[queue[i]] BY <3>1, <3>2, <2>a
    <3> QED BY <3>1, <3>2, <3>3 DEF QueuedItems, Fresh
  <2>4. PoppedItem' BY <2>0, <2>a, <2>b DEF PoppedItem, Replied
  <2>5. ProducerState' BY <2>0, <2>a, <2>b DEF ProducerState, Fresh, Replied
  <2>6. Counting' /\ Closing' BY <2>0 DEF Counting, Closing
  <2> QED BY <2>1, <2>2, <2>3, <2>4, <2>5, <2>6
<1>3. CASE Publish
  <2>0. cur \in Producers /\ Executing /\ item \in [Producers -> Item]
    BY <1>3 DEF Publish, IInv, PoppedItem, Executing, TypeOK
  <2>a. item'[cur] = [item[cur] EXCEPT !.done = TRUE, !.signalled = TRUE]
    BY <1>3, <2>0 DEF Publish
  <2>b. \A p \in Producers : p # cur => item'[p] = item[p]
    BY <1>3, <2>0 DEF Publish
  <2>c. /\ item'[cur] \in Item
        /\ item'[cur].line = item[cur].line
        /\ item'[cur].reply = item[cur].reply
    BY <2>0, <2>a DEF Item
  <2>1. item' \in [Producers -> Item]
    BY <1>3, <2>0, <2>b, <2>c DEF Publish
  <2>2. /\ processed + 1 \in Nat
        /\ batch <= count + (processed + 1)
    BY <1>0, <2>0 DEF IInv, Counting
  <2>3. \A p \in Producers :
           /\ item'[p].line = item[p].line
           /\ item'[p].reply = item[p].reply
           /\ ~(Executing /\ p = cur) => item'[p] = item[p]
    BY <2>0, <2>b, <2>c
  <2>4. epc \in {"frame", "publish"} BY <1>3 DEF Publish
  <2>5. /\ DrainLoop(processed + 1, batch)
        /\ UNCHANGED <<pc, answer, ran, shutting_down, qstate, running>>
        /\ processed' = processed + 1
        /\ batch' = batch
    BY <1>3 DEF Publish
  <2> QED BY <1>0, <2>1, <2>2, <2>3, <2>4, <2>5, DrainLoopPreserves
<1> QED BY <1>1, <1>2, <1>3 DEF DrainStep

\* Shutdown releases what is on the list; the later closing steps touch no item.
LEMMA ClosePreserves ==
  ASSUME IInv, control_queue_shutdown \/ CloseStep
  PROVE  IInv'
<1> USE DEF IInv
<1>1. CASE control_queue_shutdown
  <2>0. /\ epc = "frame" /\ epc' = "shut"
        /\ queue' = <<>> /\ count' = 0
        /\ UNCHANGED <<qstate, pc, answer, ran, batch, processed, cur, running>>
        /\ shutting_down' = TRUE
        /\ ~Executing /\ ~Executing'
    BY <1>1 DEF control_queue_shutdown, Executing
  <2>a. \A p \in Producers :
          /\ item'[p] \in Item
          /\ item'[p].alive = item[p].alive
          /\ item'[p].line = item[p].line
          /\ item'[p].reply = item[p].reply
    BY ZenonT(30), <1>1 DEF control_queue_shutdown, TypeOK, Item
  <2>b. \A p \in Producers : pc[p] # "waiting" => item'[p] = item[p]
    BY <1>1 DEF control_queue_shutdown, InQueue, QueuedItems
  <2>c. Len(queue') = 0 /\ queue' \in Seq(Producers)
    BY <2>0
  <2>1. TypeOK'
    <3>1. item' \in [Producers -> Item] BY <1>1, <2>a DEF control_queue_shutdown
    <3> QED BY <3>1, <2>0, <2>c DEF TypeOK
  <2>2. QueueDistinct' /\ QueuedItems' BY <2>c DEF QueueDistinct, QueuedItems
  <2>3. PoppedItem' BY <2>0 DEF PoppedItem
  <2>4. ProducerState' BY <2>0, <2>a, <2>b DEF ProducerState, Fresh, Replied
  <2>5. Counting' /\ Closing' BY <2>0, <2>c DEF Counting, Closing
  <2> QED BY <2>1, <2>2, <2>3, <2>4, <2>5
<1>2. CASE http_api_stop
  <2> USE <1>2 DEF http_api_stop
  <2>1. TypeOK' BY DEF TypeOK
  <2> QED BY <2>1 DEF QueueDistinct, QueuedItems, PoppedItem, ProducerState, Counting,
                      Closing, Executing, Fresh, Replied
<1>3. CASE Join
  <2> USE <1>3 DEF Join
  <2>1. TypeOK' BY DEF TypeOK
  <2> QED BY <2>1 DEF QueueDistinct, QueuedItems, PoppedItem, ProducerState, Counting,
                      Closing, Executing, Fresh, Replied
<1>4. CASE control_queue_destroy
  <2> USE <1>4 DEF control_queue_destroy
  <2>1. TypeOK' BY DEF TypeOK
  <2> QED BY <2>1 DEF QueueDistinct, QueuedItems, PoppedItem, ProducerState, Counting,
                      Closing, Executing, Fresh, Replied
<1> QED BY <1>1, <1>2, <1>3, <1>4 DEF CloseStep

\* Neither does a step of the rest of the program.
LEMMA StutterPreserves == IInv /\ UNCHANGED vars => IInv'
  BY DEF vars, IInv, TypeOK, QueueDistinct, QueuedItems, PoppedItem, ProducerState,
         Counting, Closing, Executing, Fresh, Replied

\* The invariant is inductive.
LEMMA NextPreserves == IInv /\ [Next]_vars => IInv'
<1> SUFFICES ASSUME IInv, [Next]_vars PROVE IInv'
  OBVIOUS
<1>1. ASSUME NEW p \in Producers, NEW c \in Commands, Submit(p, c) PROVE IInv'
  BY <1>1, ProducerPreserves
<1>2. ASSUME NEW p \in Producers, SubmitNoMemory(p) \/ ProducerStep(p) PROVE IInv'
  BY <1>2, ProducerPreserves
<1>3. CASE DrainStep BY <1>3, DrainPreserves
<1>4. CASE control_queue_shutdown \/ CloseStep BY <1>4, ClosePreserves
<1>5. CASE UNCHANGED vars BY <1>5, StutterPreserves
<1> QED BY <1>1, <1>2, <1>3, <1>4, <1>5 DEF Next, Ended

\* The inductive invariant holds in every reachable state, whatever the
\* number of producers and however long they go on submitting.
THEOREM Invariance == Spec => []IInv
<1>1. Init => IInv BY InitEstablishes
<1>2. IInv /\ [Next]_vars => IInv' BY NextPreserves
<1> QED BY <1>1, <1>2, PTL DEF Spec

\* The variables of the queue and of the threads keep their types.
THEOREM TypeCorrect == Spec => []TypeOK
  BY Invariance, PTL DEF IInv

\* No thread reaches freed memory: neither an item freed by its producer nor
\* the queue freed by control_queue_destroy.
THEOREM MemorySafe == Spec => []NoDanglingPointer
<1>1. IInv => NoDanglingPointer
  <2> SUFFICES ASSUME IInv PROVE NoDanglingPointer
    OBVIOUS
  <2>1. ASSUME NEW p \in Producers, InQueue(p)
        PROVE item[p].alive /\ pc[p] = "waiting" /\ ~item[p].done
    <3>1. PICK i \in 1..Len(queue) : queue[i] = p BY <2>1 DEF InQueue
    <3> QED BY <3>1 DEF IInv, QueuedItems
  <2>2. ASSUME NEW p \in Producers, Executing, cur = p
        PROVE item[p].alive /\ pc[p] = "waiting" /\ ~item[p].done
    BY <2>2 DEF IInv, PoppedItem
  <2>3. qstate = "freed" => \A p \in Producers : pc[p] = "exited"
    BY DEF IInv, Closing
  <2> QED BY <2>1, <2>2, <2>3, Zenon DEF NoDanglingPointer
<1> QED BY <1>1, Invariance, PTL

\* A returned reply is the reply of the caller's own command, which ran
\* exactly once; an empty return means that the command never ran.
THEOREM ExactlyOnce == Spec => []ReplyMeansRanOnce
<1>1. IInv => ReplyMeansRanOnce
  <2> SUFFICES ASSUME IInv, NEW p \in Producers
               PROVE /\ ran[p] <= 1
                     /\ pc[p] \in {"idle", "exited"} => (answer[p] # "none" <=> ran[p] = 1)
                     /\ pc[p] = "owned" /\ item[p].reply # "none" =>
                          item[p].reply = item[p].line
    BY DEF ReplyMeansRanOnce
  <2> QED BY NotACommand DEF IInv, TypeOK, ProducerState, Fresh, Replied
<1> QED BY <1>1, Invariance, PTL

\* A drain executes at most the commands that were queued when it began, and
\* the list always still holds the rest of them.
THEOREM DrainBounded == Spec => []BatchBoundsDrain
<1>1. IInv => BatchBoundsDrain
  BY DEF IInv, TypeOK, Counting, BatchBoundsDrain
<1> QED BY <1>1, Invariance, PTL

\* The two together: commands run once each and in their turn.
THEOREM RunsOnce == Spec => []CommandsRunOnce
<1>1. ReplyMeansRanOnce /\ BatchBoundsDrain => CommandsRunOnce
  BY DEF CommandsRunOnce
<1> QED BY <1>1, ExactlyOnce, DrainBounded, PTL

-----------------------------------------------------------------------------
(* Refinement of CommandService *)

\* A producer that waits is on the list, or drain holds its item, or it has
\* been released: nobody waits for a command the emulator has lost.
NoLostWaiter ==
  \A p \in Producers :
    pc[p] = "waiting" /\ item[p].done = FALSE =>
      InQueue(p) \/ (Executing /\ cur = p)

\* No step loses the command of a producer that waits.
LEMMA NoLostWaiterPreserved ==
  ASSUME IInv, IInv', NoLostWaiter, [Next]_vars
  PROVE  NoLostWaiter'
<1> USE DEF IInv
<1>1. ASSUME NEW p \in Producers,
             \/ \E c \in Commands : Submit(p, c)
             \/ SubmitNoMemory(p) \/ ReturnRefused(p) \/ Wake(p) \/ Collect(p) \/ Exit(p)
      PROVE NoLostWaiter'
  <2>1. /\ UNCHANGED <<queue, epc, cur>>
        /\ pc'[p] # "waiting"
        /\ \A q \in Producers : q # p => pc'[q] = pc[q] /\ item'[q] = item[q]
    BY <1>1 DEF TypeOK, Submit, SubmitNoMemory, ReturnRefused, Wake, Collect, Exit
  <2> QED BY <2>1 DEF NoLostWaiter, InQueue, Executing
<1>2. ASSUME NEW p \in Producers, Enter(p) PROVE NoLostWaiter'
  <2>1. CASE shutting_down
    BY <1>2, <2>1 DEF Enter, NoLostWaiter, TypeOK, InQueue, Executing
  <2>2. CASE ~shutting_down
    <3>0. /\ queue \in Seq(Producers)
          /\ queue' = Append(queue, p)
          /\ pc' = [pc EXCEPT ![p] = "waiting"]
          /\ UNCHANGED <<item, epc, cur>>
      BY <1>2, <2>2 DEF Enter, TypeOK
    <3>1. /\ Len(queue) \in Nat
          /\ Len(queue') = Len(queue) + 1
          /\ \A i \in 1..Len(queue) : queue'[i] = queue[i]
          /\ queue'[Len(queue) + 1] = p
      BY <3>0, AppendFacts
    <3>2. InQueue(p)'
      BY <3>1 DEF InQueue
    <3>3. \A q \in Producers : InQueue(q) => InQueue(q)'
      BY <3>1 DEF InQueue
    <3> QED BY <3>0, <3>2, <3>3 DEF NoLostWaiter, TypeOK, Executing
  <2> QED BY <2>1, <2>2
<1>3. CASE DrainBegin \/ Publish
  <2>0. PICK n \in Nat, b \in Nat : DrainLoop(n, b)
    BY <1>3 DEF DrainBegin, Publish, TypeOK
  <2>1. \A q \in Producers :
          /\ pc'[q] = pc[q]
          /\ item'[q].done = FALSE => item[q].done = FALSE /\ ~(Executing /\ cur = q)
    BY <1>3 DEF DrainBegin, Publish, TypeOK, Item, Executing, PoppedItem
  <2>2. CASE /\ epc' = "exec" /\ queue # <<>>
             /\ cur' = Head(queue) /\ queue' = Tail(queue)
    <3>1. \A q \in Producers : InQueue(q) => q = Head(queue) \/ InQueue(q)'
      <4> SUFFICES ASSUME NEW q \in Producers, InQueue(q), q # Head(queue)
                   PROVE \E j \in 1..Len(Tail(queue)) : Tail(queue)[j] = q
        BY <2>2 DEF InQueue
      <4>1. PICK i \in 1..Len(queue) : queue[i] = q BY DEF InQueue
      <4>2. /\ Head(queue) = queue[1]
            /\ Len(queue) \in Nat \ {0}
            /\ Len(Tail(queue)) = Len(queue) - 1
            /\ \A j \in 1..Len(Tail(queue)) : Tail(queue)[j] = queue[j + 1]
        BY <2>2, HeadTail DEF TypeOK
      <4>3. i - 1 \in 1..Len(Tail(queue)) /\ (i - 1) + 1 = i
        BY <4>1, <4>2
      <4> QED BY <4>1, <4>2, <4>3
    <3> QED BY <2>1, <2>2, <3>1 DEF NoLostWaiter, Executing
  <2>3. CASE UNCHANGED queue /\ ~Executing'
    BY <2>1, <2>3 DEF NoLostWaiter, InQueue
  <2> QED BY <2>0, <2>2, <2>3, DrainLoopFacts DEF Executing
<1>4. CASE Dispatch
  <2>1. /\ UNCHANGED <<queue, pc, cur>>
        /\ Executing /\ Executing'
        /\ \A q \in Producers : item'[q].done = item[q].done
    BY <1>4 DEF Dispatch, Executing, TypeOK, Item, PoppedItem
  <2> QED BY <2>1 DEF NoLostWaiter, InQueue
<1>5. CASE control_queue_shutdown
  <2>1. \A q \in Producers : item'[q].done = FALSE => item[q].done = FALSE /\ ~InQueue(q)
    BY ZenonT(30), <1>5 DEF control_queue_shutdown, TypeOK, Item
  <2> QED BY <1>5, <2>1 DEF control_queue_shutdown, NoLostWaiter, Executing
<1>6. CASE CloseStep \/ UNCHANGED vars
  BY <1>6 DEF CloseStep, http_api_stop, Join, control_queue_destroy, vars,
              NoLostWaiter, InQueue, Executing
<1> QED BY <1>1, <1>2, <1>3, <1>4, <1>5, <1>6 DEF Next, ProducerStep, DrainStep, Ended

\* Nobody ever waits for a command that is lost.
LEMMA NoLostWaiterInvariant == Spec => []NoLostWaiter
<1>1. Init => NoLostWaiter
  BY DEF Init, NoLostWaiter
<1>2. IInv /\ IInv' /\ NoLostWaiter /\ [Next]_vars => NoLostWaiter'
  BY NoLostWaiterPreserved
<1> QED BY <1>1, <1>2, Invariance, PTL DEF Spec

\* Popping the head does not change what is waiting to be served.
LEMMA HeadThenTail ==
  ASSUME NEW S, NEW s \in Seq(S), s # <<>>
  PROVE  <<Head(s)>> \o Tail(s) = s
  OBVIOUS

\* The popped item is the first in line, the list is the rest.
LEMMA ConsFacts ==
  ASSUME NEW S, NEW s \in Seq(S), NEW e \in S
  PROVE  /\ <<e>> \o s # <<>>
         /\ Head(<<e>> \o s) = e
         /\ Tail(<<e>> \o s) = s
  OBVIOUS

\* A step that leaves the line and every status alone is a stuttering step.
LEMMA StutterMaps ==
  ASSUME ServiceLine' = ServiceLine, UNCHANGED shutting_down,
         \A p \in Producers : ServiceStatus(p)' = ServiceStatus(p)
  PROVE  UNCHANGED Service!vars
  BY DEF Service!vars

\* Each producer step is a stutter, or one of Accept, Refuse, Return.
LEMMA ProducerMaps ==
  ASSUME IInv, NEW p \in Producers,
         \/ \E c \in Commands : Submit(p, c)
         \/ SubmitNoMemory(p)
         \/ ProducerStep(p)
  PROVE  [Service!Next]_(Service!vars)
<1> USE DEF IInv
<1> DEFINE st == [q \in Producers |-> ServiceStatus(q)]
<1>a. ASSUME NEW v, v = ServiceStatus(p)',
             \A q \in Producers : q # p => ServiceStatus(q)' = ServiceStatus(q)
      PROVE st' = [st EXCEPT ![p] = v]
  BY <1>a
<1>b. ASSUME \A q \in Producers : q # p => pc'[q] = pc[q] /\ item'[q] = item[q] /\ ran'[q] = ran[q]
      PROVE \A q \in Producers : q # p => ServiceStatus(q)' = ServiceStatus(q)
  BY <1>b DEF ServiceStatus
<1>1. ASSUME (\E c \in Commands : Submit(p, c)) \/ Wake(p) \/ Exit(p)
      PROVE UNCHANGED Service!vars
  <2>1. /\ UNCHANGED <<queue, epc, cur, shutting_down>>
        /\ \A q \in Producers : q # p => pc'[q] = pc[q] /\ item'[q] = item[q] /\ ran'[q] = ran[q]
    BY <1>1 DEF Submit, Wake, Exit, TypeOK
  <2>2. ServiceStatus(p)' = ServiceStatus(p)
    BY <1>1 DEF ServiceStatus, Submit, Wake, Exit, TypeOK
  <2>3. ServiceLine' = ServiceLine BY <2>1 DEF ServiceLine
  <2> QED BY <1>b, <2>1, <2>2, <2>3, StutterMaps
<1>2. ASSUME SubmitNoMemory(p) \/ (Enter(p) /\ shutting_down)
      PROVE Service!Refuse(p)
  <2>1. /\ UNCHANGED <<queue, epc, cur, shutting_down>>
        /\ \A q \in Producers : q # p => pc'[q] = pc[q] /\ item'[q] = item[q] /\ ran'[q] = ran[q]
        /\ ServiceStatus(p) = "idle"
        /\ ServiceStatus(p)' = "refused"
    BY <1>2 DEF SubmitNoMemory, Enter, TypeOK, ServiceStatus
  <2>2. st' = [st EXCEPT ![p] = "refused"] BY <1>a, <1>b, <2>1
  <2> QED BY <2>1, <2>2 DEF Service!Refuse, ServiceLine
<1>3. ASSUME Enter(p), ~shutting_down
      PROVE Service!Accept(p)
  <2>1. /\ UNCHANGED <<epc, cur, shutting_down>>
        /\ queue' = Append(queue, p)
        /\ \A q \in Producers : q # p => pc'[q] = pc[q] /\ item'[q] = item[q] /\ ran'[q] = ran[q]
    BY <1>3 DEF Enter, TypeOK
  <2>2. /\ ServiceStatus(p) = "idle"
        /\ ServiceStatus(p)' = "waiting"
    BY <1>3 DEF Enter, TypeOK, ServiceStatus, ProducerState, Fresh
  <2>3. st' = [st EXCEPT ![p] = "waiting"] BY <1>a, <1>b, <2>1, <2>2
  <2>4. ServiceLine' = Append(ServiceLine, p)
    BY <2>1 DEF ServiceLine, TypeOK, PoppedItem, Executing
  <2> QED BY <1>3, <2>1, <2>2, <2>3, <2>4 DEF Service!Accept
<1>4. ASSUME ReturnRefused(p) \/ Collect(p)
      PROVE Service!Return(p)
  <2>1. /\ UNCHANGED <<queue, epc, cur, shutting_down>>
        /\ \A q \in Producers : q # p => pc'[q] = pc[q] /\ item'[q] = item[q] /\ ran'[q] = ran[q]
        /\ ServiceStatus(p)' = "idle"
    BY <1>4 DEF ReturnRefused, Collect, TypeOK, ServiceStatus
  <2>2. ServiceStatus(p) \in {"served", "refused"}
    BY <1>4 DEF ReturnRefused, Collect, TypeOK, ServiceStatus, ProducerState, Fresh, Replied
  <2>3. st' = [st EXCEPT ![p] = "idle"] BY <1>a, <1>b, <2>1
  <2> QED BY <2>1, <2>2, <2>3 DEF Service!Return, ServiceLine
<1> QED BY <1>1, <1>2, <1>3, <1>4 DEF ProducerStep, Service!Next

\* Dispatch is Serve, shutdown is Close, every other step of the emulator
\* thread is a stutter.
LEMMA EmulatorMaps ==
  ASSUME IInv, NoLostWaiter, DrainStep \/ control_queue_shutdown \/ CloseStep
  PROVE  [Service!Next]_(Service!vars)
<1> USE DEF IInv
<1> DEFINE st == [q \in Producers |-> ServiceStatus(q)]
<1>1. ASSUME DrainBegin \/ Publish
      PROVE UNCHANGED Service!vars
  <2>0. PICK n \in Nat, b \in Nat : DrainLoop(n, b)
    <3>1. CASE DrainBegin
      <4>1. 0 \in Nat /\ count \in Nat /\ DrainLoop(0, count)
        BY <3>1 DEF DrainBegin, TypeOK
      <4> QED BY <4>1
    <3>2. CASE Publish
      <4>1. processed + 1 \in Nat /\ batch \in Nat /\ DrainLoop(processed + 1, batch)
        BY <3>2 DEF Publish, TypeOK
      <4> QED BY <4>1
    <3> QED BY <1>1, <3>1, <3>2
  <2>1. \A q \in Producers : ServiceStatus(q)' = ServiceStatus(q)
    <3>1. CASE DrainBegin BY <3>1 DEF DrainBegin, ServiceStatus
    <3>2. CASE Publish
      <4>1. /\ cur \in Producers
            /\ ran[cur] = 1
            /\ UNCHANGED <<pc, ran>>
            /\ \A q \in Producers : q # cur => item'[q] = item[q]
        BY <3>2 DEF Publish, PoppedItem, Executing, Replied, TypeOK
      <4> QED BY <4>1 DEF ServiceStatus
    <3> QED BY <1>1, <3>1, <3>2
  <2>2. ServiceLine = queue /\ UNCHANGED shutting_down
    BY <1>1 DEF DrainBegin, Publish, ServiceLine
  <2>3. ServiceLine' = queue
    <3>1. CASE /\ epc' = "exec" /\ queue # <<>>
               /\ cur' = Head(queue) /\ queue' = Tail(queue)
      BY <3>1, HeadThenTail DEF ServiceLine, TypeOK
    <3>2. CASE epc' = "frame" /\ UNCHANGED queue
      BY <3>2 DEF ServiceLine
    <3> QED BY <2>0, <3>1, <3>2, DrainLoopFacts
  <2> QED BY <2>1, <2>2, <2>3, StutterMaps
<1>2. ASSUME Dispatch PROVE Service!Serve
  <2>1. /\ cur \in Producers
        /\ pc[cur] = "waiting"
        /\ ran[cur] = 0 /\ ran'[cur] = 1
        /\ UNCHANGED <<pc, queue, cur, shutting_down>>
        /\ epc = "exec" /\ epc' = "publish"
        /\ \A q \in Producers : q # cur => item'[q] = item[q] /\ ran'[q] = ran[q]
    BY <1>2 DEF Dispatch, PoppedItem, Executing, Fresh, TypeOK
  <2>2. ServiceLine = <<cur>> \o queue /\ ServiceLine' = queue
    BY <2>1 DEF ServiceLine
  <2>3. ServiceLine # <<>> /\ Head(ServiceLine) = cur /\ Tail(ServiceLine) = queue
    BY <2>1, <2>2, ConsFacts DEF TypeOK
  <2>4. ServiceStatus(cur)' = "served"
    BY <2>1 DEF ServiceStatus
  <2>5. \A q \in Producers : q # cur => ServiceStatus(q)' = ServiceStatus(q)
    BY <2>1 DEF ServiceStatus
  <2>6. st' = [st EXCEPT ![cur] = "served"]
    BY <2>1, <2>4, <2>5
  <2> QED BY <2>1, <2>2, <2>3, <2>6 DEF Service!Serve
<1>3. ASSUME control_queue_shutdown
      PROVE [Service!Next]_(Service!vars)
  <2>1. /\ UNCHANGED <<pc, ran>>
        /\ epc = "frame" /\ epc' = "shut"
        /\ queue' = <<>>
        /\ shutting_down' = TRUE
        /\ \A q \in Producers : InQueue(q) => item'[q].done
        /\ \A q \in Producers : ~InQueue(q) => item'[q] = item[q]
    BY <1>3 DEF control_queue_shutdown, TypeOK, Item
  <2>2. \A q \in Producers :
          ServiceStatus(q)' = IF ServiceStatus(q) = "waiting" THEN "refused"
                              ELSE ServiceStatus(q)
    <3> SUFFICES ASSUME NEW q \in Producers
                 PROVE ServiceStatus(q)' = IF ServiceStatus(q) = "waiting" THEN "refused"
                                           ELSE ServiceStatus(q)
      OBVIOUS
    <3>1. CASE InQueue(q)
      BY <2>1, <3>1 DEF InQueue, QueuedItems, ServiceStatus, Fresh, TypeOK
    <3>2. CASE ~InQueue(q)
      <4>1. ServiceStatus(q) # "waiting"
        BY <2>1, <3>2 DEF NoLostWaiter, Executing, ServiceStatus, ProducerState, TypeOK,
                          Fresh, Replied, Item
      <4>2. ServiceStatus(q)' = ServiceStatus(q)
        BY <2>1, <3>2 DEF ServiceStatus
      <4> QED BY <4>1, <4>2
    <3> QED BY <3>1, <3>2
  <2>3. st' = [q \in Producers |-> IF st[q] = "waiting" THEN "refused" ELSE st[q]]
    BY <2>2
  <2>4. ServiceLine' = <<>>
    BY <2>1 DEF ServiceLine
  <2>5. ~shutting_down
    BY <2>1 DEF Closing
  <2> QED BY <2>1, <2>3, <2>4, <2>5 DEF Service!Next, Service!Close
<1>4. ASSUME CloseStep PROVE UNCHANGED Service!vars
  BY <1>4, StutterMaps DEF CloseStep, http_api_stop, Join, control_queue_destroy,
                           ServiceLine, ServiceStatus
<1> QED BY <1>1, <1>2, <1>3, <1>4 DEF DrainStep, Service!Next

\* The queue implements the abstract command service, for any number of
\* producers: commands run one at a time in the order of their acceptance, and
\* a call ends served exactly if its command ran.
THEOREM Refinement == Spec => ImplementsService
<1>1. Init => Service!Init
  BY DEF Init, control_queue_create, Service!Init, ServiceLine, ServiceStatus
<1>2. IInv /\ NoLostWaiter /\ [Next]_vars => [Service!Next]_(Service!vars)
  <2> SUFFICES ASSUME IInv, NoLostWaiter, [Next]_vars
               PROVE [Service!Next]_(Service!vars)
    OBVIOUS
  <2>1. ASSUME NEW p \in Producers, NEW c \in Commands, Submit(p, c)
        PROVE [Service!Next]_(Service!vars)
    BY <2>1, ProducerMaps
  <2>2. ASSUME NEW p \in Producers, SubmitNoMemory(p) \/ ProducerStep(p)
        PROVE [Service!Next]_(Service!vars)
    BY <2>2, ProducerMaps
  <2>3. CASE DrainStep \/ control_queue_shutdown \/ CloseStep
    BY <2>3, EmulatorMaps
  <2>4. CASE UNCHANGED vars
    BY <2>4, StutterMaps DEF vars, ServiceLine, ServiceStatus
  <2> QED BY <2>1, <2>2, <2>3, <2>4 DEF Next, Ended
<1> QED BY <1>1, <1>2, Invariance, NoLostWaiterInvariant, PTL
        DEF Spec, ImplementsService, Service!Spec

-----------------------------------------------------------------------------
(* The HTTP server.  The thread serves one connection at a time, and a       *)
(* command waits in the queue only while its connection is open: ServingInv. *)
(* A connection is closed when its command has run, or is about to be:       *)
(* OnceInv.  What is routed is the whole request, because the bytes that are *)
(* read are a prefix of it and the announced length says where it ends:      *)
(* HandledWhole.                                                             *)


\* The commands that the requests can come to.
CommandsOf(q) == {handle_request(q, n).cmd : n \in Nat}
Ran == UNION {CommandsOf(t[c]) : t \in Traffic, c \in Clients}

HttpTypeOK ==
  /\ asks \in Traffic
  /\ conn \in [Clients -> {"none", "queued", "open", "closed"}]
  /\ sent \in [Clients -> Nat]
  /\ gone \in SUBSET Clients
  /\ \A c \in Clients : response[c] = <<>> \/ \E a : response[c] = <<a>>
  /\ response = [c \in Clients |-> response[c]]
  /\ srv \in [pc : {"select", "recv", "submit", "ended"}, client : Clients \cup {"none"}, n : Nat]
  /\ slot \in [cmd : Ran \cup {None}, from : Clients \cup {"none"},
               state : {"empty", "filled", "queued", "done", "refused"}]
  /\ carried \in Seq([cmd : Ran, from : Clients])
  /\ loop \in [pc : {"frame", "events", "leaving", "stopping", "joining", "over"},
               menu : BOOLEAN, shutting_down : BOOLEAN, running : BOOLEAN, freezes : Nat]
  /\ exited \in BOOLEAN

\* The thread serves the one connection that is open, and a command waits in
\* the queue only while it submits it.
ServingInv ==
  /\ \A c \in Clients : conn[c] = "open" <=> srv.pc \in {"recv", "submit"} /\ srv.client = c
  /\ srv.pc \in {"recv", "submit"} => srv.client \in Clients
  /\ srv.pc # "submit" => slot.state = "empty"
  /\ srv.pc = "submit" =>
       /\ slot.state # "empty" /\ slot.from = srv.client /\ slot.cmd \in Ran \ {None}
  /\ slot.state = "refused" => loop.shutting_down \/ asks[slot.from].nomem

SentInv == \A c \in Clients : sent[c] <= Len(Bytes(asks[c]))

\* A command that waits or ran is what its client asked for.
Fits(c, m) ==
  /\ "path" \in m.args => asks[c].where = "under"
  /\ Sound(asks[c]) /\ c \notin gone => m = Meant(asks[c]).cmd
CommandInv ==
  /\ srv.pc = "submit" => Fits(slot.from, slot.cmd)
  /\ \A i \in DOMAIN carried : Fits(carried[i].from, carried[i].cmd)

OnceInv ==
  \A i \in DOMAIN carried :
    /\ \A j \in DOMAIN carried : carried[i].from = carried[j].from => i = j
    /\ \/ conn[carried[i].from] = "closed"
       \/ /\ srv.pc = "submit" /\ srv.client = carried[i].from
          /\ slot.state = "done" /\ slot.cmd = carried[i].cmd
DoneInv == slot.state = "done" => \E i \in DOMAIN carried : carried[i].from = slot.from
ResponseInv ==
  \A c \in Clients : response[c] # <<>> =>
    LET a == response[c][1] IN
    /\ conn[c] = "closed"
    /\ a.cmd # None => \E i \in RanFor(c) : a.cmd = carried[i].cmd
    /\ a.cmd = None /\ Sound(asks[c]) /\ c \notin gone =>
         a = Meant(asks[c]) \/ (RanFor(c) = {} /\ (loop.shutting_down \/ asks[c].nomem))
HttpInv == HttpTypeOK /\ ServingInv /\ SentInv /\ CommandInv /\ OnceInv /\ DoneInv /\ ResponseInv

-----------------------------------------------------------------------------
LEMMA AllOf == ASSUME NEW s \in Seq(STRING) PROVE SubSeq(s, 1, Len(s)) = s /\ Len(s) \in Nat
OBVIOUS

LEMMA BytesOf ==
  ASSUME NEW q, q.lines \in Nat, q.body \in Seq(STRING)
  PROVE  Len(Bytes(q)) = q.lines + 1 + Len(q.body)
<1> DEFINE l == [i \in 1 .. q.lines |-> "line"]
<1> DEFINE S == STRING \cup {"line", "end"}
<1>0. q.body \in Seq(S) /\ "line" \in S /\ "end" \in S
  BY SeqMonotonic
<1> HIDE DEF S
<1>1. l \in Seq(S) /\ Len(l) = q.lines
  <2>1. l \in [1 .. q.lines -> S] BY <1>0
  <2> HIDE DEF l
  <2> QED BY <2>1
<1> HIDE DEF l
<1>2. <<"end">> \in Seq(S) /\ Len(<<"end">>) = 1 BY <1>0
<1>3. l \o <<"end">> \in Seq(S) /\ Len(l \o <<"end">>) = q.lines + 1 BY <1>1, <1>2, ConcatProperties
<1> DEFINE k == l \o <<"end">>
<1> HIDE DEF k
<1>4. Len(k \o q.body) = Len(k) + Len(q.body) BY <1>0, <1>3, ConcatProperties DEF k
<1>5. Len(k \o q.body) = q.lines + 1 + Len(q.body) BY <1>3, <1>4 DEF k
<1> QED BY <1>5 DEF Bytes, l, k

\* A whole request that came complete is routed as a whole.
LEMMA HandledWhole ==
  ASSUME NEW q, NEW n \in Nat, q.len \in Nat, q.lines \in Nat, q.body \in Seq(STRING),
         Sound(q), n <= Len(Bytes(q)), n <= ReqMax, Complete(q, n)
  PROVE  handle_request(q, n) = Meant(q)
<1>1. Len(Bytes(q)) = q.lines + 1 + Len(q.body) /\ Len(q.body) \in Nat BY BytesOf, AllOf
<1>2. q.len = Len(q.body) /\ Len(Bytes(q)) <= ReqMax BY DEF Sound
<1>3. content_length(q, ReqMax + 1) = q.len
  BY <1>1, <1>2, HttpAssumption DEF content_length
<1>4. n = Len(Bytes(q)) BY <1>1, <1>2, <1>3, HttpAssumption DEF Complete, HeaderIn
<1>5. content_length(q, n - (q.lines + 1)) = Len(q.body) BY <1>1, <1>2, <1>4 DEF content_length
<1>6. SubSeq(q.body, 1, Len(q.body)) = q.body BY AllOf
<1>7. q.malformed = FALSE \/ ~q.malformed BY DEF Sound
<1> QED BY <1>5, <1>6, <1>7 DEF handle_request, Meant, Sound

LEMMA RowsTake == \A r \in Routes : "path" \notin r.takes
<1>1. \A r \in GetRoutes : "path" \notin r.takes BY DEF GetRoutes, Route
<1>2. \A r \in MachineRoutes : "path" \notin r.takes BY DEF MachineRoutes, Route
<1>3. \A r \in MediaRoutes : "path" \notin r.takes BY DEF MediaRoutes, Route
<1>4. \A r \in DebugRoutes : "path" \notin r.takes BY DEF DebugRoutes, Route
<1>5. \A r \in FileRoutes : "path" \notin r.takes BY DEF FileRoutes, Route
<1>6. \A r \in TraceRoutes : "path" \notin r.takes BY DEF TraceRoutes, Route
<1>7. \A r \in DeleteRoutes : "path" \notin r.takes BY DEF DeleteRoutes, Route
<1> QED BY <1>1, <1>2, <1>3, <1>4, <1>5, <1>6, <1>7 DEF Routes

\* A command has a path only if the path is under the root.
LEMMA PathUnder ==
  ASSUME NEW q, NEW n, "path" \in handle_request(q, n).cmd.args
  PROVE  q.where = "under"
<1> USE DEF Answer, Command, None
<1>1. ASSUME NEW ps, "path" \in route(q, ps).cmd.args
      PROVE  q.where = "under"
  <2> DEFINE rows == {r \in Routes : r.m = q.m /\ r.p = q.p}
             r == CHOOSE x \in rows : TRUE
  <2>1. CASE rows # {} /\ route(q, ps) = RouteRow(r, ps, q.where)
    <3>1. r \in Routes BY <2>1
    <3>2. "path" \notin r.takes BY <3>1, RowsTake
    <3> HIDE DEF r
    <3> QED BY <1>1, <2>1, <3>2 DEF RouteRow, sandbox_path
  <2>2. CASE route(q, ps) = RouteSet(ps)
    <3>1. RouteSet(ps).cmd.args \in {{"via", "val"}, {"reg", "val"}, {}} BY DEF RouteSet
    <3>2. "path" \notin RouteSet(ps).cmd.args BY <3>1
    <3> QED BY <1>1, <2>2, <3>2
  <2>3. CASE route(q, ps) = RouteHunt(ps) BY <1>1, <2>3 DEF RouteHunt
  <2>4. CASE route(q, ps) \in {Answer(200), Answer(404)} BY <1>1, <2>4
  <2> QED BY <2>1, <2>2, <2>3, <2>4 DEF route
<1>2. CASE q.malformed BY <1>2 DEF handle_request
<1>3. CASE ~q.malformed
  <2>1. PICK ps : handle_request(q, n) = route(q, ps) BY <1>3 DEF handle_request
  <2> QED BY <1>1, <2>1
<1> QED BY <1>2, <1>3

\* What a request that is asked has.
LEMMA Asked ==
  ASSUME asks \in Traffic, NEW c \in Clients
  PROVE  asks[c].len \in Nat /\ asks[c].lines \in Nat /\ asks[c].body \in Seq(STRING)
BY HttpAssumption

LEMMA HttpStart == HttpInit => HttpInv
<1> SUFFICES ASSUME HttpInit PROVE HttpInv OBVIOUS
<1> USE HttpAssumption DEF HttpInit
<1>1. HttpTypeOK
  <2>1. carried \in Seq([cmd : Ran, from : Clients]) OBVIOUS
  <2>2. slot \in [cmd : Ran \cup {None}, from : Clients \cup {"none"},
                 state : {"empty", "filled", "queued", "done", "refused"}]
    OBVIOUS
  <2>3. response = [c \in Clients |-> response[c]] /\ \A c \in Clients : response[c] = <<>>
    OBVIOUS
  <2>4. loop \in [pc : {"frame", "events", "leaving", "stopping", "joining", "over"},
                 menu : BOOLEAN, shutting_down : BOOLEAN, running : BOOLEAN, freezes : Nat]
    OBVIOUS
  <2> QED BY <2>1, <2>2, <2>3, <2>4 DEF HttpTypeOK
<1>2. ServingInv BY DEF ServingInv
<1>3. SentInv
  <2>1. ASSUME NEW c \in Clients PROVE 0 <= Len(Bytes(asks[c]))
    <3>1. asks[c].lines \in Nat /\ asks[c].body \in Seq(STRING) BY Asked
    <3>2. Len(asks[c].body) \in Nat BY <3>1
    <3>3. Len(Bytes(asks[c])) = asks[c].lines + 1 + Len(asks[c].body) BY <3>1, BytesOf
    <3> QED BY <3>1, <3>2, <3>3
  <2> QED BY <2>1 DEF SentInv
<1>4. CommandInv /\ OnceInv /\ DoneInv BY DEF CommandInv, OnceInv, DoneInv
<1>5. ResponseInv BY DEF ResponseInv
<1> QED BY <1>1, <1>2, <1>3, <1>4, <1>5 DEF HttpInv

\* A client connects, sends or hangs up.
LEMMA ClientKeeps ==
  ASSUME HttpInv, NEW c \in Clients, Connect(c) \/ Send(c) \/ HangUp(c)
  PROVE  HttpInv'
<1>0. HttpTypeOK /\ ServingInv /\ SentInv /\ CommandInv /\ OnceInv /\ DoneInv /\ ResponseInv
  BY DEF HttpInv
<1>1. CASE Connect(c)
  <2> USE <1>0, <1>1 DEF Connect
  <2>1. HttpTypeOK' BY DEF HttpTypeOK
  <2>2. ServingInv' BY DEF HttpTypeOK, ServingInv
  <2>3. SentInv' /\ DoneInv' BY DEF SentInv, DoneInv
  <2>4. CommandInv' BY DEF CommandInv, Fits
  <2>5. OnceInv' BY DEF HttpTypeOK, OnceInv
  <2>6. ResponseInv' BY DEF HttpTypeOK, ResponseInv, RanFor
  <2> QED BY <2>1, <2>2, <2>3, <2>4, <2>5, <2>6 DEF HttpInv
<1>2. CASE Send(c)
  <2> USE <1>0, <1>2 DEF Send
  <2>1. HttpTypeOK' BY DEF HttpTypeOK
  <2>2. ServingInv' BY DEF ServingInv
  <2>3. SentInv'
    <3>1. \A b \in Clients : Len(Bytes(asks[b])) \in Nat
      <4> TAKE b \in Clients
      <4>1. asks[b].lines \in Nat /\ asks[b].body \in Seq(STRING) BY Asked DEF HttpTypeOK
      <4> QED BY <4>1, BytesOf, AllOf
    <3>2. sent \in [Clients -> Nat] BY DEF HttpTypeOK
    <3> QED BY <3>1, <3>2 DEF SentInv
  <2>4. CommandInv' /\ OnceInv' /\ DoneInv' BY DEF CommandInv, Fits, OnceInv, DoneInv
  <2>6. ResponseInv' BY DEF ResponseInv, RanFor
  <2> QED BY <2>1, <2>2, <2>3, <2>4, <2>6 DEF HttpInv
<1>3. CASE HangUp(c)
  <2> USE <1>0, <1>3 DEF HangUp
  <2>1. HttpTypeOK' BY DEF HttpTypeOK
  <2>2. ServingInv' BY DEF ServingInv
  <2>3. SentInv' /\ OnceInv' /\ DoneInv' BY DEF SentInv, OnceInv, DoneInv
  <2>4. CommandInv' BY DEF CommandInv, Fits
  <2>6. ResponseInv' BY DEF ResponseInv, RanFor
  <2> QED BY <2>1, <2>2, <2>3, <2>4, <2>6 DEF HttpInv
<1> QED BY <1>1, <1>2, <1>3

LEMMA SelectKeeps == HttpInv /\ server_thread => HttpInv'
<1> SUFFICES ASSUME HttpInv, server_thread PROVE HttpInv' OBVIOUS
<1>0. HttpTypeOK /\ ServingInv /\ SentInv /\ CommandInv /\ OnceInv /\ DoneInv /\ ResponseInv
  BY DEF HttpInv
<1>1. srv.pc = "select" /\ UNCHANGED <<asks, sent, gone, response, slot, carried, loop, exited>>
  BY DEF server_thread
<1>2. srv \in [pc : {"select", "recv", "submit", "ended"}, client : Clients \cup {"none"}, n : Nat]
  BY <1>0 DEF HttpTypeOK
<1>3. CASE srv' = [srv EXCEPT !.pc = "ended"] /\ UNCHANGED conn
  <2>1. srv'.pc = "ended" /\ srv' \in [pc : {"select", "recv", "submit", "ended"},
                                       client : Clients \cup {"none"}, n : Nat]
    BY <1>2, <1>3
  <2> USE <1>0, <1>1, <1>3, <2>1
  <2>2. HttpTypeOK' BY DEF HttpTypeOK
  <2>3. ServingInv' BY DEF ServingInv
  <2>4. SentInv' /\ CommandInv' /\ DoneInv' BY DEF SentInv, CommandInv, Fits, DoneInv
  <2>5. OnceInv' BY DEF OnceInv
  <2>6. ResponseInv' BY DEF ResponseInv, RanFor
  <2> QED BY <2>2, <2>3, <2>4, <2>5, <2>6 DEF HttpInv
<1>4. ASSUME NEW c \in Clients, conn[c] = "queued",
             conn' = [conn EXCEPT ![c] = "open"],
             srv' = [pc |-> "recv", client |-> c, n |-> 0]
      PROVE  HttpInv'
  <2> USE <1>0, <1>1, <1>4
  <2>2. HttpTypeOK' BY DEF HttpTypeOK
  <2>3. ServingInv' BY DEF HttpTypeOK, ServingInv
  <2>4. SentInv' /\ CommandInv' /\ DoneInv' BY DEF SentInv, CommandInv, Fits, DoneInv
  <2>5. OnceInv' BY DEF HttpTypeOK, OnceInv
  <2>6. ResponseInv' BY DEF HttpTypeOK, ResponseInv, RanFor
  <2> QED BY <2>2, <2>3, <2>4, <2>5, <2>6 DEF HttpInv
<1> QED BY <1>3, <1>4 DEF server_thread

LEMMA OneOf ==
  ASSUME NEW a
  PROVE  Append(<<>>, a) = <<a>> /\ <<a>>[1] = a /\ <<a>> # <<>> /\ Len(<<a>>) = 1
OBVIOUS

\* The connection that is served is closed, with or without a response.
LEMMA CloseKeeps ==
  ASSUME HttpInv, srv.pc \in {"recv", "submit"}, NEW c \in Clients, c = srv.client, NEW a,
         \/ response' = response
         \/ /\ response' = [response EXCEPT ![c] = Append(@, a)]
            /\ a.cmd # None => \E i \in RanFor(c) : a.cmd = carried[i].cmd
            /\ a.cmd = None /\ Sound(asks[c]) /\ c \notin gone =>
                 a = Meant(asks[c]) \/ (RanFor(c) = {} /\ (loop.shutting_down \/ asks[c].nomem)),
         conn' = [conn EXCEPT ![c] = "closed"],
         srv' = Closed,
         slot'.state = "empty",
         slot' \in [cmd : Ran \cup {None}, from : Clients \cup {"none"},
                   state : {"empty", "filled", "queued", "done", "refused"}],
         UNCHANGED <<asks, sent, gone, carried, loop, exited>>
  PROVE  HttpInv'
<1>0. HttpTypeOK /\ ServingInv /\ SentInv /\ CommandInv /\ OnceInv /\ DoneInv /\ ResponseInv
  BY DEF HttpInv
<1>1. conn[c] = "open" /\ conn \in [Clients -> {"none", "queued", "open", "closed"}]
  BY <1>0 DEF ServingInv, HttpTypeOK
<1>2. response[c] = <<>> /\ response = [b \in Clients |-> response[b]]
  BY <1>0, <1>1 DEF ResponseInv, HttpTypeOK
<1>3. /\ response' = [b \in Clients |-> response'[b]]
      /\ \A b \in Clients \ {c} : response'[b] = response[b]
      /\ response'[c] = <<>> \/ response'[c] = <<a>>
  BY <1>2, OneOf
<1>4. /\ conn' \in [Clients -> {"none", "queued", "open", "closed"}]
      /\ conn'[c] = "closed"
      /\ \A b \in Clients \ {c} : conn'[b] = conn[b]
  BY <1>1
<1>5. HttpTypeOK'
  <2>1. srv' \in [pc : {"select", "recv", "submit", "ended"}, client : Clients \cup {"none"}, n : Nat]
    BY DEF Closed
  <2>2. \A b \in Clients : response'[b] = <<>> \/ \E x : response'[b] = <<x>>
    <3> TAKE b \in Clients
    <3>1. response[b] = <<>> \/ \E x : response[b] = <<x>> BY <1>0 DEF HttpTypeOK
    <3> QED BY <1>3, <3>1
  <2> QED BY <1>0, <1>3, <1>4, <2>1, <2>2 DEF HttpTypeOK
<1>6. ServingInv' BY <1>0, <1>4 DEF ServingInv, Closed
<1>7. SentInv' BY <1>0 DEF SentInv
<1>8. CommandInv' BY <1>0 DEF CommandInv, Fits, Closed
<1>9. OnceInv'
  <2>0. carried \in Seq([cmd : Ran, from : Clients]) BY <1>0 DEF HttpTypeOK
  <2>1. ASSUME NEW i \in DOMAIN carried PROVE carried[i].from \in Clients
    <3>1. i \in 1 .. Len(carried) BY <2>0, LenProperties
    <3>2. carried[i] \in [cmd : Ran, from : Clients] BY <2>0, <3>1, ElementOfSeq
    <3> QED BY <3>2
  <2> QED BY <1>0, <1>4, <2>1 DEF OnceInv
<1>10. DoneInv' BY DEF DoneInv
<1>11. ResponseInv'
  <2> SUFFICES ASSUME NEW b \in Clients, response'[b] # <<>>
        PROVE  LET x == response'[b][1] IN
               /\ conn'[b] = "closed"
               /\ x.cmd # None => \E i \in RanFor(b) : x.cmd = carried[i].cmd
               /\ x.cmd = None /\ Sound(asks[b]) /\ b \notin gone =>
                    x = Meant(asks[b]) \/ (RanFor(b) = {} /\ (loop.shutting_down \/ asks[b].nomem))
    BY DEF ResponseInv, RanFor
  <2>1. CASE b = c
    <3>1. response'[c] = <<a>> /\ response'[c][1] = a BY <1>3, <2>1, OneOf
    <3>2. response' # response BY <1>2, <3>1, OneOf
    <3> QED BY <1>4, <2>1, <3>1, <3>2
  <2>2. CASE b # c
    <3>1. response'[b] = response[b] /\ conn'[b] = conn[b] BY <1>3, <1>4, <2>2
    <3> QED BY <1>0, <3>1 DEF ResponseInv
  <2> QED BY <2>1, <2>2
<1> QED BY <1>5, <1>6, <1>7, <1>8, <1>9, <1>10, <1>11 DEF HttpInv

\* What is routed: the whole request, unless its client has hung up.
LEMMA RoutedIsMeant ==
  ASSUME HttpInv, NEW c \in Clients, NEW n \in Nat, n <= sent[c],
         (Complete(asks[c], n) /\ n <= ReqMax) \/ c \in gone
  PROVE  /\ Sound(asks[c]) /\ c \notin gone => handle_request(asks[c], n) = Meant(asks[c])
         /\ handle_request(asks[c], n).cmd \in Ran
         /\ Fits(c, handle_request(asks[c], n).cmd)
<1>0. HttpTypeOK /\ SentInv BY DEF HttpInv
<1>1. asks[c].len \in Nat /\ asks[c].lines \in Nat /\ asks[c].body \in Seq(STRING)
  BY <1>0, Asked DEF HttpTypeOK
<1>2. sent[c] \in Nat /\ sent[c] <= Len(Bytes(asks[c])) BY <1>0 DEF SentInv, HttpTypeOK
<1>3. Len(Bytes(asks[c])) \in Nat BY <1>1, BytesOf, AllOf
<1>4. n <= Len(Bytes(asks[c])) BY <1>2, <1>3
<1>5. Sound(asks[c]) /\ c \notin gone => handle_request(asks[c], n) = Meant(asks[c])
  BY <1>1, <1>4, HandledWhole
<1>6. handle_request(asks[c], n).cmd \in Ran
  <2>1. asks \in Traffic BY <1>0 DEF HttpTypeOK
  <2>2. handle_request(asks[c], n).cmd \in CommandsOf(asks[c]) BY DEF CommandsOf
  <2>3. CommandsOf(asks[c]) \in {CommandsOf(t[b]) : t \in Traffic, b \in Clients} BY <2>1
  <2> QED BY <2>2, <2>3 DEF Ran
<1>7. Fits(c, handle_request(asks[c], n).cmd) BY <1>5, PathUnder DEF Fits
<1> QED BY <1>5, <1>6, <1>7

\* The cases of handle_client.
LEMMA HandleCases ==
  ASSUME HttpInv, handle_client
  PROVE  LET c == srv.client IN
         \/ \E n \in Nat : srv' = [srv EXCEPT !.n = n] /\ UNCHANGED <<response, conn, slot>>
         \/ /\ srv' = Closed /\ conn' = [conn EXCEPT ![c] = "closed"]
            /\ UNCHANGED <<response, slot>>
         \/ \E n \in Nat :
              /\ n <= sent[c] /\ ((Complete(asks[c], n) /\ n <= ReqMax) \/ c \in gone)
              /\ \/ /\ handle_request(asks[c], n).cmd = None
                    /\ Respond(c, handle_request(asks[c], n)) /\ UNCHANGED slot
                 \/ /\ handle_request(asks[c], n).cmd # None
                    /\ srv' = [srv EXCEPT !.pc = "submit", !.n = n]
                    /\ slot' = [cmd |-> handle_request(asks[c], n).cmd, from |-> c,
                                state |-> "filled"]
                    /\ UNCHANGED <<response, conn>>
<1>1. srv.n \in Nat /\ srv.client \in Clients /\ sent[srv.client] \in Nat
  BY DEF handle_client, HttpInv, HttpTypeOK, ServingInv
<1> DEFINE c == srv.client
           q == asks[c]
           drop == /\ srv' = Closed
                   /\ conn' = [conn EXCEPT ![c] = "closed"]
                   /\ UNCHANGED <<response, slot>>
           routed(n) ==
               IF handle_request(q, n).cmd = None
               THEN Respond(c, handle_request(q, n)) /\ UNCHANGED slot
               ELSE /\ srv' = [srv EXCEPT !.pc = "submit", !.n = n]
                    /\ slot' = [cmd |-> handle_request(q, n).cmd, from |-> c, state |-> "filled"]
                    /\ UNCHANGED <<response, conn>>
           over(n) == IF HeaderIn(q, n) THEN routed(n) ELSE drop
<1>2. \/ \E n \in (srv.n + 1) .. sent[c] :
           /\ n <= ReqMax
           /\ IF Complete(q, n) THEN over(n)
              ELSE srv' = [srv EXCEPT !.n = n] /\ UNCHANGED <<response, conn, slot>>
      \/ c \in gone /\ srv.n = sent[c] /\ over(srv.n)
  BY DEF handle_client
<1>3. \A n : over(n) => routed(n) \/ drop OBVIOUS
<1> HIDE DEF over, routed
<1>4. \/ \E n \in Nat : srv' = [srv EXCEPT !.n = n] /\ UNCHANGED <<response, conn, slot>>
      \/ drop
      \/ \E n \in Nat : /\ n <= sent[c] /\ ((Complete(q, n) /\ n <= ReqMax) \/ c \in gone)
                        /\ routed(n)
  BY <1>1, <1>2, <1>3
<1> QED BY <1>4 DEF routed

LEMMA HandleKeeps == HttpInv /\ handle_client => HttpInv'
<1> SUFFICES ASSUME HttpInv, handle_client PROVE HttpInv' OBVIOUS
<1>0. HttpTypeOK /\ ServingInv /\ SentInv /\ CommandInv /\ OnceInv /\ DoneInv /\ ResponseInv
  BY DEF HttpInv
<1>1. srv.pc = "recv" /\ UNCHANGED <<asks, sent, gone, carried, loop, exited>>
  BY DEF handle_client
<1>2. /\ srv.client \in Clients /\ slot.state = "empty"
      /\ srv \in [pc : {"select", "recv", "submit", "ended"}, client : Clients \cup {"none"}, n : Nat]
      /\ slot \in [cmd : Ran \cup {None}, from : Clients \cup {"none"},
                   state : {"empty", "filled", "queued", "done", "refused"}]
  BY <1>0, <1>1 DEF ServingInv, HttpTypeOK
<1>3. ASSUME NEW n \in Nat, srv' = [srv EXCEPT !.n = n], UNCHANGED <<response, conn, slot>>
      PROVE  HttpInv'
  <2>1. /\ srv' \in [pc : {"select", "recv", "submit", "ended"}, client : Clients \cup {"none"}, n : Nat]
        /\ srv'.pc = srv.pc /\ srv'.client = srv.client
    BY <1>2, <1>3
  <2> USE <1>0, <1>1, <1>3, <2>1
  <2>2. HttpTypeOK' BY DEF HttpTypeOK
  <2>3. ServingInv' BY DEF ServingInv
  <2>4. SentInv' /\ CommandInv' /\ DoneInv' BY DEF SentInv, CommandInv, Fits, DoneInv
  <2>5. OnceInv' BY DEF OnceInv
  <2>6. ResponseInv' BY DEF ResponseInv, RanFor
  <2> QED BY <2>2, <2>3, <2>4, <2>5, <2>6 DEF HttpInv
<1>4. CASE /\ srv' = Closed /\ conn' = [conn EXCEPT ![srv.client] = "closed"]
           /\ UNCHANGED <<response, slot>>
  BY <1>1, <1>2, <1>4, CloseKeeps
<1>5. ASSUME NEW n \in Nat, n <= sent[srv.client],
             (Complete(asks[srv.client], n) /\ n <= ReqMax) \/ srv.client \in gone,
             handle_request(asks[srv.client], n).cmd = None,
             Respond(srv.client, handle_request(asks[srv.client], n)), UNCHANGED slot
      PROVE  HttpInv'
  <2>1. PICK a : a = handle_request(asks[srv.client], n) OBVIOUS
  <2>2. a.cmd = None /\ (Sound(asks[srv.client]) /\ srv.client \notin gone => a = Meant(asks[srv.client]))
    BY <1>2, <1>5, <2>1, RoutedIsMeant
  <2>3. /\ response' = response \/ response' = [response EXCEPT ![srv.client] = Append(@, a)]
        /\ conn' = [conn EXCEPT ![srv.client] = "closed"] /\ srv' = Closed
    BY <1>5, <2>1 DEF Respond
  <2> QED BY <1>1, <1>2, <1>5, <2>2, <2>3, CloseKeeps
<1>6. ASSUME NEW n \in Nat, n <= sent[srv.client],
             (Complete(asks[srv.client], n) /\ n <= ReqMax) \/ srv.client \in gone,
             NEW m, m = handle_request(asks[srv.client], n).cmd, m # None,
             srv' = [srv EXCEPT !.pc = "submit", !.n = n],
             slot' = [cmd |-> m, from |-> srv.client, state |-> "filled"],
             UNCHANGED <<response, conn>>
      PROVE  HttpInv'
  <2>1. m \in Ran /\ Fits(srv.client, m) BY <1>2, <1>6, RoutedIsMeant
  <2>2. /\ srv' \in [pc : {"select", "recv", "submit", "ended"}, client : Clients \cup {"none"}, n : Nat]
        /\ srv'.pc = "submit" /\ srv'.client = srv.client
    BY <1>2, <1>6
  <2>3. /\ slot' \in [cmd : Ran \cup {None}, from : Clients \cup {"none"},
                     state : {"empty", "filled", "queued", "done", "refused"}]
        /\ slot'.cmd = m /\ slot'.from = srv.client /\ slot'.state = "filled"
    BY <1>2, <1>6, <2>1
  <2> USE <1>0, <1>1, <1>2
  <2>4. HttpTypeOK' BY <1>6, <2>2, <2>3 DEF HttpTypeOK
  <2>5. ServingInv' BY <1>6, <2>1, <2>2, <2>3 DEF ServingInv
  <2>6. SentInv' /\ DoneInv' BY <2>3 DEF SentInv, DoneInv
  <2>7. CommandInv' BY <2>1, <2>3 DEF CommandInv, Fits
  <2>8. OnceInv' BY <1>6, <2>2 DEF OnceInv
  <2>9. ResponseInv' BY <1>6 DEF ResponseInv, RanFor
  <2> QED BY <2>4, <2>5, <2>6, <2>7, <2>8, <2>9 DEF HttpInv
<1> QED BY <1>3, <1>4, <1>5, <1>6, HandleCases

LEMMA SubmitKeeps == HttpInv /\ control_queue_submit => HttpInv'
<1> SUFFICES ASSUME HttpInv, control_queue_submit PROVE HttpInv' OBVIOUS
<1>0. HttpTypeOK /\ ServingInv /\ SentInv /\ CommandInv /\ OnceInv /\ DoneInv /\ ResponseInv
  BY DEF HttpInv
<1>1. /\ srv.pc = "submit" /\ slot.state = "filled"
      /\ slot' = [slot EXCEPT !.state = IF loop.shutting_down \/ asks[slot.from].nomem
                                        THEN "refused" ELSE "queued"]
      /\ UNCHANGED <<asks, conn, sent, gone, response, srv, carried, loop, exited>>
  BY DEF control_queue_submit
<1>2. slot \in [cmd : Ran \cup {None}, from : Clients \cup {"none"},
               state : {"empty", "filled", "queued", "done", "refused"}]
  BY <1>0 DEF HttpTypeOK
<1>3. /\ slot' \in [cmd : Ran \cup {None}, from : Clients \cup {"none"},
                   state : {"empty", "filled", "queued", "done", "refused"}]
      /\ slot'.cmd = slot.cmd /\ slot'.from = slot.from
      /\ slot'.state = IF loop.shutting_down \/ asks[slot.from].nomem
                                        THEN "refused" ELSE "queued"
  BY <1>1, <1>2
<1> USE <1>0, <1>1, <1>3
<1>4. HttpTypeOK' BY DEF HttpTypeOK
<1>5. ServingInv' BY DEF ServingInv
<1>6. SentInv' /\ DoneInv' BY DEF SentInv, DoneInv
<1>7. CommandInv' BY DEF CommandInv, Fits
<1>8. OnceInv' BY DEF OnceInv
<1>9. ResponseInv' BY DEF ResponseInv, RanFor
<1> QED BY <1>4, <1>5, <1>6, <1>7, <1>8, <1>9 DEF HttpInv

LEMMA ReplyKeeps == HttpInv /\ respond_reply => HttpInv'
<1> SUFFICES ASSUME HttpInv, respond_reply PROVE HttpInv' OBVIOUS
<1>0. HttpTypeOK /\ ServingInv /\ CommandInv /\ OnceInv /\ DoneInv BY DEF HttpInv
<1>1. /\ srv.pc = "submit" /\ slot.state \in {"done", "refused"}
      /\ slot' = [cmd |-> None, from |-> "none", state |-> "empty"]
      /\ UNCHANGED <<asks, sent, gone, carried, loop, exited>>
  BY DEF respond_reply
<1>2. srv.client \in Clients /\ slot.from = srv.client /\ slot.cmd # None
  BY <1>0, <1>1 DEF ServingInv
<1>3. PICK status, a :
        /\ a = [status |-> status, cmd |-> IF slot.state = "done" THEN slot.cmd ELSE None]
        /\ Respond(srv.client, a)
  BY DEF respond_reply
<1>4. /\ response' = response \/ response' = [response EXCEPT ![srv.client] = Append(@, a)]
      /\ conn' = [conn EXCEPT ![srv.client] = "closed"] /\ srv' = Closed
  BY <1>3 DEF Respond
<1>5. CASE slot.state = "done"
  <2>1. PICK i \in DOMAIN carried : carried[i].from = srv.client BY <1>0, <1>2, <1>5 DEF DoneInv
  <2>2. conn[srv.client] = "open" BY <1>0, <1>1, <1>2 DEF ServingInv
  <2>3. carried[i].cmd = slot.cmd BY <1>0, <2>1, <2>2 DEF OnceInv
  <2>4. a.cmd = slot.cmd BY <1>3, <1>5
  <2>5. \E j \in RanFor(srv.client) : a.cmd = carried[j].cmd BY <2>1, <2>3, <2>4 DEF RanFor
  <2> QED BY <1>1, <1>2, <1>4, <2>4, <2>5, CloseKeeps
<1>6. CASE slot.state = "refused"
  <2>1. loop.shutting_down \/ asks[srv.client].nomem BY <1>0, <1>2, <1>6 DEF ServingInv
  <2>2. RanFor(srv.client) = {}
    <3>1. conn[srv.client] = "open" BY <1>0, <1>1, <1>2 DEF ServingInv
    <3> QED BY <1>0, <1>6, <3>1 DEF OnceInv, RanFor
  <2>3. a.cmd = None BY <1>3, <1>6
  <2> QED BY <1>1, <1>2, <1>4, <2>1, <2>2, <2>3, CloseKeeps
<1> QED BY <1>1, <1>5, <1>6

\* The frame's end runs the command that waits, if any.
LEMMA FrameKeeps == HttpInv /\ Frame => HttpInv'
<1> SUFFICES ASSUME HttpInv, Frame PROVE HttpInv' OBVIOUS
<1>0. HttpTypeOK /\ ServingInv /\ SentInv /\ CommandInv /\ OnceInv /\ DoneInv /\ ResponseInv
  BY DEF HttpInv
<1>1. /\ loop' = [loop EXCEPT !.pc = "events"]
      /\ UNCHANGED <<asks, conn, sent, gone, response, srv, exited>>
  BY DEF Frame
<1>2. /\ loop' \in [pc : {"frame", "events", "leaving", "stopping", "joining", "over"},
                   menu : BOOLEAN, shutting_down : BOOLEAN, running : BOOLEAN, freezes : Nat]
      /\ loop'.shutting_down = loop.shutting_down
  BY <1>0, <1>1 DEF HttpTypeOK
<1>3. CASE UNCHANGED <<carried, slot>>
  <2> USE <1>0, <1>1, <1>2, <1>3
  <2>1. HttpTypeOK' BY DEF HttpTypeOK
  <2>2. ServingInv' BY DEF ServingInv
  <2>3. SentInv' /\ CommandInv' /\ OnceInv' /\ DoneInv'
    BY DEF SentInv, CommandInv, Fits, OnceInv, DoneInv
  <2>4. ResponseInv' BY DEF ResponseInv, RanFor
  <2> QED BY <2>1, <2>2, <2>3, <2>4 DEF HttpInv
<1>4. CASE slot.state = "queued" /\ ~ UNCHANGED <<carried, slot>>
  <2>1. /\ carried' = Append(carried, [cmd |-> slot.cmd, from |-> slot.from])
        /\ slot' = [slot EXCEPT !.state = "done"]
    BY <1>4 DEF Frame
  <2>2. srv.pc = "submit" /\ slot.from = srv.client /\ srv.client \in Clients /\ slot.cmd \in Ran \ {None}
        /\ conn[srv.client] = "open"
    BY <1>0, <1>4 DEF ServingInv
  <2>3. slot \in [cmd : Ran \cup {None}, from : Clients \cup {"none"},
                 state : {"empty", "filled", "queued", "done", "refused"}]
        /\ carried \in Seq([cmd : Ran, from : Clients])
    BY <1>0 DEF HttpTypeOK
  <2>4. /\ slot' \in [cmd : Ran \cup {None}, from : Clients \cup {"none"},
                     state : {"empty", "filled", "queued", "done", "refused"}]
        /\ slot'.cmd = slot.cmd /\ slot'.from = slot.from /\ slot'.state = "done"
    BY <2>1, <2>3
  <2>5. PICK r : r = [cmd |-> slot.cmd, from |-> slot.from] OBVIOUS
  <2>6. r \in [cmd : Ran, from : Clients] /\ r.cmd = slot.cmd /\ r.from = srv.client
    BY <2>2, <2>5
  <2>7. /\ carried' \in Seq([cmd : Ran, from : Clients]) /\ Len(carried) \in Nat
        /\ DOMAIN carried = 1 .. Len(carried) /\ DOMAIN carried' = 1 .. (Len(carried) + 1)
        /\ \A i \in DOMAIN carried : carried'[i] = carried[i]
        /\ carried'[Len(carried) + 1] = r
    BY <2>1, <2>3, <2>5, <2>6
  <2>8. \A i \in DOMAIN carried' : (i \in DOMAIN carried /\ carried'[i] = carried[i]) \/ i = Len(carried) + 1
    BY <2>7
  <2>9. \A i \in DOMAIN carried : carried[i].from # srv.client
    BY <1>0, <1>4, <2>2 DEF OnceInv
  <2>10. HttpTypeOK' BY <1>0, <1>1, <1>2, <2>4, <2>7 DEF HttpTypeOK
  <2>11. ServingInv' BY <1>0, <1>1, <1>2, <2>2, <2>4 DEF ServingInv
  <2>12. SentInv' BY <1>0, <1>1 DEF SentInv
  <2>13. CommandInv'
    <3>1. Fits(slot.from, slot.cmd) BY <1>0, <2>2 DEF CommandInv
    <3>2. \A c, m : Fits(c, m) => Fits(c, m)' BY <1>1 DEF Fits
    <3>3. \A i \in DOMAIN carried' : Fits(carried'[i].from, carried'[i].cmd)
      BY <1>0, <2>2, <2>6, <2>7, <2>8, <3>1 DEF CommandInv
    <3>4. Fits(slot'.from, slot'.cmd) BY <2>4, <3>1
    <3> QED BY <1>1, <3>3, <3>4 DEF CommandInv, Fits
  <2>14. OnceInv'
    <3> SUFFICES ASSUME NEW i \in DOMAIN carried'
          PROVE  /\ \A j \in DOMAIN carried' : carried'[i].from = carried'[j].from => i = j
                 /\ \/ conn[carried'[i].from] = "closed"
                    \/ /\ srv.pc = "submit" /\ srv.client = carried'[i].from
                       /\ slot'.state = "done" /\ slot'.cmd = carried'[i].cmd
      BY <1>1 DEF OnceInv
    <3>1. CASE i \in DOMAIN carried /\ carried'[i] = carried[i]
      <4>1. \A j \in DOMAIN carried' : carried'[i].from = carried'[j].from => i = j
        BY <1>0, <2>6, <2>7, <2>8, <2>9, <3>1 DEF OnceInv
      <4>2. conn[carried[i].from] = "closed" BY <1>0, <1>4, <3>1 DEF OnceInv
      <4> QED BY <3>1, <4>1, <4>2
    <3>2. CASE i = Len(carried) + 1
      <4>1. \A j \in DOMAIN carried' : carried'[i].from = carried'[j].from => i = j
        BY <2>6, <2>7, <2>8, <2>9, <3>2
      <4> QED BY <2>2, <2>4, <2>6, <2>7, <3>2, <4>1
    <3> QED BY <2>8, <3>1, <3>2
  <2>15. DoneInv' BY <2>2, <2>4, <2>6, <2>7 DEF DoneInv
  <2>16. ResponseInv'
    <3>1. \A c \in Clients : conn[c] = "closed" => RanFor(c)' = RanFor(c)
      BY <2>2, <2>6, <2>7, <2>8 DEF RanFor
    <3>2. \A c \in Clients : \A i \in RanFor(c) : carried'[i] = carried[i] BY <2>7 DEF RanFor
    <3> SUFFICES ASSUME NEW c \in Clients, response[c] # <<>>
          PROVE  LET a == response[c][1] IN
                 /\ conn[c] = "closed"
                 /\ a.cmd # None => \E i \in RanFor(c)' : a.cmd = carried'[i].cmd
                 /\ a.cmd = None /\ Sound(asks[c]) /\ c \notin gone =>
                      a = Meant(asks[c]) \/ (RanFor(c)' = {} /\ (loop'.shutting_down \/ asks[c].nomem))
      BY <1>1 DEF ResponseInv
    <3>3. RanFor(c)' = RanFor(c) BY <1>0, <3>1 DEF ResponseInv
    <3> QED BY <1>0, <1>2, <3>2, <3>3 DEF ResponseInv
  <2> QED BY <2>10, <2>11, <2>12, <2>13, <2>14, <2>15, <2>16 DEF HttpInv
<1> QED BY <1>3, <1>4 DEF Frame

\* The user's events and the order to stop leave the queue alone.
LEMMA LoopKeeps ==
  ASSUME HttpInv,
         loop' \in [pc : {"frame", "events", "leaving", "stopping", "joining", "over"},
                   menu : BOOLEAN, shutting_down : BOOLEAN, running : BOOLEAN, freezes : Nat],
         loop'.shutting_down = loop.shutting_down,
         UNCHANGED <<asks, conn, sent, gone, response, srv, slot, carried, exited>>
  PROVE  HttpInv'
<1>0. HttpTypeOK /\ ServingInv /\ SentInv /\ CommandInv /\ OnceInv /\ DoneInv /\ ResponseInv
  BY DEF HttpInv
<1>1. HttpTypeOK' BY <1>0 DEF HttpTypeOK
<1>2. ServingInv' BY <1>0 DEF ServingInv
<1>3. SentInv' /\ CommandInv' /\ OnceInv' /\ DoneInv'
  BY <1>0 DEF SentInv, CommandInv, Fits, OnceInv, DoneInv
<1>4. ResponseInv' BY <1>0 DEF ResponseInv, RanFor
<1> QED BY <1>1, <1>2, <1>3, <1>4 DEF HttpInv

LEMMA EventsKeep == HttpInv /\ Events => HttpInv'
<1> SUFFICES ASSUME HttpInv, Events PROVE HttpInv' OBVIOUS
<1>1. loop \in [pc : {"frame", "events", "leaving", "stopping", "joining", "over"},
               menu : BOOLEAN, shutting_down : BOOLEAN, running : BOOLEAN, freezes : Nat]
  BY DEF HttpInv, HttpTypeOK
<1>2. UNCHANGED <<asks, conn, sent, gone, response, srv, slot, carried, exited>> BY DEF Events
<1>3. CASE loop' = [loop EXCEPT !.pc = "frame"] BY <1>1, <1>2, <1>3, LoopKeeps
<1>4. CASE loop' = [loop EXCEPT !.pc = "leaving"] BY <1>1, <1>2, <1>4, LoopKeeps
<1>5. CASE /\ loop.menu \/ loop.freezes > 0
           /\ loop' = [loop EXCEPT !.pc = "frame", !.menu = ~@,
                         !.freezes = IF loop.menu THEN @ ELSE @ - 1]
  <2>1. PICK k \in Nat : k = IF loop.menu THEN loop.freezes ELSE loop.freezes - 1 BY <1>1, <1>5
  <2>2. loop' = [loop EXCEPT !.pc = "frame", !.menu = ~loop.menu, !.freezes = k]
    BY <1>5, <2>1
  <2> QED BY <1>1, <1>2, <2>2, LoopKeeps
<1> QED BY <1>3, <1>4, <1>5 DEF Events

LEMMA CloseQueueKeeps == HttpInv /\ CloseQueue => HttpInv'
<1> SUFFICES ASSUME HttpInv, CloseQueue PROVE HttpInv' OBVIOUS
<1>0. HttpTypeOK /\ ServingInv /\ SentInv /\ CommandInv /\ OnceInv /\ DoneInv /\ ResponseInv
  BY DEF HttpInv
<1>1. /\ loop' = [loop EXCEPT !.pc = "stopping", !.shutting_down = TRUE]
      /\ slot' = [slot EXCEPT !.state = IF @ = "queued" THEN "refused" ELSE @]
      /\ UNCHANGED <<asks, conn, sent, gone, response, srv, carried, exited>>
  BY DEF CloseQueue
<1>2. /\ loop' \in [pc : {"frame", "events", "leaving", "stopping", "joining", "over"},
                   menu : BOOLEAN, shutting_down : BOOLEAN, running : BOOLEAN, freezes : Nat]
      /\ loop'.shutting_down = TRUE
  BY <1>0, <1>1 DEF HttpTypeOK
<1>3. slot \in [cmd : Ran \cup {None}, from : Clients \cup {"none"},
               state : {"empty", "filled", "queued", "done", "refused"}]
  BY <1>0 DEF HttpTypeOK
<1>4. /\ slot' \in [cmd : Ran \cup {None}, from : Clients \cup {"none"},
                   state : {"empty", "filled", "queued", "done", "refused"}]
      /\ slot'.cmd = slot.cmd /\ slot'.from = slot.from
      /\ slot'.state = slot.state \/ (slot.state = "queued" /\ slot'.state = "refused")
  BY <1>1, <1>3
<1>5. HttpTypeOK' BY <1>0, <1>1, <1>2, <1>4 DEF HttpTypeOK
<1>6. ServingInv' BY <1>0, <1>1, <1>2, <1>4 DEF ServingInv
<1>7. SentInv' /\ CommandInv' BY <1>0, <1>1, <1>4 DEF SentInv, CommandInv, Fits
<1>8. OnceInv' /\ DoneInv' BY <1>0, <1>1, <1>4 DEF OnceInv, DoneInv
<1>9. ResponseInv' BY <1>0, <1>1, <1>2 DEF ResponseInv, RanFor
<1> QED BY <1>5, <1>6, <1>7, <1>8, <1>9 DEF HttpInv

LEMMA StopKeeps == HttpInv /\ StopServer => HttpInv'
<1> SUFFICES ASSUME HttpInv, StopServer PROVE HttpInv' OBVIOUS
<1>0. HttpTypeOK /\ ServingInv /\ SentInv /\ CommandInv /\ OnceInv /\ DoneInv /\ ResponseInv
  BY DEF HttpInv
<1>1. loop \in [pc : {"frame", "events", "leaving", "stopping", "joining", "over"},
               menu : BOOLEAN, shutting_down : BOOLEAN, running : BOOLEAN, freezes : Nat]
  BY <1>0 DEF HttpTypeOK
<1>2. CASE loop' = [loop EXCEPT !.pc = "joining", !.running = FALSE] /\ UNCHANGED exited
           /\ UNCHANGED <<asks, conn, sent, gone, response, srv, slot, carried>>
  BY <1>1, <1>2, LoopKeeps
<1>3. CASE /\ loop' = [loop EXCEPT !.pc = "over"]
           /\ conn' = [c \in Clients |-> IF conn[c] = "queued" THEN "closed" ELSE conn[c]]
           /\ exited' = TRUE
           /\ UNCHANGED <<asks, sent, gone, response, srv, slot, carried>>
  <2>1. /\ loop' \in [pc : {"frame", "events", "leaving", "stopping", "joining", "over"},
                     menu : BOOLEAN, shutting_down : BOOLEAN, running : BOOLEAN, freezes : Nat]
        /\ loop'.shutting_down = loop.shutting_down
    BY <1>1, <1>3
  <2>2. \A c \in Clients : /\ conn'[c] = "open" <=> conn[c] = "open"
                           /\ conn[c] = "closed" => conn'[c] = "closed"
    BY <1>3
  <2>3. conn' \in [Clients -> {"none", "queued", "open", "closed"}]
    BY <1>0, <1>3 DEF HttpTypeOK
  <2>4. HttpTypeOK' BY <1>0, <1>3, <2>1, <2>3 DEF HttpTypeOK
  <2>5. ServingInv' BY <1>0, <1>3, <2>1, <2>2 DEF ServingInv
  <2>6. SentInv' /\ CommandInv' /\ DoneInv' BY <1>0, <1>3 DEF SentInv, CommandInv, Fits, DoneInv
  <2>7. OnceInv'
    <3>0. carried \in Seq([cmd : Ran, from : Clients]) BY <1>0 DEF HttpTypeOK
    <3>1. \A i \in DOMAIN carried : carried[i].from \in Clients
      <4> TAKE i \in DOMAIN carried
      <4>1. i \in 1 .. Len(carried) BY <3>0, LenProperties
      <4>2. carried[i] \in [cmd : Ran, from : Clients] BY <3>0, <4>1, ElementOfSeq
      <4> QED BY <4>2
    <3> QED BY <1>0, <1>3, <2>2, <3>1 DEF OnceInv
  <2>8. ResponseInv' BY <1>0, <1>3, <2>1, <2>2 DEF ResponseInv, RanFor
  <2> QED BY <2>4, <2>5, <2>6, <2>7, <2>8 DEF HttpInv
<1> QED BY <1>2, <1>3 DEF StopServer

\* The inductive invariant of the HTTP server.
THEOREM HttpHolds == HttpSpec => []HttpInv
<1>1. ASSUME HttpInv, [HttpNext]_httpVars PROVE HttpInv'
  <2>1. CASE \E c \in Clients : Connect(c) \/ Send(c) \/ HangUp(c)
    BY <1>1, <2>1, ClientKeeps
  <2>2. CASE ServerThread
    BY <1>1, <2>2, SelectKeeps, HandleKeeps, SubmitKeeps, ReplyKeeps DEF ServerThread
  <2>3. CASE MainThread
    BY <1>1, <2>3, FrameKeeps, EventsKeep, CloseQueueKeeps, StopKeeps DEF MainThread
  <2>4. CASE UNCHANGED httpVars
    <3>1. loop \in [pc : {"frame", "events", "leaving", "stopping", "joining", "over"},
                   menu : BOOLEAN, shutting_down : BOOLEAN, running : BOOLEAN, freezes : Nat]
      BY <1>1 DEF HttpInv, HttpTypeOK
    <3> QED BY <1>1, <2>4, <3>1, LoopKeeps DEF httpVars
  <2> QED BY <1>1, <2>1, <2>2, <2>3, <2>4 DEF HttpNext, Gone
<1> QED BY HttpStart, <1>1, PTL DEF HttpSpec

\* However the bytes of the requests arrive, whoever hangs up and whenever the
\* emulator is left: a command runs at most once for a connection, is what the
\* whole request asks for, never with a path outside the root, and the client
\* gets at most one response, its own (handle_client, route, respond_reply).
THEOREM HttpHonours == HttpSpec => []RequestsAreHonoured
<1>1. HttpInv => RequestsAreHonoured
  <2> SUFFICES ASSUME HttpInv, NEW c \in Clients
        PROVE  /\ \A i, j \in RanFor(c) : i = j
               /\ \A i \in RanFor(c) :
                    /\ "path" \in carried[i].cmd.args => asks[c].where = "under"
                    /\ Sound(asks[c]) /\ c \notin gone => carried[i].cmd = Meant(asks[c]).cmd
               /\ Len(response[c]) <= 1
               /\ response[c] # <<>> =>
                    LET a == response[c][1] IN
                    /\ a.cmd # None => \E i \in RanFor(c) : a.cmd = carried[i].cmd
                    /\ a.cmd = None /\ Sound(asks[c]) /\ c \notin gone =>
                         \/ a = Meant(asks[c])
                         \/ RanFor(c) = {} /\ (loop.shutting_down \/ asks[c].nomem)
    BY DEF RequestsAreHonoured
  <2>0. HttpTypeOK /\ CommandInv /\ OnceInv /\ ResponseInv BY DEF HttpInv
  <2>1. \A i, j \in RanFor(c) : i = j BY <2>0 DEF OnceInv, RanFor
  <2>2. \A i \in RanFor(c) : Fits(c, carried[i].cmd) BY <2>0 DEF CommandInv, RanFor
  <2>3. Len(response[c]) <= 1
    <3>1. CASE response[c] = <<>> BY <3>1
    <3>2. CASE \E a : response[c] = <<a>> BY <3>2, OneOf
    <3> QED BY <2>0, <3>1, <3>2 DEF HttpTypeOK
  <2> QED BY <2>0, <2>1, <2>2, <2>3 DEF Fits, ResponseInv
<1> QED BY <1>1, HttpHolds, PTL

=============================================================================
