------------------------------- MODULE Rpc_proofs -------------------------------
(***************************************************************************)
(* For any number of calls and any capacity: the methods of the handle are *)
(* atomic calls, old requests never take effect late, and events find a    *)
(* receiver.                                                               *)
(***************************************************************************)
EXTENDS Startup, TLAPS

LEMMA EmptyQueue == ASSUME queue = <<>> PROVE \A c : ~Queued(c)
  BY DEF Queued

\* What leaving the line does to it.
LEMMA LeavesLine ==
  ASSUME TypeOK, NEW c \in Call, Leaves(c)
  PROVE  /\ room' \in Seq(Call)
         /\ \A i, j \in DOMAIN room' : room'[i] = room'[j] => i = j
         /\ \A i \in DOMAIN room' : room'[i] # c /\ phase[room'[i]] = "room"
<1>1. PICK k \in DOMAIN room :
        /\ room[k] = c
        /\ room' = [j \in 1..(Len(room) - 1) |-> room[IF j < k THEN j ELSE j + 1]]
  BY DEF Leaves
<1>2. room \in Seq(Call) /\ Len(room) \in Nat /\ DOMAIN room = 1..Len(room) /\ k \in 1..Len(room)
  BY DEF TypeOK, Types
<1>3. Len(room) - 1 \in Nat
  BY <1>2
<1>4. DOMAIN room' = 1..(Len(room) - 1)
  BY <1>1
<1> DEFINE from(j) == IF j < k THEN j ELSE j + 1
<1>5. \A j \in DOMAIN room' : from(j) \in DOMAIN room /\ room'[j] = room[from(j)] /\ from(j) # k
  BY <1>1, <1>2, <1>4
<1>6. \A i, j \in DOMAIN room' : from(i) = from(j) => i = j
  BY <1>2, <1>4
<1>7. \A i, j \in DOMAIN room : room[i] = room[j] => i = j
  BY DEF TypeOK, OnePlace
<1>8. \A i \in DOMAIN room : phase[room[i]] = "room"
  BY DEF TypeOK, OnePlace
<1>9. room' \in Seq(Call)
  <2>1. \A j \in 1..(Len(room) - 1) : room[IF j < k THEN j ELSE j + 1] \in Call
    BY <1>2
  <2> QED
    BY <1>1, <1>3, <2>1
<1> HIDE DEF from
<1> QED
  BY <1>1, <1>5, <1>6, <1>7, <1>8, <1>9

\* What entering the queue does to it.
LEMMA EnqueueAppends ==
  ASSUME TypeOK, NEW c \in Call, ~Queued(c), Enqueue(c)
  PROVE  /\ queue' \in Seq(Call)
         /\ \A i, j \in DOMAIN queue' : queue'[i] = queue'[j] => i = j
         /\ \A d : Queued(d)' <=> Queued(d) \/ d = c
         /\ phase' = [phase EXCEPT ![c] = "sent"]
         /\ \A i \in DOMAIN queue' : \/ i \in DOMAIN queue /\ queue'[i] = queue[i]
                                     \/ i = Len(queue) + 1 /\ queue'[i] = c
<1>1. queue \in Seq(Call) /\ Len(queue) \in Nat /\ DOMAIN queue = 1..Len(queue)
  BY DEF TypeOK, Types
<1>2. /\ queue' \in Seq(Call) /\ DOMAIN queue' = 1..(Len(queue) + 1)
      /\ \A i \in DOMAIN queue : i \in DOMAIN queue' /\ queue'[i] = queue[i]
      /\ Len(queue) + 1 \in DOMAIN queue' /\ queue'[Len(queue) + 1] = c
  BY <1>1 DEF Enqueue
<1>3. \A i \in DOMAIN queue' : \/ i \in DOMAIN queue /\ queue'[i] = queue[i]
                               \/ i = Len(queue) + 1 /\ queue'[i] = c
  BY <1>1, <1>2
<1>4. \A d : Queued(d)' <=> Queued(d) \/ d = c
  BY <1>2, <1>3 DEF Queued
<1>5. \A i, j \in DOMAIN queue : queue[i] = queue[j] => i = j
  BY DEF TypeOK, OnePlace
<1>6. \A i, j \in DOMAIN queue' : queue'[i] = queue'[j] => i = j
  BY <1>3, <1>5 DEF Queued
<1> QED
  BY <1>2, <1>3, <1>4, <1>6 DEF Enqueue, Turns

\* What taking the first request out does to the queue.
LEMMA TailShifts ==
  ASSUME TypeOK, queue # <<>>, queue' = Tail(queue)
  PROVE  /\ queue' \in Seq(Call) /\ Head(queue) \in Call /\ Queued(Head(queue))
         /\ \A i, j \in DOMAIN queue' : queue'[i] = queue'[j] => i = j
         /\ \A d : Queued(d)' <=> Queued(d) /\ d # Head(queue)
         /\ Head(queue) = queue[1] /\ 1 \in DOMAIN queue
         /\ \A i \in DOMAIN queue' :
              i \in Nat /\ i > 0 /\ i + 1 \in DOMAIN queue /\ queue'[i] = queue[i + 1]
<1>1. /\ queue \in Seq(Call) /\ Len(queue) \in Nat /\ DOMAIN queue = 1..Len(queue)
      /\ Len(queue) > 0 /\ Head(queue) = queue[1] /\ 1 \in DOMAIN queue /\ Head(queue) \in Call
  BY DEF TypeOK, Types
<1>2. /\ queue' \in Seq(Call) /\ DOMAIN queue' = 1..(Len(queue) - 1)
      /\ \A i \in DOMAIN queue' : queue'[i] = queue[i + 1]
  BY <1>1
<1>3. \A i \in DOMAIN queue' : i \in Nat /\ i > 0 /\ i + 1 \in DOMAIN queue
  BY <1>1, <1>2
<1>4. \A i \in DOMAIN queue : i # 1 => i - 1 \in DOMAIN queue' /\ queue'[i - 1] = queue[i]
  <2> SUFFICES ASSUME NEW i \in DOMAIN queue, i # 1
               PROVE  i - 1 \in DOMAIN queue' /\ queue'[i - 1] = queue[i]
    OBVIOUS
  <2>1. i - 1 \in DOMAIN queue' /\ (i - 1) + 1 = i
    BY <1>1, <1>2
  <2> QED
    BY <1>2, <2>1
<1>5. \A i, j \in DOMAIN queue : queue[i] = queue[j] => i = j
  BY DEF TypeOK, OnePlace
<1>6. \A i, j \in DOMAIN queue' : queue'[i] = queue'[j] => i = j
  <2> SUFFICES ASSUME NEW i \in DOMAIN queue', NEW j \in DOMAIN queue', queue'[i] = queue'[j]
               PROVE  i = j
    OBVIOUS
  <2>1. i + 1 = j + 1
    BY <1>2, <1>3, <1>5
  <2> QED
    BY <2>1, <1>3
<1>7. \A i \in DOMAIN queue' : i + 1 # 1
  BY <1>3
<1>8. ASSUME NEW d PROVE Queued(d)' <=> Queued(d) /\ d # Head(queue)
  <2>1. ASSUME Queued(d)' PROVE Queued(d) /\ d # Head(queue)
    <3>1. PICK i \in DOMAIN queue' : queue'[i] = d
      BY <2>1 DEF Queued
    <3>2. i + 1 \in DOMAIN queue /\ queue[i + 1] = d /\ queue[i + 1] # queue[1]
      BY <1>1, <1>2, <1>3, <1>5, <1>7, <3>1
    <3> QED
      BY <1>1, <3>2 DEF Queued
  <2>2. ASSUME Queued(d), d # Head(queue) PROVE Queued(d)'
    BY <1>1, <1>4, <2>2 DEF Queued
  <2> QED
    BY <2>1, <2>2
<1> QED
  BY <1>1, <1>2, <1>3, <1>6, <1>8 DEF Queued

LEMMA TypeStep == TypeOK /\ [Next]_vars => TypeOK'
<1> SUFFICES ASSUME TypeOK, [Next]_vars PROVE TypeOK'
  OBVIOUS
<1> USE DEF TypeOK, Open, Ended
<1>1. ASSUME NEW c \in Call, Begin(c) PROVE TypeOK'
  <2>1. /\ phase[c] = "idle" /\ ~Queued(c) /\ answer[c] = "open" /\ c \notin done
        /\ \A i \in DOMAIN room : room[i] # c
    BY <1>1 DEF Begin, Types, OnePlace
  <2>2. CASE Turns(c, "failed") /\ UNCHANGED <<room, queue>>
    BY <1>1, <2>1, <2>2 DEF Begin, Turns, Types, OnePlace, Queued
  <2>3. CASE Enqueue(c) /\ UNCHANGED room
    <3>1. /\ queue' \in Seq(Call) /\ phase' = [phase EXCEPT ![c] = "sent"]
          /\ \A i, j \in DOMAIN queue' : queue'[i] = queue'[j] => i = j
          /\ \A d : Queued(d)' <=> Queued(d) \/ d = c
      BY <2>1, <2>3, EnqueueAppends
    <3>2. UNCHANGED <<handle, room, answer, task, stop, pending, cut_short, done>>
      BY <1>1, <2>3 DEF Begin
    <3>3. before' \in [Call -> SUBSET Call]
      BY <1>1 DEF Begin, Types
    <3>4. Types'
      BY <3>1, <3>2, <3>3 DEF Types
    <3>5. OnePlace'
      BY <2>1, <3>1, <3>2 DEF Types, OnePlace
    <3> QED
      BY <3>4, <3>5
  <2>4. CASE Turns(c, "room") /\ room' = Append(room, c) /\ UNCHANGED queue
    <3>1. room \in Seq(Call) /\ Len(room) \in Nat /\ DOMAIN room = 1..Len(room)
      BY DEF Types
    <3>2. /\ room' \in Seq(Call) /\ DOMAIN room' = 1..(Len(room) + 1)
          /\ \A i \in DOMAIN room : room'[i] = room[i]
          /\ room'[Len(room) + 1] = c
      BY <2>4, <3>1
    <3>3. \A i \in DOMAIN room' : i \in DOMAIN room \/ i = Len(room) + 1
      BY <3>1, <3>2
    <3> QED
      BY <1>1, <2>1, <2>4, <3>2, <3>3 DEF Begin, Turns, Types, OnePlace, Queued
  <2> QED
    BY <1>1, <2>2, <2>3, <2>4 DEF Begin
<1>2. ASSUME NEW c \in Call, Enter(c) PROVE TypeOK'
  <2>1. Leaves(c) /\ Enqueue(c) /\ phase[c] = "room" /\ ~Queued(c)
    BY <1>2 DEF Enter, OnePlace
  <2> QED
    <3>1. /\ queue' \in Seq(Call) /\ phase' = [phase EXCEPT ![c] = "sent"]
          /\ \A i, j \in DOMAIN queue' : queue'[i] = queue'[j] => i = j
          /\ \A d : Queued(d)' <=> Queued(d) \/ d = c
      BY <2>1, EnqueueAppends
    <3>2. UNCHANGED <<handle, answer, before, task, stop, pending, cut_short, done>>
      BY <1>2 DEF Enter
    <3>3. /\ room' \in Seq(Call)
          /\ \A i, j \in DOMAIN room' : room'[i] = room'[j] => i = j
          /\ \A i \in DOMAIN room' : room'[i] # c /\ phase[room'[i]] = "room"
      BY <2>1, LeavesLine
    <3>4. Types'
      BY <3>1, <3>2, <3>3 DEF Types
    <3>5. OnePlace'
      BY <2>1, <3>1, <3>2, <3>3 DEF Types, OnePlace
    <3> QED
      BY <3>4, <3>5
<1>3. ASSUME NEW c \in Call, SendFails(c) PROVE TypeOK'
  BY <1>3, LeavesLine DEF SendFails, Turns, Types, OnePlace, Queued
<1>4. ASSUME NEW c \in Call, Return(c) PROVE TypeOK'
  BY <1>4 DEF Return, Turns, Types, OnePlace, Queued
<1>5. ASSUME NEW c \in Call, Abandon(c) PROVE TypeOK'
  <2>1. CASE phase[c] = "room"
    BY <1>5, <2>1, LeavesLine DEF Abandon, Turns, Types, OnePlace, Queued
  <2>2. CASE phase[c] = "sent"
    BY <1>5, <2>2 DEF Abandon, Turns, Types, OnePlace, Queued
  <2> QED
    BY <1>5, <2>1, <2>2 DEF Abandon
<1>6. CASE Subscribe \/ Join \/ Joined \/ JoinAbandoned \/ Drop
  BY <1>6 DEF Subscribe, Join, Joined, JoinAbandoned, Drop, HandleBecomes, callers,
              Types, OnePlace, Queued
<1>7. ASSUME Over, UNCHANGED <<handle, phase, room, before, stop, pending, cut_short, done>>
      PROVE  TypeOK'
  <2>1. queue' = <<>> /\ queue' \in Seq(Call) /\ \A c \in Call : ~Queued(c)'
    BY <1>7 DEF Over, Queued
  <2>2. \A c \in Call : answer'[c] = IF Queued(c) THEN "dropped" ELSE answer[c]
    BY <1>7 DEF Over, Queued
  <2>3. answer' \in [Call -> {"open", "ok", "err", "dropped"}]
    BY <1>7 DEF Over, Types
  <2> QED
    BY <1>7, <2>1, <2>2, <2>3 DEF Over, Types, OnePlace
<1>8. CASE LoopTurn
  <2>1. CASE Selected = "shutdown"
    BY <1>7, <1>8, <2>1 DEF LoopTurn
  <2>2. CASE Selected = "cmd"
    <3>1. PICK result \in {"ok", "err"} : Dispatch(Head(queue), result)
      BY <1>8, <2>2 DEF LoopTurn
    <3>2. queue # <<>> /\ queue' = Tail(queue)
      BY <2>2, <3>1 DEF Selected, Dispatch
    <3>3. UNCHANGED <<handle, phase, room, before, stop, task, pending, cut_short>>
      BY <1>8, <2>2 DEF LoopTurn
    <3> QED
      BY <3>1, <3>2, <3>3, TailShifts DEF Dispatch, Types, OnePlace
  <2>3. CASE Selected = "swarm"
    BY <1>8, <2>3 DEF LoopTurn, Types, OnePlace, Queued
  <2> QED
    BY <1>8, <2>1, <2>2, <2>3 DEF LoopTurn
<1>9. CASE Aborted
  BY <1>7, <1>9 DEF Aborted
<1>10. CASE Signal \/ SwarmReady \/ UNCHANGED vars
  BY <1>10 DEF Signal, SwarmReady, vars, callers, Types, OnePlace, Queued
<1> QED
  BY <1>1, <1>2, <1>3, <1>4, <1>5, <1>6, <1>8, <1>9, <1>10 DEF Next, Client, CallStep, Node

\* A request is in one place, at any time.
THEOREM TypeCorrect == Spec => []TypeOK
<1>1. Init => TypeOK
  <2> SUFFICES ASSUME Init PROVE TypeOK
    OBVIOUS
  <2>1. \A c : ~Queued(c)
    BY EmptyQueue DEF Init
  <2> QED
    <3>1. Types
      <4>1. <<>> \in Seq(Call)
        OBVIOUS
      <4> QED
        BY <4>1, Zenon DEF Init, Types
    <3>2. OnePlace
      BY <2>1 DEF Init, OnePlace
    <3> QED
      BY <3>1, <3>2 DEF TypeOK
<1> QED
  BY <1>1, TypeStep, PTL DEF Spec

----------------------------------------------------------------------------
(* Order *)

\* What NoLateEffect rests on: a call that was begun after another had ended stands
\* behind it in the queue.
InOrder ==
  /\ \A d \in Call : \A c \in before[d] : phase[c] \in Ended
  /\ \A i, j \in DOMAIN queue : queue[i] \in before[queue[j]] => i < j
  /\ NoLateEffect

\* A call that joins the queue is behind what ended before it began, and nothing that
\* began or took effect earlier was begun after its end.
LEMMA EnqueueInOrder ==
  ASSUME TypeOK, InOrder, NEW c \in Call, ~Queued(c), phase[c] \in {"idle", "room"}, Enqueue(c),
         UNCHANGED done, \A d \in Call : d # c => before'[d] = before[d],
         \A d \in before'[c] : phase[d] \in Ended, before' \in [Call -> SUBSET Call]
  PROVE  InOrder'
<1>1. /\ phase' = [phase EXCEPT ![c] = "sent"]
      /\ \A i \in DOMAIN queue' : \/ i \in DOMAIN queue /\ queue'[i] = queue[i]
                                  \/ i = Len(queue) + 1 /\ queue'[i] = c
  BY EnqueueAppends
<1>2. /\ queue \in Seq(Call) /\ Len(queue) \in Nat /\ DOMAIN queue = 1..Len(queue)
      /\ \A i \in DOMAIN queue : queue[i] \in Call /\ i < Len(queue) + 1
      /\ \A i \in DOMAIN queue : queue[i] # c
      /\ done \subseteq Call /\ c \notin done
  <2>1. c \notin done
    BY DEF TypeOK, OnePlace
  <2> QED
    BY <2>1 DEF TypeOK, Types, Queued
<1>3. \A d \in Call : c \notin before'[d]
  BY DEF InOrder, Ended
<1>4. \A d \in Call : \A e \in before'[d] : phase'[e] \in Ended
  BY <1>1, <1>3 DEF InOrder, TypeOK, Types
<1>5. \A i, j \in DOMAIN queue' : queue'[i] \in before'[queue'[j]] => i < j
  <2> SUFFICES ASSUME NEW i \in DOMAIN queue', NEW j \in DOMAIN queue',
                      queue'[i] \in before'[queue'[j]]
               PROVE  i < j
    OBVIOUS
  <2>1. queue'[j] \in Call
    BY <1>1, <1>2
  <2>2. i \in DOMAIN queue /\ queue'[i] = queue[i]
    BY <1>1, <1>3, <2>1
  <2>3. CASE j \in DOMAIN queue /\ queue'[j] = queue[j]
    BY <1>2, <2>2, <2>3 DEF InOrder
  <2>4. CASE j = Len(queue) + 1
    BY <1>2, <2>2, <2>4
  <2> QED
    BY <1>1, <2>3, <2>4
<1>6. NoLateEffect'
  BY <1>1, <1>2, <1>3 DEF InOrder, NoLateEffect
<1> QED
  BY <1>4, <1>5, <1>6 DEF InOrder

\* Any other change of a call keeps the order.
LEMMA EndsInOrder ==
  ASSUME TypeOK, InOrder, NEW c \in Call, phase[c] \notin Ended,
         NEW to \in Ended \cup {"room"}, Turns(c, to), UNCHANGED <<queue, done>>,
         \A d \in Call : d # c => before'[d] = before[d],
         \A d \in before'[c] : phase[d] \in Ended,
         (~Queued(c) /\ c \notin done) \/ UNCHANGED before
  PROVE  InOrder'
<1>1. \A d \in Call : c \notin before'[d]
  BY DEF InOrder
<1>2. \A d \in Call : \A e \in before'[d] : phase'[e] \in Ended
  BY <1>1 DEF InOrder, TypeOK, Types, Turns
<1>3. /\ \A i \in DOMAIN queue : queue[i] \in Call /\ (queue[i] # c \/ UNCHANGED before)
      /\ done \subseteq Call
  BY DEF TypeOK, Types, Queued
<1> QED
  BY <1>2, <1>3 DEF InOrder, NoLateEffect

LEMMA OrderStep == TypeOK /\ InOrder /\ [Next]_vars => InOrder'
<1> SUFFICES ASSUME TypeOK, InOrder, [Next]_vars PROVE InOrder'
  OBVIOUS
<1>1. ASSUME NEW c \in Call, Begin(c) PROVE InOrder'
  <2>1. phase[c] = "idle" /\ ~Queued(c) /\ c \notin done
    BY <1>1 DEF Begin, TypeOK, OnePlace
  <2>2. /\ before' \in [Call -> SUBSET Call] /\ \A d \in Call : d # c => before'[d] = before[d]
        /\ \A d \in before'[c] : phase[d] \in Ended
        /\ UNCHANGED done
    BY <1>1 DEF Begin, TypeOK, Types
  <2>3. CASE Enqueue(c)
    BY <2>1, <2>2, <2>3, EnqueueInOrder
  <2>4. ASSUME NEW to \in {"failed", "room"}, Turns(c, to), UNCHANGED queue PROVE InOrder'
    BY <2>1, <2>2, <2>4, EndsInOrder DEF Ended
  <2> QED
    BY <1>1, <2>3, <2>4 DEF Begin
<1>2. ASSUME NEW c \in Call, CallStep(c) \/ Abandon(c) PROVE InOrder'
  <2>1. UNCHANGED <<before, done>>
    BY <1>2 DEF CallStep, Enter, SendFails, Return, Abandon
  <2>2. /\ before' \in [Call -> SUBSET Call] /\ \A d \in Call : d # c => before'[d] = before[d]
        /\ \A d \in before'[c] : phase[d] \in Ended
    BY <2>1 DEF TypeOK, Types, InOrder
  <2>3. CASE Enter(c)
    <3>1. phase[c] = "room" /\ ~Queued(c) /\ Enqueue(c)
      BY <2>3 DEF Enter, TypeOK, OnePlace
    <3> QED
      BY <2>1, <2>2, <3>1, EnqueueInOrder
  <2>4. CASE SendFails(c) \/ Return(c) \/ Abandon(c)
    <3>1. PICK to \in Ended : Turns(c, to)
      BY <2>4 DEF SendFails, Return, Abandon, TypeOK, Types, Ended
    <3>2. phase[c] \notin Ended /\ UNCHANGED queue
      BY <2>4 DEF SendFails, Return, Abandon, Open, Ended
    <3> QED
      BY <2>1, <2>2, <3>1, <3>2, EndsInOrder
  <2> QED
    BY <1>2, <2>3, <2>4 DEF CallStep
<1>3. ASSUME UNCHANGED <<phase, queue, before, done>> PROVE InOrder'
  BY <1>3 DEF InOrder, NoLateEffect
<1>4. ASSUME queue' = <<>>, UNCHANGED <<phase, before, done>> PROVE InOrder'
  BY <1>4 DEF InOrder, NoLateEffect
<1>5. ASSUME NEW result, queue # <<>>, Dispatch(Head(queue), result), UNCHANGED <<phase, before>>
      PROVE  InOrder'
  <2>1. /\ 1 \in DOMAIN queue /\ Head(queue) = queue[1] /\ \A i \in DOMAIN queue' :
             i \in Nat /\ i > 0 /\ i + 1 \in DOMAIN queue /\ queue'[i] = queue[i + 1]
    BY <1>5, TailShifts DEF Dispatch
  <2>2. \A i, j \in DOMAIN queue' : queue'[i] \in before'[queue'[j]] => i < j
    <3> SUFFICES ASSUME NEW i \in DOMAIN queue', NEW j \in DOMAIN queue',
                        queue'[i] \in before'[queue'[j]]
                 PROVE  i < j
      OBVIOUS
    <3>1. i + 1 < j + 1
      BY <1>5, <2>1 DEF InOrder
    <3> QED
      BY <2>1, <3>1
  <2>3. \A i \in DOMAIN queue' : queue'[i] \notin before[Head(queue)]
    <3> SUFFICES ASSUME NEW i \in DOMAIN queue', queue[i + 1] \in before[queue[1]] PROVE FALSE
      BY <2>1
    <3>1. i + 1 < 1
      BY <2>1 DEF InOrder
    <3> QED
      BY <2>1, <3>1
  <2>4. NoLateEffect'
    BY <1>5, <2>1, <2>3 DEF Dispatch, InOrder, NoLateEffect
  <2> QED
    BY <1>5, <2>2, <2>4 DEF InOrder
<1>6. CASE Client /\ ~(\E c \in Call : Begin(c) \/ CallStep(c) \/ Abandon(c))
  BY <1>3, <1>6 DEF Client, Subscribe, Join, Joined, JoinAbandoned, Drop, HandleBecomes, callers
<1>7. CASE LoopTurn
  <2>1. CASE Selected = "cmd"
    BY <1>5, <1>7, <2>1 DEF LoopTurn, Selected
  <2>2. CASE Selected # "cmd"
    BY <1>3, <1>4, <1>7, <2>2 DEF LoopTurn, Over
  <2> QED
    BY <2>1, <2>2
<1>8. CASE Aborted \/ Signal \/ SwarmReady \/ UNCHANGED vars
  BY <1>3, <1>4, <1>8 DEF Aborted, Over, Signal, SwarmReady, vars, callers
<1> QED
  BY <1>1, <1>2, <1>6, <1>7, <1>8 DEF Next, Client, Node

\* No call that has ended takes effect after one that was begun later.
THEOREM NothingLate == Spec => []NoLateEffect
<1>1. Init => InOrder
  BY DEF Init, InOrder, NoLateEffect
<1>2. InOrder => NoLateEffect
  BY DEF InOrder
<1> QED
  BY <1>1, <1>2, OrderStep, TypeCorrect, PTL DEF Spec

----------------------------------------------------------------------------
(* Events *)

\* join does not return before the task is over, so that nobody stops listening while
\* the task goes on.
Attended == HandlersComplete /\ (handle = "joined" => task = "over")

LEMMA AttendedStep == TypeOK /\ Attended /\ [Next]_vars => Attended'
<1> SUFFICES ASSUME TypeOK, Attended, [Next]_vars PROVE Attended'
  OBVIOUS
<1> USE DEF Attended, HandlersComplete
<1>1. ASSUME NEW c \in Call, Begin(c) \/ CallStep(c) \/ Abandon(c) PROVE Attended'
  BY <1>1 DEF Begin, CallStep, Enter, SendFails, Return, Abandon
<1>2. CASE Subscribe \/ Join \/ Joined \/ JoinAbandoned \/ Drop
  BY <1>2 DEF Subscribe, Join, Joined, JoinAbandoned, Drop, HandleBecomes
<1>3. CASE LoopTurn
  <2>1. CASE Selected = "swarm"
    BY <1>3, <2>1 DEF LoopTurn, Receivers, TypeOK, Types
  <2>2. CASE Selected # "swarm"
    BY <1>3, <2>2 DEF LoopTurn, Over
  <2> QED
    BY <2>1, <2>2
<1>4. CASE Aborted \/ Signal \/ SwarmReady \/ UNCHANGED vars
  BY <1>4 DEF Aborted, Over, Signal, SwarmReady, vars
<1> QED
  BY <1>1, <1>2, <1>3, <1>4 DEF Next, Client, Node

\* No handler is cut short while somebody has the handle or waits for join.
THEOREM AllHandlersComplete == Spec => []HandlersComplete
<1>1. Init => Attended
  BY DEF Init, Attended, HandlersComplete
<1>2. Attended => HandlersComplete
  BY DEF Attended
<1> QED
  BY <1>1, <1>2, AttendedStep, TypeCorrect, PTL DEF Spec

----------------------------------------------------------------------------
(* Refinement *)

Mapped == [c \in Call |-> Promise(phase[c])]

\* A change of one call's phase is that change of the call.
LEMMA TurnsMapped ==
  ASSUME TypeOK, NEW c \in Call, NEW to, Turns(c, to)
  PROVE  Mapped' = [Mapped EXCEPT ![c] = Promise(to)]
  BY DEF Turns, Mapped, TypeOK, Types

\* Every step of the handle and the task is one of the abstract call, or none.
LEMMA CallsStep == TypeOK /\ [Next]_vars => [A!Next]_(A!vars)
<1> SUFFICES ASSUME TypeOK, [Next]_vars PROVE [A!Next]_(A!vars)
  OBVIOUS
<1> DEFINE Same == UNCHANGED <<Mapped, done>>
<1>1. Same => UNCHANGED A!vars
  BY DEF A!vars, Mapped
<1>2. ASSUME UNCHANGED <<phase, done>> PROVE Same
  BY <1>2 DEF Mapped
<1>3. ASSUME NEW c \in Call, Begin(c) PROVE A!Next
  <2>1. phase[c] = "idle" /\ c \notin done /\ Mapped[c] = "idle" /\ UNCHANGED done
    BY <1>3 DEF Begin, TypeOK, OnePlace, Mapped, Promise, Open
  <2>2. CASE Turns(c, "failed")
    <3>1. A!Fail(c)
      BY <2>1, <2>2, TurnsMapped DEF A!Fail, A!Becomes, Mapped, Promise, Open
    <3> QED
      BY <3>1 DEF A!Next
  <2>3. CASE Turns(c, "sent") \/ Turns(c, "room")
    <3>1. A!Start(c)
      BY <2>1, <2>3, TurnsMapped DEF A!Start, A!Becomes, Mapped, Promise, Open
    <3> QED
      BY <3>1 DEF A!Next
  <2> QED
    BY <1>3, <2>2, <2>3 DEF Begin, Enqueue
<1>4. ASSUME NEW c \in Call, Enter(c) PROVE Same
  <2>1. phase[c] = "room" /\ Turns(c, "sent") /\ UNCHANGED done
    BY <1>4 DEF Enter, Enqueue, TypeOK, OnePlace
  <2>2. Mapped[c] = "open" /\ Mapped' = [Mapped EXCEPT ![c] = "open"]
    BY <2>1, TurnsMapped DEF Mapped, Promise, Open
  <2> QED
    BY <2>1, <2>2 DEF Mapped
<1>5. ASSUME NEW c \in Call, SendFails(c) PROVE A!Next
  <2>1. phase[c] = "room" /\ c \notin done /\ Turns(c, "failed") /\ UNCHANGED done
    BY <1>5 DEF SendFails, TypeOK, OnePlace
  <2>2. A!Fail(c)
    BY <2>1, TurnsMapped DEF A!Fail, A!Becomes, Mapped, Promise, Open
  <2> QED
    BY <2>2 DEF A!Next
<1>6. ASSUME NEW c \in Call, Return(c) PROVE A!Next
  <2>1. phase[c] = "sent" /\ UNCHANGED done
    BY <1>6 DEF Return
  <2>2. CASE answer[c] = "dropped"
    <3>1. A!Fail(c)
      BY <1>6, <2>1, <2>2, TurnsMapped
         DEF Return, TypeOK, OnePlace, A!Fail, A!Becomes, Mapped, Promise, Open
    <3> QED
      BY <3>1 DEF A!Next
  <2>3. CASE answer[c] \in {"ok", "err"}
    <3>1. c \in done /\ Turns(c, answer[c]) /\ Promise(answer[c]) = "answered"
      BY <1>6, <2>3 DEF Return, TypeOK, OnePlace, Promise, Open
    <3>2. Mapped[c] = "open"
      BY <2>1 DEF Mapped, Promise, Open
    <3>3. Mapped' = [Mapped EXCEPT ![c] = "answered"]
      BY <3>1, TurnsMapped
    <3>4. A!Answer(c)
      BY <2>1, <3>1, <3>2, <3>3 DEF A!Answer, A!Becomes, Mapped
    <3> QED
      BY <3>4 DEF A!Next
  <2> QED
    BY <1>6, <2>2, <2>3 DEF Return, TypeOK, Types
<1>7. ASSUME NEW c \in Call, Abandon(c) PROVE A!Next
  <2>1. phase[c] \in Open /\ Turns(c, "abandoned") /\ UNCHANGED done
    BY <1>7 DEF Abandon
  <2>2. A!Abandon(c)
    BY <2>1, TurnsMapped DEF A!Abandon, A!Becomes, Mapped, Promise, Open
  <2> QED
    BY <2>2 DEF A!Next
<1>8. CASE Client /\ ~(\E c \in Call : Begin(c) \/ CallStep(c) \/ Abandon(c))
  BY <1>1, <1>2, <1>8 DEF Client, Subscribe, Join, Joined, JoinAbandoned, Drop, HandleBecomes, callers
<1>9. CASE LoopTurn /\ Selected = "cmd"
  <2>1. queue # <<>> /\ queue' = Tail(queue) /\ done' = done \cup {Head(queue)} /\ UNCHANGED phase
    BY <1>9 DEF LoopTurn, Dispatch, Selected
  <2>2. Head(queue) \in Call /\ Queued(Head(queue))
    BY <2>1, TailShifts
  <2>3. phase[Head(queue)] \in {"sent", "abandoned"} /\ Head(queue) \notin done
    BY <2>2 DEF TypeOK, OnePlace
  <2>4. A!Apply(Head(queue))
    BY <2>1, <2>2, <2>3 DEF A!Apply, Mapped, Promise, Open
  <2> QED
    BY <2>2, <2>4 DEF A!Next
<1>10. CASE LoopTurn /\ Selected # "cmd"
  BY <1>1, <1>2, <1>10 DEF LoopTurn
<1>11. CASE Aborted \/ Signal \/ SwarmReady \/ UNCHANGED vars
  BY <1>1, <1>2, <1>11 DEF Aborted, Signal, SwarmReady, vars, callers
<1> HIDE DEF Same
<1> QED
  BY <1>1, <1>3, <1>4, <1>5, <1>6, <1>7, <1>8, <1>9, <1>10, <1>11 DEF Next, Client, CallStep, Node

\* The handle, the queue and the task implement the abstract call.
THEOREM CallsAreAtomic == Spec => ImplementsAtomicCalls
<1>1. Init => A!Init
  BY DEF Init, A!Init, Promise, Open
<1> QED
  BY <1>1, CallsStep, TypeCorrect, PTL DEF Spec, ImplementsAtomicCalls, A!Spec

----------------------------------------------------------------------------
(* Programs *)

\* What is left of main's steps.
Script == todo \in Seq(Call \cup {"wait"})

\* The steps of main.
LEMMA MainSteps ==
  ASSUME Script, MainStep
  PROVE  /\ Script'
         /\ \/ UNCHANGED vars
            \/ Subscribe \/ Join \/ Joined
            \/ \E c \in Call : Begin(c) \/ Return(c) \/ (phase[c] \in {"err", "failed"} /\ Drop)
<1>1. CASE todo # <<>> /\ Head(todo) = "wait" /\ todo' = Tail(todo) /\ UNCHANGED vars
  BY <1>1 DEF Script
<1>2. CASE todo # <<>> /\ Head(todo) # "wait" /\ MainCall(Head(todo))
  <2>1. Head(todo) \in Call
    BY <1>2 DEF Script
  <2>2. Script'
    BY <1>2 DEF MainCall, Script
  <2> QED
    BY <1>2, <2>1, <2>2 DEF MainCall
<1> QED
  BY <1>1, <1>2 DEF MainStep, Script

\* Whatever main or the tasks of a program do with a handle is what Spec allows, so
\* the theorems hold of them.
LEMMA ScriptInvariant == ProgramSpec => []Script /\ Spec
<1>1. ProgramInit => Init /\ Script
  <2>1. Main(TRUE) \in Seq(Call \cup {"wait"}) /\ Main(FALSE) \in Seq(Call \cup {"wait"})
    BY ProgramAssumption
  <2>2. <<>> \in Seq(Call \cup {"wait"})
    OBVIOUS
  <2> QED
    BY <2>1, <2>2 DEF ProgramInit, MainInit, TasksInit, Script
<1>2. Script /\ [ProgramNext]_allvars => Script' /\ [Next]_vars
  <2> SUFFICES ASSUME Script, [ProgramNext]_allvars PROVE Script' /\ [Next]_vars
    OBVIOUS
  <2>1. CASE MainStep
    BY <2>1, MainSteps DEF Client, CallStep, Next
  <2>2. CASE TasksStep
    <3>1. ASSUME NEW c \in TaskCalls, Begin(c) \/ CallStep(c) \/ Abandon(c) PROVE [Next]_vars
      BY <3>1, ProgramAssumption DEF Client, Next
    <3> QED
      BY <2>2, <3>1 DEF TasksStep, Client, Next, Script
  <2>3. CASE Node /\ UNCHANGED todo
    BY <2>3 DEF Next, Script
  <2>4. CASE UNCHANGED allvars
    BY <2>4 DEF allvars, Script
  <2> QED
    BY <2>1, <2>2, <2>3, <2>4 DEF ProgramNext
<1> QED
  BY <1>1, <1>2, PTL DEF ProgramSpec, Spec

THEOREM ProgramsAreClients == ProgramSpec => Spec
  BY ScriptInvariant, PTL

\* Why a task is over, and why a call ends without a result.
Reasons ==
  /\ task = "aborting" => handle = "dropped"
  /\ task = "over" => stop \/ handle = "dropped"
  /\ handle = "joined" => task = "over"
  /\ \A c \in Call :
       /\ "failed" = phase[c] \/ answer[c] = "dropped" => task = "over"
       /\ "err" \in {phase[c], answer[c]} => c \in Fallible

LEMMA ReasonsStep == TypeOK /\ Reasons /\ [Next]_vars => Reasons'
<1> SUFFICES ASSUME TypeOK, Reasons, [Next]_vars PROVE Reasons'
  OBVIOUS
<1> USE DEF Reasons
<1>1. ASSUME NEW c \in Call, Begin(c) \/ CallStep(c) \/ Abandon(c) PROVE Reasons'
  BY <1>1 DEF Begin, CallStep, Enter, SendFails, Return, Abandon, Turns, Enqueue,
              TypeOK, Types
<1>2. CASE Subscribe \/ Join \/ Joined \/ JoinAbandoned \/ Drop
  BY <1>2 DEF Subscribe, Join, Joined, JoinAbandoned, Drop, HandleBecomes, callers
<1>3. CASE LoopTurn
  <2>1. CASE Selected = "shutdown"
    BY <1>3, <2>1 DEF LoopTurn, Over, Selected
  <2>2. CASE Selected = "cmd"
    <3>1. PICK result \in {"ok", "err"} :
            Dispatch(Head(queue), result) /\ (result = "err" => Head(queue) \in Fallible)
      BY <1>3, <2>2 DEF LoopTurn
    <3>2. UNCHANGED <<handle, task, phase, stop>>
      BY <1>3, <2>2 DEF LoopTurn
    <3> QED
      BY <3>1, <3>2 DEF Dispatch, TypeOK, Types
  <2>3. CASE Selected = "swarm"
    BY <1>3, <2>3 DEF LoopTurn
  <2> QED
    BY <1>3, <2>1, <2>2, <2>3 DEF LoopTurn
<1>4. CASE Aborted
  BY <1>4 DEF Aborted, Over
<1>5. CASE Signal \/ SwarmReady \/ UNCHANGED vars
  BY <1>5 DEF Signal, SwarmReady, vars, callers
<1> QED
  BY <1>1, <1>2, <1>3, <1>4, <1>5 DEF Next, Client, Node

LEMMA StaysUpStep ==
  TypeOK /\ Script /\ Reasons /\ MainStaysUp /\ [ProgramNext]_allvars => MainStaysUp'
<1> SUFFICES ASSUME TypeOK, Script, Reasons, MainStaysUp, [ProgramNext]_allvars
             PROVE  MainStaysUp'
  OBVIOUS
<1>1. CASE main /\ MainStep /\ UNCHANGED main
  <2>1. CASE UNCHANGED vars \/ Subscribe \/ Join
    BY <1>1, <2>1 DEF vars, callers, Subscribe, Join, HandleBecomes, MainStaysUp
  <2>2. CASE Joined
    BY <2>2 DEF Joined, HandleBecomes, MainStaysUp, Reasons
  <2>3. ASSUME NEW c \in Call, Begin(c) \/ Return(c) PROVE MainStaysUp'
    <3>1. UNCHANGED <<handle, stop, main>>
      BY <1>1, <2>3 DEF Begin, Return
    <3>2. \A d \in Call : phase[d] = "err" => phase'[d] = "err"
      BY <2>3 DEF Begin, Return, Turns, Enqueue, TypeOK, Types
    <3> QED
      BY <3>1, <3>2, RpcAssumption DEF MainStaysUp
  <2>4. ASSUME NEW c \in Call, phase[c] \in {"err", "failed"}, Drop PROVE MainStaysUp'
    BY <2>4 DEF Drop, HandleBecomes, callers, MainStaysUp, Reasons
  <2> QED
    BY <1>1, <2>1, <2>2, <2>3, <2>4, MainSteps
<1>2. CASE ~main /\ UNCHANGED main
  BY <1>2 DEF MainStaysUp
<1>3. CASE Node /\ UNCHANGED <<main, todo>>
  BY <1>3 DEF Node, LoopTurn, Aborted, Signal, SwarmReady, callers, MainStaysUp
<1>4. CASE UNCHANGED allvars
  BY <1>4 DEF allvars, vars, callers, MainStaysUp
<1> QED
  BY <1>1, <1>2, <1>3, <1>4 DEF ProgramNext

\* main ends only by the signal or because a call that can fail has failed.
THEOREM MainIsUp == ProgramSpec => []MainStaysUp
<1>1. Init => Reasons
  BY DEF Init, Reasons
<1>2. ProgramInit => Init /\ MainStaysUp
  BY DEF ProgramInit, Init, MainStaysUp
<1> QED
  BY <1>1, <1>2, ScriptInvariant, TypeCorrect, ReasonsStep, StaysUpStep, PTL
     DEF ProgramSpec, Spec
===============================================================================
