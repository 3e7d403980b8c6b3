---------------------------------- MODULE Rpc ----------------------------------
(***************************************************************************)
(* How a program talks to its node: the methods of SavedHandle generated   *)
(* by src/network/rpc_macros.rs, the loop of src/network/mod.rs that       *)
(* serves them between swarm events, and the ends of both: the shutdown    *)
(* signal, join and Drop (src/network/handle.rs).                          *)
(*                                                                         *)
(* A call is one use of a method.  Methods take &self, so any number of    *)
(* calls may be under way; join and drop need the handle to themselves.    *)
(* The handlers do not wait for anything (their futures are ready at       *)
(* once), so one turn of the loop is one step and an abort falls between   *)
(* two turns.  What a handler does is the subject of SavedNetwork; here it *)
(* only has a result.                                                      *)
(***************************************************************************)
EXTENDS Integers, Sequences

CONSTANTS
  Call,        \* uses of the handle's methods
  Fallible,    \* those whose handler may return an error
  Capacity     \* mpsc::channel(64)

ASSUME RpcAssumption == Capacity \in Nat \ {0} /\ Fallible \subseteq Call

VARIABLES
  handle,      \* "starting" (SavedNetwork::new has not returned), "held",
               \* "joining", "joined", "dropped" or "detached"
  phase,       \* Call -> "idle", "room" (waits in cmd_tx.send), "sent" (waits for
               \* the reply), or how it ended
  room,        \* the calls waiting in cmd_tx.send, first come first served
  queue,       \* the requests in cmd_rx
  answer,      \* Call -> what its oneshot channel has: "open", "ok", "err", "dropped"
  task,        \* the network task: "running", "aborting" or "over"
  stop,        \* the shutdown signal was received
  pending,     \* the swarm has an event
  cut_short,   \* a handler was left early because its event had no receiver
  \* history
  done,        \* the calls whose handler has run
  before       \* Call -> the calls that had ended when it began

callers == <<phase, room, answer, before>>
vars == <<handle, callers, queue, task, stop, pending, cut_short, done>>

Open == {"room", "sent"}
Ended == {"ok", "err", "failed", "abandoned"}

Init ==
  /\ handle = "starting" /\ task = "running"
  /\ phase = [c \in Call |-> "idle"] /\ room = <<>> /\ queue = <<>>
  /\ answer = [c \in Call |-> "open"]
  /\ stop = FALSE /\ pending = FALSE /\ cut_short = FALSE
  /\ done = {} /\ before = [c \in Call |-> {}]

----------------------------------------------------------------------------
(* Callers *)

Turns(c, to) == phase' = [phase EXCEPT ![c] = to]

\* c's place in the line for room is given up.
Leaves(c) ==
  \E i \in DOMAIN room :
    /\ room[i] = c
    /\ room' = [j \in 1..(Len(room) - 1) |-> room[IF j < i THEN j ELSE j + 1]]

\* Mutant of Enqueue: the last comes first.
EnqueueFirst(c) == Turns(c, "sent") /\ queue' = <<c>> \o queue

Enqueue(c) == Turns(c, "sent") /\ queue' = Append(queue, c)

(***************************************************************************)
(* A method is called: the request goes into the queue if there is room    *)
(* that nobody waits for; send fails if the receiver is gone.              *)
(***************************************************************************)
Begin(c) ==
  /\ handle = "held" /\ phase[c] = "idle"
  /\ before' = [before EXCEPT ![c] = {d \in Call : phase[d] \in Ended}]
  /\ \/ task = "over" /\ Turns(c, "failed") /\ UNCHANGED <<room, queue>>
     \/ /\ task # "over" /\ Len(queue) + Len(room) < Capacity
        /\ Enqueue(c) /\ UNCHANGED room
     \/ /\ task # "over" /\ Len(queue) + Len(room) >= Capacity
        /\ Turns(c, "room") /\ room' = Append(room, c) /\ UNCHANGED queue
  /\ UNCHANGED <<handle, answer, task, stop, pending, cut_short, done>>

\* Room is handed to the first in line, who take it when they are polled.
Enter(c) ==
  /\ task # "over"
  /\ \E i \in DOMAIN room : room[i] = c /\ i + Len(queue) <= Capacity
  /\ Leaves(c) /\ Enqueue(c)
  /\ UNCHANGED <<handle, answer, before, task, stop, pending, cut_short, done>>

\* The receiver went away: TokioMpscSendNetRpc.
SendFails(c) ==
  /\ task = "over" /\ phase[c] = "room"
  /\ Leaves(c) /\ Turns(c, "failed")
  /\ UNCHANGED <<handle, queue, answer, before, task, stop, pending, cut_short, done>>

\* rx.await: the handler's result, or OneshotCanceled.
Return(c) ==
  /\ phase[c] = "sent" /\ answer[c] # "open"
  /\ Turns(c, IF answer[c] = "dropped" THEN "failed" ELSE answer[c])
  /\ UNCHANGED <<handle, room, queue, answer, before, task, stop, pending, cut_short, done>>

\* The caller drops the future, as a timeout around the call does.  A request
\* that is in the queue stays there.
Abandon(c) ==
  /\ phase[c] \in Open
  /\ IF phase[c] = "room" THEN Leaves(c) ELSE UNCHANGED room
  /\ Turns(c, "abandoned")
  /\ UNCHANGED <<handle, queue, answer, before, task, stop, pending, cut_short, done>>

----------------------------------------------------------------------------
(* The handle *)

NobodyCalls == \A c \in Call : phase[c] \notin Open

HandleBecomes(h) == handle' = h /\ UNCHANGED <<callers, queue, stop, pending, cut_short, done>>

\* new subscribes and returns; the task is running already.
Subscribe == handle = "starting" /\ HandleBecomes("held") /\ UNCHANGED task

Join == handle = "held" /\ NobodyCalls /\ HandleBecomes("joining") /\ UNCHANGED task

\* Mutant of Joined: the task is not waited for.
JoinedAtOnce == handle = "joining" /\ HandleBecomes("joined") /\ UNCHANGED task

Joined == handle = "joining" /\ task = "over" /\ HandleBecomes("joined") /\ UNCHANGED task

\* The future of join is dropped after it took the JoinHandle: nothing aborts.
JoinAbandoned == handle = "joining" /\ HandleBecomes("detached") /\ UNCHANGED task

\* Mutant of Drop: it only lets go of the task.
DropOnly == handle = "held" /\ NobodyCalls /\ HandleBecomes("dropped") /\ UNCHANGED task

Drop ==
  /\ handle = "held" /\ NobodyCalls
  /\ HandleBecomes("dropped")
  /\ task' = IF task = "running" THEN "aborting" ELSE task

----------------------------------------------------------------------------
(* The network task *)

\* Mutant of Receivers: new keeps none, "let (events_tx, _)".
ReceiversOfHandle == IF handle \in {"held", "joining"} THEN {"events_rx"} ELSE {}

\* Who listens for events: new's own _rx until the handle has one.
Receivers ==
  CASE handle = "starting" -> {"_rx"}
    [] handle \in {"held", "joining"} -> {"events_rx"}
    [] OTHER -> {}

\* Mutant of Selected: the swarm first.
SelectedSwarmFirst ==
  IF stop THEN "shutdown" ELSE IF pending THEN "swarm" ELSE IF queue # <<>> THEN "cmd" ELSE "none"

\* Mutant of Selected: the signal last.
SelectedSignalLast ==
  IF queue # <<>> THEN "cmd" ELSE IF pending THEN "swarm" ELSE IF stop THEN "shutdown" ELSE "none"

\* The branch of the biased select that is ready first.  The heartbeat only prints.
Selected ==
  IF stop THEN "shutdown" ELSE IF queue # <<>> THEN "cmd" ELSE IF pending THEN "swarm" ELSE "none"

\* Mutant of Over: the queue outlives the task.
OverKeepsQueue == task' = "over" /\ UNCHANGED <<answer, queue>>

\* The task's end drops the receiver and the requests in it.
Over ==
  /\ task' = "over" /\ queue' = <<>>
  /\ answer' = [c \in Call |-> IF \E i \in DOMAIN queue : queue[i] = c THEN "dropped" ELSE answer[c]]

\* Mutant of Dispatch: an error leaves before the reply.
DispatchEarly(c, result) ==
  /\ queue' = Tail(queue) /\ done' = done \cup {c}
  /\ answer' = [answer EXCEPT ![c] = IF result = "err" THEN "dropped" ELSE result]

\* Mutant of Dispatch: the request of a caller who has gone stays.
DispatchPeek(c, result) ==
  IF phase[c] = "abandoned" THEN UNCHANGED <<queue, done, answer>>
  ELSE /\ queue' = Tail(queue) /\ done' = done \cup {c}
       /\ answer' = [answer EXCEPT ![c] = result]

\* dispatch_rpc: the handler, and the reply whether or not somebody waits for it.
Dispatch(c, result) ==
  /\ queue' = Tail(queue) /\ done' = done \cup {c}
  /\ answer' = [answer EXCEPT ![c] = result]

LoopTurn ==
  /\ task # "over"
  /\ \/ Selected = "shutdown" /\ Over /\ UNCHANGED <<done, pending, cut_short>>
     \/ /\ Selected = "cmd"
        /\ \E result \in {"ok"} \cup (IF Head(queue) \in Fallible THEN {"err"} ELSE {}) :
             Dispatch(Head(queue), result)
        /\ UNCHANGED <<task, pending, cut_short>>
     \/ /\ Selected = "swarm"
        /\ pending' = FALSE /\ cut_short' = (cut_short \/ Receivers = {})
        /\ UNCHANGED <<task, queue, answer, done>>
  /\ UNCHANGED <<handle, phase, room, before, stop>>

\* The abort takes effect when the task next yields, after any number of turns.
Aborted ==
  /\ task = "aborting" /\ Over
  /\ UNCHANGED <<handle, phase, room, before, stop, pending, cut_short, done>>

----------------------------------------------------------------------------
(* The surroundings, and all of it *)

Signal ==
  ~stop /\ stop' = TRUE /\ UNCHANGED <<handle, callers, queue, task, pending, cut_short, done>>

SwarmReady ==
  /\ task # "over" /\ ~pending /\ pending' = TRUE
  /\ UNCHANGED <<handle, callers, queue, task, stop, cut_short, done>>

CallStep(c) == Enter(c) \/ SendFails(c) \/ Return(c)

Client ==
  \/ \E c \in Call : Begin(c) \/ CallStep(c) \/ Abandon(c)
  \/ Subscribe \/ Join \/ Joined \/ JoinAbandoned \/ Drop

Node == LoopTurn \/ Aborted \/ Signal \/ SwarmReady

Next == Client \/ Node

Spec == Init /\ [][Next]_vars

----------------------------------------------------------------------------
(* Safety *)

Queued(c) == \E i \in DOMAIN queue : queue[i] = c

Types ==
  /\ handle \in {"starting", "held", "joining", "joined", "dropped", "detached"}
  /\ task \in {"running", "aborting", "over"}
  /\ phase \in [Call -> {"idle"} \cup Open \cup Ended]
  /\ answer \in [Call -> {"open", "ok", "err", "dropped"}]
  /\ room \in Seq(Call) /\ queue \in Seq(Call)
  /\ stop \in BOOLEAN /\ pending \in BOOLEAN /\ cut_short \in BOOLEAN
  /\ done \subseteq Call /\ before \in [Call -> SUBSET Call]

\* A request is in one place: with its caller, in the line for room, in the queue, or
\* taken out of it, by its handler, which alone answers, or by the end of the task
\* (rpc_macros.rs:63-77, 87-92).
OnePlace ==
  /\ \A i, j \in DOMAIN queue : queue[i] = queue[j] => i = j
  /\ \A i, j \in DOMAIN room : room[i] = room[j] => i = j
  /\ \A i \in DOMAIN room : phase[room[i]] = "room"
  /\ \A c \in Call :
       /\ Queued(c) => phase[c] \in {"sent", "abandoned"} /\ answer[c] = "open" /\ c \notin done
       /\ phase[c] \in {"idle", "room"} => answer[c] = "open" /\ c \notin done
       /\ phase[c] = "failed" => c \notin done
       /\ c \in done <=> answer[c] \in {"ok", "err"}
       /\ phase[c] \in {"ok", "err"} => c \in done

TypeOK == Types /\ OnePlace

\* A call that has ended, by an answer, an error or because its caller stopped
\* waiting, never takes effect after a call that was begun later: no old request
\* is left behind in the queue to undo a newer one (rpc_macros.rs:59-77).
NoLateEffect ==
  \A d \in done : \A c \in before[d] : \A i \in DOMAIN queue : queue[i] # c

\* From its first turn, before the handle exists, the task finds a receiver for its
\* events, as long as somebody has the handle or waits for join: otherwise a
\* handler would leave at "?" with the connection in no list, no mode switched and
\* nothing reconciled (mod.rs:153, 172-176, 271, 297).
HandlersComplete == cut_short => handle \in {"dropped", "detached"}

\* The call as its caller sees it.
Promise(how) ==
  CASE how = "idle" -> "idle"
    [] how \in Open -> "open"
    [] how \in {"ok", "err"} -> "answered"
    [] how = "failed" -> "failed"
    [] how = "abandoned" -> "abandoned"

A == INSTANCE AtomicCalls WITH calls <- [c \in Call |-> Promise(phase[c])], applied <- done

\* Through queue, reply channel, shutdown and abort, a method is what it looks like,
\* an asynchronous call that has its effect once; TokioMpscSendNetRpc and
\* OneshotCanceled mean that it had none and will have none (rpc_macros.rs:63-76).
ImplementsAtomicCalls == A!Spec
===============================================================================
