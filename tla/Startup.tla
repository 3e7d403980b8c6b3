-------------------------------- MODULE Startup --------------------------------
(***************************************************************************)
(* Programs over a handle: the one of src/main.rs, which makes its calls   *)
(* one after the other, and any program of another user of the engine      *)
(* whose tasks share the handle.  The methods take &self                   *)
(* (rpc_macros.rs:62), so several calls may be under way at once; nothing  *)
(* in this repository does that, and such a program is external.           *)
(***************************************************************************)
EXTENDS Rpc

CONSTANT
  TaskCalls     \* the calls made by tasks when the program is not main

Bootstrap == <<"dial_1", "dial_2", "dial_3", "dial_4", "dial_5", "wait", "kad_bootstrap">>

\* main's steps between new and join; BOOTSTRAP decides about a part.  The ten
\* seconds of printing events are a wait: a closed channel or a lag is printed.
Main(bootstrap) ==
  <<"set_kad_enabled", "set_mdns_enabled", "wait">>
    \o (IF bootstrap THEN Bootstrap ELSE <<>>)
    \o <<"kad_find_peer", "wait", "add_target_1", "add_target_2", "wait">>

ASSUME ProgramAssumption ==
  TaskCalls \subseteq Call /\ \A b \in BOOLEAN : Main(b) \in Seq(Call \cup {"wait"})

VARIABLES
  main,     \* whether the program is main
  todo      \* what main has left to do before join

MainInit == main = TRUE /\ todo \in {Main(TRUE), Main(FALSE)}

\* External: a program of which nothing is known but the handle it uses.
TasksInit == main = FALSE /\ todo = <<>>

\* A call of main: begun, waited for, and left with ? if it fails.  A caller who is
\* alone never waits for room.
MainCall(c) ==
  \/ Begin(c) /\ UNCHANGED todo
  \/ Return(c) /\ UNCHANGED todo
  \/ phase[c] = "ok" /\ todo' = Tail(todo) /\ UNCHANGED vars
  \/ phase[c] \in {"err", "failed"} /\ Drop /\ UNCHANGED todo

MainStep ==
  \/ Subscribe /\ UNCHANGED todo
  \/ /\ handle = "held" /\ todo # <<>>
     /\ IF Head(todo) = "wait" THEN todo' = Tail(todo) /\ UNCHANGED vars
        ELSE MainCall(Head(todo))
  \/ todo = <<>> /\ (Join \/ Joined) /\ UNCHANGED todo

\* External: its tasks call and give up as they like; one of them may subscribe,
\* join or drop the handle.
TasksStep ==
  /\ \/ \E c \in TaskCalls : Begin(c) \/ CallStep(c) \/ Abandon(c)
     \/ Subscribe \/ Join \/ Joined \/ JoinAbandoned \/ Drop
  /\ UNCHANGED todo

ProgramInit == Init /\ (MainInit \/ TasksInit)

ProgramNext ==
  /\ \/ main /\ MainStep
     \/ ~main /\ TasksStep
     \/ Node /\ UNCHANGED todo
  /\ UNCHANGED main

allvars == <<vars, main, todo>>

ProgramSpec == ProgramInit /\ [][ProgramNext]_allvars

----------------------------------------------------------------------------
(***************************************************************************)
(* The runtime polls the network task and whoever can go on; timers run    *)
(* out.  Callers need not begin, abandon or join anything, and the signal  *)
(* and the swarm's events need not come.                                   *)
(***************************************************************************)
Fairness ==
  /\ WF_allvars(LoopTurn /\ UNCHANGED <<main, todo>>)
  /\ WF_allvars(Aborted /\ UNCHANGED <<main, todo>>)
  /\ WF_allvars(main /\ MainStep /\ UNCHANGED main)
  /\ \A c \in TaskCalls : WF_allvars(~main /\ CallStep(c) /\ UNCHANGED <<main, todo>>)
  /\ WF_allvars(~main /\ (Subscribe \/ Joined) /\ UNCHANGED <<main, todo>>)

FairSpec == ProgramSpec /\ Fairness

----------------------------------------------------------------------------
(* Properties *)

\* The program of main.rs never leaves by itself: the node runs until the signal,
\* unless one of the calls that can fail fails (main.rs:29-74).
MainStaysUp ==
  main /\ handle \in {"joined", "dropped"} => stop \/ \E c \in Fallible : phase[c] = "err"

\* Every call comes to an end, however busy the swarm is, also when it waits for
\* room or in the queue while the task is shut down (mod.rs:198, rpc_macros.rs:70).
CallsEnd == \A c \in Call : (phase[c] \in Open) ~> (phase[c] \notin Open)

\* The swarm gets its turn although requests come first: with finitely many calls
\* none is left behind in front of it, whoever has stopped waiting (mod.rs:198-222).
SwarmServed == []<>(~pending \/ task = "over")

\* "Press Ctrl+C to stop." (mod.rs:188): wherever it catches main, in a call, in a
\* wait or in join, main ends, although the signal only ever ends the task.
SignalEndsMain == (main /\ stop) ~> handle \in {"joined", "dropped"}

\* A handle that is dropped takes its task with it (handle.rs:26-32).
DropEndsTask == handle = "dropped" ~> task = "over"
===============================================================================
