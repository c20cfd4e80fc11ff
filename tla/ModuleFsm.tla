------------------------------ MODULE ModuleFsm ------------------------------
(***************************************************************************)
(* One Module (or Board) of the DAQ, as src/Module.cpp runs it.  Three     *)
(* kinds of threads meet in it:                                            *)
(*   - the websocket callback thread, which runs onAction and the handler  *)
(*     of one action at a time, from its guard to its sendState;           *)
(*   - the two loop threads DoDoLoopOnStart and DoDoLoopOnPause, created   *)
(*     by the hooks DoStart and DoPause through LoopOnStart/LoopOnPause;   *)
(*   - the main thread, which waits for a signal and closes the process.   *)
(* They share m_State and the flags of the loop threads.  A handler is cut *)
(* where another thread can be seen: at each join, before and after each   *)
(* hook, and at the creation of a loop thread.  m_State is a plain enum:   *)
(* the loops read it through a virtual call in every iteration, so each    *)
(* read is a memory access and returns the old or the new value.           *)
(***************************************************************************)
EXTENDS RunStates

CONSTANT Faulty   \* The hooks of the subclass that may throw

VARIABLES
  state,       \* m_State
  used,        \* m_LoopOnStartUsed and m_LoopOnPauseUsed
  loop,        \* where each loop thread is
  firstStart,  \* m_IsFirstStart
  pc, cmd,     \* where the callback thread is, and the last action it has taken
  announced,   \* the argument of the last sendState
  main         \* the main thread: waiting for a signal, or in stopListening

vars == <<state, used, loop, firstStart, pc, cmd, announced, main>>

Loop == {"LoopOnStart", "LoopOnPause"}

\* The code of a subclass that the state machine calls.
Hooks == Action \cup Loop \cup {"AtFirstStart"}

ASSUME FaultyAssumption == Faulty \subseteq Hooks

\* none: no joinable thread.  test: about to read m_State.  body: inside DoLoopOn*.
\* ended: the function has returned, the thread has still to be joined.
LoopPoint == {"none", "test", "body", "ended"}

HandlerPoint == {"idle", "joinStart", "joinPause", "firstHook", "hook", "announce",
                 "closing", "exited"}

\* The state in which each loop goes on.
LoopState(l) == IF l = "LoopOnStart" THEN "Started" ELSE "Paused"

\* The hook from which each loop is created.
LaunchedBy(l) == IF l = "LoopOnStart" THEN "Start" ELSE "Pause"

TypeOK ==
  /\ state \in State
  /\ used \in [Loop -> BOOLEAN]
  /\ loop \in [Loop -> LoopPoint]
  /\ firstStart \in BOOLEAN
  /\ pc \in HandlerPoint
  /\ cmd \in Action \cup {"None"}
  /\ announced \in State
  /\ main \in {"waiting", "closing"}

Init ==
  /\ state = "Uninitialized"
  /\ used = [l \in Loop |-> FALSE]
  /\ loop = [l \in Loop |-> "none"]
  /\ firstStart = TRUE
  /\ pc = "idle"
  /\ cmd = "None"
  /\ announced = "Uninitialized"
  /\ main = "waiting"

Alive == pc # "exited"

-----------------------------------------------------------------------------
(* The callback thread. *)

AcceptAnywhere(a, next) ==   \* slip: the state is not looked at
  /\ pc = "idle"
  /\ cmd' = a
  /\ pc' = next

\* onAction: the guard of the action's case.
Accept(a, next) ==
  /\ pc = "idle"
  /\ state \in AcceptedIn(a)
  /\ cmd' = a
  /\ pc' = next

\* Start, Pause and Stop set the state before anything else, so that the loop
\* they are going to join leaves its while.
BeginStart ==
  /\ Accept("Start", "joinPause")
  /\ state' = "Started"
  /\ UNCHANGED <<used, loop, firstStart, announced, main>>

BeginPauseStateAfterJoin ==   \* slip: the state is set where the other handlers set it
  /\ Accept("Pause", "joinStart")
  /\ UNCHANGED <<state, used, loop, firstStart, announced, main>>

BeginPause ==
  /\ Accept("Pause", "joinStart")
  /\ state' = "Paused"
  /\ UNCHANGED <<used, loop, firstStart, announced, main>>

BeginStopWithoutStartJoin ==   \* slip: Stop joins the pause loop only
  /\ Accept("Stop", "joinPause")
  /\ state' = "Stopped"
  /\ firstStart' = TRUE
  /\ UNCHANGED <<used, loop, announced, main>>

BeginStop ==
  /\ Accept("Stop", "joinStart")
  /\ state' = "Stopped"
  /\ firstStart' = TRUE
  /\ UNCHANGED <<used, loop, announced, main>>

\* The other handlers run their hook in the state they come from.
BeginStage(a) ==
  /\ a \in Action \ {"Start", "Pause", "Stop"}
  /\ Accept(a, "hook")
  /\ UNCHANGED <<state, used, loop, firstStart, announced, main>>

\* The else branch of each case: an error log, and the module is where it was.
Reject(a) ==
  /\ pc = "idle"
  /\ state \notin AcceptedIn(a)
  /\ UNCHANGED vars

JoinKeepingFlag(l) ==   \* slip: the flag is not reset after the join
  \/ /\ ~used[l]
     /\ UNCHANGED <<used, loop>>
  \/ /\ used[l]
     /\ loop[l] = "ended"
     /\ loop' = [loop EXCEPT ![l] = "none"]
     /\ UNCHANGED used

\* if(m_LoopOn*Used) { join; m_LoopOn*Used = false; }
Join(l) ==
  \/ /\ ~used[l]
     /\ UNCHANGED <<used, loop>>
  \/ /\ used[l]
     /\ loop[l] = "ended"
     /\ used' = [used EXCEPT ![l] = FALSE]
     /\ loop' = [loop EXCEPT ![l] = "none"]

\* In Pause, and first of the two joins of Stop.
JoinLoopOnStart ==
  /\ pc = "joinStart"
  /\ Join("LoopOnStart")
  /\ pc' = IF cmd = "Stop" THEN "joinPause" ELSE "hook"
  /\ UNCHANGED <<state, firstStart, cmd, announced, main>>

\* In Start, and second of the two joins of Stop.
JoinLoopOnPause ==
  /\ pc = "joinPause"
  /\ Join("LoopOnPause")
  /\ pc' = IF cmd = "Start" /\ firstStart THEN "firstHook" ELSE "hook"
  /\ UNCHANGED <<state, firstStart, cmd, announced, main>>

\* DoAtFirstStart returns.
AtFirstStart ==
  /\ pc = "firstHook"
  /\ firstStart' = FALSE
  /\ pc' = "hook"
  /\ UNCHANGED <<state, used, loop, cmd, announced, main>>

\* LoopOnStart() and LoopOnPause(), called by the hook: one thread at most.
Launch(l) ==
  /\ pc = "hook"
  /\ cmd = LaunchedBy(l)
  /\ ~used[l]
  /\ loop' = [loop EXCEPT ![l] = "test"]
  /\ used' = [used EXCEPT ![l] = TRUE]
  /\ UNCHANGED <<state, firstStart, pc, cmd, announced, main>>

\* The hook of the action returns.
Hook ==
  /\ pc = "hook"
  /\ pc' = "announce"
  /\ UNCHANGED <<state, used, loop, firstStart, cmd, announced, main>>

SendStateOnly ==   \* slip: a handler announces a state it has not set
  /\ pc = "announce"
  /\ announced' = Target(cmd)
  /\ pc' = "idle"
  /\ UNCHANGED <<state, used, loop, firstStart, cmd, main>>

SendActionAsState ==   \* slip: the action's name is sent for the state's
  /\ pc = "announce"
  /\ state' = Target(cmd)
  /\ announced' = cmd
  /\ pc' = "idle"
  /\ UNCHANGED <<used, loop, firstStart, cmd, main>>

\* setState, for the handlers that have not done it yet, and sendState.
SendState ==
  /\ pc = "announce"
  /\ state' = Target(cmd)
  /\ announced' = Target(cmd)
  /\ pc' = "idle"
  /\ UNCHANGED <<used, loop, firstStart, cmd, main>>

HookRunning(h) ==
  \/ pc = "firstHook" /\ h = "AtFirstStart"
  \/ pc = "hook" /\ h = cmd

\* A yaodaq::Exception is caught by the handler: error log, stopListening.
Throw(h) ==
  /\ HookRunning(h)
  /\ pc' = "closing"
  /\ UNCHANGED <<state, used, loop, firstStart, cmd, announced, main>>

\* Any other exception leaves the callback, and one of a loop leaves its
\* thread: std::terminate.
Terminate(h) ==
  /\ HookRunning(h) \/ (Alive /\ h \in Loop /\ loop[h] = "body")
  /\ pc' = "exited"
  /\ UNCHANGED <<state, used, loop, firstStart, cmd, announced, main>>

-----------------------------------------------------------------------------
(* The loop threads: while(getState() == ...) { DoLoopOn...(); } *)

Test(l) ==
  /\ Alive
  /\ loop[l] = "test"
  /\ loop' = [loop EXCEPT ![l] = IF state = LoopState(l) THEN "body" ELSE "ended"]
  /\ UNCHANGED <<state, used, firstStart, pc, cmd, announced, main>>

Body(l) ==
  /\ Alive
  /\ loop[l] = "body"
  /\ loop' = [loop EXCEPT ![l] = "test"]
  /\ UNCHANGED <<state, used, firstStart, pc, cmd, announced, main>>

-----------------------------------------------------------------------------
(* The main thread, and the end of the process. *)

\* onRaisingSignal returns (INT, TERM) and loop() calls stopListening.
Signal ==
  /\ Alive
  /\ main = "waiting"
  /\ main' = "closing"
  /\ UNCHANGED <<state, used, loop, firstStart, pc, cmd, announced>>

\* onRaisingSignal exits at once for a critical signal.
CriticalSignal ==
  /\ Alive
  /\ main = "waiting"
  /\ pc' = "exited"
  /\ UNCHANGED <<state, used, loop, firstStart, cmd, announced, main>>

\* std::exit at the end of stopListening, on either thread; nothing stops or
\* joins the loops on the way.
Exit ==
  /\ Alive
  /\ pc = "closing" \/ main = "closing"
  /\ pc' = "exited"
  /\ UNCHANGED <<state, used, loop, firstStart, cmd, announced, main>>

\* A process that is gone stays gone: not a deadlock.
Gone ==
  /\ pc = "exited"
  /\ UNCHANGED vars

-----------------------------------------------------------------------------

Handle == JoinLoopOnStart \/ JoinLoopOnPause \/ AtFirstStart \/ Hook \/ SendState

Next ==
  \/ BeginStart
  \/ BeginPause
  \/ BeginStop
  \/ \E a \in Action : BeginStage(a) \/ Reject(a)
  \/ JoinLoopOnStart
  \/ JoinLoopOnPause
  \/ AtFirstStart
  \/ Hook
  \/ SendState
  \/ \E h \in Faulty : Throw(h) \/ Terminate(h)
  \/ \E l \in Loop : Launch(l) \/ Test(l) \/ Body(l)
  \/ Signal
  \/ CriticalSignal
  \/ Exit
  \/ Gone

\* Each thread that can take a step takes one: the hooks return, an iteration
\* ends, the socket closes.  Nothing obliges a controller to send an action, a
\* hook to launch a loop or a signal to come.
Fairness ==
  /\ WF_vars(Handle)
  /\ \A l \in Loop : WF_vars(Test(l) \/ Body(l))
  /\ WF_vars(Exit)

SafeSpec == Init /\ [][Next]_vars
Spec == SafeSpec /\ Fairness

-----------------------------------------------------------------------------
(* Properties. *)

\* A loop's flag is set exactly while its std::thread is joinable: assigning a
\* new thread in LoopOnStart would otherwise terminate the process, and a join
\* would throw std::system_error, which the handlers do not catch.
FlagsMatchThreads ==
  \A l \in Loop : used[l] <=> loop[l] # "none"

\* While a hook runs, the only loop thread there may be is the one this very
\* hook creates: DoAtFirstStart, DoStop, DoConfigure and the others never
\* touch the hardware together with an iteration, DoPause never with one of
\* the start loop, DoStart never with one of the pause loop.  (DoStart does run
\* beside its own loop when a Start comes in state Started.)
HooksUndisturbed ==
  \A l \in Loop :
    loop[l] # "none" =>
      /\ pc # "firstHook"
      /\ pc = "hook" => cmd = LaunchedBy(l)

\* Between two actions the state the others were told is the state of the
\* module, and a loop thread is left only in the state it belongs to: Paused
\* means that the start loop is over, Stopped that both are.
AnnouncedIsTrue ==
  pc = "idle" =>
    /\ announced = state
    /\ \A l \in Loop : loop[l] # "none" => state = LoopState(l)

\* Every action that is taken is completed, unless the process ends: the joins
\* of Pause, Stop and Start do not wait for a loop that goes on for ever.
ActionsComplete == (pc \notin {"idle", "exited"}) ~> (pc \in {"idle", "exited"})

\* The module keeps the promises of RunControl.
Promise ==
  INSTANCE RunControl WITH
    visible <- announced,
    pending <- IF cmd = "None" THEN announced ELSE Target(cmd),
    acquiring <- Alive /\ loop["LoopOnStart"] = "body",
    alive <- Alive

KeepsPromises == Promise!Spec

=============================================================================
