---------------------------- MODULE Module_proofs ----------------------------
(***************************************************************************)
(* The safety properties of ModuleFsm and of Digitizer, proved for every   *)
(* set of throwing hooks, every size of a block and any number of events   *)
(* and runs.                                                               *)
(*                                                                         *)
(* Those of the state machine, whatever module it drives, follow from one  *)
(* inductive invariant, IInv: FlagsMatchThreads and AnnouncedIsTrue speak  *)
(* of the state between two actions, and it says where the handler is when *)
(* they are broken.                                                        *)
(*                                                                         *)
(* The board's hooks and iterations are steps of ModuleFsm, so that IInv   *)
(* holds of the digitizer too and says who runs beside whom; on top of it  *)
(* each property has an inductive invariant of its own that ties the       *)
(* board's variables to the place of the handler and of the iteration.     *)
(***************************************************************************)
EXTENDS Digitizer, TLAPS

-----------------------------------------------------------------------------
(* The state machine. *)

\* What the handler's position says of the action it handles and of m_State.
HandlerPhase ==
  /\ pc = "joinStart" => cmd \in {"Pause", "Stop"}
  /\ pc = "joinPause" => cmd \in {"Start", "Stop"}
  /\ pc = "firstHook" => cmd = "Start" /\ firstStart
  /\ pc \in {"hook", "announce"} => cmd \in Action
  /\ pc # "idle" /\ Alive /\ cmd \in {"Start", "Pause", "Stop"} => state = Target(cmd)
  /\ pc \in {"hook", "announce", "closing"} /\ cmd \notin {"Start", "Pause", "Stop"}
       => state \notin {"Started", "Paused"}
  /\ pc = "idle" => announced = state
  /\ cmd = "None" => state = "Uninitialized"
  /\ pc = "idle" /\ cmd # "None" => state = Target(cmd)

\* A loop thread is alive only in the state it belongs to, or while the handler
\* that is about to join it has not got past that join.
LoopPhase ==
  Alive =>
    /\ loop["LoopOnStart"] # "none" =>
         state = "Started" \/ (pc = "joinStart" /\ state \in {"Paused", "Stopped"})
    /\ loop["LoopOnPause"] # "none" =>
         \/ state = "Paused"
         \/ pc = "joinPause" /\ state \in {"Started", "Stopped"}
         \/ pc = "joinStart" /\ state = "Stopped"

\* A new run is due only when no start loop is left from the previous one.
FirstStartPhase ==
  Alive /\ firstStart =>
    /\ loop["LoopOnStart"] # "none" => pc = "joinStart" /\ cmd = "Stop"
    /\ state = "Started" => pc \in {"joinPause", "firstHook", "closing"}

IInv ==
  /\ TypeOK
  /\ FlagsMatchThreads
  /\ HandlerPhase
  /\ LoopPhase
  /\ FirstStartPhase

-----------------------------------------------------------------------------

\* An accepted action leads to a state, the state is left in one of two ways,
\* and only Start, Pause and Stop are accepted while a loop may be running.
LEMMA Chart ==
  ASSUME NEW a \in Action
  PROVE  /\ Target(a) \in State
         /\ AcceptedIn(a) \subseteq State
         /\ a \notin {"Start", "Pause", "Stop"} =>
              /\ Target(a) \notin {"Started", "Paused"}
              /\ AcceptedIn(a) \cap {"Started", "Paused"} = {}
BY DEF Action, State, Target, AcceptedIn

LEMMA RunTargets ==
  /\ Target("Start") = "Started"
  /\ Target("Pause") = "Paused"
  /\ Target("Stop") = "Stopped"
BY DEF Target

\* Every step keeps the types; that SendState does needs the handler's phase,
\* which says that an action is being handled.
LEMMA TypeStep == TypeOK /\ HandlerPhase /\ [Next]_vars => TypeOK'
<1> SUFFICES ASSUME TypeOK, HandlerPhase, [Next]_vars PROVE TypeOK'
  OBVIOUS
<1> USE DEF TypeOK, State, LoopPoint, HandlerPoint, Loop
<1>1. CASE BeginStart \/ BeginPause \/ BeginStop
  BY <1>1 DEF BeginStart, BeginPause, BeginStop, Accept, Action
<1>2. ASSUME NEW a \in Action, BeginStage(a) \/ Reject(a)  PROVE TypeOK'
  BY <1>2 DEF BeginStage, Reject, Accept, vars
<1>3. CASE JoinLoopOnStart
  BY <1>3 DEF JoinLoopOnStart, Join
<1>4. CASE JoinLoopOnPause
  BY <1>4 DEF JoinLoopOnPause, Join
<1>5. CASE AtFirstStart \/ Hook
  BY <1>5 DEF AtFirstStart, Hook
<1>6. CASE SendState
  BY <1>6, Chart DEF SendState, HandlerPhase
<1>7. ASSUME NEW h \in Faulty, Throw(h) \/ Terminate(h)  PROVE TypeOK'
  BY <1>7 DEF Throw, Terminate
<1>8. ASSUME NEW l \in Loop, Launch(l) \/ Test(l) \/ Body(l)  PROVE TypeOK'
  <2>1. CASE Launch(l)
    BY <2>1 DEF Launch
  <2>2. CASE Test(l)
    BY <2>2 DEF Test
  <2>3. CASE Body(l)
    BY <2>3 DEF Body
  <2> QED
    BY <1>8, <2>1, <2>2, <2>3
<1>9. CASE Signal \/ CriticalSignal \/ Exit \/ Gone
  BY <1>9 DEF Signal, CriticalSignal, Exit, Gone, vars
<1>10. CASE UNCHANGED vars
  BY <1>10 DEF vars
<1> QED
  BY <1>1, <1>2, <1>3, <1>4, <1>5, <1>6, <1>7, <1>8, <1>9, <1>10 DEF Next

LEMMA InitIInv == Init => IInv
BY DEF Init, IInv, TypeOK, State, Loop, LoopPoint, HandlerPoint, FlagsMatchThreads,
       HandlerPhase, LoopPhase, FirstStartPhase, Action

LEMMA FlagsStep == TypeOK /\ FlagsMatchThreads /\ [Next]_vars => FlagsMatchThreads'
<1> SUFFICES ASSUME TypeOK, FlagsMatchThreads, [Next]_vars PROVE FlagsMatchThreads'
  OBVIOUS
<1> USE DEF TypeOK, FlagsMatchThreads
<1>1. CASE JoinLoopOnStart \/ JoinLoopOnPause
  BY <1>1 DEF JoinLoopOnStart, JoinLoopOnPause, Join, Loop
<1>2. ASSUME NEW l \in Loop, Launch(l) \/ Test(l) \/ Body(l)  PROVE FlagsMatchThreads'
  BY <1>2 DEF Launch, Test, Body
<1>3. CASE UNCHANGED <<used, loop>>
  BY <1>3
<1> QED
  BY <1>1, <1>2, <1>3 DEF Next, vars, BeginStart, BeginPause, BeginStop, BeginStage,
     Reject, AtFirstStart, Hook, SendState, Throw, Terminate, Signal, CriticalSignal,
     Exit, Gone

LEMMA HandlerStep == IInv /\ [Next]_vars => HandlerPhase'
<1> SUFFICES ASSUME IInv, [Next]_vars PROVE HandlerPhase'
  OBVIOUS
<1> USE DEF IInv, HandlerPhase, Alive
<1>1. CASE BeginStart \/ BeginPause \/ BeginStop
  BY <1>1, RunTargets DEF BeginStart, BeginPause, BeginStop, Accept, Action
<1>2. ASSUME NEW a \in Action, BeginStage(a)  PROVE HandlerPhase'
  BY <1>2, Chart DEF Action, BeginStage, Accept
<1>3. CASE JoinLoopOnStart
  BY <1>3, RunTargets DEF JoinLoopOnStart, Action
<1>4. CASE JoinLoopOnPause
  BY <1>4, RunTargets DEF JoinLoopOnPause, Action
<1>5. CASE AtFirstStart \/ Hook
  BY <1>5, RunTargets DEF AtFirstStart, Hook, Action
<1>6. CASE SendState
  BY <1>6 DEF Action, SendState
<1>7. ASSUME NEW h \in Faulty, Throw(h) \/ Terminate(h)  PROVE HandlerPhase'
  BY <1>7 DEF Throw, Terminate, HookRunning
<1>8. ASSUME NEW l \in Loop, Launch(l) \/ Test(l) \/ Body(l)  PROVE HandlerPhase'
  BY <1>8 DEF Launch, Test, Body
<1>9. CASE Signal \/ CriticalSignal \/ Exit
  BY <1>9 DEF Signal, CriticalSignal, Exit
<1>10. CASE UNCHANGED vars
  BY <1>10 DEF vars
<1> QED
  BY <1>1, <1>2, <1>3, <1>4, <1>5, <1>6, <1>7, <1>8, <1>9, <1>10 DEF Next, Reject, Gone

LEMMA LoopStep == IInv /\ [Next]_vars => LoopPhase'
<1> SUFFICES ASSUME IInv, [Next]_vars PROVE LoopPhase'
  OBVIOUS
<1> USE DEF IInv, TypeOK, LoopPhase, Alive
<1>1. CASE BeginStart \/ BeginPause \/ BeginStop
  BY <1>1 DEF BeginStart, BeginPause, BeginStop, Accept, AcceptedIn
<1>2. ASSUME NEW a \in Action, BeginStage(a)  PROVE LoopPhase'
  BY <1>2, Chart DEF BeginStage, Accept
<1>3. CASE JoinLoopOnStart
  BY <1>3, RunTargets DEF JoinLoopOnStart, Join, Loop, FlagsMatchThreads, HandlerPhase
<1>4. CASE JoinLoopOnPause
  BY <1>4, RunTargets DEF JoinLoopOnPause, Join, Loop, FlagsMatchThreads, HandlerPhase
<1>5. CASE AtFirstStart \/ Hook
  BY <1>5 DEF AtFirstStart, Hook
<1>6. CASE SendState
  BY <1>6, RunTargets, Chart DEF SendState, HandlerPhase, Action, Target
<1>7. ASSUME NEW h \in Faulty, Throw(h) \/ Terminate(h)  PROVE LoopPhase'
  BY <1>7 DEF Throw, Terminate, HookRunning
<1>8. ASSUME NEW l \in Loop, Launch(l)  PROVE LoopPhase'
  BY <1>8, RunTargets DEF Launch, LaunchedBy, Loop, HandlerPhase
<1>9. ASSUME NEW l \in Loop, Test(l) \/ Body(l)  PROVE LoopPhase'
  BY <1>9 DEF Test, Body, Loop
<1>10. CASE Signal \/ CriticalSignal \/ Exit
  BY <1>10 DEF Signal, CriticalSignal, Exit
<1>11. CASE UNCHANGED vars
  BY <1>11 DEF vars
<1> QED
  BY <1>1, <1>2, <1>3, <1>4, <1>5, <1>6, <1>7, <1>8, <1>9, <1>10, <1>11
  DEF Next, Reject, Gone

LEMMA FirstStartStep == IInv /\ [Next]_vars => FirstStartPhase'
<1> SUFFICES ASSUME IInv, [Next]_vars PROVE FirstStartPhase'
  OBVIOUS
<1> USE DEF IInv, TypeOK, FirstStartPhase, Alive
<1>1. CASE BeginStart \/ BeginPause \/ BeginStop
  BY <1>1 DEF BeginStart, BeginPause, BeginStop, Accept, AcceptedIn
<1>2. ASSUME NEW a \in Action, BeginStage(a)  PROVE FirstStartPhase'
  BY <1>2, Chart DEF BeginStage, Accept
<1>3. CASE JoinLoopOnStart
  BY <1>3, RunTargets DEF JoinLoopOnStart, Join, Loop, FlagsMatchThreads, HandlerPhase
<1>4. CASE JoinLoopOnPause
  BY <1>4, RunTargets DEF JoinLoopOnPause, Join, Loop, FlagsMatchThreads, HandlerPhase
<1>5. CASE AtFirstStart \/ Hook
  BY <1>5 DEF AtFirstStart, Hook
<1>6. CASE SendState
  BY <1>6, RunTargets DEF SendState, HandlerPhase, Action, Target
<1>7. ASSUME NEW h \in Faulty, Throw(h) \/ Terminate(h)  PROVE FirstStartPhase'
  BY <1>7 DEF Throw, Terminate, HookRunning
<1>8. ASSUME NEW l \in Loop, Launch(l)  PROVE FirstStartPhase'
  BY <1>8, RunTargets DEF Launch, LaunchedBy, Loop, HandlerPhase
<1>9. ASSUME NEW l \in Loop, Test(l) \/ Body(l)  PROVE FirstStartPhase'
  BY <1>9 DEF Test, Body, Loop
<1>10. CASE Signal \/ CriticalSignal \/ Exit
  BY <1>10 DEF Signal, CriticalSignal, Exit
<1>11. CASE UNCHANGED vars
  BY <1>11 DEF vars
<1> QED
  BY <1>1, <1>2, <1>3, <1>4, <1>5, <1>6, <1>7, <1>8, <1>9, <1>10, <1>11
  DEF Next, Reject, Gone

LEMMA IInvStep == IInv /\ [Next]_vars => IInv'
BY TypeStep, FlagsStep, HandlerStep, LoopStep, FirstStartStep DEF IInv

\* The inductive invariant.
THEOREM Invariance == Spec => []IInv
BY InitIInv, IInvStep, PTL DEF Spec, SafeSpec

\* Every variable of a module always has its type: no action writes a state
\* that is not one of STATE, whatever hook throws.
THEOREM TypeCorrect == Spec => []TypeOK
<1>1. IInv => TypeOK
  BY DEF IInv
<1> QED
  BY Invariance, <1>1, PTL

\* m_LoopOn*Used is true exactly while the thread is joinable.
THEOREM FlagsCorrect == Spec => []FlagsMatchThreads
<1>1. IInv => FlagsMatchThreads
  BY DEF IInv
<1> QED
  BY Invariance, <1>1, PTL

\* No hook runs while a loop thread it did not create is alive.
THEOREM HooksAlone == Spec => []HooksUndisturbed
<1>1. IInv => HooksUndisturbed
  BY RunTargets DEF IInv, HooksUndisturbed, HandlerPhase, LoopPhase, FirstStartPhase,
     Alive, Loop, LaunchedBy, Action
<1> QED
  BY Invariance, <1>1, PTL

\* What was announced is true between two actions.
THEOREM AnnouncedCorrect == Spec => []AnnouncedIsTrue
<1>1. IInv => AnnouncedIsTrue
  BY DEF IInv, AnnouncedIsTrue, HandlerPhase, LoopPhase, Alive, Loop, LoopState
<1> QED
  BY Invariance, <1>1, PTL

-----------------------------------------------------------------------------
(* ModuleFsm implements the safety part of RunControl. *)

\* Every move of the code is an edge of the chart, or repeats a stage.
LEMMA MovesAreOnTheChart ==
  ASSUME NEW a \in Action, NEW s \in AcceptedIn(a)
  PROVE  s = Target(a) \/ <<s, Target(a)>> \in Promise!Chart
BY DEF Action, AcceptedIn, Target, Promise!Chart, Promise!Ring, Promise!Shortcut

LEMMA PromiseInit == Init => Promise!Init
BY DEF Init, Alive, Promise!Init, Loop

LEMMA PromiseStep == IInv /\ [Next]_vars => [Promise!Next]_(Promise!vars)
<1> SUFFICES ASSUME IInv, [Next]_vars PROVE [Promise!Next]_(Promise!vars)
  OBVIOUS
<1> USE DEF IInv, TypeOK, Alive
<1>a. ASSUME NEW a \in Action, Accept(a, pc'), pc' # "exited",
             UNCHANGED <<announced, loop>>
      PROVE  [Promise!Next]_(Promise!vars)
  <2>1. a # "None" /\ cmd' = a /\ state \in AcceptedIn(a) /\ announced = state
    BY <1>a DEF Accept, Action, HandlerPhase
  <2>2. (IF cmd = "None" THEN announced ELSE Target(cmd)) = announced
    BY <1>a DEF Accept, HandlerPhase
  <2>3. CASE state = Target(a)
    BY <2>1, <2>2, <2>3, <1>a DEF Promise!vars, Accept
  <2>4. CASE <<state, Target(a)>> \in Promise!Chart
    <3>1. Target(a) \in {e[2] : e \in Promise!Chart}
      BY <2>4
    <3>2. Promise!Undertake(Target(a))
      BY <2>1, <2>2, <2>4, <1>a DEF Promise!Undertake, Accept
    <3> QED
      BY <3>1, <3>2 DEF Promise!Next
  <2> QED
    BY <2>1, <2>3, <2>4, MovesAreOnTheChart
<1>1. CASE BeginStart \/ BeginPause \/ BeginStop
  BY <1>1, <1>a DEF BeginStart, BeginPause, BeginStop, Accept, Action
<1>2. ASSUME NEW a \in Action, BeginStage(a)  PROVE [Promise!Next]_(Promise!vars)
  BY <1>2, <1>a DEF BeginStage, Accept
<1>3. CASE JoinLoopOnStart \/ JoinLoopOnPause
  BY <1>3 DEF JoinLoopOnStart, JoinLoopOnPause, Join, Loop, Promise!vars
<1>4. CASE AtFirstStart \/ Hook
  BY <1>4 DEF AtFirstStart, Hook, Promise!vars
<1>5. CASE SendState
  <2>1. /\ cmd \in Action /\ cmd # "None" /\ UNCHANGED <<cmd, loop>>
        /\ announced' = Target(cmd) /\ pc = "announce" /\ pc' = "idle"
    BY <1>5 DEF SendState, HandlerPhase, Action
  <2>2. CASE announced = Target(cmd)
    BY <2>1, <2>2 DEF Promise!vars
  <2>3. CASE announced # Target(cmd)
    <3>1. Target(cmd) = "Started" \/ loop["LoopOnStart"] # "body"
      BY <2>1, RunTargets, Chart DEF LoopPhase, HandlerPhase, Target
    <3>2. Promise!Announce
      BY <2>1, <2>3, <3>1 DEF Promise!Announce
    <3> QED
      BY <3>2 DEF Promise!Next
  <2> QED
    BY <2>2, <2>3
<1>6. ASSUME pc # "exited", pc' = "exited", UNCHANGED <<cmd, announced>>
      PROVE  [Promise!Next]_(Promise!vars)
  <2>1. Promise!Die
    BY <1>6 DEF Promise!Die
  <2> QED
    BY <2>1 DEF Promise!Next
<1>7. ASSUME NEW h \in Faulty, Throw(h) \/ Terminate(h)
      PROVE  [Promise!Next]_(Promise!vars)
  BY <1>7, <1>6 DEF Throw, Terminate, HookRunning, Promise!vars
<1>8. ASSUME NEW l \in Loop, Launch(l)  PROVE [Promise!Next]_(Promise!vars)
  BY <1>8 DEF Launch, Loop, FlagsMatchThreads, Promise!vars
<1>9. ASSUME NEW l \in Loop, Test(l)  PROVE [Promise!Next]_(Promise!vars)
  <2>1. CASE l = "LoopOnStart" /\ state = "Started"
    <3>1. cmd # "None" /\ Target(cmd) = "Started"
      <4>1. cmd # "None" /\ cmd \in Action
        BY <2>1 DEF HandlerPhase
      <4>2. CASE pc = "idle" \/ cmd \in {"Start", "Pause", "Stop"}
        BY <1>9, <2>1, <4>1, <4>2 DEF HandlerPhase, Test
      <4>3. CASE pc # "idle" /\ cmd \notin {"Start", "Pause", "Stop"}
        BY <1>9, <2>1, <4>3 DEF HandlerPhase, HandlerPoint, Test
      <4> QED
        BY <4>1, <4>2, <4>3
    <3>2. Promise!Acquire
      BY <1>9, <2>1, <3>1 DEF Test, LoopState, Promise!Acquire, Loop
    <3> QED
      BY <3>2 DEF Promise!Next
  <2>2. CASE ~(l = "LoopOnStart" /\ state = "Started")
    BY <1>9, <2>2 DEF Test, LoopState, Loop, Promise!vars
  <2> QED
    BY <2>1, <2>2
<1>10. ASSUME NEW l \in Loop, Body(l)  PROVE [Promise!Next]_(Promise!vars)
  <2>1. CASE l = "LoopOnStart"
    BY <1>10, <2>1 DEF Body, Loop, Promise!Next, Promise!Rest
  <2>2. CASE l = "LoopOnPause"
    BY <1>10, <2>2 DEF Body, Loop, Promise!vars
  <2> QED
    BY <2>1, <2>2 DEF Loop
<1>11. CASE Signal \/ CriticalSignal \/ Exit
  BY <1>11, <1>6 DEF Signal, CriticalSignal, Exit, Promise!vars
<1>12. CASE UNCHANGED vars
  BY <1>12 DEF vars, Promise!vars
<1> QED
  BY <1>1, <1>2, <1>3, <1>4, <1>5, <1>7, <1>8, <1>9, <1>10, <1>11, <1>12
  DEF Next, Reject, Gone

\* A module never moves off the chart, never announces Paused or Stopped with an
\* iteration in progress, and begins none after it has accepted to pause or stop.
THEOREM Refinement == Spec => Promise!SafeSpec
BY Invariance, PromiseInit, PromiseStep, PTL DEF Spec, SafeSpec, Promise!SafeSpec


-----------------------------------------------------------------------------
(* The digitizer is a module. *)

\* Every step of the control is one of the state machine.
LEMMA ControlIsNext == Control => Next
BY DEF Control, Next

\* Every step of the board is a step of the state machine, or leaves it alone.
LEMMA BoardSteps == [DNext]_dvars => [Next]_vars
<1> SUFFICES ASSUME [DNext]_dvars PROVE [Next]_vars
  OBVIOUS
<1>1. CASE Control
  BY <1>1, ControlIsNext
<1>2. CASE DoAtFirstStart
  BY <1>2 DEF DoAtFirstStart, Next
<1>3. CASE DoStartLaunch
  BY <1>3 DEF DoStartLaunch, Next, Loop
<1>4. CASE DoStart \/ DoPause \/ DoStop \/ OtherHook
  BY <1>4 DEF DoStart, DoPause, DoStop, OtherHook, Next
<1>5. CASE StartAcquisition \/ ReadBlock \/ ReadFails \/ SendEvent
  BY <1>5 DEF StartAcquisition, ReadBlock, ReadFails, SendEvent
<1>6. CASE EndIteration
  BY <1>6 DEF EndIteration, Next, Loop
<1>7. CASE UNCHANGED dvars
  BY <1>7 DEF dvars
<1> QED
  BY <1>1, <1>2, <1>3, <1>4, <1>5, <1>6, <1>7 DEF DNext

\* What ModuleFsm proves of the state machine holds of the digitizer's.
THEOREM Inherited == DSpec => []IInv
<1>1. DInit => IInv
  BY InitIInv DEF DInit
<1>2. IInv /\ [DNext]_dvars => IInv'
  BY BoardSteps, IInvStep
<1> QED
  BY <1>1, <1>2, PTL DEF DSpec

-----------------------------------------------------------------------------
(* The buffer. *)

\* A run has begun and not been stopped, or its start loop is still there.
Running == ~firstStart \/ loop["LoopOnStart"] # "none"

\* The buffer is there as long as a run goes on: DoStop, which frees it, comes
\* after BeginStop has called the next Start a first one and the loop is joined.
BufferPhase ==
  /\ cmd = "Stop" => firstStart
  /\ Running => buffer = "allocated"

\* The buffer is freed only where the loop no longer runs.
LEMMA BufferStep == IInv /\ BufferPhase /\ [DNext]_dvars => BufferPhase'
<1> SUFFICES ASSUME IInv, BufferPhase, [DNext]_dvars PROVE BufferPhase'
  OBVIOUS
<1> USE DEF IInv, TypeOK, Loop, BufferPhase, Running
<1>1. ASSUME Control, UNCHANGED boardVars PROVE BufferPhase'
  <2> USE <1>1 DEF boardVars, board
  <2>1. CASE BeginStart
    BY <2>1 DEF BeginStart, Accept
  <2>2. CASE BeginPause
    BY <2>2 DEF BeginPause, Accept
  <2>3. CASE BeginStop
    <3>1. loop["LoopOnStart"] # "none" \/ ~firstStart => buffer = "allocated"
      OBVIOUS
    <3> QED
      BY <2>3, <3>1 DEF BeginStop, Accept
  <2>4. ASSUME NEW a \in Action, BeginStage(a) PROVE BufferPhase'
    BY <2>4 DEF BeginStage, Accept
  <2>5. CASE JoinLoopOnStart \/ JoinLoopOnPause
    BY <2>5 DEF JoinLoopOnStart, JoinLoopOnPause, Join
  <2>6. CASE SendState
    BY <2>6 DEF SendState
  <2>7. ASSUME NEW l \in Loop, Test(l) PROVE BufferPhase'
    BY <2>7 DEF Test
  <2>8. ASSUME NEW h \in Faulty, Throw(h) \/ Terminate(h) PROVE BufferPhase'
    BY <2>8 DEF Throw, Terminate
  <2>9. CASE Signal \/ Exit \/ Gone
    BY <2>9 DEF Signal, Exit, Gone, vars
  <2> QED
    BY <2>1, <2>2, <2>3, <2>4, <2>5, <2>6, <2>7, <2>8, <2>9 DEF Control
<1>2. CASE DoAtFirstStart
  BY <1>2 DEF DoAtFirstStart, AtFirstStart, MallocReadoutBuffer, HandlerPhase
<1>3. CASE DoStartLaunch
  \* DoStart is past DoAtFirstStart, so that the run is no first start any more.
  <2>1. pc = "hook" /\ cmd = "Start" /\ state = "Started"
    BY <1>3, RunTargets DEF DoStartLaunch, Launch, LaunchedBy, HandlerPhase, Alive
  <2>2. ~firstStart
    BY <2>1 DEF FirstStartPhase, Alive
  <2> QED
    BY <1>3, <2>2 DEF DoStartLaunch, Launch, boardVars, board
<1>4. CASE DoStop
  \* Both loops have been joined.
  <2>1. loop["LoopOnStart"] = "none"
    BY <1>4, RunTargets DEF DoStop, Hook, HandlerPhase, LoopPhase, Alive
  <2> QED
    BY <1>4, <2>1 DEF DoStop, Hook
<1>5. CASE DoStart \/ DoPause \/ OtherHook
  BY <1>5 DEF DoStart, DoPause, OtherHook, Hook, boardVars, board
<1>6. CASE StartAcquisition \/ ReadBlock \/ ReadFails \/ SendEvent
  BY <1>6 DEF StartAcquisition, ReadBlock, ReadFails, SendEvent, vars, board
<1>7. CASE EndIteration
  BY <1>7 DEF EndIteration, Body, board, Iterating
<1>8. CASE UNCHANGED dvars
  BY <1>8 DEF dvars, vars, boardVars, board
<1> QED
  BY <1>1, <1>2, <1>3, <1>4, <1>5, <1>6, <1>7, <1>8 DEF DNext

\* The loop never reads into a buffer that is not there.
THEOREM BufferCorrect == DSpec => []BufferThereWhenRead
<1>1. DInit => BufferPhase
  BY DEF DInit, Init, BufferPhase, Running, Loop
<1>2. BufferPhase => BufferThereWhenRead
  BY DEF BufferPhase, Running, BufferThereWhenRead, Iterating
<1> QED
  BY Inherited, BufferStep, <1>1, <1>2, PTL DEF DSpec

-----------------------------------------------------------------------------
(* The acquisition. *)

\* Switched on by an iteration, the acquisition outlives the loop's thread only as
\* far as the hook of the action the thread was joined for.
AcquiringPhase ==
  acquiring =>
    \/ loop["LoopOnStart"] # "none"
    \/ pc = "joinPause" /\ cmd = "Stop"
    \/ pc = "hook" /\ cmd \in {"Pause", "Stop"}
    \/ pc \in {"closing", "exited"}

\* An acquisition begins only in the loop and ends before the module comes to rest.
LEMMA AcquiringStep == IInv /\ AcquiringPhase /\ [DNext]_dvars => AcquiringPhase'
<1> SUFFICES ASSUME IInv, AcquiringPhase, [DNext]_dvars PROVE AcquiringPhase'
  OBVIOUS
<1> USE DEF IInv, TypeOK, Loop, AcquiringPhase
<1>1. ASSUME Control, UNCHANGED boardVars PROVE AcquiringPhase'
  <2> USE <1>1 DEF boardVars, board
  <2>1. CASE BeginStart \/ BeginPause \/ BeginStop
    BY <2>1 DEF BeginStart, BeginPause, BeginStop, Accept
  <2>2. ASSUME NEW a \in Action, BeginStage(a) PROVE AcquiringPhase'
    BY <2>2 DEF BeginStage, Accept
  <2>3. CASE JoinLoopOnStart
    BY <2>3 DEF JoinLoopOnStart, Join, HandlerPhase
  <2>4. CASE JoinLoopOnPause
    BY <2>4 DEF JoinLoopOnPause, Join
  <2>5. CASE SendState
    BY <2>5 DEF SendState
  <2>6. ASSUME NEW l \in Loop, Test(l) PROVE AcquiringPhase'
    BY <2>6 DEF Test
  <2>7. ASSUME NEW h \in Faulty, Throw(h) \/ Terminate(h) PROVE AcquiringPhase'
    BY <2>7 DEF Throw, Terminate
  <2>8. CASE Signal \/ Exit \/ Gone
    BY <2>8 DEF Signal, Exit, Gone, vars
  <2> QED
    BY <2>1, <2>2, <2>3, <2>4, <2>5, <2>6, <2>7, <2>8 DEF Control
<1>2. CASE DoAtFirstStart
  BY <1>2 DEF DoAtFirstStart, AtFirstStart
<1>3. CASE DoStartLaunch
  BY <1>3 DEF DoStartLaunch, Launch, boardVars, board
<1>4. CASE DoPause \/ DoStop
  BY <1>4 DEF DoPause, DoStop, SWStopAcquisition
<1>5. CASE DoStart \/ OtherHook
  BY <1>5 DEF DoStart, OtherHook, Hook, boardVars, board
<1>6. CASE StartAcquisition
  BY <1>6 DEF StartAcquisition, Iterating, vars
<1>7. CASE ReadBlock \/ ReadFails \/ SendEvent
  BY <1>7 DEF ReadBlock, ReadFails, SendEvent, vars, board
<1>8. CASE EndIteration
  BY <1>8 DEF EndIteration, Body, board, Iterating
<1>9. CASE UNCHANGED dvars
  BY <1>9 DEF dvars, vars, boardVars, board
<1> QED
  BY <1>1, <1>2, <1>3, <1>4, <1>5, <1>6, <1>7, <1>8, <1>9 DEF DNext

\* A board at rest is not acquiring, whatever iteration was under way when the
\* action came.
THEOREM AcquisitionCorrect == DSpec => []AcquisitionOffAtRest
<1>1. DInit => AcquiringPhase
  BY DEF DInit, AcquiringPhase
<1>2. IInv /\ AcquiringPhase => AcquisitionOffAtRest
  BY DEF IInv, AcquiringPhase, AcquisitionOffAtRest, LoopPhase, Alive
<1> QED
  BY Inherited, AcquiringStep, <1>1, <1>2, PTL DEF DSpec

-----------------------------------------------------------------------------
(* Types. *)

\* An iteration is under way only while its thread is in DoLoopOnStart.
IterationPhase == at # "begin" => loop["LoopOnStart"] = "body"

\* Of the counts of runs: the bound is met before a run begins, and the loop sends
\* nothing before the first.
RunPhase ==
  /\ events = run
  /\ Running => run >= 1
  /\ pc \in {"joinPause", "firstHook"} /\ cmd = "Start" /\ firstStart => run < MaxRuns

DInv == IInv /\ BufferPhase /\ IterationPhase /\ RunPhase

\* An iteration that is under way is that of a loop that runs.
LEMMA IterationStep == IInv /\ IterationPhase /\ [DNext]_dvars => IterationPhase'
<1> SUFFICES ASSUME IInv, IterationPhase, [DNext]_dvars PROVE IterationPhase'
  OBVIOUS
<1> USE DEF IInv, TypeOK, Loop, IterationPhase
<1>1. ASSUME Control, UNCHANGED boardVars PROVE IterationPhase'
  <2> USE <1>1 DEF boardVars, loopVars
  <2>1. CASE JoinLoopOnStart \/ JoinLoopOnPause
    BY <2>1 DEF JoinLoopOnStart, JoinLoopOnPause, Join
  <2>2. ASSUME NEW l \in Loop, Test(l) PROVE IterationPhase'
    BY <2>2 DEF Test
  <2>3. CASE UNCHANGED loop
    BY <2>3
  <2> QED
    BY <2>1, <2>2, <2>3 DEF Control, BeginStart, BeginPause, BeginStop, BeginStage,
       SendState, Throw, Terminate, Signal, Exit, Gone, vars
<1>2. CASE DoAtFirstStart
  BY <1>2 DEF DoAtFirstStart, AtFirstStart, loopVars
<1>3. CASE DoStartLaunch
  BY <1>3 DEF DoStartLaunch, Launch, boardVars, loopVars, FlagsMatchThreads
<1>4. CASE DoStart \/ DoPause \/ DoStop \/ OtherHook
  BY <1>4 DEF DoStart, DoPause, DoStop, OtherHook, Hook, boardVars, loopVars
<1>5. CASE StartAcquisition \/ ReadBlock \/ ReadFails \/ SendEvent
  BY <1>5 DEF StartAcquisition, ReadBlock, ReadFails, SendEvent, Iterating, vars
<1>6. CASE EndIteration
  BY <1>6 DEF EndIteration
<1>7. CASE UNCHANGED dvars
  BY <1>7 DEF dvars, vars, boardVars, loopVars
<1> QED
  BY <1>1, <1>2, <1>3, <1>4, <1>5, <1>6, <1>7 DEF DNext

\* A loop that runs belongs to a run that has been counted.
LEMMA RunStep == DInv /\ DTypeOK /\ [DNext]_dvars => RunPhase'
<1> SUFFICES ASSUME DInv, DTypeOK, [DNext]_dvars PROVE RunPhase'
  OBVIOUS
<1> USE BoundsAssumption DEF DInv, DTypeOK, IInv, TypeOK, Loop, RunPhase, Running
<1>1. ASSUME Control, UNCHANGED boardVars PROVE RunPhase'
  <2> USE <1>1 DEF boardVars, board, history
  <2>1. CASE BeginStart /\ (firstStart => run < MaxRuns)
    BY <2>1 DEF BeginStart, Accept
  <2>2. CASE BeginPause
    BY <2>2 DEF BeginPause, Accept
  <2>3. CASE BeginStop
    <3>1. loop["LoopOnStart"] # "none" \/ ~firstStart => run >= 1
      OBVIOUS
    <3> QED
      BY <2>3, <3>1 DEF BeginStop, Accept
  <2>4. ASSUME NEW a \in Action, BeginStage(a) PROVE RunPhase'
    BY <2>4 DEF BeginStage, Accept
  <2>5. CASE JoinLoopOnStart
    BY <2>5 DEF JoinLoopOnStart, Join, HandlerPhase
  <2>6. CASE JoinLoopOnPause
    BY <2>6 DEF JoinLoopOnPause, Join
  <2>7. CASE SendState
    BY <2>7 DEF SendState
  <2>8. ASSUME NEW l \in Loop, Test(l) PROVE RunPhase'
    BY <2>8 DEF Test
  <2>9. ASSUME NEW h \in Faulty, Throw(h) \/ Terminate(h) PROVE RunPhase'
    BY <2>9 DEF Throw, Terminate
  <2>10. CASE Signal \/ Exit \/ Gone
    BY <2>10 DEF Signal, Exit, Gone, vars
  <2> QED
    BY <2>1, <2>2, <2>3, <2>4, <2>5, <2>6, <2>7, <2>8, <2>9, <2>10 DEF Control
<1>2. CASE DoAtFirstStart
  BY <1>2 DEF DoAtFirstStart, AtFirstStart
<1>3. CASE DoStartLaunch
  <2>1. pc = "hook" /\ cmd = "Start" /\ state = "Started"
    BY <1>3, RunTargets DEF DoStartLaunch, Launch, LaunchedBy, HandlerPhase, Alive
  <2>2. ~firstStart
    BY <2>1 DEF FirstStartPhase, Alive
  <2> QED
    BY <1>3, <2>2 DEF DoStartLaunch, Launch, boardVars, board, history
<1>4. CASE DoStart \/ DoPause \/ DoStop \/ OtherHook
  BY <1>4 DEF DoStart, DoPause, DoStop, OtherHook, Hook, boardVars, board, history
<1>5. CASE StartAcquisition \/ ReadBlock \/ ReadFails \/ SendEvent
  BY <1>5 DEF StartAcquisition, ReadBlock, ReadFails, SendEvent, vars, board, history
<1>6. CASE EndIteration
  BY <1>6 DEF EndIteration, Body, board, history, Iterating
<1>7. CASE UNCHANGED dvars
  BY <1>7 DEF dvars, vars, boardVars, board, history
<1> QED
  BY <1>1, <1>2, <1>3, <1>4, <1>5, <1>6, <1>7 DEF DNext

\* Every step keeps the board's types.
LEMMA BoardTypeStep == DInv /\ DTypeOK /\ [DNext]_dvars => DTypeOK'
<1> SUFFICES ASSUME DInv, DTypeOK, [DNext]_dvars PROVE DTypeOK'
  OBVIOUS
<1>1. TypeOK'
  BY BoardSteps, IInvStep DEF DInv, IInv
<1> USE BoundsAssumption, <1>1 DEF DTypeOK
<1>2. CASE UNCHANGED boardVars
  BY <1>2 DEF boardVars, board, loopVars, history
<1>3. CASE DoAtFirstStart
  <2>1. run < MaxRuns /\ events < MaxRuns
    BY <1>3, RunTargets DEF DoAtFirstStart, AtFirstStart, DInv, IInv, HandlerPhase, RunPhase
  <2>2. block' \in Seq(1..MaxEvents)
    <3>1. << >> \in Seq(1..MaxEvents)
      OBVIOUS
    <3> QED
      BY <1>3, <3>1 DEF DoAtFirstStart
  <2> QED
    BY <1>3, <2>1, <2>2 DEF DoAtFirstStart, MallocReadoutBuffer, loopVars
<1>4. CASE DoPause
  BY <1>4 DEF DoPause, SWStopAcquisition, loopVars, history
<1>5. CASE DoStop
  BY <1>5 DEF DoStop, SWStopAcquisition, FreeReadoutBuffer, history
<1>6. CASE StartAcquisition
  BY <1>6 DEF StartAcquisition, SWStartAcquisition, history
<1>7. CASE ReadBlock
  <2> PICK n \in 0..PerRead : hw + n <= MaxEvents /\ block' = [i \in 1..n |-> hw + i]
                              /\ hw' = hw + n
    BY <1>7 DEF ReadBlock
  <2>1. block' \in Seq(1..MaxEvents)
    OBVIOUS
  <2>2. hw' \in 0..MaxEvents
    OBVIOUS
  <2> QED
    BY <1>7, <2>1, <2>2 DEF ReadBlock
<1>8. CASE ReadFails
  BY <1>8 DEF ReadFails, board
<1>9. CASE SendEvent
  <2>1. run \in 1..MaxRuns
    BY <1>9 DEF SendEvent, Iterating, DInv, RunPhase, Running
  <2>2. block[next] \in 1..MaxEvents
    BY <1>9 DEF SendEvent, GetNumEvents
  <2>3. sent' \in Seq([event : 1..MaxEvents, run : 1..MaxRuns, number : Nat \ {0}])
    BY <1>9, <2>1, <2>2 DEF SendEvent
  <2> QED
    BY <1>9, <2>3 DEF SendEvent, board
<1>10. CASE EndIteration
  BY <1>10 DEF EndIteration, board, history
<1> QED
  BY <1>2, <1>3, <1>4, <1>5, <1>6, <1>7, <1>8, <1>9, <1>10
  DEF DNext, DoStartLaunch, DoStart, OtherHook, dvars

\* The phases hold of a board that has not been initialized.
LEMMA DInvInit == DInit => DInv /\ DTypeOK
<1> SUFFICES ASSUME DInit PROVE DInv /\ DTypeOK
  OBVIOUS
<1>1. IInv
  BY InitIInv DEF DInit
<1>2. BufferPhase /\ IterationPhase /\ RunPhase
  BY BoundsAssumption DEF DInit, Init, BufferPhase, IterationPhase, RunPhase, Running, Loop
<1>3. block \in Seq(1..MaxEvents)
      /\ sent \in Seq([event : 1..MaxEvents, run : 1..MaxRuns, number : Nat \ {0}])
  BY DEF DInit
<1>4. TypeOK
  BY <1>1 DEF IInv
<1>5. events \in 0..MaxRuns /\ run \in 0..MaxRuns /\ hw \in 0..MaxEvents
  BY BoundsAssumption DEF DInit
<1>6. buffer \in {"null", "allocated"} /\ at \in {"begin", "read", "send"}
  BY DEF DInit
<1>7. acquiring \in BOOLEAN /\ readFailed \in BOOLEAN
  BY DEF DInit
<1>8. next \in Nat \ {0} /\ eventNumber \in Nat
  BY DEF DInit
<1>9. DTypeOK
  BY <1>3, <1>4, <1>5, <1>6, <1>7, <1>8 DEF DTypeOK
<1> QED
  BY <1>1, <1>2, <1>9 DEF DInv

\* Every step keeps the phases and the types.
LEMMA DInvStep == DInv /\ DTypeOK /\ [DNext]_dvars => DInv' /\ DTypeOK'
BY BoardSteps, IInvStep, BufferStep, IterationStep, RunStep, BoardTypeStep DEF DInv

\* The phases of the loop, of the run and of the block under way, together with the
\* types: what the digitizer's safety invariants follow from.
THEOREM DInvariance == DSpec => [](DInv /\ DTypeOK)
BY DInvInit, DInvStep, PTL DEF DSpec

\* Every variable of the board has its type: in particular the loop never takes an
\* event from beyond its block, and no message is sent that belongs to no run.
THEOREM DigitizerTypeCorrect == DSpec => []DTypeOK
BY DInvariance, PTL

-----------------------------------------------------------------------------
(* No event is held back. *)

\* The steps that touch neither the events handed out and sent, nor the block
\* while an iteration goes through it.
Elsewhere == UNCHANGED <<hw, sent, readFailed>> /\ at # "send" /\ at' # "send"

\* A step reads, fails to, sends, ends the iteration, or touches no event.
LEMMA IterationSteps ==
  ASSUME IInv, IterationPhase, [DNext]_dvars
  PROVE  \/ ReadBlock
         \/ ReadFails
         \/ SendEvent
         \/ EndIteration
         \/ Elsewhere
         \/ UNCHANGED <<at, block, next, hw, sent, readFailed>>
<1> USE DEF boardVars, board, loopVars, history
<1>1. CASE UNCHANGED boardVars
  BY <1>1
<1>2. CASE DoAtFirstStart
  <2>1. loop["LoopOnStart"] = "none"
    BY <1>2 DEF DoAtFirstStart, AtFirstStart, IInv, HandlerPhase, FirstStartPhase, Alive
  <2> QED
    BY <1>2, <2>1 DEF DoAtFirstStart, IterationPhase, Elsewhere
<1>3. CASE DoPause
  BY <1>3 DEF DoPause
<1>4. CASE DoStop
  BY <1>4 DEF DoStop
<1>5. CASE StartAcquisition
  BY <1>5 DEF StartAcquisition, Iterating, Elsewhere
<1> QED
  BY <1>1, <1>2, <1>3, <1>4, <1>5 DEF DNext, DoStartLaunch, DoStart, OtherHook, dvars

\* An event that has been handed out has been sent, or is still to come in the
\* block of the iteration under way.
HeldInBlock(e) == at = "send" /\ \E j \in next..Len(block) : block[j] = e
IsSent(e) == \E i \in 1..Len(sent) : sent[i].event = e
BlockPhase == \A e \in 1..hw : IsSent(e) \/ HeldInBlock(e)

\* Sending appends one message to what has been sent.
LEMMA SentGrows ==
  ASSUME DTypeOK, SendEvent
  PROVE  LET new == [event |-> block[next], run |-> run, number |-> eventNumber']
         IN /\ Len(sent') = Len(sent) + 1
            /\ \A i \in 1..Len(sent) : sent'[i] = sent[i]
            /\ sent'[Len(sent) + 1] = new
BY DEF DTypeOK, SendEvent

\* Every event handed out is sent or in the block still to be sent.
LEMMA BlockStep ==
  ASSUME IInv, DTypeOK, IterationPhase, BlockPhase, [DNext]_dvars
  PROVE  BlockPhase'
<1> SUFFICES ASSUME NEW e \in 1..hw' PROVE IsSent(e)' \/ HeldInBlock(e)'
  BY DEF BlockPhase
<1> USE DEF DTypeOK
<1>1. CASE ReadBlock
  <2> PICK n \in 0..PerRead : hw + n <= MaxEvents /\ block' = [i \in 1..n |-> hw + i]
                              /\ hw' = hw + n
    BY <1>1 DEF ReadBlock
  <2>1. CASE e <= hw
    <3>1. IsSent(e)
      BY <1>1, <2>1 DEF ReadBlock, Iterating, BlockPhase, HeldInBlock
    <3> QED
      BY <1>1, <3>1 DEF ReadBlock, IsSent
  <2>2. CASE e > hw
    <3>1. n \in Nat /\ Len(block') = n
      BY BoundsAssumption
    <3>2. e - hw \in 1..n /\ block'[e - hw] = e
      BY <2>2, <3>1
    <3>3. next' = 1 /\ at' = "send"
      BY <1>1 DEF ReadBlock
    <3> QED
      BY <3>1, <3>2, <3>3 DEF HeldInBlock
  <2> QED
    BY <2>1, <2>2
<1>2. CASE ReadFails
  BY <1>2 DEF ReadFails, Iterating, BlockPhase, HeldInBlock, IsSent
<1>3. CASE SendEvent
  <2>1. hw' = hw /\ block' = block /\ next' = next + 1 /\ at = "send" /\ at' = "send"
    BY <1>3 DEF SendEvent, board, Iterating
  <2>2. CASE IsSent(e)
    <3>1. PICK i \in 1..Len(sent) : sent[i].event = e
      BY <2>2 DEF IsSent
    <3>2. sent'[i].event = e
      BY <1>3, <3>1, SentGrows
    <3>3. i \in 1..Len(sent')
      BY <1>3, SentGrows
    <3> QED
      BY <3>2, <3>3 DEF IsSent
  <2>3. CASE ~IsSent(e)
    <3>1. PICK j \in next..Len(block) : block[j] = e
      BY <2>1, <2>3 DEF BlockPhase, HeldInBlock
    <3>2. CASE j = next
      <4>1. sent'[Len(sent) + 1].event = e /\ Len(sent) + 1 \in 1..Len(sent')
        BY <1>3, <3>1, <3>2, SentGrows
      <4> QED
        BY <4>1 DEF IsSent
    <3>3. CASE j # next
      BY <2>1, <3>1, <3>3 DEF HeldInBlock
    <3> QED
      BY <3>2, <3>3
  <2> QED
    BY <2>2, <2>3
<1>4. CASE EndIteration
  <2>1. next > Len(block) /\ UNCHANGED <<hw, sent>>
    BY <1>4 DEF EndIteration, GetNumEvents, history
  <2>2. ~HeldInBlock(e)
    BY <2>1 DEF HeldInBlock
  <2>3. IsSent(e)
    BY <2>1, <2>2 DEF BlockPhase
  <2> QED
    BY <2>1, <2>3 DEF IsSent
<1>5. CASE Elsewhere
  <2>1. IsSent(e)
    BY <1>5 DEF Elsewhere, BlockPhase, HeldInBlock
  <2> QED
    BY <1>5, <2>1 DEF Elsewhere, IsSent
<1>6. CASE UNCHANGED <<at, block, next, hw, sent, readFailed>>
  BY <1>6 DEF BlockPhase, IsSent, HeldInBlock
<1> QED
  BY <1>1, <1>2, <1>3, <1>4, <1>5, <1>6, IterationSteps

\* At first nothing has been handed out.
LEMMA BlockInit == DInit => BlockPhase
BY DEF DInit, BlockPhase

\* A module that rests in a state other than Started has sent all the events its
\* board has handed out.
THEOREM NothingIsHeldBack == DSpec => []NothingHeldBack
<1>1. DInv /\ DTypeOK /\ BlockPhase /\ [DNext]_dvars => BlockPhase'
  BY BlockStep DEF DInv
<1>2. ASSUME DInv, BlockPhase PROVE NothingHeldBack
  <2> SUFFICES ASSUME pc = "idle", state # "Started", NEW e \in 1..hw
               PROVE  \E i \in 1..Len(sent) : sent[i].event = e
    BY DEF NothingHeldBack
  <2>1. loop["LoopOnStart"] = "none"
    BY <1>2 DEF DInv, IInv, LoopPhase, Alive
  <2>2. ~HeldInBlock(e)
    BY <1>2, <2>1 DEF DInv, IterationPhase, HeldInBlock
  <2> QED
    BY <1>2, <2>2 DEF BlockPhase, IsSent
<1> QED
  BY DInvariance, BlockInit, <1>1, <1>2, PTL DEF DSpec

-----------------------------------------------------------------------------
(* No event is sent twice. *)

\* Without a failed read the events are sent in the order in which the board has
\* numbered them, and those still to come in a block are later than all sent.
SentInOrder ==
  \A i, j \in 1..Len(sent) : i < j => sent[i].event < sent[j].event
BlockInOrder ==
  /\ \A j, k \in 1..Len(block) : j < k => block[j] < block[k]
  /\ \A j \in 1..Len(block) : block[j] <= hw
RestIsLater ==
  \A j \in next..Len(block) : \A i \in 1..Len(sent) : sent[i].event < block[j]

OrderPhase ==
  ~readFailed =>
    /\ SentInOrder
    /\ \A i \in 1..Len(sent) : sent[i].event <= hw
    /\ at = "send" => BlockInOrder /\ RestIsLater

\* Events and their places are numbers.
LEMMA EventTypes ==
  ASSUME DTypeOK
  PROVE  /\ Len(sent) \in Nat /\ Len(block) \in Nat /\ hw \in Nat
         /\ \A i \in 1..Len(sent) : sent[i].event \in Nat
         /\ \A j \in 1..Len(block) : block[j] \in Nat
<1>1. Len(sent) \in Nat /\ Len(block) \in Nat /\ hw \in Nat
  BY BoundsAssumption DEF DTypeOK
<1>2. ASSUME NEW i \in 1..Len(sent) PROVE sent[i].event \in Nat
  <2> DEFINE Message == [event : 1..MaxEvents, run : 1..MaxRuns, number : Nat \ {0}]
  <2>1. sent \in Seq(Message)
    BY DEF DTypeOK
  <2> HIDE DEF Message
  <2>2. sent[i] \in Message
    BY <2>1
  <2>3. sent[i].event \in 1..MaxEvents
    BY <2>2 DEF Message
  <2> QED
    BY <2>3, BoundsAssumption
<1>3. ASSUME NEW j \in 1..Len(block) PROVE block[j] \in Nat
  <2> DEFINE Event == 1..MaxEvents
  <2>1. block \in Seq(Event)
    BY DEF DTypeOK
  <2> HIDE DEF Event
  <2>2. block[j] \in Event
    BY <2>1
  <2> QED
    BY <2>2, BoundsAssumption DEF Event
<1> QED
  BY <1>1, <1>2, <1>3

\* Events are sent in the order in which the board hands them out.
LEMMA OrderStep ==
  ASSUME IInv, DTypeOK, IterationPhase, OrderPhase, [DNext]_dvars
  PROVE  OrderPhase'
<1> USE DEF DTypeOK
<1>1. CASE ReadBlock
  <2> SUFFICES ASSUME ~readFailed PROVE OrderPhase'
    BY <1>1 DEF ReadBlock, OrderPhase
  <2> PICK n \in 0..PerRead : hw + n <= MaxEvents /\ block' = [i \in 1..n |-> hw + i]
                              /\ hw' = hw + n
    BY <1>1 DEF ReadBlock
  <2>1. n \in Nat /\ Len(block') = n /\ \A j \in 1..n : block'[j] = hw + j
    BY BoundsAssumption
  <2>2. sent' = sent /\ next' = 1
    BY <1>1 DEF ReadBlock
  <2>3. SentInOrder' /\ \A i \in 1..Len(sent) : sent[i].event <= hw
    BY <2>2 DEF OrderPhase, SentInOrder
  <2>4. hw \in Nat /\ \A i \in 1..Len(sent) : sent[i].event \in Nat
    BY EventTypes
  <2>5. BlockInOrder'
    BY <2>1 DEF BlockInOrder
  <2>6. RestIsLater'
    <3> SUFFICES ASSUME NEW j \in 1..n, NEW i \in 1..Len(sent)
                 PROVE  sent[i].event < block'[j]
      BY <2>1, <2>2 DEF RestIsLater
    <3>1. block'[j] = hw + j /\ j >= 1 /\ j \in Nat
      BY <2>1
    <3>2. sent[i].event <= hw /\ sent[i].event \in Nat /\ hw \in Nat
      BY <2>3, <2>4
    <3> HIDE DEF DTypeOK
    <3> QED
      BY <3>1, <3>2
  <2> HIDE DEF DTypeOK
  <2>7. \A i \in 1..Len(sent') : sent'[i].event <= hw'
    <3> SUFFICES ASSUME NEW i \in 1..Len(sent) PROVE sent[i].event <= hw'
      BY <2>2
    <3>1. sent[i].event <= hw /\ sent[i].event \in Nat /\ hw \in Nat
      BY <2>3, <2>4
    <3>2. hw' = hw + n /\ n \in Nat
      BY <2>1
    <3> QED
      BY <3>1, <3>2
  <2> QED
    BY <2>3, <2>5, <2>6, <2>7 DEF OrderPhase
<1>2. CASE ReadFails
  BY <1>2 DEF ReadFails, OrderPhase
<1>3. CASE SendEvent
  <2> SUFFICES ASSUME ~readFailed PROVE OrderPhase'
    BY <1>3 DEF SendEvent, OrderPhase
  <2> DEFINE m == Len(sent)
  <2>1. /\ UNCHANGED <<hw, block>>
        /\ next \in 1..Len(block) /\ next' = next + 1
        /\ at = "send"
    BY <1>3 DEF SendEvent, board, Iterating, GetNumEvents
  <2>2. /\ m \in Nat /\ Len(sent') = m + 1
        /\ \A i \in 1..m : sent'[i] = sent[i]
        /\ sent'[m + 1].event = block[next]
    BY <1>3, SentGrows
  <2>3. /\ SentInOrder /\ BlockInOrder /\ RestIsLater
        /\ \A i \in 1..m : sent[i].event <= hw
    BY <2>1 DEF OrderPhase
  <2>4. /\ \A i \in 1..m : sent[i].event < block[next]
        /\ block[next] <= hw
    BY <2>1, <2>3 DEF RestIsLater, BlockInOrder
  <2> HIDE DEF DTypeOK
  <2>5. SentInOrder'
    <3> SUFFICES ASSUME NEW i \in 1..(m + 1), NEW j \in 1..(m + 1), i < j
                 PROVE  sent'[i].event < sent'[j].event
      BY <2>2 DEF SentInOrder
    <3>1. i \in 1..m
      BY <2>2
    <3>2. CASE j = m + 1
      BY <2>2, <2>4, <3>1, <3>2
    <3>3. CASE j \in 1..m
      BY <2>2, <2>3, <3>1, <3>3 DEF SentInOrder
    <3> QED
      BY <2>2, <3>2, <3>3
  <2>6. \A i \in 1..Len(sent') : sent'[i].event <= hw
    <3> TAKE i \in 1..Len(sent')
    <3>1. CASE i = m + 1
      BY <2>2, <2>4, <3>1
    <3>2. CASE i \in 1..m
      BY <2>2, <2>3, <3>2
    <3> QED
      BY <2>2, <3>1, <3>2
  <2>7. BlockInOrder'
    BY <2>1, <2>3 DEF BlockInOrder
  <2>8. RestIsLater'
    <3> SUFFICES ASSUME NEW j \in (next + 1)..Len(block), NEW i \in 1..(m + 1)
                 PROVE  sent'[i].event < block[j]
      BY <2>1, <2>2 DEF RestIsLater
    <3>1. j \in next..Len(block) /\ j \in 1..Len(block) /\ next < j
      BY <2>1, EventTypes
    <3>2. CASE i = m + 1
      BY <2>1, <2>2, <2>3, <3>1, <3>2 DEF BlockInOrder
    <3>3. CASE i \in 1..m
      BY <2>2, <2>3, <3>1, <3>3 DEF RestIsLater
    <3> QED
      BY <2>2, <3>2, <3>3
  <2> QED
    BY <2>1, <2>5, <2>6, <2>7, <2>8 DEF OrderPhase
<1>4. CASE EndIteration
  BY <1>4 DEF EndIteration, OrderPhase, SentInOrder, history
<1>5. CASE Elsewhere
  BY <1>5 DEF Elsewhere, OrderPhase, SentInOrder
<1>6. CASE UNCHANGED <<at, block, next, hw, sent, readFailed>>
  BY <1>6 DEF OrderPhase, SentInOrder, BlockInOrder, RestIsLater
<1> QED
  BY <1>1, <1>2, <1>3, <1>4, <1>5, <1>6, IterationSteps

\* At first nothing has been sent.
LEMMA OrderInit == DInit => OrderPhase
BY DEF DInit, OrderPhase, SentInOrder

\* As long as no read has failed, no event of the board is sent a second time.
THEOREM NoEventIsSentTwice == DSpec => []EventsSentOnce
<1>1. DInv /\ DTypeOK /\ OrderPhase /\ [DNext]_dvars => OrderPhase'
  BY OrderStep DEF DInv
<1>2. ASSUME DTypeOK, OrderPhase PROVE EventsSentOnce
  <2> SUFFICES ASSUME ~readFailed,
                      NEW i \in 1..Len(sent), NEW j \in 1..Len(sent),
                      sent[i].event = sent[j].event
               PROVE  i = j
    BY DEF EventsSentOnce
  <2>1. sent[i].event \in Nat /\ i \in Nat /\ j \in Nat
    BY <1>2, EventTypes
  <2>2. SentInOrder
    BY <1>2 DEF OrderPhase
  <2> QED
    BY <2>1, <2>2 DEF SentInOrder
<1> QED
  BY DInvariance, OrderInit, <1>1, <1>2, PTL DEF DSpec

-----------------------------------------------------------------------------
(* The numbers of the messages. *)

\* The number of the last message of the run under way, 0 if there is none.
LastNumber ==
  IF Len(sent) > 0 /\ sent[Len(sent)].run = run THEN sent[Len(sent)].number ELSE 0

\* m_EventNumber is that number during a run.  DoStop brings it back to 0 after the
\* run: it has to be 0 wherever a first start may come from.
NumberPhase ==
  /\ Running => eventNumber = LastNumber
  /\ ~Running /\ ~(cmd = "Stop" /\ pc \in {"joinStart", "joinPause", "hook", "closing", "exited"})
       => eventNumber = 0

\* Runs follow each other in what is sent, and none is sent that has not begun.
RunsInOrder ==
  /\ \A i \in 1..Len(sent) : sent[i].run <= run
  /\ \A i, j \in 1..Len(sent) : i <= j => sent[i].run <= sent[j].run

SentTypes ==
  \A i \in 1..Len(sent) : sent[i].run \in Nat /\ sent[i].number \in Nat /\ sent[i].number > 0

\* Runs and numbers of messages are numbers.
LEMMA MessageTypes ==
  ASSUME DTypeOK
  PROVE  Len(sent) \in Nat /\ run \in Nat /\ eventNumber \in Nat /\ SentTypes
<1>1. Len(sent) \in Nat /\ run \in Nat /\ eventNumber \in Nat
  BY BoundsAssumption DEF DTypeOK
<1>2. ASSUME NEW i \in 1..Len(sent)
      PROVE  sent[i].run \in Nat /\ sent[i].number \in Nat /\ sent[i].number > 0
  <2> DEFINE Message == [event : 1..MaxEvents, run : 1..MaxRuns, number : Nat \ {0}]
  <2>1. sent \in Seq(Message)
    BY DEF DTypeOK
  <2> HIDE DEF Message
  <2>2. sent[i] \in Message
    BY <2>1
  <2>3. sent[i].run \in 1..MaxRuns /\ sent[i].number \in Nat \ {0}
    BY <2>2 DEF Message
  <2> QED
    BY <2>3, BoundsAssumption
<1> QED
  BY <1>1, <1>2 DEF SentTypes

\* The next message of a run has the number after that of its last.
LEMMA NumberStep ==
  ASSUME DInv, DTypeOK, NumberPhase, RunsInOrder, [DNext]_dvars
  PROVE  NumberPhase'
<1> USE DEF DInv, IInv, TypeOK, Loop, NumberPhase, Running, LastNumber
<1>1. ASSUME Control, UNCHANGED boardVars PROVE NumberPhase'
  <2> USE <1>1 DEF boardVars, loopVars, history
  <2>1. CASE BeginStart
    BY <2>1 DEF BeginStart, Accept
  <2>2. CASE BeginPause
    BY <2>2 DEF BeginPause, Accept
  <2>3. CASE BeginStop
    BY <2>3 DEF BeginStop, Accept
  <2>4. ASSUME NEW a \in Action, BeginStage(a) PROVE NumberPhase'
    BY <2>4 DEF BeginStage, Accept
  <2>5. CASE JoinLoopOnStart
    BY <2>5 DEF JoinLoopOnStart, Join, HandlerPhase, FirstStartPhase, Alive
  <2>6. CASE JoinLoopOnPause
    BY <2>6 DEF JoinLoopOnPause, Join
  <2>7. CASE SendState
    BY <2>7 DEF SendState
  <2>8. ASSUME NEW l \in Loop, Test(l) PROVE NumberPhase'
    BY <2>8 DEF Test
  <2>9. ASSUME NEW h \in Faulty, Throw(h) \/ Terminate(h) PROVE NumberPhase'
    BY <2>9 DEF Throw, Terminate, HookRunning
  <2>10. CASE Signal \/ Exit \/ Gone
    BY <2>10 DEF Signal, Exit, Gone, vars
  <2> QED
    BY <2>1, <2>2, <2>3, <2>4, <2>5, <2>6, <2>7, <2>8, <2>9, <2>10 DEF Control
<1>2. CASE DoAtFirstStart
  <2>1. /\ pc = "firstHook" /\ ~firstStart' /\ run' = run + 1
        /\ UNCHANGED <<eventNumber, sent>>
    BY <1>2 DEF DoAtFirstStart, AtFirstStart, loopVars
  <2>2. ~Running /\ cmd = "Start"
    BY <2>1 DEF HandlerPhase, FirstStartPhase, Alive
  <2>3. eventNumber = 0
    BY <2>1, <2>2
  <2>4. LastNumber' = 0
    BY <2>1, MessageTypes DEF RunsInOrder, SentTypes
  <2> QED
    BY <2>1, <2>3, <2>4
<1>3. CASE DoStartLaunch
  <2>1. pc = "hook" /\ cmd = "Start" /\ state = "Started"
    BY <1>3, RunTargets DEF DoStartLaunch, Launch, LaunchedBy, HandlerPhase, Alive
  <2>2. ~firstStart
    BY <2>1 DEF FirstStartPhase, Alive
  <2> QED
    BY <1>3, <2>2 DEF DoStartLaunch, Launch, boardVars, loopVars, history
<1>4. CASE DoStart \/ DoPause \/ OtherHook
  BY <1>4 DEF DoStart, DoPause, OtherHook, Hook, boardVars, loopVars, history
<1>5. CASE DoStop
  <2>1. loop["LoopOnStart"] = "none" /\ firstStart
    BY <1>5, RunTargets DEF DoStop, Hook, HandlerPhase, LoopPhase, Alive, BufferPhase
  <2> QED
    BY <1>5, <2>1 DEF DoStop, Hook
<1>6. CASE StartAcquisition \/ ReadBlock \/ ReadFails
  BY <1>6 DEF StartAcquisition, ReadBlock, ReadFails, vars, history
<1>7. CASE SendEvent
  <2>1. Running /\ UNCHANGED <<firstStart, loop, run>>
    BY <1>7 DEF SendEvent, Iterating, vars
  <2>2. LastNumber' = eventNumber'
    BY <1>7, <2>1, SentGrows, MessageTypes
  <2> QED
    BY <2>1, <2>2
<1>8. CASE EndIteration
  BY <1>8 DEF EndIteration, Body, history, Iterating
<1>9. CASE UNCHANGED dvars
  BY <1>9 DEF dvars, vars, boardVars, loopVars, history
<1> QED
  BY <1>1, <1>2, <1>3, <1>4, <1>5, <1>6, <1>7, <1>8, <1>9 DEF DNext

\* What is sent changes in one step only, and the count of runs in another.
LEMMA SentSteps ==
  ASSUME [DNext]_dvars
  PROVE  \/ SendEvent
         \/ UNCHANGED sent /\ run' \in {run, run + 1}
BY DEF DNext, DoAtFirstStart, DoStartLaunch, DoStart, DoPause, DoStop, OtherHook,
   StartAcquisition, ReadBlock, ReadFails, EndIteration, dvars, boardVars, history

\* Every step keeps the numbers consecutive.
LEMMA NumbersStep ==
  ASSUME DInv, DTypeOK, NumberPhase, RunsInOrder, NumbersFollow, [DNext]_dvars
  PROVE  RunsInOrder' /\ NumbersFollow'
<1> DEFINE m == Len(sent)
<1>1. m \in Nat /\ run \in Nat /\ eventNumber \in Nat /\ SentTypes
  BY MessageTypes
<1>2. CASE UNCHANGED sent /\ run' \in {run, run + 1}
  <2>1. RunsInOrder'
    BY <1>1, <1>2 DEF RunsInOrder, SentTypes
  <2> QED
    BY <1>2, <2>1 DEF NumbersFollow
<1>3. CASE SendEvent
  <2>1. /\ run' = run
        /\ Len(sent') = m + 1
        /\ \A i \in 1..m : sent'[i] = sent[i]
        /\ sent'[m + 1].run = run /\ sent'[m + 1].number = eventNumber'
        /\ eventNumber' = eventNumber + 1
    BY <1>3, SentGrows DEF SendEvent
  <2>2. eventNumber = LastNumber
    BY <1>3 DEF SendEvent, Iterating, NumberPhase, Running
  <2>3. RunsInOrder'
    <3>1. \A i \in 1..(m + 1) : sent'[i].run <= run
      BY <1>1, <2>1 DEF RunsInOrder, SentTypes
    <3>2. ASSUME NEW i \in 1..(m + 1), NEW j \in 1..(m + 1), i <= j
          PROVE  sent'[i].run <= sent'[j].run
      <4>1. CASE j = m + 1
        BY <1>1, <2>1, <3>1, <4>1
      <4>2. CASE j # m + 1
        <5>1. i \in 1..m /\ j \in 1..m
          BY <1>1, <3>2, <4>2
        <5> QED
          BY <2>1, <3>2, <5>1 DEF RunsInOrder
      <4> QED
        BY <4>1, <4>2
    <3> QED
      BY <2>1, <3>1, <3>2 DEF RunsInOrder
  <2>4. NumbersFollow'
    <3> DEFINE Follows(s, i) ==
          IF i > 1 /\ s[i - 1].run = s[i].run THEN s[i].number = s[i - 1].number + 1
          ELSE s[i].number = 1 /\ \A j \in 1..(i - 1) : s[j].run < s[i].run
    <3>1. ASSUME NEW i \in 1..m PROVE Follows(sent', i)
      <4>1. Follows(sent, i)
        BY DEF NumbersFollow
      <4>2. sent'[i] = sent[i] /\ \A j \in 1..(i - 1) : sent'[j] = sent[j]
        BY <1>1, <2>1
      <4>3. i > 1 => sent'[i - 1] = sent[i - 1]
        BY <1>1, <2>1
      <4> QED
        BY <4>1, <4>2, <4>3
    <3>2. Follows(sent', m + 1)
      <4>1. CASE m > 0 /\ sent[m].run = run
        <5>1. eventNumber = sent[m].number /\ sent'[m] = sent[m]
          BY <1>1, <2>1, <2>2, <4>1 DEF LastNumber
        <5> QED
          BY <1>1, <2>1, <4>1, <5>1
      <4>2. CASE ~(m > 0 /\ sent[m].run = run)
        <5>1. eventNumber = 0
          BY <2>2, <4>2 DEF LastNumber
        <5>2. ASSUME NEW j \in 1..m PROVE sent'[j].run < run
          <6>1. m \in 1..m /\ j <= m
            BY <1>1
          <6>2. sent[j].run <= sent[m].run /\ sent[m].run <= run /\ sent[m].run # run
            BY <4>2, <6>1 DEF RunsInOrder
          <6>3. sent[j].run \in Nat /\ sent[m].run \in Nat
            BY <1>1, <6>1 DEF SentTypes
          <6> QED
            BY <1>1, <2>1, <6>2, <6>3
        <5>3. m > 0 => sent'[m].run # run
          BY <1>1, <2>1, <4>2
        <5> QED
          BY <1>1, <2>1, <5>1, <5>2, <5>3
      <4> QED
        BY <4>1, <4>2
    <3>3. \A i \in 1..(m + 1) : Follows(sent', i)
      BY <1>1, <3>1, <3>2
    <3> QED
      BY <2>1, <3>3 DEF NumbersFollow
  <2> QED
    BY <2>3, <2>4
<1> QED
  BY <1>2, <1>3, SentSteps

\* At first there is no message to be numbered.
LEMMA NumbersInit == DInit => NumberPhase /\ RunsInOrder /\ NumbersFollow
BY DEF DInit, Init, NumberPhase, RunsInOrder, NumbersFollow, Running, LastNumber, Loop

\* A receiver can count on the numbers: 1, 2, 3, ... within a run, whatever pauses
\* and failed reads there are, and again from 1 in the next.
THEOREM NumbersAreConsecutive == DSpec => []NumbersFollow
<1>1. DInv /\ DTypeOK /\ NumberPhase /\ RunsInOrder /\ NumbersFollow /\ [DNext]_dvars
        => NumberPhase' /\ RunsInOrder' /\ NumbersFollow'
  BY NumberStep, NumbersStep
<1> QED
  BY DInvariance, NumbersInit, <1>1, PTL DEF DSpec

=============================================================================
