------------------------------ MODULE Digitizer ------------------------------
(***************************************************************************)
(* The CAEN digitizer board (extras/CAEN/src/CAENDigitizerBoard.cpp): the  *)
(* module whose hooks allocate a readout buffer at the first start of a    *)
(* run, read the board in the start loop, and stop the acquisition and     *)
(* free the buffer when the run is paused or stopped.  Every step is a     *)
(* step of ModuleFsm; an iteration of the loop (its "body") is cut at the  *)
(* calls to the board.  The board hands out events numbered by hw.         *)
(***************************************************************************)
EXTENDS ModuleFsm, Naturals, Sequences

CONSTANTS
  PerRead,       \* bound: events of one block transfer
  MaxEvents,     \* bound: events the board produces
  MaxSent,       \* bound: no read fails that could send more messages than this
  MaxRuns        \* bound: runs

ASSUME BoundsAssumption ==
  /\ PerRead \in Nat /\ MaxEvents \in Nat /\ MaxSent \in Nat /\ MaxRuns \in Nat

VARIABLES
  buffer,        \* m_Buffer: null or allocated
  block,         \* the events GetNumEvents finds in m_Buffer, given m_BufferSize
  events,        \* structures got by AllocateEvent and not given back
  acquiring,     \* the board's acquisition is on
  at, next,      \* where the iteration is; the event its for loop comes to
  eventNumber,   \* m_EventNumber
  hw, run,       \* events produced by the board, runs begun
  sent,          \* the Data messages sent: event of the board, run, EventCounter
  readFailed     \* history: a ReadData has returned an error

board == <<buffer, block, events, acquiring>>
loopVars == <<at, next, eventNumber>>
history == <<hw, run, sent, readFailed>>
boardVars == <<board, loopVars, history>>

dvars == <<vars, boardVars>>

DTypeOK ==
  /\ TypeOK
  /\ buffer \in {"null", "allocated"}
  /\ block \in Seq(1..MaxEvents)
  /\ events \in 0..MaxRuns
  /\ acquiring \in BOOLEAN
  /\ at \in {"begin", "read", "send"}
  /\ next \in Nat \ {0}
  /\ eventNumber \in Nat
  /\ hw \in 0..MaxEvents
  /\ run \in 0..MaxRuns
  /\ sent \in Seq([event : 1..MaxEvents, run : 1..MaxRuns, number : Nat \ {0}])
  /\ readFailed \in BOOLEAN

DInit ==
  /\ Init
  /\ buffer = "null"
  /\ block = << >>
  /\ events = 0
  /\ acquiring = FALSE
  /\ at = "begin"
  /\ next = 1
  /\ eventNumber = 0
  /\ hw = 0
  /\ run = 0
  /\ sent = << >>
  /\ readFailed = FALSE

-----------------------------------------------------------------------------
(* The calls of the library that change something here. *)

MallocReadoutBuffer == buffer' = "allocated"
FreeReadoutBuffer == buffer' = "null"
SWStartAcquisition == acquiring' = TRUE
SWStopAcquisition == acquiring' = FALSE
GetNumEvents == Len(block)

-----------------------------------------------------------------------------
(* The hooks. *)

\* The steps of the state machine in which the board's code has no part.
Control ==
  \/ BeginStart /\ (firstStart => run < MaxRuns)
  \/ BeginPause
  \/ BeginStop
  \/ \E a \in Action : BeginStage(a)
  \/ JoinLoopOnStart
  \/ JoinLoopOnPause
  \/ SendState
  \/ \E l \in Loop : Test(l)
  \/ \E h \in Faulty : Throw(h) \/ Terminate(h)
  \/ Signal
  \/ Exit
  \/ Gone

\* MallocReadoutBuffer and AllocateEvent.  m_BufferSize is the one of the last
\* read, so the fresh memory may or may not look like the events it held.
DoAtFirstStart ==
  /\ AtFirstStart
  /\ MallocReadoutBuffer
  /\ block' \in {block, << >>}
  /\ events' = events + 1
  /\ run' = run + 1
  /\ UNCHANGED <<acquiring, loopVars, hw, sent, readFailed>>

\* DoStart is LoopOnStart(): it returns with the loop's thread there.
DoStartLaunch ==
  /\ Launch("LoopOnStart")
  /\ UNCHANGED boardVars

DoStart ==
  /\ cmd = "Start"
  /\ used["LoopOnStart"]
  /\ Hook
  /\ UNCHANGED boardVars

DoPauseKeepingOn ==   \* slip: the acquisition is left on
  /\ cmd = "Pause"
  /\ Hook
  /\ UNCHANGED boardVars

DoPauseFreeing ==   \* slip: the buffer is freed as in DoStop
  /\ cmd = "Pause"
  /\ Hook
  /\ SWStopAcquisition
  /\ FreeReadoutBuffer
  /\ UNCHANGED <<block, events, loopVars, history>>

DoPause ==
  /\ cmd = "Pause"
  /\ Hook
  /\ SWStopAcquisition
  /\ UNCHANGED <<buffer, block, events, loopVars, history>>

DoStopKeepingNumber ==   \* slip: the event number runs on
  /\ cmd = "Stop"
  /\ Hook
  /\ SWStopAcquisition
  /\ FreeReadoutBuffer
  /\ UNCHANGED <<block, events, loopVars, history>>

\* FreeEvent's body is commented out.
DoStop ==
  /\ cmd = "Stop"
  /\ Hook
  /\ eventNumber' = 0
  /\ SWStopAcquisition
  /\ FreeReadoutBuffer
  /\ UNCHANGED <<block, events, at, next, history>>

\* DoConfigure programs the board; the other hooks are the empty ones.
OtherHook ==
  /\ cmd \notin {"Start", "Pause", "Stop"}
  /\ Hook
  /\ UNCHANGED boardVars

-----------------------------------------------------------------------------
(* DoLoopOnStart. *)

Iterating(point) ==
  /\ Alive
  /\ loop["LoopOnStart"] = "body"
  /\ at = point

StartAcquisitionSkippingRead ==   \* slip: no read while the last block holds events
  /\ Iterating("begin")
  /\ SWStartAcquisition
  /\ at' = IF block = << >> THEN "read" ELSE "send"
  /\ next' = 1
  /\ UNCHANGED <<vars, buffer, block, events, eventNumber, history>>

\* SWStartAcquisition, in every iteration; the trigger and the interrupt change
\* nothing here.
StartAcquisition ==
  /\ Iterating("begin")
  /\ SWStartAcquisition
  /\ at' = "read"
  /\ UNCHANGED <<vars, buffer, block, events, next, eventNumber, history>>

\* Read: a block of new events, possibly empty.
ReadBlock ==
  /\ Iterating("read")
  /\ \E n \in 0..PerRead :
       /\ hw + n <= MaxEvents
       /\ block' = [i \in 1..n |-> hw + i]
       /\ hw' = hw + n
  /\ next' = 1
  /\ at' = "send"
  /\ UNCHANGED <<vars, buffer, events, acquiring, eventNumber, run, sent, readFailed>>

\* The status of CAEN_DGTZ_ReadData is dropped: the loop goes on with what the
\* buffer and m_BufferSize hold.
ReadFails ==
  /\ Iterating("read")
  /\ Len(sent) + GetNumEvents <= MaxSent
  /\ next' = 1
  /\ at' = "send"
  /\ readFailed' = TRUE
  /\ UNCHANGED <<vars, board, eventNumber, hw, run, sent>>

SendEventUncounted ==   \* slip: the number is taken before it is incremented
  /\ Iterating("send")
  /\ next <= GetNumEvents
  /\ eventNumber' = eventNumber + 1
  /\ sent' = Append(sent, [event |-> block[next], run |-> run, number |-> eventNumber])
  /\ next' = next + 1
  /\ UNCHANGED <<vars, board, at, hw, run, readFailed>>

\* One turn of the for loop over GetNumEvents().
SendEvent ==
  /\ Iterating("send")
  /\ next <= GetNumEvents
  /\ eventNumber' = eventNumber + 1
  /\ sent' = Append(sent, [event |-> block[next], run |-> run, number |-> eventNumber'])
  /\ next' = next + 1
  /\ UNCHANGED <<vars, board, at, hw, run, readFailed>>

EndIterationEarly ==   \* slip: the iteration is left before the for loop is over
  /\ Iterating("send")
  /\ Body("LoopOnStart")
  /\ at' = "begin"
  /\ UNCHANGED <<board, next, eventNumber, history>>

EndIteration ==
  /\ Iterating("send")
  /\ next > GetNumEvents
  /\ Body("LoopOnStart")
  /\ at' = "begin"
  /\ UNCHANGED <<board, next, eventNumber, history>>

DNext ==
  \/ Control /\ UNCHANGED boardVars
  \/ DoAtFirstStart
  \/ DoStartLaunch
  \/ DoStart
  \/ DoPause
  \/ DoStop
  \/ OtherHook
  \/ StartAcquisition
  \/ ReadBlock
  \/ ReadFails
  \/ SendEvent
  \/ EndIteration

DSpec == DInit /\ [][DNext]_dvars

-----------------------------------------------------------------------------
(* Properties. *)

\* The loop never reads into, nor takes events out of, a buffer that DoStop has
\* freed or DoAtFirstStart has not allocated yet.
BufferThereWhenRead ==
  Iterating("read") \/ Iterating("send") => buffer = "allocated"

\* A board whose module rests in a state other than Started is not acquiring:
\* the iteration in which DoPause or DoStop was waited for cannot switch it on
\* again afterwards.
AcquisitionOffAtRest ==
  pc = "idle" /\ state # "Started" => ~acquiring

\* Within a run the messages carry 1, 2, 3, ..., pauses included, so a receiver
\* can tell a lost event; a new run begins again at 1.
NumbersFollow ==
  \A i \in 1..Len(sent) :
    IF i > 1 /\ sent[i - 1].run = sent[i].run THEN sent[i].number = sent[i - 1].number + 1
    ELSE sent[i].number = 1 /\ \A j \in 1..(i - 1) : sent[j].run < sent[i].run

\* When the module rests, paused or stopped, every event the board has handed
\* out has been sent.
NothingHeldBack ==
  pc = "idle" /\ state # "Started" =>
    \A e \in 1..hw : \E i \in 1..Len(sent) : sent[i].event = e

\* As long as no read has failed, no event of the board is sent twice: the block
\* of a former iteration, or of a former run's buffer, is never sent again.
EventsSentOnce ==
  ~readFailed => \A i, j \in 1..Len(sent) : sent[i].event = sent[j].event => i = j

=============================================================================
