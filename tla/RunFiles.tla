------------------------------- MODULE RunFiles ------------------------------
(***************************************************************************)
(* A run that is written to disk: a controller whose actions go through    *)
(* the hub to every module, a source that sends data through the hub while *)
(* it is Started, and a file writer (FileWritter with the DAQFile of       *)
(* apps/DAQ).  Nobody addresses anybody: the hub's thread of a connection  *)
(* relays each message to the other clients one after the other, so the    *)
(* source's data and the controller's actions race on their way to the     *)
(* writer.  Each thread begins its callback by writing its connection in   *)
(* m_Client and leaves out, of the receivers, the one m_Client names when  *)
(* it comes to it: with callbacks that overlap that may be anybody.        *)
(*                                                                         *)
(* The source is any module with a loop, of which only what RunControl     *)
(* promises is used.  The writer has no loop; its callback thread does one *)
(* message at a time, so that each of its handlers is one step.            *)
(***************************************************************************)
EXTENDS RunStates, Integers, Sequences, Functions

CONSTANTS
  MaxOverlaps,   \* bound: callbacks that begin while another one is under way
  MaxActions,    \* bound: actions the controller sends
  MaxData        \* bound: messages of data in one run

ASSUME RunFilesAssumption ==
  /\ MaxOverlaps \in Nat /\ MaxActions \in Nat /\ MaxData \in Nat

VARIABLES
  expected, owed, sentActions,           \* the controller, see below; actions sent
  visible, pending, acquiring, alive,    \* the source, as RunControl has it
  run, made,                             \* runs the source has begun, data made in this one
  order, inbox, todo, toSource, toWriter,     \* the hub and the two sockets
  announced,             \* what the writer has to announce
  m_Client, overlaps,    \* whose callback began last; those that began during another one
  misled, skipped,       \* history: whether an action or an announcement was not given to
                         \* a receiver, and which data was not
  state, file, content, disk, lost       \* the writer: m_State, m_File, what it has written

source == <<visible, pending, acquiring, alive, run, made>>
shared == <<m_Client, overlaps, misled, skipped>>
hub == <<order, inbox, todo, toSource, toWriter, announced, shared>>
writer == <<state, file, content, disk, lost>>
controller == <<expected, owed, sentActions>>

vars == <<controller, source, hub, writer>>

S == INSTANCE RunControl

Sender == {"controller", "source"}
Client == Sender \cup {"writer"}
RunAction == {"Start", "Pause", "Stop"}

\* Runs are numbered as the source begins them.
Datum == [run : Nat \ {0}, number : Nat \ {0}]
Message == [action : RunAction] \cup [data : Datum] \cup [state : State]

\* The ID m_Path is made of; NoPath before setPath has been called.
Paths == Nat \ {0}
NoPath == 0

RTypeOK ==
  /\ expected \in State /\ owed \in Int /\ sentActions \in 0..MaxActions
  /\ S!TypeOK /\ run \in Nat /\ made \in 0..MaxData
  /\ inbox \in [Sender -> Seq(Message)] /\ todo \in [Sender -> Seq(Client)]
  /\ toSource \in Seq([action : RunAction]) /\ toWriter \in Seq(Message)
  /\ announced \in Nat /\ m_Client \in Client /\ overlaps \in 0..MaxOverlaps
  /\ misled \in BOOLEAN /\ skipped \subseteq Datum
  /\ state \in State \cup {"Dead"}
  /\ file \in [tfile : {"null", "open", "closed"}, id : Nat \cup {-1},
               path : Paths \cup {NoPath}, event : BOOLEAN]
  /\ content \in Seq(Datum) /\ lost \subseteq Datum
  /\ \A p \in DOMAIN disk : p \in Paths /\ disk[p] \in Seq(Datum)

\* Everybody is configured.  The order of m_Clients is that of the connections: it is
\* felt by the actions, which the source or the writer gets first.
RInit ==
  /\ expected = "Configured" /\ owed = 0 /\ sentActions = 0
  /\ visible = "Configured" /\ pending = "Configured" /\ acquiring = FALSE /\ alive = TRUE
  /\ run = 0 /\ made = 0
  /\ order \in {<<"source", "writer">>, <<"writer", "source">>}
  /\ inbox = [c \in Sender |-> << >>] /\ todo = [c \in Sender |-> << >>]
  /\ toSource = << >> /\ toWriter = << >>
  /\ announced = 0 /\ m_Client = "controller" /\ overlaps = 0 /\ misled = FALSE /\ skipped = {}
  /\ state = "Configured"
  /\ file = [tfile |-> "null", id |-> -1, path |-> NoPath, event |-> FALSE]
  /\ content = << >> /\ disk = << >> /\ lost = {}

-----------------------------------------------------------------------------
(* The controller: sendAction.  Its user may send anything at any time, but *)
(* begins or resumes a run only when the source has announced every state   *)
(* that the actions before lead it to.  The user knows the chart: expected  *)
(* is the state the actions sent lead to, owed how many announcements are   *)
(* to come.  (To see the last of these states announced is not enough:      *)
(* after a repeated Stop it may have been announced for the one before.)    *)

Settled == owed = 0

SendAction(a) ==
  /\ sentActions < MaxActions
  /\ a = "Start" => Settled
  /\ IF expected \in AcceptedIn(a)
     THEN expected' = Target(a) /\ owed' = owed + 1
     ELSE UNCHANGED <<expected, owed>>
  /\ sentActions' = sentActions + 1
  /\ inbox' = [inbox EXCEPT !["controller"] = Append(@, [action |-> a])]
  /\ UNCHANGED <<source, order, todo, toSource, toWriter, announced, shared, writer>>

-----------------------------------------------------------------------------
(* The hub: MessageHandlerServer::send on the thread of connection c, one   *)
(* client of m_Clients at a time.                                           *)

\* The clients that a message changes something in.  The rest of the relay is left
\* out: it makes no difference when the others get it, nor whether its sender does.
Receivers(m) ==
  CASE "action" \in DOMAIN m -> order
    [] "data" \in DOMAIN m   -> <<"writer">>
    [] "state" \in DOMAIN m  -> <<"controller">>

\* A receiver gets the message unless m_Client names it by now.
Deliver(d, m) ==
  /\ d # m_Client
  /\ toSource' = IF d = "source" THEN Append(toSource, m) ELSE toSource
  /\ toWriter' = IF d = "writer" THEN Append(toWriter, m) ELSE toWriter
  /\ owed' = IF d = "controller" THEN owed - 1 ELSE owed
  /\ UNCHANGED <<misled, skipped>>

LeaveOut(d, m) ==
  /\ d = m_Client
  /\ IF "data" \in DOMAIN m
     THEN skipped' = skipped \cup {m.data} /\ UNCHANGED misled
     ELSE misled' = TRUE /\ UNCHANGED skipped
  /\ UNCHANGED <<toSource, toWriter, owed>>

\* The first statement of a callback.
Begin(c) ==
  /\ m_Client' = c
  /\ overlaps' = IF \E d \in Sender : todo[d] # << >> THEN overlaps + 1 ELSE overlaps
  /\ overlaps' <= MaxOverlaps

\* The callback for the next message of c, which stays at the head of the queue until
\* it has been relayed.
Callback(c) ==
  /\ inbox[c] # << >> /\ todo[c] = << >>
  /\ Begin(c)
  /\ todo' = [todo EXCEPT ![c] = Receivers(Head(inbox[c]))]
  /\ UNCHANGED <<controller, source, order, inbox, toSource, toWriter, announced, misled, skipped,
                 writer>>

\* The callback for an announcement of the writer's, which changes nothing in the others.
WriterCallback ==
  /\ announced > 0
  /\ Begin("writer")
  /\ announced' = announced - 1
  /\ UNCHANGED <<controller, source, order, inbox, todo, toSource, toWriter, misled, skipped, writer>>

\* The next turn of the loop of send.
Relay(c) ==
  /\ todo[c] # << >>
  /\ LET d == Head(todo[c])
         m == Head(inbox[c])
     IN  Deliver(d, m) \/ LeaveOut(d, m)
  /\ todo' = [todo EXCEPT ![c] = Tail(@)]
  /\ inbox' = IF Tail(todo[c]) = << >> THEN [inbox EXCEPT ![c] = Tail(@)] ELSE inbox
  /\ UNCHANGED <<expected, sentActions, source, order, announced, m_Client, overlaps, writer>>

-----------------------------------------------------------------------------
(* The source. *)

Say(m) == inbox' = [inbox EXCEPT !["source"] = Append(@, m)]

SourceUnchanged == UNCHANGED <<controller, order, todo, toWriter, announced, shared, writer>>

\* An action that moves it: setState and, for a new run, the board's counters.
SourceBegins ==
  /\ toSource # << >> /\ pending = visible
  /\ LET a == Head(toSource).action
     IN  /\ visible \in AcceptedIn(a)
         /\ S!Undertake(Target(a))
         /\ run' = IF a = "Start" /\ visible # "Paused" THEN run + 1 ELSE run
         /\ made' = IF run' # run THEN 0 ELSE made
  /\ toSource' = Tail(toSource)
  /\ UNCHANGED inbox
  /\ SourceUnchanged

\* An action that repeats its state is performed and announced as well.
SourceRepeats ==
  /\ toSource # << >> /\ pending = visible
  /\ visible = Target(Head(toSource).action)
  /\ toSource' = Tail(toSource)
  /\ Say([state |-> visible])
  /\ UNCHANGED source
  /\ SourceUnchanged

SourceRejects ==
  /\ toSource # << >> /\ pending = visible
  /\ visible \notin AcceptedIn(Head(toSource).action)
  /\ toSource' = Tail(toSource)
  /\ UNCHANGED <<inbox, source>>
  /\ SourceUnchanged

SourceAnnouncesEarly ==   \* slip: sendState before the loop's thread is joined
  /\ pending # visible
  /\ visible' = pending
  /\ Say([state |-> pending])
  /\ UNCHANGED <<pending, acquiring, alive, run, made, toSource>>
  /\ SourceUnchanged

SourceAnnounces ==
  /\ S!Announce
  /\ Say([state |-> pending])
  /\ UNCHANGED <<run, made, toSource>>
  /\ SourceUnchanged

Iterate ==
  /\ ~acquiring /\ made < MaxData
  /\ S!Acquire
  /\ UNCHANGED <<run, made, toSource, inbox>>
  /\ SourceUnchanged

\* sendData, then the end of the iteration.
SendData ==
  /\ acquiring
  /\ S!Rest
  /\ made' = made + 1
  /\ Say([data |-> [run |-> run, number |-> made + 1]])
  /\ UNCHANGED <<run, toSource>>
  /\ SourceUnchanged

-----------------------------------------------------------------------------
(* The writer. *)

WriterUnchanged == UNCHANGED <<controller, source, order, inbox, todo, toSource, shared>>

\* setPath: the name is filled in and remembered the first time; setID is called
\* again to do so.
SetPath(f) ==
  IF f.path # NoPath THEN f
  ELSE [f EXCEPT !.id = @ + 1, !.path = f.id + 1]

OpenUnnamed ==   \* slip: the file is opened before its path has been set
  /\ file' = [SetPath([file EXCEPT !.id = @ + 1]) EXCEPT !.tfile = "open", !.event = TRUE]
  /\ content' = << >>
  /\ disk' = [p \in DOMAIN disk \cup {file.path} |-> IF p = file.path THEN << >> ELSE disk[p]]

\* RootFile::open, whose own check that the file is not open DoStart has just made:
\* setID, then TFile::Open(getPath(), "RECREATE"), which empties the file if there is
\* one.  doAfterOpen: a new tree and a new Event.
Open ==
  LET f == SetPath([file EXCEPT !.id = @ + 1])
  IN  /\ file' = [f EXCEPT !.tfile = "open", !.event = TRUE]
      /\ content' = << >>
      /\ disk' = [p \in DOMAIN disk \cup {f.path} |-> IF p = f.path THEN << >> ELSE disk[p]]

CloseUnwritten ==   \* slip: the file is closed without its tree being written
  /\ file' = [file EXCEPT !.tfile = "closed"]
  /\ content' = << >>
  /\ UNCHANGED disk

\* doBeforeClose clears the event; close flushes, writes and closes, which deletes
\* the tree.
Close ==
  /\ file' = [file EXCEPT !.tfile = "closed"]
  /\ disk' = [disk EXCEPT ![file.path] = content]
  /\ content' = << >>

Opened == file.tfile = "open"

\* DoStart: if(!m_File->isOpened()) { open; doAfterOpen; }
DoStart == IF Opened THEN UNCHANGED <<file, content, disk>> ELSE Open

DoStop == IF Opened THEN Close ELSE UNCHANGED <<file, content, disk>>

\* onAction on the writer's callback thread, sendState included.
WriterObeys ==
  /\ toWriter # << >> /\ "action" \in DOMAIN Head(toWriter)
  /\ LET a == Head(toWriter).action
     IN  /\ state \in AcceptedIn(a)
         /\ state' = Target(a)
         /\ CASE a = "Start" -> DoStart
              [] a = "Pause" -> UNCHANGED <<file, content, disk>>
              [] a = "Stop"  -> DoStop
  /\ announced' = announced + 1
  /\ toWriter' = Tail(toWriter)
  /\ UNCHANGED lost
  /\ WriterUnchanged

WriterRejects ==
  /\ toWriter # << >> /\ "action" \in DOMAIN Head(toWriter)
  /\ state \notin AcceptedIn(Head(toWriter).action)
  /\ toWriter' = Tail(toWriter)
  /\ UNCHANGED <<announced, writer>>
  /\ WriterUnchanged

\* m_Tree->Fill() with the event the message has been decoded into.
ParseData(d) == content' = Append(content, d)

WriterStoresStarted ==   \* slip: only a Started writer takes data
  /\ toWriter # << >> /\ "data" \in DOMAIN Head(toWriter)
  /\ Opened
  /\ IF state = "Started" THEN ParseData(Head(toWriter).data) ELSE UNCHANGED content
  /\ toWriter' = Tail(toWriter)
  /\ UNCHANGED <<announced, state, file, disk, lost>>
  /\ WriterUnchanged

\* onData while the file is open, in whichever state the writer is.
WriterStores ==
  /\ toWriter # << >> /\ "data" \in DOMAIN Head(toWriter)
  /\ Opened
  /\ ParseData(Head(toWriter).data)
  /\ toWriter' = Tail(toWriter)
  /\ UNCHANGED <<announced, state, file, disk, lost>>
  /\ WriterUnchanged

\* onData with no file open.  parseData does not look: it writes through m_Event,
\* null before the first Start, and fills m_Tree, which the close has deleted.
\* The process may end there, or the data goes nowhere.
WriterStrays ==
  /\ toWriter # << >> /\ "data" \in DOMAIN Head(toWriter)
  /\ ~Opened
  /\ \/ state' = "Dead"
     \/ file.event /\ UNCHANGED state
  /\ lost' = lost \cup {Head(toWriter).data}
  /\ toWriter' = Tail(toWriter)
  /\ UNCHANGED <<announced, file, content, disk>>
  /\ WriterUnchanged

-----------------------------------------------------------------------------

\* What the others do when the writer's process has ended is not followed.
RNext ==
  /\ state # "Dead"
  /\ \/ \E a \in RunAction : SendAction(a)
     \/ \E c \in Sender : Callback(c) \/ Relay(c)
     \/ WriterCallback
     \/ SourceBegins \/ SourceRepeats \/ SourceRejects \/ SourceAnnounces
     \/ Iterate \/ SendData
     \/ WriterObeys \/ WriterRejects \/ WriterStores \/ WriterStrays

RSpec == RInit /\ [][RNext]_vars

-----------------------------------------------------------------------------
(* Properties. *)

\* What has been written since the file was opened, in memory or, after the close,
\* on the disk.
Written == IF Opened \/ file.path = NoPath THEN content ELSE disk[file.path]

\* A file holds the data of one run, although the last data of a run and the
\* actions that end it and begin the next one take different ways to the writer:
\* sendState comes after the join of the loop (Module::Stop), and the hub relays
\* both on the source's thread, in that order.  (A writer that a relay with another
\* connection's m_Client has left out of a Stop goes on in the file.)
RunsApart == ~misled => \A i, j \in DOMAIN Written : Written[i].run = Written[j].run

Between(d, e) == {[run |-> d.run, number |-> n] : n \in (d.number + 1)..(e.number - 1)}

\* Data can be missing at the two ends of a run, where it races with Start and
\* Stop, but in the middle, whatever pauses there were, only what the guard of send has
\* kept from the writer: the file is not opened again and no message overtakes
\* another of its sender.
NoHoles ==
  ~misled => \A i \in 1..(Len(Written) - 1) :
               /\ Written[i].number < Written[i + 1].number
               /\ Between(Written[i], Written[i + 1]) \subseteq skipped

\* When nothing is under way, every piece of data of the run is in the file, on the
\* disk if the run has been stopped, or has met a writer without a file, or has been
\* kept from the writer by that guard: there is no other way to lose one.
Accounted ==
  (~misled /\ state # "Dead" /\ toWriter = << >> /\ toSource = << >> /\ \A c \in Sender : inbox[c] = << >>)
    => \A n \in 1..made : [run |-> run, number |-> n] \in Range(Written) \cup lost \cup skipped

\* Each run has a file of its own, "Run${ID}.root" (DAQFileWritter.cpp), which
\* later runs leave as it is.
EarlierRunsKept == [][\A p \in DOMAIN disk : disk[p] # << >> => disk'[p] = disk[p]]_disk

=============================================================================
