# Formal models of YAODAQ

YAODAQ is a data-acquisition framework in C++: modules (boards, file writers,
loggers) and controllers are separate processes, all connected by websockets to
one server, the hub.  A controller sends *actions* (Initialize, Connect,
Configure, Start, ...) that every module performs, modules answer with *states*
and send *data*, and anybody may make a JSON-RPC call that everybody answers.

This directory holds TLA+ models of that program, TLC configurations, and proofs
checked by TLAPS.  `PROJECT.json` maps each definition to the lines it models and
lists the runs, the mutants (for each property, a plausible slip of the code that
breaks it), the hazards and the theorems.

## Inventory

| Component | State | Operations | Interacts with | Hard part | What makes it correct |
|---|---|---|---|---|---|
| `Module` (src/Module.cpp) | `m_State`, two loop threads and their flags, `m_IsFirstStart` | the ten actions, two loops, signals, `stopListening` | its subclass's hooks; the hub (`sendState`) | callback thread, two loop threads and main thread share `m_State` and the flags | follows the run-control chart, tells the truth, completes every action, never runs a hook beside a foreign loop |
| CAEN digitizer, data taking (extras/CAEN) | readout buffer, event structure, acquisition on/off, event number | hooks, acquisition loop | `Module`, the CAEN library, the hub (`sendData`) | the loop is in an iteration when Pause or Stop arrives; read errors are dropped | buffer allocated when used, board off at rest, events numbered, complete, not repeated |
| CAEN digitizer, configuration | members filled from the file, masks, calibration, what the board has said of itself | `verifyParameters`, `DoConfigure` and what it calls, some sixty setters and getters | the configuration file, `Module`, the CAEN library | members outlive the file they came from; settings overwrite one another; families have different units | the board holds what the verified file asks for; what the module believes of it is true |
| Hub server (`MessageHandlerServer`, `Clients`, `Infos`) | `m_Clients`, `m_NotAccepted`, `m_BrowserNumber`, `m_Client` | open, close, relay, log | every client | one thread per connection in one callback; connections that die unnoticed; refused names | unique names, registry equal to who is there, messages signed by their sender |
| Hub client (`MessageHandlerClient`, `List`) | `m_List`, `m_Lists` | open, close, dispatch, reconnection | hub, remote calls | lists edited by one thread, polled by another | the list names exactly the others |
| Remote calls (`MessageHandler`) | `m_Responses`, `m_Lists` | `CallMethod`, `Send`, `onCommand`, `onResponse` | hub, all clients | who has to answer changes during the call; all calls carry the same id | a call returns, with the answer of everybody it waited for |
| Messages, `Identifier`, `Infos` | JSON object | constructors, conversions, getters, keys | every handler of every program | a message goes through a class of its type and back; an exception in a handler ends a process | each receiver reads what the sender has put in, and knows who that was |
| File writers (`FileWritter`, `File`, DAQFile, RootFile) | open file, path, number of the run, tree and event | start, stop, data | modules, hub | data and actions take different ways to the writer; several runs | each run's data in its own file, none missing in its middle |
| Boards and connectors (`Board`, `Connector`, `ConnectorFactory`) | plugin objects, count of boards per connector | connect, disconnect | configuration, modules | several boards of one process share a connector | opened once, closed with the last board |
| `ConfigurationLoader` | parsed tree, names, connector numbers | parse, clear, reload | modules and boards | a static object shared by all modules of a process; the file changes under it | names unique, each board gets its own or its crate's connector, reloads take effect |
| Mpod crate over SNMP (extras/WIENER, extras/SNMP) | session, request under way | connect, `send`, `receive`, the board's methods | remote calls, net-snmp, the crate | lost and late datagrams, retries, errors that are built and not thrown | what a call reports has been in the crate; a call returns |
| Logging, interrupts | sinks, last signal | log, signal hand-over | everything | a signal handler and a polling thread | no signal lost |
| ISEG, Serial, VME, Comm, HV, Flash, SPI | sessions with devices | device commands | connectors | errors dropped; page arithmetic | — |
| Controllers, configurator, viewers | none of their own | menus | remote calls, hub | — | — |

## Modules

* `RunStates` — states, actions, the guard of each action (`AcceptedIn`, the
  switch of `Module::onAction`) and where it leads (`Target`).
* `RunControl` — the abstract specification of a module as the rest of the DAQ
  sees it: an announced state, a pending one, whether an iteration of the
  acquisition is in progress, whether the process lives.  Its chart (`Ring` and
  `Shortcut`) is written from the meaning of the states, not from the guards.
* `ModuleFsm` — one module.  The callback thread's handler is cut at its joins,
  around each hook and at `sendState` (`pc`); `loop` says where each loop thread
  is; `main` is the thread that waits for a signal.  Actions carry the handlers'
  names: `BeginStart`, `BeginPause`, `BeginStop`, `BeginStage` (the other seven),
  `Reject`, `JoinLoopOnStart`, `JoinLoopOnPause`, `AtFirstStart`, `Launch`
  (`LoopOnStart()`/`LoopOnPause()`), `Hook`, `SendState`, `Throw` (a
  `yaodaq::Exception`, which the handler catches and closes the module),
  `Terminate` (any other exception, and any exception of a loop), `Test` and
  `Body` (the loops' `while`), `Signal`, `CriticalSignal`, `Exit`.
* `Digitizer` — `EXTENDS ModuleFsm` with the digitizer's hooks and its
  acquisition loop: every step is a step of the module's, with the board's state
  added.  The board produces events 1, 2, 3, ...; `block` is what `GetNumEvents`
  finds in `m_Buffer`; `sent` is the sequence of Data messages.
* `Settings` — the texts of the digitizer's settings as functions from what the
  setter takes to the library's enumerator, and back, with their copied
  branches; the widths of the interrupt's numbers.
* `DigitizerConfig` — how those settings get from the file to the board.
  `verifyParameters` is an operator from the members and the file to the members
  (its passes over the offsets in `OffsetPasses`), `DoConfigure` a step that asks the
  board what it is (`GetInfo`, `Found`), masks, programs (`ProgramDigitizer`) and asks
  again.  The board is a register file that `ResetBoard` clears; conversions to DAC
  counts are left uninterpreted, so that a register holds which value went through
  which of them.  The record length and the post trigger go back into the members as the
  board has rounded them (`MembersRead`), and are what the next Configure asks for.  `Edit` is the operator at the file, `Move` the module's other actions.
* `Hub` — the server and the clients' lists.  A connection is numbered by the id
  ixwebsocket gives it; `queue` is what has arrived on it, `handling` the callback
  its thread is in.  A callback is two steps: the assignment of `m_Client`
  (`Callback`) and the rest (`OpenRefused`, `CloseRegistered`, `CloseRefused`, `Relay`,
  `RelayLog`, or `Lookup`, the undefined behaviour of `getInfos` on an unknown id).  An
  Open is one more: the loop of `try_emplace` that looks for the name (`OpenChecked`)
  and the insertion with what follows it (`OpenAccepted`).  `Receive` is the client's
  `onOwnMessage`.
* `Rpc` — `CallMethod` and `Send` on the caller's thread, the relay, and the
  callbacks `onCommand`, `onResponse`, open and close.  The hub is reduced to what
  a call sees of it: FIFO sockets, and a thread per connection that writes `m_Client`
  (`Callback`) and relays in a later step.  `named` has whom `m_Client` has named since
  then: any of those may be left out of the relay (`LeftOut`), be announced as having
  closed and be erased (`Departure`), and a lookup may find nobody (`Lookup`).
  `Collapse` is the map of the answers, whose order compares names only.
* `Messages` — what the messages say.  A JSON object is a function from its keys; a
  message is built (`Log`, `State`, `Open`, ...), signed by its client
  (`SignedByClient`) or by the server (`Signed`), and read back by the getters of the
  class that its type names (`Handler`, `Reading`).  An envelope remembers who has built
  the message and out of what, which no handler looks at.  `Throws` says when a handler
  ends by an exception: among others when fmt is given a text (`Printable`) or a sender's
  key (`PrintsSender`, `Formats`) that is no format.  `Join` refuses a key of other than
  six words, and ends the server on one of an unknown class.
* `RunFiles` — a controller, a source of data and a file writer behind the hub.  The
  source is an instance of `RunControl`: it is any module that keeps those promises, so
  what holds here holds of `ModuleFsm`'s modules.  The hub's threads write `m_Client`
  (`Callback`, and `WriterCallback` for what the writer itself announces) and hand a
  message to one client at a time (`Relay`), unless `m_Client` names that client by then
  (`Deliver`, `LeaveOut`); `DoStart`, `DoStop`, `Open`, `Close`, `SetPath` and the three outcomes of
  `onData` are the writer's.  `disk` is what the paths hold.
* `Mpod` — a remote call to the crate as the list of requests its method makes
  (`Requests`, `Further`), the loops of `receive` and `send` with their errors, the
  library's retries, and a network with a crate.  Datagrams carry the number of their
  request and how often it has been sent before.
* `Configuration` — `ConfigurationLoader` as pure operators over a file: the walk of
  `parse` (`ParseCrate`, `ParseBoard`, `ParseModule`) with the two counters of
  connector numbers, and the searches of the two reloads with the ways they end.
  `BoardsOf` and `SharesConnector` say what a file means without the walk.
* `Boards` — several boards of one process, which share the static configuration,
  the static factory and its one plugin object per type.  One action per handler
  and outcome; Connect is cut in `BeginConnect` (reload, `createConnector`),
  `CheckConnected`, `Open` and `Count` (the three statements of `Connector::Connect`),
  and Disconnect in `Disconnect` (the count) and `Close`, so that another board may act
  in between.  `Edit` is the operator, who writes another content of `File` at any time.  `End` is an
  exception in any handler: the module stops listening, and the process ends.
  `recounted` remembers the plugins whose count of boards `createConnector` has reset,
  `raced` those at whose count two boards have been at once.
* `Module_proofs` (`ModuleFsm` and `Digitizer`), `DigitizerConfig_proofs`, `Hub_proofs`,
  `Rpc_proofs`, `Messages_proofs`, `RunFiles_proofs`, `Boards_proofs`, `Mpod_proofs` —
  the theorems.

They build on one another: `RunStates` under everything with actions, `RunControl`
implemented by `ModuleFsm` and instantiated by `RunFiles`, `Digitizer` on
`ModuleFsm`, `DigitizerConfig` on `RunStates` and `Settings`, `Boards` on
`Configuration`.  `Hub`, `Rpc` and `Messages` are three views of one server: who is
there and what overlaps, what a caller waits for, and what is said.

`MC*` modules give the constants values for TLC.  Definitions whose comment begins
with "slip" are the mutants; no specification uses them.

## Runs

| Run | Shows | Bounds, and why they are enough |
|---|---|---|
| `module_fsm` | `TypeOK`, `FlagsMatchThreads`, `HooksUndisturbed`, `AnnouncedIsTrue`, liveness `ActionsComplete`, and that `ModuleFsm` implements `RunControl` with its fairness (`KeepsPromises`) | none: the model is finite; every hook and loop body may throw |
| `digitizer` | `DTypeOK`, `BufferThereWhenRead`, `AcquisitionOffAtRest`, `NumbersFollow`, `NothingHeldBack`, `EventsSentOnce` | two runs (`MaxRuns`: the second one meets what the first has left), three events (`MaxEvents`) in blocks of at most two (`PerRead`: a block of several, an empty one, and two blocks that are not empty), at most `MaxSent` messages before a failed read; all six also proved for every bound |
| `digitizer_config` | `CTypeOK`, `AsInitialized`, `DirectWritesLast`, `KnownIsTrue`, `InterruptsConfigured` | six boards: with groups and XX742's own offsets, with groups and more channels than the calibration has room for, with pairs, with channels, with a DPP firmware, and of a family without a name; four files, which differ in every key that overrides another, one refused and one refused only once the family is known; three Initialize actions (`MaxInits`: a file, another that leaves keys out, and the first again over both); record lengths that the board rounds, keeps, or lowers each time it is asked, post triggers that it rounds by the length; all five also proved for any boards, files and roundings |
| `hub` | `TypeOK`, `NamesUnique`, `RegistryExact`, `ListsAgree`, `Signed`, liveness `Forgotten` | three connections (`MaxConn`: one that is there, one refused for its name, one more to be told), one message; `Overlap = FALSE`; the five that are not liveness are also proved, under that condition but for `TypeOK`, for any number |
| `hub_threads` | liveness `RefusalSettled`, when callbacks overlap and a failed lookup may end the server | two connections (two overlap), two messages; `Overlap = TRUE` |
| `hub_overlap` | `Signed` fails when callbacks overlap | `Overlap = TRUE` |
| `rpc` | `TypeOK`, `AllHaveAnswered`, liveness `CallReturns` | one controller, a module that is there and one that comes late and has the server's name (two answers of one name), both of which may die at any time; one callback that overlaps another (`MaxOverlaps`); two calls (the answers of the first are still about when the second begins); the two that are not liveness also proved for any number |
| `messages` | `NobodyEnds`, `Understood` | a board, a controller, a logger, a page, a program whose name has a slash, one whose name has braces and one of a class there is none of; any four of them (`MaxCame`), joining in any order; one text, level, state and action; one message or departure of their own (`MaxSent`), with all the answers it causes: what one message says does not depend on another, as handlers keep nothing of it; both also proved for any programs, names, texts and number of messages |
| `run_files` | `RTypeOK`, `RunsApart`, `NoHoles`, `Accounted` | three actions (`MaxActions`: Start, Stop, Start, or a pause and its resumption), three pieces of data a run (`MaxData`: a middle one), one callback that overlaps another (`MaxOverlaps`: an action or a piece of data is kept from the writer), both orders in which the hub may serve the source and the writer; all four also proved for every bound |
| `run_files_kept` | `EarlierRunsKept` fails: the second run empties the first one's file | four actions (two runs), two pieces of data, no overlapping callback |
| `boards` | `BTypeOK`, `OpenAsConnected`, `ConfiguredFromFile`, `NumbersFollowSharing` | two boards and plugins of two types; five files between which the operator may change at any time: each board with a connector of its own type, both on their crate's connector with other parameters for b, b erased and a crate of modules in front (a reload fails on it), the boards in each other's places (their numbers shift, a is in a second rack that a reload does not search), a crate twice (parsing fails); a board is given a plugin until `MaxLost` = 1 plugin has lost its count or been raced for (what goes wrong with it then is met, and does not add up); all four also proved for any boards, plugins, files (of any length) and bound |
| `mpod` | `AnswersAreTrue`, liveness `CallsReturn` | one module of one channel behind an empty slot (`getChannelsInfos` meets both); two calls (`MaxCalls`: a late answer of the first meets the second); one retry (`Retries`); two faults (`MaxFaults`: a loss and a late answer, or a hand at the crate); 32 request numbers (`MaxId`), more than two calls use, v1 and v2c |

Deadlock is checked in `ModuleFsm` and `Digitizer` (`Gone` is the only end).  It is
not in the others, whose bounded connections, messages, calls and actions run out, or
whose process ends when a handler fails.

### Assumptions that are not the code's

* `Overlap = FALSE` in `hub`: callbacks of two connections do not overlap.  The
  code does not see to it; ixwebsocket runs one thread per connection.  The
  properties of `hub` are therefore what the server guarantees when messages come
  one at a time, and `hub_overlap` shows what happens when they do not.  With
  overlapping callbacks `m_Clients` itself is a `std::map` under a data race,
  which the model does not follow further than `m_Client` and the two steps of
  `try_emplace`: two connections that ask for one name at once may both get it, so
  that `NamesUnique` needs the assumption too.  `TypeOK` is proved without it.
* `AllHaveAnswered` speaks of a controller that is the only one to call.  With two,
  or with a client that registers during a call, answers to one call are counted
  for another, because `apps/Controller.cpp` gives every call the same id.  It promises
  the answers of clients whose name nobody else has, because the map of the answers
  compares names only (`Identifier::operator<`), and the server accepts two clients of
  one name and different types.
* `rpc`: callbacks may overlap (`MaxOverlaps`), and `confused` remembers what they have
  done with an overwritten `m_Client`.  A relay that leaves somebody out, or a departure
  ascribed to another client, may leave a caller polling for ever, so `CallReturns` is
  about runs in which neither has happened; `AllHaveAnswered` holds even after a relay
  has left somebody out, but not after a false departure, by which a caller stops waiting
  for a client that is still there.
* `Rpc` takes each access to `m_Lists` and `m_Responses` as one step; they are not
  locked in the code.  Its controllers do not die and nobody reconnects.
* `EventsSentOnce` is claimed only while no `CAEN_DGTZ_ReadData` has failed
  (`readFailed`): its status is dropped and the old block would be sent again.
* `run_files`: the operator begins or resumes a run only when the source has announced
  every state that the actions before lead it to (`Settled`).  Two actions in a row would
  be performed by the source and the writer at different times.  To wait until the last
  of these states has been announced is not enough: after Start, Stop, Stop, the
  announcement of the repeated Stop may be taken for that of a Stop sent later, and a
  run begun on it shares a file with the one before.  That takes six actions, three more
  than the run allows; the proofs hold for any number.  The relay leaves out the clients
  that a message changes nothing in (`Receivers`).
* `run_files`: callbacks may overlap (`MaxOverlaps`), and a receiver that `m_Client` names
  when the relay comes to it gets nothing.  When that keeps an action from the source or
  the writer, or an announcement from the controller (`misled`), the writer may miss a
  Stop and go on in an open file, and the properties say nothing more.  Data kept from
  the writer is remembered (`skipped`), and they say that no other is missing.
* `messages`: `NobodyEnds` is about logs whose texts have no braces (`Braced`) and
  clients whose names have none (`BracedNames`), which fmt takes for formats, and whose
  class there is (`Harmless`).  The model has the others too, and they do end whoever
  prints what they say, or the server.  No client sends a text that is not a message.
  Pages register as WebBrowser or WebLogger and programs as neither; names have at least
  one word.
* `CallsReturn` is for v2c.  Over v1 a missing object is an error of the packet, after
  which the freed request is sent again: the outcome is undefined (`Receive`).
* `boards`: boards may share a plugin and edits may shift the numbers, so that
  `m_Connectors` hands out the plugin a number had before.  When a board is given the
  plugin while another has counted itself, `setInfos` resets the count (`recounted`): the
  connection is then opened twice, closed while one board still uses it and left open at
  the end.  The same comes of two boards that connect or disconnect at once (`raced`),
  as nothing keeps them from looking at the count together.  The model follows all that,
  but `OpenAsConnected` says nothing of a plugin to which it has happened.  What is left
  are boards that take turns at a plugin, whether they were given it together or one
  after the other.  Both losses are listed as hazards, and nothing in the repository
  says what should hold after them.
* `Boards` takes each handler as one step but for Connect and Disconnect; the races of
  several boards' threads on the unlocked configuration are not followed.
* `digitizer_config`: `AsInitialized` promises the record length and the post trigger
  that the board makes of the file's only for boards that make no more of what they have
  made (`Steady`), because the next Configure asks for what was read back.

### Fairness

* `ModuleFsm`: weak fairness of the handler's steps, of each loop thread and of the
  exit — a thread that can run does, a hook and an iteration return, the socket
  closes.  No fairness for actions, signals, launches or exceptions.  The hooks of
  the repository's boards return; one that does not would stop the handler.
* `Hub`: weak fairness of the server's threads taken together.  Nobody has to
  connect, send, receive or leave, and a lost connection may never be noticed (no
  ping is configured), which is why `Forgotten` speaks of connections the server
  has been told about.
* `Rpc`: weak fairness of each caller's polling, of the server's thread for each
  connection and of each client's callback thread.  Nothing obliges a client to
  leave or to stay.
* `Mpod`: weak fairness of the connector's steps, which are the caller's code and the
  library's timeouts, and of the crate's answers to what the network does not lose.
  With at most `MaxFaults` losses a call may still see all its retries fail.
* `DigitizerConfig`, `RunFiles`, `Messages` and `Boards` have none: they are about
  safety only.

## Proofs

Each proof module begins with an invariant that is inductive, proves that every
action preserves it (one step per action, under it one per part that the action can
disturb), and draws the theorems from it.  None of the properties is inductive alone.

**`Module_proofs`**, for every set `Faulty` of hooks that may throw: `TypeCorrect`,
`FlagsCorrect`, `HooksAlone`, `AnnouncedCorrect` (the invariants of `module_fsm`) and
`Refinement` (`RunControl`'s `SafeSpec` is implemented).  `HooksUndisturbed` needs to
know that the handler has joined the loop before it reaches the hook, and the join
needs the flags to match the threads.  `IInv` conjoins `TypeOK`, `FlagsMatchThreads`,
`HandlerPhase` (at each point of a handler: which actions can be there, what the state
already is, which loops may still be there), `LoopPhase` (when the module rests, a loop
is left only in its own state) and `FirstStartPhase`.  `Refinement` maps each step,
under `IInv`, to a step of `RunControl` or a stutter.

The second half of `Module_proofs`, for every number of runs and events and every block
size, holds all six invariants of `digitizer`.  `Inherited`: every step of the board's is a step of the
module's or leaves it alone, so `IInv` holds of it.  On that rest `BufferPhase` (where
the buffer and the event structure exist), `AcquiringPhase` (where the board acquires),
`IterationPhase` and `RunPhase` (where the loop is and what it has read), `BlockPhase`
(what is in the buffer, sent, or still in the board), `OrderPhase` (the events sent are
in the order produced, below those in the block) and `NumberPhase` with `RunsInOrder`
(numbers restart with a run and count by one within it).

**`DigitizerConfig_proofs`**, for any boards, files and number of initializations:
`ConfigTypeCorrect`, `KnownBoardIsTrue`, `SettingsAsInitialized`,
`InterruptsAreConfigured` (for files that ask for no more events than 16 bits can say) and
`DirectWritesCorrect`.
`LastPhase` says that all members but the lists of groups, the record length and the post
trigger are those of the last file, and that of these two a steady board makes what it
makes of the file's (`PlainPhase`): the passes over the offsets leave nothing else, because they end in what that file says whatever was there before
(`PassesLeave`); `GroupPhase` that each list is that of the last file with one; `MaskPhase`
that masking never takes a unit from the board, so that a second Configure programs all of
it again.  Between Configure and the next Initialize no step changes what is programmed
(`Kept`).  The list of direct writes is that of the last file with one (`WritesPhase`).
`LastWriteWins` says what a board's bits are after the first n writes of a list, by
induction on n: `Written` is a function on 0..Len(writes), so the induction is a least
counterexample (`Induction`).

**`Hub_proofs`**, for any number of connections and messages.  `OpenPhase` and
`ClientPhase` hold however callbacks overlap and give `HubTypeCorrect`.  Under `~Overlap`
come `Registered`, `CloseLast`, `OneCallback`, `NumbersUsed` (who is in the registry,
what a connection's queue may hold, that nobody else is in the callback, that numbers
of browsers are not reused), `NameFree` (a name that was found free still is when it is
taken) and `SignPhase` (`m_Client` is the connection whose callback runs):
`NamesAreUnique`, `RegistryIsExact` and `MessagesAreSigned`.  `ListPhase` adds what is on its
way to a client: its list is true of the clients it knew of when it last read, and the
messages of its inbox lead from there, one joining or leaving at a time (`Leads`), to the
others that are registered now, less those still to be told of.  With nothing left to
read or to tell, the list is right: `ListsAreRight`.

**`Rpc_proofs`**, for any number of clients, calls and overlapping callbacks:
`RpcTypeCorrect`, `EverybodyHasAnswered` and `CallbacksApart`.  The second needs to know
where the round of a call is.  `Truthful` (`UpPhase`): what clients say of themselves is
true.  `Present` (`DownPhase`, `ListPhase`), as long as no departure has been
ascribed to another: a client that stays is registered and in every caller's list, and
messages of joining and leaving are true.  `Round`: between the only controller that
calls and each client that stays, the request or its answer is at one of five places at
most (going up, going down, the answer going up, going down, and `m_Responses`), carries
the number of the call, and is nowhere outside a call; a relay that leaves out the one
or the other only empties a place.  Whom the caller no longer waits for has then
answered, and has an entry of its own in the map if its name is its own.
`CallbacksApart`: with `MaxOverlaps = 0` `confused` stays empty, because `m_Client` names
the client whose callback runs until it has ended (`Serial`).

**`RunFiles_proofs`**, for any number of actions, runs, pieces of data and overlapping
callbacks: all four properties of `run_files` (`RunFilesTypes`, `FilesHoldOneRun`,
`FilesHaveNoHoles`, `DataAccountedFor`), and `NobodySkipped`: without overlaps
(`MaxOverlaps = 0`) nobody is left out and the condition of the others holds.  The
invariant is `Present`, which always holds (where things are), and, as long as nobody was
left out of an action or an announcement (`~misled`), what follows.  The source and the writer get the same actions, each at its own
pace and with anything between them, so the invariant cannot compare their states.  It
compares where their queues lead: a course (`Along`) gives, after each message of a
queue, the state its reader is in then, the runs it has begun and the actions it has
performed.  `Ends`: the courses begin where the readers stand and both continue in what
the hub has still to relay, which ends at `expected`; what has been announced and what
is owed add up.  `Starts`: a Start still in a queue was sent when all before it had been
announced, so until the source has got to it there is nothing new to announce, and it
has no data left on the way up when it begins the run (`BeginsClean`, `JoinsItsRun`).
`Matching` (data that finds the file open finds that of its run) and `Accounting` follow.
A second pair of courses (`Ordered`) gives the last piece of data before each place, from
the end of the file to the source's counters: each follows the one before.  That a course
holds over a queue of any length is induction, from the least element of a set
(`Least`, `Induction`): the library's theorem takes an operator.

**`Messages_proofs`**, for any programs, pages, names and texts and any number of
messages: `MessagesUnderstood` and `NobodyEndsOfWhatIsSaid`.
`MInv` says that each registered client has a key of its own class and name (`KeyOf`) and
that whatever is on its way is `Sound`: the text that was made of what its sender put in,
which reads back as that, and on whose reading no handler throws but for a text or a key that
is no format.  The key is that of somebody who has come (`OInv`: so are the origins of
all messages), or the server's, so if all who have come are harmless it is one
(`TextsPrint`, `NothingThrows`).  What goes down is
besides signed for whom it is from (`FromTrue`), also where the server has rewritten it.
`UpQueue` and `DownQueue` say so of whole queues, so that a handler's step, which takes
one message and sends on a few, disturbs one queue at a time.

**`Boards_proofs`**, for any boards, plugins and files: all four properties of `boards`
(`BoardsTypeCorrect`, `OpenedOnce`, `ConfiguredAsInFile`, `NumbersAsShared`).  As long as the
count of a plugin has not been lost and no two boards have been at it together, it is the
number of boards that have counted themselves, and the connection is open exactly when
one has or is about to (`CountPhase`).  At most one board is then between its look at the
count and the change of it, and what it has seen still holds.  For the configuration, `Walked` is the invariant of the loader's own
loops, over rooms, racks, crates and boards of any number: unless something was refused,
the boards met so far have their connectors, two have one number exactly when they share,
and no number is above the last one given.  Within a crate with a connector, its number
is that of the boards of this crate without their own (`CrateRight`); names of crates are
unique, so no crate met before has it.  The loops are recursive functions; that they are
what their recursion says, and that the invariant holds after the last turn, is again
induction from a least counterexample (`ParseBoardsIs`, `ParseBoardsWalks` and so on).
`JoinedIs` says what is in the joined lists, and `ReloadIs` that a reload finds an entry
of the file.  `LoadedPhase` keeps what was loaded until it is forgotten.

**`Mpod_proofs`**, for any modules, values, versions, calls, retries and faults:
`AnswersTrue`.  `NetPhase`: a datagram with the number of the request that waits is that
request or an answer to it, and an answer to a get carries what the object has held since
it was asked for.  `AskPhase`: a call for one object ends with a get, so that the answer
to an earlier one, which a set has made stale, is never what is returned.  `Walk` is the
invariant of the list of the channels: the places of what has been asked for and what is
still to be, in their order, stay when an answer comes (`PlacesStay`), and what is added
behind them is a slot no place is of yet.  Each channel that is there is at one place at
most, and at one exactly when the walk has passed its slot and nothing was given up
(`WalkSlot`); at the end all slots are passed (`WalkEnds`).  `BitsKept`: the number made
of a status has the bits of the MIB.  The number of a request is taken over and over
(`MaxId`), so the theorem holds as long as none is used again while a datagram with it is
on its way (`NumbersFresh`); without that, an answer to an older request is taken for the
new one's, which is how the library matches them.

What the proofs rest on: the named assumptions of the modules (`...Assumption`), which
TLC evaluates in every run, and in some theorems what their statements or properties say
(`~Overlap` or `MaxOverlaps = 0`, a single caller and no false departure, nobody left out
of an action, no failed read, 16 bits of events, a steady board, names and texts that are
formats, boards that take turns, fresh numbers); `RunFiles` has the
operator's patience (`Settled`) in its actions.

Only model-checked: the liveness properties (`ActionsComplete`, the fair half of
`KeepsPromises`, `Forgotten`, `RefusalSettled`, `CallReturns`, `CallsReturn`), because
the prover reasons neither about fairness nor about `ENABLED`.  Every safety invariant
the passing runs check is stated by a theorem.

## Disagreements found

With a run that shows them (`findings` in `PROJECT.json`):

* `hub_overlap`: all threads of the server share one `m_Client`, so a message may be
  signed with another client's name or sent back to its sender.
* `run_files_kept`: the path of a file is computed once, so a second run empties the
  first one's file.

Read in the code and, where a module models the place, part of the model; no run of
their own.  In the hub and the messages:

* `sendToLogger` wants a client that is a Logger *and* a WebLogger, which nobody is, so
  no log reaches a logger (src/MessageHandlerServer.cpp:147, :155).
* `CallMethod` is said to save "the list of client + server that will answer"
  (include/MessageHandler.hpp:35); the server is never in that list.
* A text that is no message ends in the handling of an empty message, because the
  `catch` goes on (src/MessageHandlerServer.cpp:28).
* The text of a log is used as a format (src/MessageHandler.cpp:98), and so is the key of
  the sender of a log, a state, an action, data or a close (:99, :237, :283, :293, :305):
  a name with braces ends whoever prints them.
* A key of an unknown class ends the server: `.value()` throws another exception
  (src/Infos.cpp:83) than `onOpen` catches (src/MessageHandlerServer.cpp:209).
* The map of the answers to a call compares names only (src/Identifier.cpp:15), so that of
  two clients of one name one answer is lost.
* The check of a name and its insertion are two steps (src/Clients.cpp:57, :64).
* `Except` writes the key "Function" and reads "Function Name" (src/Message.cpp:285,
  :336).
* A name with a slash makes a key of more than six words, which `Infos::setKey` refuses
  (src/Infos.cpp:60).
* The server's answer to a page's call is signed with the name of the page.

In the configuration:

* A reload searches the first rack only and says of a board of the second that it "has
  been erased" (src/ConfigurationLoader.cpp:236).
* Connector parameters are reloaded (:262) and then not used.
* Connectors are counted, opened and closed without a lock (src/Connector.cpp:20, :42).
* `DoConfigure` uses the reloaded file without verifying it again, and a key removed
  from `WRITE_REGISTER` or a group keeps its earlier value.

In the digitizer (lines of extras/CAEN/src/CAENDigitizerBoard.cpp):

* `FreeEvent` has its body commented out (:798): each run leaks an event structure.
* `SKIP_STARTUP_CALIBRATION` calibrates when true (:1281; confs/Configs.toml:75 says
  "Skip startup calibration").
* confs/Configs.toml:42 documents ACQUISITION_AND_TRGOUT, :1801 accepts only
  ACQ_AND_EXTOUT.
* `DC_OFFSET_COMMON` and `TRIGGER_THRESHOLD_COMMON` never take effect; `m_DesMode` and
  `m_UseCorrections` never change; :2218 compares with "ENABLE" where the member holds
  "ENABLED".
* `RearmInterrupt` is called only from an exception handler, under a comparison of a
  constant with itself (:2287); the number of events of an interrupt is cut to 16 bits.
* `LoadDACCalibration` goes beyond its arrays on an XX740 (:1272).

In the Mpod crate:

* `verifyParameters` and `DoConnect` of the SNMP connector build exceptions and do not
  throw them; a call before Connect uses a null session.
* On an error of the packet (v1) a freed request is sent again
  (extras/SNMP/src/SNMPConnector.cpp:248).
* `crateIsOff` is true when nobody answers, `turnOn` and `turnOff` always are; a
  printable status comes back as text, on which `getCrateStatus` throws; a slot whose
  description got no answer is left out; a late SET may undo a later one.
* `set_current` reports the measured current (extras/WIENER/src/Mpod.cpp:82).

## Not modelled

* **Reconnection.**  ixwebsocket reconnects a client by itself; what the client then
  believes, and what becomes of a call under way, is decided by the library's queues,
  which the repository does not show.  Listed as a hazard.
* **Data races on containers** (`m_Responses`, `m_Lists`, `m_Clients`, the static
  configuration): the outcome of a race on a `std::map` is any, and a model in which
  anything may happen says nothing.  The races on single values are modelled (`m_Client`,
  the flags of the loops).
* **Layout of events** (`makeEventInfo` and the copies of samples into JSON): copies,
  one for each field of the library's structures.  `LCIOFile` writes no data.
* **Logging and interrupts**: sinks and formats have no state a property is about; the
  hand-over of a signal is one lock-free variable, and its outcomes are in `ModuleFsm`.
* **ISEG**: its own session with the supply; the device's side would be nearly all of
  the model, and nothing in the repository says what it does.
* **Serial, VME, HV and Comm boards, SPI, Flash**: one library call each.  `Flash`
  numbers pages in 16 bits (src/Flash.cpp:42); only its page 0 is read.
* **Controllers, configurator, viewers, exceptions, web pages, build files, tests and
  vendored code**: no state, or no part of the program at run time.

## What is left

1. Reconnection in `Rpc` and `Hub`, once what ixwebsocket promises is written down.
2. `ISEG` and `Flash`, if they stay in the repository.
