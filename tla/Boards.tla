-------------------------------- MODULE Boards --------------------------------
(***************************************************************************)
(* The boards of one process and what they share (src/Board.cpp,           *)
(* src/Connector.cpp, src/ConnectorFactory.cpp): the loaded configuration  *)
(* (Module::m_Config) and the connectors (Board::m_ConnectorFactory) are   *)
(* static, the connector of each type is one plugin object, and every      *)
(* board's handlers run on a thread of its own: nothing keeps one board    *)
(* from a plugin while another is connecting through it.  The              *)
(* configuration file may be edited at any time.  An exception of any      *)
(* handler ends the process.                                               *)
(***************************************************************************)
EXTENDS RunStates, Configuration, Integers, FiniteSets

CONSTANTS
  Mine,      \* the boards of this process
  Type,      \* the connector types for which a plugin is found
  File,      \* what the configuration file may hold
  MaxLost    \* bound: plugins that have been recounted or raced for, before boards get no more

IsSequence(s) == s \in Seq(ToSet(s))

ASSUME FilesAssumption ==
  \A f \in File :
    /\ IsSequence(f) /\ f # << >>
    /\ \A r \in DOMAIN f : IsSequence(f[r].racks) /\ f[r].racks # << >>
    /\ \A k \in DOMAIN Racks(f) : IsSequence(Racks(f)[k].crates) /\ Racks(f)[k].crates # << >>
    /\ \A i \in DOMAIN Crates(f) : /\ IsSequence(Crates(f)[i].boards)
                                   /\ IsSequence(Crates(f)[i].modules)

ASSUME BoardsAssumption ==
  /\ IsFiniteSet(Mine) /\ "DumpConnector" \notin Type
  /\ MaxLost \in Nat

VARIABLES
  file,          \* what the file holds
  parsed,        \* m_HaveBeenParsed
  infos, links,  \* m_BoardsInfos and m_ConnectorInfos
  m_Connectors,  \* the plugin (by its type) for each connector number met so far
  plugin,        \* of each plugin: boards counted, address set, connections open
  recounted,     \* history: plugins whose count has been lost,
  raced,         \* and those that two boards have connected or disconnected at once
  state, m_Conf, \* of each board: its state, its parameters,
  m_IsConnected, m_Connector, pc,   \* connection, connector (by type), handler
  alive          \* the process is there

config == <<parsed, infos, links>>
connectors == <<m_Connectors, plugin, recounted, raced>>
boards == <<state, m_Conf, m_IsConnected, m_Connector, pc>>
vars == <<file, config, connectors, boards, alive>>

Parameters ==
  {e.parameters : e \in UNION {EntriesOf(f, class) : f \in File, class \in {"Board", "Module"}}}

BTypeOK ==
  /\ file \in File
  /\ parsed \in BOOLEAN
  /\ DOMAIN links \subseteq DOMAIN infos
  /\ \A n \in DOMAIN links : links[n].id \in Nat
  /\ \A i \in DOMAIN m_Connectors : m_Connectors[i] \in Type
  /\ \A t \in Type : plugin[t].boards \in Int /\ plugin[t].open \in Int
  /\ recounted \subseteq Type /\ raced \subseteq Type
  /\ state \in [Mine -> State]
  /\ m_Conf \in [Mine -> Parameters \cup {0}]
  /\ m_IsConnected \in [Mine -> BOOLEAN]
  /\ m_Connector \in [Mine -> Type \cup {"DumpConnector"}]
  /\ pc \in [Mine -> {"idle", "given", "opening", "counting", "closing"}]
  /\ alive \in BOOLEAN

Init ==
  /\ file \in File
  /\ parsed = FALSE
  /\ infos = << >>
  /\ links = << >>
  /\ m_Connectors = << >>
  /\ plugin = [t \in Type |-> [boards |-> 0, address |-> 0, open |-> 0]]
  /\ recounted = {} /\ raced = {}
  /\ state = [b \in Mine |-> "Uninitialized"]
  /\ m_Conf = [b \in Mine |-> 0]
  /\ m_IsConnected = [b \in Mine |-> FALSE]
  /\ m_Connector = [b \in Mine |-> "DumpConnector"]
  /\ pc = [b \in Mine |-> "idle"]
  /\ alive = TRUE

-----------------------------------------------------------------------------

\* onAction's guard; the handlers below run to their end, except for Connect
\* and Disconnect.
Accepts(b, action) ==
  /\ alive
  /\ pc[b] = "idle"
  /\ state[b] \in AcceptedIn(action)

Reaches(b, action) == state' = [state EXCEPT ![b] = Target(action)]

\* An exception: the module stops listening and exits, or the process is terminated.
End ==
  /\ alive' = FALSE
  /\ UNCHANGED <<file, config, connectors, boards>>

Edit(f) ==
  /\ alive
  /\ f # file
  /\ file' = f
  /\ UNCHANGED <<config, connectors, boards, alive>>

\* LoadConfig: the file is parsed unless it has been, by whichever board.
Loaded == IF parsed THEN [failed |-> FALSE, infos |-> infos, links |-> links]
          ELSE Parse(file)

Initialize(b) ==
  /\ Accepts(b, "Initialize")
  /\ ~Loaded.failed
  /\ b \in DOMAIN Loaded.infos
  /\ parsed' = TRUE
  /\ infos' = Loaded.infos
  /\ links' = Loaded.links
  /\ m_Conf' = [m_Conf EXCEPT ![b] = infos'[b].parameters]
  /\ Reaches(b, "Initialize")
  /\ UNCHANGED <<file, connectors, m_IsConnected, m_Connector, pc, alive>>

InitializeFails(b) ==
  /\ Accepts(b, "Initialize")
  /\ Loaded.failed \/ b \notin DOMAIN Loaded.infos
  /\ End

\* A board that is not known has no class, and no crate has entries of no class.
Reloaded(b) ==
  IF b \in DOMAIN infos THEN Reload(file, b, infos[b].class)
  ELSE [found |-> FALSE]

ConfigureOld(b) ==   \* slip: the parameters are taken before they are reloaded
  /\ Accepts(b, "Configure")
  /\ Reloaded(b).found
  /\ m_Conf' = [m_Conf EXCEPT ![b] = infos[b].parameters]
  /\ infos' = [infos EXCEPT ![b].parameters = Reloaded(b).parameters]
  /\ Reaches(b, "Configure")
  /\ UNCHANGED <<file, parsed, links, connectors, m_IsConnected, m_Connector, pc, alive>>

Configure(b) ==
  /\ Accepts(b, "Configure")
  /\ Reloaded(b).found
  /\ infos' = [infos EXCEPT ![b].parameters = Reloaded(b).parameters]
  /\ m_Conf' = [m_Conf EXCEPT ![b] = infos'[b].parameters]
  /\ Reaches(b, "Configure")
  /\ UNCHANGED <<file, parsed, links, connectors, m_IsConnected, m_Connector, pc, alive>>

ConfigureFails(b) ==
  /\ Accepts(b, "Configure")
  /\ ~Reloaded(b).found
  /\ End

-----------------------------------------------------------------------------
(* CallBoardConnect and CallBoardDisconnect *)

\* createConnector: the connector of this number is the plugin of the type it had
\* the first time, and it is given the board's infos, of which no board is
\* connected yet: setInfos loses the count of those that are.
Plugin(b) ==
  LET i == links[b].id
  IN  IF i \in DOMAIN m_Connectors THEN m_Connectors[i] ELSE links[b].connector.type

Connectable(b) ==
  /\ ~ReloadConnectorFails(file, b)
  /\ b \in DOMAIN links
  /\ links[b].connector.type \in Type

BeginConnect(b) ==
  /\ Accepts(b, "Connect")
  /\ ~m_IsConnected[b]
  /\ Connectable(b)
  /\ Cardinality(recounted \cup raced) < MaxLost
  /\ pc' = [pc EXCEPT ![b] = "given"]
  /\ m_Connectors' = [i \in DOMAIN m_Connectors \cup {links[b].id} |->
                        IF i = links[b].id THEN Plugin(b) ELSE m_Connectors[i]]
  /\ plugin' = [plugin EXCEPT ![Plugin(b)].boards = 0,
                              ![Plugin(b)].address = links[b].connector.address]
  /\ recounted' = IF plugin[Plugin(b)].boards = 0 THEN recounted ELSE recounted \cup {Plugin(b)}
  /\ m_Connector' = [m_Connector EXCEPT ![b] = Plugin(b)]
  /\ UNCHANGED <<file, config, raced, state, m_Conf, m_IsConnected, alive>>

\* Another board is at the plugin of board b: it has asked whether the plugin is
\* connected and not yet counted itself, or taken itself off and not yet asked.
Beside(b) ==
  \E d \in Mine \ {b} : m_Connector[d] = m_Connector[b] /\ pc[d] \in {"opening", "counting", "closing"}

Raced(b) == raced' = IF Beside(b) THEN raced \cup {m_Connector[b]} ELSE raced

\* Connector::Connect takes three steps, none of them under a lock: isConnected,
CheckConnected(b) ==
  /\ alive
  /\ pc[b] = "given"
  /\ pc' = [pc EXCEPT ![b] = IF plugin[m_Connector[b]].boards = 0 THEN "opening" ELSE "counting"]
  /\ Raced(b)
  /\ UNCHANGED <<file, config, m_Connectors, plugin, recounted, state, m_Conf, m_IsConnected,
                 m_Connector, alive>>

\* DoConnect of the connector, if it was not,
Open(b) ==
  /\ alive
  /\ pc[b] = "opening"
  /\ pc' = [pc EXCEPT ![b] = "counting"]
  /\ plugin' = [plugin EXCEPT ![m_Connector[b]].open = @ + 1]
  /\ UNCHANGED <<file, config, m_Connectors, recounted, raced, state, m_Conf, m_IsConnected,
                 m_Connector, alive>>

\* and addBoardConnected; DoConnect of the board follows.
Count(b) ==
  /\ alive
  /\ pc[b] = "counting"
  /\ pc' = [pc EXCEPT ![b] = "idle"]
  /\ plugin' = [plugin EXCEPT ![m_Connector[b]].boards = @ + 1]
  /\ m_IsConnected' = [m_IsConnected EXCEPT ![b] = TRUE]
  /\ Reaches(b, "Connect")
  /\ UNCHANGED <<file, config, m_Connectors, recounted, raced, m_Conf, m_Connector, alive>>

\* The connector's or the board's DoConnect throws, or the connector's
\* parameters are refused.
ConnectFails(b) ==
  /\ \/ Accepts(b, "Connect") /\ ~m_IsConnected[b] /\ ~Connectable(b)
     \/ alive /\ pc[b] \in {"given", "opening", "counting"}
  /\ End

ConnectAgain(b) ==
  /\ Accepts(b, "Connect")
  /\ m_IsConnected[b]
  /\ Reaches(b, "Connect")
  /\ UNCHANGED <<file, config, connectors, m_Conf, m_IsConnected, m_Connector, pc, alive>>

\* DoDisconnect of the board, and of Connector::Disconnect removeBoardConnected,
Disconnect(b) ==
  /\ Accepts(b, "Disconnect")
  /\ m_IsConnected[b]
  /\ pc' = [pc EXCEPT ![b] = "closing"]
  /\ plugin' = [plugin EXCEPT ![m_Connector[b]].boards = @ - 1]
  /\ Raced(b)
  /\ UNCHANGED <<file, config, m_Connectors, recounted, state, m_Conf, m_IsConnected,
                 m_Connector, alive>>

CloseUncounted(b) ==   \* slip: the boards that are left are not looked at
  /\ alive
  /\ pc[b] = "closing"
  /\ pc' = [pc EXCEPT ![b] = "idle"]
  /\ plugin' = [plugin EXCEPT ![m_Connector[b]].open = @ - 1]
  /\ m_IsConnected' = [m_IsConnected EXCEPT ![b] = FALSE]
  /\ m_Connector' = [m_Connector EXCEPT ![b] = "DumpConnector"]
  /\ Reaches(b, "Disconnect")
  /\ UNCHANGED <<file, config, m_Connectors, recounted, raced, m_Conf, alive>>

\* and DoDisconnect, if no board is left.
Close(b) ==
  /\ alive
  /\ pc[b] = "closing"
  /\ pc' = [pc EXCEPT ![b] = "idle"]
  /\ LET t == m_Connector[b]
     IN  plugin' = [plugin EXCEPT ![t].open = IF plugin[t].boards = 0 THEN @ - 1 ELSE @]
  /\ m_IsConnected' = [m_IsConnected EXCEPT ![b] = FALSE]
  /\ m_Connector' = [m_Connector EXCEPT ![b] = "DumpConnector"]
  /\ Reaches(b, "Disconnect")
  /\ UNCHANGED <<file, config, m_Connectors, recounted, raced, m_Conf, alive>>

DisconnectAgain(b) ==
  /\ Accepts(b, "Disconnect")
  /\ ~m_IsConnected[b]
  /\ Reaches(b, "Disconnect")
  /\ UNCHANGED <<file, config, connectors, m_Conf, m_IsConnected, m_Connector, pc, alive>>

ReleaseKeepingLinks(b) ==   \* slip: clear forgets m_ConnectorInfos
  /\ Accepts(b, "Release")
  /\ parsed' = FALSE
  /\ infos' = << >>
  /\ Reaches(b, "Release")
  /\ UNCHANGED <<file, links, connectors, m_Conf, m_IsConnected, m_Connector, pc, alive>>

\* m_Config.clear(): for all the boards of the process.
Release(b) ==
  /\ Accepts(b, "Release")
  /\ parsed' = FALSE
  /\ infos' = << >>
  /\ links' = << >>
  /\ Reaches(b, "Release")
  /\ UNCHANGED <<file, connectors, m_Conf, m_IsConnected, m_Connector, pc, alive>>

\* Start, Pause, Stop, Clear and Quit use what the board has.
Other(b, action) ==
  /\ action \in {"Start", "Pause", "Stop", "Clear", "Quit"}
  /\ Accepts(b, action)
  /\ Reaches(b, action)
  /\ UNCHANGED <<file, config, connectors, m_Conf, m_IsConnected, m_Connector, pc, alive>>

Next ==
  \/ \E f \in File : Edit(f)
  \/ \E b \in Mine :
       \/ Initialize(b)
       \/ InitializeFails(b)
       \/ BeginConnect(b)
       \/ CheckConnected(b)
       \/ Open(b)
       \/ Count(b)
       \/ ConnectFails(b)
       \/ ConnectAgain(b)
       \/ Configure(b)
       \/ ConfigureFails(b)
       \/ Disconnect(b)
       \/ Close(b)
       \/ DisconnectAgain(b)
       \/ Release(b)
       \/ \E action \in Action : Other(b, action)

Spec == Init /\ [][Next]_vars

-----------------------------------------------------------------------------
(* Properties. *)

\* The boards that share a plugin open it with the first of them and close it with the
\* last (Connector::Connect and Disconnect), in whatever order they come and go and
\* whichever numbers the file has given them.  Two things break it, and the plugins they
\* have happened to are left out: a board was given the plugin (createConnector) when
\* another had counted itself, or two boards were connecting or disconnecting at once.
OpenAsConnected ==
  \A t \in Type \ (recounted \cup raced) :
    plugin[t].open =
      IF \E b \in Mine : m_Connector[b] = t /\ (m_IsConnected[b] \/ pc[b] = "counting") THEN 1 ELSE 0

\* Whoever becomes Configured has the parameters of the entry of its name and class that
\* the file holds at that moment, not those of the time it was initialized
\* (Module::Configure).
ConfiguredFromFile ==
  [][\A b \in Mine :
       state[b] # "Configured" /\ state'[b] = "Configured" =>
         \E e \in EntriesOf(file, infos[b].class) :
           e.name = b /\ e.parameters = m_Conf'[b]]_vars

\* When the file is parsed each board gets its own connector or else its crate's, and
\* two boards get the same connector number exactly when they share a crate's
\* (ConfigurationLoader::parseCrates and parseBoards).
NumbersFollowSharing ==
  [][~parsed /\ parsed' =>
       \A e, d \in BoardsOf(file) :
         /\ links'[e.name].connector = e.connector
         /\ links'[e.name].id = links'[d.name].id <=> SharesConnector(e, d)]_vars

=============================================================================
