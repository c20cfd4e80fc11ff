------------------------------ MODULE Messages ------------------------------
(***************************************************************************)
(* What the messages say: the JSON object a message class is built from,   *)
(* the conversion of a received object into the class its Type names, the  *)
(* getters (src/Message.cpp), the keys that name programs                  *)
(* (src/Identifier.cpp, src/Infos.cpp), and what each handler does with    *)
(* them (src/MessageHandler.cpp, MessageHandlerServer.cpp,                 *)
(* MessageHandlerClient.cpp).  A JSON object is a function from its keys;  *)
(* null is the one without keys, and a key that is missing reads as "".    *)
(* A name is the sequence of the words between its slashes.                *)
(*                                                                         *)
(* Handlers run one at a time here: overlapping callbacks are in Hub, the  *)
(* waiting of a caller in Rpc, the state machine of a module in ModuleFsm. *)
(* An exception that leaves a handler ends its process.                    *)
(***************************************************************************)
EXTENDS Naturals, Sequences, FiniteSets, TLC

CONSTANTS
  Client,      \* the programs, with a Key header, and the pages, without
  Page,        \* the pages among them
  ClassOf,     \* the class of each program; that of a page is the server's choice
  NameOf,      \* the words of each program's Type/Name
  Texts,       \* texts of logs
  Braced,      \* those fmt cannot take for a format
  BracedNames, \* words of a name it cannot take either
  LogLevels, States, Actions,  \* bound: of LEVEL, STATE and ACTION, those that are sent
  MaxCame,     \* bound: clients that come
  MaxSent      \* bound: what the clients do by themselves, closing included

TYPE == {"Open", "Close", "ConnectionError", "Ping", "Pong", "Fragment", "Log", "Exception",
         "State", "Action", "Command", "Response", "Data", "Unknown"}

LEVEL == {"Trace", "Debug", "Info", "Warn", "Error", "Critical"}

\* ACTION and STATE are the sets of the run control.
Run == INSTANCE RunStates

\* The classes and their numbers; those of the pages begin at Web.
Web == 100
CLASS == [Unknown |-> 1, WebSocketServer |-> 2, Module |-> 3, Board |-> 4, Logger |-> 5,
          Controller |-> 6, Configurator |-> 7, SlowController |-> 8, Viewer |-> 9,
          Analyser |-> 10, FileWritter |-> 11, WebBrowser |-> Web + 1, WebLogger |-> Web + 5]

ASSUME MessagesAssumption ==
  /\ Page \subseteq Client
  /\ "Server" \notin Client
  /\ \A c \in Client : NameOf[c] \in Seq(STRING) /\ NameOf[c] # << >>
  /\ \A c \in Page : ClassOf[c] \in {"WebBrowser", "WebLogger"}
  /\ \A c \in Client \ Page : ClassOf[c] \notin {"WebBrowser", "WebLogger"}
  /\ Braced \subseteq Texts
  /\ LogLevels \subseteq LEVEL
  /\ Actions \subseteq Run!Action
  /\ States \subseteq Run!State
  /\ MaxCame \in Nat /\ MaxSent \in Nat

\* The programs whose name is no format.
BadlyNamed == {c \in Client \ Page : NameOf[c] \in BracedNames}

VARIABLES
  m_Clients,        \* the server's clients and the words of their keys
  m_BrowserNumber,
  away,             \* clients the server has refused, or that have closed
  ended,            \* processes an exception has ended, "Server" included
  up, down,         \* on the way to the server, and from it to each client
  sent

vars == <<m_Clients, m_BrowserNumber, away, ended, up, down, sent>>

-----------------------------------------------------------------------------
(* Keys. *)

\* Identifier::get: Class/Type/Name.
Key(class, name) == <<class>> \o name

\* Identifier(key): three words or six; anything else throws.
Identifier(words) ==
  CASE Len(words) = 6 -> SubSeq(words, 4, 6)
    [] Len(words) = 3 -> words
    [] OTHER -> << >>

\* Infos::setKey takes six words only, and a class there is.
WellFormed(words) == Len(words) = 6 /\ words[4] \in DOMAIN CLASS

IsWebBased(words) == CLASS[words[4]] >= Web

\* The key of a new client: its header's, or a number for a page; no place.
KeyAtServer(c) ==
  <<"", "", "">> \o (IF c \in Page
                     THEN Key(ClassOf[c], Append(SubSeq(NameOf[c], 1, 1), ToString(m_BrowserNumber)))
                     ELSE Key(ClassOf[c], NameOf[c]))

ServerKey == Key("WebSocketServer", <<"WebSocketServer", "WebSocketServer">>)

\* fmt takes the key a message is signed with, a whole one or without its place.
Formats(words) ==
  \A c \in BadlyNamed : Identifier(words) # Key(ClassOf[c], NameOf[c])

\* The server's name is a format.
ASSUME ServerFormats == \A c \in BadlyNamed : ServerKey # Key(ClassOf[c], NameOf[c])

-----------------------------------------------------------------------------
(* Building and reading messages. *)

Null == << >>

ValueAt(content, key) == IF key \in DOMAIN content THEN content[key] ELSE ""

\* An entry of an object, or of a map, is set.
Set(content, key, value) ==
  [k \in DOMAIN content \cup {key} |-> IF k = key THEN value ELSE content[k]]

\* A message as it is written: From is set by whoever sends it.
Message(type, content) == [Type |-> type, From |-> << >>, Content |-> content]

\* addKey
With(message, key, value) == [message EXCEPT !.Content = Set(@, key, value)]

\* What is said with a message, before it is one; the fields are the getters'.
Log(said) == With(With(Message("Log", Null), "Log", said.Log), "Level", said.Level)
State(said) == With(Message("State", Null), "State", said.State)
Action(said) == With(Message("Action", Null), "Action", said.Action)
Data(said) == Message("Data", said.Event)
Command(said) == Message("Command", said.Request)
Response(said) == Message("Response", said.Answer)
Open(said) == With(With(With(Message("Open", Null), "All", said.All), "ID", said.ID), "Key", said.Key)
Close(said) == With(With(With(With(Message("Close", Null), "Code", said.Code), "ID", said.ID),
                         "Key", said.Key), "All", said.All)

\* What Open and Close have getters for, of what the server puts into them.
OpenKeys == {"All", "ID", "Key"}
CloseKeys == {"Code", "All", "ID", "Key"}

\* The getters of the class a message is converted to; the conversion takes over
\* content, From and To.
Reading(class, content) ==
  CASE class = "Log" -> [Log |-> ValueAt(content, "Log"), Level |-> ValueAt(content, "Level")]
    [] class = "State" -> [State |-> ValueAt(content, "State")]
    [] class = "Action" -> [Action |-> ValueAt(content, "Action")]
    [] class = "Data" -> [Event |-> content]
    [] class = "Command" -> [Request |-> content]
    [] class = "Response" -> [Answer |-> content]
    [] class = "Open" -> [k \in OpenKeys |-> ValueAt(content, k)]
    [] class = "Close" -> [k \in CloseKeys |-> ValueAt(content, k)]
    [] OTHER -> << >>

HandlerForgetting(type) == IF type = "State" THEN "Unknown" ELSE type   \* slip

\* The class whose conversion a client's dispatch calls; the rest goes to onUnknown.
Handler(type) ==
  IF type \in {"Action", "Open", "Close", "State", "Data", "Command", "Log", "Response"}
  THEN type
  ELSE "Unknown"

\* The messages whose handler gives the sender's key to fmt as a format: printState,
\* printAction, printData, printClose and printLog, where the class does not replace
\* the handler that calls them.
PrintsSender(class) ==
  CASE class = "Logger" -> {"State", "Data", "Close", "Log"}
    [] class = "Controller" -> {}
    [] class \in {"FileWritter", "Viewer"} -> {"State", "Action"}
    [] OTHER -> {"State", "Action", "Data"}

\* printLog gives the text to fmt as a format; enum_cast has no value for a name
\* that is none.
Printable(content) ==
  /\ ValueAt(content, "Level") \in LEVEL
  /\ ValueAt(content, "Log") \notin Braced

\* A handler of class ends by an exception.
Throws(class, message) ==
  \/ message.Type \notin TYPE
  \/ Handler(message.Type) # message.Type
  \/ /\ message.Type = "Action"
     /\ class \notin {"Logger", "Controller"}
     /\ ValueAt(message.Content, "Action") \notin Run!Action
  \/ message.Type = "Log" /\ class = "Logger" /\ ~Printable(message.Content)
  \/ message.Type \in PrintsSender(class) /\ ~Formats(message.From)

\* JsonRpc2Server::HandleRequest: every program has getState, and any object gets
\* an answer.
HandleRequest(request) ==
  IF {"id", "method"} \subseteq DOMAIN request
  THEN IF request.method = "getState" THEN [id |-> request.id, result |-> ""]
                                      ELSE [id |-> request.id, error |-> ""]
  ELSE [id |-> "", error |-> ""]

\* What travels: the object, and with it who built it and what it was to say.
Envelope(message, origin, said) == [message |-> message, origin |-> origin, said |-> said]

-----------------------------------------------------------------------------

Init ==
  /\ m_Clients = << >>
  /\ m_BrowserNumber = 1
  /\ away = {}
  /\ ended = {}
  /\ up = [c \in Client |-> << >>]
  /\ down = [c \in Client |-> << >>]
  /\ sent = 0

Registered == DOMAIN m_Clients

\* Whoever has come, and stayed, gone or been refused.
Came == Registered \cup away

SignedByServer(message, c) ==   \* slip: the pages are forgotten
  IF message.From # << >> THEN message ELSE [message EXCEPT !.From = ServerKey]

\* The server's addFrom, in the callback of c.
Signed(message, c) ==
  IF message.From # << >> THEN message
  ELSE [message EXCEPT !.From = IF IsWebBased(m_Clients[c]) THEN Identifier(m_Clients[c])
                                                            ELSE ServerKey]

To(receivers, envelope) ==
  down' = [d \in Client |-> IF d \in receivers THEN Append(down[d], envelope) ELSE down[d]]

\* onOpen: the others and the new client are told.  A key of other than six words is
\* refused; a class there is none of is an exception onOpen does not catch.
Join(c) ==
  /\ c \notin Came \cup ended
  /\ Cardinality(Came) < MaxCame
  /\ "Server" \notin ended
  /\ m_BrowserNumber' = m_BrowserNumber + (IF c \in Page THEN 1 ELSE 0)
  /\ LET key == KeyAtServer(c)
         clients == Set(m_Clients, c, key)
         said == [All |-> {Identifier(clients[d]) : d \in DOMAIN clients}, ID |-> c,
                  Key |-> Identifier(key)]
     IN  \/ /\ WellFormed(key)
            /\ m_Clients' = clients
            /\ To(DOMAIN clients,
                  Envelope([Open(said) EXCEPT !.From = ServerKey], "Server", said))
            /\ UNCHANGED <<away, ended>>
         \/ /\ ~WellFormed(key)
            /\ away' = away \cup {c}
            /\ ended' = ended \cup (IF Len(key) = 6 THEN {"Server"} ELSE {})
            /\ UNCHANGED <<m_Clients, down>>
  /\ UNCHANGED <<up, sent>>

\* onClose: Close is signed with the whole key, place included.
Leave(c) ==
  /\ c \in Registered
  /\ up[c] = << >>
  /\ sent < MaxSent
  /\ sent' = sent + 1
  /\ "Server" \notin ended
  /\ LET clients == [d \in Registered \ {c} |-> m_Clients[d]]
         said == [All |-> {Identifier(clients[d]) : d \in DOMAIN clients}, ID |-> c,
                  Key |-> Identifier(m_Clients[c]), Code |-> "1000"]
         envelope == Envelope([Close(said) EXCEPT !.From = m_Clients[c]], c, said)
     IN  /\ m_Clients' = clients
         /\ down' = [d \in Client |-> IF d = c THEN << >>
                                      ELSE IF d \in DOMAIN clients THEN Append(down[d], envelope)
                                      ELSE down[d]]
  /\ away' = away \cup {c}
  /\ UNCHANGED <<m_BrowserNumber, ended, up>>

\* What a client may say by itself.
Sayings(c) ==
  CASE c \in Page ->
         {<<Command([Request |-> r]), [Request |-> r]>> :
            r \in {[id |-> "getState", method |-> "getState"], [Command |-> "getState"]}}
         \cup {<<Action([Action |-> a]), [Action |-> a]>> : a \in Actions}
    [] ClassOf[c] = "Controller" ->
         {<<Action([Action |-> a]), [Action |-> a]>> : a \in Actions}
         \cup {<<Command([Request |-> r]), [Request |-> r]>> :
                 r \in [id : {"FFF"}, method : {"getState", "other"}]}
    [] OTHER ->
         {<<State([State |-> s]), [State |-> s]>> : s \in States}
         \cup {<<Log(l), l>> : l \in [Log : Texts, Level : LogLevels]}
         \cup (IF ClassOf[c] = "Board"
               THEN {<<Data([Event |-> e]), [Event |-> e]>> : e \in {[EventInfos |-> 1]}}
               ELSE {})

\* MessageHandlerClient::send, sendText and sendBinary sign; a page does not.
SignedByClient(message, c) ==
  IF c \in Page THEN message ELSE [message EXCEPT !.From = Key(ClassOf[c], NameOf[c])]

Put(c, message, said) == up' = [up EXCEPT ![c] = Append(@, Envelope(SignedByClient(message, c), c, said))]

\* sendLog, sendState, sendData, sendAction and Send.  A program prints its own logs.
Say(c) ==
  /\ c \in Registered \ ended
  /\ up[c] = << >>
  /\ sent < MaxSent
  /\ sent' = sent + 1
  /\ \E saying \in Sayings(c) :
       /\ Put(c, saying[1], saying[2])
       /\ ended' = ended \cup (IF saying[1].Type = "Log" /\ ~Printable(saying[1].Content)
                               THEN {c} ELSE {})
  /\ UNCHANGED <<m_Clients, m_BrowserNumber, away, down>>

\* The server's callback, by type.
RelayPlain(c, envelope) ==
  /\ envelope.message.Type \in {"State", "Action", "Data", "Response"}
  /\ To(Registered \ {c}, [envelope EXCEPT !.message = Signed(@, c)])
  /\ UNCHANGED ended

RelayCommand(c, envelope) ==
  /\ envelope.message.Type = "Command"
  /\ LET relayed == [envelope EXCEPT !.message = Signed(@, c)]
         said == [Answer |-> HandleRequest(envelope.message.Content)]
         answer == Envelope(Signed(Response(said), c), "Server", said)
         named == {d \in Registered : Identifier(m_Clients[d]) = relayed.message.From}
     IN  down' = [d \in Client |-> down[d] \o (IF d \in Registered \ {c} THEN <<relayed>> ELSE << >>)
                                          \o (IF d \in named THEN <<answer>> ELSE << >>)]
  /\ UNCHANGED ended

\* onLog: sent to whoever is a Logger and a WebLogger, which nobody is, and printed.
TakeLog(c, envelope) ==
  /\ envelope.message.Type = "Log"
  /\ ended' = ended \cup (IF /\ Printable(envelope.message.Content)
                             /\ Formats(envelope.message.From)
                          THEN {} ELSE {"Server"})
  /\ UNCHANGED down

Take(c) ==
  /\ c \in Registered
  /\ up[c] # << >>
  /\ "Server" \notin ended
  /\ up' = [up EXCEPT ![c] = Tail(@)]
  /\ LET envelope == Head(up[c])
     IN  RelayPlain(c, envelope) \/ RelayCommand(c, envelope) \/ TakeLog(c, envelope)
  /\ UNCHANGED <<m_Clients, m_BrowserNumber, away, sent>>

\* MessageHandlerClient::onOwnMessage.  A program answers each request.
Handle(c) ==
  /\ c \in Registered \ ended
  /\ down[c] # << >>
  /\ LET envelope == Head(down[c])
         message == envelope.message
         said == [Answer |-> HandleRequest(message.Content)]
     IN  IF c \notin Page /\ Throws(ClassOf[c], message)
         THEN /\ ended' = ended \cup {c}
              /\ UNCHANGED up
         ELSE /\ IF message.Type = "Command" /\ c \notin Page
                 THEN Put(c, Response(said), said)
                 ELSE UNCHANGED up
              /\ UNCHANGED ended
  /\ down' = [down EXCEPT ![c] = Tail(@)]
  /\ UNCHANGED <<m_Clients, m_BrowserNumber, away, sent>>

Next == \E c \in Client : Join(c) \/ Leave(c) \/ Say(c) \/ Take(c) \/ Handle(c)

Spec == Init /\ [][Next]_vars

-----------------------------------------------------------------------------
(* Properties. *)

\* A client that can do no harm: its class is one of CLASS, and its name is a format.
Harmless(c) == (c \in Page \/ ClassOf[c] \in DOMAIN CLASS) /\ c \notin BadlyNamed

\* Nothing that the programs and pages say to each other ends a process, whatever is
\* sent: each handler a message reaches finds the class it expects, an action and a
\* level it knows and texts that fmt takes, unless a text of a log is none, or a program
\* has come whose name is none, or whose class.
NobodyEnds ==
  Braced = {} /\ (\A c \in Came : Harmless(c)) => ended = {}

\* Whoever is about to handle a message reads from it what its sender has put into
\* it, and knows who that was.  The server's own answer to a page is the
\* exception: it is signed with the page's name.
Understood ==
  \A c \in Client :
    down[c] # << >> =>
      LET envelope == Head(down[c])
          message == envelope.message
          from == Identifier(message.From)
      IN  /\ Reading(Handler(message.Type), message.Content) = envelope.said
          /\ CASE envelope.origin = "Server" -> from = ServerKey \/ c \in Page
               [] envelope.origin \in Page -> from[1] = ClassOf[envelope.origin]
               [] OTHER -> from = Key(ClassOf[envelope.origin], NameOf[envelope.origin])

=============================================================================
