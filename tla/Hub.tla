--------------------------------- MODULE Hub ---------------------------------
(***************************************************************************)
(* The websocket server every module, controller, logger and browser is    *)
(* connected to (src/MessageHandlerServer.cpp, src/Clients.cpp), and the   *)
(* list of the others that each client keeps from what the server tells it *)
(* (src/MessageHandlerClient.cpp).  The server has one thread per          *)
(* connection; each of them enters the same callback, which begins by      *)
(* writing the connection's id in m_Client, a member of the server that    *)
(* the rest of the callback reads again and again.  No lock protects       *)
(* m_Client, m_Clients or m_NotAccepted: Overlap says whether a callback   *)
(* may begin while another is under way.                                   *)
(***************************************************************************)
EXTENDS Naturals, Sequences, FiniteSets

CONSTANTS
  MaxConn,      \* bound: connections made
  Program,      \* names of the programs that connect with a Key header
  Logger,       \* the programs of class Logger
  Visitor,      \* the programs and browsers that may connect
  Overlap,      \* callbacks of two connections may overlap
  MaxMessages   \* bound: messages the clients send

Conn == 1..MaxConn   \* their ids, given by a counter

Browser == {"WebBrowser", "WebLogger"}   \* connected without a Key header

ASSUME ConstantsAssumption ==
  /\ Logger \subseteq Program
  /\ Program \cap (Browser \cup {"None", "Server"}) = {}
  /\ Visitor \subseteq Program \cup Browser
  /\ Overlap \in BOOLEAN
  /\ MaxConn \in Nat
  /\ MaxMessages \in Nat

VARIABLES
  link,            \* the state of each connection's socket
  who, number,     \* what is behind each connection; the number of a browser
  queue,           \* what has reached the server's socket and no callback has taken
  handling,        \* the event the thread of each connection is in the callback for, or
                   \* "Register": the name was found free and is not registered yet
  m_Client, m_Clients, m_NotAccepted, m_BrowserNumber,
  broken,          \* an iterator was dereferenced that points nowhere
  inbox,           \* sent to each client and not yet handled by it
  m_List,          \* what each client believes of who else is there
  nSent            \* messages sent by clients so far

registry == <<m_Clients, m_NotAccepted, m_BrowserNumber, number>>
clientVars == <<link, who, m_List, nSent>>
vars == <<registry, clientVars, queue, handling, m_Client, broken, inbox>>

Event == {"Open", "Close", "Relay", "Log"}
Key(c) == <<who[c], number[c]>>
Keys == (Program \cup Browser \cup {"None", "Server"}) \X Nat
KeysOf(C) == {Key(c) : c \in C}
ServerKey == <<"Server", 0>>

\* What travels to a client: the keys Type, Key (From, for a relayed message) and
\* All; origin is the connection it is about.
Message == [type : {"Open", "Close", "Relay", "Log"}, key : Keys, all : SUBSET Keys,
            origin : Conn]

TypeOK ==
  /\ link \in [Conn -> {"none", "up", "lost", "down", "refused"}]
  /\ who \in [Conn -> Program \cup Browser \cup {"None"}]
  /\ number \in [Conn -> 0..m_BrowserNumber]
  /\ queue \in [Conn -> Seq(Event)]
  /\ handling \in [Conn -> Event \cup {"Register", "nothing"}]
  /\ m_Client \in Conn \cup {0}
  /\ m_Clients \in SUBSET Conn
  /\ m_NotAccepted \in SUBSET Conn
  /\ m_BrowserNumber \in Nat \ {0}
  /\ broken \in BOOLEAN
  /\ inbox \in [Conn -> Seq(Message)]
  /\ m_List \in [Conn -> SUBSET Keys]
  /\ nSent \in 0..MaxMessages

Init ==
  /\ link = [c \in Conn |-> "none"]
  /\ who = [c \in Conn |-> "None"]
  /\ number = [c \in Conn |-> 0]
  /\ queue = [c \in Conn |-> << >>]
  /\ handling = [c \in Conn |-> "nothing"]
  /\ m_Client = 0
  /\ m_Clients = {}
  /\ m_NotAccepted = {}
  /\ m_BrowserNumber = 1
  /\ broken = FALSE
  /\ inbox = [c \in Conn |-> << >>]
  /\ m_List = [c \in Conn |-> {}]
  /\ nSent = 0

-----------------------------------------------------------------------------
(* The clients and the network. *)

Arrives(c, event) == queue' = [queue EXCEPT ![c] = Append(@, event)]

\* A client that is gone reads nothing more.
Leaves(c, state) ==
  /\ link' = [link EXCEPT ![c] = state]
  /\ inbox' = [inbox EXCEPT ![c] = << >>]
  /\ m_List' = [m_List EXCEPT ![c] = {}]

\* The handshake of a new connection is over.
Connect(c, p) ==
  /\ ~broken
  /\ link[c] = "none"
  /\ \A d \in 1..c - 1 : link[d] # "none"
  /\ link' = [link EXCEPT ![c] = "up"]
  /\ who' = [who EXCEPT ![c] = p]
  /\ Arrives(c, "Open")
  /\ UNCHANGED <<registry, m_List, nSent, handling, m_Client, broken, inbox>>

\* A client sends a State, Action, Data or Command message, or a Log.
Send(c, event) ==
  /\ ~broken
  /\ link[c] = "up"
  /\ nSent < MaxMessages
  /\ nSent' = nSent + 1
  /\ Arrives(c, event)
  /\ UNCHANGED <<registry, link, who, m_List, handling, m_Client, broken, inbox>>

\* A client closes its socket, or dies and its system does.
Hangup(c) ==
  /\ ~broken
  /\ link[c] = "up"
  /\ Leaves(c, "down")
  /\ Arrives(c, "Close")
  /\ UNCHANGED <<registry, who, nSent, handling, m_Client, broken>>

\* A client is gone and the server has not been told: no ping is set up.
Drop(c) ==
  /\ ~broken
  /\ link[c] = "up"
  /\ Leaves(c, "lost")
  /\ UNCHANGED <<registry, who, nSent, queue, handling, m_Client, broken>>

\* The server's system finds out, if ever.
Notice(c) ==
  /\ ~broken
  /\ link[c] = "lost"
  /\ link' = [link EXCEPT ![c] = "down"]
  /\ Arrives(c, "Close")
  /\ UNCHANGED <<registry, who, m_List, nSent, handling, m_Client, broken, inbox>>

\* onOwnMessage: an Open replaces the list by All without oneself, a Close takes
\* its Key out of it, other messages leave it alone.
Receive(c) ==
  /\ link[c] = "up"
  /\ inbox[c] # << >>
  /\ LET m == Head(inbox[c])
     IN  m_List' = [m_List EXCEPT ![c] = CASE m.type = "Open" -> m.all \ {Key(c)}
                                           [] m.type = "Close" -> @ \ {m.key}
                                           [] OTHER -> @]
  /\ inbox' = [inbox EXCEPT ![c] = Tail(@)]
  /\ UNCHANGED <<registry, link, who, nSent, queue, handling, m_Client, broken>>

-----------------------------------------------------------------------------
(* The server's callback: its first statement, then the handler of the event. *)

Callback(c) ==
  /\ ~broken
  /\ queue[c] # << >>
  /\ handling[c] = "nothing"
  /\ Overlap \/ \A d \in Conn : handling[d] = "nothing"
  /\ handling' = [handling EXCEPT ![c] = Head(queue[c])]
  /\ queue' = [queue EXCEPT ![c] = Tail(@)]
  /\ m_Client' = c
  /\ UNCHANGED <<registry, clientVars, broken, inbox>>

Handles(c, event) ==
  /\ ~broken
  /\ handling[c] = event
  /\ handling' = [handling EXCEPT ![c] = "nothing"]

\* The loops over m_Clients in send, sendToName and sendToLogger; what is sent on
\* a socket that is no longer open is lost.
SendTo(C, m) ==
  inbox' = [d \in Conn |-> IF d \in C /\ link[d] = "up" THEN Append(inbox[d], m) ELSE inbox[d]]

NameTakenNever(key) == FALSE   \* slip: the name is not looked for

\* The loop of Clients::try_emplace.
NameTaken(key) == \E d \in m_Clients : Key(d) = key

\* The key of a new connection: its Key header, or one with the browser number.
NewKey(c) == <<who[c], IF who[c] \in Browser THEN m_BrowserNumber ELSE 0>>

MakeKeyUncounted(c) ==   \* slip: the number given is the next one, and the counter stays
  /\ number' = [number EXCEPT ![c] = NewKey(c)[2] + 1]
  /\ UNCHANGED m_BrowserNumber

MakeKey(c) ==
  /\ number' = [number EXCEPT ![c] = NewKey(c)[2]]
  /\ m_BrowserNumber' = IF who[c] \in Browser THEN m_BrowserNumber + 1 ELSE m_BrowserNumber

\* onOpen, name free: the loop of Clients::try_emplace ends, and nothing keeps the
\* other threads out until the connection is inserted.
OpenChecked(c) ==
  /\ ~broken
  /\ handling[c] = "Open"
  /\ MakeKey(c)
  /\ ~NameTaken(NewKey(c))
  /\ handling' = [handling EXCEPT ![c] = "Register"]
  /\ UNCHANGED <<m_Clients, m_NotAccepted, clientVars, queue, m_Client, broken, inbox>>

\* The connection is registered under its id, and everybody, itself included
\* (sendToName), is told who is there now.
OpenAccepted(c) ==
  /\ Handles(c, "Register")
  /\ m_Client \in m_Clients \cup {c}
  /\ m_Clients' = m_Clients \cup {c}
  /\ SendTo(m_Clients', [type |-> "Open", key |-> Key(m_Client), all |-> KeysOf(m_Clients'),
                         origin |-> c])
  /\ UNCHANGED <<m_NotAccepted, m_BrowserNumber, number, clientVars, queue, m_Client, broken>>

RefusedUnremembered(c) ==   \* slip: the refused connection is not noted down
  /\ Handles(c, "Open")
  /\ MakeKey(c)
  /\ NameTaken(NewKey(c))
  /\ link' = [link EXCEPT ![c] = "refused"]
  /\ queue' = [queue EXCEPT ![c] = IF link[c] = "down" THEN @ ELSE Append(@, "Close")]
  /\ UNCHANGED <<m_NotAccepted, m_Clients, who, m_List, nSent, m_Client, broken, inbox>>

\* onOpen, name taken: the socket is stopped (what the client had sent may still
\* be delivered), its close will come, and the client's process exits.
OpenRefused(c) ==
  /\ Handles(c, "Open")
  /\ MakeKey(c)
  /\ NameTaken(NewKey(c))
  /\ m_NotAccepted' = m_NotAccepted \cup {c}
  /\ link' = [link EXCEPT ![c] = "refused"]
  /\ \E rest \in {queue[c], << >>} :
       queue' = [queue EXCEPT ![c] = IF link[c] = "down" THEN @ ELSE Append(rest, "Close")]
  /\ UNCHANGED <<m_Clients, who, m_List, nSent, m_Client, broken, inbox>>

CloseForgotten(c) ==   \* slip: the registration outlives the connection
  /\ Handles(c, "Close")
  /\ c \notin m_NotAccepted
  /\ m_Client \in m_Clients
  /\ SendTo(m_Clients \ {m_Client}, [type |-> "Close", key |-> Key(m_Client),
                                     all |-> KeysOf(m_Clients \ {m_Client}), origin |-> c])
  /\ UNCHANGED <<registry, clientVars, queue, m_Client, broken>>

CloseSilent(c) ==   \* slip: nobody is told
  /\ Handles(c, "Close")
  /\ c \notin m_NotAccepted
  /\ m_Client \in m_Clients
  /\ m_Clients' = m_Clients \ {m_Client}
  /\ UNCHANGED <<m_NotAccepted, m_BrowserNumber, number, clientVars, queue, m_Client, broken,
                 inbox>>

\* onClose of a registered connection: the one m_Client names is taken out, and
\* the others are told.
CloseRegistered(c) ==
  /\ Handles(c, "Close")
  /\ c \notin m_NotAccepted
  /\ m_Client \in m_Clients
  /\ m_Clients' = m_Clients \ {m_Client}
  /\ SendTo(m_Clients', [type |-> "Close", key |-> Key(m_Client), all |-> KeysOf(m_Clients'),
                         origin |-> c])
  /\ UNCHANGED <<m_NotAccepted, m_BrowserNumber, number, clientVars, queue, m_Client, broken>>

CloseRefusedKept(c) ==   \* slip: the note about the refused connection is kept
  /\ Handles(c, "Close")
  /\ c \in m_NotAccepted
  /\ UNCHANGED <<registry, clientVars, queue, m_Client, broken, inbox>>

\* onClose of a refused one: nobody hears of it.
CloseRefused(c) ==
  /\ Handles(c, "Close")
  /\ c \in m_NotAccepted
  /\ m_NotAccepted' = m_NotAccepted \ {c}
  /\ UNCHANGED <<m_Clients, m_BrowserNumber, number, clientVars, queue, m_Client, broken,
                 inbox>>

SignServer(c) == ServerKey   \* slip: a browser's messages are signed by the server

\* setFrom of the programs; addFrom for a browser's messages, which have none.
Sign(c) ==
  IF who[c] \in Program THEN Key(c)
  ELSE IF who[m_Client] \in Browser THEN Key(m_Client) ELSE ServerKey

\* getInfos finds nobody under m_Client and returns what no iterator points to:
\* undefined behaviour, taken as the end of the process.
NeedsInfos(c) ==
  \/ handling[c] = "Register" /\ m_Client # c
  \/ handling[c] = "Close" /\ c \notin m_NotAccepted
  \/ handling[c] = "Relay" /\ who[c] \in Browser

Lookup(c) ==
  /\ ~broken
  /\ NeedsInfos(c)
  /\ m_Client \notin m_Clients
  /\ broken' = TRUE
  /\ UNCHANGED <<registry, clientVars, queue, handling, m_Client, inbox>>

\* The cases State, Action, Data and Command of the callback, without the
\* server's own answer to a Command, which is in Rpc.
Relay(c) ==
  /\ Handles(c, "Relay")
  /\ who[c] \in Browser => m_Client \in m_Clients
  /\ SendTo(m_Clients \ {m_Client}, [type |-> "Relay", key |-> Sign(c), all |-> {},
                                     origin |-> c])
  /\ UNCHANGED <<registry, clientVars, queue, m_Client, broken>>

IsA(d, class) == who[d] = class \/ (class = "Logger" /\ who[d] \in Logger)

\* onLog: sendToLogger asks for a client of both classes.
RelayLog(c) ==
  /\ Handles(c, "Log")
  /\ LET to == {d \in m_Clients \ {m_Client} : IsA(d, "Logger") /\ IsA(d, "WebLogger")}
     IN  SendTo(to, [type |-> "Log", key |-> Key(c), all |-> {}, origin |-> c])
  /\ UNCHANGED <<registry, clientVars, queue, m_Client, broken>>

-----------------------------------------------------------------------------

Handle(c) ==
  \/ OpenChecked(c)
  \/ OpenAccepted(c)
  \/ OpenRefused(c)
  \/ CloseRegistered(c)
  \/ CloseRefused(c)
  \/ Relay(c)
  \/ RelayLog(c)
  \/ Lookup(c)

Next ==
  \E c \in Conn :
    \/ \E p \in Visitor : Connect(c, p)
    \/ \E event \in {"Relay", "Log"} : Send(c, event)
    \/ Hangup(c)
    \/ Drop(c)
    \/ Notice(c)
    \/ Receive(c)
    \/ Callback(c)
    \/ Handle(c)

\* The server's threads run.  Nobody has to connect, to send, to read or to leave,
\* and a lost connection may never be noticed.
Fairness == WF_vars(\E c \in Conn : Callback(c) \/ Handle(c))

SafeSpec == Init /\ [][Next]_vars
Spec == SafeSpec /\ Fairness

-----------------------------------------------------------------------------
(* Properties. *)

AtRest(c) == queue[c] = << >> /\ handling[c] = "nothing"

\* Two registered connections never have the same name, when a program comes back
\* before its old connection is found dead too: one that is there twice would be
\* listed once, and answer twice.  Callbacks that overlap break it: both find the
\* name free before either is registered.
NamesUnique ==
  \A c, d \in m_Clients : Key(c) = Key(d) => c = d

\* No lookup fails, and when the callbacks have caught up, the registered connections are those that
\* are up (or not known to be lost), and nothing is remembered of a refused one:
\* an intruder's close does not take the registration of the one it wanted the
\* name of.
RegistryExact ==
  /\ ~broken
  /\ \A c \in Conn : AtRest(c) =>
       /\ c \in m_Clients <=> link[c] \in {"up", "lost"}
       /\ c \notin m_NotAccepted

\* When nothing is under way, each client's list names exactly the others.
ListsAgree ==
  (\A c \in Conn : AtRest(c)) =>
    \A c \in m_Clients :
      link[c] = "up" /\ inbox[c] = << >> => m_List[c] = KeysOf(m_Clients \ {c})

\* A message reaches the others with the name of its sender, a browser's message
\* with the name the server gave it (addFrom "fill the from key"), and never
\* comes back to the sender.
Signed ==
  \A c \in Conn : \A i \in 1..Len(inbox[c]) :
    inbox[c][i].type = "Relay" =>
      /\ inbox[c][i].key = Key(inbox[c][i].origin)
      /\ inbox[c][i].origin # c

\* A connection that is closed or refused is forgotten in the end, so the name is
\* free again.
Forgotten ==
  \A c \in Conn : link[c] \in {"down", "refused"} ~> c \notin m_Clients \cup m_NotAccepted

\* A refusal is settled with the connection's own id, not with m_Client: however
\* callbacks overlap, a refused connection is forgotten once its close has come,
\* unless a failed lookup has ended the process.
RefusalSettled ==
  \A c \in Conn : link[c] = "refused" ~> c \notin m_NotAccepted \/ broken

=============================================================================
