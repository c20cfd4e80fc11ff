------------------------------ MODULE Hub_proofs ------------------------------
(***************************************************************************)
(* The safety of the hub's registry, proved for any number of connections, *)
(* any programs and any messages.  Types hold however the callbacks of the *)
(* server's threads overlap; that names are unique, that lookups succeed,  *)
(* that messages are signed with their sender's name and that the clients' *)
(* lists are those of the others is proved for callbacks that do not (with *)
(* Overlap a run shows the contrary of the third).                         *)
(***************************************************************************)
EXTENDS Hub, TLAPS

\* The event is among those the server has still to begin; or it has begun it; and the
\* server is done with the connection's Open.
InQueue(c, event) == \E i \in 1..Len(queue[c]) : queue[c][i] = event
Doing(c, event) == handling[c] = event \/ (event = "Open" /\ handling[c] = "Register")
Pending(c, event) == Doing(c, event) \/ InQueue(c, event)
Opened(c) == link[c] # "none" /\ ~Pending(c, "Open")

\* A connection says Open once, and first of all; until then the server knows
\* nothing of it.
OpenPhase ==
  /\ \A c \in Conn : link[c] = "none" => queue[c] = << >> /\ handling[c] = "nothing"
  /\ \A c \in Conn : \A i \in 1..Len(queue[c]) :
       queue[c][i] = "Open" => i = 1 /\ handling[c] = "nothing"
  /\ \A c \in m_Clients \cup m_NotAccepted : Opened(c)

\* A callback under way has written m_Client.
ClientPhase == \A c \in Conn : handling[c] # "nothing" => m_Client \in Conn

HInv == TypeOK /\ OpenPhase /\ ClientPhase

-----------------------------------------------------------------------------

\* A registered key, and the next one to be given, are keys.
LEMMA KeyTypes ==
  ASSUME TypeOK, NEW c \in Conn
  PROVE  Key(c) \in Keys /\ NewKey(c) \in Keys
BY ConstantsAssumption DEF TypeOK, Key, Keys, NewKey

\* What a send does to the inboxes, given a message that is one.
LEMMA SendTypes ==
  ASSUME TypeOK, NEW C, NEW m \in Message, SendTo(C, m)
  PROVE  inbox' \in [Conn -> Seq(Message)]
<1>1. ASSUME NEW d \in Conn
      PROVE  (IF d \in C /\ link[d] = "up" THEN Append(inbox[d], m) ELSE inbox[d]) \in Seq(Message)
  <2>1. inbox[d] \in Seq(Message)
    BY DEF TypeOK
  <2> HIDE DEF Message
  <2> QED
    BY <2>1
<1> QED
  BY <1>1 DEF SendTo

\* An event that arrives keeps the queues' types.
LEMMA ArriveTypes ==
  ASSUME TypeOK, NEW c \in Conn, NEW event \in Event, Arrives(c, event)
  PROVE  queue' \in [Conn -> Seq(Event)]
BY DEF TypeOK, Arrives, Event

\* The clients' and the network's steps keep the types.
LEMMA ClientTypeStep ==
  ASSUME TypeOK, NEW c \in Conn,
         \/ \E p \in Visitor : Connect(c, p)
         \/ \E event \in {"Relay", "Log"} : Send(c, event)
         \/ Hangup(c) \/ Drop(c) \/ Notice(c) \/ Receive(c)
  PROVE  TypeOK'
<1> USE DEF registry, Leaves
<1>1. ASSUME NEW p \in Visitor, Connect(c, p) PROVE TypeOK'
  <2>1. queue' \in [Conn -> Seq(Event)]
    BY <1>1, ArriveTypes DEF Connect, Event
  <2>2. p \in Program \cup Browser \cup {"None"}
    BY ConstantsAssumption
  <2> QED
    BY <1>1, <2>1, <2>2 DEF Connect, TypeOK
<1>2. ASSUME NEW event \in {"Relay", "Log"}, Send(c, event) PROVE TypeOK'
  <2>1. queue' \in [Conn -> Seq(Event)]
    BY <1>2, ArriveTypes DEF Send, Event
  <2>2. nSent' \in 0..MaxMessages
    BY <1>2, ConstantsAssumption DEF Send, TypeOK
  <2> QED
    BY <1>2, <2>1, <2>2 DEF Send, TypeOK
<1>3. CASE Hangup(c)
  <2>1. queue' \in [Conn -> Seq(Event)]
    BY <1>3, ArriveTypes DEF Hangup, Event
  <2>2. /\ link' \in [Conn -> {"none", "up", "lost", "down", "refused"}]
        /\ inbox' \in [Conn -> Seq(Message)]
        /\ m_List' \in [Conn -> SUBSET Keys]
    BY <1>3 DEF Hangup, TypeOK
  <2> QED
    BY <1>3, <2>1, <2>2 DEF Hangup, TypeOK
<1>4. CASE Drop(c)
  BY <1>4 DEF Drop, TypeOK
<1>5. CASE Notice(c)
  <2>1. queue' \in [Conn -> Seq(Event)]
    BY <1>5, ArriveTypes DEF Notice, Event
  <2> QED
    BY <1>5, <2>1 DEF Notice, TypeOK
<1>6. CASE Receive(c)
  <2>1. inbox[c] \in Seq(Message) /\ inbox[c] # << >> /\ m_List[c] \in SUBSET Keys
    BY <1>6 DEF Receive, TypeOK
  <2>2. Head(inbox[c]) \in Message /\ Tail(inbox[c]) \in Seq(Message)
    <3> HIDE DEF Message
    <3> QED
      BY <2>1
  <2>3. inbox' \in [Conn -> Seq(Message)]
    BY <1>6, <2>2 DEF Receive, TypeOK
  <2>4. m_List' \in [Conn -> SUBSET Keys]
    <3>1. Head(inbox[c]).all \in SUBSET Keys
      BY <2>2 DEF Message
    <3> QED
      BY <1>6, <2>1, <3>1 DEF Receive, TypeOK
  <2> QED
    BY <1>6, <2>3, <2>4 DEF Receive, TypeOK
<1> QED
  BY <1>1, <1>2, <1>3, <1>4, <1>5, <1>6

\* The numbers given so far are below the next one.
LEMMA NumberTypes ==
  ASSUME TypeOK, NEW c \in Conn, MakeKey(c)
  PROVE  /\ m_BrowserNumber' \in Nat \ {0}
         /\ number' \in [Conn -> 0..m_BrowserNumber']
         /\ Key(c)' = <<who'[c], NewKey(c)[2]>>
<1>1. m_BrowserNumber' \in Nat \ {0} /\ m_BrowserNumber <= m_BrowserNumber'
  BY DEF MakeKey, TypeOK
<1>2. NewKey(c)[2] \in 0..m_BrowserNumber'
  BY <1>1 DEF NewKey, TypeOK
<1>3. number' = [number EXCEPT ![c] = NewKey(c)[2]] /\ number \in [Conn -> 0..m_BrowserNumber]
  BY DEF MakeKey, TypeOK
<1>4. m_BrowserNumber \in Nat
  BY DEF TypeOK
<1>5. ASSUME NEW d \in Conn PROVE number'[d] \in 0..m_BrowserNumber'
  <2>1. number[d] \in 0..m_BrowserNumber
    BY <1>3
  <2> QED
    BY <1>1, <1>2, <1>3, <1>4, <2>1
<1> QED
  BY <1>1, <1>3, <1>5 DEF Key

\* The server's steps keep the types.
LEMMA ServerTypeStep ==
  ASSUME TypeOK, ClientPhase, NEW c \in Conn, Callback(c) \/ Handle(c)
  PROVE  TypeOK'
<1> USE DEF registry, clientVars, Handles
<1>1. CASE Callback(c)
  <2>1. queue[c] \in Seq(Event) /\ queue[c] # << >>
    BY <1>1 DEF Callback, TypeOK
  <2>2. Head(queue[c]) \in Event /\ Tail(queue[c]) \in Seq(Event)
    BY <2>1
  <2> QED
    BY <1>1, <2>2 DEF Callback, TypeOK
<1>2. CASE OpenAccepted(c)
  <2>1. m_Client \in Conn
    BY <1>2 DEF OpenAccepted, ClientPhase
  <2>2. m_Clients' \in SUBSET Conn
    BY <1>2 DEF OpenAccepted, TypeOK
  <2>3. PICK m \in Message : SendTo(m_Clients', m)
    <3> DEFINE m == [type |-> "Open", key |-> Key(m_Client), all |-> KeysOf(m_Clients'),
                     origin |-> c]
    <3>1. m.key \in Keys
      BY <2>1, KeyTypes
    <3>2. m.all \in SUBSET Keys
      <4> SUFFICES ASSUME NEW d \in m_Clients' PROVE Key(d) \in Keys
        BY DEF KeysOf
      <4> QED
        BY <2>2, KeyTypes
    <3>3. m \in Message
      BY <3>1, <3>2 DEF Message
    <3> QED
      BY <1>2, <3>3 DEF OpenAccepted
  <2>4. inbox' \in [Conn -> Seq(Message)]
    BY <2>3, SendTypes
  <2>5. handling' \in [Conn -> Event \cup {"Register", "nothing"}]
    BY <1>2 DEF OpenAccepted, TypeOK
  <2> QED
    BY <1>2, <2>2, <2>4, <2>5 DEF OpenAccepted, TypeOK
<1>3. CASE OpenRefused(c)
  <2>1. /\ m_BrowserNumber' \in Nat \ {0}
        /\ number' \in [Conn -> 0..m_BrowserNumber']
    BY <1>3, NumberTypes DEF OpenRefused
  <2>2. queue' \in [Conn -> Seq(Event)]
    <3> PICK rest \in {queue[c], << >>} :
          queue' = [queue EXCEPT ![c] = IF link[c] = "down" THEN @ ELSE Append(rest, "Close")]
      BY <1>3 DEF OpenRefused
    <3>1. queue[c] \in Seq(Event) /\ << >> \in Seq(Event)
      BY DEF TypeOK
    <3>2. "Close" \in Event /\ rest \in Seq(Event)
      BY <3>1 DEF Event
    <3>3. Append(rest, "Close") \in Seq(Event)
      BY <3>2
    <3> QED
      BY <3>3 DEF TypeOK
  <2>3. /\ handling' \in [Conn -> Event \cup {"Register", "nothing"}]
        /\ link' \in [Conn -> {"none", "up", "lost", "down", "refused"}]
        /\ m_NotAccepted' \in SUBSET Conn
    BY <1>3 DEF OpenRefused, TypeOK
  <2> QED
    BY <1>3, <2>1, <2>2, <2>3 DEF OpenRefused, TypeOK
<1>4. CASE CloseRegistered(c)
  <2>1. m_Clients' \in SUBSET Conn /\ handling' \in [Conn -> Event \cup {"Register", "nothing"}]
    BY <1>4 DEF CloseRegistered, TypeOK
  <2>2. PICK m \in Message : SendTo(m_Clients', m)
    <3> DEFINE m == [type |-> "Close", key |-> Key(m_Client), all |-> KeysOf(m_Clients'),
                     origin |-> c]
    <3>1. m.key \in Keys
      BY <1>4, KeyTypes DEF CloseRegistered, TypeOK
    <3>2. m.all \in SUBSET Keys
      <4> SUFFICES ASSUME NEW d \in m_Clients' PROVE Key(d) \in Keys
        BY DEF KeysOf
      <4> QED
        BY <2>1, KeyTypes
    <3>3. m \in Message
      BY <3>1, <3>2 DEF Message
    <3> QED
      BY <1>4, <3>3 DEF CloseRegistered
  <2>3. inbox' \in [Conn -> Seq(Message)]
    BY <2>2, SendTypes
  <2> QED
    BY <1>4, <2>1, <2>3 DEF CloseRegistered, TypeOK
<1>5. CASE CloseRefused(c)
  BY <1>5 DEF CloseRefused, TypeOK
<1>6. CASE Relay(c)
  <2>1. PICK m \in Message : SendTo(m_Clients \ {m_Client}, m)
    <3> DEFINE m == [type |-> "Relay", key |-> Sign(c), all |-> {}, origin |-> c]
    <3>1. ServerKey \in Keys
      BY DEF ServerKey, Keys
    <3>2. Sign(c) \in Keys
      BY <1>6, <3>1, KeyTypes DEF Relay, Sign, ClientPhase
    <3>3. m \in Message
      BY <3>2 DEF Message
    <3> QED
      BY <1>6, <3>3 DEF Relay
  <2>2. inbox' \in [Conn -> Seq(Message)]
    BY <2>1, SendTypes
  <2> QED
    BY <1>6, <2>2 DEF Relay, TypeOK
<1>7. CASE RelayLog(c)
  <2>1. PICK C \in SUBSET m_Clients : \E m \in Message : SendTo(C, m)
    <3> DEFINE m == [type |-> "Log", key |-> Key(c), all |-> {}, origin |-> c]
    <3>1. m \in Message
      BY KeyTypes DEF Message
    <3>2. \E C \in SUBSET m_Clients : SendTo(C, m)
      BY <1>7 DEF RelayLog
    <3> HIDE DEF m
    <3> QED
      BY <3>1, <3>2
  <2>2. inbox' \in [Conn -> Seq(Message)]
    BY <2>1, SendTypes
  <2> QED
    BY <1>7, <2>2 DEF RelayLog, TypeOK
<1>8. CASE Lookup(c)
  BY <1>8 DEF Lookup, TypeOK
<1>9. CASE OpenChecked(c)
  <2>1. /\ m_BrowserNumber' \in Nat \ {0}
        /\ number' \in [Conn -> 0..m_BrowserNumber']
    BY <1>9, NumberTypes DEF OpenChecked
  <2>2. handling' \in [Conn -> Event \cup {"Register", "nothing"}]
    BY <1>9 DEF OpenChecked, TypeOK
  <2> QED
    BY <1>9, <2>1, <2>2 DEF OpenChecked, TypeOK
<1> QED
  BY <1>1, <1>2, <1>3, <1>4, <1>5, <1>6, <1>7, <1>8, <1>9 DEF Handle

\* Every step keeps the types.
LEMMA TypeStep == TypeOK /\ ClientPhase /\ [Next]_vars => TypeOK'
<1> SUFFICES ASSUME TypeOK, ClientPhase, [Next]_vars PROVE TypeOK'
  OBVIOUS
<1>1. CASE UNCHANGED vars
  BY <1>1 DEF vars, registry, clientVars, TypeOK
<1> QED
  BY <1>1, ClientTypeStep, ServerTypeStep DEF Next

-----------------------------------------------------------------------------
(* Events. *)

\* Only Callback begins an event, and it writes m_Client.
LEMMA ClientStep == TypeOK /\ ClientPhase /\ [Next]_vars => ClientPhase'
<1> SUFFICES ASSUME TypeOK, ClientPhase, [Next]_vars PROVE ClientPhase'
  OBVIOUS
<1>1. ASSUME NEW c \in Conn, Callback(c) PROVE ClientPhase'
  BY <1>1 DEF Callback, ClientPhase
<1>2. ASSUME NEW c \in Conn, Handle(c) PROVE ClientPhase'
  BY <1>2 DEF Handle, OpenChecked, OpenAccepted, OpenRefused, CloseRegistered, CloseRefused,
     Relay, RelayLog, Lookup, Handles, ClientPhase, TypeOK
<1>3. CASE UNCHANGED <<handling, m_Client>>
  BY <1>3 DEF ClientPhase
<1> QED
  BY <1>1, <1>2, <1>3 DEF Next, vars, Connect, Send, Hangup, Drop, Notice, Receive

\* What the steps do to the events of a connection, and to what the server knows of it.
\* No step but Connect adds an Open, and none but OpenAccepted and OpenRefused enters a
\* connection in a set.
LEMMA OpenStep == TypeOK /\ OpenPhase /\ [Next]_vars => OpenPhase'
<1> SUFFICES ASSUME TypeOK, OpenPhase, [Next]_vars PROVE OpenPhase'
  OBVIOUS
<1> USE DEF OpenPhase, Opened, Pending, Doing, InQueue
<1>0. ASSUME NEW c \in Conn PROVE queue[c] \in Seq(Event) /\ Len(queue[c]) \in Nat
  BY <1>0 DEF TypeOK
<1>1. ASSUME NEW c \in Conn, NEW p \in Visitor, Connect(c, p) PROVE OpenPhase'
  <2>1. /\ link[c] = "none" /\ queue[c] = << >> /\ handling[c] = "nothing"
        /\ c \notin m_Clients \cup m_NotAccepted
    BY <1>1 DEF Connect
  <2>2. queue' = [queue EXCEPT ![c] = <<"Open">>]
    BY <1>1, <2>1 DEF Connect, Arrives
  <2> QED
    BY <1>1, <2>1, <2>2 DEF Connect, TypeOK, registry
<1>2. ASSUME NEW c \in Conn, NEW event \in Event \ {"Open"}, link[c] # "none",
             Arrives(c, event),
             link' = link \/ link' = [link EXCEPT ![c] = "down"],
             UNCHANGED <<handling, m_Clients, m_NotAccepted>>
      PROVE  OpenPhase'
  <2>1. /\ Len(queue'[c]) = Len(queue[c]) + 1
        /\ queue'[c][Len(queue[c]) + 1] = event
        /\ \A i \in 1..Len(queue[c]) : queue'[c][i] = queue[c][i]
        /\ \A d \in Conn \ {c} : queue'[d] = queue[d]
    BY <1>0, <1>2 DEF Arrives, TypeOK
  <2>2. ASSUME NEW d \in Conn PROVE link'[d] = "none" <=> link[d] = "none"
    BY <1>2 DEF TypeOK
  <2>3. ASSUME NEW d \in Conn, NEW i \in 1..Len(queue'[d]), queue'[d][i] = "Open"
        PROVE  i \in 1..Len(queue[d]) /\ queue[d][i] = "Open"
    <3>1. CASE d = c
      BY <1>0, <1>2, <2>1, <2>3, <3>1
    <3>2. CASE d # c
      BY <2>1, <2>3, <3>2
    <3> QED
      BY <3>1, <3>2
  <2>4. ASSUME NEW d \in Conn, link'[d] = "none"
        PROVE  queue'[d] = << >> /\ handling'[d] = "nothing"
    BY <1>2, <2>1, <2>2, <2>4
  <2>5. ASSUME NEW d \in m_Clients \cup m_NotAccepted PROVE Opened(d)'
    <3>1. d \in Conn
      BY DEF TypeOK
    <3> QED
      BY <1>2, <2>2, <2>3, <2>5, <3>1
  <2> QED
    BY <1>2, <2>3, <2>4, <2>5
<1>3. ASSUME NEW c \in Conn, Drop(c) PROVE OpenPhase'
  BY <1>3 DEF Drop, Leaves, TypeOK, registry
<1>4. ASSUME NEW c \in Conn, Callback(c) PROVE OpenPhase'
  <2>1. /\ Len(queue'[c]) = Len(queue[c]) - 1
        /\ \A i \in 1..Len(queue'[c]) : queue'[c][i] = queue[c][i + 1]
        /\ \A d \in Conn \ {c} : queue'[d] = queue[d]
        /\ handling'[c] = queue[c][1]
    BY <1>0, <1>4 DEF Callback, TypeOK
  <2>2. /\ UNCHANGED <<link, m_Clients, m_NotAccepted>> /\ handling[c] = "nothing"
        /\ 1 \in 1..Len(queue[c]) /\ link[c] # "none"
        /\ \A d \in Conn \ {c} : handling'[d] = handling[d]
    BY <1>0, <1>4 DEF Callback, TypeOK, registry, clientVars
  <2>3. queue[c][1] # "Register"
    BY <1>0, <2>2 DEF Event
  <2>4. ASSUME NEW i \in 1..Len(queue'[c]) PROVE queue'[c][i] # "Open"
    BY <1>0, <2>1, <2>2, <2>4
  <2>5. ASSUME NEW d \in m_Clients \cup m_NotAccepted PROVE Opened(d)'
    <3>1. d \in Conn /\ Opened(d)
      BY DEF TypeOK
    <3>2. CASE d = c
      BY <1>0, <2>1, <2>2, <2>3, <2>4, <3>1, <3>2
    <3>3. CASE d # c
      BY <2>1, <2>2, <3>1, <3>3
    <3> QED
      BY <3>2, <3>3
  <2>6. ASSUME NEW d \in Conn, NEW i \in 1..Len(queue'[d]), queue'[d][i] = "Open"
        PROVE  i = 1 /\ handling'[d] = "nothing"
    BY <2>1, <2>2, <2>4, <2>6
  <2> QED
    BY <2>1, <2>2, <2>5, <2>6
<1>5. ASSUME NEW c \in Conn, OpenChecked(c) \/ OpenAccepted(c) PROVE OpenPhase'
  <2>1. /\ handling[c] \in {"Open", "Register"} /\ link[c] # "none"
        /\ \A i \in 1..Len(queue[c]) : queue[c][i] # "Open"
        /\ UNCHANGED <<link, queue, m_NotAccepted>>
    BY <1>5 DEF OpenChecked, OpenAccepted, Handles, clientVars
  <2>2. CASE OpenChecked(c)
    <3>1. handling' = [handling EXCEPT ![c] = "Register"] /\ UNCHANGED m_Clients
      BY <2>2 DEF OpenChecked
    <3>2. c \notin m_Clients \cup m_NotAccepted
      BY <2>1
    <3> QED
      BY <2>1, <3>1, <3>2 DEF TypeOK
  <2>3. CASE OpenAccepted(c)
    <3>1. handling' = [handling EXCEPT ![c] = "nothing"] /\ m_Clients' = m_Clients \cup {c}
      BY <2>3 DEF OpenAccepted, Handles
    <3> QED
      BY <2>1, <3>1 DEF TypeOK
  <2> QED
    BY <1>5, <2>2, <2>3
<1>6. ASSUME NEW c \in Conn, OpenRefused(c) PROVE OpenPhase'
  <2>1. handling[c] = "Open" /\ link[c] # "none" /\ \A i \in 1..Len(queue[c]) : queue[c][i] # "Open"
    BY <1>6 DEF OpenRefused, Handles
  <2>2. /\ \A i \in 1..Len(queue'[c]) : queue'[c][i] # "Open"
        /\ \A d \in Conn \ {c} : queue'[d] = queue[d]
    <3> PICK rest \in {queue[c], << >>} :
          queue' = [queue EXCEPT ![c] = IF link[c] = "down" THEN @ ELSE Append(rest, "Close")]
      BY <1>6 DEF OpenRefused
    <3>1. CASE rest = queue[c]
      BY <1>0, <2>1, <3>1 DEF TypeOK
    <3>2. CASE rest = << >>
      BY <1>0, <2>1, <3>2 DEF TypeOK
    <3> QED
      BY <3>1, <3>2
  <2> QED
    BY <1>6, <2>1, <2>2 DEF OpenRefused, Handles, TypeOK
<1>7. ASSUME NEW c \in Conn,
             CloseRegistered(c) \/ CloseRefused(c) \/ Relay(c) \/ RelayLog(c)
      PROVE  OpenPhase'
  BY <1>0, <1>7 DEF CloseRegistered, CloseRefused, Relay, RelayLog, Handles, TypeOK,
     registry, clientVars
<1>8. CASE UNCHANGED <<link, queue, handling, m_Clients, m_NotAccepted>>
  BY <1>8
<1>9. ASSUME NEW c \in Conn, NEW event \in {"Relay", "Log"}, Send(c, event) PROVE OpenPhase'
  BY <1>2, <1>9 DEF Send, Event, registry
<1>10. ASSUME NEW c \in Conn, Hangup(c) \/ Notice(c) PROVE OpenPhase'
  BY <1>2, <1>10 DEF Hangup, Notice, Leaves, Event, registry
<1> QED
  BY <1>1, <1>3, <1>4, <1>5, <1>6, <1>7, <1>8, <1>9, <1>10
  DEF Next, Handle, Receive, Lookup, vars, registry, clientVars

LEMMA HInit == Init => HInv
<1> SUFFICES ASSUME Init PROVE HInv
  OBVIOUS
<1>1. /\ link \in [Conn -> {"none", "up", "lost", "down", "refused"}]
      /\ who \in [Conn -> Program \cup Browser \cup {"None"}]
      /\ handling \in [Conn -> Event \cup {"Register", "nothing"}]
      /\ m_List \in [Conn -> SUBSET Keys]
  BY DEF Init
<1>2. number \in [Conn -> 0..m_BrowserNumber] /\ m_BrowserNumber \in Nat \ {0}
  BY DEF Init
<1>3. queue \in [Conn -> Seq(Event)] /\ inbox \in [Conn -> Seq(Message)]
  <2>1. << >> \in Seq(Event) /\ << >> \in Seq(Message)
    BY DEF Message
  <2> QED
    BY <2>1 DEF Init
<1>4. /\ m_Client \in Conn \cup {0} /\ m_Clients \in SUBSET Conn
      /\ m_NotAccepted \in SUBSET Conn /\ broken \in BOOLEAN
  BY DEF Init
<1>5. nSent \in 0..MaxMessages
  BY ConstantsAssumption DEF Init
<1>6. OpenPhase /\ ClientPhase
  BY DEF Init, OpenPhase, ClientPhase
<1> QED
  BY <1>1, <1>2, <1>3, <1>4, <1>5, <1>6 DEF HInv, TypeOK

\* However callbacks overlap: the server knows nothing of a connection before its Open,
\* which is its first event, a callback under way has written m_Client, and types are
\* right.
THEOREM HubInvariance == Spec => []HInv
<1>1. HInv /\ [Next]_vars => HInv'
  BY TypeStep, ClientStep, OpenStep DEF HInv
<1> QED
  BY HInit, <1>1, PTL DEF Spec, SafeSpec

\* Every variable of the hub has its type, however callbacks overlap: whatever is
\* sent carries a key that somebody there can have.
THEOREM HubTypeCorrect == Spec => []TypeOK
BY HubInvariance, PTL DEF HInv

-----------------------------------------------------------------------------
(* The registry, when callbacks do not overlap. *)

Closing(c) == Pending(c, "Close")

\* Of one connection: the server knows it from the end of its Open to the end of its
\* Close, in m_Clients if it was accepted and in m_NotAccepted if it was refused.
Registered(c) ==
  /\ link[c] # "none" => who[c] \in Visitor
  /\ link[c] \in {"up", "lost"} =>
       ~Closing(c) /\ (Opened(c) => c \in m_Clients /\ c \notin m_NotAccepted)
  /\ link[c] = "down" =>
       \/ Closing(c) /\ (Opened(c) => c \in m_Clients /\ c \notin m_NotAccepted)
       \/ AtRest(c) /\ c \notin m_Clients /\ c \notin m_NotAccepted
  /\ link[c] = "refused" =>
       /\ Opened(c) /\ c \notin m_Clients /\ who[c] \in Program
       /\ \/ Closing(c) /\ c \in m_NotAccepted
          \/ AtRest(c) /\ c \notin m_NotAccepted

\* Its Close is the last it is heard of.
CloseLast(c) ==
  /\ \A i \in 1..Len(queue[c]) : queue[c][i] = "Close" => i = Len(queue[c])
  /\ handling[c] = "Close" => queue[c] = << >>

\* The callback under way is the one m_Client was written for.
OneCallback == \A c \in Conn : handling[c] # "nothing" => m_Client = c

\* The next number is a new one, so that a browser is never refused.
NumbersUsed ==
  \A c \in Conn :
    /\ c \in m_Clients \/ handling[c] = "Register"
    /\ who[c] \in Browser
    => number[c] < m_BrowserNumber

\* The name a callback has found free stays free until it registers it.
NameFree == \A c \in Conn : handling[c] = "Register" => ~NameTaken(Key(c))

RInv ==
  /\ HInv
  /\ OneCallback
  /\ NamesUnique
  /\ NameFree
  /\ NumbersUsed
  /\ \A c \in Conn : Registered(c) /\ CloseLast(c)
  /\ ~broken

\* What an event that arrives does to a connection's queue.
LEMMA AppendQueue ==
  ASSUME TypeOK, NEW c \in Conn, NEW event \in Event, Arrives(c, event)
  PROVE  /\ \A e \in Event : InQueue(c, e)' <=> (InQueue(c, e) \/ e = event)
         /\ queue'[c] # << >>
         /\ ~InQueue(c, "Close") /\ handling'[c] # "Close" => CloseLast(c)'
         /\ \A d \in Conn \ {c} : queue'[d] = queue[d]
<1>1. queue[c] \in Seq(Event) /\ Len(queue[c]) \in Nat
  BY DEF TypeOK
<1>2. /\ queue'[c] = Append(queue[c], event)
      /\ \A d \in Conn \ {c} : queue'[d] = queue[d]
  BY DEF Arrives, TypeOK
<1>3. /\ Len(queue'[c]) = Len(queue[c]) + 1
      /\ queue'[c][Len(queue[c]) + 1] = event
      /\ \A i \in 1..Len(queue[c]) : queue'[c][i] = queue[c][i]
  BY <1>1, <1>2
<1>4. ASSUME NEW e \in Event PROVE InQueue(c, e)' <=> (InQueue(c, e) \/ e = event)
  <2>1. ASSUME InQueue(c, e)' PROVE InQueue(c, e) \/ e = event
    <3>1. PICK i \in 1..Len(queue'[c]) : queue'[c][i] = e
      BY <2>1 DEF InQueue
    <3>2. CASE i \in 1..Len(queue[c])
      <4>1. queue[c][i] = e
        BY <1>3, <3>1, <3>2
      <4> QED
        BY <3>2, <4>1 DEF InQueue
    <3>3. CASE i \notin 1..Len(queue[c])
      <4>1. i = Len(queue[c]) + 1
        BY <1>1, <1>3, <3>1, <3>3
      <4> QED
        BY <1>3, <3>1, <4>1
    <3> QED
      BY <3>2, <3>3
  <2>2. ASSUME InQueue(c, e) PROVE InQueue(c, e)'
    <3>1. PICK i \in 1..Len(queue[c]) : queue[c][i] = e
      BY <2>2 DEF InQueue
    <3>2. i \in 1..Len(queue'[c]) /\ queue'[c][i] = e
      BY <1>1, <1>3, <3>1
    <3> QED
      BY <3>2 DEF InQueue
  <2>3. ASSUME e = event PROVE InQueue(c, e)'
    <3>1. Len(queue[c]) + 1 \in 1..Len(queue'[c])
      BY <1>1, <1>3
    <3> QED
      BY <1>3, <2>3, <3>1 DEF InQueue
  <2> QED
    BY <2>1, <2>2, <2>3
<1>5. queue'[c] # << >>
  BY <1>1, <1>3
<1>6. ASSUME ~InQueue(c, "Close"), handling'[c] # "Close" PROVE CloseLast(c)'
  <2> SUFFICES ASSUME NEW i \in 1..Len(queue'[c]), queue'[c][i] = "Close"
               PROVE  i = Len(queue'[c])
    BY <1>6 DEF CloseLast
  <2>1. i \notin 1..Len(queue[c])
    BY <1>3, <1>6 DEF InQueue
  <2> QED
    BY <1>1, <1>3, <2>1
<1> QED
  BY <1>2, <1>4, <1>5, <1>6

\* Beginning an event leaves what is pending as it was.
LEMMA TakeQueue ==
  ASSUME TypeOK, NEW c \in Conn, Callback(c)
  PROVE  /\ \A e \in Event : Pending(c, e)' <=> Pending(c, e)
         /\ ~AtRest(c)
         /\ CloseLast(c) => CloseLast(c)'
         /\ \A d \in Conn \ {c} : queue'[d] = queue[d] /\ handling'[d] = handling[d]
<1>1. queue[c] \in Seq(Event) /\ Len(queue[c]) \in Nat /\ queue[c] # << >>
  BY DEF TypeOK, Callback
<1>2. /\ queue'[c] = Tail(queue[c]) /\ handling'[c] = Head(queue[c])
      /\ \A d \in Conn \ {c} : queue'[d] = queue[d] /\ handling'[d] = handling[d]
      /\ handling[c] = "nothing"
  BY DEF Callback, TypeOK
<1>3. /\ Len(queue'[c]) = Len(queue[c]) - 1 /\ Len(queue[c]) > 0
      /\ \A i \in 1..Len(queue'[c]) : queue'[c][i] = queue[c][i + 1]
      /\ handling'[c] = queue[c][1]
  BY <1>1, <1>2
<1>4. ASSUME NEW e \in Event PROVE Pending(c, e)' <=> Pending(c, e)
  <2>1. InQueue(c, e) <=> (queue[c][1] = e \/ InQueue(c, e)')
    <3>1. ASSUME InQueue(c, e) PROVE queue[c][1] = e \/ InQueue(c, e)'
      <4>1. PICK i \in 1..Len(queue[c]) : queue[c][i] = e
        BY <3>1 DEF InQueue
      <4>2. CASE i = 1
        BY <4>1, <4>2
      <4>3. CASE i # 1
        <5>1. i - 1 \in 1..Len(queue'[c]) /\ queue'[c][i - 1] = e
          BY <1>1, <1>3, <4>1, <4>3
        <5> QED
          BY <5>1 DEF InQueue
      <4> QED
        BY <4>2, <4>3
    <3>2. ASSUME queue[c][1] = e PROVE InQueue(c, e)
      BY <1>1, <1>3, <3>2 DEF InQueue
    <3>3. ASSUME InQueue(c, e)' PROVE InQueue(c, e)
      BY <1>1, <1>3, <3>3 DEF InQueue
    <3> QED
      BY <3>1, <3>2, <3>3
  <2>2. e # "nothing"
    BY DEF Event
  <2>3. handling'[c] # "Register"
    <3>1. queue[c][1] \in Event
      BY <1>1, <1>3
    <3> QED
      BY <1>3, <3>1 DEF Event
  <2> QED
    BY <1>2, <1>3, <2>1, <2>2, <2>3 DEF Pending, Doing
<1>5. ASSUME CloseLast(c) PROVE CloseLast(c)'
  <2>1. queue[c][1] = "Close" => Len(queue[c]) = 1
    <3>1. 1 \in 1..Len(queue[c])
      BY <1>1, <1>3
    <3> QED
      BY <1>5, <3>1 DEF CloseLast
  <2>2. handling'[c] = "Close" => queue'[c] = << >>
    <3>1. handling'[c] = "Close" => Len(queue'[c]) = 0
      BY <1>1, <1>3, <2>1
    <3>2. queue'[c] \in Seq(Event)
      BY <1>1, <1>2
    <3> QED
      BY <3>1, <3>2
  <2>3. ASSUME NEW i \in 1..Len(queue'[c]), queue'[c][i] = "Close"
        PROVE  i = Len(queue'[c])
    BY <1>1, <1>3, <1>5, <2>3 DEF CloseLast
  <2> QED
    BY <2>2, <2>3 DEF CloseLast
<1> QED
  BY <1>1, <1>2, <1>4, <1>5 DEF AtRest

\* A step of one connection leaves what is said of another as it was.
LEMMA OthersKept ==
  ASSUME NEW d \in Conn, Registered(d), CloseLast(d),
         link'[d] = link[d], who'[d] = who[d], queue'[d] = queue[d],
         handling'[d] = handling[d],
         d \in m_Clients' <=> d \in m_Clients,
         d \in m_NotAccepted' <=> d \in m_NotAccepted
  PROVE  Registered(d)' /\ CloseLast(d)'
BY DEF Registered, CloseLast, Closing, Opened, Pending, Doing, InQueue, AtRest

\* A connection that a callback has to do with has been opened, unless it is its Open.
LEMMA HandledOpened ==
  ASSUME OpenPhase, NEW c \in Conn, handling[c] # "nothing"
  PROVE  /\ link[c] # "none" /\ ~InQueue(c, "Open")
         /\ handling[c] \notin {"Open", "Register"} => Opened(c)
         /\ handling[c] \in {"Open", "Register"} =>
              ~Opened(c) /\ c \notin m_Clients /\ c \notin m_NotAccepted
BY DEF OpenPhase, Opened, Pending, Doing, InQueue

\* The clients' and the network's steps keep the connection's phase.
LEMMA ClientRegisteredStep ==
  ASSUME RInv, NEW c \in Conn,
         \/ \E p \in Visitor : Connect(c, p)
         \/ \E event \in {"Relay", "Log"} : Send(c, event)
         \/ Hangup(c) \/ Drop(c) \/ Notice(c) \/ Receive(c) \/ Callback(c)
  PROVE  Registered(c)' /\ CloseLast(c)'
<1> USE DEF registry, clientVars
<1>1. TypeOK /\ OpenPhase /\ Registered(c) /\ CloseLast(c)
  BY DEF RInv, HInv
<1>2. ASSUME NEW p \in Visitor, Connect(c, p) PROVE Registered(c)' /\ CloseLast(c)'
  <2>1. link[c] = "none" /\ queue[c] = << >> /\ handling[c] = "nothing"
    BY <1>1, <1>2 DEF Connect, OpenPhase
  <2>2. /\ link'[c] = "up" /\ who'[c] = p /\ handling'[c] = "nothing"
        /\ ~InQueue(c, "Close")
    BY <1>1, <1>2, <2>1 DEF Connect, InQueue, TypeOK
  <2>3. /\ InQueue(c, "Open")' /\ ~InQueue(c, "Close")'
        /\ CloseLast(c)'
    BY <1>1, <1>2, <2>2, AppendQueue DEF Connect, Event
  <2> QED
    BY <2>2, <2>3 DEF Registered, Closing, Opened, Pending, Doing
<1>3. ASSUME NEW event \in {"Relay", "Log"}, Send(c, event)
      PROVE  Registered(c)' /\ CloseLast(c)'
  <2>1. /\ link[c] = "up" /\ UNCHANGED <<link, who, handling, m_Clients, m_NotAccepted>>
        /\ Arrives(c, event) /\ event \in Event
    BY <1>3 DEF Send, Event
  <2>2. \A e \in {"Open", "Close"} : InQueue(c, e)' <=> InQueue(c, e)
    BY <1>1, <1>3, <2>1, AppendQueue DEF Event
  <2>3. ~Closing(c)
    BY <1>1, <2>1 DEF Registered
  <2>4. CloseLast(c)'
    BY <1>1, <2>1, <2>3, AppendQueue DEF Closing, Pending, Doing
  <2> QED
    BY <1>1, <2>1, <2>2, <2>4 DEF Registered, Closing, Opened, Pending, Doing
<1>4. CASE Hangup(c) \/ Notice(c)
  <2>1. /\ link[c] \in {"up", "lost"} /\ link'[c] = "down"
        /\ UNCHANGED <<who, handling, m_Clients, m_NotAccepted>>
        /\ Arrives(c, "Close")
    BY <1>1, <1>4 DEF Hangup, Notice, Leaves, TypeOK
  <2>2. InQueue(c, "Close")' /\ (InQueue(c, "Open")' <=> InQueue(c, "Open"))
    BY <1>1, <2>1, AppendQueue DEF Event
  <2>3. ~Closing(c)
    BY <1>1, <2>1 DEF Registered
  <2>4. CloseLast(c)'
    BY <1>1, <2>1, <2>3, AppendQueue DEF Closing, Pending, Doing, Event
  <2> QED
    BY <1>1, <2>1, <2>2, <2>4 DEF Registered, Closing, Opened, Pending, Doing
<1>5. CASE Drop(c)
  <2>1. /\ link[c] = "up" /\ link'[c] = "lost"
        /\ UNCHANGED <<who, handling, queue, m_Clients, m_NotAccepted>>
    BY <1>1, <1>5 DEF Drop, Leaves, TypeOK
  <2> QED
    BY <1>1, <2>1 DEF Registered, CloseLast, Closing, Opened, Pending, Doing, InQueue
<1>6. CASE Receive(c)
  BY <1>1, <1>6, OthersKept DEF Receive
<1>7. CASE Callback(c)
  <2>1. UNCHANGED <<link, who, m_Clients, m_NotAccepted>>
    BY <1>7 DEF Callback
  <2>2. /\ Pending(c, "Open")' <=> Pending(c, "Open")
        /\ Pending(c, "Close")' <=> Pending(c, "Close")
        /\ ~AtRest(c) /\ CloseLast(c)'
    BY <1>1, <1>7, TakeQueue DEF Event
  <2> QED
    BY <1>1, <2>1, <2>2 DEF Registered, Closing, Opened
<1> QED
  BY <1>2, <1>3, <1>4, <1>5, <1>6, <1>7

\* The server's steps keep the phase of the connection they are about.
LEMMA ServerRegisteredStep ==
  ASSUME RInv, NEW c \in Conn,
         \/ OpenChecked(c) \/ OpenAccepted(c) \/ OpenRefused(c) \/ CloseRegistered(c)
         \/ CloseRefused(c) \/ Relay(c) \/ RelayLog(c)
  PROVE  Registered(c)' /\ CloseLast(c)'
<1> USE DEF registry, clientVars, Handles
<1>1. TypeOK /\ OpenPhase /\ Registered(c) /\ CloseLast(c) /\ NumbersUsed
  BY DEF RInv, HInv
<1>2. handling[c] # "nothing" /\ ~AtRest(c) /\ m_Client = c
  <2>1. handling[c] # "nothing"
    BY DEF OpenChecked, OpenAccepted, OpenRefused, CloseRegistered, CloseRefused, Relay, RelayLog
  <2> QED
    BY <2>1 DEF AtRest, RInv, OneCallback
<1>3. /\ link[c] # "none" /\ ~InQueue(c, "Open")
      /\ handling[c] \notin {"Open", "Register"} => Opened(c)
      /\ handling[c] \in {"Open", "Register"} =>
           ~Opened(c) /\ c \notin m_Clients /\ c \notin m_NotAccepted
  BY <1>1, <1>2, HandledOpened
<1>4. CASE OpenAccepted(c)
  <2>1. /\ handling[c] = "Register" /\ UNCHANGED <<link, who, queue, m_NotAccepted>>
        /\ c \in m_Clients' /\ handling'[c] = "nothing"
    BY <1>1, <1>4 DEF OpenAccepted, TypeOK
  <2> QED
    BY <1>1, <1>2, <1>3, <2>1
    DEF Registered, CloseLast, Closing, Opened, Pending, Doing, InQueue
<1>5. CASE OpenRefused(c)
  <2>1. /\ handling[c] = "Open" /\ link'[c] = "refused"
        /\ UNCHANGED <<who, m_Clients>> /\ c \in m_NotAccepted' /\ handling'[c] = "nothing"
    BY <1>1, <1>5 DEF OpenRefused, TypeOK
  <2>2. who[c] \in Program
    <3>1. who[c] \in Visitor
      BY <1>1, <1>3 DEF Registered
    <3>2. who[c] \notin Browser
      <4> SUFFICES ASSUME who[c] \in Browser PROVE FALSE
        OBVIOUS
      <4>1. PICK d \in m_Clients : Key(d) = <<who[c], m_BrowserNumber>>
        BY <1>5 DEF OpenRefused, NameTaken, NewKey
      <4>2. who[d] \in Browser /\ number[d] = m_BrowserNumber
        BY <4>1 DEF Key
      <4> QED
        BY <1>1, <4>2 DEF NumbersUsed, TypeOK
    <3> QED
      BY <3>1, <3>2, ConstantsAssumption
  <2>3. InQueue(c, "Close")' /\ ~InQueue(c, "Open")' /\ CloseLast(c)'
    <3>1. CASE link[c] = "down"
      <4>1. queue'[c] = queue[c]
        BY <1>1, <1>5, <3>1 DEF OpenRefused, TypeOK
      <4>2. InQueue(c, "Close")
        BY <1>1, <1>2, <2>1, <3>1 DEF Registered, Closing, Pending, Doing
      <4> QED
        BY <1>1, <1>3, <2>1, <4>1, <4>2 DEF CloseLast, InQueue
    <3>2. CASE link[c] # "down"
      <4>1. PICK rest \in {queue[c], << >>} : queue'[c] = Append(rest, "Close")
        BY <1>1, <1>5, <3>2 DEF OpenRefused, TypeOK
      <4>2. ~InQueue(c, "Close")
        BY <1>1, <1>3, <2>1, <3>2 DEF Registered, Closing, Pending, Doing, TypeOK
      <4>3. /\ rest \in Seq(Event)
            /\ \A i \in 1..Len(rest) : rest[i] # "Close" /\ rest[i] # "Open"
        <5>1. queue[c] \in Seq(Event) /\ << >> \in Seq(Event)
          BY <1>1 DEF TypeOK
        <5>2. \A i \in 1..Len(queue[c]) : queue[c][i] # "Close" /\ queue[c][i] # "Open"
          BY <1>3, <4>2 DEF InQueue
        <5>3. CASE rest = queue[c]
          BY <5>1, <5>2, <5>3
        <5>4. CASE rest = << >>
          BY <5>1, <5>4
        <5> QED
          BY <5>3, <5>4
      <4>4. /\ Len(queue'[c]) = Len(rest) + 1 /\ Len(rest) \in Nat
            /\ queue'[c][Len(rest) + 1] = "Close"
            /\ \A i \in 1..Len(rest) : queue'[c][i] = rest[i]
        BY <4>1, <4>3
      <4>5. InQueue(c, "Close")' /\ ~InQueue(c, "Open")'
        BY <4>3, <4>4 DEF InQueue
      <4>6. ASSUME NEW i \in 1..Len(queue'[c]), queue'[c][i] = "Close"
            PROVE  i = Len(queue'[c])
        BY <4>3, <4>4, <4>6
      <4> QED
        BY <2>1, <4>5, <4>6 DEF CloseLast
    <3> QED
      BY <3>1, <3>2
  <2> QED
    BY <1>3, <2>1, <2>2, <2>3, ConstantsAssumption, <1>1
    DEF Registered, Closing, Opened, Pending, Doing
<1>6. CASE CloseRegistered(c)
  <2>1. /\ handling[c] = "Close" /\ c \in m_Clients /\ c \notin m_NotAccepted
        /\ m_Clients' = m_Clients \ {c} /\ UNCHANGED <<link, who, queue, m_NotAccepted>>
        /\ handling'[c] = "nothing"
    BY <1>1, <1>2, <1>6 DEF CloseRegistered, TypeOK
  <2>2. queue[c] = << >> /\ link[c] = "down"
    BY <1>1, <1>3, <2>1 DEF CloseLast, Registered, Closing, Pending, Doing, TypeOK
  <2> QED
    BY <1>1, <2>1, <2>2 DEF Registered, CloseLast, AtRest
<1>7. CASE CloseRefused(c)
  <2>1. /\ handling[c] = "Close" /\ c \in m_NotAccepted
        /\ m_NotAccepted' = m_NotAccepted \ {c} /\ UNCHANGED <<link, who, queue, m_Clients>>
        /\ handling'[c] = "nothing"
    BY <1>1, <1>7 DEF CloseRefused, TypeOK
  <2>2. queue[c] = << >> /\ link[c] = "refused"
    BY <1>1, <1>3, <2>1 DEF CloseLast, Registered, Closing, Pending, Doing, TypeOK
  <2> QED
    BY <1>1, <2>1, <2>2 DEF Registered, CloseLast, AtRest, Opened, Pending, Doing, InQueue
<1>8. CASE Relay(c) \/ RelayLog(c)
  <2>1. /\ handling[c] \in {"Relay", "Log"}
        /\ UNCHANGED <<link, who, queue, m_Clients, m_NotAccepted>>
        /\ handling'[c] = "nothing"
    BY <1>1, <1>8 DEF Relay, RelayLog, TypeOK
  <2> QED
    BY <1>1, <1>2, <2>1
    DEF Registered, CloseLast, Closing, Opened, Pending, Doing, InQueue
<1>9. CASE OpenChecked(c)
  <2>1. /\ handling[c] = "Open" /\ handling'[c] = "Register"
        /\ UNCHANGED <<link, who, queue, m_Clients, m_NotAccepted>>
    BY <1>1, <1>9 DEF OpenChecked, TypeOK
  <2> QED
    BY <1>1, <1>2, <2>1
    DEF Registered, CloseLast, Closing, Opened, Pending, Doing, InQueue
<1> QED
  BY <1>4, <1>5, <1>6, <1>7, <1>8, <1>9

\* No callback looks up a connection that is not registered.
LEMMA LookupsSucceed ==
  ASSUME RInv, NEW c \in Conn
  PROVE  ~Lookup(c)
<1> SUFFICES ASSUME Lookup(c) PROVE FALSE
  OBVIOUS
<1>1. TypeOK /\ OpenPhase /\ Registered(c) /\ CloseLast(c)
  BY DEF RInv, HInv
<1>2. handling[c] \in {"Register", "Close", "Relay"} /\ m_Client \notin m_Clients
  BY DEF Lookup, NeedsInfos
<1>3. m_Client = c /\ c \notin m_Clients /\ ~AtRest(c)
  BY <1>2 DEF RInv, OneCallback, AtRest
<1>4. handling[c] # "Register"
  BY <1>3 DEF Lookup, NeedsInfos
<1>5. Opened(c) /\ link[c] # "none"
  BY <1>1, <1>2, <1>4, HandledOpened
<1>6. link[c] = "refused"
  BY <1>1, <1>3, <1>5 DEF Registered, TypeOK
<1>7. who[c] \in Program /\ c \in m_NotAccepted
  BY <1>1, <1>3, <1>6 DEF Registered
<1> QED
  BY <1>3, <1>4, <1>7, ConstantsAssumption DEF Lookup, NeedsInfos

\* Who does something touches nothing of the others but their inboxes.
LEMMA OthersLeftAlone ==
  ASSUME RInv, NEW c \in Conn, NEW d \in Conn \ {c},
         \/ \E p \in Visitor : Connect(c, p)
         \/ \E event \in {"Relay", "Log"} : Send(c, event)
         \/ Hangup(c) \/ Drop(c) \/ Notice(c) \/ Receive(c) \/ Callback(c) \/ Handle(c)
  PROVE  /\ link'[d] = link[d] /\ who'[d] = who[d] /\ number'[d] = number[d]
         /\ queue'[d] = queue[d] /\ handling'[d] = handling[d]
         /\ d \in m_Clients' <=> d \in m_Clients
         /\ d \in m_NotAccepted' <=> d \in m_NotAccepted
<1> USE DEF registry, clientVars, Handles, Leaves, Arrives, MakeKey
<1>1. TypeOK /\ OneCallback
  BY DEF RInv, HInv
<1>2. CASE \/ \E p \in Visitor : Connect(c, p)
           \/ \E event \in {"Relay", "Log"} : Send(c, event)
           \/ Hangup(c) \/ Drop(c) \/ Notice(c) \/ Receive(c) \/ Callback(c)
  BY <1>1, <1>2 DEF Connect, Send, Hangup, Drop, Notice, Receive, Callback, TypeOK
<1>3. CASE OpenChecked(c) \/ OpenAccepted(c)
  BY <1>1, <1>3 DEF OpenChecked, OpenAccepted, TypeOK
<1>4. CASE OpenRefused(c)
  BY <1>1, <1>4 DEF OpenRefused, TypeOK
<1>5. CASE CloseRegistered(c)
  <2>1. m_Client = c
    BY <1>1, <1>5 DEF CloseRegistered, OneCallback
  <2> QED
    BY <1>1, <1>5, <2>1 DEF CloseRegistered, TypeOK
<1>6. CASE CloseRefused(c) \/ Relay(c) \/ RelayLog(c) \/ Lookup(c)
  BY <1>1, <1>6 DEF CloseRefused, Relay, RelayLog, Lookup, TypeOK
<1> QED
  BY <1>2, <1>3, <1>4, <1>5, <1>6 DEF Handle

\* Every step keeps every connection's phase.
LEMMA RegistryStep ==
  ASSUME RInv, [Next]_vars
  PROVE  (\A c \in Conn : Registered(c) /\ CloseLast(c))' /\ ~broken'
<1>1. CASE UNCHANGED vars
  <2>1. UNCHANGED <<link, who, queue, handling, m_Clients, m_NotAccepted, broken>>
    BY <1>1 DEF vars, registry, clientVars
  <2> QED
    BY <2>1 DEF RInv, Registered, CloseLast, Closing, Opened, Pending, Doing, InQueue, AtRest
<1>2. ASSUME NEW c \in Conn,
             \/ \E p \in Visitor : Connect(c, p)
             \/ \E event \in {"Relay", "Log"} : Send(c, event)
             \/ Hangup(c) \/ Drop(c) \/ Notice(c) \/ Receive(c) \/ Callback(c) \/ Handle(c)
      PROVE  (\A d \in Conn : Registered(d) /\ CloseLast(d))' /\ ~broken'
  <2>1. ~Lookup(c)
    BY LookupsSucceed
  <2>2. Registered(c)' /\ CloseLast(c)'
    BY <1>2, <2>1, ClientRegisteredStep, ServerRegisteredStep DEF Handle
  <2>3. ASSUME NEW d \in Conn \ {c} PROVE Registered(d)' /\ CloseLast(d)'
    <3>1. Registered(d) /\ CloseLast(d)
      BY DEF RInv
    <3> QED
      BY <1>2, <3>1, OthersLeftAlone, OthersKept
  <2>4. ~broken'
    BY <1>2, <2>1 DEF RInv, Connect, Send, Hangup, Drop, Notice, Receive, Callback, Handle,
       OpenChecked, OpenAccepted, OpenRefused, CloseRegistered, CloseRefused, Relay, RelayLog
  <2> QED
    BY <2>2, <2>3, <2>4
<1> QED
  BY <1>1, <1>2 DEF Next

\* One callback at a time: m_Client and the numbers of the browsers stay right.
LEMMA CallbackStep ==
  ASSUME ~Overlap, RInv, [Next]_vars
  PROVE  OneCallback' /\ NumbersUsed'
<1> USE DEF registry, clientVars, Handles
<1>1. TypeOK /\ OpenPhase /\ OneCallback /\ NumbersUsed
  BY DEF RInv, HInv
<1>2. OneCallback'
  <2>1. ASSUME NEW c \in Conn, Callback(c) PROVE OneCallback'
    BY <1>1, <2>1 DEF Callback, OneCallback, TypeOK
  <2>2. ASSUME NEW c \in Conn, Handle(c) PROVE OneCallback'
    BY <1>1, <2>2 DEF Handle, OpenChecked, OpenAccepted, OpenRefused, CloseRegistered,
       CloseRefused, Relay, RelayLog, Lookup, OneCallback, TypeOK
  <2>3. CASE UNCHANGED <<handling, m_Client>>
    BY <1>1, <2>3 DEF OneCallback
  <2> QED
    BY <2>1, <2>2, <2>3 DEF Next, vars, Connect, Send, Hangup, Drop, Notice, Receive
<1>3. NumbersUsed'
  <2>1. ASSUME NEW c \in Conn, NEW p \in Visitor, Connect(c, p) PROVE NumbersUsed'
    <3>1. c \notin m_Clients /\ handling[c] = "nothing"
      BY <1>1, <2>1 DEF Connect, OpenPhase, Opened
    <3> QED
      BY <1>1, <2>1, <3>1 DEF Connect, NumbersUsed, TypeOK
  <2>2. ASSUME NEW c \in Conn, OpenChecked(c) \/ OpenRefused(c) PROVE NumbersUsed'
    <3>1. c \notin m_Clients
      BY <1>1, <2>2, HandledOpened DEF OpenChecked, OpenRefused
    <3>2. /\ m_BrowserNumber \in Nat /\ m_BrowserNumber' \in Nat
          /\ m_BrowserNumber <= m_BrowserNumber'
          /\ who[c] \in Browser => number'[c] < m_BrowserNumber'
          /\ \A d \in Conn \ {c} : number'[d] = number[d] /\ handling'[d] = handling[d]
          /\ who' = who /\ m_Clients' = m_Clients
      BY <1>1, <2>2 DEF OpenChecked, OpenRefused, MakeKey, NewKey, TypeOK
    <3>3. ASSUME NEW d \in Conn, d \in m_Clients \/ handling'[d] = "Register", who[d] \in Browser
          PROVE  number'[d] < m_BrowserNumber'
      <4>1. CASE d = c
        BY <3>2, <3>3, <4>1
      <4>2. CASE d # c
        <5>1. /\ number'[d] = number[d] /\ handling'[d] = handling[d]
          BY <3>2, <4>2
        <5>2. number[d] < m_BrowserNumber /\ number[d] \in Nat
          BY <1>1, <3>3, <5>1 DEF NumbersUsed, TypeOK
        <5> QED
          BY <3>2, <5>1, <5>2
      <4> QED
        BY <4>1, <4>2
    <3> QED
      BY <3>2, <3>3 DEF NumbersUsed
  <2>3. ASSUME NEW c \in Conn,
               OpenAccepted(c) \/ CloseRegistered(c) \/ CloseRefused(c) \/ Relay(c) \/ RelayLog(c)
        PROVE  NumbersUsed'
    BY <1>1, <2>3 DEF OpenAccepted, CloseRegistered, CloseRefused, Relay, RelayLog, NumbersUsed,
       TypeOK
  <2>4. ASSUME NEW c \in Conn, Callback(c) PROVE NumbersUsed'
    <3>1. \A d \in Conn : handling'[d] = "Register" => handling[d] = "Register"
      <4>1. Head(queue[c]) \in Event
        <5>1. queue[c] \in Seq(Event) /\ queue[c] # << >>
          BY <1>1, <2>4 DEF Callback, TypeOK
        <5> QED
          BY <5>1
      <4>2. handling' = [handling EXCEPT ![c] = Head(queue[c])]
        BY <2>4 DEF Callback
      <4> QED
        BY <1>1, <4>1, <4>2 DEF Event, TypeOK
    <3> QED
      BY <1>1, <2>4, <3>1 DEF Callback, NumbersUsed
  <2>5. CASE UNCHANGED <<who, number, m_Clients, m_BrowserNumber, handling>>
    BY <1>1, <2>5 DEF NumbersUsed
  <2> QED
    BY <2>1, <2>2, <2>3, <2>4, <2>5 DEF Next, Handle, Send, Hangup, Drop, Notice, Receive,
       Lookup, vars
<1> QED
  BY <1>2, <1>3

\* One callback at a time: a name that is found free is still free when it is
\* registered, so a connection enters the registry only with a key no other there has.
LEMMA NamesStep ==
  ASSUME ~Overlap, RInv, [Next]_vars
  PROVE  NamesUnique' /\ NameFree'
<1> USE DEF registry, clientVars, Handles
<1>1. TypeOK /\ OpenPhase /\ OneCallback /\ NamesUnique /\ NameFree
  BY DEF RInv, HInv
<1>2. ASSUME NEW c \in Conn, NEW p \in Visitor, Connect(c, p) PROVE NamesUnique' /\ NameFree'
  <2>1. c \notin m_Clients /\ handling[c] = "nothing"
    BY <1>1, <1>2 DEF Connect, OpenPhase, Opened
  <2>2. \A d \in Conn \ {c} : Key(d)' = Key(d)
    BY <1>1, <1>2 DEF Connect, Key, TypeOK
  <2>3. UNCHANGED <<m_Clients, handling>> /\ m_Clients \subseteq Conn
    BY <1>1, <1>2 DEF Connect, TypeOK
  <2> QED
    BY <1>1, <2>1, <2>2, <2>3 DEF NamesUnique, NameFree, NameTaken
<1>3. ASSUME NEW c \in Conn, OpenChecked(c) PROVE NamesUnique' /\ NameFree'
  <2>1. c \notin m_Clients /\ m_Client = c
    BY <1>1, <1>3, HandledOpened DEF OpenChecked, OneCallback
  <2>2. Key(c)' = NewKey(c) /\ \A d \in Conn \ {c} : Key(d)' = Key(d)
    BY <1>1, <1>3 DEF OpenChecked, MakeKey, Key, NewKey, TypeOK
  <2>3. UNCHANGED m_Clients /\ m_Clients \subseteq Conn /\ ~NameTaken(NewKey(c))
    BY <1>1, <1>3 DEF OpenChecked, TypeOK
  <2>4. \A d \in Conn \ {c} : handling'[d] = "nothing"
    BY <1>1, <1>3, <2>1 DEF OpenChecked, OneCallback, TypeOK
  <2>5. NamesUnique'
    BY <1>1, <2>1, <2>2, <2>3 DEF NamesUnique
  <2>6. ~NameTaken(Key(c))'
    BY <2>1, <2>2, <2>3 DEF NameTaken
  <2> QED
    BY <2>4, <2>5, <2>6 DEF NameFree
<1>4. ASSUME NEW c \in Conn, Handle(c), ~OpenChecked(c), m_Clients' \subseteq m_Clients \cup {c},
             c \in m_Clients' => c \in m_Clients \/ handling[c] = "Register",
             \A d \in m_Clients' : Key(d)' = Key(d), handling'[c] = "nothing"
      PROVE  NamesUnique' /\ NameFree'
  <2>1. handling[c] # "nothing" => \A d \in Conn : handling'[d] = "nothing"
    BY <1>1, <1>4 DEF Handle, OpenAccepted, OpenRefused, CloseRegistered, CloseRefused,
       Relay, RelayLog, Lookup, OneCallback, TypeOK
  <2>2. handling[c] # "nothing"
    BY <1>4 DEF Handle, OpenAccepted, OpenRefused, CloseRegistered, CloseRefused,
       Relay, RelayLog, Lookup, NeedsInfos
  <2>3. handling[c] = "Register" => ~NameTaken(Key(c))
    BY <1>1 DEF NameFree
  <2> QED
    BY <1>1, <1>4, <2>1, <2>2, <2>3 DEF NamesUnique, NameFree, NameTaken
<1>5. ASSUME NEW c \in Conn, OpenAccepted(c) PROVE NamesUnique' /\ NameFree'
  <2>1. \A d \in Conn : Key(d)' = Key(d)
    BY <1>5 DEF OpenAccepted, Key
  <2>2. /\ m_Clients' = m_Clients \cup {c} /\ handling'[c] = "nothing" /\ m_Clients \subseteq Conn
        /\ handling[c] = "Register" /\ ~OpenChecked(c)
    BY <1>1, <1>5 DEF OpenAccepted, OpenChecked, TypeOK
  <2> QED
    BY <1>4, <1>5, <2>1, <2>2 DEF Handle
<1>6. ASSUME NEW c \in Conn, OpenRefused(c) PROVE NamesUnique' /\ NameFree'
  <2>1. c \notin m_Clients
    BY <1>1, <1>6, HandledOpened DEF OpenRefused
  <2>2. /\ m_Clients' = m_Clients /\ handling'[c] = "nothing" /\ m_Clients \subseteq Conn
        /\ ~OpenChecked(c)
    BY <1>1, <1>6 DEF OpenRefused, OpenChecked, TypeOK
  <2>3. \A d \in Conn \ {c} : Key(d)' = Key(d)
    BY <1>1, <1>6 DEF OpenRefused, MakeKey, Key, TypeOK
  <2> QED
    BY <1>4, <1>6, <2>1, <2>2, <2>3 DEF Handle
<1>7. ASSUME NEW c \in Conn,
             CloseRegistered(c) \/ CloseRefused(c) \/ Relay(c) \/ RelayLog(c)
      PROVE  NamesUnique' /\ NameFree'
  <2>1. \A d \in Conn : Key(d)' = Key(d)
    BY <1>7 DEF CloseRegistered, CloseRefused, Relay, RelayLog, Key
  <2>2. m_Clients' \subseteq m_Clients /\ handling'[c] = "nothing" /\ m_Clients \subseteq Conn
    BY <1>1, <1>7 DEF CloseRegistered, CloseRefused, Relay, RelayLog, TypeOK
  <2>3. ~OpenChecked(c)
    BY <1>7 DEF CloseRegistered, CloseRefused, Relay, RelayLog, OpenChecked
  <2> QED
    BY <1>4, <1>7, <2>1, <2>2, <2>3 DEF Handle
<1>8. ASSUME NEW c \in Conn, Callback(c) PROVE NamesUnique' /\ NameFree'
  <2>1. \A d \in Conn : handling'[d] = "Register" => handling[d] = "Register"
    <3>1. Head(queue[c]) \in Event
      <4>1. queue[c] \in Seq(Event) /\ queue[c] # << >>
        BY <1>1, <1>8 DEF Callback, TypeOK
      <4> QED
        BY <4>1
    <3>2. handling' = [handling EXCEPT ![c] = Head(queue[c])]
      BY <1>8 DEF Callback
    <3> QED
      BY <1>1, <3>1, <3>2 DEF Event, TypeOK
  <2>2. UNCHANGED <<who, number, m_Clients>>
    BY <1>8 DEF Callback
  <2> QED
    BY <1>1, <2>1, <2>2 DEF NamesUnique, NameFree, NameTaken, Key
<1>9. CASE UNCHANGED <<who, number, m_Clients, handling>>
  BY <1>1, <1>9 DEF NamesUnique, NameFree, NameTaken, Key
<1>10. ASSUME NEW c \in Conn PROVE ~Lookup(c)
  BY <1>10, LookupsSucceed
<1> QED
  BY <1>2, <1>3, <1>5, <1>6, <1>7, <1>8, <1>9, <1>10
  DEF Next, Handle, Send, Hangup, Drop, Notice, Receive, vars

LEMMA RInit == Init => RInv
<1> SUFFICES ASSUME Init PROVE RInv
  OBVIOUS
<1>1. OneCallback /\ NumbersUsed /\ NamesUnique /\ NameFree /\ ~broken
  BY DEF Init, OneCallback, NumbersUsed, NamesUnique, NameFree
<1>2. ASSUME NEW c \in Conn PROVE Registered(c) /\ CloseLast(c)
  BY DEF Init, Registered, CloseLast
<1> QED
  BY HInit, <1>1, <1>2 DEF RInv

LEMMA RInvStep == ASSUME ~Overlap, RInv, [Next]_vars PROVE RInv'
<1>1. HInv'
  BY TypeStep, ClientStep, OpenStep DEF RInv, HInv
<1> QED
  BY <1>1, RegistryStep, CallbackStep, NamesStep DEF RInv

\* Without overlap no lookup of a callback fails, and each connection is in the
\* registry, in the list of the refused or in neither as its link and the events still
\* to be handled say.
THEOREM RegistryInvariance == ASSUME ~Overlap PROVE Spec => []RInv
<1>1. RInv /\ [Next]_vars => RInv'
  BY RInvStep
<1> QED
  BY RInit, <1>1, PTL DEF Spec, SafeSpec

\* No two registered connections have the same name, when callbacks do not overlap.
THEOREM NamesAreUnique == ASSUME ~Overlap PROVE Spec => []NamesUnique
BY RegistryInvariance, PTL DEF RInv

\* When callbacks do not overlap no lookup fails, and once they have caught up the
\* registered connections are those that are up or not known to be lost, and no
\* refusal is remembered.
THEOREM RegistryIsExact == ASSUME ~Overlap PROVE Spec => []RegistryExact
<1>1. ASSUME RInv PROVE RegistryExact
  <2>1. ASSUME NEW c \in Conn, AtRest(c)
        PROVE  (c \in m_Clients <=> link[c] \in {"up", "lost"}) /\ c \notin m_NotAccepted
    <3>1. TypeOK /\ OpenPhase /\ Registered(c)
      BY <1>1 DEF RInv, HInv
    <3>2. ~Closing(c) /\ (link[c] # "none" => Opened(c))
      BY <2>1 DEF AtRest, Closing, Opened, Pending, Doing, InQueue
    <3>3. CASE link[c] = "none"
      BY <3>1, <3>3 DEF OpenPhase, Opened
    <3>4. CASE link[c] # "none"
      BY <3>1, <3>2, <3>4 DEF Registered, TypeOK
    <3> QED
      BY <3>3, <3>4
  <2> QED
    BY <1>1, <2>1 DEF RegistryExact, RInv
<1> QED
  BY RegistryInvariance, <1>1, PTL

-----------------------------------------------------------------------------
(* Who a message is from, when callbacks do not overlap. *)

\* A message that is on its way names its sender, which has been opened and whose
\* key will not change any more.
SignedAs(m, d) ==
  m.type = "Relay" => Opened(m.origin) /\ m.key = Key(m.origin) /\ m.origin # d

SignPhase == \A d \in Conn : \A i \in 1..Len(inbox[d]) : SignedAs(inbox[d][i], d)

\* No step gives the sender of a message another name, so one rightly signed stays so.
LEMMA SignedStays ==
  ASSUME RInv, [Next]_vars, NEW m, NEW d \in Conn, m.origin \in Conn, SignedAs(m, d)
  PROVE  SignedAs(m, d)'
<1> DEFINE o == m.origin
<1> SUFFICES ASSUME m.type = "Relay" PROVE Opened(o)' /\ m.key = Key(o)' /\ o # d
  BY DEF SignedAs
<1>1. Opened(o) /\ m.key = Key(o) /\ o # d
  BY DEF SignedAs
<1>2. TypeOK /\ OpenPhase
  BY DEF RInv, HInv
<1>3. Opened(o)' /\ Key(o)' = Key(o)
  <2> HIDE DEF o
  <2>1. CASE UNCHANGED vars
    BY <1>1, <2>1 DEF vars, registry, clientVars, Opened, Pending, Doing, InQueue, Key
  <2>2. ASSUME NEW c \in Conn \ {o},
               \/ \E p \in Visitor : Connect(c, p)
               \/ \E event \in {"Relay", "Log"} : Send(c, event)
               \/ Hangup(c) \/ Drop(c) \/ Notice(c) \/ Receive(c) \/ Callback(c) \/ Handle(c)
        PROVE  Opened(o)' /\ Key(o)' = Key(o)
    <3>1. /\ link'[o] = link[o] /\ who'[o] = who[o] /\ number'[o] = number[o]
          /\ queue'[o] = queue[o] /\ handling'[o] = handling[o]
      BY <2>2, OthersLeftAlone DEF o
    <3> QED
      BY <1>1, <3>1 DEF Opened, Pending, Doing, InQueue, Key
  <2>3. ASSUME NEW p \in Visitor, Connect(o, p) PROVE FALSE
    BY <1>1, <2>3 DEF Connect, Opened
  <2>4. ASSUME NEW event \in {"Relay", "Log"}, Send(o, event)
        PROVE  Opened(o)' /\ Key(o)' = Key(o)
    <3>1. InQueue(o, "Open")' <=> InQueue(o, "Open")
      BY <1>2, <2>4, AppendQueue DEF Send, Event, o
    <3> QED
      BY <1>1, <2>4, <3>1 DEF Send, Opened, Pending, Doing, Key, registry
  <2>5. CASE Hangup(o) \/ Notice(o)
    <3>1. InQueue(o, "Open")' <=> InQueue(o, "Open")
      BY <1>2, <2>5, AppendQueue DEF Hangup, Notice, Event, o
    <3> QED
      BY <1>1, <1>2, <2>5, <3>1 DEF Hangup, Notice, Leaves, Opened, Pending, Doing, Key, registry, TypeOK, o
  <2>6. CASE Drop(o) \/ Receive(o)
    BY <1>1, <1>2, <2>6
    DEF Drop, Receive, Leaves, Opened, Pending, Doing, InQueue, Key, registry, TypeOK, o
  <2>7. CASE Callback(o)
    <3>1. Pending(o, "Open")' <=> Pending(o, "Open")
      BY <1>2, <2>7, TakeQueue DEF Event, o
    <3> QED
      BY <1>1, <2>7, <3>1 DEF Callback, Opened, Key, registry, clientVars
  <2>8. CASE Handle(o)
    <3>1. handling[o] \notin {"Open", "Register"}
      BY <1>1 DEF Opened, Pending, Doing
    <3>2. CloseRegistered(o) \/ CloseRefused(o) \/ Relay(o) \/ RelayLog(o)
      BY <2>8, <3>1, LookupsSucceed DEF Handle, OpenChecked, OpenAccepted, OpenRefused, Handles, o
    <3> QED
      BY <1>1, <1>2, <3>2
      DEF CloseRegistered, CloseRefused, Relay, RelayLog, Handles, Opened, Pending, Doing, InQueue,
          Key, registry, clientVars, TypeOK, o
  <2> QED
    BY <2>1, <2>2, <2>3, <2>4, <2>5, <2>6, <2>7, <2>8 DEF Next, o
<1> QED
  BY <1>1, <1>3

\* What a send leaves in an inbox was there, or is the message sent.
LEMMA SendSigned ==
  ASSUME TypeOK, NEW C, NEW m, SendTo(C, m), NEW d \in Conn, NEW i \in 1..Len(inbox'[d])
  PROVE  \/ i \in 1..Len(inbox[d]) /\ inbox'[d][i] = inbox[d][i]
         \/ d \in C /\ inbox'[d][i] = m
<1>1. inbox[d] \in Seq(Message)
  BY DEF TypeOK
<1>2. inbox'[d] = IF d \in C /\ link[d] = "up" THEN Append(inbox[d], m) ELSE inbox[d]
  BY DEF SendTo
<1>3. inbox'[d] = inbox[d] => i \in 1..Len(inbox[d]) /\ inbox'[d][i] = inbox[d][i]
  OBVIOUS
<1>4. ASSUME inbox'[d] = Append(inbox[d], m), i # Len(inbox[d]) + 1
      PROVE  i \in 1..Len(inbox[d]) /\ inbox'[d][i] = inbox[d][i]
  <2> HIDE DEF Message
  <2>1. Len(inbox[d]) \in Nat /\ Len(inbox'[d]) = Len(inbox[d]) + 1
    BY <1>1, <1>4
  <2>2. i \in 1..Len(inbox[d])
    BY <1>4, <2>1
  <2> QED
    BY <1>1, <1>4, <2>2
<1>5. ASSUME inbox'[d] = Append(inbox[d], m), i = Len(inbox[d]) + 1
      PROVE  inbox'[d][i] = m
  BY <1>1, <1>5
<1> QED
  BY <1>2, <1>3, <1>4, <1>5

\* What a step leaves in an inbox was there, or is a message rightly signed.
LEMMA InboxStep ==
  ASSUME RInv, [Next]_vars, NEW d \in Conn, NEW i \in 1..Len(inbox'[d])
  PROVE  \/ \E j \in 1..Len(inbox[d]) : inbox'[d][i] = inbox[d][j]
         \/ SignedAs(inbox'[d][i], d) /\ inbox'[d][i].origin \in Conn
<1>1. TypeOK /\ OpenPhase
  BY DEF RInv, HInv
<1>2. ASSUME NEW C, NEW m, SendTo(C, m), m.type # "Relay", m.origin \in Conn
      PROVE  \/ \E j \in 1..Len(inbox[d]) : inbox'[d][i] = inbox[d][j]
             \/ SignedAs(inbox'[d][i], d) /\ inbox'[d][i].origin \in Conn
  BY <1>1, <1>2, SendSigned DEF SignedAs
<1>3. ASSUME NEW c \in Conn, OpenAccepted(c) \/ CloseRegistered(c) \/ RelayLog(c)
      PROVE  \/ \E j \in 1..Len(inbox[d]) : inbox'[d][i] = inbox[d][j]
             \/ SignedAs(inbox'[d][i], d) /\ inbox'[d][i].origin \in Conn
  BY <1>2, <1>3 DEF OpenAccepted, CloseRegistered, RelayLog
<1>4. ASSUME NEW c \in Conn, Relay(c)
      PROVE  \/ \E j \in 1..Len(inbox[d]) : inbox'[d][i] = inbox[d][j]
             \/ SignedAs(inbox'[d][i], d) /\ inbox'[d][i].origin \in Conn
  <2> DEFINE m == [type |-> "Relay", key |-> Sign(c), all |-> {}, origin |-> c]
  <2>1. SendTo(m_Clients \ {m_Client}, m)
    BY <1>4 DEF Relay
  <2>2. m_Client = c /\ Opened(c)
    BY <1>1, <1>4, HandledOpened DEF Relay, Handles, RInv, OneCallback
  <2>3. who[c] \in Program \cup Browser
    BY <2>2, ConstantsAssumption DEF RInv, Registered, Opened
  <2>4. Sign(c) = Key(c)
    BY <2>2, <2>3 DEF Sign
  <2>5. d # c => SignedAs(m, d)
    BY <2>2, <2>4 DEF SignedAs
  <2>6. m.origin \in Conn
    OBVIOUS
  <2> HIDE DEF m
  <2> QED
    BY <1>1, <2>1, <2>2, <2>5, <2>6, SendSigned
<1>5. ASSUME NEW c \in Conn, Receive(c)
      PROVE  \E j \in 1..Len(inbox[d]) : inbox'[d][i] = inbox[d][j]
  <2>1. CASE d = c
    <3>1. inbox[c] \in Seq(Message) /\ inbox[c] # << >> /\ inbox'[c] = Tail(inbox[c])
      BY <1>1, <1>5 DEF Receive, TypeOK
    <3> HIDE DEF Message
    <3>2. Len(inbox'[c]) = Len(inbox[c]) - 1 /\ Len(inbox[c]) \in Nat
      BY <3>1
    <3>3. i + 1 \in 1..Len(inbox[c]) /\ inbox'[c][i] = inbox[c][i + 1]
      BY <2>1, <3>1, <3>2
    <3> QED
      BY <2>1, <3>3
  <2>2. CASE d # c
    BY <1>1, <1>5, <2>2 DEF Receive, TypeOK
  <2> QED
    BY <2>1, <2>2
<1>6. ASSUME NEW c \in Conn, Hangup(c) \/ Drop(c)
      PROVE  \E j \in 1..Len(inbox[d]) : inbox'[d][i] = inbox[d][j]
  <2>1. CASE d = c
    <3>1. inbox'[d] = << >>
      BY <1>1, <1>6, <2>1 DEF Hangup, Drop, Leaves, TypeOK
    <3> QED
      BY <3>1
  <2>2. CASE d # c
    BY <1>1, <1>6, <2>2 DEF Hangup, Drop, Leaves, TypeOK
  <2> QED
    BY <2>1, <2>2
<1>7. CASE UNCHANGED inbox
  BY <1>7
<1> QED
  BY <1>3, <1>4, <1>5, <1>6, <1>7 DEF Next, Handle, Connect, Send, Notice, Callback,
     OpenChecked, OpenRefused, CloseRefused, Lookup, vars

\* A message reaches the others with the name of its sender, and not the sender, when
\* callbacks do not overlap.
THEOREM MessagesAreSigned == ASSUME ~Overlap PROVE Spec => []Signed
<1>1. Init => SignPhase
  BY DEF Init, SignPhase
<1>2. ASSUME RInv, SignPhase, [Next]_vars PROVE SignPhase'
  <2> SUFFICES ASSUME NEW d \in Conn, NEW i \in 1..Len(inbox'[d])
               PROVE  SignedAs(inbox[d][i], d)'
    BY DEF SignPhase
  <2> DEFINE m == inbox'[d][i]
  <2>1. SignedAs(m, d) /\ m.origin \in Conn
    <3>1. CASE \E j \in 1..Len(inbox[d]) : m = inbox[d][j]
      <4>1. PICK j \in 1..Len(inbox[d]) : m = inbox[d][j]
        BY <3>1
      <4>2. inbox[d] \in Seq(Message)
        BY <1>2 DEF RInv, HInv, TypeOK
      <4>3. inbox[d][j] \in Message
        <5> HIDE DEF Message, m
        <5> QED
          BY <4>2
      <4> QED
        BY <1>2, <4>1, <4>3 DEF SignPhase, Message
    <3> QED
      BY <1>2, <3>1, InboxStep
  <2> QED
    BY <1>2, <2>1, SignedStays DEF SignedAs
<1>3. SignPhase => Signed
  BY DEF SignPhase, SignedAs, Signed
<1> QED
  BY RegistryInvariance, <1>1, <1>2, <1>3, PTL DEF Spec, SafeSpec

-----------------------------------------------------------------------------
(* What the clients believe of each other, when callbacks do not overlap. *)

\* The list of a client of this key when it has read a message; and after all those of a
\* queue, where k is the last of the lists on the way.
Read(m, l, key) ==
  CASE m.type = "Open" -> m.all \ {key}
    [] m.type = "Close" -> l \ {m.key}
    [] OTHER -> l

Leads(q, l, key, k) ==
  \E f \in [0..Len(q) -> SUBSET Keys] :
    /\ f[0] = l /\ f[Len(q)] = k
    /\ \A i \in 1..Len(q) : f[i] = Read(q[i], f[i - 1], key)

\* Whatever a client has still to read leads to the others that are registered now; who
\* is not registered has nothing to read.
ListTrue(c) ==
  /\ link[c] # "up" \/ c \notin m_Clients => inbox[c] = << >>
  /\ c \in m_Clients /\ link[c] = "up" =>
       Leads(inbox[c], m_List[c], Key(c), KeysOf(m_Clients \ {c}))

ListPhase == \A c \in Conn : ListTrue(c)

LEMMA ReadTypes ==
  ASSUME NEW m \in Message, NEW l \in SUBSET Keys, NEW key
  PROVE  Read(m, l, key) \in SUBSET Keys
BY DEF Message, Read

LEMMA LeadsAppend ==
  ASSUME NEW q \in Seq(Message), NEW m \in Message, NEW l, NEW key, NEW k, Leads(q, l, key, k)
  PROVE  Leads(Append(q, m), l, key, Read(m, k, key))
<1>1. PICK f \in [0..Len(q) -> SUBSET Keys] :
        /\ f[0] = l /\ f[Len(q)] = k
        /\ \A i \in 1..Len(q) : f[i] = Read(q[i], f[i - 1], key)
  BY DEF Leads
<1> DEFINE n == Len(q)
           s == Append(q, m)
           g == [i \in 0..(n + 1) |-> IF i <= n THEN f[i] ELSE Read(m, k, key)]
<1> HIDE DEF Message
<1>2. n \in Nat /\ Len(s) = n + 1 /\ s[n + 1] = m /\ \A i \in 1..n : s[i] = q[i]
  OBVIOUS
<1>3. Read(m, k, key) \in SUBSET Keys
  <2>1. k \in SUBSET Keys
    BY <1>1, <1>2
  <2> QED
    BY <2>1, ReadTypes
<1>4. g \in [0..Len(s) -> SUBSET Keys]
  BY <1>1, <1>2, <1>3
<1>5. g[0] = l /\ g[Len(s)] = Read(m, k, key)
  BY <1>1, <1>2
<1>6. ASSUME NEW i \in 1..Len(s) PROVE g[i] = Read(s[i], g[i - 1], key)
  <2>1. CASE i \in 1..n
    BY <1>1, <1>2, <2>1
  <2>2. CASE i = n + 1
    BY <1>1, <1>2, <2>2
  <2> QED
    BY <1>2, <2>1, <2>2
<1> HIDE DEF g, s
<1> QED
  BY <1>4, <1>5, <1>6 DEF Leads, s

LEMMA LeadsTail ==
  ASSUME NEW q \in Seq(Message), q # << >>, NEW l, NEW key, NEW k, Leads(q, l, key, k)
  PROVE  Leads(Tail(q), Read(Head(q), l, key), key, k)
<1>1. PICK f \in [0..Len(q) -> SUBSET Keys] :
        /\ f[0] = l /\ f[Len(q)] = k
        /\ \A i \in 1..Len(q) : f[i] = Read(q[i], f[i - 1], key)
  BY DEF Leads
<1> DEFINE n == Len(q)
           s == Tail(q)
           g == [i \in 0..(n - 1) |-> f[i + 1]]
<1> HIDE DEF Message
<1>2. n \in Nat \ {0} /\ Len(s) = n - 1 /\ Head(q) = q[1] /\ \A i \in 1..(n - 1) : s[i] = q[i + 1]
  OBVIOUS
<1>3. g \in [0..Len(s) -> SUBSET Keys]
  BY <1>1, <1>2
<1>4. g[0] = Read(Head(q), l, key) /\ g[Len(s)] = k
  BY <1>1, <1>2
<1>5. ASSUME NEW i \in 1..Len(s) PROVE g[i] = Read(s[i], g[i - 1], key)
  BY <1>1, <1>2
<1> HIDE DEF g, s
<1> QED
  BY <1>3, <1>4, <1>5 DEF Leads, s

LEMMA LeadsNowhere ==
  ASSUME NEW l, NEW key, NEW k, Leads(<< >>, l, key, k)
  PROVE  l = k
BY DEF Leads

\* Somebody registered keeps its key.
LEMMA KeyStays ==
  ASSUME RInv, [Next]_vars, NEW d \in m_Clients
  PROVE  Key(d)' = Key(d)
<1> USE DEF Key
<1>1. TypeOK /\ OpenPhase
  BY DEF RInv, HInv
<1>2. d \in Conn /\ Opened(d)
  BY <1>1 DEF OpenPhase, TypeOK
<1>3. ASSUME NEW c \in Conn, NEW p \in Visitor, Connect(c, p) PROVE Key(d)' = Key(d)
  BY <1>1, <1>2, <1>3 DEF Connect, Opened, TypeOK, registry
<1>4. ASSUME NEW c \in Conn, OpenChecked(c) \/ OpenRefused(c) PROVE Key(d)' = Key(d)
  <2>1. d # c
    BY <1>2, <1>4 DEF OpenChecked, OpenRefused, Handles, Opened, Pending, Doing
  <2> QED
    BY <1>1, <1>2, <1>4, <2>1 DEF OpenChecked, OpenRefused, MakeKey, TypeOK, clientVars
<1>5. CASE UNCHANGED <<who, number>>
  BY <1>5
<1> QED
  BY <1>3, <1>4, <1>5
  DEF Next, Handle, Send, Hangup, Drop, Notice, Receive, Callback, OpenAccepted,
      CloseRegistered, CloseRefused, Relay, RelayLog, Lookup, vars, registry, clientVars

\* What is true of the lists stays true of a client that nobody registers or takes out,
\* and to which nothing comes.
LEMMA ListKept ==
  ASSUME RInv, [Next]_vars, ListPhase, UNCHANGED m_Clients, NEW d \in Conn,
         inbox'[d] = inbox[d], m_List'[d] = m_List[d],
         d \in m_Clients /\ link'[d] = "up" => link[d] = "up",
         link'[d] # "up" => link[d] # "up" \/ d \notin m_Clients
  PROVE  ListTrue(d)'
<1>1. ListTrue(d)
  BY DEF ListPhase
<1>2. d \in m_Clients => Key(d)' = Key(d)
  BY KeyStays
<1>3. KeysOf(m_Clients \ {d})' = KeysOf(m_Clients \ {d})
  BY KeyStays DEF KeysOf
<1> QED
  BY <1>1, <1>2, <1>3 DEF ListTrue

\* A message that is sent to somebody registered: what it leads to.
LEMMA ListSent ==
  ASSUME RInv, [Next]_vars, ListPhase, NEW C, NEW m \in Message, SendTo(C, m),
         UNCHANGED <<m_List, link>>, NEW d \in Conn, d \in m_Clients, d \in m_Clients',
         d \in C => Read(m, KeysOf(m_Clients \ {d}), Key(d)) = KeysOf(m_Clients \ {d})',
         d \notin C => KeysOf(m_Clients \ {d}) = KeysOf(m_Clients \ {d})'
  PROVE  ListTrue(d)'
<1>1. inbox[d] \in Seq(Message)
  BY DEF RInv, HInv, TypeOK
<1>2. Key(d)' = Key(d)
  BY KeyStays
<1>3. inbox'[d] = IF d \in C /\ link[d] = "up" THEN Append(inbox[d], m) ELSE inbox[d]
  BY DEF SendTo
<1>4. CASE link[d] # "up"
  BY <1>3, <1>4 DEF ListPhase, ListTrue
<1>5. CASE link[d] = "up" /\ d \notin C
  BY <1>2, <1>3, <1>5 DEF ListPhase, ListTrue
<1>6. CASE link[d] = "up" /\ d \in C
  <2>1. Leads(inbox[d], m_List[d], Key(d), KeysOf(m_Clients \ {d}))
    BY <1>6 DEF ListPhase, ListTrue
  <2>2. Leads(inbox'[d], m_List[d], Key(d), KeysOf(m_Clients \ {d})')
    BY <1>1, <1>3, <1>6, <2>1, LeadsAppend
  <2> QED
    BY <1>2, <1>6, <2>2 DEF ListTrue
<1> QED
  BY <1>4, <1>5, <1>6

\* Whoever is not registered and gets nothing stays without messages.
LEMMA ListNone ==
  ASSUME ListPhase, NEW C, NEW m, SendTo(C, m), NEW d \in Conn, d \notin C, d \notin m_Clients',
         d \notin m_Clients \/ link[d] # "up"
  PROVE  ListTrue(d)'
BY DEF ListPhase, ListTrue, SendTo

LEMMA OpenedLists ==
  ASSUME RInv, [Next]_vars, ListPhase, NEW c \in Conn, OpenAccepted(c), NEW d \in Conn
  PROVE  ListTrue(d)'
<1> DEFINE m == [type |-> "Open", key |-> Key(m_Client), all |-> KeysOf(m_Clients'), origin |-> c]
<1>1. TypeOK /\ OpenPhase /\ OneCallback /\ NamesUnique /\ NameFree /\ m_Clients \subseteq Conn
  BY DEF RInv, HInv, TypeOK
<1>2. /\ handling[c] = "Register" /\ m_Client = c
      /\ m_Clients' = m_Clients \cup {c} /\ SendTo(m_Clients', m)
      /\ UNCHANGED <<link, who, number, m_List>>
  BY <1>1 DEF OpenAccepted, Handles, clientVars, OneCallback
<1>3. c \notin m_Clients
  BY <1>1, <1>2, HandledOpened
<1>4. Key(c)' = Key(c)
  BY <1>2 DEF Key
<1>5. \A e \in m_Clients : Key(e)' = Key(e) /\ Key(e) # Key(c)
  BY <1>1, <1>2, KeyStays DEF NameFree, NameTaken
<1>6. m \in Message
  <2>1. \A e \in m_Clients \cup {c} : Key(e) \in Keys
    BY <1>1, KeyTypes
  <2>2. KeysOf(m_Clients') \in SUBSET Keys
    BY <1>2, <2>1 DEF KeysOf
  <2>3. m.key \in Keys
    BY <1>2, <2>1
  <2> HIDE DEF Keys
  <2> QED
    BY <2>2, <2>3 DEF Message
<1>7. m.type = "Open" /\ m.all = {Key(e) : e \in m_Clients} \cup {Key(c)}
  BY <1>2 DEF KeysOf
<1> HIDE DEF m
<1>8. CASE d \in m_Clients
  <2>1. KeysOf(m_Clients \ {d})' = {Key(e)' : e \in (m_Clients \cup {c}) \ {d}}
    BY <1>2 DEF KeysOf
  <2>2. KeysOf(m_Clients \ {d})' = {Key(e) : e \in m_Clients \ {d}} \cup {Key(c)}
    BY <1>3, <1>4, <1>5, <1>8, <2>1
  <2>3. Read(m, KeysOf(m_Clients \ {d}), Key(d)) = ({Key(e) : e \in m_Clients} \cup {Key(c)}) \ {Key(d)}
    BY <1>7 DEF Read, KeysOf
  <2>4. \A e \in m_Clients : Key(e) = Key(d) => e = d
    BY <1>1, <1>8 DEF NamesUnique
  <2>5. Read(m, KeysOf(m_Clients \ {d}), Key(d)) = KeysOf(m_Clients \ {d})'
    BY <1>5, <1>8, <2>2, <2>3, <2>4
  <2> QED
    BY <1>2, <1>6, <1>8, <2>5, ListSent
<1>9. CASE d = c
  <2>1. inbox[c] = << >>
    BY <1>3 DEF ListPhase, ListTrue
  <2>2. inbox'[c] = IF link[c] = "up" THEN Append(<< >>, m) ELSE << >>
    BY <1>2, <2>1 DEF SendTo
  <2>3. KeysOf(m_Clients \ {c})' = KeysOf(m_Clients)
    BY <1>2, <1>3, <1>5 DEF KeysOf
  <2>4. m_List[c] \in SUBSET Keys
    BY <1>1 DEF TypeOK
  <2>5. Leads(<< >>, m_List[c], Key(c), m_List[c])
    <3> DEFINE f == [i \in 0..0 |-> m_List[c]]
    <3>1. f \in [0..Len(<< >>) -> SUBSET Keys] /\ f[0] = m_List[c] /\ f[Len(<< >>)] = m_List[c]
      BY <2>4
    <3> HIDE DEF f
    <3> QED
      BY <3>1 DEF Leads
  <2>6. Read(m, m_List[c], Key(c)) = KeysOf(m_Clients)
    BY <1>5, <1>7 DEF Read, KeysOf
  <2>7. Leads(Append(<< >>, m), m_List[c], Key(c), KeysOf(m_Clients))
    <3>1. << >> \in Seq(Message)
      OBVIOUS
    <3> QED
      BY <1>6, <2>5, <2>6, <3>1, LeadsAppend
  <2> QED
    BY <1>2, <1>4, <1>9, <2>2, <2>3, <2>7 DEF ListTrue
<1>10. CASE d \notin m_Clients /\ d # c
  <2>1. d \notin m_Clients'
    BY <1>2, <1>10
  <2> QED
    BY <1>2, <1>10, <2>1, ListNone
<1> QED
  BY <1>8, <1>9, <1>10

LEMMA ClosedLists ==
  ASSUME RInv, [Next]_vars, ListPhase, NEW c \in Conn, CloseRegistered(c), NEW d \in Conn
  PROVE  ListTrue(d)'
<1> DEFINE m == [type |-> "Close", key |-> Key(m_Client), all |-> KeysOf(m_Clients'), origin |-> c]
<1>1. TypeOK /\ OpenPhase /\ OneCallback /\ NamesUnique /\ m_Clients \subseteq Conn /\ Registered(c)
  BY DEF RInv, HInv, TypeOK
<1>2. /\ handling[c] = "Close" /\ m_Client = c /\ c \in m_Clients /\ m_Clients' = m_Clients \ {c}
      /\ SendTo(m_Clients', m) /\ UNCHANGED <<link, who, number, m_List>>
  BY <1>1 DEF CloseRegistered, Handles, clientVars, OneCallback
<1>3. link[c] # "up"
  BY <1>1, <1>2 DEF Registered, Closing, Pending, Doing
<1>4. \A e \in Conn : Key(e)' = Key(e)
  BY <1>2 DEF Key
<1>5. m \in Message
  <2>1. \A e \in Conn : Key(e) \in Keys
    BY <1>1, KeyTypes
  <2>2. KeysOf(m_Clients') \in SUBSET Keys
    BY <1>1, <1>2, <2>1 DEF KeysOf
  <2>3. m.key \in Keys
    BY <1>2, <2>1
  <2> HIDE DEF Keys
  <2> QED
    BY <2>2, <2>3 DEF Message
<1>6. m.type = "Close" /\ m.key = Key(c)
  BY <1>2
<1> HIDE DEF m
<1>7. CASE d \in m_Clients'
  <2>1. KeysOf(m_Clients \ {d})' = {Key(e) : e \in (m_Clients \ {c}) \ {d}}
    BY <1>1, <1>2, <1>4 DEF KeysOf
  <2>2. Read(m, KeysOf(m_Clients \ {d}), Key(d)) = {Key(e) : e \in m_Clients \ {d}} \ {Key(c)}
    BY <1>6 DEF Read, KeysOf
  <2>3. \A e \in m_Clients : Key(e) = Key(c) => e = c
    BY <1>1, <1>2 DEF NamesUnique
  <2>4. Read(m, KeysOf(m_Clients \ {d}), Key(d)) = KeysOf(m_Clients \ {d})'
    BY <2>1, <2>2, <2>3
  <2> QED
    BY <1>2, <1>5, <1>7, <2>4, ListSent
<1>8. CASE d \notin m_Clients'
  <2>1. d \notin m_Clients \/ link[d] # "up"
    BY <1>2, <1>3, <1>8
  <2> QED
    BY <1>2, <1>8, <2>1, ListNone
<1> QED
  BY <1>7, <1>8

\* Relayed messages and logs change no list.
LEMMA RelayedLists ==
  ASSUME RInv, [Next]_vars, ListPhase, NEW c \in Conn, Relay(c) \/ RelayLog(c), NEW d \in Conn
  PROVE  ListTrue(d)'
<1>1. TypeOK /\ OpenPhase /\ OneCallback /\ m_Clients \subseteq Conn
  BY DEF RInv, HInv, TypeOK
<1>2. /\ m_Client = c /\ UNCHANGED <<link, who, number, m_List, m_Clients>>
      /\ \A e \in Conn : Key(e)' = Key(e)
  BY <1>1 DEF Relay, RelayLog, Handles, clientVars, registry, OneCallback, Key
<1>3. PICK C \in SUBSET m_Clients, m \in Message : SendTo(C, m) /\ m.type \in {"Relay", "Log"}
  <2>1. \A e \in Conn : Key(e) \in Keys
    BY <1>1, KeyTypes
  <2>2. ServerKey \in Keys
    BY DEF ServerKey, Keys
  <2>3. CASE Relay(c)
    <3> DEFINE m == [type |-> "Relay", key |-> Sign(c), all |-> {}, origin |-> c]
    <3>1. Sign(c) \in Keys
      BY <1>2, <2>1, <2>2 DEF Sign
    <3>2. m \in Message /\ m.type = "Relay"
      BY <3>1 DEF Message
    <3>3. SendTo(m_Clients \ {m_Client}, m)
      BY <2>3 DEF Relay
    <3> HIDE DEF m
    <3> QED
      BY <3>2, <3>3
  <2>4. CASE RelayLog(c)
    <3> DEFINE m == [type |-> "Log", key |-> Key(c), all |-> {}, origin |-> c]
    <3>1. m \in Message /\ m.type = "Log"
      BY <2>1 DEF Message
    <3>2. PICK C \in SUBSET m_Clients : SendTo(C, m)
      BY <2>4 DEF RelayLog
    <3> HIDE DEF m
    <3> QED
      BY <3>1, <3>2
  <2> QED
    BY <2>3, <2>4
<1>4. KeysOf(m_Clients \ {d})' = KeysOf(m_Clients \ {d})
  BY <1>1, <1>2 DEF KeysOf
<1>5. Read(m, KeysOf(m_Clients \ {d}), Key(d)) = KeysOf(m_Clients \ {d})
  BY <1>3 DEF Read
<1> QED
  BY <1>2, <1>3, <1>4, <1>5, ListSent, ListNone

LEMMA ReceivedLists ==
  ASSUME RInv, [Next]_vars, ListPhase, NEW c \in Conn, Receive(c), NEW d \in Conn
  PROVE  ListTrue(d)'
<1>1. TypeOK
  BY DEF RInv, HInv
<1>2. /\ UNCHANGED <<m_Clients, link, who, number>>
      /\ inbox' = [inbox EXCEPT ![c] = Tail(@)]
      /\ inbox[c] # << >> /\ link[c] = "up"
      /\ m_List' = [m_List EXCEPT ![c] = Read(Head(inbox[c]), @, Key(c))]
  BY DEF Receive, registry, Read
<1>3. CASE d # c
  <2>1. inbox'[d] = inbox[d] /\ m_List'[d] = m_List[d] /\ link'[d] = link[d]
    BY <1>2, <1>3
  <2> QED
    BY <1>2, <2>1, ListKept
<1>4. CASE d = c
  <2>1. Key(c)' = Key(c) /\ KeysOf(m_Clients \ {c})' = KeysOf(m_Clients \ {c})
    BY <1>2 DEF Key, KeysOf
  <2>2. c \in m_Clients /\ Leads(inbox[c], m_List[c], Key(c), KeysOf(m_Clients \ {c}))
    BY <1>2 DEF ListPhase, ListTrue
  <2>3. /\ inbox'[c] = Tail(inbox[c]) /\ m_List'[c] = Read(Head(inbox[c]), m_List[c], Key(c))
        /\ inbox[c] \in Seq(Message)
    BY <1>1, <1>2 DEF TypeOK
  <2>4. Leads(inbox'[c], m_List'[c], Key(c), KeysOf(m_Clients \ {c}))
    BY <1>2, <2>2, <2>3, LeadsTail
  <2> QED
    BY <1>2, <1>4, <2>1, <2>2, <2>4 DEF ListTrue
<1> QED
  BY <1>3, <1>4

LEMMA LeftLists ==
  ASSUME RInv, [Next]_vars, ListPhase, NEW c \in Conn, Hangup(c) \/ Drop(c), NEW d \in Conn
  PROVE  ListTrue(d)'
<1>1. TypeOK
  BY DEF RInv, HInv
<1>2. /\ UNCHANGED m_Clients /\ link'[c] # "up" /\ \A e \in Conn \ {c} : link'[e] = link[e]
      /\ inbox' = [inbox EXCEPT ![c] = << >>] /\ m_List' = [m_List EXCEPT ![c] = {}]
  BY <1>1 DEF Hangup, Drop, Leaves, registry, TypeOK
<1>3. CASE d = c
  BY <1>1, <1>2, <1>3 DEF ListTrue, TypeOK
<1>4. CASE d # c
  <2>1. inbox'[d] = inbox[d] /\ m_List'[d] = m_List[d] /\ link'[d] = link[d]
    BY <1>1, <1>2, <1>4 DEF TypeOK
  <2> QED
    BY <1>2, <2>1, ListKept
<1> QED
  BY <1>3, <1>4

LEMMA ListStep == RInv /\ ListPhase /\ [Next]_vars => ListPhase'
<1> SUFFICES ASSUME RInv, ListPhase, [Next]_vars, NEW d \in Conn PROVE ListTrue(d)'
  BY DEF ListPhase
<1>1. TypeOK /\ OpenPhase
  BY DEF RInv, HInv
<1>2. CASE UNCHANGED <<m_Clients, inbox, m_List, link>>
  BY <1>2, ListKept
<1>3. ASSUME NEW c \in Conn, NEW p \in Visitor, Connect(c, p) PROVE ListTrue(d)'
  <2>1. c \notin m_Clients /\ UNCHANGED <<m_Clients, inbox, m_List>>
    BY <1>1, <1>3 DEF Connect, OpenPhase, Opened, registry
  <2>2. link' = [link EXCEPT ![c] = "up"] /\ link[c] = "none"
    BY <1>3 DEF Connect
  <2> QED
    BY <1>1, <2>1, <2>2, ListKept DEF TypeOK
<1>4. ASSUME NEW c \in Conn, Notice(c) PROVE ListTrue(d)'
  <2>1. UNCHANGED <<m_Clients, inbox, m_List>> /\ link' = [link EXCEPT ![c] = "down"] /\ link[c] = "lost"
    BY <1>4 DEF Notice, registry
  <2> QED
    BY <1>1, <2>1, ListKept DEF TypeOK
<1>5. ASSUME NEW c \in Conn, OpenRefused(c) PROVE ListTrue(d)'
  <2>1. UNCHANGED <<m_Clients, inbox, m_List>> /\ link' = [link EXCEPT ![c] = "refused"]
    BY <1>5 DEF OpenRefused
  <2>2. c \notin m_Clients
    BY <1>1, <1>5, HandledOpened DEF OpenRefused, Handles
  <2> QED
    BY <1>1, <2>1, <2>2, ListKept DEF TypeOK
<1> QED
  BY <1>2, <1>3, <1>4, <1>5, OpenedLists, ClosedLists, RelayedLists, ReceivedLists, LeftLists
  DEF Next, Handle, Send, Callback, OpenChecked, CloseRefused, Lookup, vars, registry, clientVars

\* When callbacks do not overlap, a client that has read all that was sent to it knows
\* exactly the others that are registered, however many join, leave and are refused.
THEOREM ListsAreRight == ASSUME ~Overlap PROVE Spec => []ListsAgree
<1>1. Init => ListPhase
  BY DEF Init, ListPhase, ListTrue
<1>2. RInv /\ ListPhase => ListsAgree
  <2> SUFFICES ASSUME ListPhase, NEW c \in Conn, c \in m_Clients, link[c] = "up", inbox[c] = << >>
               PROVE  m_List[c] = KeysOf(m_Clients \ {c})
    BY DEF ListsAgree, RInv, HInv, TypeOK
  <2>1. Leads(<< >>, m_List[c], Key(c), KeysOf(m_Clients \ {c}))
    BY DEF ListPhase, ListTrue
  <2> QED
    BY <2>1, LeadsNowhere
<1> QED
  BY RegistryInvariance, <1>1, <1>2, ListStep, PTL DEF Spec, SafeSpec

=============================================================================
