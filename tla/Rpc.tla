--------------------------------- MODULE Rpc ---------------------------------
(***************************************************************************)
(* A remote call of a controller (MessageHandler::CallMethod and Send):    *)
(* the request is broadcast by the server, every client and the server     *)
(* itself answer it, every answer is broadcast too, and the caller's       *)
(* thread polls until each client of the list it has saved has answered or *)
(* has left.  The socket's callback thread fills m_Responses and updates   *)
(* the lists meanwhile.  All controllers use the same JSON-RPC id          *)
(* (apps/Controller.cpp), so the call number below is in no message of the *)
(* code: it is what the properties compare.                                *)
(*                                                                         *)
(* The sockets are FIFO.  The server's thread of a connection begins its   *)
(* callback by writing the connection in m_Client, and relays the message  *)
(* in a later step, to all but the one m_Client names when it comes to     *)
(* them: a callback of another connection may overwrite it before the      *)
(* relay or in the middle of it (MaxOverlaps).                             *)
(***************************************************************************)
EXTENDS Naturals, Sequences, SequencesExt, FiniteSets

CONSTANTS
  Caller,     \* controllers
  Callee,     \* modules, which call nobody
  Late,       \* modules that are not there at the beginning
  getName,    \* the name of each, which is but a part of its identifier
  MaxOverlaps,  \* bound: callbacks that begin while another one is under way
  MaxCalls      \* bound: calls made, all controllers together

Client == Caller \cup Callee
Answering == Client \cup {"Server"}

ASSUME RpcAssumption ==
  /\ Late \subseteq Callee
  /\ Caller \cap Callee = {}
  /\ "Server" \notin Client
  /\ DOMAIN getName = Answering
  /\ MaxOverlaps \in Nat
  /\ MaxCalls \in Nat

VARIABLES
  there,        \* the clients registered at the server
  coming,       \* the late ones that have not connected yet
  gone,         \* the clients whose process has ended
  m_List,       \* whom each caller believes to be there
  m_Lists,      \* whom its call is still waiting for
  m_Responses,  \* the answers it has got and not yet given back
  call,         \* the number of the call each caller is in, 0 outside of a call
  asked,        \* history: m_List at the beginning of the call
  result,       \* what the last call of each caller has returned
  calls,        \* calls begun so far
  up, down,     \* on the way from each client to the server, and back
  answering,    \* requests the server has relayed and not answered itself
  named,        \* whom m_Client has named in the callback each connection's thread is in
  m_Client,     \* the client the last callback to begin is for
  overlaps,     \* callbacks that have begun while another one was under way
  confused      \* history: what callbacks have done with m_Client overwritten

callVars == <<m_List, m_Lists, m_Responses, call, asked, result, calls>>
threadVars == <<named, m_Client, overlaps, confused>>
vars == <<callVars, threadVars, there, coming, gone, up, down, answering>>

Message == [type : {"Command", "Response", "Open", "Close"},
            from : Answering, call : 0..MaxCalls, all : SUBSET Client]

Answer == Answering \X (1..MaxCalls)

\* A relay that left out somebody else than the sender; a departure announced of
\* somebody else than who has left; a lookup of nobody, the end of the server.
Confusion == {"relay", "departure", "lookup"}

TypeOK ==
  /\ there \in SUBSET Client
  /\ coming \in SUBSET Late
  /\ gone \in SUBSET Client
  /\ m_List \in [Caller -> SUBSET Client]
  /\ m_Lists \in [Caller -> SUBSET Client]
  /\ m_Responses \in [Caller -> Seq(Answer)]
  /\ call \in [Caller -> 0..MaxCalls]
  /\ asked \in [Caller -> SUBSET Client]
  /\ result \in [Caller -> [call : 0..MaxCalls, asked : SUBSET Client,
                         answers : SUBSET (Answering \X Answer)]]
  /\ calls \in 0..MaxCalls
  /\ up \in [Client -> Seq(Message)]
  /\ down \in [Client -> Seq(Message)]
  /\ answering \in SUBSET [from : Client, call : 1..MaxCalls]
  /\ named \in [Client -> SUBSET Client]
  /\ m_Client \in Answering
  /\ overlaps \in 0..MaxOverlaps
  /\ confused \in SUBSET Confusion

Init ==
  /\ there = Client \ Late
  /\ coming = Late
  /\ gone = {}
  /\ m_List = [c \in Caller |-> there \ {c}]
  /\ m_Lists = [c \in Caller |-> {}]
  /\ m_Responses = [c \in Caller |-> << >>]
  /\ call = [c \in Caller |-> 0]
  /\ asked = [c \in Caller |-> {}]
  /\ result = [c \in Caller |-> [call |-> 0, asked |-> {}, answers |-> {}]]
  /\ calls = 0
  /\ up = [d \in Client |-> << >>]
  /\ down = [d \in Client |-> << >>]
  /\ answering = {}
  /\ named = [d \in Client |-> {}]
  /\ m_Client = "Server"   \* nobody
  /\ overlaps = 0
  /\ confused = {}

Msg(type, from, n, all) == [type |-> type, from |-> from, call |-> n, all |-> all]

Goes(d, m) == up' = [up EXCEPT ![d] = Append(@, m)]

Sent(to, m) == down' = [d \in Client |-> IF d \in to THEN Append(down[d], m) ELSE down[d]]

-----------------------------------------------------------------------------
(* The thread of the caller. *)

CallMethodListKept(c) ==   \* slip: the list of a call is saved once
  /\ call[c] = 0
  /\ calls < MaxCalls
  /\ calls' = calls + 1
  /\ call' = [call EXCEPT ![c] = calls']
  /\ asked' = [asked EXCEPT ![c] = m_List[c]]
  /\ m_Lists' = [m_Lists EXCEPT ![c] = IF result[c].call = 0 THEN m_List[c] ELSE @]
  /\ Goes(c, Msg("Command", c, calls', {}))
  /\ UNCHANGED <<m_List, m_Responses, result, threadVars, there, coming, gone, down, answering>>

\* CallMethod saves the list and Send sends the request.
CallMethod(c) ==
  /\ call[c] = 0
  /\ calls < MaxCalls
  /\ calls' = calls + 1
  /\ call' = [call EXCEPT ![c] = calls']
  /\ asked' = [asked EXCEPT ![c] = m_List[c]]
  /\ m_Lists' = [m_Lists EXCEPT ![c] = m_List[c]]
  /\ Goes(c, Msg("Command", c, calls', {}))
  /\ UNCHANGED <<m_List, m_Responses, result, threadVars, there, coming, gone, down, answering>>

\* The for loop of Send: who has answered is not waited for any more.
Suppress(c) ==
  LET froms == {m_Responses[c][i][1] : i \in 1..Len(m_Responses[c])}
  IN  /\ call[c] # 0
      /\ m_Lists[c] \cap froms # {}
      /\ m_Lists' = [m_Lists EXCEPT ![c] = @ \ froms]
      /\ UNCHANGED <<m_List, m_Responses, call, asked, result, calls, threadVars, there, coming,
                     gone, up, down, answering>>

\* The map CallMethod builds, ordered by Identifier::operator<, that is by name: an
\* entry has the identifier of the first answer of its name and what the last one says.
Collapse(answers) ==
  LET I == 1..Len(answers)
      same(i, j) == getName[answers[i][1]] = getName[answers[j][1]]
  IN  {<<answers[p[1]][1], answers[p[2]]>> :
         p \in {q \in I \X I : /\ same(q[1], q[2])
                               /\ \A j \in I : same(j, q[1]) => j \in q[1]..q[2]}}

\* The end of Send and of CallMethod.
Return(c) ==
  /\ call[c] # 0
  /\ m_Lists[c] = {}
  /\ result' = [result EXCEPT ![c] = [call |-> call[c], asked |-> asked[c],
                                      answers |-> Collapse(m_Responses[c])]]
  /\ m_Responses' = [m_Responses EXCEPT ![c] = << >>]
  /\ call' = [call EXCEPT ![c] = 0]
  /\ asked' = [asked EXCEPT ![c] = {}]
  /\ UNCHANGED <<m_List, m_Lists, calls, threadVars, there, coming, gone, up, down, answering>>

-----------------------------------------------------------------------------
(* The server's threads. *)

Served == "lookup" \notin confused

Busy(d) == named[d] # {}

\* Whom a relay in the callback of d leaves out: each receiver is compared with m_Client.
LeftOut(d) == IF named[d] = {d} THEN {{d}} ELSE SUBSET named[d]

Confuses(mistaken, what) == confused' = IF mistaken THEN confused \cup {what} ELSE confused

Ends(d) == named' = [named EXCEPT ![d] = {}]

\* The callback for the next message of d, which stays at the head of the queue until
\* it is handled: its first statement.
Callback(d) ==
  /\ Served
  /\ up[d] # << >>
  /\ ~Busy(d)
  /\ overlaps' = IF \E e \in Client : Busy(e) THEN overlaps + 1 ELSE overlaps
  /\ overlaps' \leq MaxOverlaps
  /\ named' = [e \in Client |-> IF e = d \/ Busy(e) THEN named[e] \cup {d} ELSE {}]
  /\ m_Client' = d
  /\ UNCHANGED <<callVars, confused, there, coming, gone, up, down, answering>>

\* The thread of d handles that message.
Takes(d, type) ==
  /\ Served
  /\ Busy(d)
  /\ up[d] # << >>
  /\ Head(up[d]).type = type
  /\ \A a \in answering : a.from # d
  /\ up' = [up EXCEPT ![d] = Tail(@)]

RelayCommand(d) ==
  /\ Takes(d, "Command")
  /\ \E left \in LeftOut(d) :
       /\ Sent(there \ left, Head(up[d]))
       /\ Confuses(left # {d}, "relay")
  /\ answering' = answering \cup {[from |-> d, call |-> Head(up[d]).call]}
  /\ UNCHANGED <<callVars, named, m_Client, overlaps, there, coming, gone>>

\* MessageHandlerServer::onCommand: the server's own answer, to the caller only.  To
\* sign it addFrom looks at the client that m_Client names.
ServerAnswers(a) ==
  /\ Served
  /\ a \in answering
  /\ m_Client \in there
  /\ Sent({a.from} \cap there, Msg("Response", "Server", a.call, {}))
  /\ answering' = answering \ {a}
  /\ Ends(a.from)
  /\ UNCHANGED <<callVars, m_Client, overlaps, confused, there, coming, gone, up>>

\* Everybody else gets the answer; what the modules do with theirs (they keep it
\* for ever) is not followed.
RelayResponse(d) ==
  /\ Takes(d, "Response")
  /\ \E left \in LeftOut(d) :
       /\ Sent((there \ left) \cap Caller, Head(up[d]))
       /\ Confuses(left # {d}, "relay")
  /\ Ends(d)
  /\ UNCHANGED <<callVars, m_Client, overlaps, there, coming, gone, answering>>

RegistersWithServer(d) ==   \* slip: the server's identifier is pushed on the list as well
  /\ Takes(d, "Open")
  /\ there' = there \cup {d}
  /\ Sent(there' \cap Caller, Msg("Open", d, 0, there' \cup {"Server"}))
  /\ Ends(d)
  /\ UNCHANGED <<callVars, m_Client, overlaps, confused, coming, gone, answering>>

\* onOpen of a new client, whom everybody is told of: send leaves out whom m_Client
\* names, and sendToName adds whom it names then.
Registers(d) ==
  /\ Takes(d, "Open")
  /\ there' = there \cup {d}
  /\ \E left \in LeftOut(d), n \in named[d] \cap there' :
       /\ n = d => left = {d}
       /\ Sent(((there' \ left) \cup {n}) \cap Caller, Msg("Open", d, 0, there'))
       /\ Confuses(n # d, "relay")
  /\ Ends(d)
  /\ UNCHANGED <<callVars, m_Client, overlaps, coming, gone, answering>>

UnregistersSilently(d) ==   \* slip: the others are not told
  /\ Takes(d, "Close")
  /\ there' = there \ {d}
  /\ Ends(d)
  /\ UNCHANGED <<callVars, m_Client, overlaps, confused, coming, gone, down, answering>>

\* Whom m_Client names is said to have closed, and whom it names a statement later is
\* erased.
Departure(d, from, erased, left) ==
  /\ erased = d => from = d
  /\ there' = there \ {erased}
  /\ Sent((there' \ left) \cap Caller, Msg("Close", from, 0, {}))
  /\ confused' = confused \cup (IF erased # d THEN {"departure"} ELSE {})
                          \cup (IF left # {d} THEN {"relay"} ELSE {})

\* onClose of one that has ended.
Unregisters(d) ==
  /\ Takes(d, "Close")
  /\ \E from, erased \in named[d] \cap there, left \in LeftOut(d) :
       Departure(d, from, erased, left)
  /\ Ends(d)
  /\ UNCHANGED <<callVars, m_Client, overlaps, coming, gone, answering>>

\* getInfos finds nobody under m_Client and returns what no iterator points to:
\* undefined behaviour, taken as the end of the server.
Lookup(d) ==
  /\ Served
  /\ Busy(d)
  /\ m_Client \notin there
  /\ \/ \E a \in answering : a.from = d
     \/ /\ up[d] # << >>
        /\ Head(up[d]).type = "Close" \/ (Head(up[d]).type = "Open" /\ m_Client # d)
  /\ confused' = confused \cup {"lookup"}
  /\ UNCHANGED <<callVars, named, m_Client, overlaps, there, coming, gone, up, down, answering>>

-----------------------------------------------------------------------------
(* The clients' callback threads. *)

Handles(d, type) ==
  /\ d \notin gone
  /\ down[d] # << >>
  /\ Head(down[d]).type = type
  /\ down' = [down EXCEPT ![d] = Tail(@)]

\* MessageHandler::onCommand.  Controllers answer too.
OnCommand(d) ==
  /\ Handles(d, "Command")
  /\ Goes(d, Msg("Response", d, Head(down[d]).call, {}))
  /\ UNCHANGED <<callVars, threadVars, there, coming, gone, answering>>

\* onResponse: whoever the answer is for.
OnResponse(d) ==
  /\ Handles(d, "Response")
  /\ m_Responses' = [m_Responses EXCEPT ![d] =
                        Append(@, <<Head(down[d]).from, Head(down[d]).call>>)]
  /\ UNCHANGED <<m_List, m_Lists, call, asked, result, calls, threadVars, there, coming, gone, up,
                 answering>>

OnOpen(d) ==
  /\ Handles(d, "Open")
  /\ m_List' = [m_List EXCEPT ![d] = Head(down[d]).all \ {d}]
  /\ UNCHANGED <<m_Lists, m_Responses, call, asked, result, calls, threadVars, there, coming, gone,
                 up, answering>>

OnClose(d) ==
  /\ Handles(d, "Close")
  /\ m_List' = [m_List EXCEPT ![d] = @ \ {Head(down[d]).from}]
  /\ m_Lists' = [m_Lists EXCEPT ![d] = @ \ {Head(down[d]).from}]
  /\ UNCHANGED <<m_Responses, call, asked, result, calls, threadVars, there, coming, gone, up,
                 answering>>

\* A late module connects.
Connect(d) ==
  /\ d \in coming
  /\ coming' = coming \ {d}
  /\ Goes(d, Msg("Open", d, 0, {}))
  /\ UNCHANGED <<callVars, threadVars, there, gone, down, answering>>

\* A module that the server has opened ends; what it has sent may have left its machine
\* or not.
Leave(d) ==
  /\ d \in Callee \ (coming \cup gone)
  /\ \A i \in 1..Len(up[d]) : up[d][i].type # "Open"
  /\ gone' = gone \cup {d}
  /\ \E rest \in {up[d], << >>} :
       /\ Busy(d) => rest = up[d]
       /\ up' = [up EXCEPT ![d] = Append(rest, Msg("Close", d, 0, {}))]
  /\ down' = [down EXCEPT ![d] = << >>]
  /\ UNCHANGED <<callVars, threadVars, there, coming, answering>>

-----------------------------------------------------------------------------

CallerStep(c) == Suppress(c) \/ Return(c)

ServerStep(d) ==
  \/ Callback(d)
  \/ RelayCommand(d)
  \/ RelayResponse(d)
  \/ Registers(d)
  \/ Unregisters(d)
  \/ Lookup(d)
  \/ \E a \in answering : a.from = d /\ ServerAnswers(a)

ClientStep(d) == OnCommand(d) \/ OnResponse(d) \/ OnOpen(d) \/ OnClose(d)

Next ==
  \/ \E c \in Caller : CallMethod(c) \/ CallerStep(c)
  \/ \E d \in Client : ServerStep(d) \/ ClientStep(d)
  \/ \E d \in Client : Connect(d) \/ Leave(d)

\* Threads run: the caller's polls, the server's relay, the clients' answer.
Fairness ==
  /\ \A c \in Caller : WF_vars(CallerStep(c))
  /\ \A d \in Client : WF_vars(ServerStep(d)) /\ WF_vars(ClientStep(d))

Spec == Init /\ [][Next]_vars /\ Fairness

-----------------------------------------------------------------------------
(* Properties. *)

\* A call returns, whoever joins, leaves or dies meanwhile: Send does not poll for ever,
\* unless a callback has used the m_Client of another.
CallReturns == \A c \in Caller : call[c] # 0 ~> call[c] = 0 \/ confused # {}

Returned(c) == result[c].call # 0

OwnName(d) == \A e \in Answering \ {d} : getName[e] # getName[d]

\* As long as no other controller calls, a call does not return before each client
\* of the list it saved has answered this very call, or has ended, and it returns all
\* these answers but those of clients that share a name; and this though callbacks
\* overlap and relays leave somebody out, as long as no departure is ascribed to
\* another.  (Not so for a client that came when a former call was under way.)
AllHaveAnswered ==
  \A c \in Caller :
    /\ Returned(c) /\ "departure" \notin confused
    /\ \A d \in Caller \ {c} : call[d] = 0 /\ result[d].call = 0
    => \A d \in result[c].asked \ (Late \cup gone) :
         OwnName(d) => <<d, <<d, result[c].call>>>> \in result[c].answers

=============================================================================
