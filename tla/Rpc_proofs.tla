------------------------------ MODULE Rpc_proofs ------------------------------
(***************************************************************************)
(* A call returns with everybody's answer, proved for any number of        *)
(* controllers, modules, calls and overlapping callbacks: the only         *)
(* controller that calls does not come out of a call before each client    *)
(* that was there all the time has answered it, and no answer to one of    *)
(* its calls is left over for the next, as long as no departure has been   *)
(* ascribed to another.  Without overlaps none is.                         *)
(***************************************************************************)
EXTENDS Rpc, TLAPS

-----------------------------------------------------------------------------
(* Sequences, by the elements of a set that are in them. *)

Has(s, S) == \E i \in 1..Len(s) : s[i] \in S
AtMostOne(s, S) == \A i, j \in 1..Len(s) : s[i] \in S /\ s[j] \in S => i = j

\* At most one element of S, and none of Old.
Clean(s, S, Old) == AtMostOne(s, S) /\ ~Has(s, S \cap Old)

\* What one more element does.
LEMMA AppendHas ==
  ASSUME NEW M, NEW s \in Seq(M), NEW m \in M, NEW S
  PROVE  Has(Append(s, m), S) <=> Has(s, S) \/ m \in S
<1> DEFINE t == Append(s, m)
<1>1. /\ Len(s) \in Nat /\ Len(t) = Len(s) + 1 /\ t[Len(s) + 1] = m
      /\ \A i \in 1..Len(s) : t[i] = s[i]
  OBVIOUS
<1> HIDE DEF t
<1>2. ASSUME Has(t, S), m \notin S PROVE Has(s, S)
  <2>1. PICK i \in 1..Len(t) : t[i] \in S
    BY <1>2 DEF Has
  <2>2. i \in 1..Len(s)
    BY <1>1, <1>2, <2>1
  <2> QED
    BY <1>1, <2>1, <2>2 DEF Has
<1>3. ASSUME Has(s, S) PROVE Has(t, S)
  <2>1. PICK i \in 1..Len(s) : s[i] \in S
    BY <1>3 DEF Has
  <2>2. i \in 1..Len(t) /\ t[i] \in S
    BY <1>1, <2>1
  <2> QED
    BY <2>2 DEF Has
<1>4. ASSUME m \in S PROVE Has(t, S)
  <2>1. Len(s) + 1 \in 1..Len(t)
    BY <1>1
  <2> QED
    BY <1>1, <1>4, <2>1 DEF Has
<1> QED
  BY <1>2, <1>3, <1>4 DEF t

\* One more element of S where there is none, or one that is not in S, keeps a sequence clean.
LEMMA AppendClean ==
  ASSUME NEW M, NEW s \in Seq(M), NEW m \in M, NEW S, NEW Old, Clean(s, S, Old),
         m \in S => ~Has(s, S) /\ m \notin Old
  PROVE  Clean(Append(s, m), S, Old)
<1> DEFINE t == Append(s, m)
<1>1. /\ Len(s) \in Nat /\ Len(t) = Len(s) + 1 /\ t[Len(s) + 1] = m
      /\ \A i \in 1..Len(s) : t[i] = s[i]
  OBVIOUS
<1>2. ~Has(t, S \cap Old)
  BY AppendHas DEF Clean
<1> HIDE DEF t
<1>3. ASSUME NEW i \in 1..Len(t), NEW j \in 1..Len(t), t[i] \in S, t[j] \in S
      PROVE  i = j
  <2>1. CASE i \in 1..Len(s) /\ j \in 1..Len(s)
    BY <1>1, <1>3, <2>1 DEF Clean, AtMostOne
  <2>2. CASE ~(i \in 1..Len(s) /\ j \in 1..Len(s))
    <3>1. i = Len(s) + 1 \/ j = Len(s) + 1
      BY <1>1, <2>2
    <3>2. m \in S
      BY <1>1, <1>3, <3>1
    <3>3. \A k \in 1..Len(s) : t[k] \notin S
      BY <1>1, <3>2 DEF Has
    <3> QED
      BY <1>1, <1>3, <3>3
  <2> QED
    BY <2>1, <2>2
<1> QED
  BY <1>2, <1>3 DEF Clean, AtMostOne, t

\* What is left when the first element is taken.
LEMMA TailHas ==
  ASSUME NEW M, NEW s \in Seq(M), s # << >>, NEW S
  PROVE  /\ Has(Tail(s), S) => Has(s, S)
         /\ Has(s, S) => Has(Tail(s), S) \/ Head(s) \in S
         /\ Head(s) \in S => Has(s, S)
         /\ Head(s) \in M /\ Tail(s) \in Seq(M)
<1> DEFINE t == Tail(s)
<1>1. /\ Len(s) \in Nat /\ Len(s) > 0 /\ Len(t) = Len(s) - 1 /\ Head(s) = s[1]
      /\ \A i \in 1..Len(t) : t[i] = s[i + 1]
      /\ Head(s) \in M /\ t \in Seq(M)
  OBVIOUS
<1> HIDE DEF t
<1>2. ASSUME Has(t, S) PROVE Has(s, S)
  <2>1. PICK i \in 1..Len(t) : t[i] \in S
    BY <1>2 DEF Has
  <2>2. i + 1 \in 1..Len(s) /\ s[i + 1] \in S
    BY <1>1, <2>1
  <2> QED
    BY <2>2 DEF Has
<1>3. ASSUME Has(s, S), Head(s) \notin S PROVE Has(t, S)
  <2>1. PICK i \in 1..Len(s) : s[i] \in S
    BY <1>3 DEF Has
  <2>2. i - 1 \in 1..Len(t) /\ t[i - 1] \in S
    BY <1>1, <1>3, <2>1
  <2> QED
    BY <2>2 DEF Has
<1>4. ASSUME Head(s) \in S PROVE Has(s, S)
  <2>1. 1 \in 1..Len(s)
    BY <1>1
  <2> QED
    BY <1>1, <1>4, <2>1 DEF Has
<1> QED
  BY <1>1, <1>2, <1>3, <1>4 DEF t

\* Without its first element a clean sequence is clean, and has none of S if that was it.
LEMMA TailClean ==
  ASSUME NEW M, NEW s \in Seq(M), s # << >>, NEW S, NEW Old, Clean(s, S, Old)
  PROVE  /\ Clean(Tail(s), S, Old)
         /\ Head(s) \in S => ~Has(Tail(s), S) /\ Head(s) \notin Old
<1> DEFINE t == Tail(s)
<1>1. /\ Len(s) \in Nat /\ Len(s) > 0 /\ Len(t) = Len(s) - 1 /\ Head(s) = s[1]
      /\ \A i \in 1..Len(t) : t[i] = s[i + 1]
  OBVIOUS
<1>2. ~Has(t, S \cap Old) /\ ~(Head(s) \in S \cap Old)
  BY TailHas DEF Clean
<1> HIDE DEF t
<1>3. ASSUME NEW i \in 1..Len(t), NEW j \in 1..Len(t), t[i] \in S, t[j] \in S
      PROVE  i = j
  <2>1. i + 1 \in 1..Len(s) /\ j + 1 \in 1..Len(s) /\ s[i + 1] \in S /\ s[j + 1] \in S
    BY <1>1, <1>3
  <2>2. i + 1 = j + 1
    BY <2>1 DEF Clean, AtMostOne
  <2> QED
    BY <2>2
<1>4. ASSUME Head(s) \in S, NEW i \in 1..Len(t), t[i] \in S PROVE FALSE
  <2>1. 1 \in 1..Len(s) /\ i + 1 \in 1..Len(s) /\ s[i + 1] \in S /\ s[1] \in S
    BY <1>1, <1>4
  <2>2. 1 = i + 1
    BY <2>1 DEF Clean, AtMostOne
  <2> QED
    BY <2>2
<1> QED
  BY <1>2, <1>3, <1>4 DEF Clean, AtMostOne, Has, t

-----------------------------------------------------------------------------
(* Types. *)

\* A request or an answer carries the number of a call that has been made.
Numbered == {m \in Message : m.type \in {"Command", "Response"} => m.call \in 1..MaxCalls}

Queues == up \in [Client -> Seq(Numbered)] /\ down \in [Client -> Seq(Numbered)]

TInv == TypeOK /\ Queues

\* What a send does to the queues.
LEMMA GoesTypes ==
  ASSUME TInv, NEW d \in Client, NEW m \in Numbered, Goes(d, m)
  PROVE  /\ up'[d] = Append(up[d], m)
         /\ \A e \in Client \ {d} : up'[e] = up[e]
         /\ up' \in [Client -> Seq(Numbered)] /\ up' \in [Client -> Seq(Message)]
<1>1. up \in [Client -> Seq(Numbered)] /\ Numbered \subseteq Message
  BY DEF TInv, Queues, Numbered
<1> HIDE DEF Numbered, Message
<1>2. Append(up[d], m) \in Seq(Numbered)
  BY <1>1
<1>3. up' \in [Client -> Seq(Numbered)]
  BY <1>1, <1>2 DEF Goes
<1>4. Seq(Numbered) \subseteq Seq(Message)
  BY <1>1
<1> QED
  BY <1>1, <1>3, <1>4 DEF Goes

\* What a send to some does to the queues.
LEMMA SentTypes ==
  ASSUME TInv, NEW to, NEW m \in Numbered, Sent(to, m)
  PROVE  /\ \A d \in Client \cap to : down'[d] = Append(down[d], m)
         /\ \A d \in Client \ to : down'[d] = down[d]
         /\ down' \in [Client -> Seq(Numbered)] /\ down' \in [Client -> Seq(Message)]
<1>1. down \in [Client -> Seq(Numbered)] /\ Numbered \subseteq Message
  BY DEF TInv, Queues, Numbered
<1> HIDE DEF Numbered, Message
<1>2. \A d \in Client : Append(down[d], m) \in Seq(Numbered)
  BY <1>1
<1>3. down' \in [Client -> Seq(Numbered)]
  BY <1>1, <1>2 DEF Sent
<1>4. Seq(Numbered) \subseteq Seq(Message)
  BY <1>1
<1> QED
  BY <1>1, <1>3, <1>4 DEF Sent

\* What a thread takes from its queue.
LEMMA TakenTypes ==
  ASSUME TInv, NEW d \in Client, NEW type, Takes(d, type)
  PROVE  /\ up[d] \in Seq(Numbered) /\ up[d] # << >>
         /\ Head(up[d]) \in Numbered /\ Head(up[d]) \in Message /\ Head(up[d]).type = type
         /\ up'[d] = Tail(up[d])
         /\ \A e \in Client \ {d} : up'[e] = up[e]
         /\ up' \in [Client -> Seq(Numbered)] /\ up' \in [Client -> Seq(Message)]
<1>1. up \in [Client -> Seq(Numbered)] /\ Numbered \subseteq Message
  BY DEF TInv, Queues, Numbered
<1> HIDE DEF Numbered, Message
<1>2. Tail(up[d]) \in Seq(Numbered) /\ Head(up[d]) \in Numbered
  BY <1>1 DEF Takes
<1>3. up' \in [Client -> Seq(Numbered)]
  BY <1>1, <1>2 DEF Takes
<1>4. Seq(Numbered) \subseteq Seq(Message)
  BY <1>1
<1> QED
  BY <1>1, <1>2, <1>3, <1>4 DEF Takes

\* What a client's callback thread takes from its queue.
LEMMA HandledTypes ==
  ASSUME TInv, NEW d \in Client, NEW type, Handles(d, type)
  PROVE  /\ down[d] \in Seq(Numbered) /\ down[d] # << >>
         /\ Head(down[d]) \in Numbered /\ Head(down[d]) \in Message /\ Head(down[d]).type = type
         /\ down'[d] = Tail(down[d])
         /\ \A e \in Client \ {d} : down'[e] = down[e]
         /\ down' \in [Client -> Seq(Numbered)] /\ down' \in [Client -> Seq(Message)]
<1>1. down \in [Client -> Seq(Numbered)] /\ Numbered \subseteq Message
  BY DEF TInv, Queues, Numbered
<1> HIDE DEF Numbered, Message
<1>2. Tail(down[d]) \in Seq(Numbered) /\ Head(down[d]) \in Numbered
  BY <1>1 DEF Handles
<1>3. down' \in [Client -> Seq(Numbered)]
  BY <1>1, <1>2 DEF Handles
<1>4. Seq(Numbered) \subseteq Seq(Message)
  BY <1>1
<1> QED
  BY <1>1, <1>2, <1>3, <1>4 DEF Handles

\* The messages that are built are messages.
LEMMA MsgTypes ==
  ASSUME NEW d \in Client \cup {"Server"}
  PROVE  /\ \A type \in {"Command", "Response"}, n \in 1..MaxCalls :
              Msg(type, d, n, {}) \in Numbered
         /\ \A type \in {"Open", "Close"}, all \in SUBSET Client : Msg(type, d, 0, all) \in Numbered
BY RpcAssumption DEF Msg, Message, Numbered, Answering

\* The map that a call returns says of clients what they have answered.
LEMMA CollapseTypes ==
  ASSUME NEW s \in Seq(Answer)
  PROVE  Collapse(s) \subseteq Answering \X Answer
<1>1. \A i \in 1..Len(s) : s[i] \in Answer /\ s[i][1] \in Answering
  BY DEF Answer
<1> QED
  BY <1>1 DEF Collapse

\* The steps of the caller keep the types.
LEMMA CallerTypeStep ==
  ASSUME TInv, NEW c \in Caller, CallMethod(c) \/ CallerStep(c)
  PROVE  TInv'
<1> USE RpcAssumption DEF TInv, TypeOK, Queues, threadVars
<1>1. CASE CallMethod(c)
  <2>1. c \in Client /\ calls' \in 1..MaxCalls
    BY <1>1 DEF CallMethod, Client
  <2>2. up' \in [Client -> Seq(Numbered)] /\ up' \in [Client -> Seq(Message)]
    BY <1>1, <2>1, MsgTypes, GoesTypes DEF CallMethod
  <2> HIDE DEF Message, Numbered, Client
  <2> QED
    BY <1>1, <2>1, <2>2 DEF CallMethod
<1>2. CASE Suppress(c)
  BY <1>2 DEF Suppress
<1>3. CASE Return(c)
  <2>1. Collapse(m_Responses[c]) \subseteq Answering \X Answer
    BY CollapseTypes
  <2> DEFINE Result == [call : 0..MaxCalls, asked : SUBSET Client,
                        answers : SUBSET (Answering \X Answer)]
             new == [call |-> call[c], asked |-> asked[c], answers |-> Collapse(m_Responses[c])]
  <2>2. new \in Result
    BY <2>1
  <2>3. result' = [result EXCEPT ![c] = new] /\ result \in [Caller -> Result]
    BY <1>3 DEF Return
  <2> HIDE DEF new, Result
  <2>4. result' \in [Caller -> Result]
    BY <2>2, <2>3
  <2> QED
    BY <1>3, <2>4 DEF Return, Result, threadVars
<1> QED
  BY <1>1, <1>2, <1>3 DEF CallerStep

\* The steps of the server keep the types.
LEMMA ServerTypeStep ==
  ASSUME TInv, NEW d \in Client, ServerStep(d)
  PROVE  TInv'
<1> USE RpcAssumption DEF TInv, TypeOK, Queues, callVars
<1>1. CASE RelayCommand(d)
  <2>1. /\ Head(up[d]) \in Numbered
        /\ up' \in [Client -> Seq(Numbered)] /\ up' \in [Client -> Seq(Message)]
    BY <1>1, TakenTypes DEF RelayCommand
  <2>2. Head(up[d]).call \in 1..MaxCalls
    BY <1>1, <2>1 DEF RelayCommand, Takes, Numbered
  <2>3. PICK left \in LeftOut(d) : Sent(there \ left, Head(up[d])) /\ Confuses(left # {d}, "relay")
    BY <1>1 DEF RelayCommand
  <2>4. down' \in [Client -> Seq(Numbered)] /\ down' \in [Client -> Seq(Message)]
    BY <2>1, <2>3, SentTypes
  <2>5. confused' \in SUBSET Confusion
    BY <2>3 DEF Confuses, Confusion
  <2> HIDE DEF Message, Numbered, Client, Confusion
  <2> QED
    BY <1>1, <2>1, <2>2, <2>4, <2>5 DEF RelayCommand
<1>2. ASSUME NEW a \in answering, a.from = d, ServerAnswers(a) PROVE TInv'
  <2>1. Msg("Response", "Server", a.call, {}) \in Numbered
    BY MsgTypes
  <2>2. down' \in [Client -> Seq(Numbered)] /\ down' \in [Client -> Seq(Message)]
    BY <1>2, <2>1, SentTypes DEF ServerAnswers
  <2> HIDE DEF Message, Numbered, Client
  <2>3. named' \in [Client -> SUBSET Client]
    BY <1>2 DEF ServerAnswers, Ends
  <2> QED
    BY <1>2, <2>2, <2>3 DEF ServerAnswers
<1>3. CASE RelayResponse(d)
  <2>1. /\ Head(up[d]) \in Numbered
        /\ up' \in [Client -> Seq(Numbered)] /\ up' \in [Client -> Seq(Message)]
    BY <1>3, TakenTypes DEF RelayResponse
  <2>2. PICK left \in LeftOut(d) :
          Sent((there \ left) \cap Caller, Head(up[d])) /\ Confuses(left # {d}, "relay")
    BY <1>3 DEF RelayResponse
  <2>3. down' \in [Client -> Seq(Numbered)] /\ down' \in [Client -> Seq(Message)]
    BY <2>1, <2>2, SentTypes
  <2>4. confused' \in SUBSET Confusion
    BY <2>2 DEF Confuses, Confusion
  <2> HIDE DEF Message, Numbered, Client, Confusion
  <2>5. named' \in [Client -> SUBSET Client]
    BY <1>3 DEF RelayResponse, Ends
  <2> QED
    BY <1>3, <2>1, <2>3, <2>4, <2>5 DEF RelayResponse
<1>4. CASE Unregisters(d)
  <2>1. /\ up' \in [Client -> Seq(Numbered)] /\ up' \in [Client -> Seq(Message)]
    BY <1>4, TakenTypes DEF Unregisters
  <2>2. PICK from \in named[d] \cap there, erased \in named[d] \cap there, left \in LeftOut(d) :
          Departure(d, from, erased, left)
    BY <1>4 DEF Unregisters
  <2>3. from \in Client /\ Msg("Close", from, 0, {}) \in Numbered
    BY MsgTypes
  <2>4. down' \in [Client -> Seq(Numbered)] /\ down' \in [Client -> Seq(Message)]
    BY <2>2, <2>3, SentTypes DEF Departure
  <2>5. confused' \in SUBSET Confusion
    BY <2>2 DEF Departure, Confusion
  <2> HIDE DEF Message, Numbered, Client, Confusion
  <2>6. named' \in [Client -> SUBSET Client] /\ there' \in SUBSET Client
    BY <1>4, <2>2 DEF Unregisters, Departure, Ends
  <2> QED
    BY <1>4, <2>1, <2>4, <2>5, <2>6 DEF Unregisters
<1>5. CASE Registers(d)
  <2>1. there' \in SUBSET Client
    BY <1>5 DEF Registers
  <2>2. /\ up' \in [Client -> Seq(Numbered)] /\ up' \in [Client -> Seq(Message)]
    BY <1>5, TakenTypes DEF Registers
  <2>3. Msg("Open", d, 0, there') \in Numbered
    BY <2>1, MsgTypes
  <2>4. PICK left \in LeftOut(d), n \in named[d] \cap there' :
          /\ Sent(((there' \ left) \cup {n}) \cap Caller, Msg("Open", d, 0, there'))
          /\ Confuses(n # d, "relay")
    BY <1>5 DEF Registers
  <2>5. down' \in [Client -> Seq(Numbered)] /\ down' \in [Client -> Seq(Message)]
    BY <2>3, <2>4, SentTypes
  <2>6. confused' \in SUBSET Confusion
    BY <2>4 DEF Confuses, Confusion
  <2> HIDE DEF Message, Numbered, Client, Confusion
  <2>7. named' \in [Client -> SUBSET Client]
    BY <1>5 DEF Registers, Ends
  <2> QED
    BY <1>5, <2>1, <2>2, <2>5, <2>6, <2>7 DEF Registers
<1>6. CASE Callback(d)
  <2>1. named' \in [Client -> SUBSET Client]
    BY <1>6 DEF Callback
  <2>2. overlaps' \in 0..MaxOverlaps
    BY <1>6 DEF Callback
  <2>3. m_Client' \in Answering
    BY <1>6 DEF Callback, Answering
  <2> HIDE DEF Message, Numbered, Client, Answering
  <2> QED
    BY <1>6, <2>1, <2>2, <2>3 DEF Callback
<1>7. CASE Lookup(d)
  <2>1. confused' \in SUBSET Confusion
    BY <1>7 DEF Lookup, Confusion
  <2> HIDE DEF Message, Numbered, Client, Confusion
  <2> QED
    BY <1>7, <2>1 DEF Lookup
<1> QED
  BY <1>1, <1>2, <1>3, <1>4, <1>5, <1>6, <1>7 DEF ServerStep

\* The steps of the clients keep the types.
LEMMA ClientTypeStep ==
  ASSUME TInv, NEW d \in Client, ClientStep(d) \/ Connect(d) \/ Leave(d)
  PROVE  TInv'
<1> USE RpcAssumption DEF TInv, TypeOK, Queues, callVars, threadVars
<1>1. CASE OnCommand(d)
  <2>1. /\ Head(down[d]) \in Numbered /\ Head(down[d]).type = "Command"
        /\ down' \in [Client -> Seq(Numbered)] /\ down' \in [Client -> Seq(Message)]
    BY <1>1, HandledTypes DEF OnCommand
  <2>2. Msg("Response", d, Head(down[d]).call, {}) \in Numbered
    BY <2>1, MsgTypes DEF Numbered
  <2>3. up' \in [Client -> Seq(Numbered)] /\ up' \in [Client -> Seq(Message)]
    BY <1>1, <2>2, GoesTypes DEF OnCommand
  <2> HIDE DEF Message, Numbered, Client
  <2> QED
    BY <1>1, <2>1, <2>3 DEF OnCommand
<1>2. CASE OnResponse(d)
  <2>1. /\ Head(down[d]) \in Numbered /\ Head(down[d]).type = "Response"
        /\ down' \in [Client -> Seq(Numbered)] /\ down' \in [Client -> Seq(Message)]
    BY <1>2, HandledTypes DEF OnResponse
  <2>2. <<Head(down[d]).from, Head(down[d]).call>> \in Answer
    BY <2>1 DEF Numbered, Message, Answer
  <2> HIDE DEF Message, Numbered, Client, Answer
  <2>3. m_Responses' \in [Caller -> Seq(Answer)]
    <3>1. CASE d \in Caller
      <4>1. Append(m_Responses[d], <<Head(down[d]).from, Head(down[d]).call>>) \in Seq(Answer)
        BY <2>2, <3>1
      <4> QED
        BY <1>2, <4>1 DEF OnResponse
    <3>2. CASE d \notin Caller
      BY <1>2, <3>2 DEF OnResponse
    <3> QED
      BY <3>1, <3>2
  <2> QED
    BY <1>2, <2>1, <2>3 DEF OnResponse
<1>3. CASE OnOpen(d)
  <2>1. /\ Head(down[d]) \in Message
        /\ down' \in [Client -> Seq(Numbered)] /\ down' \in [Client -> Seq(Message)]
    BY <1>3, HandledTypes DEF OnOpen
  <2>2. Head(down[d]).all \in SUBSET Client
    BY <2>1 DEF Message
  <2> HIDE DEF Message, Numbered, Client
  <2> QED
    BY <1>3, <2>1, <2>2 DEF OnOpen
<1>4. CASE OnClose(d)
  <2>1. down' \in [Client -> Seq(Numbered)] /\ down' \in [Client -> Seq(Message)]
    BY <1>4, HandledTypes DEF OnClose
  <2>2. /\ m_List' \in [Caller -> SUBSET Client] /\ m_Lists' \in [Caller -> SUBSET Client]
    BY <1>4 DEF OnClose
  <2> HIDE DEF Message, Numbered, Client
  <2> QED
    BY <1>4, <2>1, <2>2 DEF OnClose
<1>5. CASE Leave(d)
  <2>1. PICK rest \in {up[d], << >>} : up' = [up EXCEPT ![d] = Append(rest, Msg("Close", d, 0, {}))]
    BY <1>5 DEF Leave
  <2>2. Msg("Close", d, 0, {}) \in Numbered /\ Numbered \subseteq Message
    BY MsgTypes DEF Numbered
  <2> HIDE DEF Message, Numbered, Client
  <2>3. Append(rest, Msg("Close", d, 0, {})) \in Seq(Numbered) /\ << >> \in Seq(Numbered)
    <3>1. up[d] \in Seq(Numbered) /\ << >> \in Seq(Numbered)
      OBVIOUS
    <3>2. rest \in Seq(Numbered)
      BY <3>1
    <3>3. \A m \in Numbered : Append(rest, m) \in Seq(Numbered)
      BY <3>2
    <3> QED
      BY <2>2, <3>1, <3>3
  <2>4. up' \in [Client -> Seq(Numbered)] /\ down' \in [Client -> Seq(Numbered)]
    BY <1>5, <2>1, <2>3 DEF Leave
  <2>5. Seq(Numbered) \subseteq Seq(Message)
    BY <2>2
  <2>6. up' \in [Client -> Seq(Message)] /\ down' \in [Client -> Seq(Message)]
    BY <2>4, <2>5
  <2> QED
    BY <1>5, <2>4, <2>6 DEF Leave
<1>6. CASE Connect(d)
  <2>1. Msg("Open", d, 0, {}) \in Numbered
    BY MsgTypes
  <2>2. up' \in [Client -> Seq(Numbered)] /\ up' \in [Client -> Seq(Message)]
    BY <1>6, <2>1, GoesTypes DEF Connect
  <2> HIDE DEF Message, Numbered, Client
  <2> QED
    BY <1>6, <2>2 DEF Connect
<1> QED
  BY <1>1, <1>2, <1>3, <1>4, <1>5, <1>6 DEF ClientStep

\* Every step keeps the types.
LEMMA TypeStep == TInv /\ [Next]_vars => TInv'
<1> SUFFICES ASSUME TInv, [Next]_vars PROVE TInv'
  OBVIOUS
<1>1. CASE UNCHANGED vars
  BY <1>1 DEF vars, callVars, threadVars, TInv, TypeOK, Queues
<1> QED
  BY <1>1, CallerTypeStep, ServerTypeStep, ClientTypeStep DEF Next

\* The types hold at first.
LEMMA TypeInit == Init => TInv
<1> SUFFICES ASSUME Init PROVE TInv
  OBVIOUS
<1>1. \A S : << >> \in Seq(S)
  OBVIOUS
<1>2. there \in SUBSET Client
  BY DEF Init
<1> HIDE DEF Message, Numbered, Client
<1> QED
  BY RpcAssumption, <1>1, <1>2 DEF Init, TInv, TypeOK, Queues, Answering

\* Every variable has its type: no answer without a number is ever kept.
THEOREM RpcTypeCorrect == Spec => []TypeOK
<1>1. TInv => TypeOK
  BY DEF TInv
<1> QED
  BY TypeInit, TypeStep, <1>1, PTL DEF Spec

-----------------------------------------------------------------------------
(* Who is there, and what is on its way. *)

\* The clients that are there from the beginning and have not ended.
Staying == Client \ (Late \cup gone)

HasCalled(c) == call[c] # 0 \/ result[c].call # 0

Commands == {m \in Message : m.type = "Command"}
Closes == {m \in Message : m.type = "Close"}

\* What is never said: in another's name, that somebody has closed who has not, and a
\* list without somebody who stays.
OfOthers(d) == {m \in Message : m.from # d}
FalseCloses == {m \in Message : m.type = "Close" /\ m.from \notin gone}
ShortOpens == {m \in Message : m.type = "Open" /\ ~(Staying \subseteq m.all)}

\* A client says what is true, under its own name.
UpPhase(d) ==
  /\ ~Has(up[d], OfOthers(d))
  /\ d \notin gone => ~Has(up[d], Closes)
  /\ Has(up[d], Commands) => d \in Caller /\ HasCalled(d)

\* Who stays is registered and known to the others.
DownPhase(d) == ~Has(down[d], FalseCloses) /\ ~Has(down[d], ShortOpens)

ListPhase(c) ==
  /\ Staying \ {c} \subseteq m_List[c]
  /\ c \notin m_List[c] /\ c \notin asked[c]

Truthful == gone \subseteq Callee /\ \A d \in Client : UpPhase(d)

\* A departure has been ascribed to somebody else: then the rest may fail.
Mistaken == "departure" \in confused

Present ==
  /\ Staying \subseteq there
  /\ \A d \in Client : DownPhase(d)
  /\ \A c \in Caller : ListPhase(c)

\* What has an element of a set has one of a larger set.
LEMMA HasMore == ASSUME NEW s, NEW S, NEW T, S \subseteq T, Has(s, S) PROVE Has(s, T)
BY DEF Has

\* Nobody comes back, and who has called has called.
LEMMA History ==
  ASSUME TInv, [Next]_vars
  PROVE  /\ gone \subseteq gone' /\ Staying' \subseteq Staying
         /\ \A c \in Caller : HasCalled(c) => HasCalled(c)'
         /\ FalseCloses' \subseteq FalseCloses /\ ShortOpens' \subseteq ShortOpens
         /\ Mistaken => Mistaken'
<1> USE DEF callVars, threadVars
<1>1. gone \subseteq gone'
  <2>1. CASE UNCHANGED gone
    BY <2>1
  <2>2. ASSUME NEW d \in Client, Leave(d) PROVE gone \subseteq gone'
    BY <2>2 DEF Leave
  <2> QED
    BY <2>1, <2>2 DEF Next, CallMethod, CallerStep, Suppress, Return, ServerStep, RelayCommand,
       RelayResponse, Unregisters, ServerAnswers, ClientStep, OnCommand, OnResponse, OnOpen, OnClose,
       Registers, Callback, Lookup, Connect, vars
<1>2. \A c \in Caller : HasCalled(c) => HasCalled(c)'
  <2>1. CASE UNCHANGED <<call, result>>
    BY <2>1 DEF HasCalled
  <2>2. ASSUME NEW e \in Caller, CallMethod(e) PROVE \A c \in Caller : HasCalled(c) => HasCalled(c)'
    BY <2>2 DEF CallMethod, HasCalled, TInv, TypeOK
  <2>3. ASSUME NEW e \in Caller, Return(e) PROVE \A c \in Caller : HasCalled(c) => HasCalled(c)'
    BY <2>3 DEF Return, HasCalled, TInv, TypeOK
  <2> QED
    BY <2>1, <2>2, <2>3 DEF Next, CallerStep, Suppress, ServerStep, RelayCommand,
       RelayResponse, Unregisters, ServerAnswers, ClientStep, OnCommand, OnResponse, OnOpen, OnClose,
       Registers, Callback, Lookup, Connect, Leave, vars
<1>3. Staying' \subseteq Staying
  BY <1>1 DEF Staying
<1>4. confused \subseteq confused'
  <2>1. CASE UNCHANGED confused
    BY <2>1
  <2>2. ASSUME NEW d \in Client, RelayCommand(d) \/ RelayResponse(d) \/ Registers(d)
        PROVE  confused \subseteq confused'
    BY <2>2 DEF RelayCommand, RelayResponse, Registers, Confuses
  <2>3. ASSUME NEW d \in Client, Unregisters(d) PROVE confused \subseteq confused'
    <3>1. PICK from \in named[d] \cap there, erased \in named[d] \cap there, left \in LeftOut(d) :
            Departure(d, from, erased, left)
      BY <2>3 DEF Unregisters
    <3> QED
      BY <3>1 DEF Departure
  <2>4. ASSUME NEW d \in Client, Lookup(d) PROVE confused \subseteq confused'
    BY <2>4 DEF Lookup
  <2> QED
    BY <2>1, <2>2, <2>3, <2>4 DEF Next, CallMethod, CallerStep, Suppress, Return, ServerStep,
       Callback, ServerAnswers, ClientStep, OnCommand, OnResponse, OnOpen, OnClose, Connect, Leave, vars
<1> QED
  BY <1>1, <1>2, <1>3, <1>4 DEF FalseCloses, ShortOpens, Mistaken

\* Taking from the queue to the server keeps its phase.
LEMMA UpKept ==
  ASSUME TInv, NEW d \in Client, UpPhase(d), gone \subseteq gone',
         d \in Caller /\ HasCalled(d) => HasCalled(d)',
         up'[d] = up[d] \/ (up[d] # << >> /\ up'[d] = Tail(up[d]))
  PROVE  UpPhase(d)'
<1>1. up[d] \in Seq(Numbered)
  BY DEF TInv, Queues
<1> HIDE DEF Numbered, Message
<1>2. \A S : Has(up'[d], S) => Has(up[d], S)
  BY <1>1, TailHas
<1> QED
  BY <1>2 DEF UpPhase, OfOthers, Closes, Commands

\* A client adds what is true, under its own name.
LEMMA UpGrown ==
  ASSUME TInv, NEW d \in Client, UpPhase(d), gone \subseteq gone', NEW m \in Numbered,
         up'[d] = Append(up[d], m), m.from = d, m.type # "Close",
         d \in Caller /\ HasCalled(d) => HasCalled(d)',
         m.type = "Command" => d \in Caller /\ HasCalled(d)'
  PROVE  UpPhase(d)'
<1>1. up[d] \in Seq(Numbered)
  BY DEF TInv, Queues
<1> HIDE DEF Numbered, Message
<1>2. \A S : Has(up'[d], S) => Has(up[d], S) \/ m \in S
  BY <1>1, AppendHas
<1> QED
  BY <1>2 DEF UpPhase, OfOthers, Closes, Commands

\* The queue from the server grows by what is true only.
LEMMA DownKept ==
  ASSUME TInv, NEW d \in Client, DownPhase(d),
         FalseCloses' \subseteq FalseCloses, ShortOpens' \subseteq ShortOpens,
         \/ down'[d] = down[d]
         \/ down[d] # << >> /\ down'[d] = Tail(down[d])
         \/ \E m \in Numbered : m \notin FalseCloses' \cup ShortOpens' /\ down'[d] = Append(down[d], m)
  PROVE  DownPhase(d)'
<1>1. down[d] \in Seq(Numbered)
  BY DEF TInv, Queues
<1> HIDE DEF Numbered, Message, FalseCloses, ShortOpens
<1>2. ASSUME NEW S, Has(down'[d], S), S \in {FalseCloses', ShortOpens'} PROVE Has(down[d], S)
  <2>1. CASE down'[d] = down[d] \/ (down[d] # << >> /\ down'[d] = Tail(down[d]))
    BY <1>1, <1>2, <2>1, TailHas
  <2>2. ASSUME NEW m \in Numbered, m \notin FalseCloses' \cup ShortOpens', down'[d] = Append(down[d], m)
        PROVE  Has(down[d], S)
    <3>1. m \notin S
      BY <1>2, <2>2
    <3>2. Has(down'[d], S) <=> Has(down[d], S) \/ m \in S
      BY <1>1, <2>2, AppendHas
    <3> QED
      BY <1>2, <3>1, <3>2
  <2> QED
    BY <2>1, <2>2
<1> QED
  BY <1>2, HasMore DEF DownPhase

\* What a send to some leaves in the queues of all.
LEMMA DownSent ==
  ASSUME TInv, [Next]_vars, \A d \in Client : DownPhase(d), NEW to, NEW m \in Numbered,
         Sent(to, m), m \notin FalseCloses' \cup ShortOpens'
  PROVE  \A d \in Client : DownPhase(d)'
<1> SUFFICES ASSUME NEW d \in Client PROVE DownPhase(d)'
  OBVIOUS
<1>1. down'[d] = down[d] \/ down'[d] = Append(down[d], m)
  BY SentTypes
<1> QED
  BY <1>1, History, DownKept

\* What the head of the queue to the server tells.
LEMMA HeadUp ==
  ASSUME TInv, NEW d \in Client, UpPhase(d), NEW type, Takes(d, type)
  PROVE  /\ Head(up[d]) \in Numbered /\ Head(up[d]).type = type /\ Head(up[d]).from = d
         /\ type = "Close" => d \in gone
         /\ type = "Command" => d \in Caller /\ HasCalled(d)
<1>1. /\ up[d] \in Seq(Numbered) /\ up[d] # << >>
      /\ Head(up[d]) \in Numbered /\ Head(up[d]) \in Message /\ Head(up[d]).type = type
  BY TakenTypes
<1>2. \A S : Head(up[d]) \in S => Has(up[d], S)
  BY <1>1, TailHas
<1> HIDE DEF Numbered, Message
<1> QED
  BY <1>1, <1>2 DEF UpPhase, OfOthers, Closes, Commands

\* What the head of the queue from the server tells.
LEMMA HeadDown ==
  ASSUME TInv, NEW d \in Client, DownPhase(d), NEW type, Handles(d, type)
  PROVE  /\ Head(down[d]) \in Numbered /\ Head(down[d]).type = type
         /\ type = "Close" => Head(down[d]).from \in gone
         /\ type = "Open" => Staying \subseteq Head(down[d]).all
<1>1. /\ down[d] \in Seq(Numbered) /\ down[d] # << >>
      /\ Head(down[d]) \in Numbered /\ Head(down[d]) \in Message /\ Head(down[d]).type = type
  BY HandledTypes
<1>2. \A S : Head(down[d]) \in S => Has(down[d], S)
  BY <1>1, TailHas
<1> HIDE DEF Numbered, Message
<1> QED
  BY <1>1, <1>2 DEF DownPhase, FalseCloses, ShortOpens

\* Every step leaves what is on the way to the server true.
LEMMA UpStep ==
  ASSUME TInv, Truthful, [Next]_vars
  PROVE  Truthful'
<1>a. gone' \subseteq Callee
  <2>1. CASE UNCHANGED gone
    BY <2>1 DEF Truthful
  <2>2. ASSUME NEW d \in Client, Leave(d) PROVE gone' \subseteq Callee
    BY <2>2 DEF Leave, Truthful
  <2> QED
    BY <2>1, <2>2 DEF Next, CallMethod, CallerStep, Suppress, Return, ServerStep, RelayCommand,
       RelayResponse, Unregisters, ServerAnswers, ClientStep, OnCommand, OnResponse, OnOpen, OnClose,
       Registers, Callback, Lookup, Connect, vars
<1> SUFFICES ASSUME NEW d \in Client PROVE UpPhase(d)'
  BY <1>a DEF Truthful
<1> USE DEF callVars
<1>1. UpPhase(d) /\ gone \subseteq gone' /\ (d \in Caller /\ HasCalled(d) => HasCalled(d)')
  BY History DEF Truthful
<1>2. CASE up'[d] = up[d]
  BY <1>1, <1>2, UpKept
<1>3. ASSUME NEW e \in Client, NEW type, Takes(e, type) PROVE UpPhase(d)'
  <2>1. up'[d] = up[d] \/ (up[d] # << >> /\ up'[d] = Tail(up[d]))
    BY <1>3, TakenTypes
  <2> QED
    BY <1>1, <2>1, UpKept
<1>4. ASSUME NEW c \in Caller, CallMethod(c) PROVE UpPhase(d)'
  <2>1. calls' \in 1..MaxCalls /\ HasCalled(c)' /\ c \in Client
    BY <1>4, RpcAssumption DEF CallMethod, HasCalled, TInv, TypeOK, Client
  <2> DEFINE m == Msg("Command", c, calls', {})
  <2>2. m \in Numbered /\ m.from = c /\ m.type = "Command"
    BY <2>1, MsgTypes DEF Msg
  <2> HIDE DEF m
  <2>3. Goes(c, m)
    BY <1>4 DEF CallMethod, m
  <2>4. d = c => up'[d] = Append(up[d], m)
    BY <2>1, <2>2, <2>3, GoesTypes
  <2>5. d # c => up'[d] = up[d]
    BY <2>1, <2>2, <2>3, GoesTypes
  <2> QED
    BY <1>1, <1>2, <2>1, <2>2, <2>4, <2>5, UpGrown
<1>5. ASSUME NEW e \in Client, OnCommand(e) PROVE UpPhase(d)'
  <2>1. Head(down[e]) \in Numbered /\ Head(down[e]).type = "Command"
    BY <1>5, HandledTypes DEF OnCommand
  <2> DEFINE m == Msg("Response", e, Head(down[e]).call, {})
  <2>2. m \in Numbered /\ m.from = e /\ m.type = "Response"
    BY <2>1, MsgTypes DEF Msg, Numbered
  <2> HIDE DEF m
  <2>3. Goes(e, m)
    BY <1>5 DEF OnCommand, m
  <2>4. d = e => up'[d] = Append(up[d], m)
    BY <2>2, <2>3, GoesTypes
  <2>5. d # e => up'[d] = up[d]
    BY <2>2, <2>3, GoesTypes
  <2> QED
    BY <1>1, <1>2, <2>2, <2>4, <2>5, UpGrown
<1>6. ASSUME NEW e \in Client, Leave(e) PROVE UpPhase(d)'
  <2>1. CASE d # e
    BY <1>2, <1>6, <2>1 DEF Leave, TInv, TypeOK
  <2>2. CASE d = e
    <3>1. PICK rest \in {up[d], << >>} : up'[d] = Append(rest, Msg("Close", d, 0, {}))
      BY <1>6, <2>2 DEF Leave, TInv, TypeOK
    <3> DEFINE m == Msg("Close", d, 0, {})
    <3>2. m \in Numbered /\ m.from = d /\ m.type = "Close"
      BY MsgTypes DEF Msg
    <3>3. d \in gone' /\ d \notin Caller
      BY <1>6, <2>2, RpcAssumption DEF Leave
    <3>4. up[d] \in Seq(Numbered) /\ << >> \in Seq(Numbered) /\ \A S : ~Has(<< >>, S)
      BY DEF TInv, Queues, Has
    <3> HIDE DEF m, Numbered
    <3>5. rest \in Seq(Numbered) /\ \A S : Has(rest, S) => Has(up[d], S)
      BY <3>4
    <3>6. up'[d] = Append(rest, m)
      BY <3>1 DEF m
    <3>7. \A S : Has(up'[d], S) => Has(up[d], S) \/ m \in S
      BY <3>2, <3>5, <3>6, AppendHas
    <3> QED
      BY <1>1, <3>2, <3>3, <3>7 DEF UpPhase, OfOthers, Commands
  <2> QED
    BY <2>1, <2>2
<1>7. ASSUME NEW e \in Client, Connect(e) PROVE UpPhase(d)'
  <2> DEFINE m == Msg("Open", e, 0, {})
  <2>1. m \in Numbered /\ m.from = e /\ m.type = "Open"
    BY MsgTypes DEF Msg
  <2> HIDE DEF m
  <2>2. Goes(e, m)
    BY <1>7 DEF Connect, m
  <2>3. (d = e => up'[d] = Append(up[d], m)) /\ (d # e => up'[d] = up[d])
    BY <2>1, <2>2, GoesTypes
  <2> QED
    BY <1>1, <1>2, <2>1, <2>3, UpGrown
<1>8. CASE UNCHANGED vars
  BY <1>2, <1>8 DEF vars
<1> QED
  BY <1>2, <1>3, <1>4, <1>5, <1>6, <1>7, <1>8 DEF Next, CallerStep, Suppress, Return, ServerStep,
     RelayCommand, RelayResponse, Unregisters, ServerAnswers, ClientStep, OnResponse, OnOpen, OnClose,
     Registers, Callback, Lookup

\* Every step leaves what is on the way from the server true, and who stays registered,
\* as long as no departure is ascribed to somebody else.
LEMMA DownStep ==
  ASSUME TInv, Truthful, Present, ~Mistaken', [Next]_vars
  PROVE  (\A d \in Client : DownPhase(d)') /\ Staying' \subseteq there'
<1> USE DEF callVars
<1>1. /\ FalseCloses' \subseteq FalseCloses /\ ShortOpens' \subseteq ShortOpens
      /\ gone \subseteq gone' /\ Staying' \subseteq Staying
      /\ \A d \in Client : UpPhase(d) /\ DownPhase(d)
      /\ Staying \subseteq there
  BY History DEF Present, Truthful
<1>2. CASE UNCHANGED <<down, there>>
  BY <1>1, <1>2, DownKept DEF Present
<1>3. ASSUME NEW d \in Client, NEW type, type \in {"Command", "Response"}, Takes(d, type),
             NEW to, Sent(to, Head(up[d])), UNCHANGED there
      PROVE  (\A e \in Client : DownPhase(e)') /\ Staying' \subseteq there'
  <2>1. Head(up[d]) \in Numbered /\ Head(up[d]).type = type
    BY <1>1, <1>3, HeadUp
  <2>2. Head(up[d]) \notin FalseCloses' \cup ShortOpens'
    BY <1>3, <2>1 DEF FalseCloses, ShortOpens
  <2> QED
    BY <1>1, <1>3, <2>1, <2>2, DownSent
<1>4. ASSUME NEW a \in answering, ServerAnswers(a)
      PROVE  (\A e \in Client : DownPhase(e)') /\ Staying' \subseteq there'
  <2> DEFINE m == Msg("Response", "Server", a.call, {})
  <2>1. m \in Numbered /\ m.type = "Response"
    BY MsgTypes DEF TInv, TypeOK, Msg
  <2>2. m \notin FalseCloses' \cup ShortOpens'
    BY <2>1 DEF FalseCloses, ShortOpens
  <2>3. Sent({a.from} \cap there, m) /\ UNCHANGED there
    BY <1>4 DEF ServerAnswers
  <2> HIDE DEF m
  <2> QED
    BY <1>1, <2>1, <2>2, <2>3, DownSent
<1>5. ASSUME NEW d \in Client, Registers(d)
      PROVE  (\A e \in Client : DownPhase(e)') /\ Staying' \subseteq there'
  <2> DEFINE m == Msg("Open", d, 0, there')
  <2>1. there' = there \cup {d}
    BY <1>5 DEF Registers
  <2>2. PICK to : Sent(to, m)
    BY <1>5 DEF Registers
  <2>3. there' \in SUBSET Client
    BY <2>1 DEF TInv, TypeOK
  <2>4. m \in Numbered /\ m.type = "Open" /\ m.all = there'
    BY <2>3, MsgTypes DEF Msg
  <2>5. Staying' \subseteq there'
    BY <1>1, <2>1
  <2>6. m \notin FalseCloses' \cup ShortOpens'
    BY <2>4, <2>5 DEF FalseCloses, ShortOpens
  <2> HIDE DEF m
  <2> QED
    BY <1>1, <2>2, <2>4, <2>5, <2>6, DownSent
<1>6. ASSUME NEW d \in Client, Unregisters(d)
      PROVE  (\A e \in Client : DownPhase(e)') /\ Staying' \subseteq there'
  <2> DEFINE m == Msg("Close", d, 0, {})
  <2>1. m \in Numbered /\ m.type = "Close" /\ m.from = d
    BY MsgTypes DEF Msg
  <2>2. d \in gone
    BY <1>1, <1>6, HeadUp DEF Unregisters
  <2>3. PICK from \in named[d] \cap there, erased \in named[d] \cap there, left \in LeftOut(d) :
          Departure(d, from, erased, left)
    BY <1>6 DEF Unregisters
  <2>4. erased = d /\ from = d
    BY <2>3 DEF Departure, Mistaken
  <2>5. there' = there \ {d} /\ Sent((there' \ left) \cap Caller, m)
    BY <2>3, <2>4 DEF Departure
  <2>6. m \notin FalseCloses' \cup ShortOpens'
    BY <1>1, <2>1, <2>2 DEF FalseCloses, ShortOpens
  <2> HIDE DEF m
  <2>7. Staying' \subseteq there'
    BY <1>1, <2>2, <2>5 DEF Staying
  <2> QED
    BY <1>1, <2>1, <2>5, <2>6, <2>7, DownSent
<1>7. ASSUME NEW d \in Client, NEW type, Handles(d, type), UNCHANGED there
      PROVE  (\A e \in Client : DownPhase(e)') /\ Staying' \subseteq there'
  <2>1. \A e \in Client : down'[e] = down[e] \/ (down[e] # << >> /\ down'[e] = Tail(down[e]))
    BY <1>7, HandledTypes
  <2> QED
    BY <1>1, <1>7, <2>1, DownKept
<1>8. ASSUME NEW d \in Client, Leave(d)
      PROVE  (\A e \in Client : DownPhase(e)') /\ Staying' \subseteq there'
  <2>1. \A e \in Client : down'[e] = (IF e = d THEN << >> ELSE down[e])
    BY <1>8 DEF Leave, TInv, TypeOK
  <2>2. \A S : ~Has(<< >>, S)
    BY DEF Has
  <2>3. \A e \in Client : DownPhase(e)'
    BY <1>1, <2>1, <2>2, DownKept DEF DownPhase
  <2>4. Staying' \subseteq there'
    BY <1>1, <1>8 DEF Leave
  <2> QED
    BY <2>3, <2>4
<1>9. CASE UNCHANGED vars
  BY <1>2, <1>9 DEF vars
<1>10. ASSUME NEW d \in Client, RelayCommand(d) \/ RelayResponse(d)
       PROVE  (\A e \in Client : DownPhase(e)') /\ Staying' \subseteq there'
  <2>1. PICK type, to : /\ type \in {"Command", "Response"} /\ Takes(d, type)
                        /\ Sent(to, Head(up[d])) /\ UNCHANGED there
    BY <1>10 DEF RelayCommand, RelayResponse
  <2> QED
    BY <1>3, <2>1
<1> QED
  BY <1>2, <1>4, <1>5, <1>6, <1>7, <1>8, <1>9, <1>10 DEF Next, CallMethod, CallerStep, Suppress, Return,
     ServerStep, Callback, Lookup, Connect, ClientStep, OnCommand, OnResponse, OnOpen, OnClose

\* The callers' lists lose nobody who stays.
LEMMA ListStep ==
  ASSUME TInv, Present, [Next]_vars
  PROVE  \A c \in Caller : ListPhase(c)'
<1> SUFFICES ASSUME NEW c \in Caller PROVE ListPhase(c)'
  OBVIOUS
<1> USE DEF callVars, ListPhase
<1>1. Staying' \subseteq Staying /\ ListPhase(c) /\ \A d \in Client : DownPhase(d)
  BY History DEF Present
<1>2. CASE UNCHANGED <<m_List, asked>>
  BY <1>1, <1>2
<1>3. ASSUME NEW e \in Caller, CallMethod(e) \/ Return(e) PROVE ListPhase(c)'
  <2>1. asked' = [asked EXCEPT ![e] = m_List[e]] \/ asked' = [asked EXCEPT ![e] = {}]
    BY <1>3 DEF CallMethod, Return
  <2>2. asked \in [Caller -> SUBSET Client] /\ UNCHANGED m_List
    BY <1>3 DEF CallMethod, Return, TInv, TypeOK
  <2>3. asked'[c] \in {asked[c], m_List[c], {}}
    BY <2>1, <2>2
  <2> QED
    BY <1>1, <2>2, <2>3
<1>4. ASSUME NEW d \in Client, OnOpen(d) PROVE ListPhase(c)'
  <2>1. Staying \subseteq Head(down[d]).all
    BY <1>1, <1>4, HeadDown DEF OnOpen
  <2> QED
    BY <1>1, <1>4, <2>1 DEF OnOpen, TInv, TypeOK
<1>5. ASSUME NEW d \in Client, OnClose(d) PROVE ListPhase(c)'
  <2>1. Head(down[d]).from \in gone
    BY <1>1, <1>5, HeadDown DEF OnClose
  <2>2. Head(down[d]).from \notin Staying
    BY <2>1 DEF Staying
  <2> QED
    BY <1>1, <1>5, <2>2 DEF OnClose, TInv, TypeOK
<1>6. CASE UNCHANGED vars
  BY <1>2, <1>6 DEF vars
<1> QED
  BY <1>2, <1>3, <1>4, <1>5, <1>6 DEF Next, CallerStep, Suppress, ServerStep,
     RelayCommand, RelayResponse, Unregisters, ServerAnswers, ClientStep, OnCommand, OnResponse,
     Registers, Callback, Lookup, Connect, Leave

\* Every step keeps who is present known, unless it ascribes a departure to another.
LEMMA PresentStep == TInv /\ Truthful /\ Present /\ ~Mistaken' /\ [Next]_vars => Present'
BY DownStep, ListStep DEF Present

\* At first everybody who stays is known.
LEMMA PresentInit == Init => Truthful /\ Present
<1> SUFFICES ASSUME Init PROVE Truthful /\ Present
  OBVIOUS
<1>1. \A S : ~Has(<< >>, S)
  BY DEF Has
<1>2. \A d \in Client : UpPhase(d) /\ DownPhase(d)
  BY <1>1 DEF Init, UpPhase, DownPhase
<1>3. \A c \in Caller : ListPhase(c)
  BY DEF Init, ListPhase, Staying
<1> QED
  BY <1>2, <1>3 DEF Init, Truthful, Present, Staying

-----------------------------------------------------------------------------
(* The round of a call. *)

\* No other controller has ever called.
Alone(c) == \A d \in Caller \ {c} : ~HasCalled(d)

AnswersOf(d) == {m \in Message : m.type = "Response" /\ m.from = d}
KeptOf(d) == {d} \X (1..MaxCalls)

\* What belongs to another call.
OldMessages(c) == {m \in Message : m.call # call[c]}
OldAnswers(c) == {a \in Answer : a[2] # call[c]}

\* The stations of a request of c to d and of its answer.
ToServer(c) == Has(up[c], Commands)
ToCallee(d) == Has(down[d], Commands)
Back(d) == Has(up[d], AnswersOf(d))
ToCaller(c, d) == Has(down[c], AnswersOf(d))
Known(c, d) == Has(m_Responses[c], KeptOf(d))

OneEach(c, d) ==
  /\ Clean(up[c], Commands, OldMessages(c))
  /\ Clean(down[d], Commands, OldMessages(c))
  /\ Clean(up[d], AnswersOf(d), OldMessages(c))
  /\ Clean(down[c], AnswersOf(d), OldMessages(c))
  /\ Clean(m_Responses[c], KeptOf(d), OldAnswers(c))

AtOneStation(c, d) ==
  /\ ToServer(c) => ~ToCallee(d) /\ ~Back(d) /\ ~ToCaller(c, d) /\ ~Known(c, d)
  /\ ToCallee(d) => ~Back(d) /\ ~ToCaller(c, d) /\ ~Known(c, d)
  /\ Back(d) => ~ToCaller(c, d) /\ ~Known(c, d)
  /\ ToCaller(c, d) => ~Known(c, d)

\* The request or its answer is at one station at most, and at none outside of a call;
\* whom the caller does not wait for any more has answered.
Round(c, d) ==
  /\ OneEach(c, d) /\ AtOneStation(c, d)
  /\ call[c] = 0 => ~ToServer(c) /\ ~ToCallee(d) /\ ~Back(d) /\ ~ToCaller(c, d) /\ ~Known(c, d)
  /\ call[c] # 0 /\ d \notin m_Lists[c] => Known(c, d)

Rounds == \A c \in Caller : Alone(c) => \A d \in Staying \ {c} : Round(c, d)

\* A queue in which nothing happens that S tells.
Idle(s, t, S) ==
  \/ t = s
  \/ s # << >> /\ t = Tail(s)
  \/ \E m \in Numbered \ S : t = Append(s, m)

\* An idle queue stays clean.
LEMMA IdleClean ==
  ASSUME NEW s \in Seq(Numbered), NEW t, NEW S, NEW Old, Idle(s, t, S), Clean(s, S, Old)
  PROVE  Clean(t, S, Old) /\ (Has(t, S) => Has(s, S))
<1> HIDE DEF Numbered
<1>1. CASE t = s
  BY <1>1
<1>2. CASE s # << >> /\ t = Tail(s)
  BY <1>2, TailHas, TailClean
<1>3. ASSUME NEW m \in Numbered \ S, t = Append(s, m) PROVE Clean(t, S, Old) /\ (Has(t, S) => Has(s, S))
  BY <1>3, AppendHas, AppendClean
<1> QED
  BY <1>1, <1>2, <1>3 DEF Idle

\* A sequence without elements of S is clean.
LEMMA NoneClean == ASSUME NEW s, NEW S, NEW Old, ~Has(s, S) PROVE Clean(s, S, Old)
BY DEF Clean, AtMostOne, Has

\* The old ones stay old as long as the call lasts.
LEMMA OldStay ==
  ASSUME NEW c \in Caller, call'[c] = call[c]
  PROVE  OldMessages(c)' = OldMessages(c) /\ OldAnswers(c)' = OldAnswers(c)
BY DEF OldMessages, OldAnswers

\* A step that moves neither the request nor the answer.
LEMMA QuietStep ==
  ASSUME TInv, NEW c \in Caller, NEW d \in Client, Round(c, d), call'[c] = call[c],
         Idle(up[c], up'[c], Commands), Idle(down[d], down'[d], Commands),
         Idle(up[d], up'[d], AnswersOf(d)), Idle(down[c], down'[c], AnswersOf(d)),
         \/ m_Responses'[c] = m_Responses[c]
         \/ \E a \in Answer \ KeptOf(d) : m_Responses'[c] = Append(m_Responses[c], a),
         d \notin m_Lists'[c] => d \notin m_Lists[c] \/ Known(c, d)
  PROVE  Round(c, d)'
<1>1. c \in Client /\ up[c] \in Seq(Numbered) /\ up[d] \in Seq(Numbered)
      /\ down[c] \in Seq(Numbered) /\ down[d] \in Seq(Numbered) /\ m_Responses[c] \in Seq(Answer)
  BY DEF TInv, TypeOK, Queues, Client
<1>2. OldMessages(c)' = OldMessages(c) /\ OldAnswers(c)' = OldAnswers(c)
  BY OldStay
<1> HIDE DEF Numbered, Message, Answer, OldMessages, OldAnswers, Commands, AnswersOf, KeptOf
<1>3. /\ Clean(up'[c], Commands, OldMessages(c)) /\ (ToServer(c)' => ToServer(c))
      /\ Clean(down'[d], Commands, OldMessages(c)) /\ (ToCallee(d)' => ToCallee(d))
      /\ Clean(up'[d], AnswersOf(d), OldMessages(c)) /\ (Back(d)' => Back(d))
      /\ Clean(down'[c], AnswersOf(d), OldMessages(c)) /\ (ToCaller(c, d)' => ToCaller(c, d))
  BY <1>1, IdleClean DEF Round, OneEach, ToServer, ToCallee, Back, ToCaller, Commands, AnswersOf
<1>4. Clean(m_Responses'[c], KeptOf(d), OldAnswers(c)) /\ (Known(c, d)' <=> Known(c, d))
  <2>1. CASE m_Responses'[c] = m_Responses[c]
    BY <2>1 DEF Round, OneEach, Known, KeptOf
  <2>2. ASSUME NEW a \in Answer \ KeptOf(d), m_Responses'[c] = Append(m_Responses[c], a)
        PROVE  Clean(m_Responses'[c], KeptOf(d), OldAnswers(c)) /\ (Known(c, d)' <=> Known(c, d))
    BY <1>1, <2>2, AppendHas, AppendClean DEF Round, OneEach, Known, KeptOf
  <2> QED
    BY <2>1, <2>2
<1>5. OneEach(c, d)'
  BY <1>2, <1>3, <1>4 DEF OneEach, Commands, AnswersOf, KeptOf
<1> QED
  BY <1>3, <1>4, <1>5 DEF Round, AtOneStation

\* The types of the queues of a round.
LEMMA RoundTypes ==
  ASSUME TInv, NEW c \in Caller, NEW d \in Client
  PROVE  /\ c \in Client
         /\ up[c] \in Seq(Numbered) /\ up[d] \in Seq(Numbered)
         /\ down[c] \in Seq(Numbered) /\ down[d] \in Seq(Numbered)
         /\ m_Responses[c] \in Seq(Answer)
BY DEF TInv, TypeOK, Queues, Client

\* A message that is relayed is of no interest, or does not go there.
LEMMA SentIdle ==
  ASSUME TInv, NEW to, NEW m \in Numbered, Sent(to, m), NEW f \in Client, NEW S,
         f \in to => m \notin S
  PROVE  Idle(down[f], down'[f], S)
BY SentTypes DEF Idle

\* The request goes out.
LEMMA RoundBegins ==
  ASSUME TInv, NEW c \in Caller, NEW d \in Client \ {c}, Round(c, d), d \in m_List[c], CallMethod(c)
  PROVE  Round(c, d)'
<1> DEFINE m == Msg("Command", c, calls', {})
<1>1. c \in Client /\ calls' \in 1..MaxCalls /\ call'[c] = calls' /\ call[c] = 0 /\ d \in m_Lists'[c]
  BY RpcAssumption DEF CallMethod, TInv, TypeOK, Client
<1>2. m \in Numbered /\ m \in Commands /\ m \notin OldMessages(c)'
  BY <1>1, MsgTypes DEF Msg, Numbered, Commands, OldMessages
<1>3. Goes(c, m)
  BY DEF CallMethod
<1> HIDE DEF m, Numbered, Message, Answer, OldMessages, OldAnswers, Commands, AnswersOf, KeptOf
<1>4. up'[c] = Append(up[c], m) /\ up'[d] = up[d]
  BY <1>1, <1>2, <1>3, GoesTypes
<1>5. UNCHANGED <<down, m_Responses>>
  BY DEF CallMethod
<1>6. ~ToServer(c) /\ ~ToCallee(d) /\ ~Back(d) /\ ~ToCaller(c, d) /\ ~Known(c, d)
  BY <1>1 DEF Round
<1>7. Clean(up[c], Commands, OldMessages(c)')
  BY <1>6, NoneClean DEF ToServer
<1>8. up[c] \in Seq(Numbered)
  BY RoundTypes
<1>9. Clean(up'[c], Commands, OldMessages(c)')
  BY <1>2, <1>4, <1>6, <1>7, <1>8, AppendClean DEF ToServer
<1>10. ~ToCallee(d)' /\ ~Back(d)' /\ ~ToCaller(c, d)' /\ ~Known(c, d)'
  BY <1>4, <1>5, <1>6 DEF ToCallee, Back, ToCaller, Known, Commands, AnswersOf, KeptOf
<1>11. OneEach(c, d)'
  BY <1>9, <1>10, NoneClean DEF OneEach, ToCallee, Back, ToCaller, Known, Commands, AnswersOf, KeptOf
<1>12. call'[c] # 0
  BY <1>1
<1> QED
  BY <1>1, <1>10, <1>11, <1>12 DEF Round, AtOneStation

\* The server passes it on, to d as well or not; the caller may get it back.
LEMMA RequestRelayed ==
  ASSUME TInv, NEW c \in Caller, NEW d \in Client \ {c}, Round(c, d), d \in there, RelayCommand(c)
  PROVE  Round(c, d)'
<1> DEFINE m == Head(up[c])
<1>1. c \in Client /\ up[c] \in Seq(Numbered) /\ down[d] \in Seq(Numbered)
      /\ down[c] \in Seq(Numbered)
  BY RoundTypes
<1>2. /\ up[c] # << >> /\ m \in Numbered /\ m \in Commands /\ m \notin AnswersOf(d)
      /\ up'[c] = Tail(up[c]) /\ up'[d] = up[d]
  BY <1>1, TakenTypes DEF RelayCommand, Commands, AnswersOf
<1>3. PICK left \in LeftOut(c) : Sent(there \ left, m)
  BY DEF RelayCommand
<1>4. UNCHANGED <<call, m_Lists, m_Responses>>
  BY DEF RelayCommand, callVars
<1>5. OldMessages(c)' = OldMessages(c) /\ OldAnswers(c)' = OldAnswers(c)
  BY <1>4, OldStay
<1> HIDE DEF m, Numbered, Message, Answer, OldMessages, OldAnswers, Commands, AnswersOf, KeptOf
<1>6. Idle(down[c], down'[c], AnswersOf(d)) /\ Idle(up[d], up'[d], AnswersOf(d))
      /\ Idle(up[c], up'[c], Commands)
  BY <1>1, <1>2, <1>3, SentIdle DEF Idle, m
<1>7. CASE d \in left
  <2>1. down'[d] = down[d]
    BY <1>2, <1>3, <1>7, SentTypes
  <2>2. Idle(down[d], down'[d], Commands)
    BY <2>1 DEF Idle
  <2>3. m_Responses'[c] = m_Responses[c] /\ call'[c] = call[c] /\ m_Lists'[c] = m_Lists[c]
    BY <1>4
  <2> QED
    BY <1>6, <2>2, <2>3, QuietStep
<1>8. CASE d \notin left
  <2>1. down'[d] = Append(down[d], m)
    BY <1>1, <1>2, <1>3, <1>8, SentTypes
  <2>2. ToServer(c) /\ ~Has(up'[c], Commands) /\ m \notin OldMessages(c) /\ Clean(up'[c], Commands, OldMessages(c))
    BY <1>1, <1>2, TailHas, TailClean DEF Round, OneEach, ToServer, m
  <2>3. Clean(down'[d], Commands, OldMessages(c))
    BY <1>1, <1>2, <2>1, <2>2, AppendClean DEF Round, OneEach, AtOneStation, ToCallee
  <2>4. Clean(down'[c], AnswersOf(d), OldMessages(c)) /\ ~Has(down'[c], AnswersOf(d))
    BY <1>1, <1>6, <2>2, IdleClean DEF Round, OneEach, AtOneStation, ToCaller
  <2>5. ~ToServer(c)' /\ ~Back(d)' /\ ~ToCaller(c, d)' /\ ~Known(c, d)'
    BY <1>2, <1>4, <2>2, <2>4 DEF Round, AtOneStation, ToServer, Back, ToCaller, Known, Commands, AnswersOf, KeptOf
  <2>6. OneEach(c, d)'
    BY <1>2, <1>4, <1>5, <2>2, <2>3, <2>4 DEF Round, OneEach, Commands, AnswersOf, KeptOf
  <2>7. d \in m_Lists[c] /\ call[c] # 0
    BY <2>2 DEF Round, AtOneStation
  <2> QED
    BY <1>4, <2>5, <2>6, <2>7 DEF Round, AtOneStation
<1> QED
  BY <1>7, <1>8

\* It is answered.
LEMMA RequestAnswered ==
  ASSUME TInv, NEW c \in Caller, NEW d \in Client \ {c}, Round(c, d), OnCommand(d)
  PROVE  Round(c, d)'
<1> DEFINE m == Head(down[d])
           r == Msg("Response", d, m.call, {})
<1>1. c \in Client /\ up[d] \in Seq(Numbered) /\ down[d] \in Seq(Numbered)
  BY RoundTypes
<1>2. /\ down[d] # << >> /\ m \in Numbered /\ m \in Commands /\ m \in Message
      /\ down'[d] = Tail(down[d]) /\ down'[c] = down[c]
  BY <1>1, HandledTypes DEF OnCommand, Commands
<1>3. r \in Numbered /\ r \in AnswersOf(d) /\ (m \notin OldMessages(c) => r \notin OldMessages(c))
  <2>1. m.call \in 1..MaxCalls
    BY <1>2 DEF Numbered, Commands
  <2>2. r \in Numbered /\ r \in Message /\ r.type = "Response" /\ r.from = d /\ r.call = m.call
    BY <2>1, MsgTypes DEF Msg, Numbered
  <2> QED
    BY <1>2, <2>2 DEF AnswersOf, OldMessages
<1>4. Goes(d, r)
  BY DEF OnCommand
<1> HIDE DEF r, Numbered, Message, Answer, OldMessages, OldAnswers, Commands, AnswersOf, KeptOf
<1>5. up'[d] = Append(up[d], r) /\ up'[c] = up[c]
  BY <1>1, <1>3, <1>4, GoesTypes
<1>6. UNCHANGED <<call, m_Lists, m_Responses>>
  BY DEF OnCommand, callVars
<1>7. OldMessages(c)' = OldMessages(c) /\ OldAnswers(c)' = OldAnswers(c)
  BY <1>6, OldStay
<1>8. ToCallee(d) /\ ~Has(down'[d], Commands) /\ m \notin OldMessages(c) /\ Clean(down'[d], Commands, OldMessages(c))
  BY <1>1, <1>2, TailHas, TailClean DEF Round, OneEach, ToCallee
<1>9. Clean(up'[d], AnswersOf(d), OldMessages(c))
  BY <1>1, <1>3, <1>5, <1>8, AppendClean DEF Round, OneEach, AtOneStation, Back
<1>10. ~ToServer(c)' /\ ~ToCallee(d)' /\ ~ToCaller(c, d)' /\ ~Known(c, d)'
  BY <1>2, <1>5, <1>6, <1>8
  DEF Round, AtOneStation, ToServer, ToCallee, ToCaller, Known, Commands, AnswersOf, KeptOf
<1>11. OneEach(c, d)'
  BY <1>2, <1>5, <1>6, <1>7, <1>8, <1>9 DEF Round, OneEach, Commands, AnswersOf, KeptOf
<1>12. d \in m_Lists[c] /\ call[c] # 0
  BY <1>8 DEF Round, AtOneStation
<1> QED
  BY <1>6, <1>10, <1>11, <1>12 DEF Round, AtOneStation

\* The server passes the answer on, to the caller as well or not; who has answered may
\* get it back.
LEMMA AnswerRelayed ==
  ASSUME TInv, NEW c \in Caller, NEW d \in Client \ {c}, Round(c, d), c \in there, UpPhase(d),
         RelayResponse(d)
  PROVE  Round(c, d)'
<1> DEFINE m == Head(up[d])
<1>1. c \in Client /\ up[d] \in Seq(Numbered) /\ down[c] \in Seq(Numbered)
      /\ down[d] \in Seq(Numbered)
  BY RoundTypes
<1>2. /\ up[d] # << >> /\ m \in Numbered /\ m \in AnswersOf(d) /\ m \notin Commands
      /\ up'[d] = Tail(up[d]) /\ up'[c] = up[c]
  BY <1>1, TakenTypes, HeadUp DEF RelayResponse, AnswersOf, Commands
<1>3. PICK left \in LeftOut(d) : Sent((there \ left) \cap Caller, m)
  BY DEF RelayResponse
<1>4. UNCHANGED <<call, m_Lists, m_Responses>>
  BY DEF RelayResponse, callVars
<1>5. OldMessages(c)' = OldMessages(c) /\ OldAnswers(c)' = OldAnswers(c)
  BY <1>4, OldStay
<1> HIDE DEF m, Numbered, Message, Answer, OldMessages, OldAnswers, Commands, AnswersOf, KeptOf
<1>6. Idle(down[d], down'[d], Commands) /\ Idle(up[c], up'[c], Commands)
      /\ Idle(up[d], up'[d], AnswersOf(d))
  BY <1>1, <1>2, <1>3, SentIdle DEF Idle, m
<1>7. CASE c \in left
  <2>1. down'[c] = down[c]
    BY <1>1, <1>2, <1>3, <1>7, SentTypes
  <2>2. Idle(down[c], down'[c], AnswersOf(d))
    BY <2>1 DEF Idle
  <2>3. m_Responses'[c] = m_Responses[c] /\ call'[c] = call[c] /\ m_Lists'[c] = m_Lists[c]
    BY <1>4
  <2> QED
    BY <1>6, <2>2, <2>3, QuietStep
<1>8. CASE c \notin left
  <2>1. down'[c] = Append(down[c], m)
    BY <1>1, <1>2, <1>3, <1>8, SentTypes
  <2>2. Back(d) /\ ~Has(up'[d], AnswersOf(d)) /\ m \notin OldMessages(c) /\ Clean(up'[d], AnswersOf(d), OldMessages(c))
    BY <1>1, <1>2, TailHas, TailClean DEF Round, OneEach, Back, m
  <2>3. Clean(down'[c], AnswersOf(d), OldMessages(c))
    BY <1>1, <1>2, <2>1, <2>2, AppendClean DEF Round, OneEach, AtOneStation, ToCaller
  <2>4. Clean(down'[d], Commands, OldMessages(c)) /\ ~Has(down'[d], Commands)
    BY <1>1, <1>6, <2>2, IdleClean DEF Round, OneEach, AtOneStation, ToCallee
  <2>5. ~ToServer(c)' /\ ~ToCallee(d)' /\ ~Back(d)' /\ ~Known(c, d)'
    BY <1>2, <1>4, <2>2, <2>4 DEF Round, AtOneStation, ToServer, ToCallee, Back, Known, Commands, AnswersOf, KeptOf
  <2>6. OneEach(c, d)'
    BY <1>2, <1>4, <1>5, <2>2, <2>3, <2>4 DEF Round, OneEach, Commands, AnswersOf, KeptOf
  <2>7. d \in m_Lists[c] /\ call[c] # 0
    BY <2>2 DEF Round, AtOneStation
  <2> QED
    BY <1>4, <2>5, <2>6, <2>7 DEF Round, AtOneStation
<1> QED
  BY <1>7, <1>8

\* The caller keeps it.
LEMMA AnswerKept ==
  ASSUME TInv, NEW c \in Caller, NEW d \in Client \ {c}, Round(c, d),
         OnResponse(c), Head(down[c]).from = d
  PROVE  Round(c, d)'
<1> DEFINE m == Head(down[c])
           a == <<m.from, m.call>>
<1>1. c \in Client /\ down[c] \in Seq(Numbered) /\ m_Responses[c] \in Seq(Answer)
  BY RoundTypes
<1>2. /\ down[c] # << >> /\ m \in Numbered /\ m \in Message /\ m \in AnswersOf(d)
      /\ down'[c] = Tail(down[c]) /\ down'[d] = down[d]
  BY <1>1, HandledTypes DEF OnResponse, AnswersOf
<1>3. a \in Answer /\ a \in KeptOf(d) /\ (m \notin OldMessages(c) => a \notin OldAnswers(c))
  BY <1>2 DEF Numbered, AnswersOf, Answer, Answering, KeptOf, OldMessages, OldAnswers
<1>4. m_Responses'[c] = Append(m_Responses[c], a)
  BY DEF OnResponse, TInv, TypeOK
<1>5. UNCHANGED <<call, m_Lists, up>>
  BY DEF OnResponse
<1>6. OldMessages(c)' = OldMessages(c) /\ OldAnswers(c)' = OldAnswers(c)
  BY <1>5, OldStay
<1> HIDE DEF a, Numbered, Message, Answer, OldMessages, OldAnswers, Commands, AnswersOf, KeptOf
<1>7. /\ ToCaller(c, d) /\ ~Has(down'[c], AnswersOf(d)) /\ m \notin OldMessages(c)
      /\ Clean(down'[c], AnswersOf(d), OldMessages(c))
  BY <1>1, <1>2, TailHas, TailClean DEF Round, OneEach, ToCaller
<1>8. Clean(m_Responses'[c], KeptOf(d), OldAnswers(c)) /\ Known(c, d)'
  BY <1>1, <1>3, <1>4, <1>7, AppendHas, AppendClean DEF Round, OneEach, AtOneStation, Known, KeptOf
<1>9. ~ToServer(c)' /\ ~ToCallee(d)' /\ ~Back(d)' /\ ~ToCaller(c, d)'
  BY <1>2, <1>5, <1>7 DEF Round, AtOneStation, ToServer, ToCallee, Back, ToCaller, Commands, AnswersOf
<1>10. OneEach(c, d)'
  BY <1>2, <1>5, <1>6, <1>7, <1>8 DEF Round, OneEach, Commands, AnswersOf, KeptOf
<1>11. call[c] # 0
  BY <1>7 DEF Round
<1> QED
  BY <1>5, <1>8, <1>9, <1>10, <1>11 DEF Round, AtOneStation

\* The call returns.
LEMMA RoundEnds ==
  ASSUME TInv, NEW c \in Caller, NEW d \in Client \ {c}, Round(c, d), Return(c)
  PROVE  Round(c, d)'
<1>1. Known(c, d) /\ call'[c] = 0 /\ m_Responses'[c] = << >> /\ UNCHANGED <<up, down>>
  BY DEF Round, Return, TInv, TypeOK
<1> HIDE DEF Commands, AnswersOf, KeptOf, OldMessages, OldAnswers
<1>2. ~ToServer(c)' /\ ~ToCallee(d)' /\ ~Back(d)' /\ ~ToCaller(c, d)'
  BY <1>1 DEF Round, AtOneStation, ToServer, ToCallee, Back, ToCaller, Commands, AnswersOf
<1>3. ~Known(c, d)'
  BY <1>1 DEF Known, Has
<1>4. OneEach(c, d)'
  BY <1>2, <1>3, NoneClean DEF OneEach, ToServer, ToCallee, Back, ToCaller, Known
<1> QED
  BY <1>1, <1>2, <1>3, <1>4 DEF Round, AtOneStation

\* The server takes from the queue of one client only.
LEMMA TakesIdle ==
  ASSUME TInv, NEW e \in Client, NEW type, Takes(e, type), NEW f \in Client, NEW S
  PROVE  Idle(up[f], up'[f], S)
BY TakenTypes DEF Idle

\* A callback thread takes from its own client's queue only.
LEMMA HandlesIdle ==
  ASSUME TInv, NEW e \in Client, NEW type, Handles(e, type), NEW f \in Client, NEW S
  PROVE  Idle(down[f], down'[f], S)
BY HandledTypes DEF Idle

\* A message that is sent is of no interest, or goes elsewhere.
LEMMA GoesIdle ==
  ASSUME TInv, NEW e \in Client, NEW m \in Numbered, Goes(e, m), NEW f \in Client, NEW S,
         f = e => m \notin S
  PROVE  Idle(up[f], up'[f], S)
BY GoesTypes DEF Idle

RoundInv == TInv /\ Truthful /\ (~Mistaken => Present /\ Rounds)

\* Every step keeps the round of a controller that alone has called with whoever stays.
LEMMA RoundStep ==
  ASSUME RoundInv, ~Mistaken', [Next]_vars, NEW c \in Caller, Alone(c)', NEW d \in Staying' \ {c}
  PROVE  Round(c, d)'
<1> USE DEF callVars
<1>1. /\ TInv /\ Alone(c) /\ d \in Staying \ {c} /\ d \in Client \ {c} /\ c \in Client
      /\ d \notin gone' /\ d \notin gone
      /\ Truthful /\ Present /\ Rounds
  BY History DEF RoundInv, Alone, Staying, Client
<1>2. /\ Round(c, d) /\ UpPhase(d) /\ UpPhase(c) /\ DownPhase(c) /\ DownPhase(d)
      /\ d \in there /\ d \in m_List[c] /\ ListPhase(c)
  BY <1>1 DEF Rounds, Truthful, Present, ListPhase
<1>3. c \in there
  BY <1>1, RpcAssumption DEF Truthful, Present, Staying, Client
<1>4. \A e \in Caller : HasCalled(e)' => e = c
  BY DEF Alone
<1>5. \A s, S : Idle(s, s, S)
  BY DEF Idle
<1>6. CASE UNCHANGED <<up, down, m_Responses, call, m_Lists>>
  BY <1>1, <1>2, <1>5, <1>6, QuietStep
<1>7. ASSUME NEW e \in Caller, CallMethod(e) PROVE Round(c, d)'
  <2>1. HasCalled(e)'
    BY <1>7, RpcAssumption DEF CallMethod, HasCalled, RoundInv, TInv, TypeOK
  <2> QED
    BY <1>1, <1>2, <1>4, <1>7, <2>1, RoundBegins
<1>8. ASSUME NEW e \in Caller, Suppress(e) PROVE Round(c, d)'
  <2>1. d \notin m_Lists'[c] => d \notin m_Lists[c] \/ Known(c, d)
    <3>1. CASE e = c /\ d \in m_Lists[c] /\ d \notin m_Lists'[c]
      <4>1. PICK i \in 1..Len(m_Responses[c]) : m_Responses[c][i][1] = d
        BY <1>1, <1>8, <3>1 DEF Suppress, TInv, TypeOK
      <4>2. m_Responses[c][i] \in KeptOf(d)
        BY <1>1, <4>1 DEF TInv, TypeOK, Answer, KeptOf
      <4> QED
        BY <4>1, <4>2 DEF Known, Has
    <3>2. CASE e # c
      BY <1>1, <1>8, <3>2 DEF Suppress, TInv, TypeOK
    <3> QED
      BY <3>1, <3>2
  <2>2. UNCHANGED <<up, down, m_Responses, call>>
    BY <1>8 DEF Suppress
  <2> QED
    BY <1>1, <1>2, <1>5, <2>1, <2>2, QuietStep
<1>9. ASSUME NEW e \in Caller, Return(e) PROVE Round(c, d)'
  <2>1. HasCalled(e)'
    BY <1>9, History DEF Return, HasCalled, RoundInv
  <2> QED
    BY <1>1, <1>2, <1>4, <1>9, <2>1, RoundEnds
<1>10. ASSUME NEW e \in Client, RelayCommand(e) PROVE Round(c, d)'
  <2>1. e \in Caller /\ HasCalled(e)'
    BY <1>1, <1>10, HeadUp, History DEF RelayCommand, Truthful
  <2> QED
    BY <1>1, <1>2, <1>4, <1>10, <2>1, RequestRelayed
<1>11. ASSUME NEW a \in answering, ServerAnswers(a) PROVE Round(c, d)'
  <2> DEFINE m == Msg("Response", "Server", a.call, {})
  <2>1. m \in Numbered /\ m.type = "Response" /\ m.from = "Server"
    BY MsgTypes DEF Msg, RoundInv, TInv, TypeOK
  <2>2. m \notin Commands /\ m \notin AnswersOf(d)
    BY <1>1, <2>1, RpcAssumption DEF Commands, AnswersOf
  <2>3. Sent({a.from} \cap there, m) /\ UNCHANGED <<up, call, m_Lists, m_Responses>>
    BY <1>11 DEF ServerAnswers
  <2> HIDE DEF m
  <2>4. Idle(down[d], down'[d], Commands) /\ Idle(down[c], down'[c], AnswersOf(d))
    BY <1>1, <2>1, <2>2, <2>3, SentIdle
  <2> QED
    BY <1>1, <1>2, <1>5, <2>3, <2>4, QuietStep
<1>12. ASSUME NEW e \in Client, RelayResponse(e) PROVE Round(c, d)'
  <2>1. CASE e = d
    BY <1>1, <1>2, <1>3, <1>12, <2>1, AnswerRelayed
  <2>2. CASE e # d
    <3> DEFINE m == Head(up[e])
    <3>1. m \in Numbered /\ m.type = "Response" /\ m.from = e
      BY <1>1, <1>12, HeadUp DEF RelayResponse, Truthful
    <3>2. m \notin Commands /\ m \notin AnswersOf(d)
      BY <2>2, <3>1 DEF Commands, AnswersOf
    <3>3. PICK to : Sent(to, m) /\ Takes(e, "Response") /\ UNCHANGED <<call, m_Lists, m_Responses>>
      BY <1>12 DEF RelayResponse
    <3> HIDE DEF m
    <3>4. Idle(down[d], down'[d], Commands) /\ Idle(down[c], down'[c], AnswersOf(d))
      BY <1>1, <3>1, <3>2, <3>3, SentIdle
    <3>5. Idle(up[c], up'[c], Commands) /\ Idle(up[d], up'[d], AnswersOf(d))
      BY <1>1, <3>3, TakesIdle
    <3> QED
      BY <1>1, <1>2, <3>3, <3>4, <3>5, QuietStep
  <2> QED
    BY <2>1, <2>2
<1>13. ASSUME NEW e \in Client, Unregisters(e) PROVE Round(c, d)'
  <2>1. PICK from \in named[e] \cap there, erased \in named[e] \cap there, left \in LeftOut(e) :
          Departure(e, from, erased, left)
    BY <1>13 DEF Unregisters
  <2> DEFINE m == Msg("Close", from, 0, {})
  <2>2. m \in Numbered /\ m.type = "Close"
    BY <1>1, <2>1, MsgTypes DEF Msg, TInv, TypeOK
  <2>3. m \notin Commands /\ m \notin AnswersOf(d)
    BY <2>2 DEF Commands, AnswersOf
  <2>4. PICK to : Sent(to, m) /\ Takes(e, "Close") /\ UNCHANGED <<call, m_Lists, m_Responses>>
    BY <1>13, <2>1 DEF Unregisters, Departure
  <2> HIDE DEF m
  <2>5. Idle(down[d], down'[d], Commands) /\ Idle(down[c], down'[c], AnswersOf(d))
    BY <1>1, <2>2, <2>3, <2>4, SentIdle
  <2>6. Idle(up[c], up'[c], Commands) /\ Idle(up[d], up'[d], AnswersOf(d))
    BY <1>1, <2>4, TakesIdle
  <2> QED
    BY <1>1, <1>2, <2>4, <2>5, <2>6, QuietStep
<1>14. ASSUME NEW e \in Client, Registers(e) PROVE Round(c, d)'
  <2> DEFINE m == Msg("Open", e, 0, there')
  <2>1. there' \in SUBSET Client
    BY <1>1, <1>14 DEF Registers, TInv, TypeOK
  <2>2. m \in Numbered /\ m.type = "Open"
    BY <2>1, MsgTypes DEF Msg
  <2>3. m \notin Commands /\ m \notin AnswersOf(d)
    BY <2>2 DEF Commands, AnswersOf
  <2>4. PICK to : Sent(to, m) /\ Takes(e, "Open") /\ UNCHANGED <<call, m_Lists, m_Responses>>
    BY <1>14 DEF Registers
  <2> HIDE DEF m
  <2>5. Idle(down[d], down'[d], Commands) /\ Idle(down[c], down'[c], AnswersOf(d))
    BY <1>1, <2>2, <2>3, <2>4, SentIdle
  <2>6. Idle(up[c], up'[c], Commands) /\ Idle(up[d], up'[d], AnswersOf(d))
    BY <1>1, <2>4, TakesIdle
  <2> QED
    BY <1>1, <1>2, <2>4, <2>5, <2>6, QuietStep
<1>15. ASSUME NEW e \in Client, OnCommand(e) PROVE Round(c, d)'
  <2>1. CASE e = d
    BY <1>1, <1>2, <1>15, <2>1, RequestAnswered
  <2>2. CASE e # d
    <3> DEFINE m == Msg("Response", e, Head(down[e]).call, {})
    <3>1. Head(down[e]) \in Numbered /\ Head(down[e]).type = "Command"
      BY <1>1, <1>15, HandledTypes DEF OnCommand
    <3>2. m \in Numbered /\ m.type = "Response"
      BY <3>1, MsgTypes DEF Msg, Numbered
    <3>3. m \notin Commands
      BY <3>2 DEF Commands
    <3>4. Goes(e, m) /\ Handles(e, "Command") /\ UNCHANGED <<call, m_Lists, m_Responses>>
      BY <1>15 DEF OnCommand
    <3> HIDE DEF m
    <3>5. Idle(up[c], up'[c], Commands) /\ Idle(up[d], up'[d], AnswersOf(d))
      BY <1>1, <2>2, <3>2, <3>3, <3>4, GoesIdle
    <3>6. Idle(down[d], down'[d], Commands) /\ Idle(down[c], down'[c], AnswersOf(d))
      BY <1>1, <3>4, HandlesIdle
    <3> QED
      BY <1>1, <1>2, <3>4, <3>5, <3>6, QuietStep
  <2> QED
    BY <2>1, <2>2
<1>16. ASSUME NEW e \in Client, OnResponse(e) PROVE Round(c, d)'
  <2>1. CASE e = c /\ Head(down[c]).from = d
    BY <1>1, <1>2, <1>16, <2>1, AnswerKept
  <2>2. CASE ~(e = c /\ Head(down[c]).from = d)
    <3>1. Head(down[e]) \in Numbered /\ Head(down[e]).type = "Response"
      BY <1>1, <1>16, HandledTypes DEF OnResponse
    <3>2. <<Head(down[e]).from, Head(down[e]).call>> \in Answer
      BY <3>1 DEF Numbered, Message, Answer
    <3>3. Handles(e, "Response") /\ UNCHANGED <<up, call, m_Lists>>
      BY <1>16 DEF OnResponse
    <3>4. \/ m_Responses'[c] = m_Responses[c]
          \/ \E a \in Answer \ KeptOf(d) : m_Responses'[c] = Append(m_Responses[c], a)
      <4>1. CASE e = c
        <5>1. m_Responses'[c] = Append(m_Responses[c], <<Head(down[c]).from, Head(down[c]).call>>)
          BY <1>1, <1>16, <4>1 DEF OnResponse, TInv, TypeOK
        <5>2. <<Head(down[c]).from, Head(down[c]).call>> \notin KeptOf(d)
          BY <2>2, <4>1 DEF KeptOf
        <5> QED
          BY <3>2, <4>1, <5>1, <5>2
      <4>2. CASE e # c
        BY <1>1, <1>16, <4>2 DEF OnResponse, TInv, TypeOK
      <4> QED
        BY <4>1, <4>2
    <3>5. Idle(down[d], down'[d], Commands) /\ Idle(down[c], down'[c], AnswersOf(d))
      BY <1>1, <3>3, HandlesIdle
    <3> QED
      BY <1>1, <1>2, <1>5, <3>3, <3>4, <3>5, QuietStep
  <2> QED
    BY <2>1, <2>2
<1>17. ASSUME NEW e \in Client, OnOpen(e) PROVE Round(c, d)'
  <2>1. Handles(e, "Open") /\ UNCHANGED <<up, call, m_Lists, m_Responses>>
    BY <1>17 DEF OnOpen
  <2>2. Idle(down[d], down'[d], Commands) /\ Idle(down[c], down'[c], AnswersOf(d))
    BY <1>1, <2>1, HandlesIdle
  <2> QED
    BY <1>1, <1>2, <1>5, <2>1, <2>2, QuietStep
<1>18. ASSUME NEW e \in Client, OnClose(e) PROVE Round(c, d)'
  <2>1. Handles(e, "Close") /\ UNCHANGED <<up, call, m_Responses>>
    BY <1>18 DEF OnClose
  <2>2. Head(down[e]).from \in gone
    BY <1>1, <2>1, HeadDown DEF Present
  <2>3. d \notin m_Lists'[c] => d \notin m_Lists[c]
    BY <1>1, <1>18, <2>2 DEF OnClose, TInv, TypeOK
  <2>4. Idle(down[d], down'[d], Commands) /\ Idle(down[c], down'[c], AnswersOf(d))
    BY <1>1, <2>1, HandlesIdle
  <2> QED
    BY <1>1, <1>2, <1>5, <2>1, <2>3, <2>4, QuietStep
<1>19. ASSUME NEW e \in Client, Leave(e) PROVE Round(c, d)'
  <2>1. e # d /\ e # c
    BY <1>1, <1>19, RpcAssumption DEF Leave
  <2>2. up'[c] = up[c] /\ up'[d] = up[d] /\ down'[c] = down[c] /\ down'[d] = down[d]
    BY <1>1, <1>19, <2>1 DEF Leave, TInv, TypeOK
  <2>3. UNCHANGED <<call, m_Lists, m_Responses>>
    BY <1>19 DEF Leave
  <2> QED
    BY <1>1, <1>2, <1>5, <2>2, <2>3, QuietStep
<1>20. ASSUME NEW e \in Client, Connect(e) PROVE Round(c, d)'
  <2> DEFINE m == Msg("Open", e, 0, {})
  <2>1. m \in Numbered /\ m.type = "Open"
    BY MsgTypes DEF Msg
  <2>2. m \notin Commands /\ m \notin AnswersOf(d)
    BY <2>1 DEF Commands, AnswersOf
  <2>3. Goes(e, m) /\ UNCHANGED <<down, call, m_Lists, m_Responses>>
    BY <1>20 DEF Connect
  <2> HIDE DEF m
  <2>4. Idle(up[c], up'[c], Commands) /\ Idle(up[d], up'[d], AnswersOf(d))
    BY <1>1, <2>1, <2>2, <2>3, GoesIdle
  <2> QED
    BY <1>1, <1>2, <1>5, <2>3, <2>4, QuietStep
<1>21. ASSUME NEW e \in Client, Callback(e) \/ Lookup(e) PROVE Round(c, d)'
  BY <1>6, <1>21 DEF Callback, Lookup
<1>22. CASE UNCHANGED vars
  BY <1>6, <1>22 DEF vars
<1> QED
  BY <1>7, <1>8, <1>9, <1>10, <1>11, <1>12, <1>13, <1>14, <1>15, <1>16, <1>17, <1>18, <1>19, <1>20,
     <1>21, <1>22
  DEF Next, CallerStep, ServerStep, ClientStep

\* At first nothing is on its way.
LEMMA RoundInit == Init => Rounds
<1> SUFFICES ASSUME Init, NEW c \in Caller, NEW d \in Staying \ {c} PROVE Round(c, d)
  BY DEF Rounds
<1>1. \A S : ~Has(<< >>, S)
  BY DEF Has
<1>2. ~ToServer(c) /\ ~ToCallee(d) /\ ~Back(d) /\ ~ToCaller(c, d) /\ ~Known(c, d)
  BY <1>1 DEF Init, ToServer, ToCallee, Back, ToCaller, Known, Client, Staying
<1>3. OneEach(c, d)
  BY <1>2, NoneClean DEF OneEach, ToServer, ToCallee, Back, ToCaller, Known
<1> QED
  BY <1>2, <1>3 DEF Init, Round, AtOneStation

\* No request and no answer of a call is left over for the next, between the only
\* controller that calls and whoever stays.
THEOREM RoundInvariance == Spec => []RoundInv
<1>1. Init => RoundInv
  BY TypeInit, PresentInit, RoundInit DEF RoundInv
<1>2. RoundInv /\ [Next]_vars => RoundInv'
  BY TypeStep, UpStep, PresentStep, RoundStep, History DEF RoundInv, Rounds
<1> QED
  BY <1>1, <1>2, PTL DEF Spec

-----------------------------------------------------------------------------
(* The result. *)

\* What a call returns has the last answer of whoever has answered once.
LEMMA ReturnHasAnswer ==
  ASSUME TInv, NEW c \in Caller, NEW d \in Client \ {c}, Round(c, d), Return(c)
  PROVE  OwnName(d) => <<d, <<d, call[c]>>>> \in Collapse(m_Responses[c])
<1>1. m_Responses[c] \in Seq(Answer) /\ Known(c, d)
  BY DEF TInv, TypeOK, Round, Return
<1>2. PICK i \in 1..Len(m_Responses[c]) : m_Responses[c][i] \in KeptOf(d)
  BY <1>1 DEF Known, Has
<1>3. m_Responses[c][i] \notin OldAnswers(c) /\ m_Responses[c][i] \in Answer
  BY <1>1, <1>2 DEF Round, OneEach, Clean, Has
<1>4. m_Responses[c][i] = <<d, call[c]>>
  BY <1>2, <1>3 DEF KeptOf, OldAnswers
<1> DEFINE same(j, k) == getName[m_Responses[c][j][1]] = getName[m_Responses[c][k][1]]
<1>5. ASSUME OwnName(d), NEW j \in 1..Len(m_Responses[c]), same(j, i) PROVE j = i
  <2>1. m_Responses[c][j] \in Answer
    BY <1>1
  <2>2. m_Responses[c][j][1] = d
    BY <1>4, <1>5, <2>1 DEF OwnName, Answer
  <2>3. m_Responses[c][j] \in KeptOf(d)
    BY <2>1, <2>2 DEF Answer, KeptOf
  <2> QED
    BY <1>2, <2>3 DEF Round, OneEach, Clean, AtMostOne
<1>6. SUFFICES ASSUME OwnName(d) PROVE <<d, <<d, call[c]>>>> \in Collapse(m_Responses[c])
  OBVIOUS
<1> DEFINE I == 1..Len(m_Responses[c])
           first == {q \in I \X I : /\ same(q[1], q[2])
                                    /\ \A j \in I : same(j, q[1]) => j \in q[1]..q[2]}
<1>7. <<i, i>> \in first
  <2>1. i \in I /\ i \in Nat /\ i \in i..i
    BY <1>1, <1>2
  <2>2. \A j \in I : same(j, i) => j = i
    BY <1>5, <1>6
  <2> QED
    BY <2>1, <2>2
<1>8. Collapse(m_Responses[c]) = {<<m_Responses[c][p[1]][1], m_Responses[c][p[2]]>> : p \in first}
  BY DEF Collapse
<1> HIDE DEF first
<1>9. <<m_Responses[c][i][1], m_Responses[c][i]>> \in Collapse(m_Responses[c])
  BY <1>7, <1>8
<1> QED
  BY <1>4, <1>9

\* A call of the only controller that calls returns with the answer of each client it
\* has asked, but for those that came late or have ended.
THEOREM EverybodyHasAnswered == Spec => []AllHaveAnswered
<1>1. Init => AllHaveAnswered
  BY DEF Init, AllHaveAnswered, Returned
<1>2. ASSUME RoundInv, AllHaveAnswered, [Next]_vars PROVE AllHaveAnswered'
  <2> SUFFICES ASSUME NEW c \in Caller, Returned(c)', Alone(c)',
                      ~Mistaken',
                      NEW d \in result'[c].asked \ (Late \cup gone'), OwnName(d)
               PROVE  <<d, <<d, result'[c].call>>>> \in result'[c].answers
    BY DEF AllHaveAnswered, Alone, HasCalled, Mistaken
  <2>1. Alone(c) /\ d \notin gone /\ ~Mistaken /\ Present /\ Rounds
    BY <1>2, History DEF Alone, RoundInv
  <2>2. CASE result'[c] = result[c]
    BY <1>2, <2>1, <2>2 DEF AllHaveAnswered, Alone, HasCalled, Returned, Mistaken
  <2>3. CASE Return(c)
    <3>1. result'[c] = [call |-> call[c], asked |-> asked[c], answers |-> Collapse(m_Responses[c])]
      BY <1>2, <2>3 DEF Return, RoundInv, TInv, TypeOK
    <3>2. d \in Staying \ {c} /\ d \in Client \ {c}
      BY <1>2, <2>1, <3>1 DEF RoundInv, Present, ListPhase, Staying, TInv, TypeOK
    <3>3. Round(c, d)
      BY <2>1, <3>2 DEF Rounds
    <3> QED
      BY <1>2, <2>3, <3>1, <3>2, <3>3, ReturnHasAnswer DEF RoundInv
  <2>4. ASSUME NEW e \in Caller, Return(e), e # c PROVE result'[c] = result[c]
    BY <1>2, <2>4 DEF Return, RoundInv, TInv, TypeOK
  <2> QED
    BY <1>2, <2>2, <2>3, <2>4 DEF Next, CallMethod, CallerStep, Suppress, ServerStep,
       RelayCommand, RelayResponse, Unregisters, ServerAnswers, ClientStep, OnCommand, OnResponse,
       OnOpen, OnClose, Registers, Callback, Lookup, Connect, Leave, vars, callVars
<1> QED
  BY RoundInvariance, <1>1, <1>2, PTL DEF Spec

-----------------------------------------------------------------------------
(* One callback at a time. *)

Opens == {m \in Message : m.type = "Open"}

\* A client closes once, and is registered till then; who is neither to come nor gone is
\* registered or about to be.
Registered(d) ==
  /\ Clean(up[d], Closes, {})
  /\ Has(up[d], Closes) => d \in there
  /\ d \in there \cup coming \cup gone \/ Has(up[d], Opens)

Serial ==
  /\ confused = {}
  /\ Caller \subseteq there
  /\ \A a \in answering : a.from \in Caller
  /\ \A d \in Client : Busy(d) => named[d] = {d} /\ m_Client = d
  /\ \A d \in Client : Registered(d)

\* What keeps a client registered.
LEMMA RegisteredKept ==
  ASSUME TInv, NEW d \in Client, Registered(d), d \in there => d \in there',
         d \in coming \cup gone => d \in there' \cup coming' \cup gone' \/ Has(up'[d], Opens),
         \/ up'[d] = up[d]
         \/ \E m \in Numbered \ Closes : up'[d] = Append(up[d], m)
         \/ up[d] # << >> /\ up'[d] = Tail(up[d]) /\ (Head(up[d]) \in Opens => d \in there')
  PROVE  Registered(d)'
<1>1. up[d] \in Seq(Numbered)
  BY DEF TInv, Queues
<1>2. Closes' = Closes /\ Opens' = Opens
  BY DEF Closes, Opens
<1> HIDE DEF Numbered, Closes, Opens
<1>3. CASE up'[d] = up[d]
  BY <1>2, <1>3 DEF Registered
<1>4. ASSUME NEW m \in Numbered \ Closes, up'[d] = Append(up[d], m) PROVE Registered(d)'
  <2>1. Clean(up'[d], Closes, {}) /\ (Has(up'[d], Closes) => Has(up[d], Closes))
    BY <1>1, <1>4, AppendClean, AppendHas DEF Registered
  <2>2. Has(up[d], Opens) => Has(up'[d], Opens)
    BY <1>1, <1>4, AppendHas
  <2> QED
    BY <1>2, <2>1, <2>2 DEF Registered
<1>5. CASE up[d] # << >> /\ up'[d] = Tail(up[d]) /\ (Head(up[d]) \in Opens => d \in there')
  <2>1. Clean(up'[d], Closes, {}) /\ (Has(up'[d], Closes) => Has(up[d], Closes))
    BY <1>1, <1>5, TailClean, TailHas DEF Registered
  <2>2. Has(up[d], Opens) => Has(up'[d], Opens) \/ d \in there'
    BY <1>1, <1>5, TailHas
  <2> QED
    BY <1>2, <2>1, <2>2 DEF Registered
<1> QED
  BY <1>3, <1>4, <1>5

\* What a callback that is alone reads is its own connection.
LEMMA OwnDeparture ==
  ASSUME Serial, NEW d \in Client, Unregisters(d)
  PROVE  there' = there \ {d} /\ confused' = {}
<1>1. named[d] = {d}
  BY DEF Serial, Unregisters, Takes
<1>2. PICK from \in named[d] \cap there, erased \in named[d] \cap there, left \in LeftOut(d) :
        Departure(d, from, erased, left)
  BY DEF Unregisters
<1> QED
  BY <1>1, <1>2 DEF Departure, LeftOut, Serial

\* No step confuses.
LEMMA NotConfused ==
  ASSUME TInv, Truthful, Serial, [Next]_vars
  PROVE  confused' = {}
<1>1. CASE UNCHANGED confused
  BY <1>1 DEF Serial
<1>2. ASSUME NEW d \in Client, RelayCommand(d) \/ RelayResponse(d) PROVE confused' = {}
  <2>1. named[d] = {d}
    BY <1>2 DEF Serial, RelayCommand, RelayResponse, Takes
  <2>2. PICK left \in LeftOut(d) : Confuses(left # {d}, "relay")
    BY <1>2 DEF RelayCommand, RelayResponse
  <2> QED
    BY <2>1, <2>2 DEF LeftOut, Confuses, Serial
<1>3. ASSUME NEW d \in Client, Registers(d) PROVE confused' = {}
  <2>1. named[d] = {d}
    BY <1>3 DEF Serial, Registers, Takes
  <2>2. PICK n \in named[d] \cap there' : Confuses(n # d, "relay")
    BY <1>3 DEF Registers
  <2> QED
    BY <2>1, <2>2 DEF Confuses, Serial
<1>4. ASSUME NEW d \in Client, Unregisters(d) PROVE confused' = {}
  BY <1>4, OwnDeparture
<1>5. ASSUME NEW d \in Client, Lookup(d) PROVE FALSE
  <2>1. m_Client = d /\ d \notin there
    BY <1>5 DEF Lookup, Serial
  <2>2. \A a \in answering : a.from # d
    BY <2>1 DEF Serial
  <2>3. up[d] # << >> /\ Head(up[d]).type = "Close"
    BY <1>5, <2>1, <2>2 DEF Lookup
  <2>4. Head(up[d]) \in Closes /\ up[d] \in Seq(Numbered)
    <3>1. up[d] \in Seq(Numbered)
      BY DEF TInv, Queues
    <3>2. Head(up[d]) \in Numbered
      BY <2>3, <3>1
    <3> QED
      BY <2>3, <3>1, <3>2 DEF Numbered, Closes
  <2>5. Has(up[d], Closes)
    BY <2>3, <2>4, TailHas
  <2> QED
    BY <2>1, <2>5 DEF Serial, Registered
<1> QED
  BY <1>1, <1>2, <1>3, <1>4, <1>5 DEF Next, CallMethod, CallerStep, Suppress, Return, ServerStep,
     Callback, ServerAnswers, ClientStep, OnCommand, OnResponse, OnOpen, OnClose, Connect, Leave,
     vars, threadVars

\* Every callback but one waits.
LEMMA OneBusy ==
  ASSUME TInv, Serial, MaxOverlaps = 0, [Next]_vars
  PROVE  \A d \in Client : Busy(d)' => named'[d] = {d} /\ m_Client' = d
<1> USE DEF callVars, threadVars
<1>1. CASE UNCHANGED <<named, m_Client>>
  BY <1>1 DEF Serial, Busy
<1>2. ASSUME NEW e \in Client, Callback(e)
      PROVE  \A d \in Client : Busy(d)' => named'[d] = {d} /\ m_Client' = d
  <2>1. \A d \in Client : ~Busy(d)
    BY <1>2 DEF Callback, TInv, TypeOK
  <2> QED
    BY <1>2, <2>1 DEF Callback, Busy
<1>3. ASSUME NEW e, Ends(e), UNCHANGED m_Client
      PROVE  \A d \in Client : Busy(d)' => named'[d] = {d} /\ m_Client' = d
  BY <1>3 DEF Ends, Serial, Busy, TInv, TypeOK
<1> QED
  BY <1>1, <1>2, <1>3 DEF Next, CallMethod, CallerStep, Suppress, Return, ServerStep, RelayCommand,
     RelayResponse, Registers, Unregisters, Lookup, ServerAnswers, ClientStep, OnCommand, OnResponse,
     OnOpen, OnClose, Connect, Leave, vars

\* Callers stay registered, and only they are answered by the server.
LEMMA CallersStay ==
  ASSUME TInv, Truthful, Serial, [Next]_vars
  PROVE  Caller \subseteq there' /\ \A a \in answering' : a.from \in Caller
<1> USE DEF callVars
<1>1. CASE UNCHANGED <<there, answering>>
  BY <1>1 DEF Serial
<1>2. ASSUME NEW d \in Client, Unregisters(d)
      PROVE  Caller \subseteq there' /\ \A a \in answering' : a.from \in Caller
  <2>1. d \in gone
    BY <1>2, HeadUp DEF Truthful, Unregisters
  <2> QED
    BY <1>2, <2>1, OwnDeparture, RpcAssumption DEF Serial, Truthful, Unregisters
<1>3. ASSUME NEW d \in Client, RelayCommand(d)
      PROVE  Caller \subseteq there' /\ \A a \in answering' : a.from \in Caller
  <2>1. d \in Caller
    BY <1>3, HeadUp DEF Truthful, RelayCommand
  <2> QED
    BY <1>3, <2>1 DEF Serial, RelayCommand
<1>4. ASSUME NEW d \in Client, Registers(d)
      PROVE  Caller \subseteq there' /\ \A a \in answering' : a.from \in Caller
  BY <1>4 DEF Serial, Registers
<1>5. ASSUME NEW a \in answering, ServerAnswers(a)
      PROVE  Caller \subseteq there' /\ \A b \in answering' : b.from \in Caller
  BY <1>5 DEF Serial, ServerAnswers
<1> QED
  BY <1>1, <1>2, <1>3, <1>4, <1>5 DEF Next, CallMethod, CallerStep, Suppress, Return, ServerStep,
     RelayResponse, Callback, Lookup, ClientStep, OnCommand, OnResponse, OnOpen, OnClose, Connect,
     Leave, vars

\* Every client stays registered until its Close is handled.
LEMMA RegisteredStep ==
  ASSUME TInv, Truthful, Serial, [Next]_vars, NEW d \in Client
  PROVE  Registered(d)'
<1> USE DEF callVars
<1>1. Registered(d) /\ up[d] \in Seq(Numbered) /\ up \in [Client -> Seq(Numbered)]
  BY DEF Serial, TInv, Queues
<1>2. CASE UNCHANGED <<up, there, coming, gone>>
  BY <1>1, <1>2, RegisteredKept
<1>3. ASSUME NEW e \in Client, NEW m \in Numbered \ Closes, Goes(e, m), UNCHANGED <<there, gone>>,
             \/ UNCHANGED coming
             \/ m \in Opens /\ coming' = coming \ {e}
      PROVE  Registered(d)'
  <2>1. up'[d] = up[d] \/ (d = e /\ up'[d] = Append(up[d], m))
    BY <1>3, GoesTypes
  <2>2. d = e /\ m \in Opens => Has(up'[d], Opens)
    <3>1. ASSUME d = e PROVE up'[d] = Append(up[d], m)
      BY <1>3, <3>1, GoesTypes
    <3>2. m \in Numbered
      BY <1>3
    <3> HIDE DEF Numbered
    <3>3. Has(Append(up[d], m), Opens) <=> Has(up[d], Opens) \/ m \in Opens
      BY <1>1, <3>2, AppendHas
    <3> QED
      BY <3>1, <3>3
  <2> HIDE DEF Numbered, Closes, Opens
  <2> QED
    BY <1>1, <1>3, <2>1, <2>2, RegisteredKept
<1>4. ASSUME NEW e \in Client, NEW type, type # "Open", Takes(e, type), UNCHANGED <<there, coming, gone>>
      PROVE  Registered(d)'
  <2>1. up'[d] = up[d] \/ (up[d] # << >> /\ up'[d] = Tail(up[d]) /\ Head(up[d]) \notin Opens)
    BY <1>4, TakenTypes DEF Opens
  <2> QED
    BY <1>1, <1>4, <2>1, RegisteredKept
<1>5. ASSUME NEW e \in Client, Registers(e) PROVE Registered(d)'
  <2>1. /\ there' = there \cup {e} /\ UNCHANGED <<coming, gone>>
        /\ Takes(e, "Open")
    BY <1>5 DEF Registers
  <2>2. up'[d] = up[d] \/ (up[d] # << >> /\ up'[d] = Tail(up[d]) /\ d = e)
    BY <2>1, TakenTypes
  <2> QED
    BY <1>1, <2>1, <2>2, RegisteredKept
<1>6. ASSUME NEW e \in Client, Unregisters(e) PROVE Registered(d)'
  <2>1. /\ there' = there \ {e} /\ UNCHANGED <<coming, gone>> /\ Takes(e, "Close")
    BY <1>6, OwnDeparture DEF Unregisters
  <2>2. CASE d # e
    <3>1. up'[d] = up[d]
      BY <2>1, <2>2, TakenTypes
    <3> QED
      BY <1>1, <2>1, <2>2, <3>1, RegisteredKept
  <2>3. CASE d = e
    <3>1. /\ up[d] # << >> /\ up'[d] = Tail(up[d]) /\ Head(up[d]) \in Closes /\ d \in gone
      BY <2>1, <2>3, TakenTypes, HeadUp DEF Truthful, Closes
    <3>2. Clean(up[d], Closes, {})
      BY <1>1 DEF Registered
    <3> HIDE DEF Numbered, Closes
    <3>3. Clean(up'[d], Closes, {}) /\ ~Has(up'[d], Closes)
      BY <1>1, <3>1, <3>2, TailClean
    <3> QED
      BY <2>1, <3>1, <3>3 DEF Registered, Closes
  <2> QED
    BY <2>2, <2>3
<1>7. ASSUME NEW e \in Client, Leave(e) PROVE Registered(d)'
  <2>1. PICK rest \in {up[e], << >>} : up' = [up EXCEPT ![e] = Append(rest, Msg("Close", e, 0, {}))]
    BY <1>7 DEF Leave
  <2>2. gone' = gone \cup {e} /\ UNCHANGED <<there, coming>> /\ e \notin coming \cup gone
    BY <1>7 DEF Leave
  <2>3. CASE d # e
    <3>1. up'[d] = up[d]
      BY <1>1, <2>1, <2>3
    <3> QED
      BY <1>1, <2>2, <3>1, RegisteredKept
  <2>4. CASE d = e
    <3> DEFINE m == Msg("Close", d, 0, {})
    <3>1. m \in Numbered
      BY MsgTypes
    <3>2. ~Has(up[d], Opens)
      BY <1>7, <2>4 DEF Leave, Has, Opens
    <3>3. d \in there
      BY <1>1, <2>2, <2>4, <3>2 DEF Registered
    <3>4. ~Has(up[d], Closes)
      BY <2>2, <2>4 DEF Truthful, UpPhase
    <3>5. up'[d] = Append(rest, m)
      BY <1>1, <2>1, <2>4
    <3> HIDE DEF m, Numbered, Closes
    <3>6. rest \in Seq(Numbered) /\ ~Has(rest, Closes)
      <4>1. ~Has(<< >>, Closes) /\ << >> \in Seq(Numbered)
        BY DEF Has
      <4> QED
        BY <1>1, <2>4, <3>4, <4>1
    <3>7. Clean(rest, Closes, {})
      BY <3>6, NoneClean
    <3>8. Clean(up'[d], Closes, {})
      BY <3>1, <3>5, <3>6, <3>7, AppendClean
    <3> QED
      BY <2>2, <2>4, <3>3, <3>8 DEF Registered, Closes
  <2> QED
    BY <2>3, <2>4
<1>8. ASSUME NEW c \in Caller, CallMethod(c) PROVE Registered(d)'
  <2> DEFINE m == Msg("Command", c, calls', {})
  <2>1. c \in Client /\ calls' \in 1..MaxCalls
    BY <1>8, RpcAssumption DEF CallMethod, TInv, TypeOK, Client
  <2>2. m \in Numbered \ Closes
    BY <2>1, MsgTypes DEF Msg, Closes
  <2>3. Goes(c, m) /\ UNCHANGED <<there, coming, gone>>
    BY <1>8 DEF CallMethod
  <2> HIDE DEF m
  <2> QED
    BY <1>3, <2>1, <2>2, <2>3
<1>9. ASSUME NEW e \in Client, OnCommand(e) PROVE Registered(d)'
  <2> DEFINE m == Msg("Response", e, Head(down[e]).call, {})
  <2>1. Head(down[e]) \in Numbered /\ Head(down[e]).type = "Command"
    BY <1>9, HandledTypes DEF OnCommand
  <2>2. m \in Numbered \ Closes
    BY <2>1, MsgTypes DEF Msg, Numbered, Closes
  <2>3. Goes(e, m) /\ UNCHANGED <<there, coming, gone>>
    BY <1>9 DEF OnCommand
  <2> HIDE DEF m
  <2> QED
    BY <1>3, <2>2, <2>3
<1>10. ASSUME NEW e \in Client, Connect(e) PROVE Registered(d)'
  <2> DEFINE m == Msg("Open", e, 0, {})
  <2>1. m \in Numbered \ Closes /\ m \in Opens
    BY MsgTypes DEF Msg, Numbered, Closes, Opens
  <2>2. Goes(e, m) /\ UNCHANGED <<there, gone>> /\ coming' = coming \ {e}
    BY <1>10 DEF Connect
  <2> HIDE DEF m
  <2> QED
    BY <1>3, <2>1, <2>2
<1> QED
  BY <1>2, <1>4, <1>5, <1>6, <1>7, <1>8, <1>9, <1>10 DEF Next, CallerStep, Suppress, Return,
     ServerStep, RelayCommand, RelayResponse, Callback, Lookup, ServerAnswers, ClientStep, OnResponse,
     OnOpen, OnClose, vars

\* As long as no two callbacks overlap, none uses the m_Client of another: no relay leaves
\* out anybody but the sender, no departure is ascribed to somebody else, and nobody is
\* looked up who is not registered.
THEOREM CallbacksApart == ASSUME MaxOverlaps = 0 PROVE Spec => [](confused = {})
<1> DEFINE SInv == TInv /\ Truthful /\ Serial
<1>1. Init => SInv
  <2> SUFFICES ASSUME Init PROVE Serial
    BY TypeInit, PresentInit
  <2>1. \A S : ~Has(<< >>, S)
    BY DEF Has
  <2>2. \A d \in Client : Registered(d)
    BY <2>1, NoneClean DEF Init, Registered
  <2> QED
    BY <2>2, RpcAssumption DEF Init, Serial, Client, Busy
<1>2. SInv /\ [Next]_vars => SInv'
  <2> SUFFICES ASSUME SInv, [Next]_vars PROVE SInv'
    OBVIOUS
  <2>1. TInv' /\ Truthful'
    BY TypeStep, UpStep
  <2> QED
    BY <2>1, NotConfused, OneBusy, CallersStay, RegisteredStep DEF Serial
<1>3. SInv => confused = {}
  BY DEF Serial
<1> QED
  BY <1>1, <1>2, <1>3, PTL DEF Spec

=============================================================================
