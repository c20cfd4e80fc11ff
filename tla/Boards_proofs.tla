----------------------------- MODULE Boards_proofs -----------------------------
(***************************************************************************)
(* The boards of a process, proved for any boards, plugins and files: the  *)
(* connection is opened by the first board that uses it and closed with    *)
(* the last; numbers follow the file and parameters are those of the file. *)
(***************************************************************************)
EXTENDS Boards, FiniteSetTheorems, WellFoundedInduction, TLAPS

-----------------------------------------------------------------------------
\* The boards that a plugin has counted, and those for which it is open.
Counted(t) == {b \in Mine : m_Connector[b] = t /\ m_IsConnected[b] /\ pc[b] # "closing"}
Users(t) == {b \in Mine : m_Connector[b] = t /\ (m_IsConnected[b] \/ pc[b] = "counting")}

\* The boards between two steps that must not be mixed with those of another board.
BusyAt(t) == {b \in Mine : m_Connector[b] = t /\ pc[b] \in {"opening", "counting", "closing"}}

-----------------------------------------------------------------------------
(* The invariant. *)

ConnectorTypes ==
  /\ m_IsConnected \in [Mine -> BOOLEAN]
  /\ m_Connector \in [Mine -> Type \cup {"DumpConnector"}]
  /\ pc \in [Mine -> {"idle", "given", "opening", "counting", "closing"}]
  /\ \A i \in DOMAIN m_Connectors : m_Connectors[i] \in Type

\* The address is whatever the file says.
PluginTypes ==
  /\ DOMAIN plugin = Type
  /\ \A t \in Type : /\ DOMAIN plugin[t] = {"boards", "address", "open"}
                     /\ plugin[t].boards \in Int /\ plugin[t].open \in Int

\* A board has a plugin when it opens it and while it is connected, which is later.
BoardPhase ==
  \A b \in Mine :
    /\ pc[b] \in {"given", "opening", "counting"} \/ m_IsConnected[b] => m_Connector[b] \in Type
    /\ pc[b] \in {"given", "opening", "counting"} => ~m_IsConnected[b]
    /\ pc[b] = "closing" => m_IsConnected[b]

\* The count is that of the boards counted, the connection is open while there are users,
\* and at most one board is busy with it; whoever opens it is the first.
PluginRight(t) ==
  /\ plugin[t].boards = Cardinality(Counted(t))
  /\ plugin[t].open = IF Users(t) = {} THEN 0 ELSE 1
  /\ \A b, d \in BusyAt(t) : b = d
  /\ \A b \in BusyAt(t) : pc[b] = "opening" => Users(t) = {}

CountPhase == \A t \in Type \ (recounted \cup raced) : PluginRight(t)

CInv == ConnectorTypes /\ PluginTypes /\ BoardPhase /\ CountPhase

LEMMA CountedFinite ==
  ASSUME NEW t
  PROVE  /\ IsFiniteSet(Counted(t)) /\ Cardinality(Counted(t)) \in Nat
         /\ Cardinality(Counted(t)) = 0 <=> Counted(t) = {}
<1>1. IsFiniteSet(Counted(t))
  <2>1. Counted(t) \subseteq Mine
    BY DEF Counted
  <2> QED
    BY <2>1, BoardsAssumption, FS_Subset
<1> QED
  BY <1>1, FS_CardinalityType, FS_EmptySet

LEMMA CInvInit == Init => CInv
<1> SUFFICES ASSUME Init PROVE CInv
  OBVIOUS
<1>1. ConnectorTypes
  BY DEF Init, ConnectorTypes
<1>2. PluginTypes
  BY DEF Init, PluginTypes
<1>3. BoardPhase
  BY DEF Init, BoardPhase
<1>4. CountPhase
  <2> SUFFICES ASSUME NEW t \in Type PROVE PluginRight(t)
    BY DEF CountPhase
  <2>1. Counted(t) = {} /\ Users(t) = {} /\ BusyAt(t) = {}
    BY DEF Init, Counted, Users, BusyAt
  <2>2. plugin[t].boards = 0 /\ plugin[t].open = 0
    BY DEF Init
  <2> QED
    BY <2>1, <2>2, FS_EmptySet DEF PluginRight
<1> QED
  BY <1>1, <1>2, <1>3, <1>4 DEF CInv

-----------------------------------------------------------------------------
(* Each action preserves it. *)

\* createConnector: who uses the plugin, and what is open, does not change.
LEMMA BeginConnectCInv ==
  ASSUME CInv, NEW b \in Mine, BeginConnect(b)
  PROVE  CInv'
<1> DEFINE p == Plugin(b)
<1>1. /\ ~m_IsConnected[b] /\ Connectable(b) /\ pc[b] = "idle" /\ pc' = [pc EXCEPT ![b] = "given"]
      /\ m_Connectors' = [i \in DOMAIN m_Connectors \cup {links[b].id} |->
                            IF i = links[b].id THEN p ELSE m_Connectors[i]]
      /\ plugin' = [plugin EXCEPT ![p].boards = 0, ![p].address = links[b].connector.address]
      /\ recounted' = IF plugin[p].boards = 0 THEN recounted ELSE recounted \cup {p}
      /\ m_Connector' = [m_Connector EXCEPT ![b] = p] /\ m_IsConnected' = m_IsConnected
      /\ raced' = raced
  BY DEF BeginConnect, Accepts
<1>2. p \in Type
  BY <1>1 DEF Plugin, Connectable, CInv, ConnectorTypes
<1> HIDE DEF p
<1>3. ConnectorTypes'
  BY <1>1, <1>2 DEF CInv, ConnectorTypes
<1>4. /\ PluginTypes' /\ plugin'[p].boards = 0
      /\ \A t \in Type : plugin'[t].open = plugin[t].open
      /\ \A t \in Type \ {p} : plugin'[t] = plugin[t]
  BY <1>1, <1>2 DEF CInv, PluginTypes
<1>5. BoardPhase'
  BY <1>1, <1>2 DEF CInv, BoardPhase, ConnectorTypes
<1>6. ASSUME NEW t
      PROVE  Counted(t)' = Counted(t) /\ Users(t)' = Users(t) /\ BusyAt(t)' = BusyAt(t)
  BY <1>1 DEF Counted, Users, BusyAt, CInv, ConnectorTypes
<1>7. CountPhase'
  <2> SUFFICES ASSUME NEW t \in Type, t \notin recounted' \cup raced' PROVE PluginRight(t)'
    BY DEF CountPhase
  <2>1. t \notin recounted \cup raced /\ (t = p => plugin[p].boards = 0)
    BY <1>1
  <2>2. plugin'[t].boards = plugin[t].boards /\ plugin'[t].open = plugin[t].open
    BY <1>2, <1>4, <2>1
  <2>3. \A d \in BusyAt(t) : pc'[d] = pc[d]
    BY <1>1 DEF BusyAt, CInv, ConnectorTypes
  <2> QED
    BY <1>6, <2>1, <2>2, <2>3 DEF CInv, CountPhase, PluginRight
<1> QED
  BY <1>3, <1>4, <1>5, <1>7 DEF CInv

\* A board asks, and nobody else is busy with the plugin, or it has been raced for.
LEMMA AloneOrRaced ==
  ASSUME NEW b \in Mine, Raced(b), m_Connector[b] \notin raced'
  PROVE  m_Connector[b] \notin raced /\ BusyAt(m_Connector[b]) \subseteq {b}
BY DEF Raced, Beside, BusyAt

\* What board b does to the plugins other than its own: nothing.
LEMMA OtherPlugins ==
  ASSUME CInv, NEW b \in Mine, NEW t \in Type, t # m_Connector[b], PluginRight(t),
         plugin'[t] = plugin[t], m_Connector'[b] # t,
         \A d \in Mine \ {b} : /\ m_Connector'[d] = m_Connector[d] /\ pc'[d] = pc[d]
                               /\ m_IsConnected'[d] = m_IsConnected[d]
  PROVE  PluginRight(t)'
<1>1. Counted(t)' = Counted(t)
  BY DEF Counted
<1>2. Users(t)' = Users(t)
  BY DEF Users
<1>3. BusyAt(t)' = BusyAt(t)
  BY DEF BusyAt
<1>4. \A d \in BusyAt(t) : pc'[d] = pc[d]
  BY DEF BusyAt
<1> QED
  BY <1>1, <1>2, <1>3, <1>4 DEF PluginRight

\* isConnected: the first board goes on to open the connection.
LEMMA CheckConnectedCInv ==
  ASSUME CInv, NEW b \in Mine, CheckConnected(b)
  PROVE  CInv'
<1> DEFINE p == m_Connector[b]
<1>1. /\ pc[b] = "given" /\ Raced(b)
      /\ pc' = [pc EXCEPT ![b] = IF plugin[p].boards = 0 THEN "opening" ELSE "counting"]
      /\ UNCHANGED <<m_Connectors, plugin, recounted, m_IsConnected, m_Connector>>
  BY DEF CheckConnected
<1>2. p \in Type /\ ~m_IsConnected[b]
  BY <1>1 DEF CInv, BoardPhase
<1>3. ConnectorTypes' /\ PluginTypes' /\ BoardPhase'
  BY <1>1 DEF CInv, ConnectorTypes, PluginTypes, BoardPhase
<1>4. ASSUME p \notin recounted \cup raced'
      PROVE  PluginRight(p)'
  <2>1. PluginRight(p) /\ BusyAt(p) \subseteq {b}
    BY <1>1, <1>2, <1>4, AloneOrRaced DEF CInv, CountPhase
  <2>2. Counted(p)' = Counted(p)
    BY <1>1, <1>2 DEF Counted, CInv, ConnectorTypes
  <2>3. Users(p) = Counted(p)
    BY <1>1, <1>2, <2>1 DEF Users, Counted, BusyAt, CInv, ConnectorTypes
  <2>4. BusyAt(p)' = {b}
    BY <1>1, <2>1 DEF BusyAt, CInv, ConnectorTypes
  <2>5. CASE plugin[p].boards = 0
    <3>1. Counted(p) = {}
      BY <2>1, <2>5, CountedFinite DEF PluginRight
    <3>2. Users(p)' = Users(p)
      BY <1>1, <1>2, <2>5 DEF Users, CInv, ConnectorTypes
    <3> QED
      BY <1>1, <2>1, <2>2, <2>3, <2>4, <3>1, <3>2 DEF PluginRight
  <2>6. CASE plugin[p].boards # 0
    <3>1. Counted(p) # {}
      BY <2>1, <2>6, CountedFinite DEF PluginRight
    <3>2. Users(p)' = Users(p) \cup {b} /\ pc'[b] = "counting"
      BY <1>1, <1>2, <2>6 DEF Users, CInv, ConnectorTypes
    <3> QED
      BY <1>1, <2>1, <2>2, <2>3, <2>4, <3>1, <3>2 DEF PluginRight
  <2> QED
    BY <2>5, <2>6
<1>5. ASSUME NEW t \in Type, t # p, t \notin recounted \cup raced'
      PROVE  PluginRight(t)'
  <2>1. t \notin raced
    BY <1>1, <1>5 DEF Raced
  <2> QED
    BY <1>1, <1>5, <2>1, OtherPlugins DEF CInv, CountPhase, ConnectorTypes
<1>6. CountPhase'
  BY <1>1, <1>4, <1>5 DEF CountPhase
<1> QED
  BY <1>3, <1>6 DEF CInv

\* DoConnect: the first user.
LEMMA OpenCInv ==
  ASSUME CInv, NEW b \in Mine, Open(b)
  PROVE  CInv'
<1> DEFINE p == m_Connector[b]
<1>1. /\ pc[b] = "opening" /\ pc' = [pc EXCEPT ![b] = "counting"]
      /\ plugin' = [plugin EXCEPT ![p].open = @ + 1]
      /\ UNCHANGED <<m_Connectors, recounted, raced, m_IsConnected, m_Connector>>
  BY DEF Open
<1>2. p \in Type /\ ~m_IsConnected[b]
  BY <1>1 DEF CInv, BoardPhase
<1>3. ConnectorTypes' /\ BoardPhase'
  BY <1>1 DEF CInv, ConnectorTypes, BoardPhase
<1>4. /\ PluginTypes' /\ plugin'[p].boards = plugin[p].boards
      /\ plugin'[p].open = plugin[p].open + 1
      /\ \A t \in Type \ {p} : plugin'[t] = plugin[t]
  BY <1>1, <1>2 DEF CInv, PluginTypes
<1>5. ASSUME PluginRight(p)
      PROVE  PluginRight(p)'
  <2>1. b \in BusyAt(p) /\ Users(p) = {} /\ BusyAt(p) = {b}
    BY <1>1, <1>5 DEF BusyAt, PluginRight
  <2>2. Counted(p)' = Counted(p)
    BY <1>1, <1>2 DEF Counted, CInv, ConnectorTypes
  <2>3. Users(p)' = {b}
    BY <1>1, <2>1 DEF Users, CInv, ConnectorTypes
  <2>4. BusyAt(p)' = {b} /\ pc'[b] = "counting"
    BY <1>1, <2>1 DEF BusyAt, CInv, ConnectorTypes
  <2> QED
    BY <1>1, <1>4, <1>5, <2>1, <2>2, <2>3, <2>4 DEF PluginRight
<1>6. ASSUME NEW t \in Type, t # p, PluginRight(t)
      PROVE  PluginRight(t)'
  BY <1>1, <1>4, <1>6, OtherPlugins DEF CInv, ConnectorTypes
<1>7. CountPhase'
  BY <1>1, <1>2, <1>5, <1>6 DEF CInv, CountPhase
<1> QED
  BY <1>3, <1>4, <1>7 DEF CInv

\* addBoardConnected: one more.
LEMMA CountCInv ==
  ASSUME CInv, NEW b \in Mine, Count(b)
  PROVE  CInv'
<1> DEFINE p == m_Connector[b]
<1>1. /\ pc[b] = "counting" /\ pc' = [pc EXCEPT ![b] = "idle"]
      /\ plugin' = [plugin EXCEPT ![p].boards = @ + 1]
      /\ m_IsConnected' = [m_IsConnected EXCEPT ![b] = TRUE]
      /\ UNCHANGED <<m_Connectors, recounted, raced, m_Connector>>
  BY DEF Count
<1>2. p \in Type /\ ~m_IsConnected[b]
  BY <1>1 DEF CInv, BoardPhase
<1>3. ConnectorTypes' /\ BoardPhase'
  BY <1>1, <1>2 DEF CInv, ConnectorTypes, BoardPhase
<1>4. /\ PluginTypes' /\ plugin'[p].boards = plugin[p].boards + 1
      /\ plugin'[p].open = plugin[p].open
      /\ \A t \in Type \ {p} : plugin'[t] = plugin[t]
  BY <1>1, <1>2 DEF CInv, PluginTypes
<1>5. ASSUME PluginRight(p)
      PROVE  PluginRight(p)'
  <2>1. BusyAt(p) = {b}
    BY <1>1, <1>5 DEF BusyAt, PluginRight
  <2>2. Counted(p)' = Counted(p) \cup {b} /\ b \notin Counted(p)
    BY <1>1, <1>2 DEF Counted, CInv, ConnectorTypes
  <2>3. Users(p)' = Users(p)
    BY <1>1 DEF Users, CInv, ConnectorTypes
  <2>4. BusyAt(p)' = {}
    BY <1>1, <2>1 DEF BusyAt, CInv, ConnectorTypes
  <2>5. Cardinality(Counted(p)') = Cardinality(Counted(p)) + 1
    BY <2>2, CountedFinite, FS_AddElement
  <2> QED
    BY <1>1, <1>4, <1>5, <2>3, <2>4, <2>5 DEF PluginRight
<1>6. ASSUME NEW t \in Type, t # p, PluginRight(t)
      PROVE  PluginRight(t)'
  BY <1>1, <1>4, <1>6, OtherPlugins DEF CInv, ConnectorTypes
<1>7. CountPhase'
  BY <1>1, <1>2, <1>5, <1>6 DEF CInv, CountPhase
<1> QED
  BY <1>3, <1>4, <1>7 DEF CInv

\* removeBoardConnected: one less.
LEMMA DisconnectCInv ==
  ASSUME CInv, NEW b \in Mine, Disconnect(b)
  PROVE  CInv'
<1> DEFINE p == m_Connector[b]
<1>1. /\ pc[b] = "idle" /\ m_IsConnected[b] /\ Raced(b)
      /\ pc' = [pc EXCEPT ![b] = "closing"]
      /\ plugin' = [plugin EXCEPT ![p].boards = @ - 1]
      /\ UNCHANGED <<m_Connectors, recounted, m_IsConnected, m_Connector>>
  BY DEF Disconnect, Accepts
<1>2. p \in Type
  BY <1>1 DEF CInv, BoardPhase
<1>3. ConnectorTypes' /\ BoardPhase'
  BY <1>1 DEF CInv, ConnectorTypes, BoardPhase
<1>4. /\ PluginTypes' /\ plugin'[p].boards = plugin[p].boards - 1
      /\ plugin'[p].open = plugin[p].open
      /\ \A t \in Type \ {p} : plugin'[t] = plugin[t]
  BY <1>1, <1>2 DEF CInv, PluginTypes
<1>5. ASSUME p \notin recounted \cup raced'
      PROVE  PluginRight(p)'
  <2>1. PluginRight(p) /\ BusyAt(p) \subseteq {b}
    BY <1>1, <1>2, <1>5, AloneOrRaced DEF CInv, CountPhase
  <2>2. Counted(p)' = Counted(p) \ {b} /\ b \in Counted(p)
    BY <1>1 DEF Counted, CInv, ConnectorTypes
  <2>3. Users(p)' = Users(p)
    BY <1>1 DEF Users, CInv, ConnectorTypes
  <2>4. BusyAt(p)' = {b} /\ pc'[b] = "closing"
    BY <1>1, <2>1 DEF BusyAt, CInv, ConnectorTypes
  <2>5. Cardinality(Counted(p)') = Cardinality(Counted(p)) - 1
    BY <2>2, CountedFinite, FS_RemoveElement
  <2> QED
    BY <1>1, <1>4, <2>1, <2>3, <2>4, <2>5 DEF PluginRight
<1>6. ASSUME NEW t \in Type, t # p, t \notin recounted \cup raced'
      PROVE  PluginRight(t)'
  <2>1. t \notin raced
    BY <1>1, <1>6 DEF Raced
  <2> QED
    BY <1>1, <1>4, <1>6, <2>1, OtherPlugins DEF CInv, CountPhase, ConnectorTypes
<1>7. CountPhase'
  BY <1>1, <1>5, <1>6 DEF CountPhase
<1> QED
  BY <1>3, <1>4, <1>7 DEF CInv

\* DoDisconnect, if nobody is left.
LEMMA CloseCInv ==
  ASSUME CInv, NEW b \in Mine, Close(b)
  PROVE  CInv'
<1>0. PICK p : p = m_Connector[b]
  OBVIOUS
<1>1. /\ pc[b] = "closing" /\ pc' = [pc EXCEPT ![b] = "idle"]
      /\ plugin' = [plugin EXCEPT ![p].open = IF plugin[p].boards = 0 THEN @ - 1 ELSE @]
      /\ m_IsConnected' = [m_IsConnected EXCEPT ![b] = FALSE]
      /\ m_Connector' = [m_Connector EXCEPT ![b] = "DumpConnector"]
      /\ UNCHANGED <<m_Connectors, recounted, raced>>
  BY <1>0 DEF Close
<1>2. p \in Type /\ m_IsConnected[b] /\ "DumpConnector" \notin Type
  BY <1>0, <1>1, BoardsAssumption DEF CInv, BoardPhase
<1>3. ConnectorTypes' /\ BoardPhase'
  BY <1>1 DEF CInv, ConnectorTypes, BoardPhase
<1>4. /\ PluginTypes' /\ plugin'[p].boards = plugin[p].boards
      /\ plugin'[p].open = IF plugin[p].boards = 0 THEN plugin[p].open - 1 ELSE plugin[p].open
      /\ \A t \in Type \ {p} : plugin'[t] = plugin[t]
  BY <1>1, <1>2 DEF CInv, PluginTypes
<1>5. ASSUME PluginRight(p)
      PROVE  PluginRight(p)'
  <2>1. BusyAt(p) = {b}
    BY <1>0, <1>1, <1>5 DEF BusyAt, PluginRight
  <2>2. Counted(p)' = Counted(p)
    BY <1>0, <1>1, <1>2 DEF Counted, CInv, ConnectorTypes
  <2>3. Users(p)' = Counted(p) /\ b \in Users(p)
    BY <1>0, <1>1, <1>2, <2>1 DEF Users, Counted, BusyAt, CInv, ConnectorTypes
  <2>4. BusyAt(p)' = {}
    BY <1>0, <1>1, <1>2, <2>1 DEF BusyAt, CInv, ConnectorTypes
  <2>5. plugin[p].boards = 0 <=> Counted(p) = {}
    BY <1>5, CountedFinite DEF PluginRight
  <2> QED
    BY <1>4, <1>5, <2>2, <2>3, <2>4, <2>5 DEF PluginRight
<1>6. ASSUME NEW t \in Type, t # p, PluginRight(t)
      PROVE  PluginRight(t)'
  BY <1>0, <1>1, <1>2, <1>4, <1>6, OtherPlugins DEF CInv, ConnectorTypes
<1>7. CountPhase'
  BY <1>1, <1>2, <1>5, <1>6 DEF CInv, CountPhase
<1> QED
  BY <1>3, <1>4, <1>7 DEF CInv

\* What does not touch the connectors.
LEMMA ConnectorsKept ==
  ASSUME CInv, UNCHANGED connectors, UNCHANGED <<m_IsConnected, m_Connector, pc>>
  PROVE  CInv'
<1>1. UNCHANGED <<m_Connectors, plugin, recounted, raced>>
  BY DEF connectors
<1>2. \A t : Counted(t)' = Counted(t) /\ Users(t)' = Users(t) /\ BusyAt(t)' = BusyAt(t)
  BY DEF Counted, Users, BusyAt
<1>3. ConnectorTypes' /\ PluginTypes' /\ BoardPhase'
  BY <1>1 DEF CInv, ConnectorTypes, PluginTypes, BoardPhase
<1>4. CountPhase'
  BY <1>1, <1>2 DEF CInv, CountPhase, PluginRight
<1> QED
  BY <1>3, <1>4 DEF CInv

LEMMA CInvNext ==
  ASSUME CInv, Next
  PROVE  CInv'
<1>1. ASSUME NEW f \in File, Edit(f) PROVE CInv'
  BY <1>1, ConnectorsKept DEF Edit, boards
<1>2. ASSUME NEW b \in Mine,
             \/ Initialize(b) \/ InitializeFails(b) \/ ConnectFails(b) \/ ConnectAgain(b)
             \/ Configure(b) \/ ConfigureFails(b) \/ DisconnectAgain(b) \/ Release(b)
             \/ \E action \in Action : Other(b, action)
      PROVE  CInv'
  <2>1. UNCHANGED connectors /\ UNCHANGED <<m_IsConnected, m_Connector, pc>>
    BY <1>2 DEF Initialize, InitializeFails, ConnectFails, ConnectAgain, Configure, ConfigureFails,
                DisconnectAgain, Release, Other, End, boards
  <2> QED
    BY <2>1, ConnectorsKept
<1> QED
  BY <1>1, <1>2, BeginConnectCInv, CheckConnectedCInv, OpenCInv, CountCInv, DisconnectCInv, CloseCInv
     DEF Next

-----------------------------------------------------------------------------
(* The theorem. *)

\* OpenAsConnected: the first of the boards that share a plugin opens it and the last one
\* closes it (Connector::Connect and Disconnect), whatever the file and however the boards
\* are interleaved, as long as none was given the plugin when another had counted itself
\* and no two were between their look at the count and its change.
THEOREM OpenedOnce == Spec => []OpenAsConnected
<1>1. Init => CInv
  BY CInvInit
<1>2. CInv /\ [Next]_vars => CInv'
  <2>1. ASSUME CInv, UNCHANGED vars PROVE CInv'
    BY <2>1, ConnectorsKept DEF vars, boards
  <2> QED
    BY <2>1, CInvNext
<1>3. CInv => OpenAsConnected
  BY DEF CInv, CountPhase, PluginRight, Users, OpenAsConnected
<1> QED
  BY <1>1, <1>2, <1>3, PTL DEF Spec

(* Counting up, and the least of some numbers. *)

LEMMA Least ==
  ASSUME NEW N \in SUBSET Nat, N # {}
  PROVE  \E x \in N : \A y \in N : x <= y
<1>1. PICK x \in N : \A y \in N : ~(<<y, x>> \in OpToRel(<, Nat))
  BY NatLessThanWellFounded, WFMin
<1>2. \A y \in N : ~(y < x)
  BY <1>1 DEF OpToRel
<1> QED
  BY <1>2

LEMMA Induction ==
  ASSUME NEW T, 0 \in T, \A n \in Nat : n \in T => n + 1 \in T
  PROVE  \A n \in Nat : n \in T
<1> SUFFICES ASSUME NEW n \in Nat, n \notin T PROVE FALSE
  OBVIOUS
<1>1. PICK x \in {y \in Nat : y \notin T} : \A y \in {y \in Nat : y \notin T} : x <= y
  BY Least
<1>2. x # 0 /\ x - 1 \in Nat /\ x - 1 \in T
  BY <1>1
<1> QED
  BY <1>1, <1>2

-----------------------------------------------------------------------------
(* The loops of the configuration. *)

\* The recursions are what they say, because there are functions that are.
LEMMA JoinsIs ==
  ASSUME NEW seqs, Len(seqs) \in Nat
  PROVE  /\ Joins(seqs)[0] = << >>
         /\ \A m \in Nat : m + 1 <= Len(seqs) =>
              Joins(seqs)[m + 1] = Joins(seqs)[m] \o seqs[m + 1]
<1> DEFINE Course(g, m) ==
             g = [n \in 0..m |-> IF n = 0 THEN << >> ELSE g[n - 1] \o seqs[n]]
           T == {m \in Nat : \E g : Course(g, m)}
<1>1. 0 \in T
  <2> DEFINE g == [n \in 0..0 |-> << >>]
  <2>1. Course(g, 0)
    OBVIOUS
  <2> QED
    BY <2>1
<1>2. ASSUME NEW m \in Nat, m \in T PROVE m + 1 \in T
  <2>1. PICK g : Course(g, m)
    BY <1>2
  <2> DEFINE h == [n \in 0..(m + 1) |->
                    IF n <= m THEN g[n] ELSE g[m] \o seqs[m + 1]]
  <2>2. \A n \in 0..m : h[n] = IF n = 0 THEN << >> ELSE h[n - 1] \o seqs[n]
    <3> SUFFICES ASSUME NEW n \in 0..m
                 PROVE  h[n] = IF n = 0 THEN << >> ELSE h[n - 1] \o seqs[n]
      OBVIOUS
    <3>1. h[n] = g[n] /\ (n # 0 => h[n - 1] = g[n - 1])
      OBVIOUS
    <3>2. g[n] = IF n = 0 THEN << >> ELSE g[n - 1] \o seqs[n]
      BY <2>1
    <3> QED
      BY <3>1, <3>2
  <2>3. h[m + 1] = h[m] \o seqs[m + 1]
    OBVIOUS
  <2>4. DOMAIN h = 0..(m + 1) /\ h = [n \in 0..(m + 1) |-> h[n]]
    OBVIOUS
  <2> HIDE DEF h
  <2>5. Course(h, m + 1)
    BY <2>2, <2>3, <2>4
  <2> HIDE DEF Course
  <2> QED
    BY <2>5
<1>3. PICK g : Course(g, Len(seqs))
  <2> HIDE DEF T
  <2>1. Len(seqs) \in T
    BY <1>1, <1>2, Induction
  <2> QED
    BY <2>1 DEF T
<1> DEFINE f == Joins(seqs)
<1>4. Course(f, Len(seqs))
  BY <1>3 DEF Joins
<1> HIDE DEF f
<1>5. \A n \in 0..Len(seqs) : f[n] = IF n = 0 THEN << >> ELSE f[n - 1] \o seqs[n]
  BY <1>4
<1>6. ASSUME NEW m \in Nat, m + 1 <= Len(seqs)
      PROVE  f[m + 1] = f[m] \o seqs[m + 1]
  <2>1. PICK n \in 0..Len(seqs) : n = m + 1 /\ n # 0 /\ n - 1 = m
    BY <1>6
  <2>2. f[n] = f[n - 1] \o seqs[n]
    BY <1>5, <2>1, Zenon
  <2> QED
    BY <2>1, <2>2, Zenon
<1>7. f[0] = << >>
  BY <1>5
<1> QED
  BY <1>6, <1>7 DEF f

LEMMA ParseBoardsIs ==
  ASSUME NEW at, NEW entries, NEW connector, Len(entries) \in Nat
  PROVE  /\ ParseBoards(at, entries, connector)[0] = at
         /\ \A m \in Nat : m + 1 <= Len(entries) =>
              ParseBoards(at, entries, connector)[m + 1] =
                ParseBoard(ParseBoards(at, entries, connector)[m], entries[m + 1], connector)
<1> DEFINE Course(g, m) ==
             g = [n \in 0..m |-> IF n = 0 THEN at ELSE ParseBoard(g[n - 1], entries[n], connector)]
           T == {m \in Nat : \E g : Course(g, m)}
<1>1. 0 \in T
  <2> DEFINE g == [n \in 0..0 |-> at]
  <2>1. Course(g, 0)
    OBVIOUS
  <2> QED
    BY <2>1
<1>2. ASSUME NEW m \in Nat, m \in T PROVE m + 1 \in T
  <2>1. PICK g : Course(g, m)
    BY <1>2
  <2> DEFINE h == [n \in 0..(m + 1) |->
                    IF n <= m THEN g[n] ELSE ParseBoard(g[m], entries[m + 1], connector)]
  <2>2. \A n \in 0..m : h[n] = IF n = 0 THEN at ELSE ParseBoard(h[n - 1], entries[n], connector)
    <3> SUFFICES ASSUME NEW n \in 0..m
                 PROVE  h[n] = IF n = 0 THEN at ELSE ParseBoard(h[n - 1], entries[n], connector)
      OBVIOUS
    <3>1. h[n] = g[n] /\ (n # 0 => h[n - 1] = g[n - 1])
      OBVIOUS
    <3>2. g[n] = IF n = 0 THEN at ELSE ParseBoard(g[n - 1], entries[n], connector)
      BY <2>1
    <3> QED
      BY <3>1, <3>2
  <2>3. h[m + 1] = ParseBoard(h[m], entries[m + 1], connector)
    OBVIOUS
  <2>4. DOMAIN h = 0..(m + 1) /\ h = [n \in 0..(m + 1) |-> h[n]]
    OBVIOUS
  <2> HIDE DEF h
  <2>5. Course(h, m + 1)
    BY <2>2, <2>3, <2>4
  <2> HIDE DEF Course
  <2> QED
    BY <2>5
<1>3. PICK g : Course(g, Len(entries))
  <2> HIDE DEF T
  <2>1. Len(entries) \in T
    BY <1>1, <1>2, Induction
  <2> QED
    BY <2>1 DEF T
<1> DEFINE f == ParseBoards(at, entries, connector)
<1>4. Course(f, Len(entries))
  BY <1>3 DEF ParseBoards
<1> HIDE DEF f
<1>5. \A n \in 0..Len(entries) :
         f[n] = IF n = 0 THEN at ELSE ParseBoard(f[n - 1], entries[n], connector)
  BY <1>4
<1>6. ASSUME NEW m \in Nat, m + 1 <= Len(entries)
      PROVE  f[m + 1] = ParseBoard(f[m], entries[m + 1], connector)
  <2>1. PICK n \in 0..Len(entries) : n = m + 1 /\ n # 0 /\ n - 1 = m
    BY <1>6
  <2>2. f[n] = ParseBoard(f[n - 1], entries[n], connector)
    BY <1>5, <2>1, Zenon
  <2> QED
    BY <2>1, <2>2, Zenon
<1>7. f[0] = at
  BY <1>5
<1> QED
  BY <1>6, <1>7 DEF f

LEMMA ParseModulesIs ==
  ASSUME NEW at, NEW entries, Len(entries) \in Nat
  PROVE  /\ ParseModules(at, entries)[0] = at
         /\ \A m \in Nat : m + 1 <= Len(entries) =>
              ParseModules(at, entries)[m + 1] =
                Known(ParseModules(at, entries)[m], entries[m + 1], "Module")
<1> DEFINE Course(g, m) ==
             g = [n \in 0..m |-> IF n = 0 THEN at ELSE Known(g[n - 1], entries[n], "Module")]
           T == {m \in Nat : \E g : Course(g, m)}
<1>1. 0 \in T
  <2> DEFINE g == [n \in 0..0 |-> at]
  <2>1. Course(g, 0)
    OBVIOUS
  <2> QED
    BY <2>1
<1>2. ASSUME NEW m \in Nat, m \in T PROVE m + 1 \in T
  <2>1. PICK g : Course(g, m)
    BY <1>2
  <2> DEFINE h == [n \in 0..(m + 1) |->
                    IF n <= m THEN g[n] ELSE Known(g[m], entries[m + 1], "Module")]
  <2>2. \A n \in 0..m : h[n] = IF n = 0 THEN at ELSE Known(h[n - 1], entries[n], "Module")
    <3> SUFFICES ASSUME NEW n \in 0..m
                 PROVE  h[n] = IF n = 0 THEN at ELSE Known(h[n - 1], entries[n], "Module")
      OBVIOUS
    <3>1. h[n] = g[n] /\ (n # 0 => h[n - 1] = g[n - 1])
      OBVIOUS
    <3>2. g[n] = IF n = 0 THEN at ELSE Known(g[n - 1], entries[n], "Module")
      BY <2>1
    <3> QED
      BY <3>1, <3>2
  <2>3. h[m + 1] = Known(h[m], entries[m + 1], "Module")
    OBVIOUS
  <2>4. DOMAIN h = 0..(m + 1) /\ h = [n \in 0..(m + 1) |-> h[n]]
    OBVIOUS
  <2> HIDE DEF h
  <2>5. Course(h, m + 1)
    BY <2>2, <2>3, <2>4
  <2> HIDE DEF Course
  <2> QED
    BY <2>5
<1>3. PICK g : Course(g, Len(entries))
  <2> HIDE DEF T
  <2>1. Len(entries) \in T
    BY <1>1, <1>2, Induction
  <2> QED
    BY <2>1 DEF T
<1> DEFINE f == ParseModules(at, entries)
<1>4. Course(f, Len(entries))
  BY <1>3 DEF ParseModules
<1> HIDE DEF f
<1>5. \A n \in 0..Len(entries) :
         f[n] = IF n = 0 THEN at ELSE Known(f[n - 1], entries[n], "Module")
  BY <1>4
<1>6. ASSUME NEW m \in Nat, m + 1 <= Len(entries)
      PROVE  f[m + 1] = Known(f[m], entries[m + 1], "Module")
  <2>1. PICK n \in 0..Len(entries) : n = m + 1 /\ n # 0 /\ n - 1 = m
    BY <1>6
  <2>2. f[n] = Known(f[n - 1], entries[n], "Module")
    BY <1>5, <2>1, Zenon
  <2> QED
    BY <2>1, <2>2, Zenon
<1>7. f[0] = at
  BY <1>5
<1> QED
  BY <1>6, <1>7 DEF f

LEMMA ParseCratesIs ==
  ASSUME NEW crates, Len(crates) \in Nat
  PROVE  /\ ParseCrates(crates)[0] = Nothing
         /\ \A m \in Nat : m + 1 <= Len(crates) =>
              ParseCrates(crates)[m + 1] = ParseCrate(ParseCrates(crates)[m], crates[m + 1])
<1> DEFINE Course(g, m) ==
             g = [n \in 0..m |-> IF n = 0 THEN Nothing ELSE ParseCrate(g[n - 1], crates[n])]
           T == {m \in Nat : \E g : Course(g, m)}
<1>1. 0 \in T
  <2> DEFINE g == [n \in 0..0 |-> Nothing]
  <2>1. Course(g, 0)
    OBVIOUS
  <2> QED
    BY <2>1
<1>2. ASSUME NEW m \in Nat, m \in T PROVE m + 1 \in T
  <2>1. PICK g : Course(g, m)
    BY <1>2
  <2> DEFINE h == [n \in 0..(m + 1) |->
                    IF n <= m THEN g[n] ELSE ParseCrate(g[m], crates[m + 1])]
  <2>2. \A n \in 0..m : h[n] = IF n = 0 THEN Nothing ELSE ParseCrate(h[n - 1], crates[n])
    <3> SUFFICES ASSUME NEW n \in 0..m
                 PROVE  h[n] = IF n = 0 THEN Nothing ELSE ParseCrate(h[n - 1], crates[n])
      OBVIOUS
    <3>1. h[n] = g[n] /\ (n # 0 => h[n - 1] = g[n - 1])
      OBVIOUS
    <3>2. g[n] = IF n = 0 THEN Nothing ELSE ParseCrate(g[n - 1], crates[n])
      BY <2>1
    <3> QED
      BY <3>1, <3>2
  <2>3. h[m + 1] = ParseCrate(h[m], crates[m + 1])
    OBVIOUS
  <2>4. DOMAIN h = 0..(m + 1) /\ h = [n \in 0..(m + 1) |-> h[n]]
    OBVIOUS
  <2> HIDE DEF h
  <2>5. Course(h, m + 1)
    BY <2>2, <2>3, <2>4
  <2> HIDE DEF Course
  <2> QED
    BY <2>5
<1>3. PICK g : Course(g, Len(crates))
  <2> HIDE DEF T
  <2>1. Len(crates) \in T
    BY <1>1, <1>2, Induction
  <2> QED
    BY <2>1 DEF T
<1> DEFINE f == ParseCrates(crates)
<1>4. Course(f, Len(crates))
  BY <1>3 DEF ParseCrates
<1> HIDE DEF f
<1>5. \A n \in 0..Len(crates) : f[n] = IF n = 0 THEN Nothing ELSE ParseCrate(f[n - 1], crates[n])
  BY <1>4
<1>6. ASSUME NEW m \in Nat, m + 1 <= Len(crates)
      PROVE  f[m + 1] = ParseCrate(f[m], crates[m + 1])
  <2>1. PICK n \in 0..Len(crates) : n = m + 1 /\ n # 0 /\ n - 1 = m
    BY <1>6
  <2>2. f[n] = ParseCrate(f[n - 1], crates[n])
    BY <1>5, <2>1, Zenon
  <2> QED
    BY <2>1, <2>2, Zenon
<1>7. f[0] = Nothing
  BY <1>5
<1> QED
  BY <1>6, <1>7 DEF f

LEMMA ConcatIs ==
  ASSUME NEW S, NEW p \in Seq(S), NEW q \in Seq(S)
  PROVE  p \o q \in Seq(S) /\ ToSet(p \o q) = ToSet(p) \cup ToSet(q)
<1>1. p \o q \in Seq(S) /\ Len(p \o q) = Len(p) + Len(q)
  OBVIOUS
<1>2. \A i \in DOMAIN (p \o q) : (p \o q)[i] \in ToSet(p) \cup ToSet(q)
  <2> SUFFICES ASSUME NEW i \in 1..(Len(p) + Len(q)) PROVE (p \o q)[i] \in ToSet(p) \cup ToSet(q)
    OBVIOUS
  <2>1. CASE i <= Len(p)
    BY <2>1 DEF ToSet
  <2>2. CASE i > Len(p)
    <3>1. (p \o q)[i] = q[i - Len(p)] /\ i - Len(p) \in DOMAIN q
      BY <2>2
    <3> QED
      BY <3>1 DEF ToSet
  <2> QED
    BY <2>1, <2>2
<1>3. \A i \in DOMAIN p : p[i] = (p \o q)[i] /\ i \in DOMAIN (p \o q)
  OBVIOUS
<1>4. \A i \in DOMAIN q : q[i] = (p \o q)[Len(p) + i] /\ Len(p) + i \in DOMAIN (p \o q)
  OBVIOUS
<1>5. ToSet(p) \subseteq ToSet(p \o q)
  BY <1>3 DEF ToSet
<1>6. ToSet(q) \subseteq ToSet(p \o q)
  BY <1>4 DEF ToSet
<1>7. ToSet(p \o q) \subseteq ToSet(p) \cup ToSet(q)
  BY <1>2 DEF ToSet
<1> QED
  BY <1>1, <1>5, <1>6, <1>7

LEMMA SequenceOf ==
  ASSUME NEW s, IsSequence(s)
  PROVE  /\ Len(s) \in Nat /\ DOMAIN s = 1..Len(s)
         /\ \A S : ToSet(s) \subseteq S => s \in Seq(S)
  BY DEF IsSequence

LEMMA SequenceIs ==
  ASSUME NEW S, NEW s \in Seq(S)
  PROVE  IsSequence(s)
<1>1. Len(s) \in Nat /\ DOMAIN s = 1..Len(s) /\ \A i \in 1..Len(s) : s[i] \in ToSet(s)
  BY DEF ToSet
<1>2. s = [i \in 1..Len(s) |-> s[i]]
  OBVIOUS
<1> QED
  BY <1>1, <1>2 DEF IsSequence

\* What is in the sequences, and nothing else, is in the joined one.
LEMMA JoinedIs ==
  ASSUME NEW seqs, IsSequence(seqs), \A n \in DOMAIN seqs : IsSequence(seqs[n])
  PROVE  /\ IsSequence(Joined(seqs))
         /\ ToSet(Joined(seqs)) = UNION {ToSet(seqs[n]) : n \in DOMAIN seqs}
<1> DEFINE Upto(m) == UNION {ToSet(seqs[n]) : n \in 1..m}
           S == Upto(Len(seqs))
           Right(m) == Joins(seqs)[m] \in Seq(S) /\ ToSet(Joins(seqs)[m]) = Upto(m)
           T == {m \in Nat : m <= Len(seqs) => Right(m)}
<1>1. Len(seqs) \in Nat /\ DOMAIN seqs = 1..Len(seqs)
  BY SequenceOf
<1>2. /\ Joins(seqs)[0] = << >>
      /\ \A m \in Nat : m + 1 <= Len(seqs) => Joins(seqs)[m + 1] = Joins(seqs)[m] \o seqs[m + 1]
  BY <1>1, JoinsIs
<1>3. /\ Upto(0) = {}
      /\ \A m \in Nat : Upto(m + 1) = Upto(m) \cup ToSet(seqs[m + 1])
      /\ \A n \in 1..Len(seqs) : ToSet(seqs[n]) \subseteq S
  <2>1. \A m \in Nat : 1..(m + 1) = 1..m \cup {m + 1}
    OBVIOUS
  <2> QED
    BY <2>1
<1> HIDE DEF Upto, S
<1>4. 0 \in T
  <2>1. ToSet(<< >>) = {} /\ << >> \in Seq(S)
    BY DEF ToSet
  <2> QED
    BY <1>2, <1>3, <2>1
<1>5. ASSUME NEW m \in Nat, m \in T PROVE m + 1 \in T
  <2> SUFFICES ASSUME m + 1 <= Len(seqs) PROVE Right(m + 1)
    OBVIOUS
  <2>1. Joins(seqs)[m + 1] = Joins(seqs)[m] \o seqs[m + 1]
    BY <1>2, Zenon
  <2>2. Right(m)
    BY <1>5, <1>1
  <2>3. seqs[m + 1] \in Seq(S)
    BY <1>1, <1>3, SequenceOf
  <2>4. /\ Joins(seqs)[m] \o seqs[m + 1] \in Seq(S)
        /\ ToSet(Joins(seqs)[m] \o seqs[m + 1]) = ToSet(Joins(seqs)[m]) \cup ToSet(seqs[m + 1])
    BY <2>2, <2>3, ConcatIs
  <2> QED
    BY <1>3, <2>1, <2>2, <2>4
<1>6. Right(Len(seqs))
  <2> HIDE DEF Right
  <2>1. 0 \in T /\ \A m \in Nat : m \in T => m + 1 \in T
    BY <1>4, <1>5
  <2>2. Len(seqs) \in T
    <3> HIDE DEF T
    <3> QED
      BY <1>1, <2>1, Induction
  <2> QED
    BY <1>1, <2>2
<1>7. ToSet(Joined(seqs)) = S /\ IsSequence(Joined(seqs))
  <2>1. Joined(seqs) \in Seq(S)
    BY <1>6 DEF Joined
  <2>2. ToSet(Joined(seqs)) = S
    BY <1>3, <1>6 DEF Joined, S
  <2> QED
    BY <2>1, <2>2, SequenceIs
<1> QED
  BY <1>1, <1>7 DEF S, Upto

-----------------------------------------------------------------------------
(* What the walk over the file keeps, unless it has failed. *)

Shape(at) == DOMAIN at = {"failed", "infos", "links", "id", "crateId"}

\* Every board or module that is known has parameters of the file.
InfosRight(at, params) ==
  \A n \in DOMAIN at.infos :
    at.infos[n] \in [class : {"Board", "Module"}, parameters : params]

\* The boards that have been met have their connectors, and two of them have the same
\* number when they share it; no number is greater than the last one given.
NumbersRight(at, met) ==
  /\ at.id \in Nat /\ at.crateId \in Nat /\ at.crateId <= at.id
  /\ DOMAIN at.links \subseteq DOMAIN at.infos
  /\ \A n \in DOMAIN at.links : at.links[n].id \in Nat /\ at.links[n].id <= at.id
  /\ \A e \in met : e.name \in DOMAIN at.links /\ at.links[e.name].connector = e.connector
  /\ \A e, d \in met : at.links[e.name].id = at.links[d.name].id <=> SharesConnector(e, d)

\* Within a crate with a connector: its number is that of the boards of this crate that
\* have no connector of their own.
CrateRight(at, met, crate) ==
  crate.connector # NoConnector =>
    \A e \in met : at.links[e.name].id = at.crateId <=> ~e.own /\ e.crate = crate.name

Walked(at, met, params) ==
  Shape(at) /\ (~at.failed => InfosRight(at, params) /\ NumbersRight(at, met))

WalkedIn(at, met, params, crate) ==
  Walked(at, met, params) /\ (~at.failed => CrateRight(at, met, crate))

LEMMA KnownIs ==
  ASSUME NEW at, Shape(at), NEW entry, NEW class
  PROVE  LET after == Known(at, entry, class)
         IN  /\ Shape(after)
             /\ after.links = at.links /\ after.id = at.id /\ after.crateId = at.crateId
             /\ ~after.failed =>
                  /\ ~at.failed /\ entry.name \notin DOMAIN at.infos
                  /\ after.infos = Emplaced(at.infos, entry.name,
                                     [class |-> class, parameters |-> entry.parameters])
<1> DEFINE info == [class |-> class, parameters |-> entry.parameters]
<1> HIDE DEF info
<1>1. CASE ~entry.complete \/ entry.name \in DOMAIN at.infos
  <2>1. Known(at, entry, class) = [at EXCEPT !.failed = TRUE]
    BY <1>1 DEF Known
  <2> QED
    BY <2>1 DEF Shape
<1>2. CASE ~(~entry.complete \/ entry.name \in DOMAIN at.infos)
  <2>1. Known(at, entry, class) = [at EXCEPT !.infos = Emplaced(@, entry.name, info)]
    BY <1>2 DEF Known, info
  <2>2. /\ Shape(Known(at, entry, class))
        /\ Known(at, entry, class).links = at.links /\ Known(at, entry, class).id = at.id
        /\ Known(at, entry, class).crateId = at.crateId
        /\ Known(at, entry, class).failed = at.failed
        /\ Known(at, entry, class).infos = Emplaced(at.infos, entry.name, info)
    BY <2>1 DEF Shape
  <2> QED
    BY <1>2, <2>2 DEF info
<1> QED
  BY <1>1, <1>2

LEMMA ParseBoardIs ==
  ASSUME NEW at, Shape(at), NEW board, NEW connector
  PROVE  LET after == ParseBoard(at, board, connector)
             own == board.connector # NoConnector
             used == IF own THEN board.connector ELSE connector
         IN  /\ Shape(after)
             /\ ~after.failed =>
                  /\ ~at.failed /\ board.name \notin DOMAIN at.infos /\ used # NoConnector
                  /\ after.infos = Emplaced(at.infos, board.name,
                                     [class |-> "Board", parameters |-> board.parameters])
                  /\ after.links = Emplaced(at.links, board.name,
                       [connector |-> used, id |-> IF own THEN at.id + 1 ELSE at.crateId])
                  /\ after.id = IF own THEN at.id + 1 ELSE at.id
                  /\ after.crateId = at.crateId
<1> DEFINE known == Known(at, board, "Board")
           info == [class |-> "Board", parameters |-> board.parameters]
           own == board.connector # NoConnector
           used == IF own THEN board.connector ELSE connector
           link == [connector |-> used, id |-> IF own THEN at.id + 1 ELSE at.crateId]
           after == [known EXCEPT !.failed = @ \/ used = NoConnector,
                                  !.id = IF own THEN at.id + 1 ELSE at.id,
                                  !.links = Emplaced(@, board.name, link)]
<1>1. ParseBoard(at, board, connector) = after
  BY DEF ParseBoard
<1>2. /\ Shape(known)
      /\ known.links = at.links /\ known.id = at.id /\ known.crateId = at.crateId
      /\ ~known.failed =>
           /\ ~at.failed /\ board.name \notin DOMAIN at.infos
           /\ known.infos = Emplaced(at.infos, board.name, info)
  BY KnownIs
<1> HIDE DEF known, info, link, used
<1>3. /\ Shape(after) /\ after.infos = known.infos /\ after.crateId = known.crateId
      /\ after.failed = (known.failed \/ used = NoConnector)
      /\ after.id = IF own THEN at.id + 1 ELSE at.id
      /\ after.links = Emplaced(known.links, board.name, link)
  BY <1>2 DEF Shape
<1> HIDE DEF after, own
<1>4. ~after.failed => ~known.failed /\ used # NoConnector
  BY <1>3
<1>5. /\ Shape(after)
      /\ ~after.failed =>
           /\ ~at.failed /\ board.name \notin DOMAIN at.infos /\ used # NoConnector
           /\ after.infos = Emplaced(at.infos, board.name, info)
           /\ after.links = Emplaced(at.links, board.name, link)
           /\ after.id = IF own THEN at.id + 1 ELSE at.id
           /\ after.crateId = at.crateId
  BY <1>2, <1>3, <1>4
<1> QED
  BY <1>1, <1>5 DEF info, link, used, own

\* One turn of the loop of parseBoards.
LEMMA ParseBoardWalks ==
  ASSUME NEW at, NEW met, NEW params, NEW crate, WalkedIn(at, met, params, crate),
         NEW board, board.parameters \in params
  PROVE  WalkedIn(ParseBoard(at, board, crate.connector),
                  met \cup {BoardOf(crate, board)}, params, crate)
<1> DEFINE after == ParseBoard(at, board, crate.connector)
           new == BoardOf(crate, board)
           id == IF new.own THEN at.id + 1 ELSE at.crateId
<1>1. Shape(at)
  BY DEF WalkedIn, Walked
<1>2. Shape(after)
  BY <1>1, ParseBoardIs
<1> SUFFICES ASSUME ~after.failed
             PROVE  /\ InfosRight(after, params)
                    /\ NumbersRight(after, met \cup {new})
                    /\ CrateRight(after, met \cup {new}, crate)
  BY <1>2 DEF WalkedIn, Walked
<1>3. /\ new.name = board.name /\ new.crate = crate.name
      /\ new.own <=> board.connector # NoConnector
      /\ new.connector = IF new.own THEN board.connector ELSE crate.connector
  BY DEF BoardOf
<1>4. /\ ~at.failed /\ board.name \notin DOMAIN at.infos /\ new.connector # NoConnector
      /\ after.infos = Emplaced(at.infos, board.name,
                                [class |-> "Board", parameters |-> board.parameters])
      /\ after.links = Emplaced(at.links, board.name, [connector |-> new.connector, id |-> id])
      /\ after.id = IF new.own THEN at.id + 1 ELSE at.id
      /\ after.crateId = at.crateId
  BY <1>1, <1>3, ParseBoardIs
<1>5. InfosRight(at, params) /\ NumbersRight(at, met) /\ CrateRight(at, met, crate)
  BY <1>4 DEF WalkedIn, Walked
<1> HIDE DEF after, new
<1>6. InfosRight(after, params)
  BY <1>4, <1>5 DEF InfosRight, Emplaced
<1>7. /\ DOMAIN after.links = DOMAIN at.links \cup {new.name}
      /\ new.name \notin DOMAIN at.links
      /\ after.links[new.name].connector = new.connector /\ after.links[new.name].id = id
      /\ \A n \in DOMAIN at.links : after.links[n] = at.links[n]
  BY <1>3, <1>4, <1>5 DEF Emplaced, NumbersRight
<1>8. DOMAIN after.infos = DOMAIN at.infos \cup {new.name}
  BY <1>3, <1>4 DEF Emplaced
<1>9. /\ at.id \in Nat /\ at.crateId \in Nat /\ at.crateId <= at.id
      /\ \A n \in DOMAIN at.links : at.links[n].id \in Nat /\ at.links[n].id <= at.id
      /\ \A e \in met : e.name \in DOMAIN at.links
  BY <1>5 DEF NumbersRight
<1>10. /\ after.id \in Nat /\ after.crateId \in Nat /\ after.crateId <= after.id
       /\ id \in Nat /\ id <= after.id
       /\ new.own => \A e \in met : at.links[e.name].id # id
       /\ new.own => id # at.crateId
  BY <1>4, <1>9
<1>11. ~new.own => \A e \in met : at.links[e.name].id = id <=> ~e.own /\ e.crate = new.crate
  BY <1>3, <1>4, <1>5 DEF CrateRight
<1>12. \A e \in met : at.links[e.name].id = id <=> SharesConnector(e, new)
  <2> SUFFICES ASSUME NEW e \in met PROVE at.links[e.name].id = id <=> SharesConnector(e, new)
    OBVIOUS
  <2>1. e # new
    BY <1>7, <1>9
  <2> QED
    BY <1>10, <1>11, <2>1 DEF SharesConnector
<1> HIDE DEF id
<1>13. NumbersRight(after, met \cup {new})
  <2>1. DOMAIN after.links \subseteq DOMAIN after.infos
    BY <1>5, <1>7, <1>8 DEF NumbersRight
  <2>2. \A n \in DOMAIN after.links : after.links[n].id \in Nat /\ after.links[n].id <= after.id
    BY <1>4, <1>7, <1>9, <1>10
  <2>3. \A e \in met \cup {new} : /\ e.name \in DOMAIN after.links
                                  /\ after.links[e.name].connector = e.connector
    BY <1>5, <1>7 DEF NumbersRight
  <2>4. \A e \in met : after.links[e.name].id = at.links[e.name].id
    BY <1>7, <1>9
  <2>5. \A e, d \in met : after.links[e.name].id = after.links[d.name].id <=> SharesConnector(e, d)
    BY <1>5, <2>4 DEF NumbersRight
  <2>6. \A e \in met : /\ after.links[e.name].id = after.links[new.name].id <=> SharesConnector(e, new)
                       /\ after.links[new.name].id = after.links[e.name].id <=> SharesConnector(new, e)
    BY <1>7, <1>12, <2>4 DEF SharesConnector
  <2>7. SharesConnector(new, new)
    BY DEF SharesConnector
  <2> QED
    BY <1>10, <2>1, <2>2, <2>3, <2>5, <2>6, <2>7 DEF NumbersRight
<1>14. CrateRight(after, met \cup {new}, crate)
  <2> SUFFICES ASSUME crate.connector # NoConnector, NEW e \in met \cup {new}
               PROVE  after.links[e.name].id = at.crateId <=> ~e.own /\ e.crate = crate.name
    BY <1>4 DEF CrateRight
  <2>1. CASE e \in met
    BY <1>5, <1>7, <1>9, <2>1 DEF CrateRight
  <2>2. CASE e = new
    BY <1>3, <1>7, <1>10, <2>2 DEF id
  <2> QED
    BY <2>1, <2>2
<1> QED
  BY <1>6, <1>13, <1>14

\* The loop of parseBoards, for the boards of a crate.
LEMMA ParseBoardsWalks ==
  ASSUME NEW at, NEW met, NEW params, NEW crate, WalkedIn(at, met, params, crate),
         IsSequence(crate.boards), \A b \in ToSet(crate.boards) : b.parameters \in params
  PROVE  WalkedIn(ParseBoards(at, crate.boards, crate.connector)[Len(crate.boards)],
                  met \cup {BoardOf(crate, b) : b \in ToSet(crate.boards)}, params, crate)
<1> DEFINE list == crate.boards
           after(m) == ParseBoards(at, list, crate.connector)[m]
           metBy(m) == met \cup {BoardOf(crate, list[i]) : i \in 1..m}
           T == {m \in Nat : m <= Len(list) => WalkedIn(after(m), metBy(m), params, crate)}
<1>1. /\ Len(list) \in Nat /\ DOMAIN list = 1..Len(list)
      /\ \A i \in 1..Len(list) : list[i].parameters \in params
  BY SequenceOf DEF ToSet
<1>2. /\ after(0) = at
      /\ \A m \in Nat : m + 1 <= Len(list) =>
           after(m + 1) = ParseBoard(after(m), list[m + 1], crate.connector)
  BY <1>1, ParseBoardsIs
<1>3. /\ metBy(0) = met
      /\ \A m \in Nat : metBy(m + 1) = metBy(m) \cup {BoardOf(crate, list[m + 1])}
  <2>1. \A m \in Nat : 1..(m + 1) = 1..m \cup {m + 1}
    OBVIOUS
  <2> QED
    BY <2>1
<1>4. metBy(Len(list)) = met \cup {BoardOf(crate, b) : b \in ToSet(list)}
  BY <1>1 DEF ToSet
<1> HIDE DEF list, after, metBy
<1>5. 0 \in T
  BY <1>2, <1>3
<1>6. ASSUME NEW m \in Nat, m \in T PROVE m + 1 \in T
  <2> SUFFICES ASSUME m + 1 <= Len(list)
               PROVE  WalkedIn(after(m + 1), metBy(m + 1), params, crate)
    OBVIOUS
  <2>1. m <= Len(list) /\ m + 1 \in 1..Len(list)
    BY <1>1
  <2>2. WalkedIn(after(m), metBy(m), params, crate) /\ list[m + 1].parameters \in params
    BY <1>1, <1>6, <2>1
  <2> DEFINE b == list[m + 1]
  <2>3. after(m + 1) = ParseBoard(after(m), b, crate.connector)
    BY <1>2
  <2>4. metBy(m + 1) = metBy(m) \cup {BoardOf(crate, b)}
    BY <1>3
  <2> HIDE DEF b
  <2>5. b.parameters \in params
    BY <2>2 DEF b
  <2>6. WalkedIn(ParseBoard(after(m), b, crate.connector),
                 metBy(m) \cup {BoardOf(crate, b)}, params, crate)
    BY <2>2, <2>5, ParseBoardWalks
  <2> QED
    BY <2>3, <2>4, <2>6
<1>7. Len(list) \in T
  <2> HIDE DEF T
  <2> QED
    BY <1>1, <1>5, <1>6, Induction
<1>8. WalkedIn(after(Len(list)), metBy(Len(list)), params, crate)
  BY <1>1, <1>7
<1> QED
  BY <1>4, <1>8 DEF list, after

\* One turn of the loop of parseModules, and all of them: no connector.
LEMMA ParseModuleWalks ==
  ASSUME NEW at, NEW met, NEW params, Walked(at, met, params),
         NEW module, module.parameters \in params
  PROVE  Walked(Known(at, module, "Module"), met, params)
<1> DEFINE after == Known(at, module, "Module")
<1>1. /\ Shape(after)
      /\ after.links = at.links /\ after.id = at.id /\ after.crateId = at.crateId
      /\ ~after.failed =>
           /\ ~at.failed
           /\ after.infos = Emplaced(at.infos, module.name,
                              [class |-> "Module", parameters |-> module.parameters])
  BY KnownIs DEF Walked
<1> HIDE DEF after
<1> SUFFICES ASSUME ~after.failed PROVE InfosRight(after, params) /\ NumbersRight(after, met)
  BY <1>1 DEF Walked, after
<1>2. InfosRight(at, params) /\ NumbersRight(at, met)
  BY <1>1 DEF Walked
<1>3. InfosRight(after, params) /\ DOMAIN at.infos \subseteq DOMAIN after.infos
  BY <1>1, <1>2 DEF InfosRight, Emplaced
<1>4. NumbersRight(after, met)
  BY <1>1, <1>2, <1>3 DEF NumbersRight
<1> QED
  BY <1>3, <1>4

LEMMA ParseModulesWalks ==
  ASSUME NEW at, NEW met, NEW params, Walked(at, met, params),
         NEW list, IsSequence(list), \A e \in ToSet(list) : e.parameters \in params
  PROVE  Walked(ParseModules(at, list)[Len(list)], met, params)
<1> DEFINE after(m) == ParseModules(at, list)[m]
           T == {m \in Nat : m <= Len(list) => Walked(after(m), met, params)}
<1>1. /\ Len(list) \in Nat /\ DOMAIN list = 1..Len(list)
      /\ \A i \in 1..Len(list) : list[i].parameters \in params
  BY SequenceOf DEF ToSet
<1>2. /\ after(0) = at
      /\ \A m \in Nat : m + 1 <= Len(list) => after(m + 1) = Known(after(m), list[m + 1], "Module")
  BY <1>1, ParseModulesIs
<1> HIDE DEF after
<1>3. 0 \in T
  BY <1>2
<1>4. ASSUME NEW m \in Nat, m \in T PROVE m + 1 \in T
  <2> SUFFICES ASSUME m + 1 <= Len(list) PROVE Walked(after(m + 1), met, params)
    OBVIOUS
  <2>1. m <= Len(list) /\ m + 1 \in 1..Len(list)
    BY <1>1
  <2>2. Walked(after(m), met, params) /\ list[m + 1].parameters \in params
    BY <1>1, <1>4, <2>1
  <2> QED
    BY <1>2, <2>2, ParseModuleWalks
<1>5. Len(list) \in T
  <2> HIDE DEF T
  <2> QED
    BY <1>1, <1>3, <1>4, Induction
<1> QED
  BY <1>1, <1>5 DEF after

\* parseCrates, for a crate whose name is new.
LEMMA ParseCrateWalks ==
  ASSUME NEW at, NEW met, NEW params, Walked(at, met, params),
         NEW crate, \A e \in met : e.crate # crate.name,
         IsSequence(crate.boards), \A b \in ToSet(crate.boards) : b.parameters \in params,
         IsSequence(crate.modules), \A e \in ToSet(crate.modules) : e.parameters \in params
  PROVE  Walked(ParseCrate(at, crate), met \cup {BoardOf(crate, b) : b \in ToSet(crate.boards)},
                params)
<1> DEFINE shared == crate.connector # NoConnector
           begun == IF shared THEN [at EXCEPT !.id = @ + 1, !.crateId = at.id + 1] ELSE at
           read == ParseBoards(begun, crate.boards, crate.connector)[Len(crate.boards)]
           more == met \cup {BoardOf(crate, b) : b \in ToSet(crate.boards)}
<1>1. ParseCrate(at, crate) =
        IF shared /\ crate.boards # << >> THEN read
        ELSE ParseModules(read, crate.modules)[Len(crate.modules)]
  BY DEF ParseCrate
<1>2. WalkedIn(begun, met, params, crate)
  <2>1. CASE ~shared
    BY <2>1 DEF WalkedIn, CrateRight
  <2>2. CASE shared
    <3>1. /\ Shape(begun) /\ begun.failed = at.failed
          /\ begun.infos = at.infos /\ begun.links = at.links
          /\ begun.id = at.id + 1 /\ begun.crateId = at.id + 1
      BY <2>2 DEF Walked, Shape
    <3> HIDE DEF begun
    <3> SUFFICES ASSUME ~at.failed
                 PROVE  /\ InfosRight(begun, params) /\ NumbersRight(begun, met)
                        /\ CrateRight(begun, met, crate)
      BY <3>1 DEF WalkedIn, Walked
    <3>2. InfosRight(at, params) /\ NumbersRight(at, met)
      BY DEF Walked
    <3>3. InfosRight(begun, params)
      BY <3>1, <3>2 DEF InfosRight
    <3>4. NumbersRight(begun, met)
      BY <3>1, <3>2 DEF NumbersRight
    <3>5. CrateRight(begun, met, crate)
      BY <3>1, <3>2 DEF NumbersRight, CrateRight
    <3> QED
      BY <3>3, <3>4, <3>5
  <2> QED
    BY <2>1, <2>2
<1> HIDE DEF begun
<1>3. Walked(read, more, params)
  BY <1>2, ParseBoardsWalks DEF WalkedIn
<1> HIDE DEF read, more
<1>4. Walked(ParseModules(read, crate.modules)[Len(crate.modules)], more, params)
  BY <1>3, ParseModulesWalks
<1> QED
  BY <1>1, <1>3, <1>4 DEF more

\* All the crates of the file.
LEMMA ParseCratesWalks ==
  ASSUME NEW params, NEW crates, IsSequence(crates), Unique(crates),
         \A c \in ToSet(crates) :
           /\ IsSequence(c.boards) /\ \A b \in ToSet(c.boards) : b.parameters \in params
           /\ IsSequence(c.modules) /\ \A e \in ToSet(c.modules) : e.parameters \in params
  PROVE  Walked(ParseCrates(crates)[Len(crates)],
                UNION {{BoardOf(c, b) : b \in ToSet(c.boards)} : c \in ToSet(crates)}, params)
<1> DEFINE after(m) == ParseCrates(crates)[m]
           boardsOf(c) == {BoardOf(c, b) : b \in ToSet(c.boards)}
           metBy(m) == UNION {boardsOf(crates[k]) : k \in 1..m}
           T == {m \in Nat : m <= Len(crates) => Walked(after(m), metBy(m), params)}
<1>1. /\ Len(crates) \in Nat /\ DOMAIN crates = 1..Len(crates)
      /\ \A k \in 1..Len(crates) : crates[k] \in ToSet(crates)
  BY SequenceOf DEF ToSet
<1>2. /\ after(0) = Nothing
      /\ \A m \in Nat : m + 1 <= Len(crates) => after(m + 1) = ParseCrate(after(m), crates[m + 1])
  BY <1>1, ParseCratesIs
<1>3. \A c : \A e \in boardsOf(c) : e.crate = c.name
  BY DEF BoardOf
<1> HIDE DEF boardsOf
<1>4. /\ metBy(0) = {}
      /\ \A m \in Nat : metBy(m + 1) = metBy(m) \cup boardsOf(crates[m + 1])
  <2>1. \A m \in Nat : 1..(m + 1) = 1..m \cup {m + 1}
    OBVIOUS
  <2> QED
    BY <2>1
<1>5. metBy(Len(crates)) = UNION {boardsOf(c) : c \in ToSet(crates)}
  BY <1>1 DEF ToSet
<1>6. \A m \in Nat : m + 1 <= Len(crates) => \A e \in metBy(m) : e.crate # crates[m + 1].name
  <2> SUFFICES ASSUME NEW m \in Nat, m + 1 <= Len(crates), NEW e \in metBy(m)
               PROVE  e.crate # crates[m + 1].name
    OBVIOUS
  <2>1. PICK k \in 1..m : e \in boardsOf(crates[k])
    OBVIOUS
  <2>2. e.crate = crates[k].name /\ k \in DOMAIN crates /\ m + 1 \in DOMAIN crates /\ k # m + 1
    BY <1>1, <1>3, <2>1
  <2> QED
    BY <2>2 DEF Unique
<1> HIDE DEF after, metBy
<1>7. 0 \in T
  <2>1. Walked(Nothing, {}, params)
    BY DEF Nothing, Walked, Shape, InfosRight, NumbersRight
  <2> QED
    BY <1>2, <1>4, <2>1
<1>8. ASSUME NEW m \in Nat, m \in T PROVE m + 1 \in T
  <2> SUFFICES ASSUME m + 1 <= Len(crates) PROVE Walked(after(m + 1), metBy(m + 1), params)
    OBVIOUS
  <2>1. m <= Len(crates) /\ m + 1 \in 1..Len(crates)
    BY <1>1
  <2> DEFINE c == crates[m + 1]
  <2>2. Walked(after(m), metBy(m), params) /\ c \in ToSet(crates)
    BY <1>1, <1>8, <2>1
  <2>3. \A e \in metBy(m) : e.crate # c.name
    BY <1>6
  <2> HIDE DEF c
  <2>4. Walked(ParseCrate(after(m), c), metBy(m) \cup boardsOf(c), params)
    BY <2>2, <2>3, ParseCrateWalks DEF boardsOf
  <2> QED
    BY <1>2, <1>4, <2>4 DEF c
<1>9. Len(crates) \in T
  <2> HIDE DEF T
  <2> QED
    BY <1>1, <1>7, <1>8, Induction
<1>10. Walked(after(Len(crates)), metBy(Len(crates)), params)
  BY <1>1, <1>9
<1> QED
  BY <1>5, <1>10 DEF after, boardsOf

\* The crates of a file, and what is in them.
LEMMA CratesAre ==
  ASSUME NEW f \in File
  PROVE  /\ IsSequence(Crates(f))
         /\ \A r \in DOMAIN f : \A k \in DOMAIN f[r].racks :
              /\ IsSequence(f[r].racks[k].crates)
              /\ ToSet(f[r].racks[k].crates) \subseteq ToSet(Crates(f))
         /\ \A c \in ToSet(Crates(f)) :
              IsSequence(c.boards) /\ IsSequence(c.modules)
<1> DEFINE racksOf == [r \in DOMAIN f |-> f[r].racks]
           cratesOf == [k \in DOMAIN Racks(f) |-> Racks(f)[k].crates]
<1>1. IsSequence(f) /\ \A r \in DOMAIN f : IsSequence(f[r].racks)
  BY FilesAssumption
<1>2. IsSequence(racksOf)
  <2>1. Len(f) \in Nat /\ DOMAIN f = 1..Len(f)
    BY <1>1, SequenceOf
  <2>2. racksOf \in Seq({f[r].racks : r \in DOMAIN f})
    BY <2>1
  <2> QED
    BY <2>2, SequenceIs
<1>3. /\ IsSequence(Racks(f))
      /\ ToSet(Racks(f)) = UNION {ToSet(f[r].racks) : r \in DOMAIN f}
  <2>1. DOMAIN racksOf = DOMAIN f /\ \A r \in DOMAIN f : racksOf[r] = f[r].racks
    OBVIOUS
  <2>2. Racks(f) = Joined(racksOf)
    BY DEF Racks
  <2> HIDE DEF racksOf
  <2>3. \A r \in DOMAIN racksOf : IsSequence(racksOf[r])
    BY <1>1, <2>1
  <2>4. /\ IsSequence(Joined(racksOf))
        /\ ToSet(Joined(racksOf)) = UNION {ToSet(racksOf[r]) : r \in DOMAIN racksOf}
    BY <1>2, <2>3, JoinedIs
  <2> QED
    BY <2>1, <2>2, <2>4
<1>4. \A k \in DOMAIN Racks(f) : IsSequence(Racks(f)[k].crates)
  BY FilesAssumption
<1>5. IsSequence(cratesOf)
  <2>1. Len(Racks(f)) \in Nat /\ DOMAIN Racks(f) = 1..Len(Racks(f))
    BY <1>3, SequenceOf
  <2>2. cratesOf \in Seq({Racks(f)[k].crates : k \in DOMAIN Racks(f)})
    BY <2>1
  <2> QED
    BY <2>2, SequenceIs
<1>6. /\ IsSequence(Crates(f))
      /\ ToSet(Crates(f)) = UNION {ToSet(Racks(f)[k].crates) : k \in DOMAIN Racks(f)}
  <2>1. /\ DOMAIN cratesOf = DOMAIN Racks(f)
        /\ \A k \in DOMAIN Racks(f) : cratesOf[k] = Racks(f)[k].crates
    OBVIOUS
  <2>2. Crates(f) = Joined(cratesOf)
    BY DEF Crates
  <2> HIDE DEF cratesOf
  <2>3. \A k \in DOMAIN cratesOf : IsSequence(cratesOf[k])
    BY <1>4, <2>1
  <2>4. /\ IsSequence(Joined(cratesOf))
        /\ ToSet(Joined(cratesOf)) = UNION {ToSet(cratesOf[k]) : k \in DOMAIN cratesOf}
    BY <1>5, <2>3, JoinedIs
  <2> QED
    BY <2>1, <2>2, <2>4
<1>7. ASSUME NEW r \in DOMAIN f, NEW k \in DOMAIN f[r].racks
      PROVE  /\ IsSequence(f[r].racks[k].crates)
             /\ ToSet(f[r].racks[k].crates) \subseteq ToSet(Crates(f))
  <2>1. f[r].racks[k] \in ToSet(Racks(f))
    <3>1. f[r].racks[k] \in ToSet(f[r].racks)
      BY DEF ToSet
    <3> QED
      BY <1>3, <3>1
  <2>2. PICK j \in DOMAIN Racks(f) : Racks(f)[j] = f[r].racks[k]
    BY <2>1 DEF ToSet
  <2> QED
    BY <1>4, <1>6, <2>2
<1>8. ASSUME NEW c \in ToSet(Crates(f)) PROVE IsSequence(c.boards) /\ IsSequence(c.modules)
  <2>1. PICK i \in DOMAIN Crates(f) : Crates(f)[i] = c
    BY DEF ToSet
  <2> QED
    BY <2>1, FilesAssumption
<1> QED
  BY <1>6, <1>7, <1>8

\* parse: an accepted file is in the tables as it stands.
LEMMA ParseIs ==
  ASSUME NEW f \in File, ~Parse(f).failed
  PROVE  InfosRight(Parse(f), Parameters) /\ NumbersRight(Parse(f), BoardsOf(f))
<1>1. Unique(Crates(f)) /\ Parse(f) = ParseCrates(Crates(f))[Len(Crates(f))]
  <2>1. [Nothing EXCEPT !.failed = TRUE].failed
    BY DEF Nothing
  <2> QED
    BY <2>1 DEF Parse
<1>2. ASSUME NEW c \in ToSet(Crates(f)), NEW e, e \in ToSet(c.boards) \/ e \in ToSet(c.modules)
      PROVE  e.parameters \in Parameters
  <2>1. e \in EntriesOf(f, "Board") \/ e \in EntriesOf(f, "Module")
    BY <1>2 DEF EntriesOf, Entries
  <2> QED
    BY <2>1 DEF Parameters
<1>3. \A c \in ToSet(Crates(f)) :
         /\ IsSequence(c.boards) /\ \A b \in ToSet(c.boards) : b.parameters \in Parameters
         /\ IsSequence(c.modules) /\ \A e \in ToSet(c.modules) : e.parameters \in Parameters
  BY <1>2, CratesAre
<1>4. Walked(Parse(f), BoardsOf(f), Parameters)
  BY <1>1, <1>3, CratesAre, ParseCratesWalks DEF BoardsOf
<1> QED
  BY <1>4 DEF Walked

\* reloadParameters: what is found is in the file, under that name and class.
LEMMA ReloadIs ==
  ASSUME NEW f \in File, NEW name, NEW class, Reload(f, name, class).found
  PROVE  \E e \in EntriesOf(f, class) :
           e.name = name /\ e.parameters = Reload(f, name, class).parameters
<1> DEFINE crates == f[1].racks[1].crates
           ends == {i \in DOMAIN crates : \/ Entries(crates[i], class) = << >>
                                          \/ Named(Entries(crates[i], class), name) # {}}
           end == CHOOSE i \in ends : \A j \in ends : i <= j
           entries == Entries(crates[end], class)
           place == CHOOSE i \in Named(entries, name) : \A j \in Named(entries, name) : i <= j
<1>1. Reload(f, name, class) =
        IF ends = {} THEN [found |-> FALSE]
        ELSE IF entries = << >> THEN [found |-> FALSE]
        ELSE [found |-> TRUE, parameters |-> entries[place].parameters]
  BY DEF Reload
<1>2. IsSequence(crates) /\ ToSet(crates) \subseteq ToSet(Crates(f))
  <2>1. 1 \in DOMAIN f /\ 1 \in DOMAIN f[1].racks
    BY FilesAssumption, SequenceOf
  <2> QED
    BY <2>1, CratesAre
<1> HIDE DEF crates
<1>3. ends \in SUBSET Nat
  BY <1>2, SequenceOf
<1> HIDE DEF place
<1>4. ends # {} /\ entries # << >>
  <2> HIDE DEF ends, entries
  <2> QED
    BY <1>1
<1>5. end \in ends
  <2> HIDE DEF ends
  <2> QED
    BY <1>3, <1>4, Least
<1> HIDE DEF end
<1>6. Named(entries, name) # {} /\ crates[end] \in ToSet(Crates(f))
  BY <1>2, <1>4, <1>5 DEF ToSet
<1>7. IsSequence(entries)
  BY <1>6, CratesAre DEF Entries
<1>8. ToSet(entries) \subseteq EntriesOf(f, class)
  BY <1>6 DEF EntriesOf
<1>9. Reload(f, name, class).parameters = entries[place].parameters
  <2> HIDE DEF ends, entries
  <2> QED
    BY <1>1, <1>4
<1> HIDE DEF entries
<1>10. Named(entries, name) \in SUBSET Nat
  BY <1>7, SequenceOf DEF Named
<1>11. place \in Named(entries, name)
  BY <1>6, <1>10, Least DEF place
<1>12. entries[place] \in EntriesOf(f, class) /\ entries[place].name = name
  BY <1>8, <1>11 DEF Named, ToSet
<1> QED
  BY <1>9, <1>12

-----------------------------------------------------------------------------
(* The invariant of the configuration. *)

\* What is loaded has come from a file.
LoadedPhase ==
  /\ file \in File /\ parsed \in BOOLEAN
  /\ \A n \in DOMAIN infos : infos[n] \in [class : {"Board", "Module"}, parameters : Parameters]
  /\ DOMAIN links \subseteq DOMAIN infos
  /\ \A n \in DOMAIN links : links[n].id \in Nat

BoardTypes ==
  /\ state \in [Mine -> State]
  /\ m_Conf \in [Mine -> Parameters \cup {0}]
  /\ recounted \subseteq Type /\ raced \subseteq Type
  /\ alive \in BOOLEAN

FInv == CInv /\ LoadedPhase /\ BoardTypes

LEMMA Reached ==
  ASSUME BoardTypes, NEW b, NEW action \in Action, Reaches(b, action)
  PROVE  state' \in [Mine -> State]
<1>1. Target(action) \in State
  BY DEF Target, Action, State
<1> QED
  BY <1>1 DEF BoardTypes, Reaches

\* LoadConfig.
LEMMA LoadedIs ==
  ASSUME LoadedPhase, ~Loaded.failed
  PROVE  /\ \A n \in DOMAIN Loaded.infos :
              Loaded.infos[n] \in [class : {"Board", "Module"}, parameters : Parameters]
         /\ DOMAIN Loaded.links \subseteq DOMAIN Loaded.infos
         /\ \A n \in DOMAIN Loaded.links : Loaded.links[n].id \in Nat
<1>1. CASE parsed
  BY <1>1 DEF LoadedPhase, Loaded
<1>2. CASE ~parsed
  <2>1. Loaded = Parse(file)
    BY <1>2 DEF Loaded
  <2>2. InfosRight(Loaded, Parameters) /\ NumbersRight(Loaded, BoardsOf(file))
    BY <2>1, ParseIs DEF LoadedPhase
  <2> QED
    BY <2>2 DEF InfosRight, NumbersRight
<1> QED
  BY <1>1, <1>2

\* LoadConfig and DoConfigure's reload; no other handler changes the tables but to
\* forget them.
LEMMA InitializeFInv ==
  ASSUME FInv, NEW b \in Mine, Initialize(b)
  PROVE  LoadedPhase' /\ BoardTypes'
<1>1. /\ ~Loaded.failed /\ b \in DOMAIN Loaded.infos /\ parsed' = TRUE
      /\ infos' = Loaded.infos /\ links' = Loaded.links
      /\ m_Conf' = [m_Conf EXCEPT ![b] = infos'[b].parameters]
      /\ Reaches(b, "Initialize") /\ UNCHANGED <<file, recounted, raced, alive>>
  BY DEF Initialize, connectors
<1>2. LoadedPhase'
  BY <1>1, LoadedIs DEF FInv, LoadedPhase
<1>3. infos'[b].parameters \in Parameters
  BY <1>1, <1>2 DEF LoadedPhase
<1>4. state' \in [Mine -> State]
  BY <1>1, Reached DEF FInv, Action
<1> QED
  BY <1>1, <1>2, <1>3, <1>4 DEF FInv, BoardTypes

LEMMA ConfigureIs ==
  ASSUME FInv, NEW b \in Mine, Configure(b)
  PROVE  /\ b \in DOMAIN infos
         /\ m_Conf'[b] = infos'[b].parameters
         /\ infos'[b].parameters = Reload(file, b, infos[b].class).parameters
         /\ \E e \in EntriesOf(file, infos[b].class) : e.name = b /\ e.parameters = m_Conf'[b]
         /\ m_Conf'[b] \in Parameters
<1>1. /\ Reloaded(b).found
      /\ infos' = [infos EXCEPT ![b].parameters = Reloaded(b).parameters]
      /\ m_Conf' = [m_Conf EXCEPT ![b] = infos'[b].parameters]
  BY DEF Configure
<1>2. b \in DOMAIN infos /\ Reloaded(b) = Reload(file, b, infos[b].class)
  BY <1>1 DEF Reloaded
<1>3. infos[b] \in [class : {"Board", "Module"}, parameters : Parameters]
  BY <1>2 DEF FInv, LoadedPhase
<1>4. infos'[b].parameters = Reloaded(b).parameters
  BY <1>1, <1>2, <1>3
<1>5. m_Conf'[b] = infos'[b].parameters
  BY <1>1 DEF FInv, BoardTypes
<1>6. PICK e \in EntriesOf(file, infos[b].class) : e.name = b /\ e.parameters = m_Conf'[b]
  BY <1>1, <1>2, <1>4, <1>5, ReloadIs DEF FInv, LoadedPhase
<1>7. e.parameters \in Parameters
  BY <1>3 DEF Parameters, FInv, LoadedPhase
<1> QED
  BY <1>2, <1>4, <1>5, <1>6, <1>7

LEMMA ConfigureFInv ==
  ASSUME FInv, NEW b \in Mine, Configure(b)
  PROVE  LoadedPhase' /\ BoardTypes'
<1>1. /\ infos' = [infos EXCEPT ![b].parameters = Reloaded(b).parameters]
      /\ m_Conf' = [m_Conf EXCEPT ![b] = infos'[b].parameters]
      /\ Reaches(b, "Configure") /\ UNCHANGED <<file, parsed, links, recounted, raced, alive>>
  BY DEF Configure, connectors
<1>2. b \in DOMAIN infos /\ infos'[b].parameters \in Parameters /\ m_Conf'[b] = infos'[b].parameters
  BY ConfigureIs
<1>3. DOMAIN infos' = DOMAIN infos /\ \A n \in DOMAIN infos : n # b => infos'[n] = infos[n]
  BY <1>1
<1>4. infos[b] \in [class : {"Board", "Module"}, parameters : Parameters]
  BY <1>2 DEF FInv, LoadedPhase
<1>5. infos'[b] \in [class : {"Board", "Module"}, parameters : Parameters]
  <2> DEFINE new == Reloaded(b).parameters
  <2>1. infos'[b] = [infos[b] EXCEPT !.parameters = new]
    BY <1>1, <1>2
  <2> HIDE DEF new
  <2> QED
    BY <1>2, <1>4, <2>1
<1>6. LoadedPhase'
  BY <1>1, <1>3, <1>5 DEF FInv, LoadedPhase
<1>7. state' \in [Mine -> State]
  BY <1>1, Reached DEF FInv, Action
<1> QED
  BY <1>1, <1>2, <1>6, <1>7 DEF FInv, BoardTypes

\* The others leave the tables alone.
LEMMA ConnectFInv ==
  ASSUME FInv, NEW b \in Mine,
         \/ BeginConnect(b) \/ CheckConnected(b) \/ Open(b) \/ Count(b) \/ ConnectAgain(b)
         \/ Disconnect(b) \/ Close(b) \/ DisconnectAgain(b)
  PROVE  LoadedPhase' /\ BoardTypes'
<1>1. UNCHANGED <<file, parsed, infos, links, m_Conf, alive>>
  BY DEF BeginConnect, CheckConnected, Open, Count, ConnectAgain, Disconnect, Close, DisconnectAgain, config
<1>2. LoadedPhase'
  BY <1>1 DEF FInv, LoadedPhase
<1>3. recounted' \subseteq Type /\ raced' \subseteq Type
  <2>1. CASE BeginConnect(b)
    <3>1. Plugin(b) \in Type
      BY <2>1 DEF BeginConnect, Connectable, Plugin, FInv, CInv, ConnectorTypes
    <3>2. (recounted' = recounted \/ recounted' = recounted \cup {Plugin(b)}) /\ raced' = raced
      BY <2>1 DEF BeginConnect
    <3> QED
      BY <3>1, <3>2 DEF FInv, BoardTypes
  <2>2. CASE CheckConnected(b) \/ Disconnect(b)
    <3>1. m_Connector[b] \in Type
      BY <2>2 DEF CheckConnected, Disconnect, FInv, CInv, BoardPhase
    <3>2. (raced' = raced \/ raced' = raced \cup {m_Connector[b]}) /\ recounted' = recounted
      BY <2>2 DEF CheckConnected, Disconnect, Raced
    <3> QED
      BY <3>1, <3>2 DEF FInv, BoardTypes
  <2>3. CASE Open(b) \/ Count(b) \/ ConnectAgain(b) \/ Close(b) \/ DisconnectAgain(b)
    <3>1. UNCHANGED <<recounted, raced>>
      BY <2>3 DEF Open, Count, ConnectAgain, Close, DisconnectAgain, connectors
    <3> QED
      BY <3>1 DEF FInv, BoardTypes
  <2> QED
    BY <2>1, <2>2, <2>3
<1>4. state' \in [Mine -> State]
  <2>1. CASE BeginConnect(b) \/ CheckConnected(b) \/ Open(b) \/ Disconnect(b)
    BY <2>1 DEF BeginConnect, CheckConnected, Open, Disconnect, FInv, BoardTypes
  <2>2. CASE Count(b) \/ ConnectAgain(b) \/ Close(b) \/ DisconnectAgain(b)
    <3>1. Reaches(b, "Connect") \/ Reaches(b, "Disconnect")
      BY <2>2 DEF Count, ConnectAgain, Close, DisconnectAgain
    <3> QED
      BY <3>1, Reached DEF FInv, Action
  <2> QED
    BY <2>1, <2>2
<1> QED
  BY <1>1, <1>2, <1>3, <1>4 DEF FInv, BoardTypes

LEMMA ReleaseFInv ==
  ASSUME FInv, NEW b \in Mine, Release(b) \/ \E action \in Action : Other(b, action)
  PROVE  LoadedPhase' /\ BoardTypes'
<1>1. UNCHANGED <<file, recounted, raced, m_Conf, alive>>
  BY DEF Release, Other, connectors
<1>2. LoadedPhase'
  <2>1. CASE Release(b)
    <3>1. infos' = << >> /\ links' = << >> /\ parsed' = FALSE
      BY <2>1 DEF Release
    <3>2. DOMAIN infos' = {} /\ DOMAIN links' = {}
      BY <3>1
    <3> QED
      BY <1>1, <3>1, <3>2 DEF FInv, LoadedPhase
  <2>2. CASE ~Release(b)
    <3>1. UNCHANGED <<parsed, infos, links>>
      BY <2>2 DEF Other, config
    <3> QED
      BY <1>1, <3>1 DEF FInv, LoadedPhase
  <2> QED
    BY <2>1, <2>2
<1>3. state' \in [Mine -> State]
  <2>1. \E action \in Action : Reaches(b, action)
    BY DEF Release, Other, Action
  <2> QED
    BY <2>1, Reached DEF FInv
<1> QED
  BY <1>1, <1>2, <1>3 DEF FInv, BoardTypes

LEMMA FInvInit == Init => FInv
<1> SUFFICES ASSUME Init PROVE FInv
  OBVIOUS
<1>1. LoadedPhase
  <2>1. infos = << >> /\ links = << >> /\ file \in File /\ parsed = FALSE
    BY DEF Init
  <2>2. DOMAIN infos = {} /\ DOMAIN links = {}
    BY <2>1
  <2> QED
    BY <2>1, <2>2 DEF LoadedPhase
<1>2. BoardTypes
  BY DEF Init, BoardTypes, State
<1> QED
  BY <1>1, <1>2, CInvInit DEF FInv

LEMMA FInvNext ==
  ASSUME FInv, [Next]_vars
  PROVE  FInv'
<1>1. CInv'
  BY CInvNext, ConnectorsKept DEF FInv, vars, boards
<1>2. ASSUME UNCHANGED vars PROVE LoadedPhase' /\ BoardTypes'
  BY <1>2 DEF vars, config, connectors, boards, FInv, LoadedPhase, BoardTypes
<1>3. ASSUME NEW f \in File, Edit(f) PROVE LoadedPhase' /\ BoardTypes'
  BY <1>3 DEF Edit, config, connectors, boards, FInv, LoadedPhase, BoardTypes
<1>4. ASSUME NEW b \in Mine, InitializeFails(b) \/ ConnectFails(b) \/ ConfigureFails(b)
      PROVE  LoadedPhase' /\ BoardTypes'
  <2>1. End
    BY <1>4 DEF InitializeFails, ConnectFails, ConfigureFails
  <2> QED
    BY <2>1 DEF End, config, connectors, boards, FInv, LoadedPhase, BoardTypes
<1>5. LoadedPhase' /\ BoardTypes'
  BY <1>2, <1>3, <1>4, InitializeFInv, ConfigureFInv, ConnectFInv, ReleaseFInv DEF Next
<1> QED
  BY <1>1, <1>5 DEF FInv

LEMMA FileInvariance == Spec => []FInv
  BY FInvInit, FInvNext, PTL DEF Spec

-----------------------------------------------------------------------------
(* The theorems on the configuration. *)

\* BTypeOK: what a board has been given has come from some file, whatever was edited and
\* whenever (ConfigurationLoader, Board::CallBoardConnect).
THEOREM BoardsTypeCorrect == Spec => []BTypeOK
<1>1. FInv => BTypeOK
  BY DEF FInv, CInv, ConnectorTypes, PluginTypes, LoadedPhase, BoardTypes, BTypeOK
<1> QED
  BY <1>1, FileInvariance, PTL

\* ConfiguredFromFile: Configure reads the file again, and the module has what the first
\* entry of its name and class in it says (reloadParameters), for any files.
THEOREM ConfiguredAsInFile == Spec => ConfiguredFromFile
<1> DEFINE Claim == \A b \in Mine :
                      state[b] # "Configured" /\ state'[b] = "Configured" =>
                        \E e \in EntriesOf(file, infos[b].class) :
                          e.name = b /\ e.parameters = m_Conf'[b]
<1>1. ASSUME FInv, [Next]_vars PROVE Claim
  <2> SUFFICES ASSUME NEW b \in Mine, state[b] # "Configured", state'[b] = "Configured"
               PROVE  \E e \in EntriesOf(file, infos[b].class) :
                        e.name = b /\ e.parameters = m_Conf'[b]
    OBVIOUS
  <2>1. \A d \in Mine, action \in Action :
          Reaches(d, action) => d = b /\ Target(action) = "Configured"
    BY <1>1 DEF Reaches, FInv, BoardTypes
  <2>2. \A action \in Action : Target(action) = "Configured" => action = "Configure"
    BY DEF Target, Action
  <2>3. state' # state
    OBVIOUS
  <2>4. PICK d \in Mine : Configure(d)
    <3>1. ASSUME NEW d \in Mine,
                 \/ Initialize(d) \/ Count(d) \/ ConnectAgain(d) \/ Close(d)
                 \/ DisconnectAgain(d) \/ Release(d) \/ \E action \in Action : Other(d, action)
          PROVE  FALSE
      <4>1. \E action \in Action : Reaches(d, action) /\ action # "Configure"
        BY <3>1 DEF Initialize, Count, ConnectAgain, Close, DisconnectAgain, Release, Other,
                    Action
      <4> QED
        BY <2>1, <2>2, <4>1
    <3>2. ASSUME NEW d \in Mine, \/ InitializeFails(d) \/ ConnectFails(d) \/ ConfigureFails(d)
                                 \/ BeginConnect(d) \/ CheckConnected(d) \/ Open(d) \/ Disconnect(d)
          PROVE  FALSE
      BY <2>3, <3>2 DEF InitializeFails, ConnectFails, ConfigureFails, BeginConnect, CheckConnected,
                        Open, Disconnect, End, boards
    <3>3. ASSUME (\E f \in File : Edit(f)) \/ UNCHANGED vars PROVE FALSE
      BY <2>3, <3>3 DEF Edit, vars, boards
    <3> QED
      BY <1>1, <3>1, <3>2, <3>3 DEF Next
  <2>5. d = b
    BY <2>1, <2>4 DEF Configure, Action
  <2> QED
    BY <1>1, <2>4, <2>5, ConfigureIs
<1>2. FInv /\ [Next]_vars => [Claim]_vars
  BY <1>1
<1> QED
  BY <1>2, FileInvariance, PTL DEF Spec, ConfiguredFromFile

\* NumbersFollowSharing: whatever a file says, if it is accepted each board has the
\* connector that is written for it or else its crate's, and two boards have the same
\* number exactly when both use the connector of one crate (parseCrates, parseBoards).
THEOREM NumbersAsShared == Spec => NumbersFollowSharing
<1> DEFINE Claim == ~parsed /\ parsed' =>
                      \A e, d \in BoardsOf(file) :
                        /\ links'[e.name].connector = e.connector
                        /\ links'[e.name].id = links'[d.name].id <=> SharesConnector(e, d)
<1>1. ASSUME FInv, [Next]_vars PROVE Claim
  <2> SUFFICES ASSUME ~parsed, parsed' 
               PROVE  NumbersRight(Parse(file), BoardsOf(file)) /\ links' = Parse(file).links
    BY DEF NumbersRight
  <2>1. PICK b \in Mine : Initialize(b)
    <3>1. parsed' # parsed
      BY <1>1 DEF FInv, LoadedPhase
    <3>2. ASSUME NEW b \in Mine,
                 \/ InitializeFails(b) \/ BeginConnect(b) \/ CheckConnected(b) \/ Open(b)
                 \/ Count(b) \/ ConnectFails(b) \/ ConnectAgain(b) \/ Configure(b)
                 \/ ConfigureFails(b) \/ Disconnect(b) \/ Close(b)
                 \/ DisconnectAgain(b) \/ Release(b) \/ \E action \in Action : Other(b, action)
          PROVE  FALSE
      BY <3>1, <3>2 DEF InitializeFails, BeginConnect, CheckConnected, Open, Count, ConnectFails,
                        ConnectAgain, Configure, ConfigureFails, Disconnect, Close, DisconnectAgain,
                        Release, Other, End, config
    <3>3. ASSUME (\E f \in File : Edit(f)) \/ UNCHANGED vars PROVE FALSE
      BY <3>1, <3>3 DEF Edit, vars, config
    <3> QED
      BY <1>1, <3>2, <3>3 DEF Next
  <2>2. ~Parse(file).failed /\ links' = Parse(file).links
    BY <2>1 DEF Initialize, Loaded
  <2> QED
    BY <1>1, <2>2, ParseIs DEF FInv, LoadedPhase
<1>2. FInv /\ [Next]_vars => [Claim]_vars
  BY <1>1
<1> QED
  BY <1>2, FileInvariance, PTL DEF Spec, NumbersFollowSharing

=============================================================================
