---------------------------- MODULE RunFiles_proofs ----------------------------
(***************************************************************************)
(* The files of the runs, proved for any number of actions, of data and of *)
(* callbacks that overlap: a file holds the data of one run, in its order, *)
(* and no data is missing but what met a writer without a file and what    *)
(* the guard of MessageHandlerServer::send has kept from the writer, which *)
(* takes callbacks that overlap.                                           *)
(*                                                                         *)
(* The source and the writer get the same actions, each at its own pace.   *)
(* Each queue is therefore described by the course it will lead its reader *)
(* through: a function that gives, after each of its messages, where the   *)
(* reader stands then.                                                     *)
(***************************************************************************)
EXTENDS RunFiles, TLAPS, WellFoundedInduction

-----------------------------------------------------------------------------
(* Induction, from a set that has what it claims of 0 and of n + 1.         *)

LEMMA Least ==
  ASSUME NEW T \in SUBSET Nat, T # {}
  PROVE  \E x \in T : \A y \in T : x <= y
<1>1. PICK x \in T : \A y \in T : ~(<<y, x>> \in OpToRel(<, Nat))
  BY NatLessThanWellFounded, WFMin
<1>2. \A y \in T : ~(y < x)
  BY <1>1 DEF OpToRel
<1> QED
  BY <1>2

LEMMA Induction ==
  ASSUME NEW T, 0 \in T, \A n \in Nat : n \in T => n + 1 \in T
  PROVE  \A n \in Nat : n \in T
<1> SUFFICES ASSUME NEW n \in Nat, n \notin T PROVE FALSE
  OBVIOUS
<1>1. PICK x \in Nat : x \notin T /\ \A y \in Nat : y \notin T => x <= y
  <2> DEFINE N == {y \in Nat : y \notin T}
  <2>1. n \in N /\ N \in SUBSET Nat
    OBVIOUS
  <2> QED
    BY <2>1, Least
<1>2. x # 0 /\ x - 1 \in Nat
  BY <1>1
<1>3. x - 1 \in T
  BY <1>1, <1>2
<1> QED
  BY <1>1, <1>2, <1>3

-----------------------------------------------------------------------------
(* A course f through V along a queue q of messages, by steps from the set R. *)

Along(q, f, V, R) ==
  /\ f \in [0..Len(q) -> V]
  /\ \A i \in 1..Len(q) : <<f[i - 1], q[i], f[i]>> \in R

\* The course when a message has been put at the end of the queue, which leads to v, and
\* when the first one has been taken.
Longer(q, f, v) == [i \in 0..(Len(q) + 1) |-> IF i <= Len(q) THEN f[i] ELSE v]
Shorter(q, f) == [i \in 0..(Len(q) - 1) |-> f[i + 1]]

LEMMA LongerIs ==
  ASSUME NEW X, NEW q \in Seq(X), NEW f, NEW v
  PROVE  /\ Longer(q, f, v)[Len(q) + 1] = v
         /\ \A i \in 0..Len(q) : Longer(q, f, v)[i] = f[i]
<1>1. Len(q) \in Nat
  OBVIOUS
<1> QED
  BY <1>1 DEF Longer

LEMMA ShorterIs ==
  ASSUME NEW X, NEW q \in Seq(X), q # << >>, NEW f
  PROVE  /\ Shorter(q, f)[0] = f[1] /\ Shorter(q, f)[Len(q) - 1] = f[Len(q)]
         /\ \A i \in 0..(Len(q) - 1) : Shorter(q, f)[i] = f[i + 1]
<1>1. Len(q) \in Nat \ {0}
  OBVIOUS
<1> QED
  BY <1>1 DEF Shorter

LEMMA CourseAppend ==
  ASSUME NEW X, NEW V, NEW R, NEW q \in Seq(X), NEW m \in X, NEW f, Along(q, f, V, R),
         NEW v \in V, <<f[Len(q)], m, v>> \in R
  PROVE  Along(Append(q, m), Longer(q, f, v), V, R)
<1> DEFINE r == Append(q, m)
           n == Len(q)
           g == Longer(q, f, v)
<1>1. /\ n \in Nat /\ Len(r) = n + 1 /\ r[n + 1] = m
      /\ \A i \in 1..n : r[i] = q[i]
  OBVIOUS
<1>2. f \in [0..n -> V] /\ \A i \in 1..n : <<f[i - 1], q[i], f[i]>> \in R
  BY DEF Along
<1>3. g \in [0..(n + 1) -> V] /\ g[n + 1] = v /\ \A i \in 0..n : g[i] = f[i]
  BY <1>1, <1>2 DEF Longer
<1> HIDE DEF g, r
<1>4. ASSUME NEW i \in 1..(n + 1) PROVE <<g[i - 1], r[i], g[i]>> \in R
  <2>1. CASE i \in 1..n
    <3>1. i - 1 \in 0..n /\ i \in 0..n
      BY <1>1, <2>1
    <3> QED
      BY <1>1, <1>2, <1>3, <2>1, <3>1
  <2>2. CASE i = n + 1
    <3>1. i - 1 = n /\ n \in 0..n
      BY <1>1, <2>2
    <3> QED
      BY <1>1, <1>3, <2>2, <3>1
  <2> QED
    BY <1>1, <2>1, <2>2
<1>5. Along(r, g, V, R)
  BY <1>1, <1>3, <1>4 DEF Along
<1> QED
  BY <1>5 DEF r, g

LEMMA CourseTail ==
  ASSUME NEW X, NEW V, NEW R, NEW q \in Seq(X), q # << >>, NEW f, Along(q, f, V, R)
  PROVE  Along(Tail(q), Shorter(q, f), V, R)
<1> DEFINE r == Tail(q)
           n == Len(q)
           g == Shorter(q, f)
<1>1. /\ n \in Nat \ {0} /\ Len(r) = n - 1
      /\ \A i \in 1..(n - 1) : r[i] = q[i + 1]
  OBVIOUS
<1>2. f \in [0..n -> V] /\ \A i \in 1..n : <<f[i - 1], q[i], f[i]>> \in R
  BY DEF Along
<1>3. g \in [0..(n - 1) -> V] /\ \A i \in 0..(n - 1) : g[i] = f[i + 1]
  BY <1>1, <1>2 DEF Shorter
<1> HIDE DEF g, r, n
<1>4. ASSUME NEW i \in 1..(n - 1) PROVE <<g[i - 1], r[i], g[i]>> \in R
  <2>1. i - 1 \in 0..(n - 1) /\ i \in 0..(n - 1) /\ (i - 1) + 1 = i /\ i + 1 \in 1..n /\ (i + 1) - 1 = i
    BY <1>1
  <2>2. <<f[i], q[i + 1], f[i + 1]>> \in R
    BY <1>2, <2>1
  <2> QED
    BY <1>1, <1>3, <2>1, <2>2
<1>5. Along(r, g, V, R)
  BY <1>1, <1>3, <1>4 DEF Along
<1> QED
  BY <1>5 DEF r, g

\* What each step keeps, in a relation that is reflexive and transitive, holds of any two
\* places.
LEMMA CourseKeeps ==
  ASSUME NEW X, NEW V, NEW R, NEW q \in Seq(X), NEW f, Along(q, f, V, R), NEW T,
         \A v \in V : <<v, v>> \in T,
         \A u, v, w \in V : <<u, v>> \in T /\ <<v, w>> \in T => <<u, w>> \in T,
         \A i \in 1..Len(q) : <<f[i - 1], f[i]>> \in T
  PROVE  \A i, j \in 0..Len(q) : i <= j => <<f[i], f[j]>> \in T
<1> SUFFICES ASSUME NEW i \in 0..Len(q)
             PROVE  \A j \in 0..Len(q) : i <= j => <<f[i], f[j]>> \in T
  OBVIOUS
<1> DEFINE n == Len(q)
           N == {j \in Nat : j \in i..n => <<f[i], f[j]>> \in T}
<1>1. n \in Nat /\ f \in [0..n -> V] /\ i \in 0..n
  BY DEF Along
<1>2. 0 \in N
  BY <1>1
<1>3. ASSUME NEW j \in Nat, j \in N PROVE j + 1 \in N
  <2> SUFFICES ASSUME j + 1 \in i..n PROVE <<f[i], f[j + 1]>> \in T
    OBVIOUS
  <2>1. CASE i = j + 1
    BY <1>1, <2>1
  <2>2. CASE i # j + 1
    <3>1. j \in i..n /\ j + 1 \in 1..n /\ (j + 1) - 1 = j
      BY <1>1, <2>2
    <3>2. <<f[i], f[j]>> \in T
      BY <1>3, <3>1
    <3>3. <<f[j], f[j + 1]>> \in T
      BY <3>1
    <3>4. f[i] \in V /\ f[j] \in V /\ f[j + 1] \in V
      BY <1>1, <3>1
    <3> QED
      BY <3>2, <3>3, <3>4
  <2> QED
    BY <2>1, <2>2
<1> HIDE DEF N
<1>4. \A j \in Nat : j \in N
  BY <1>2, <1>3, Induction
<1> QED
  BY <1>1, <1>4 DEF N

-----------------------------------------------------------------------------
(* Messages and queues. *)

Four == {"Configured", "Started", "Paused", "Stopped"}

IsAction(m) == "action" \in DOMAIN m
IsData(m) == "data" \in DOMAIN m
IsState(m) == "state" \in DOMAIN m

Calls == [action : RunAction]
Data == [data : Datum]
Answers == [state : Four]

\* The queues of the hub.
Down == inbox["controller"]
Up == inbox["source"]

LEMMA Kinds ==
  /\ \A m \in Calls : IsAction(m) /\ ~IsData(m) /\ ~IsState(m) /\ m.action \in RunAction
  /\ \A m \in Data : IsData(m) /\ ~IsAction(m) /\ ~IsState(m) /\ m.data \in Datum
  /\ \A m \in Answers : IsState(m) /\ ~IsAction(m) /\ ~IsData(m) /\ m.state \in Four
BY DEF Calls, Data, Answers, IsAction, IsData, IsState

LEMMA Chart4 ==
  /\ AcceptedIn("Start") \cap Four = Four
  /\ AcceptedIn("Pause") \cap Four = {"Started", "Paused"}
  /\ AcceptedIn("Stop") \cap Four = {"Started", "Paused", "Stopped"}
  /\ Target("Start") = "Started" /\ Target("Pause") = "Paused" /\ Target("Stop") = "Stopped"
BY DEF AcceptedIn, Target, Four

\* Where a reader stands: the state it is in, the runs it has begun, the actions it has
\* performed.  What a message leads to.
Standing == [state : Four, runs : Nat, said : Nat]
Open2 == {"Started", "Paused"}

Begins(s, m) == m.action = "Start" /\ s.state \notin Open2

After(s, m) ==
  IF IsAction(m) /\ s.state \in AcceptedIn(m.action)
  THEN [state |-> Target(m.action),
        runs |-> IF Begins(s, m) THEN s.runs + 1 ELSE s.runs,
        said |-> s.said + 1]
  ELSE s

Obeying == {t \in Standing \X (Calls \cup Data) \X Standing : t[3] = After(t[1], t[2])}

\* The announcements counted.
Counting == {t \in Nat \X (Data \cup Answers) \X Nat :
               t[3] = IF IsState(t[2]) THEN t[1] + 1 ELSE t[1]}

LEMMA AfterTypes ==
  ASSUME NEW s \in Standing, NEW m \in Calls \cup Data
  PROVE  After(s, m) \in Standing
<1>1. IsAction(m) => m.action \in RunAction
  BY Kinds
<1>2. IsAction(m) => Target(m.action) \in Four
  BY <1>1, Chart4 DEF RunAction, Four
<1> QED
  BY <1>2 DEF After, Standing

LEMMA Obey ==
  ASSUME NEW s \in Standing, NEW m \in Calls \cup Data
  PROVE  <<s, m, After(s, m)>> \in Obeying
BY AfterTypes DEF Obeying

LEMMA Obeyed ==
  ASSUME NEW s, NEW m, NEW t, <<s, m, t>> \in Obeying
  PROVE  s \in Standing /\ m \in Calls \cup Data /\ t \in Standing /\ t = After(s, m)
BY DEF Obeying

LEMMA Counted ==
  ASSUME NEW v, NEW m, NEW w
  PROVE  <<v, m, w>> \in Counting <=>
           /\ v \in Nat /\ m \in Data \cup Answers /\ w \in Nat
           /\ w = IF IsState(m) THEN v + 1 ELSE v
BY DEF Counting

\* Who performs no action stays where it is.
LEMMA SaidTells ==
  ASSUME NEW X, NEW q \in Seq(X), NEW f, Along(q, f, Standing, Obeying)
  PROVE  \A i, j \in 0..Len(q) : i <= j =>
           /\ f[i].said <= f[j].said /\ f[i].runs <= f[j].runs
           /\ f[i].said = f[j].said => f[i] = f[j]
<1> DEFINE T == {t \in Standing \X Standing :
                   /\ t[1].said <= t[2].said /\ t[1].runs <= t[2].runs
                   /\ t[1].said = t[2].said => t[1] = t[2]}
<1>1. \A v \in Standing : <<v, v>> \in T
  BY DEF Standing
<1>2. \A u, v, w \in Standing : <<u, v>> \in T /\ <<v, w>> \in T => <<u, w>> \in T
  BY DEF Standing
<1>3. ASSUME NEW i \in 1..Len(q) PROVE <<f[i - 1], f[i]>> \in T
  <2>1. <<f[i - 1], q[i], f[i]>> \in Obeying
    BY DEF Along
  <2>2. f[i - 1] \in Standing /\ f[i] \in Standing /\ f[i] = After(f[i - 1], q[i])
    BY <2>1, Obeyed
  <2> QED
    BY <2>2 DEF After, Standing
<1>4. \A i, j \in 0..Len(q) : i <= j => <<f[i], f[j]>> \in T
  <2> HIDE DEF T
  <2> QED
    BY <1>1, <1>2, <1>3, CourseKeeps
<1> QED
  BY <1>4

LEMMA CountGrows ==
  ASSUME NEW X, NEW q \in Seq(X), NEW f, Along(q, f, Nat, Counting)
  PROVE  /\ \A i, j \in 0..Len(q) : i <= j => f[i] <= f[j]
         /\ \A i \in 1..Len(q) : IsState(q[i]) => f[i] = f[i - 1] + 1
<1> DEFINE T == {t \in Nat \X Nat : t[1] <= t[2]}
<1>1. ASSUME NEW i \in 1..Len(q)
      PROVE  /\ f[i - 1] \in Nat /\ f[i] \in Nat
             /\ f[i] = IF IsState(q[i]) THEN f[i - 1] + 1 ELSE f[i - 1]
  BY Counted DEF Along
<1>2. \A v \in Nat : <<v, v>> \in T
  OBVIOUS
<1>3. \A u, v, w \in Nat : <<u, v>> \in T /\ <<v, w>> \in T => <<u, w>> \in T
  OBVIOUS
<1>4. \A i \in 1..Len(q) : <<f[i - 1], f[i]>> \in T
  BY <1>1
<1>5. \A i, j \in 0..Len(q) : i <= j => <<f[i], f[j]>> \in T
  <2> HIDE DEF T
  <2> QED
    BY <1>2, <1>3, <1>4, CourseKeeps
<1> QED
  BY <1>1, <1>5

-----------------------------------------------------------------------------
(* The invariant, first the parts that speak of the present alone. *)

File == [tfile : {"null", "open", "closed"}, id : Nat \cup {-1}, path : Nat, event : BOOLEAN]

SenderTypes ==
  /\ expected \in Four /\ owed \in Int /\ sentActions \in 0..MaxActions
  /\ visible \in Four /\ pending \in Four /\ alive = TRUE /\ acquiring \in BOOLEAN
  /\ pending = visible \/ <<visible, pending>> \in S!Chart
  /\ run \in Nat /\ made \in 0..MaxData
  /\ acquiring => made < MaxData

SharedTypes ==
  /\ announced \in Nat /\ m_Client \in Client /\ overlaps \in 0..MaxOverlaps
  /\ misled \in BOOLEAN /\ skipped \in SUBSET Datum

\* The one other client that what the source says makes a difference to.
Reader(m) == IF IsData(m) THEN "writer" ELSE "controller"

QueueTypes ==
  /\ SharedTypes
  /\ order \in {<<"source", "writer">>, <<"writer", "source">>}
  /\ inbox \in [Sender -> Seq(Message)]
  /\ Down \in Seq(Calls) /\ Up \in Seq(Data \cup Answers)
  /\ todo \in [Sender -> Seq(Client)]
  /\ todo["source"] = << >> \/ (Up # << >> /\ todo["source"] = <<Reader(Head(Up))>>)
  /\ todo["controller"] = << >> \/ (Down # << >> /\ todo["controller"] \in {order, <<order[2]>>})
  /\ toSource \in Seq(Calls) /\ toWriter \in Seq(Calls \cup Data)

WriterTypes ==
  /\ state \in Four \cup {"Dead"}
  /\ file \in File /\ content \in Seq(Datum) /\ lost \in SUBSET Datum
  /\ \A p \in DOMAIN disk : p \in Paths /\ disk[p] \in Seq(Datum)

\* The file is open while the writer is in a run.  A path that has been set has a file.
FilePhase ==
  /\ state # "Dead" => (Opened <=> state \in Open2)
  /\ Opened => file.path # NoPath
  /\ file.path # NoPath => file.path \in DOMAIN disk
  /\ ~Opened => content = << >>

\* A source that rests out of Started has nothing in hand, and its last word was that it
\* has got there.
RestPhase ==
  pending = visible /\ visible # "Started" =>
    ~acquiring /\ (Up = << >> \/ IsState(Up[Len(Up)]))

\* What is on its way up is of the source's run, if nobody has been misled.
RunPhase ==
  /\ pending # "Configured" => run > 0
  /\ ~misled => \A i \in 1..Len(Up) : IsData(Up[i]) => Up[i].data.run = run

Clean == ~misled /\ run' # run => Up = << >>

Present == SenderTypes /\ QueueTypes /\ WriterTypes /\ FilePhase /\ RestPhase /\ RunPhase

LEMMA Nothing == Len(<< >>) = 0
OBVIOUS

LEMMA Appended ==
  ASSUME NEW X, NEW q \in Seq(X), NEW m \in X
  PROVE  /\ Append(q, m) # << >> /\ Append(q, m) \in Seq(X)
         /\ Len(Append(q, m)) = Len(q) + 1 /\ Append(q, m)[Len(q) + 1] = m
         /\ \A i \in 1..Len(q) : Append(q, m)[i] = q[i]
<1>1. Len(Append(q, m)) = Len(q) + 1
  OBVIOUS
<1>2. Append(q, m) # << >>
  <2> SUFFICES ASSUME Append(q, m) = << >> PROVE FALSE
    OBVIOUS
  <2>1. Len(Append(q, m)) = 0
    BY Nothing
  <2> QED
    BY <1>1, <2>1
<1> QED
  BY <1>1, <1>2

LEMMA NoPaths == DOMAIN << >> = {}
OBVIOUS

LEMMA MessageTypes == Calls \subseteq Message /\ Data \subseteq Message /\ Answers \subseteq Message
BY DEF Calls, Data, Answers, Message, Four, State

LEMMA PresentInit == RInit => Present
<1> SUFFICES ASSUME RInit PROVE Present
  OBVIOUS
<1>1. SenderTypes
  <2>1. acquiring \in BOOLEAN /\ alive = TRUE
    BY DEF RInit
  <2> QED
    BY <2>1, RunFilesAssumption DEF RInit, SenderTypes, Four
<1>5. RunPhase
  BY DEF RInit, RunPhase, Up, Sender
<1>2. QueueTypes
  <2>1. SharedTypes
    <3>1. misled \in BOOLEAN
      BY DEF RInit
    <3>2. announced \in Nat /\ m_Client \in Client /\ skipped \in SUBSET Datum
      BY DEF RInit, Client, Sender
    <3>3. overlaps \in 0..MaxOverlaps
      BY RunFilesAssumption DEF RInit
    <3> QED
      BY <3>1, <3>2, <3>3 DEF SharedTypes
  <2> QED
    BY <2>1 DEF RInit, QueueTypes, Down, Up, Sender
<1>3. WriterTypes /\ FilePhase
  BY NoPaths DEF RInit, WriterTypes, FilePhase, Four, File, Opened, NoPath, Open2
<1>4. RestPhase
  BY DEF RInit, RestPhase, Up, Sender
<1> QED
  BY <1>1, <1>2, <1>3, <1>4, <1>5 DEF Present

LEMMA SendActionPresent ==
  ASSUME Present, NEW a \in RunAction, SendAction(a)
  PROVE  Present'
<1> USE DEF Present
<1>1. Target(a) \in Four
  BY Chart4 DEF RunAction, Four
<1>2. Down' = Append(Down, [action |-> a]) /\ Up' = Up
  BY DEF SendAction, Down, Up, QueueTypes, Sender
<1>3. [action |-> a] \in Calls
  BY DEF Calls
<1>4. SenderTypes'
  BY <1>1, RunFilesAssumption DEF SendAction, SenderTypes, source
<1>5. QueueTypes'
  <2>1. inbox' \in [Sender -> Seq(Message)] /\ Down' \in Seq(Calls) /\ Up' \in Seq(Data \cup Answers)
    BY <1>2, <1>3, MessageTypes DEF SendAction, QueueTypes, Sender
  <2>2. Down' # << >>
    <3>1. Down \in Seq(Calls)
      BY DEF QueueTypes
    <3> QED
      BY <1>2, <1>3, <3>1, Appended
  <2>3. SharedTypes'
    BY DEF SendAction, shared, SharedTypes, QueueTypes
  <2> QED
    BY <1>2, <2>1, <2>2, <2>3 DEF SendAction, QueueTypes
<1>6. WriterTypes' /\ FilePhase'
  BY DEF SendAction, writer, WriterTypes, FilePhase, Opened
<1>7. RestPhase' /\ RunPhase'
  BY <1>2 DEF SendAction, source, shared, RestPhase, RunPhase
<1> QED
  BY <1>4, <1>5, <1>6, <1>7

\* The first message of a queue is taken.
LEMMA Taken ==
  ASSUME NEW X, NEW q \in Seq(X), q # << >>
  PROVE  /\ Head(q) = q[1] /\ Head(q) \in X /\ Tail(q) \in Seq(X)
         /\ Len(Tail(q)) = Len(q) - 1 /\ Len(q) \in Nat \ {0}
         /\ \A i \in 1..Len(Tail(q)) : Tail(q)[i] = q[i + 1]
OBVIOUS

LEMMA Pairs ==
  ASSUME NEW a, NEW b
  PROVE  <<a, b>> # << >> /\ Head(<<a, b>>) = a /\ Tail(<<a, b>>) = <<b>>
<1>1. Len(<<a, b>>) = 2
  OBVIOUS
<1>2. <<a, b>> # << >>
  BY <1>1, Nothing
<1>3. Head(<<a, b>>) = a
  OBVIOUS
<1>4. Tail(<<a, b>>) = <<b>>
  OBVIOUS
<1> QED
  BY <1>2, <1>3, <1>4

\* A callback begins: the message is to be relayed to the clients it is for.
LEMMA Begun ==
  ASSUME QueueTypes, NEW c \in Client, Begin(c), UNCHANGED <<misled, skipped>>, announced' \in Nat
  PROVE  SharedTypes'
BY RunFilesAssumption DEF QueueTypes, SharedTypes, Begin

LEMMA CallbackDown ==
  ASSUME QueueTypes, Callback("controller")
  PROVE  Down # << >> /\ todo' = [todo EXCEPT !["controller"] = order]
<1>1. Down # << >> /\ Down \in Seq(Calls)
  BY DEF QueueTypes, Callback, Down
<1>2. Head(Down) \in Calls
  BY <1>1, Taken
<1>3. Receivers(Head(Down)) = order
  BY <1>2, Kinds DEF Receivers, IsAction, IsData, IsState
<1> QED
  BY <1>1, <1>3 DEF Callback, Down

LEMMA CallbackUp ==
  ASSUME QueueTypes, Callback("source")
  PROVE  Up # << >> /\ todo' = [todo EXCEPT !["source"] = <<Reader(Head(Up))>>]
<1>1. Up # << >> /\ Up \in Seq(Data \cup Answers)
  BY DEF QueueTypes, Callback, Up
<1>2. Head(Up) \in Data \cup Answers
  BY <1>1, Taken
<1>3. Receivers(Head(Up)) = <<Reader(Head(Up))>>
  BY <1>2, Kinds DEF Receivers, Reader, IsAction, IsData, IsState
<1> QED
  BY <1>1, <1>3 DEF Callback, Up

LEMMA OrderTypes ==
  ASSUME QueueTypes
  PROVE  order \in Seq(Client) /\ <<order[2]>> \in Seq(Client) /\ << >> \in Seq(Client)
<1>1. <<"source", "writer">> \in Seq(Client) /\ <<"writer", "source">> \in Seq(Client)
  BY DEF Client, Sender
<1>2. order[2] \in Client
  BY DEF QueueTypes, Client, Sender
<1>3. <<order[2]>> \in Seq(Client)
  BY <1>2
<1>4. order \in Seq(Client)
  BY <1>1 DEF QueueTypes
<1> QED
  BY <1>3, <1>4

\* The rest is as it was.
LEMMA PresentKept ==
  ASSUME Present, UNCHANGED <<controller, source, writer>>, UNCHANGED <<order, inbox>>, misled' = misled
  PROVE  /\ SenderTypes' /\ WriterTypes' /\ FilePhase' /\ RestPhase' /\ RunPhase'
         /\ Up' = Up /\ Down' = Down
<1>1. Up' = Up /\ Down' = Down
  BY DEF Up, Down
<1>2. SenderTypes'
  BY DEF Present, controller, source, SenderTypes
<1>3. WriterTypes' /\ FilePhase'
  BY DEF Present, writer, WriterTypes, FilePhase, Opened
<1>4. RestPhase' /\ RunPhase'
  BY <1>1 DEF Present, source, RestPhase, RunPhase
<1> QED
  BY <1>1, <1>2, <1>3, <1>4

LEMMA CallbackPresent ==
  ASSUME Present, NEW c \in Sender, Callback(c)
  PROVE  Present'
<1>1. /\ UNCHANGED <<controller, source, writer>> /\ UNCHANGED <<order, inbox, toSource, toWriter>>
      /\ UNCHANGED <<announced, misled, skipped>> /\ Begin(c)
  BY DEF Callback
<1>2. /\ SenderTypes' /\ WriterTypes' /\ FilePhase' /\ RestPhase' /\ RunPhase'
      /\ Up' = Up /\ Down' = Down
  BY <1>1, PresentKept
<1>3. SharedTypes'
  BY <1>1, Begun DEF Present, QueueTypes, SharedTypes, Client
<1>4. QueueTypes'
  <2>1. /\ todo' \in [Sender -> Seq(Client)]
        /\ todo'["source"] = << >> \/ (Up # << >> /\ todo'["source"] = <<Reader(Head(Up))>>)
        /\ todo'["controller"] = << >> \/ (Down # << >> /\ todo'["controller"] \in {order, <<order[2]>>})
    <3>1. CASE c = "controller"
      BY <3>1, CallbackDown, OrderTypes DEF Present, QueueTypes, Sender
    <3>2. CASE c = "source"
      <4>1. Reader(Head(Up)) \in Client
        BY DEF Reader, Client, Sender
      <4>2. <<Reader(Head(Up))>> \in Seq(Client)
        BY <4>1
      <4> QED
        BY <3>2, <4>2, CallbackUp DEF Present, QueueTypes, Sender
    <3> QED
      BY <3>1, <3>2 DEF Sender
  <2> QED
    BY <1>1, <1>2, <1>3, <2>1 DEF Present, QueueTypes
<1> QED
  BY <1>2, <1>4 DEF Present

LEMMA WriterCallbackPresent ==
  ASSUME Present, WriterCallback
  PROVE  Present'
<1>1. /\ UNCHANGED <<controller, source, writer>> /\ UNCHANGED <<order, inbox, todo, toSource, toWriter>>
      /\ UNCHANGED <<misled, skipped>> /\ Begin("writer") /\ announced > 0 /\ announced' = announced - 1
  BY DEF WriterCallback
<1>2. /\ SenderTypes' /\ WriterTypes' /\ FilePhase' /\ RestPhase' /\ RunPhase'
      /\ Up' = Up /\ Down' = Down
  BY <1>1, PresentKept
<1>3. SharedTypes'
  <2>1. announced' \in Nat /\ "writer" \in Client
    BY <1>1 DEF Present, QueueTypes, SharedTypes, Client
  <2> QED
    BY <1>1, <2>1, Begun DEF Present
<1>4. QueueTypes'
  BY <1>1, <1>2, <1>3 DEF Present, QueueTypes
<1> QED
  BY <1>2, <1>4 DEF Present

\* A relay gives its message to the receiver or leaves it out, and what it has left out
\* is remembered.
LEMMA Relays ==
  ASSUME Present, NEW c \in Sender, Relay(c)
  PROVE  /\ UNCHANGED <<expected, sentActions, announced, m_Client, overlaps>>
         /\ UNCHANGED source /\ UNCHANGED writer /\ order' = order
         /\ misled' \in BOOLEAN /\ (~misled' => ~misled)
BY DEF Relay, Deliver, LeaveOut, Present, QueueTypes, SharedTypes

\* The hub has one client left to serve with the controller's action, or two.
LEMMA RelayDown ==
  ASSUME QueueTypes, Relay("controller")
  PROVE  /\ Down # << >> /\ Head(Down) \in Calls /\ Up' = Up /\ owed' = owed /\ skipped' = skipped
         /\ todo' = [todo EXCEPT !["controller"] = todo'["controller"]]
         /\ \/ /\ todo["controller"] = order /\ todo'["controller"] = <<order[2]>>
               /\ inbox' = inbox
            \/ /\ todo["controller"] = <<order[2]>> /\ todo'["controller"] = << >>
               /\ inbox' = [inbox EXCEPT !["controller"] = Tail(@)]
         /\ \/ misled' /\ UNCHANGED <<toSource, toWriter>>
            \/ LET d == IF todo["controller"] = order THEN order[1] ELSE order[2]
               IN  /\ toSource' = IF d = "source" THEN Append(toSource, Head(Down)) ELSE toSource
                   /\ toWriter' = IF d = "writer" THEN Append(toWriter, Head(Down)) ELSE toWriter
<1> DEFINE d == IF todo["controller"] = order THEN order[1] ELSE order[2]
<1>1. todo["controller"] # << >>
  BY DEF Relay
<1>2. Down # << >> /\ Down \in Seq(Calls) /\ todo["controller"] \in {order, <<order[2]>>}
  BY <1>1 DEF QueueTypes
<1>3. Head(Down) \in Calls
  BY <1>2, Taken
<1>4. ~("data" \in DOMAIN Head(Down))
  BY <1>3, Kinds DEF IsData
<1>5. /\ Head(order) = order[1] /\ Tail(order) = <<order[2]>> /\ order # << >>
      /\ order # <<order[2]>> /\ order[1] # "controller" /\ order[2] # "controller"
  <2>1. CASE order = <<"source", "writer">>
    BY <2>1, Pairs
  <2>2. CASE order = <<"writer", "source">>
    BY <2>2, Pairs
  <2> QED
    BY <2>1, <2>2 DEF QueueTypes
<1>6. /\ Head(<<order[2]>>) = order[2] /\ Tail(<<order[2]>>) = << >> /\ <<order[2]>> # << >>
  OBVIOUS
<1>7. Head(todo["controller"]) = d /\ d # "controller"
  BY <1>2, <1>5, <1>6
<1> HIDE DEF d
<1>8. Deliver(d, Head(Down)) \/ LeaveOut(d, Head(Down))
  BY <1>7 DEF Relay, Down
<1>9. /\ skipped' = skipped /\ owed' = owed
      /\ \/ misled' /\ UNCHANGED <<toSource, toWriter>>
         \/ /\ toSource' = IF d = "source" THEN Append(toSource, Head(Down)) ELSE toSource
            /\ toWriter' = IF d = "writer" THEN Append(toWriter, Head(Down)) ELSE toWriter
  BY <1>4, <1>7, <1>8 DEF Deliver, LeaveOut
<1>10. /\ todo' = [todo EXCEPT !["controller"] = Tail(@)]
       /\ inbox' = IF Tail(todo["controller"]) = << >> THEN [inbox EXCEPT !["controller"] = Tail(@)]
                   ELSE inbox
  BY DEF Relay
<1>11. /\ todo'["controller"] = Tail(todo["controller"]) /\ Up' = Up
       /\ todo' = [todo EXCEPT !["controller"] = todo'["controller"]]
  BY <1>10 DEF QueueTypes, Sender, Up
<1>12. \/ /\ todo["controller"] = order /\ todo'["controller"] = <<order[2]>>
          /\ inbox' = inbox
       \/ /\ todo["controller"] = <<order[2]>> /\ todo'["controller"] = << >>
          /\ inbox' = [inbox EXCEPT !["controller"] = Tail(@)]
  BY <1>2, <1>5, <1>6, <1>10, <1>11
<1> QED
  BY <1>2, <1>3, <1>9, <1>11, <1>12 DEF d

\* Data goes to the writer, an announcement to the controller, or to nobody.
LEMMA RelayUp ==
  ASSUME QueueTypes, Relay("source")
  PROVE  /\ Up # << >> /\ Head(Up) \in Data \cup Answers
         /\ todo' = [todo EXCEPT !["source"] = << >>]
         /\ inbox' = [inbox EXCEPT !["source"] = Tail(@)]
         /\ Down' = Down /\ Up' = Tail(Up) /\ toSource' = toSource
         /\ todo'["controller"] = todo["controller"]
         /\ \/ /\ Head(Up) \in Data /\ toWriter' = Append(toWriter, Head(Up)) /\ owed' = owed
               /\ skipped' = skipped
            \/ /\ Head(Up) \in Answers /\ toWriter' = toWriter /\ owed' = owed - 1
               /\ skipped' = skipped
            \/ /\ Head(Up) \in Data /\ toWriter' = toWriter /\ owed' = owed
               /\ skipped' = skipped \cup {Head(Up).data}
            \/ /\ Head(Up) \in Answers /\ toWriter' = toWriter /\ owed' = owed
               /\ skipped' = skipped /\ misled'
<1> DEFINE d == Reader(Head(Up))
<1>1. todo["source"] # << >>
  BY DEF Relay
<1>2. Up # << >> /\ Up \in Seq(Data \cup Answers) /\ todo["source"] = <<d>>
  BY <1>1 DEF QueueTypes
<1>3. Head(Up) \in Data \cup Answers
  BY <1>2, Taken
<1>4. /\ Head(Up) \in Data => d = "writer" /\ "data" \in DOMAIN Head(Up)
      /\ Head(Up) \notin Data => d = "controller" /\ ~("data" \in DOMAIN Head(Up))
  BY <1>3, Kinds DEF Reader, IsData
<1> HIDE DEF d
<1>5. Head(<<d>>) = d /\ Tail(<<d>>) = << >>
  OBVIOUS
<1>6. /\ Deliver(d, Head(Up)) \/ LeaveOut(d, Head(Up))
      /\ todo' = [todo EXCEPT !["source"] = << >>]
      /\ inbox' = [inbox EXCEPT !["source"] = Tail(@)]
  BY <1>2, <1>5 DEF Relay, Up
<1>7. Down' = Down /\ Up' = Tail(Up) /\ todo'["controller"] = todo["controller"]
  BY <1>6 DEF QueueTypes, Sender, Down, Up
<1>8. toSource' = toSource
  BY <1>4, <1>6 DEF Deliver, LeaveOut
<1>9. CASE Head(Up) \in Data
  <2>1. d = "writer" /\ "data" \in DOMAIN Head(Up)
    BY <1>4, <1>9
  <2> QED
    BY <1>2, <1>3, <1>6, <1>7, <1>8, <1>9, <2>1 DEF Deliver, LeaveOut
<1>10. CASE Head(Up) \notin Data
  <2>1. d = "controller" /\ Head(Up) \in Answers /\ ~("data" \in DOMAIN Head(Up))
    BY <1>3, <1>4, <1>10
  <2> QED
    BY <1>2, <1>3, <1>6, <1>7, <1>8, <2>1 DEF Deliver, LeaveOut
<1> QED
  BY <1>9, <1>10

LEMMA RelayPresent ==
  ASSUME Present, NEW c \in Sender, Relay(c)
  PROVE  Present'
<1>0. /\ source' = source /\ writer' = writer /\ order' = order
      /\ UNCHANGED <<expected, sentActions, announced, m_Client, overlaps>>
      /\ misled' \in BOOLEAN /\ (~misled' => ~misled)
  BY Relays
<1>1. SenderTypes' /\ WriterTypes' /\ FilePhase'
  <2>1. owed' \in Int
    BY DEF Present, SenderTypes, Relay, Deliver, LeaveOut
  <2> QED
    BY <1>0, <2>1 DEF Present, source, writer, SenderTypes, WriterTypes, FilePhase, Opened
<1>2. CASE c = "controller"
  <2>1. QueueTypes /\ Relay("controller")
    BY <1>2 DEF Present
  <2>2. QueueTypes'
    <3>1. Head(Down) \in Calls /\ Head(Down) \in Calls \cup Data /\ skipped' = skipped
      BY <2>1, RelayDown
    <3>2. toSource' \in Seq(Calls) /\ toWriter' \in Seq(Calls \cup Data)
      <4>1. /\ Append(toSource, Head(Down)) \in Seq(Calls)
            /\ Append(toWriter, Head(Down)) \in Seq(Calls \cup Data)
        BY <2>1, <3>1 DEF QueueTypes
      <4> QED
        BY <2>1, <4>1, RelayDown DEF QueueTypes
    <3>3. todo' \in [Sender -> Seq(Client)] /\ todo'["source"] = todo["source"]
      <4>1. todo \in [Sender -> Seq(Client)] /\ todo' = [todo EXCEPT !["controller"] = todo'["controller"]]
        BY <2>1, RelayDown DEF QueueTypes
      <4>2. todo'["controller"] \in Seq(Client)
        BY <2>1, RelayDown, OrderTypes
      <4> QED
        BY <4>1, <4>2 DEF Sender
    <3>4. inbox' \in [Sender -> Seq(Message)] /\ Down' \in Seq(Calls)
      <4>1. Tail(Down) \in Seq(Calls)
        BY <2>1, RelayDown, Taken DEF QueueTypes
      <4>2. Tail(Down) \in Seq(Message)
        BY <2>1, RelayDown DEF QueueTypes, Down, Sender
      <4>3. inbox' = inbox \/ inbox' = [inbox EXCEPT !["controller"] = Tail(Down)]
        BY <2>1, RelayDown DEF Down
      <4> QED
        BY <2>1, <4>1, <4>2, <4>3 DEF QueueTypes, Down, Sender
    <3>5. todo'["controller"] = << >> \/ (Down' # << >> /\ todo'["controller"] \in {order', <<order'[2]>>})
      BY <1>0, <2>1, RelayDown DEF Down
    <3>6. order' = order /\ Up' = Up
      BY <1>0, <2>1, RelayDown
    <3>7. SharedTypes'
      BY <1>0, <2>1, <3>1 DEF QueueTypes, SharedTypes
    <3> QED
      BY <2>1, <3>2, <3>3, <3>4, <3>5, <3>6, <3>7 DEF QueueTypes
  <2>3. RestPhase' /\ RunPhase'
    <3>1. Up' = Up
      BY <2>1, RelayDown
    <3> QED
      BY <1>0, <3>1 DEF Present, source, RestPhase, RunPhase
  <2> QED
    BY <1>1, <2>2, <2>3 DEF Present
<1>3. CASE c = "source"
  <2>1. QueueTypes /\ Relay("source")
    BY <1>3 DEF Present
  <2>2. Up \in Seq(Data \cup Answers) /\ Up # << >> /\ Up' = Tail(Up)
    BY <2>1, RelayUp DEF QueueTypes
  <2>3. QueueTypes'
    <3>1. toSource' \in Seq(Calls) /\ toWriter' \in Seq(Calls \cup Data)
      <4>1. Head(Up) \in Data => Append(toWriter, Head(Up)) \in Seq(Calls \cup Data)
        BY <2>1 DEF QueueTypes
      <4> QED
        BY <2>1, <4>1, RelayUp DEF QueueTypes
    <3>2. inbox' \in [Sender -> Seq(Message)] /\ Up' \in Seq(Data \cup Answers)
      <4>1. Tail(Up) \in Seq(Message)
        BY <2>2 DEF QueueTypes, Present, Up, Sender
      <4>2. inbox' = [inbox EXCEPT !["source"] = Tail(Up)]
        BY <2>1, RelayUp DEF Up
      <4>3. Tail(Up) \in Seq(Data \cup Answers)
        BY <2>2, Taken
      <4> QED
        BY <2>1, <2>2, <4>1, <4>2, <4>3 DEF QueueTypes, Sender
    <3>3. /\ order' = order /\ Down' = Down /\ todo'["controller"] = todo["controller"]
          /\ todo'["source"] = << >> /\ todo' \in [Sender -> Seq(Client)]
      BY <1>0, <2>1, RelayUp, OrderTypes DEF QueueTypes, Sender
    <3>4. SharedTypes'
      <4>1. skipped' \in SUBSET Datum
        <5>1. skipped' = skipped \/ (Head(Up) \in Data /\ skipped' = skipped \cup {Head(Up).data})
          BY <2>1, RelayUp
        <5>2. Head(Up) \in Data => Head(Up).data \in Datum
          BY Kinds
        <5> QED
          BY <2>1, <5>1, <5>2 DEF QueueTypes, SharedTypes
      <4> QED
        BY <1>0, <2>1, <4>1 DEF QueueTypes, SharedTypes
    <3> QED
      BY <2>1, <3>1, <3>2, <3>3, <3>4 DEF QueueTypes
  <2>4. RestPhase'
    <3> SUFFICES ASSUME pending = visible /\ visible # "Started"
                 PROVE  ~acquiring /\ (Up' = << >> \/ IsState(Up'[Len(Up')]))
      BY <1>0 DEF source, RestPhase
    <3>1. ~acquiring /\ IsState(Up[Len(Up)])
      BY <2>2 DEF Present, RestPhase
    <3>2. CASE Up' # << >>
      BY <2>2, <3>1, <3>2, Taken
    <3> QED
      BY <3>1, <3>2
  <2>5. RunPhase'
    BY <1>0, <2>2, Taken DEF Present, source, RunPhase
  <2> QED
    BY <1>1, <2>3, <2>4, <2>5 DEF Present
<1> QED
  BY <1>2, <1>3 DEF Sender

LEMMA HeadStays ==
  ASSUME NEW X, NEW q \in Seq(X), NEW m \in X, q # << >>
  PROVE  Head(Append(q, m)) = Head(q)
OBVIOUS

LEMMA SourceSays ==
  ASSUME QueueTypes, NEW m \in Data \cup Answers, Say(m)
  PROVE  /\ inbox' \in [Sender -> Seq(Message)] /\ Down' = Down
         /\ Up' = Append(Up, m) /\ Up' \in Seq(Data \cup Answers)
         /\ Up' # << >> /\ Up'[Len(Up')] = m /\ Len(Up') = Len(Up) + 1
         /\ \A i \in 1..Len(Up) : Up'[i] = Up[i]
         /\ Up # << >> => Head(Up') = Head(Up)
<1>1. m \in Message
  BY MessageTypes
<1>2. inbox' \in [Sender -> Seq(Message)] /\ Down' = Down /\ Up' = Append(Up, m)
  BY <1>1 DEF Say, QueueTypes, Sender, Down, Up
<1>3. Up \in Seq(Data \cup Answers)
  BY DEF QueueTypes
<1>4. Up # << >> => Head(Up') = Head(Up)
  BY <1>2, <1>3, HeadStays
<1> QED
  BY <1>2, <1>3, <1>4, Appended

LEMMA SourceQueues ==
  ASSUME QueueTypes, SourceUnchanged, toSource' \in Seq(Calls),
         inbox' \in [Sender -> Seq(Message)], Down' = Down, Up' \in Seq(Data \cup Answers),
         Up # << >> => Up' # << >> /\ Head(Up') = Head(Up)
  PROVE  QueueTypes' /\ misled' = misled /\ skipped' = skipped
<1>1. UNCHANGED <<order, todo, toWriter, announced, m_Client, overlaps, misled, skipped>>
  BY DEF SourceUnchanged, shared
<1>2. SharedTypes'
  BY <1>1 DEF SharedTypes, QueueTypes
<1>3. todo'["source"] = << >> \/ (Up' # << >> /\ todo'["source"] = <<Reader(Head(Up'))>>)
  BY <1>1 DEF QueueTypes
<1> QED
  BY <1>1, <1>2, <1>3 DEF QueueTypes

LEMMA SourceAlone ==
  ASSUME Present, SourceUnchanged
  PROVE  /\ WriterTypes' /\ FilePhase' /\ expected' \in Four /\ owed' \in Int
         /\ sentActions' \in 0..MaxActions /\ misled' = misled
BY DEF Present, SenderTypes, SourceUnchanged, controller, shared, writer, WriterTypes, FilePhase, Opened

\* Of the four states, where a move can lead.
LEMMA Moves ==
  ASSUME visible \in Four, NEW s, <<visible, s>> \in S!Chart
  PROVE  s # visible
BY DEF S!Chart, S!Ring, S!Shortcut, Four

LEMMA SourceBeginsPresent ==
  ASSUME Present, Clean, SourceBegins
  PROVE  Present'
<1> DEFINE a == Head(toSource).action
<1>1. toSource # << >> /\ pending = visible /\ UNCHANGED inbox /\ SourceUnchanged
      /\ toSource' = Tail(toSource)
  BY DEF SourceBegins
<1>2. a \in RunAction /\ toSource' \in Seq(Calls)
  BY <1>1, Taken, Kinds DEF Present, QueueTypes
<1>3. Target(a) \in Four
  BY <1>2, Chart4 DEF RunAction, Four
<1>4. /\ visible \in AcceptedIn(a) /\ pending' = Target(a) /\ <<visible, pending'>> \in S!Chart
      /\ UNCHANGED <<visible, acquiring, alive>>
      /\ run' = IF a = "Start" /\ visible # "Paused" THEN run + 1 ELSE run
      /\ made' = IF run' # run THEN 0 ELSE made
  BY DEF SourceBegins, S!Undertake
<1>5. QueueTypes'
  BY <1>1, <1>2, SourceQueues DEF Present, QueueTypes, Down, Up
<1>6. SenderTypes'
  <2>1. alive' = TRUE /\ acquiring' \in BOOLEAN
    BY <1>4 DEF Present, SenderTypes
  <2>2. run' \in Nat /\ made' \in 0..MaxData
    BY <1>4, RunFilesAssumption DEF Present, SenderTypes
  <2>3. acquiring' => made' < MaxData
    <3> SUFFICES ASSUME acquiring' PROVE made' < MaxData
      OBVIOUS
    <3>1. acquiring
      BY <1>4
    <3>2. made < MaxData
      BY <3>1 DEF Present, SenderTypes
    <3> QED
      BY <1>4, <3>2, RunFilesAssumption DEF Present, SenderTypes
  <2> QED
    BY <1>1, <1>3, <1>4, <2>1, <2>2, <2>3, SourceAlone DEF Present, SenderTypes
<1>7. visible \in Four /\ pending' # visible
  BY <1>4, Moves DEF Present, SenderTypes
<1>8. RestPhase'
  BY <1>4, <1>7 DEF RestPhase
<1>9. RunPhase'
  <2>1. Up' = Up
    BY <1>1 DEF Up
  <2>2. ~misled => \A i \in 1..Len(Up) : IsData(Up[i]) => Up[i].data.run = run'
    <3>1. CASE run' # run
      BY <3>1, Nothing DEF Clean
    <3>2. CASE run' = run
      BY <3>2 DEF Present, RunPhase
    <3> QED
      BY <3>1, <3>2
  <2>4. misled' = misled
    BY <1>1 DEF SourceUnchanged, shared
  <2>3. run' > 0
    <3>1. CASE a = "Start" /\ visible # "Paused"
      BY <1>4, <3>1 DEF Present, SenderTypes
    <3>2. CASE ~(a = "Start" /\ visible # "Paused")
      <4>1. visible # "Configured"
        BY <1>2, <1>4, <1>7, <3>2, Chart4 DEF RunAction
      <4> QED
        BY <1>1, <1>4, <3>2, <4>1 DEF Present, RunPhase, SenderTypes
    <3> QED
      BY <3>1, <3>2
  <2> QED
    BY <2>1, <2>2, <2>3, <2>4 DEF RunPhase
<1> QED
  BY <1>1, <1>5, <1>6, <1>8, <1>9, SourceAlone DEF Present

\* It says that it is in a state, the one it has been in or the next.
LEMMA SourceRepeatsPresent ==
  ASSUME Present, SourceRepeats
  PROVE  Present'
<1> DEFINE m == [state |-> visible]
<1>1. /\ toSource # << >> /\ toSource' = Tail(toSource) /\ Say(m)
      /\ UNCHANGED source /\ SourceUnchanged
  BY DEF SourceRepeats
<1>2. m \in Data \cup Answers /\ IsState(m) /\ ~IsData(m)
  BY DEF Present, SenderTypes, Answers, IsState, IsData
<1> HIDE DEF m
<1>3. QueueTypes'
  <2>1. toSource' \in Seq(Calls)
    BY <1>1, Taken DEF Present, QueueTypes
  <2> QED
    BY <1>1, <1>2, <2>1, SourceSays, SourceQueues DEF Present
<1>4. SenderTypes'
  BY <1>1, SourceAlone DEF source, SenderTypes, Present
<1>5. RestPhase'
  BY <1>1, <1>2, SourceSays DEF source, RestPhase, Present
<1>6. RunPhase'
  <2>1. ~misled => \A i \in 1..Len(Up') : IsData(Up'[i]) => Up'[i].data.run = run
    <3> HAVE ~misled
    <3> TAKE i \in 1..Len(Up')
    <3>1. CASE i \in 1..Len(Up)
      BY <1>1, <1>2, <3>1, SourceSays DEF Present, RunPhase
    <3>2. CASE i = Len(Up')
      BY <1>1, <1>2, <3>2, SourceSays DEF Present
    <3>3. Len(Up') = Len(Up) + 1 /\ Len(Up) \in Nat
      <4>1. Up \in Seq(Data \cup Answers)
        BY DEF Present, QueueTypes
      <4> QED
        BY <1>1, <1>2, <4>1, SourceSays DEF Present
    <3> QED
      BY <3>1, <3>2, <3>3
  <2> QED
    BY <1>1, <2>1, SourceAlone DEF source, RunPhase, Present
<1> QED
  BY <1>1, <1>3, <1>4, <1>5, <1>6, SourceAlone DEF Present

LEMMA SourceRejectsPresent ==
  ASSUME Present, SourceRejects
  PROVE  Present'
<1>1. /\ toSource # << >> /\ toSource' = Tail(toSource)
      /\ UNCHANGED inbox /\ UNCHANGED source /\ SourceUnchanged
  BY DEF SourceRejects
<1>2. Up' = Up /\ Down' = Down
  BY <1>1 DEF Up, Down
<1>3. QueueTypes'
  <2>1. toSource' \in Seq(Calls)
    BY <1>1, Taken DEF Present, QueueTypes
  <2> QED
    BY <1>1, <1>2, <2>1, SourceQueues DEF Present, QueueTypes
<1>4. SenderTypes'
  BY <1>1, SourceAlone DEF source, SenderTypes, Present
<1>5. RestPhase' /\ RunPhase'
  BY <1>1, <1>2, SourceAlone DEF source, RestPhase, RunPhase, Present
<1> QED
  BY <1>1, <1>3, <1>4, <1>5, SourceAlone DEF Present

LEMMA SourceAnnouncesPresent ==
  ASSUME Present, SourceAnnounces
  PROVE  Present'
<1> DEFINE m == [state |-> pending]
<1>1. /\ toSource' = toSource /\ Say(m) /\ UNCHANGED <<run, made>> /\ SourceUnchanged
      /\ visible' = pending /\ UNCHANGED <<pending, acquiring, alive>>
      /\ pending = "Started" \/ ~acquiring
  BY DEF SourceAnnounces, S!Announce
<1>2. m \in Data \cup Answers /\ IsState(m) /\ ~IsData(m)
  BY DEF Present, SenderTypes, Answers, IsState, IsData
<1> HIDE DEF m
<1>3. QueueTypes'
  <2>1. toSource' \in Seq(Calls)
    BY <1>1 DEF Present, QueueTypes
  <2> QED
    BY <1>1, <1>2, <2>1, SourceSays, SourceQueues DEF Present
<1>4. SenderTypes'
  <2>1. acquiring' \in BOOLEAN /\ alive' = TRUE
    BY <1>1 DEF SenderTypes, Present
  <2> QED
    BY <1>1, <2>1, SourceAlone DEF SenderTypes, Present
<1>5. RestPhase'
  <2> SUFFICES ASSUME pending' = visible', visible' # "Started"
               PROVE  ~acquiring' /\ (Up' = << >> \/ IsState(Up'[Len(Up')]))
    BY DEF RestPhase
  <2>1. ~acquiring'
    BY <1>1
  <2>2. IsState(Up'[Len(Up')])
    BY <1>1, <1>2, SourceSays DEF Present
  <2> QED
    BY <2>1, <2>2
<1>6. RunPhase'
  <2>1. ~misled => \A i \in 1..Len(Up') : IsData(Up'[i]) => Up'[i].data.run = run
    <3> HAVE ~misled
    <3> TAKE i \in 1..Len(Up')
    <3>1. CASE i \in 1..Len(Up)
      BY <1>1, <1>2, <3>1, SourceSays DEF Present, RunPhase
    <3>2. CASE i = Len(Up')
      BY <1>1, <1>2, <3>2, SourceSays DEF Present
    <3>3. Len(Up') = Len(Up) + 1 /\ Len(Up) \in Nat
      <4>1. Up \in Seq(Data \cup Answers)
        BY DEF Present, QueueTypes
      <4> QED
        BY <1>1, <1>2, <4>1, SourceSays DEF Present
    <3> QED
      BY <3>1, <3>2, <3>3
  <2> QED
    BY <1>1, <2>1, SourceAlone DEF RunPhase, Present
<1> QED
  BY <1>1, <1>3, <1>4, <1>5, <1>6, SourceAlone DEF Present

LEMMA IteratePresent ==
  ASSUME Present, Iterate
  PROVE  Present'
<1>1. /\ pending = "Started" /\ acquiring' = TRUE /\ made < MaxData
      /\ UNCHANGED <<visible, pending, alive, run, made, toSource, inbox>> /\ SourceUnchanged
  BY DEF Iterate, S!Acquire
<1>2. Up' = Up /\ Down' = Down
  BY <1>1 DEF Up, Down
<1>3. QueueTypes'
  BY <1>1, <1>2, SourceQueues DEF Present, QueueTypes
<1>4. SenderTypes'
  <2>1. acquiring' \in BOOLEAN /\ alive' = TRUE
    BY <1>1 DEF SenderTypes, Present
  <2>2. acquiring' => made' < MaxData
    BY <1>1
  <2> QED
    BY <1>1, <2>1, <2>2, SourceAlone DEF SenderTypes, Present
<1>5. RestPhase' /\ RunPhase'
  BY <1>1, <1>2, SourceAlone DEF RestPhase, RunPhase, Present
<1> QED
  BY <1>1, <1>3, <1>4, <1>5, SourceAlone DEF Present

LEMMA SendDataPresent ==
  ASSUME Present, SendData
  PROVE  Present'
<1> DEFINE d == [run |-> run, number |-> made + 1]
           m == [data |-> d]
<1>1. /\ acquiring = TRUE /\ acquiring' = FALSE /\ made' = made + 1 /\ Say(m)
      /\ UNCHANGED <<visible, pending, alive, run, toSource>> /\ SourceUnchanged
  BY DEF SendData, S!Rest, Present, SenderTypes
<1>2. ~(pending = visible /\ visible # "Started")
  BY <1>1 DEF Present, RestPhase
<1>3. run > 0
  <2>1. pending # "Configured"
    BY <1>2 DEF Present, SenderTypes, S!Chart, S!Ring, S!Shortcut, Four
  <2> QED
    BY <2>1 DEF Present, RunPhase
<1>4. m \in Data \cup Answers /\ m.data.run = run
  <2>1. d \in Datum
    BY <1>3 DEF Present, SenderTypes, Datum
  <2> QED
    BY <2>1 DEF Data
<1> HIDE DEF d, m
<1>5. QueueTypes'
  <2>1. toSource' \in Seq(Calls)
    BY <1>1 DEF Present, QueueTypes
  <2> QED
    BY <1>1, <1>4, <2>1, SourceSays, SourceQueues DEF Present
<1>6. SenderTypes'
  <2>1. acquiring' \in BOOLEAN /\ alive' = TRUE
    BY <1>1 DEF SenderTypes, Present
  <2>2. made' \in 0..MaxData
    BY <1>1, RunFilesAssumption DEF SenderTypes, Present
  <2> QED
    BY <1>1, <2>1, <2>2, SourceAlone DEF SenderTypes, Present
<1>7. RestPhase'
  BY <1>1, <1>2 DEF RestPhase
<1>8. RunPhase'
  <2>1. ~misled => \A i \in 1..Len(Up') : IsData(Up'[i]) => Up'[i].data.run = run
    <3> HAVE ~misled
    <3> TAKE i \in 1..Len(Up')
    <3>1. CASE i \in 1..Len(Up)
      BY <1>1, <1>4, <3>1, SourceSays DEF Present, RunPhase
    <3>2. CASE i = Len(Up')
      BY <1>1, <1>4, <3>2, SourceSays DEF Present
    <3>3. Len(Up') = Len(Up) + 1 /\ Len(Up) \in Nat
      <4>1. Up \in Seq(Data \cup Answers)
        BY DEF Present, QueueTypes
      <4> QED
        BY <1>1, <1>4, <4>1, SourceSays DEF Present
    <3> QED
      BY <3>1, <3>2, <3>3
  <2> QED
    BY <1>1, <2>1, SourceAlone DEF RunPhase, Present
<1> QED
  BY <1>1, <1>5, <1>6, <1>7, <1>8, SourceAlone DEF Present

-----------------------------------------------------------------------------
(* The writer's steps. *)

LEMMA Opens ==
  ASSUME WriterTypes, Open
  PROVE  /\ file' \in File /\ file'.tfile = "open" /\ file'.path \in Paths /\ content' = << >>
         /\ DOMAIN disk' = DOMAIN disk \cup {file'.path}
         /\ \A p \in DOMAIN disk' : disk'[p] = IF p = file'.path THEN << >> ELSE disk[p]
<1> DEFINE g == [file EXCEPT !.id = @ + 1]
           f == SetPath(g)
<1>1. g \in File /\ g.id \in Nat
  BY DEF WriterTypes, File
<1>2. f \in File /\ f.path \in Paths
  <2>1. CASE g.path # NoPath
    BY <1>1, <2>1 DEF SetPath, File, Paths, NoPath
  <2>2. CASE g.path = NoPath
    <3>1. f = [g EXCEPT !.id = @ + 1, !.path = g.id + 1]
      BY <2>2 DEF SetPath
    <3>2. f = [tfile |-> g.tfile, id |-> g.id + 1, path |-> g.id + 1, event |-> g.event]
      BY <1>1, <3>1 DEF File
    <3> HIDE DEF f, g
    <3> QED
      BY <1>1, <3>2 DEF File, Paths
  <2> QED
    BY <2>1, <2>2
<1> HIDE DEF f
<1>3. /\ file' = [f EXCEPT !.tfile = "open", !.event = TRUE] /\ content' = << >>
      /\ disk' = [p \in DOMAIN disk \cup {f.path} |-> IF p = f.path THEN << >> ELSE disk[p]]
  BY DEF Open, f
<1>4. file' \in File /\ file'.tfile = "open" /\ file'.path = f.path
  BY <1>2, <1>3 DEF File
<1> QED
  BY <1>2, <1>3, <1>4

LEMMA Closes ==
  ASSUME WriterTypes, FilePhase, Opened, Close
  PROVE  /\ file' \in File /\ file'.tfile = "closed" /\ file'.path = file.path /\ content' = << >>
         /\ file.path \in DOMAIN disk /\ file.path # NoPath
         /\ DOMAIN disk' = DOMAIN disk
         /\ \A p \in DOMAIN disk' : disk'[p] = IF p = file.path THEN content ELSE disk[p]
BY DEF WriterTypes, FilePhase, Close, File

LEMMA WriterAlone ==
  ASSUME Present, WriterUnchanged, toWriter # << >>, toWriter' = Tail(toWriter),
         announced' \in Nat
  PROVE  SenderTypes' /\ QueueTypes' /\ RestPhase' /\ RunPhase'
<1>1. /\ UNCHANGED controller /\ UNCHANGED source /\ UNCHANGED <<order, inbox, todo, toSource>>
      /\ UNCHANGED <<m_Client, overlaps, misled, skipped>>
  BY DEF WriterUnchanged, shared
<1>2. Up' = Up /\ Down' = Down
  BY <1>1 DEF Up, Down
<1>3. SenderTypes'
  BY <1>1 DEF Present, SenderTypes, controller, source
<1>4. QueueTypes'
  <2>1. toWriter' \in Seq(Calls \cup Data)
    BY Taken DEF Present, QueueTypes
  <2>2. SharedTypes'
    BY <1>1 DEF Present, QueueTypes, SharedTypes
  <2> QED
    BY <1>1, <1>2, <2>1, <2>2 DEF Present, QueueTypes
<1>5. RestPhase' /\ RunPhase'
  BY <1>1, <1>2 DEF Present, RestPhase, RunPhase, source
<1> QED
  BY <1>3, <1>4, <1>5

LEMMA TakenByWriter ==
  ASSUME Present, toWriter # << >>
  PROVE  /\ Head(toWriter) \in Calls \cup Data
         /\ IsAction(Head(toWriter)) => Head(toWriter).action \in RunAction
         /\ IsData(Head(toWriter)) => Head(toWriter).data \in Datum
<1>1. Head(toWriter) \in Calls \cup Data
  BY Taken DEF Present, QueueTypes
<1> QED
  BY <1>1, Kinds

\* What an action does to the file: nothing, an opening or a close.
LEMMA WriterDoes ==
  ASSUME Present, state # "Dead", WriterObeys
  PROVE  LET a == Head(toWriter).action
         IN  /\ a \in RunAction /\ state \in Four /\ state \in AcceptedIn(a) /\ state' = Target(a)
             /\ lost' = lost /\ announced' = announced + 1 /\ WriterUnchanged
             /\ toWriter # << >> /\ toWriter' = Tail(toWriter) /\ IsAction(Head(toWriter))
             /\ \/ a = "Start" /\ state \notin Open2 /\ ~Opened /\ Open
                \/ a = "Stop" /\ state \in Open2 /\ Opened /\ Close
                \/ /\ ~(a = "Start" /\ state \notin Open2)
                   /\ state' \in Open2 <=> state \in Open2
                   /\ UNCHANGED <<file, content, disk>>
<1> DEFINE a == Head(toWriter).action
<1>1. /\ toWriter # << >> /\ IsAction(Head(toWriter)) /\ toWriter' = Tail(toWriter)
      /\ lost' = lost /\ announced' = announced + 1 /\ WriterUnchanged /\ state \in AcceptedIn(a) /\ state' = Target(a)
      /\ CASE a = "Start" -> DoStart
           [] a = "Pause" -> UNCHANGED <<file, content, disk>>
           [] a = "Stop"  -> DoStop
  BY DEF WriterObeys, IsAction
<1>2. a \in RunAction /\ state \in Four
  BY <1>1, TakenByWriter DEF Present, WriterTypes
<1>3. Opened <=> state \in Open2
  BY DEF Present, FilePhase
<1> HIDE DEF a
<1>4. \/ a = "Start" /\ state \notin Open2 /\ ~Opened /\ Open
      \/ a = "Stop" /\ state \in Open2 /\ Opened /\ Close
      \/ /\ ~(a = "Start" /\ state \notin Open2)
         /\ state' \in Open2 <=> state \in Open2
         /\ UNCHANGED <<file, content, disk>>
  <2>1. CASE a = "Start"
    <3>1. DoStart /\ state' \in Open2
      BY <1>1, <2>1, Chart4 DEF Open2
    <3> QED
      BY <1>3, <2>1, <3>1 DEF DoStart
  <2>2. CASE a = "Pause"
    <3>1. state \in Open2 /\ state' \in Open2
      BY <1>1, <1>2, <2>2, Chart4 DEF Open2
    <3> QED
      BY <1>1, <2>2, <3>1
  <2>3. CASE a = "Stop"
    <3>1. DoStop /\ state' \notin Open2
      BY <1>1, <2>3, Chart4 DEF Open2
    <3> QED
      BY <1>3, <2>3, <3>1 DEF DoStop
  <2> QED
    BY <1>2, <2>1, <2>2, <2>3 DEF RunAction
<1> QED
  BY <1>1, <1>2, <1>4 DEF a

LEMMA WriterObeysPresent ==
  ASSUME Present, state # "Dead", WriterObeys
  PROVE  Present'
<1> DEFINE a == Head(toWriter).action
<1>1. SenderTypes' /\ QueueTypes' /\ RestPhase' /\ RunPhase'
  <2>1. announced' \in Nat
    BY WriterDoes DEF Present, QueueTypes, SharedTypes
  <2> QED
    BY <2>1, WriterDoes, WriterAlone
<1>2. state' \in Four
  BY WriterDoes, Chart4 DEF RunAction, Four
<1>3. CASE a = "Start" /\ state \notin Open2 /\ Open
  <2>1. state' \in Open2
    BY <1>3, WriterDoes, Chart4 DEF Open2
  <2>2. /\ file' \in File /\ file'.tfile = "open" /\ file'.path \in Paths /\ content' = << >>
        /\ DOMAIN disk' = DOMAIN disk \cup {file'.path}
        /\ \A p \in DOMAIN disk' : disk'[p] = IF p = file'.path THEN << >> ELSE disk[p]
    BY <1>3, Opens DEF Present
  <2>3. lost' = lost
    BY WriterDoes
  <2>4. WriterTypes'
    <3>1. << >> \in Seq(Datum)
      OBVIOUS
    <3> QED
      BY <1>2, <2>2, <2>3, <3>1 DEF WriterTypes, Present
  <2>5. FilePhase'
    BY <2>1, <2>2 DEF FilePhase, Opened, Paths, NoPath
  <2> QED
    BY <1>1, <2>4, <2>5 DEF Present
<1>4. CASE a = "Stop" /\ state \in Open2 /\ Opened /\ Close
  <2>1. state' \notin Open2
    BY <1>4, WriterDoes, Chart4 DEF Open2
  <2>2. /\ file' \in File /\ file'.tfile = "closed" /\ file'.path = file.path /\ content' = << >>
        /\ file.path \in DOMAIN disk /\ file.path # NoPath
        /\ DOMAIN disk' = DOMAIN disk
        /\ \A p \in DOMAIN disk' : disk'[p] = IF p = file.path THEN content ELSE disk[p]
    BY <1>4, Closes DEF Present
  <2>3. lost' = lost
    BY WriterDoes
  <2>4. WriterTypes'
    <3>1. << >> \in Seq(Datum)
      OBVIOUS
    <3> QED
      BY <1>2, <2>2, <2>3, <3>1 DEF WriterTypes, Present
  <2>5. FilePhase'
    BY <2>1, <2>2 DEF FilePhase, Opened
  <2> QED
    BY <1>1, <2>4, <2>5 DEF Present
<1>5. CASE (state' \in Open2 <=> state \in Open2) /\ UNCHANGED <<file, content, disk>>
  <2>1. lost' = lost
    BY WriterDoes
  <2> QED
    BY <1>1, <1>2, <1>5, <2>1 DEF Present, WriterTypes, FilePhase, Opened
<1> QED
  BY <1>3, <1>4, <1>5, WriterDoes

LEMMA WriterRejectsPresent ==
  ASSUME Present, WriterRejects
  PROVE  Present'
<1>1. SenderTypes' /\ QueueTypes' /\ RestPhase' /\ RunPhase'
  BY WriterAlone DEF WriterRejects, Present, QueueTypes, SharedTypes
<1> QED
  BY <1>1 DEF WriterRejects, writer, Present, WriterTypes, FilePhase, Opened

LEMMA WriterStoresPresent ==
  ASSUME Present, WriterStores
  PROVE  Present'
<1>1. SenderTypes' /\ QueueTypes' /\ RestPhase' /\ RunPhase'
  BY WriterAlone DEF WriterStores, Present, QueueTypes, SharedTypes
<1>2. Head(toWriter).data \in Datum
  BY TakenByWriter DEF WriterStores, IsData
<1>3. /\ content' = Append(content, Head(toWriter).data) /\ Opened
      /\ UNCHANGED <<state, file, disk, lost>>
  BY DEF WriterStores, ParseData
<1> QED
  BY <1>1, <1>2, <1>3 DEF Present, WriterTypes, FilePhase, Opened

LEMMA WriterStraysPresent ==
  ASSUME Present, WriterStrays
  PROVE  Present'
<1>1. SenderTypes' /\ QueueTypes' /\ RestPhase' /\ RunPhase'
  BY WriterAlone DEF WriterStrays, Present, QueueTypes, SharedTypes
<1>2. Head(toWriter).data \in Datum
  BY TakenByWriter DEF WriterStrays, IsData
<1>3. /\ lost' = lost \cup {Head(toWriter).data}
      /\ UNCHANGED <<file, content, disk>> /\ (state' = "Dead" \/ state' = state)
  BY DEF WriterStrays
<1> QED
  BY <1>1, <1>2, <1>3 DEF Present, WriterTypes, FilePhase, Opened

LEMMA PresentNext ==
  ASSUME Present, Clean, RNext
  PROVE  Present'
BY SendActionPresent, CallbackPresent, WriterCallbackPresent, RelayPresent, SourceBeginsPresent,
   SourceRepeatsPresent, SourceRejectsPresent, SourceAnnouncesPresent, IteratePresent, SendDataPresent, WriterObeysPresent,
   WriterRejectsPresent, WriterStoresPresent, WriterStraysPresent DEF RNext

-----------------------------------------------------------------------------
(* The second part of the invariant: where the queues lead.  fs, fd and fw    *)
(* are the courses along toSource, Down and toWriter, of which the first is   *)
(* the source's, the second what the controller has asked for and the third   *)
(* the writer's.  u counts the source's announcements along Up.               *)

\* How far the hub has served the source and the writer with the first message of Down.
AtSource == IF todo["controller"] = <<"writer">> THEN 1 ELSE 0
AtWriter == IF todo["controller"] = <<"source">> THEN 1 ELSE 0

Courses(fs, fd, fw, u) ==
  /\ Along(toSource, fs, Standing, Obeying)
  /\ Along(Down, fd, Standing, Obeying)
  /\ Along(toWriter, fw, Standing, Obeying)
  /\ Along(Up, u, Nat, Counting)

\* The courses begin where their readers stand, and both queues continue in Down.
Ends(fs, fd, fw, u) ==
  /\ fs[0].state = pending /\ fs[0].runs = run
  /\ fs[0].said = u[Len(Up)] + (IF pending = visible THEN 0 ELSE 1)
  /\ fs[Len(toSource)] = fd[AtSource]
  /\ fw[Len(toWriter)] = fd[AtWriter]
  /\ fd[Len(Down)].state = expected /\ fd[Len(Down)].said = u[0] + owed
  /\ state # "Dead" => fw[0].state = state

\* When a Start was sent everything before it had been announced, and until the source
\* has got to it there is nothing new to announce.
Starts(fs, fd, u) ==
  /\ \A i \in 1..Len(toSource) : toSource[i].action = "Start" => fs[i - 1].said = u[0]
  /\ \A i \in (1 + AtSource)..Len(Down) : Down[i].action = "Start" => fd[i - 1].said = u[0]

\* Data that finds the file open finds that of its run.
Matching(fw) ==
  /\ \A i \in 1..Len(toWriter) :
       IsData(toWriter[i]) /\ fw[i - 1].state \in Open2 => toWriter[i].data.run = fw[i - 1].runs
  /\ \A i \in DOMAIN Written : Written[i].run = fw[0].runs

Carried(q) == {q[i].data : i \in {j \in 1..Len(q) : IsData(q[j])}}

\* What has met no file, or has not met the writer.
Away == lost \cup skipped

\* Unless the writer is ahead and has begun the next run already.
Accounting(fw) ==
  fw[0].runs <= run =>
    \A n \in 1..made :
      [run |-> run, number |-> n] \in Range(Written) \cup Away \cup Carried(toWriter) \cup Carried(Up)

Whole(fs, fd, fw, u) ==
  Courses(fs, fd, fw, u) /\ Ends(fs, fd, fw, u) /\ Starts(fs, fd, u) /\ Matching(fw) /\ Accounting(fw)

LEMMA CarriedAppend ==
  ASSUME NEW X, NEW q \in Seq(X), NEW m \in X
  PROVE  Carried(Append(q, m)) = Carried(q) \cup (IF IsData(m) THEN {m.data} ELSE {})
<1>1. /\ Len(Append(q, m)) = Len(q) + 1 /\ Len(q) \in Nat /\ Append(q, m)[Len(q) + 1] = m
      /\ \A i \in 1..Len(q) : Append(q, m)[i] = q[i]
  OBVIOUS
<1>2. \A i \in 1..Len(Append(q, m)) : i \in 1..Len(q) \/ i = Len(q) + 1
  BY <1>1
<1>3. Len(q) + 1 \in 1..Len(Append(q, m)) /\ \A i \in 1..Len(q) : i \in 1..Len(Append(q, m))
  BY <1>1
<1> QED
  BY <1>1, <1>2, <1>3 DEF Carried

LEMMA CarriedTail ==
  ASSUME NEW X, NEW q \in Seq(X), q # << >>
  PROVE  Carried(q) = Carried(Tail(q)) \cup (IF IsData(Head(q)) THEN {Head(q).data} ELSE {})
<1>1. /\ Len(Tail(q)) = Len(q) - 1 /\ Len(q) \in Nat \ {0} /\ Head(q) = q[1]
      /\ \A i \in 1..Len(Tail(q)) : Tail(q)[i] = q[i + 1]
  OBVIOUS
<1>2. \A i \in 1..Len(q) : i = 1 \/ (i - 1 \in 1..Len(Tail(q)) /\ Tail(q)[i - 1] = q[i])
  BY <1>1
<1>3. 1 \in 1..Len(q) /\ \A i \in 1..Len(Tail(q)) : i + 1 \in 1..Len(q)
  BY <1>1
<1>4. ASSUME NEW d \in Carried(q)
      PROVE  d \in Carried(Tail(q)) \cup (IF IsData(Head(q)) THEN {Head(q).data} ELSE {})
  BY <1>1, <1>2 DEF Carried
<1>5. ASSUME NEW d \in Carried(Tail(q)) PROVE d \in Carried(q)
  BY <1>1, <1>3 DEF Carried
<1>6. IsData(Head(q)) => Head(q).data \in Carried(q)
  BY <1>1, <1>3 DEF Carried
<1> QED
  BY <1>4, <1>5, <1>6

LEMMA EmptyCarried ==
  ASSUME NEW q, q = << >>
  PROVE  Carried(q) = {}
BY Nothing DEF Carried

LEMMA WholeInit ==
  ASSUME RInit
  PROVE  \E fs, fd, fw, u : Whole(fs, fd, fw, u)
<1> DEFINE s == [state |-> "Configured", runs |-> 0, said |-> 0]
           f == [i \in 0..0 |-> s]
           u == [i \in 0..0 |-> 0]
<1>1. /\ toSource = << >> /\ toWriter = << >> /\ Down = << >> /\ Up = << >>
      /\ todo["controller"] = << >>
  BY DEF RInit, Down, Up, Sender
<1>2. Len(toSource) = 0 /\ Len(toWriter) = 0 /\ Len(Down) = 0 /\ Len(Up) = 0
  BY <1>1, Nothing
<1>3. s \in Standing /\ f \in [0..0 -> Standing] /\ u \in [0..0 -> Nat] /\ f[0] = s /\ u[0] = 0
  BY DEF Standing, Four
<1> HIDE DEF f, u
<1>4. Courses(f, f, f, u)
  BY <1>2, <1>3 DEF Courses, Along
<1>5. AtSource = 0 /\ AtWriter = 0
  <2>1. << >> # <<"writer">> /\ << >> # <<"source">>
    BY Nothing
  <2> QED
    BY <1>1, <2>1 DEF AtSource, AtWriter
<1>6. Ends(f, f, f, u)
  BY <1>2, <1>3, <1>5 DEF Ends, RInit
<1>7. Starts(f, f, u)
  BY <1>2, <1>5 DEF Starts
<1>8. Matching(f)
  <2>1. Written = << >>
    BY DEF RInit, Written
  <2> QED
    BY <1>2, <2>1, NoPaths DEF Matching
<1>9. Accounting(f)
  BY DEF Accounting, RInit
<1> QED
  BY <1>4, <1>6, <1>7, <1>8, <1>9 DEF Whole

\* The hub's places in the list of receivers cannot be mistaken for one another.
LEMMA Places ==
  ASSUME QueueTypes
  PROVE  /\ <<"writer">> # <<"source">> /\ << >> # <<"writer">> /\ << >> # <<"source">>
         /\ order # <<"writer">> /\ order # <<"source">> /\ order # <<order[2]>> /\ order # << >>
<1>1. <<"writer">> # <<"source">>
  <2>1. <<"writer">>[1] = "writer" /\ <<"source">>[1] = "source"
    OBVIOUS
  <2> QED
    BY <2>1
<1>2. Len(order) = 2
  <2>1. Len(<<"source", "writer">>) = 2 /\ Len(<<"writer", "source">>) = 2
    OBVIOUS
  <2> QED
    BY <2>1 DEF QueueTypes
<1>3. \A x : Len(<<x>>) = 1
  OBVIOUS
<1>4. \A x : order # <<x>> /\ << >> # <<x>>
  BY <1>2, <1>3, Nothing
<1>5. order # << >>
  BY <1>2, Nothing
<1> QED
  BY <1>1, <1>4, <1>5

LEMMA Moved ==
  ASSUME NEW a \in Nat, NEW b \in Int
  PROVE  a + b = (a + 1) + (b - 1)
OBVIOUS

LEMMA Squeezed ==
  ASSUME NEW a \in Nat, NEW b \in Nat, NEW c \in Nat, NEW d \in Nat, a <= b, b <= c, c <= d, d <= a
  PROVE  c = a /\ d = a
OBVIOUS

\* Everything in order: announced, to be announced, to be done, asked for.
LEMMA InOrder ==
  ASSUME Present, NEW fs, NEW fd, NEW fw, NEW u, Whole(fs, fd, fw, u)
  PROVE  /\ Len(toSource) \in Nat /\ Len(Down) \in Nat /\ Len(Up) \in Nat /\ Len(toWriter) \in Nat
         /\ AtSource \in {0, 1} /\ AtWriter \in {0, 1}
         /\ AtSource <= Len(Down) /\ AtWriter <= Len(Down) /\ AtSource + AtWriter <= 1
         /\ u \in [0..Len(Up) -> Nat] /\ fs \in [0..Len(toSource) -> Standing]
         /\ fd \in [0..Len(Down) -> Standing] /\ fw \in [0..Len(toWriter) -> Standing]
         /\ u[0] <= u[Len(Up)] /\ u[Len(Up)] <= fs[0].said
         /\ fs[0].said <= fs[Len(toSource)].said /\ fs[Len(toSource)].said <= fd[Len(Down)].said
<1>1. /\ toSource \in Seq(Calls) /\ Down \in Seq(Calls) /\ toWriter \in Seq(Calls \cup Data)
      /\ Up \in Seq(Data \cup Answers)
  BY DEF Present, QueueTypes
<1>2. Len(toSource) \in Nat /\ Len(Down) \in Nat /\ Len(Up) \in Nat /\ Len(toWriter) \in Nat
  BY <1>1
<1>3. /\ u \in [0..Len(Up) -> Nat] /\ fs \in [0..Len(toSource) -> Standing]
      /\ fd \in [0..Len(Down) -> Standing] /\ fw \in [0..Len(toWriter) -> Standing]
  BY DEF Whole, Courses, Along
<1>4. Down # << >> => Len(Down) >= 1
  BY <1>1
<1>5. /\ AtSource \in {0, 1} /\ AtWriter \in {0, 1}
      /\ AtSource <= Len(Down) /\ AtWriter <= Len(Down) /\ AtSource + AtWriter <= 1
  <2>1. /\ << >> # <<"writer">> /\ << >> # <<"source">> /\ <<"writer">> # <<"source">>
        /\ order # <<"writer">> /\ order # <<"source">>
    BY Places DEF Present
  <2>2. CASE todo["controller"] = << >>
    BY <1>2, <2>1, <2>2 DEF AtSource, AtWriter
  <2>3. CASE todo["controller"] # << >>
    BY <1>2, <1>4, <2>1, <2>3 DEF AtSource, AtWriter, Present, QueueTypes
  <2> QED
    BY <2>2, <2>3
<1>6. u[0] <= u[Len(Up)]
  <2>1. Along(Up, u, Nat, Counting)
    BY DEF Whole, Courses
  <2> QED
    BY <1>1, <1>2, <2>1, CountGrows
<1>7. fs[0].said <= fs[Len(toSource)].said
  <2>1. Along(toSource, fs, Standing, Obeying)
    BY DEF Whole, Courses
  <2> QED
    BY <1>1, <1>2, <2>1, SaidTells
<1>8. fd[AtSource].said <= fd[Len(Down)].said
  <2>1. Along(Down, fd, Standing, Obeying)
    BY DEF Whole, Courses
  <2> QED
    BY <1>1, <1>2, <1>5, <2>1, SaidTells
<1>9. u[Len(Up)] <= fs[0].said /\ fs[Len(toSource)] = fd[AtSource]
  <2>1. fs[0].said \in Nat /\ u[Len(Up)] \in Nat
    <3>1. 0 \in 0..Len(toSource) /\ Len(Up) \in 0..Len(Up)
      BY <1>2
    <3>2. fs[0] \in Standing /\ u[Len(Up)] \in Nat
      BY <1>3, <3>1
    <3> QED
      BY <3>2 DEF Standing
  <2> QED
    BY <2>1 DEF Whole, Ends
<1> QED
  BY <1>2, <1>3, <1>5, <1>6, <1>7, <1>8, <1>9

\* While a Start is to be done, the source rests and has been heard.
LEMMA Rests ==
  ASSUME Present, NEW fs, NEW fd, NEW fw, NEW u, Whole(fs, fd, fw, u), fs[0].said = u[0]
  PROVE  pending = visible /\ \A j \in 1..Len(Up) : ~IsState(Up[j])
<1>1. /\ u[0] <= u[Len(Up)] /\ u[Len(Up)] <= fs[0].said /\ Len(Up) \in Nat
      /\ u \in [0..Len(Up) -> Nat]
  BY InOrder
<1>2. u[0] \in Nat /\ u[Len(Up)] \in Nat
  <2>1. 0 \in 0..Len(Up) /\ Len(Up) \in 0..Len(Up)
    BY <1>1
  <2> QED
    BY <1>1, <2>1
<1>3. u[Len(Up)] = u[0]
  BY <1>1, <1>2
<1>4. pending = visible
  BY <1>2, <1>3 DEF Whole, Ends
<1>5. ASSUME NEW j \in 1..Len(Up), IsState(Up[j]) PROVE FALSE
  <2>1. Up \in Seq(Data \cup Answers) /\ Along(Up, u, Nat, Counting)
    BY DEF Present, QueueTypes, Whole, Courses
  <2>2. 0 \in 0..Len(Up) /\ j - 1 \in 0..Len(Up) /\ j \in 0..Len(Up) /\ Len(Up) \in 0..Len(Up)
    BY <1>1
  <2>3. u[0] <= u[j - 1] /\ u[j] <= u[Len(Up)] /\ u[j] = u[j - 1] + 1
    <3>1. /\ \A i, k \in 0..Len(Up) : i <= k => u[i] <= u[k]
          /\ \A i \in 1..Len(Up) : IsState(Up[i]) => u[i] = u[i - 1] + 1
      BY <2>1, CountGrows
    <3>2. 0 <= j - 1 /\ j <= Len(Up)
      BY <1>1
    <3> QED
      BY <1>5, <2>2, <3>1, <3>2
  <2>4. u[j] \in Nat /\ u[j - 1] \in Nat
    BY <1>1, <2>2
  <2> QED
    BY <1>2, <1>3, <2>3, <2>4
<1> QED
  BY <1>4, <1>5

LEMMA StartAtSource ==
  ASSUME Present, NEW fs, NEW fd, NEW fw, NEW u, Whole(fs, fd, fw, u),
         NEW i \in 1..Len(toSource), toSource[i].action = "Start"
  PROVE  fs[0].said = u[0] /\ fs[i - 1] = fs[0]
<1>1. Len(toSource) \in Nat /\ fs \in [0..Len(toSource) -> Standing] /\ u[0] <= fs[0].said
      /\ u[0] \in Nat
  <2>1. /\ u[0] <= u[Len(Up)] /\ u[Len(Up)] <= fs[0].said /\ Len(Up) \in Nat
        /\ u \in [0..Len(Up) -> Nat] /\ Len(toSource) \in Nat /\ fs \in [0..Len(toSource) -> Standing]
    BY InOrder
  <2>2. 0 \in 0..Len(Up) /\ Len(Up) \in 0..Len(Up) /\ 0 \in 0..Len(toSource)
    BY <2>1
  <2>3. u[0] \in Nat /\ u[Len(Up)] \in Nat /\ fs[0] \in Standing
    BY <2>1, <2>2
  <2>4. fs[0].said \in Nat
    BY <2>3 DEF Standing
  <2> QED
    BY <2>1, <2>3, <2>4
<1>2. fs[i - 1].said = u[0]
  BY DEF Whole, Starts
<1>3. 0 \in 0..Len(toSource) /\ i - 1 \in 0..Len(toSource) /\ 0 <= i - 1
  BY <1>1
<1>4. fs[0].said <= fs[i - 1].said /\ (fs[0].said = fs[i - 1].said => fs[0] = fs[i - 1])
  <2>1. toSource \in Seq(Calls) /\ Along(toSource, fs, Standing, Obeying)
    BY DEF Present, QueueTypes, Whole, Courses
  <2> QED
    BY <1>3, <2>1, SaidTells
<1>5. fs[0].said \in Nat
  <2>1. fs[0] \in Standing
    BY <1>1, <1>3
  <2> QED
    BY <2>1 DEF Standing
<1> QED
  BY <1>1, <1>2, <1>4, <1>5

LEMMA StartAtHub ==
  ASSUME Present, NEW fs, NEW fd, NEW fw, NEW u, Whole(fs, fd, fw, u),
         NEW i \in (1 + AtSource)..Len(Down), Down[i].action = "Start"
  PROVE  fs[0].said = u[0] /\ fd[i - 1] = fs[Len(toSource)] /\ fs[Len(toSource)] = fs[0]
<1>1. /\ Len(toSource) \in Nat /\ Len(Down) \in Nat /\ Len(Up) \in Nat /\ AtSource \in {0, 1}
      /\ u \in [0..Len(Up) -> Nat] /\ fs \in [0..Len(toSource) -> Standing]
      /\ fd \in [0..Len(Down) -> Standing]
      /\ u[0] <= u[Len(Up)] /\ u[Len(Up)] <= fs[0].said
      /\ fs[0].said <= fs[Len(toSource)].said
  BY InOrder
<1>2. fd[i - 1].said = u[0] /\ fs[Len(toSource)] = fd[AtSource]
  BY DEF Whole, Starts, Ends
<1>3. /\ 0 \in 0..Len(Up) /\ Len(Up) \in 0..Len(Up) /\ 0 \in 0..Len(toSource)
      /\ Len(toSource) \in 0..Len(toSource)
      /\ i - 1 \in 0..Len(Down) /\ AtSource \in 0..Len(Down) /\ AtSource <= i - 1
  BY <1>1
<1>4. u[0] \in Nat /\ u[Len(Up)] \in Nat /\ fs[0] \in Standing /\ fs[Len(toSource)] \in Standing
  BY <1>1, <1>3
<1>5. fs[0].said \in Nat /\ fs[Len(toSource)].said \in Nat
  BY <1>4 DEF Standing
<1>6. fd[AtSource].said <= fd[i - 1].said
      /\ (fd[AtSource].said = fd[i - 1].said => fd[AtSource] = fd[i - 1])
  <2>1. Down \in Seq(Calls) /\ Along(Down, fd, Standing, Obeying)
    BY DEF Present, QueueTypes, Whole, Courses
  <2> QED
    BY <1>3, <2>1, SaidTells
<1>7. fs[0].said = u[0] /\ fs[Len(toSource)].said = u[0]
  <2>1. /\ u[0] <= u[Len(Up)] /\ u[Len(Up)] <= fs[0].said
        /\ fs[0].said <= fs[Len(toSource)].said /\ fs[Len(toSource)].said <= u[0]
    BY <1>1, <1>2, <1>6
  <2>2. /\ u[0] \in Nat /\ u[Len(Up)] \in Nat /\ fs[0].said \in Nat
        /\ fs[Len(toSource)].said \in Nat
    BY <1>4, <1>5
  <2> QED
    BY <2>1, <2>2, Squeezed
<1>8. fs[0].said = fs[Len(toSource)].said => fs[0] = fs[Len(toSource)]
  <2>1. toSource \in Seq(Calls) /\ Along(toSource, fs, Standing, Obeying)
    BY DEF Present, QueueTypes, Whole, Courses
  <2> QED
    BY <1>1, <1>3, <2>1, SaidTells
<1> QED
  BY <1>2, <1>6, <1>7, <1>8

\* Data on its way up is of a run that the source is in, or has not been told to leave for
\* another.
LEMMA DataKeepsOpen ==
  ASSUME Present, NEW fs, NEW fd, NEW fw, NEW u, Whole(fs, fd, fw, u), fs[0].said = u[0],
         Up # << >>
  PROVE  pending \in Open2
<1>1. pending = visible /\ \A j \in 1..Len(Up) : ~IsState(Up[j])
  BY Rests
<1>2. Len(Up) \in 1..Len(Up)
  BY DEF Present, QueueTypes
<1>3. ~IsState(Up[Len(Up)])
  BY <1>1, <1>2
<1> QED
  BY <1>1, <1>3 DEF Present, RestPhase, Open2

\* One step of a course begins a run or stays in it.
LEMMA OneStep ==
  ASSUME NEW q, NEW f, Along(q, f, Standing, Obeying), NEW i \in 1..Len(q)
  PROVE  /\ f[i - 1] \in Standing /\ f[i] \in Standing /\ q[i] \in Calls \cup Data
         /\ f[i] = After(f[i - 1], q[i])
         /\ f[i].runs # f[i - 1].runs =>
              q[i].action = "Start" /\ IsAction(q[i]) /\ f[i - 1].state \notin Open2
<1>1. <<f[i - 1], q[i], f[i]>> \in Obeying
  BY DEF Along
<1>2. f[i - 1] \in Standing /\ f[i] \in Standing /\ q[i] \in Calls \cup Data
      /\ f[i] = After(f[i - 1], q[i])
  BY <1>1, Obeyed
<1> QED
  BY <1>2 DEF After, Begins

LEMMA NothingBegun ==
  ASSUME Present, NEW fs, NEW fd, NEW fw, NEW u, Whole(fs, fd, fw, u), Up # << >>
  PROVE  \A i \in 0..Len(toSource) : fs[i].runs = run
<1> DEFINE n == Len(toSource)
           N == {i \in Nat : i \in 0..n => fs[i].runs = run}
<1>1. n \in Nat /\ fs[0].runs = run /\ fs[0].state = pending
  BY InOrder DEF Whole, Ends
<1>2. 0 \in N
  BY <1>1
<1>3. ASSUME NEW i \in Nat, i \in N PROVE i + 1 \in N
  <2> SUFFICES ASSUME i + 1 \in 0..n PROVE fs[i + 1].runs = run
    OBVIOUS
  <2>1. i + 1 \in 1..n /\ (i + 1) - 1 = i /\ fs[i].runs = run
    BY <1>1, <1>3
  <2>2. Along(toSource, fs, Standing, Obeying)
    BY DEF Whole, Courses
  <2>3. fs[i + 1].runs # fs[i].runs => toSource[i + 1].action = "Start" /\ fs[i].state \notin Open2
    BY <2>1, <2>2, OneStep
  <2>4. ASSUME toSource[i + 1].action = "Start" PROVE fs[i].state \in Open2
    <3>1. fs[0].said = u[0] /\ fs[i] = fs[0]
      BY <2>1, <2>4, StartAtSource
    <3> QED
      BY <1>1, <3>1, DataKeepsOpen
  <2> QED
    BY <2>1, <2>3, <2>4
<1> HIDE DEF N
<1>4. \A i \in Nat : i \in N
  BY <1>2, <1>3, Induction
<1> QED
  BY <1>1, <1>4 DEF N

\* So it finds its own file, or none, when it joins the writer's queue.
LEMMA JoinsItsRun ==
  ASSUME Present, NEW fs, NEW fd, NEW fw, NEW u, Whole(fs, fd, fw, u), Up # << >>,
         fw[Len(toWriter)].state \in Open2
  PROVE  fw[Len(toWriter)].runs = run
<1>1. /\ Len(toSource) \in Nat /\ Len(Down) \in Nat /\ AtSource \in {0, 1} /\ AtWriter \in {0, 1}
      /\ AtSource <= Len(Down) /\ AtWriter <= Len(Down) /\ AtSource + AtWriter <= 1
  BY InOrder
<1>2. Len(toSource) \in 0..Len(toSource)
  BY <1>1
<1>3. fs[Len(toSource)].runs = run
  BY <1>2, NothingBegun
<1>4. fs[Len(toSource)] = fd[AtSource] /\ fw[Len(toWriter)] = fd[AtWriter]
      /\ fs[0].state = pending /\ Along(Down, fd, Standing, Obeying)
  BY DEF Whole, Ends, Courses
<1>5. CASE AtSource = AtWriter
  BY <1>3, <1>4, <1>5
<1>6. CASE AtSource = 1 /\ AtWriter = 0
  <2>1. 1 \in 1..Len(Down) /\ 1 - 1 = 0
    BY <1>1, <1>6
  <2>2. fd[1].runs # fd[0].runs => fd[0].state \notin Open2
    BY <1>4, <2>1, OneStep
  <2> QED
    BY <1>3, <1>4, <1>6, <2>2
<1>7. CASE AtSource = 0 /\ AtWriter = 1
  <2>1. 1 \in 1..Len(Down) /\ 1 - 1 = 0 /\ 1 \in (1 + AtSource)..Len(Down)
    BY <1>1, <1>7
  <2>2. fd[1].runs # fd[0].runs => Down[1].action = "Start" /\ fd[0].state \notin Open2
    BY <1>4, <2>1, OneStep
  <2>3. ASSUME Down[1].action = "Start" PROVE fd[0].state \in Open2
    <3>1. fs[0].said = u[0] /\ fd[0] = fs[Len(toSource)] /\ fs[Len(toSource)] = fs[0]
      BY <2>1, <2>3, StartAtHub
    <3> QED
      BY <1>4, <3>1, DataKeepsOpen
  <2> QED
    BY <1>3, <1>4, <1>7, <2>2, <2>3
<1> QED
  BY <1>1, <1>5, <1>6, <1>7

\* A run begins when there is nothing left of the one before.
LEMMA BeginsClean ==
  ASSUME Present, NEW fs, NEW fd, NEW fw, NEW u, Whole(fs, fd, fw, u), SourceBegins
  PROVE  Clean
<1> SUFFICES ASSUME run' # run, Up # << >> PROVE FALSE
  BY DEF Clean
<1>1. /\ toSource # << >> /\ Head(toSource).action = "Start" /\ visible # "Paused"
      /\ pending = visible /\ visible # Target("Start")
  BY Moves, Chart4 DEF SourceBegins, S!Undertake, Present, SenderTypes
<1>2. 1 \in 1..Len(toSource) /\ 1 - 1 = 0 /\ toSource[1] = Head(toSource)
  BY <1>1 DEF Present, QueueTypes
<1>3. fs[0].said = u[0]
  BY <1>1, <1>2, StartAtSource
<1>4. pending \in Open2
  BY <1>3, DataKeepsOpen
<1> QED
  BY <1>1, <1>4, Chart4 DEF Open2

-----------------------------------------------------------------------------
(* Each action keeps the second part. *)

\* The writer's file, and the data in its queue and on its way up, when none of them
\* changes.
LEMMA WriterKept ==
  ASSUME NEW fw, Matching(fw), Accounting(fw), UNCHANGED <<writer, toWriter, run, made, skipped>>,
         Carried(Up)' = Carried(Up)
  PROVE  Matching(fw)' /\ Accounting(fw)'
<1>1. /\ UNCHANGED <<state, file, content, disk>> /\ toWriter' = toWriter
      /\ run' = run /\ made' = made /\ Away' = Away
  BY DEF writer, Away
<1>2. Written' = Written
  BY <1>1 DEF Written, Opened
<1>3. Matching(fw)'
  BY <1>1, <1>2 DEF Matching
<1>4. Carried(toWriter)' = Carried(toWriter)
  BY <1>1
<1>5. Accounting(fw)'
  BY <1>1, <1>2, <1>4 DEF Accounting
<1> QED
  BY <1>3, <1>5

LEMMA SendActionWhole ==
  ASSUME Present, NEW fs, NEW fd, NEW fw, NEW u, Whole(fs, fd, fw, u),
         NEW a \in RunAction, SendAction(a)
  PROVE  \E gs, gd, gw, v : Whole(gs, gd, gw, v)'
<1> DEFINE m == [action |-> a]
           n == Len(Down)
<1>1. /\ a = "Start" => owed = 0
      /\ IF expected \in AcceptedIn(a)
         THEN expected' = Target(a) /\ owed' = owed + 1
         ELSE UNCHANGED <<expected, owed>>
      /\ UNCHANGED <<visible, pending, acquiring, alive, run, made>>
      /\ UNCHANGED <<todo, toSource, toWriter, skipped>> /\ UNCHANGED writer
  BY DEF SendAction, Settled, source, shared
<1>2. Down' = Append(Down, m) /\ Up' = Up
  BY DEF SendAction, Present, Down, Up, QueueTypes, Sender
<1>3. m \in Calls /\ m.action = a /\ IsAction(m)
  BY DEF Calls, IsAction
<1>4. /\ n \in Nat /\ Down \in Seq(Calls) /\ fd \in [0..n -> Standing] /\ AtSource \in {0, 1}
      /\ AtWriter \in {0, 1} /\ AtSource <= n /\ AtWriter <= n /\ Along(Down, fd, Standing, Obeying)
      /\ AtSource' = AtSource /\ AtWriter' = AtWriter
  BY <1>1, InOrder DEF Present, QueueTypes, Whole, Courses, AtSource, AtWriter
<1> HIDE DEF m
<1> DEFINE s == After(fd[n], m)
<1>5. s \in Standing /\ <<fd[n], m, s>> \in Obeying
  BY <1>3, <1>4, AfterTypes, Obey
<1> HIDE DEF s
<1> PICK gd : gd = Longer(Down, fd, s)
  OBVIOUS
<1>6. /\ Along(Append(Down, m), gd, Standing, Obeying)
      /\ gd[n + 1] = s /\ \A i \in 0..n : gd[i] = fd[i]
  <2>1. /\ Down \in Seq(Calls) /\ m \in Calls /\ Along(Down, fd, Standing, Obeying)
        /\ s \in Standing /\ <<fd[Len(Down)], m, s>> \in Obeying
    BY <1>3, <1>4, <1>5
  <2>2. Along(Append(Down, m), gd, Standing, Obeying)
    BY <2>1, CourseAppend
  <2> QED
    BY <2>1, <2>2, LongerIs
<1>7. Len(Append(Down, m)) = n + 1 /\ Append(Down, m)[n + 1] = m
      /\ \A i \in 1..n : Append(Down, m)[i] = Down[i]
  BY <1>3, <1>4
<1>8. Courses(fs, gd, fw, u)'
  BY <1>1, <1>2, <1>6 DEF Whole, Courses
<1>9. gd[n + 1].state = expected' /\ gd[n + 1].said = u[0] + owed'
  <2>1. fd[n].state = expected /\ fd[n].said = u[0] + owed
    BY DEF Whole, Ends
  <2>2. gd[n + 1] = After(fd[n], m)
    BY <1>6, <1>7 DEF s
  <2>3. u[0] \in Nat /\ owed \in Int
    <3>1. Len(Up) \in Nat /\ u \in [0..Len(Up) -> Nat]
      BY InOrder
    <3> QED
      BY <3>1 DEF Present, SenderTypes
  <2>4. CASE expected \in AcceptedIn(a)
    <3>1. gd[n + 1].state = Target(a) /\ gd[n + 1].said = fd[n].said + 1
      BY <1>3, <2>1, <2>2, <2>4 DEF After
    <3>2. expected' = Target(a) /\ owed' = owed + 1
      BY <1>1, <2>4
    <3>3. (u[0] + owed) + 1 = u[0] + (owed + 1)
      BY <2>3
    <3> QED
      BY <2>1, <3>1, <3>2, <3>3
  <2>5. CASE expected \notin AcceptedIn(a)
    BY <1>1, <1>3, <2>1, <2>2, <2>5 DEF After
  <2> QED
    BY <2>4, <2>5
<1>10. Ends(fs, gd, fw, u)'
  <2>1. gd[AtSource] = fd[AtSource] /\ gd[AtWriter] = fd[AtWriter]
    BY <1>4, <1>6
  <2> QED
    BY <1>1, <1>2, <1>4, <1>7, <1>9, <2>1 DEF Whole, Ends, writer
<1>11. Starts(fs, gd, u)'
  <2>1. ASSUME NEW i \in (1 + AtSource)..(n + 1), Down'[i].action = "Start"
        PROVE  gd[i - 1].said = u[0]
    <3>1. CASE i \in (1 + AtSource)..n
      <4>1. i - 1 \in 0..n /\ Down'[i] = Down[i]
        BY <1>2, <1>4, <1>7, <3>1
      <4> QED
        BY <1>6, <2>1, <3>1, <4>1 DEF Whole, Starts
    <3>2. CASE i = n + 1
      <4>1. a = "Start"
        BY <1>2, <1>3, <1>7, <2>1, <3>2
      <4>2. fd[n].said = u[0]
        <5>1. Len(Up) \in Nat /\ u \in [0..Len(Up) -> Nat]
          BY InOrder
        <5> QED
          BY <1>1, <4>1, <5>1 DEF Whole, Ends
      <4>3. i - 1 = n /\ n \in 0..n
        BY <1>4, <3>2
      <4> QED
        BY <1>6, <4>2, <4>3
    <3> QED
      BY <1>4, <3>1, <3>2
  <2> QED
    BY <1>1, <1>2, <1>4, <1>7, <2>1 DEF Whole, Starts
<1>12. Matching(fw)' /\ Accounting(fw)'
  BY <1>1, <1>2, WriterKept DEF Whole
<1> QED
  BY <1>8, <1>10, <1>11, <1>12 DEF Whole

LEMMA FirstOfDown ==
  ASSUME Present, NEW fs, NEW fd, NEW fw, NEW u, Whole(fs, fd, fw, u), Down # << >>
  PROVE  /\ Head(Down) = Down[1] /\ Head(Down) \in Calls /\ 1 \in 1..Len(Down)
         /\ fd[0] \in Standing /\ fd[1] \in Standing /\ <<fd[0], Head(Down), fd[1]>> \in Obeying
<1>1. Head(Down) = Down[1] /\ Head(Down) \in Calls /\ Len(Down) \in Nat \ {0}
  BY Taken DEF Present, QueueTypes
<1>2. 1 \in 1..Len(Down) /\ 1 - 1 = 0
  BY <1>1
<1>3. Along(Down, fd, Standing, Obeying)
  BY DEF Whole, Courses
<1>4. fd[0] \in Standing /\ fd[1] \in Standing
  BY <1>2, <1>3, OneStep
<1>5. <<fd[1 - 1], Down[1], fd[1]>> \in Obeying
  BY <1>2, <1>3 DEF Along
<1> QED
  BY <1>1, <1>2, <1>4, <1>5

\* The source gets the first action of the queue.
LEMMA ServeSource ==
  ASSUME Present, NEW fs, NEW fd, NEW fw, NEW u, Whole(fs, fd, fw, u), Down # << >>, AtSource = 0,
         toSource' = Append(toSource, Head(Down))
  PROVE  \E gs : /\ Along(toSource', gs, Standing, Obeying)
                 /\ gs[0] = fs[0] /\ gs[Len(toSource')] = fd[1]
                 /\ \A i \in 1..Len(toSource') :
                      toSource'[i].action = "Start" => gs[i - 1].said = u[0]
<1> DEFINE n == Len(toSource)
<1> PICK gs : gs = Longer(toSource, fs, fd[1])
  OBVIOUS
<1>1. /\ toSource \in Seq(Calls) /\ Along(toSource, fs, Standing, Obeying) /\ fs[n] = fd[0]
  BY DEF Present, QueueTypes, Whole, Courses, Ends
<1>2. Head(Down) \in Calls /\ fd[1] \in Standing /\ <<fs[n], Head(Down), fd[1]>> \in Obeying
      /\ Head(Down) = Down[1]
  BY <1>1, FirstOfDown
<1>3. Along(toSource', gs, Standing, Obeying)
  BY <1>1, <1>2, CourseAppend
<1>4. gs[n + 1] = fd[1] /\ \A i \in 0..n : gs[i] = fs[i]
  BY <1>1, LongerIs
<1>5. /\ n \in Nat /\ Len(toSource') = n + 1 /\ toSource'[n + 1] = Head(Down)
      /\ \A i \in 1..n : toSource'[i] = toSource[i]
  BY <1>1, <1>2
<1>6. ASSUME NEW i \in 1..(n + 1), toSource'[i].action = "Start" PROVE gs[i - 1].said = u[0]
  <2>1. CASE i \in 1..n
    <3>1. toSource[i].action = "Start" /\ i - 1 \in 0..n
      BY <1>5, <1>6, <2>1
    <3>2. fs[i - 1].said = u[0]
      BY <2>1, <3>1 DEF Whole, Starts
    <3> QED
      BY <1>4, <3>1, <3>2
  <2>2. CASE i = n + 1
    <3>1. Down[1].action = "Start" /\ 1 \in (1 + AtSource)..Len(Down) /\ 1 - 1 = 0
      BY <1>2, <1>5, <1>6, <2>2, FirstOfDown
    <3>2. fd[0].said = u[0]
      <4>1. fd[1 - 1].said = u[0]
        BY <3>1 DEF Whole, Starts
      <4> QED
        BY <3>1, <4>1
    <3>3. i - 1 = n /\ n \in 0..n
      BY <1>5, <2>2
    <3> QED
      BY <1>1, <1>4, <3>2, <3>3
  <2> QED
    BY <1>5, <2>1, <2>2
<1> QED
  BY <1>3, <1>4, <1>5, <1>6

\* The writer gets it.
LEMMA ServeWriter ==
  ASSUME Present, NEW fs, NEW fd, NEW fw, NEW u, Whole(fs, fd, fw, u), Down # << >>, AtWriter = 0,
         toWriter' = Append(toWriter, Head(Down)), UNCHANGED <<writer, run, made, skipped>>, Up' = Up
  PROVE  \E gw : /\ Along(toWriter', gw, Standing, Obeying)
                 /\ gw[0] = fw[0] /\ gw[Len(toWriter')] = fd[1]
                 /\ Matching(gw)' /\ Accounting(gw)'
<1> DEFINE n == Len(toWriter)
<1> PICK gw : gw = Longer(toWriter, fw, fd[1])
  OBVIOUS
<1>1. /\ toWriter \in Seq(Calls \cup Data) /\ Along(toWriter, fw, Standing, Obeying) /\ fw[n] = fd[0]
  BY DEF Present, QueueTypes, Whole, Courses, Ends
<1>2. Head(Down) \in Calls \cup Data /\ fd[1] \in Standing /\ <<fw[n], Head(Down), fd[1]>> \in Obeying
      /\ ~IsData(Head(Down))
  <2>1. Head(Down) \in Calls
    BY FirstOfDown
  <2> QED
    BY <1>1, <2>1, FirstOfDown, Kinds
<1>3. Along(toWriter', gw, Standing, Obeying)
  BY <1>1, <1>2, CourseAppend
<1>4. gw[n + 1] = fd[1] /\ \A i \in 0..n : gw[i] = fw[i]
  BY <1>1, LongerIs
<1>5. /\ n \in Nat /\ Len(toWriter') = n + 1 /\ toWriter'[n + 1] = Head(Down)
      /\ \A i \in 1..n : toWriter'[i] = toWriter[i]
  BY <1>1, <1>2
<1>6. gw[0] = fw[0]
  BY <1>4, <1>5
<1>7. Written' = Written /\ Away' = Away
  BY DEF writer, Written, Opened, Away
<1>8. Matching(gw)'
  <2>1. ASSUME NEW i \in 1..(n + 1), IsData(toWriter'[i]), gw[i - 1].state \in Open2
        PROVE  toWriter'[i].data.run = gw[i - 1].runs
    <3>1. i \in 1..n /\ i - 1 \in 0..n
      <4>1. i # n + 1
        BY <1>2, <1>5, <2>1
      <4> QED
        BY <1>5, <4>1
    <3> QED
      BY <1>4, <1>5, <2>1, <3>1 DEF Whole, Matching
  <2>2. \A i \in DOMAIN Written : Written[i].run = fw[0].runs
    BY DEF Whole, Matching
  <2> QED
    BY <1>5, <1>6, <1>7, <2>1, <2>2 DEF Matching
<1>9. Accounting(gw)'
  <2>1. Carried(toWriter') = Carried(toWriter)
    <3> DEFINE m == Head(Down)
    <3>1. Carried(Append(toWriter, m)) = Carried(toWriter) \cup (IF IsData(m) THEN {m.data} ELSE {})
      <4>1. toWriter \in Seq(Calls \cup Data) /\ m \in Calls \cup Data
        BY <1>1, <1>2
      <4> HIDE DEF m
      <4> QED
        BY <4>1, CarriedAppend
    <3> QED
      BY <1>2, <3>1
  <2> QED
    BY <1>6, <1>7, <2>1 DEF Whole, Accounting, Carried
<1> QED
  BY <1>3, <1>4, <1>5, <1>6, <1>8, <1>9

\* The hub has served both.
LEMMA LeaveDown ==
  ASSUME Present, NEW fs, NEW fd, NEW fw, NEW u, Whole(fs, fd, fw, u), Down # << >>,
         Down' = Tail(Down)
  PROVE  \E gd : /\ Along(Down', gd, Standing, Obeying)
                 /\ gd[0] = fd[1] /\ gd[Len(Down')] = fd[Len(Down)]
                 /\ \A i \in 1..Len(Down') : Down'[i].action = "Start" => gd[i - 1].said = u[0]
<1> PICK gd : gd = Shorter(Down, fd)
  OBVIOUS
<1>1. Down \in Seq(Calls) /\ Along(Down, fd, Standing, Obeying) /\ AtSource \in {0, 1}
  BY InOrder DEF Present, QueueTypes, Whole, Courses
<1>2. Along(Down', gd, Standing, Obeying)
  BY <1>1, CourseTail
<1>3. /\ gd[0] = fd[1] /\ gd[Len(Down) - 1] = fd[Len(Down)]
      /\ \A i \in 0..(Len(Down) - 1) : gd[i] = fd[i + 1]
  BY <1>1, ShorterIs
<1>4. /\ Len(Down) \in Nat \ {0} /\ Len(Down') = Len(Down) - 1
      /\ \A i \in 1..Len(Down') : Down'[i] = Down[i + 1]
  BY <1>1, Taken
<1>5. ASSUME NEW i \in 1..Len(Down'), Down'[i].action = "Start" PROVE gd[i - 1].said = u[0]
  <2>1. /\ i + 1 \in (1 + AtSource)..Len(Down) /\ (i + 1) - 1 = i
        /\ i - 1 \in 0..(Len(Down) - 1) /\ (i - 1) + 1 = i
    BY <1>1, <1>4
  <2>2. fd[(i + 1) - 1].said = u[0]
    BY <1>4, <1>5, <2>1 DEF Whole, Starts
  <2> QED
    BY <1>3, <2>1, <2>2
<1> QED
  BY <1>2, <1>3, <1>4, <1>5

LEMMA RelayDownWhole ==
  ASSUME Present, NEW fs, NEW fd, NEW fw, NEW u, Whole(fs, fd, fw, u), Relay("controller"),
         ~misled'
  PROVE  \E gs, gd, gw, v : Whole(gs, gd, gw, v)'
<1>1. /\ UNCHANGED <<expected, sentActions>> /\ UNCHANGED source /\ UNCHANGED writer /\ order' = order
  BY Relays DEF Sender
<1>2. /\ visible' = visible /\ pending' = pending /\ run' = run /\ made' = made
      /\ state' = state
  BY <1>1 DEF source, writer
<1>3. Down # << >> /\ Up' = Up /\ owed' = owed /\ skipped' = skipped
  BY RelayDown DEF Present
<1>4. /\ <<"writer">> # <<"source">> /\ << >> # <<"writer">> /\ << >> # <<"source">>
      /\ order # <<"writer">> /\ order # <<"source">> /\ order # <<order[2]>>
  BY Places DEF Present
<1>5. Carried(Up)' = Carried(Up)
  BY <1>3
<1> DEFINE first == todo["controller"] = order /\ todo'["controller"] = <<order[2]>> /\ inbox' = inbox
           last == /\ todo["controller"] = <<order[2]>> /\ todo'["controller"] = << >>
                   /\ inbox' = [inbox EXCEPT !["controller"] = Tail(@)]
           source1 == toSource' = Append(toSource, Head(Down)) /\ toWriter' = toWriter
           writer1 == toWriter' = Append(toWriter, Head(Down)) /\ toSource' = toSource
<1>6. \/ first /\ order[1] = "source" /\ order[2] = "writer" /\ source1
      \/ first /\ order[1] = "writer" /\ order[2] = "source" /\ writer1
      \/ last /\ order[2] = "source" /\ source1
      \/ last /\ order[2] = "writer" /\ writer1
  <2>1. \/ order[1] = "source" /\ order[2] = "writer"
        \/ order[1] = "writer" /\ order[2] = "source"
    BY DEF Present, QueueTypes
  <2> QED
    BY <1>4, <2>1, RelayDown DEF Present
<1>7. last => Down' = Tail(Down)
  BY DEF Present, QueueTypes, Down, Sender
<1>8. first => Down' = Down
  BY DEF Down
<1> HIDE DEF first, last
<1>9. CASE first /\ order[1] = "source" /\ order[2] = "writer" /\ source1
  <2>1. AtSource = 0 /\ AtWriter = 0 /\ AtSource' = 1 /\ AtWriter' = 0
    BY <1>4, <1>9 DEF AtSource, AtWriter, first
  <2>2. PICK gs : /\ Along(toSource', gs, Standing, Obeying)
                  /\ gs[0] = fs[0] /\ gs[Len(toSource')] = fd[1]
                  /\ \A i \in 1..Len(toSource') :
                       toSource'[i].action = "Start" => gs[i - 1].said = u[0]
    BY <1>3, <1>9, <2>1, ServeSource
  <2>3. Courses(gs, fd, fw, u)'
    BY <1>3, <1>8, <1>9, <2>2 DEF Whole, Courses
  <2>4. Ends(gs, fd, fw, u)'
    BY <1>1, <1>2, <1>3, <1>8, <1>9, <2>1, <2>2 DEF Whole, Ends
  <2>5. Starts(gs, fd, u)'
    <3>1. \A i \in (1 + AtSource')..Len(Down) : i \in (1 + AtSource)..Len(Down)
      BY <2>1
    <3> QED
      BY <1>3, <1>8, <1>9, <2>2, <3>1 DEF Whole, Starts
  <2>6. Matching(fw)' /\ Accounting(fw)'
    BY <1>1, <1>2, <1>3, <1>5, <1>9, WriterKept DEF Whole
  <2> QED
    BY <2>3, <2>4, <2>5, <2>6 DEF Whole
<1>10. CASE first /\ order[1] = "writer" /\ order[2] = "source" /\ writer1
  <2>1. AtSource = 0 /\ AtWriter = 0 /\ AtSource' = 0 /\ AtWriter' = 1
    BY <1>4, <1>10 DEF AtSource, AtWriter, first
  <2>2. PICK gw : /\ Along(toWriter', gw, Standing, Obeying)
                  /\ gw[0] = fw[0] /\ gw[Len(toWriter')] = fd[1]
                  /\ Matching(gw)' /\ Accounting(gw)'
    BY <1>1, <1>2, <1>3, <1>10, <2>1, ServeWriter
  <2>3. Courses(fs, fd, gw, u)'
    BY <1>3, <1>8, <1>10, <2>2 DEF Whole, Courses
  <2>4. Ends(fs, fd, gw, u)'
    BY <1>1, <1>2, <1>3, <1>8, <1>10, <2>1, <2>2 DEF Whole, Ends
  <2>5. Starts(fs, fd, u)'
    BY <1>3, <1>8, <1>10, <2>1 DEF Whole, Starts
  <2> QED
    BY <2>2, <2>3, <2>4, <2>5 DEF Whole
<1>11. CASE last /\ order[2] = "source" /\ source1
  <2>1. AtSource = 0 /\ AtWriter = 1 /\ AtSource' = 0 /\ AtWriter' = 0
    BY <1>4, <1>11 DEF AtSource, AtWriter, last
  <2>2. PICK gs : /\ Along(toSource', gs, Standing, Obeying)
                  /\ gs[0] = fs[0] /\ gs[Len(toSource')] = fd[1]
                  /\ \A i \in 1..Len(toSource') :
                       toSource'[i].action = "Start" => gs[i - 1].said = u[0]
    BY <1>3, <1>11, <2>1, ServeSource
  <2>3. PICK gd : /\ Along(Down', gd, Standing, Obeying)
                  /\ gd[0] = fd[1] /\ gd[Len(Down')] = fd[Len(Down)]
                  /\ \A i \in 1..Len(Down') : Down'[i].action = "Start" => gd[i - 1].said = u[0]
    BY <1>3, <1>7, <1>11, LeaveDown
  <2>4. Courses(gs, gd, fw, u)'
    BY <1>3, <1>11, <2>2, <2>3 DEF Whole, Courses
  <2>5. Ends(gs, gd, fw, u)'
    BY <1>1, <1>2, <1>3, <1>11, <2>1, <2>2, <2>3 DEF Whole, Ends
  <2>6. Starts(gs, gd, u)'
    BY <2>1, <2>2, <2>3 DEF Starts
  <2>7. Matching(fw)' /\ Accounting(fw)'
    BY <1>1, <1>2, <1>3, <1>5, <1>11, WriterKept DEF Whole
  <2> QED
    BY <2>4, <2>5, <2>6, <2>7 DEF Whole
<1>12. CASE last /\ order[2] = "writer" /\ writer1
  <2>1. AtSource = 1 /\ AtWriter = 0 /\ AtSource' = 0 /\ AtWriter' = 0
    BY <1>4, <1>12 DEF AtSource, AtWriter, last
  <2>2. PICK gw : /\ Along(toWriter', gw, Standing, Obeying)
                  /\ gw[0] = fw[0] /\ gw[Len(toWriter')] = fd[1]
                  /\ Matching(gw)' /\ Accounting(gw)'
    BY <1>1, <1>2, <1>3, <1>12, <2>1, ServeWriter
  <2>3. PICK gd : /\ Along(Down', gd, Standing, Obeying)
                  /\ gd[0] = fd[1] /\ gd[Len(Down')] = fd[Len(Down)]
                  /\ \A i \in 1..Len(Down') : Down'[i].action = "Start" => gd[i - 1].said = u[0]
    BY <1>3, <1>7, <1>12, LeaveDown
  <2>4. Courses(fs, gd, gw, u)'
    BY <1>3, <1>12, <2>2, <2>3 DEF Whole, Courses
  <2>5. Ends(fs, gd, gw, u)'
    BY <1>1, <1>2, <1>3, <1>12, <2>1, <2>2, <2>3 DEF Whole, Ends
  <2>6. Starts(fs, gd, u)'
    <3>1. \A i \in 1..Len(toSource) : toSource[i].action = "Start" => fs[i - 1].said = u[0]
      BY DEF Whole, Starts
    <3>2. toSource' = toSource
      BY <1>12
    <3> QED
      BY <2>1, <2>3, <3>1, <3>2 DEF Starts
  <2> QED
    BY <2>2, <2>4, <2>5, <2>6 DEF Whole
<1> QED
  BY <1>6, <1>9, <1>10, <1>11, <1>12

\* The count after the first message on its way up.
LEMMA LeaveUp ==
  ASSUME Present, NEW fs, NEW fd, NEW fw, NEW u, Whole(fs, fd, fw, u), Up # << >>, Up' = Tail(Up)
  PROVE  /\ u[0] \in Nat /\ u[1] = IF IsState(Head(Up)) THEN u[0] + 1 ELSE u[0]
         /\ Head(Up) = Up[1] /\ 1 \in 1..Len(Up)
         /\ \E v : Along(Up', v, Nat, Counting) /\ v[0] = u[1] /\ v[Len(Up')] = u[Len(Up)]
<1> PICK v : v = Shorter(Up, u)
  OBVIOUS
<1>1. Up \in Seq(Data \cup Answers) /\ Along(Up, u, Nat, Counting)
  BY DEF Present, QueueTypes, Whole, Courses
<1>2. Along(Up', v, Nat, Counting)
  BY <1>1, CourseTail
<1>3. v[0] = u[1] /\ v[Len(Up) - 1] = u[Len(Up)]
  BY <1>1, ShorterIs
<1>4. Len(Up) \in Nat \ {0} /\ Len(Up') = Len(Up) - 1 /\ Head(Up) = Up[1]
  BY <1>1, Taken
<1>5. 1 \in 1..Len(Up) /\ 1 - 1 = 0
  BY <1>4
<1>6. <<u[1 - 1], Up[1], u[1]>> \in Counting
  BY <1>1, <1>5 DEF Along
<1>7. u[0] \in Nat /\ u[1] = IF IsState(Head(Up)) THEN u[0] + 1 ELSE u[0]
  BY <1>4, <1>5, <1>6, Counted
<1> QED
  BY <1>2, <1>3, <1>4, <1>5, <1>7

LEMMA RelayUpWhole ==
  ASSUME Present, NEW fs, NEW fd, NEW fw, NEW u, Whole(fs, fd, fw, u), Relay("source"),
         ~misled'
  PROVE  \E gs, gd, gw, v : Whole(gs, gd, gw, v)'
<1> DEFINE m == Head(Up)
           n == Len(toWriter)
<1>1. /\ UNCHANGED <<expected, sentActions>> /\ UNCHANGED source /\ UNCHANGED writer /\ order' = order
      /\ ~misled
  BY Relays DEF Sender
<1>2. /\ visible' = visible /\ pending' = pending /\ run' = run /\ made' = made
      /\ state' = state /\ lost' = lost /\ Written' = Written
  BY <1>1 DEF source, writer, Written, Opened
<1>3. /\ Up # << >> /\ todo'["controller"] = todo["controller"] /\ Down' = Down /\ Up' = Tail(Up)
      /\ toSource' = toSource
      /\ \/ m \in Data /\ toWriter' = Append(toWriter, m) /\ owed' = owed /\ skipped' = skipped
         \/ m \in Answers /\ toWriter' = toWriter /\ owed' = owed - 1 /\ skipped' = skipped
         \/ /\ m \in Data /\ toWriter' = toWriter /\ owed' = owed
            /\ skipped' = skipped \cup {m.data}
  BY RelayUp DEF Present
<1>4. AtSource' = AtSource /\ AtWriter' = AtWriter
  BY <1>3 DEF AtSource, AtWriter
<1>5. PICK v : Along(Up', v, Nat, Counting) /\ v[0] = u[1] /\ v[Len(Up')] = u[Len(Up)]
  BY <1>3, LeaveUp
<1>6. u[0] \in Nat /\ u[1] = (IF IsState(m) THEN u[0] + 1 ELSE u[0])
      /\ m = Up[1] /\ 1 \in 1..Len(Up)
  BY <1>3, LeaveUp
<1>7. Carried(Up) = Carried(Up') \cup (IF IsData(m) THEN {m.data} ELSE {})
  <2>1. Up \in Seq(Data \cup Answers)
    BY DEF Present, QueueTypes
  <2> QED
    BY <1>3, <2>1, CarriedTail
<1>8. CASE m \in Data /\ toWriter' = Append(toWriter, m) /\ owed' = owed /\ skipped' = skipped
  <2>1. IsData(m) /\ ~IsAction(m) /\ ~IsState(m) /\ ~(m \in Answers) /\ m \in Calls \cup Data
    BY <1>8, Kinds
  <2>2. toWriter' = Append(toWriter, m) /\ owed' = owed /\ v[0] = u[0] /\ Away' = Away
    BY <1>2, <1>5, <1>6, <1>8, <2>1 DEF Away
  <2>3. /\ toWriter \in Seq(Calls \cup Data) /\ Along(toWriter, fw, Standing, Obeying) /\ n \in Nat
        /\ fw \in [0..n -> Standing]
    BY InOrder DEF Present, QueueTypes, Whole, Courses
  <2> HIDE DEF m
  <2> PICK gw : gw = Longer(toWriter, fw, fw[n])
    OBVIOUS
  <2>4. Along(toWriter', gw, Standing, Obeying)
    <3>1. n \in 0..n
      BY <2>3
    <3>2. fw[n] \in Standing
      BY <2>3, <3>1
    <3>3. After(fw[n], m) = fw[n]
      BY <2>1 DEF After
    <3>4. <<fw[n], m, fw[n]>> \in Obeying
      BY <2>1, <3>2, <3>3, Obey
    <3> QED
      BY <2>1, <2>2, <2>3, <3>2, <3>4, CourseAppend
  <2>5. gw[n + 1] = fw[n] /\ \A i \in 0..n : gw[i] = fw[i]
    BY <2>3, LongerIs
  <2>6. /\ Len(toWriter') = n + 1 /\ toWriter'[n + 1] = m
        /\ \A i \in 1..n : toWriter'[i] = toWriter[i]
    BY <2>1, <2>2, <2>3
  <2>7. gw[0] = fw[0]
    BY <2>3, <2>5
  <2>8. Courses(fs, fd, gw, v)'
    BY <1>3, <1>5, <2>4 DEF Whole, Courses
  <2>9. Ends(fs, fd, gw, v)'
    BY <1>1, <1>2, <1>3, <1>4, <1>5, <2>2, <2>5, <2>6, <2>7 DEF Whole, Ends
  <2>10. Starts(fs, fd, v)'
    BY <1>3, <1>4, <2>2 DEF Whole, Starts
  <2>11. Matching(gw)'
    <3>1. ASSUME NEW i \in 1..(n + 1), IsData(toWriter'[i]), gw[i - 1].state \in Open2
          PROVE  toWriter'[i].data.run = gw[i - 1].runs
      <4>1. CASE i \in 1..n
        <5>1. i - 1 \in 0..n
          BY <2>3, <4>1
        <5> QED
          BY <2>5, <2>6, <3>1, <4>1, <5>1 DEF Whole, Matching
      <4>2. CASE i = n + 1
        <5>1. i - 1 = n /\ n \in 0..n
          BY <2>3, <4>2
        <5>2. fw[n].runs = run
          BY <1>3, <2>5, <3>1, <5>1, JoinsItsRun
        <5>3. m.data.run = run
          BY <1>1, <1>6, <2>1 DEF Present, RunPhase
        <5> QED
          BY <2>5, <2>6, <4>2, <5>1, <5>2, <5>3
      <4> QED
        BY <2>3, <4>1, <4>2
    <3>2. \A i \in DOMAIN Written : Written[i].run = fw[0].runs
      BY DEF Whole, Matching
    <3> QED
      BY <1>2, <2>6, <2>7, <3>1, <3>2 DEF Matching
  <2>12. Accounting(gw)'
    <3>1. Carried(toWriter') = Carried(toWriter) \cup {m.data}
      <4>1. Carried(Append(toWriter, m)) = Carried(toWriter) \cup (IF IsData(m) THEN {m.data} ELSE {})
        BY <2>1, <2>3, CarriedAppend
      <4> QED
        BY <2>1, <2>2, <4>1
    <3>2. Carried(toWriter') \cup Carried(Up') = Carried(toWriter) \cup Carried(Up)
      BY <1>7, <2>1, <3>1
    <3>3. fw[0].runs <= run =>
            \A k \in 1..made :
              [run |-> run, number |-> k] \in Range(Written) \cup Away \cup Carried(toWriter) \cup Carried(Up)
      BY DEF Whole, Accounting
    <3>4. fw[0].runs <= run =>
            \A k \in 1..made :
              [run |-> run, number |-> k] \in Range(Written) \cup Away \cup Carried(toWriter') \cup Carried(Up')
      BY <3>2, <3>3
    <3> QED
      BY <1>2, <2>2, <2>7, <3>4 DEF Accounting
  <2> QED
    BY <2>8, <2>9, <2>10, <2>11, <2>12 DEF Whole
<1>9. CASE m \in Answers /\ toWriter' = toWriter /\ owed' = owed - 1 /\ skipped' = skipped
  <2>1. IsState(m) /\ ~IsData(m) /\ ~(m \in Data)
    BY <1>9, Kinds
  <2>2. toWriter' = toWriter /\ owed' = owed - 1 /\ v[0] = u[0] + 1 /\ skipped' = skipped
    BY <1>5, <1>6, <1>9, <2>1
  <2>3. fs[0].said # u[0]
    BY <1>6, <2>1, Rests
  <2>4. Courses(fs, fd, fw, v)'
    BY <1>3, <1>5, <2>2 DEF Whole, Courses
  <2>5. Ends(fs, fd, fw, v)'
    <3>1. fd[Len(Down)].said = v[0] + owed'
      <4>1. fd[Len(Down)].said = u[0] + owed /\ owed \in Int
        BY DEF Whole, Ends, Present, SenderTypes
      <4>2. u[0] \in Nat
        <5>1. Len(Up) \in Nat /\ u \in [0..Len(Up) -> Nat]
          BY InOrder
        <5> QED
          BY <5>1
      <4>3. u[0] + owed = (u[0] + 1) + (owed - 1)
        BY <4>1, <4>2, Moved
      <4> QED
        BY <2>2, <4>1, <4>3
    <3> QED
      BY <1>1, <1>2, <1>3, <1>4, <1>5, <2>2, <3>1 DEF Whole, Ends
  <2>6. Starts(fs, fd, v)'
    <3>1. \A i \in 1..Len(toSource) : toSource[i].action # "Start"
      BY <2>3, StartAtSource
    <3>2. \A i \in (1 + AtSource)..Len(Down) : Down[i].action # "Start"
      BY <2>3, StartAtHub
    <3> QED
      BY <1>3, <1>4, <3>1, <3>2 DEF Starts
  <2>7. Matching(fw)' /\ Accounting(fw)'
    <3>1. Carried(Up)' = Carried(Up)
      BY <1>7, <2>1
    <3> QED
      BY <1>1, <1>2, <2>2, <3>1, WriterKept DEF Whole
  <2> QED
    BY <2>4, <2>5, <2>6, <2>7 DEF Whole
<1>10. CASE /\ m \in Data /\ toWriter' = toWriter /\ owed' = owed
            /\ skipped' = skipped \cup {m.data}
  <2>1. IsData(m) /\ ~IsState(m)
    BY <1>10, Kinds
  <2>2. toWriter' = toWriter /\ owed' = owed /\ v[0] = u[0] /\ Away' = Away \cup {m.data}
    BY <1>2, <1>5, <1>6, <1>10, <2>1 DEF Away
  <2>3. Courses(fs, fd, fw, v)'
    BY <1>3, <1>5, <2>2 DEF Whole, Courses
  <2>4. Ends(fs, fd, fw, v)'
    BY <1>1, <1>2, <1>3, <1>4, <1>5, <2>2 DEF Whole, Ends
  <2>5. Starts(fs, fd, v)'
    BY <1>3, <1>4, <2>2 DEF Whole, Starts
  <2>6. Matching(fw)'
    BY <1>2, <2>2 DEF Whole, Matching
  <2>7. Accounting(fw)'
    <3>1. Away' \cup Carried(toWriter') \cup Carried(Up') = Away \cup Carried(toWriter) \cup Carried(Up)
      BY <1>7, <2>1, <2>2
    <3>2. fw[0].runs <= run =>
            \A k \in 1..made :
              [run |-> run, number |-> k] \in Range(Written) \cup Away \cup Carried(toWriter) \cup Carried(Up)
      BY DEF Whole, Accounting
    <3>3. fw[0].runs <= run =>
            \A k \in 1..made :
              [run |-> run, number |-> k] \in Range(Written) \cup Away' \cup Carried(toWriter') \cup Carried(Up')
      BY <3>1, <3>2
    <3> QED
      BY <1>2, <3>3 DEF Accounting
  <2> QED
    BY <2>3, <2>4, <2>5, <2>6, <2>7 DEF Whole
<1> QED
  BY <1>3, <1>8, <1>9, <1>10

\* The source takes an action.
LEMMA LeaveSource ==
  ASSUME Present, NEW fs, NEW fd, NEW fw, NEW u, Whole(fs, fd, fw, u), toSource # << >>,
         toSource' = Tail(toSource)
  PROVE  /\ Head(toSource) \in Calls /\ fs[0] \in Standing
         /\ \E gs : /\ Along(toSource', gs, Standing, Obeying)
                    /\ gs[0] = After(fs[0], Head(toSource))
                    /\ gs[Len(toSource')] = fs[Len(toSource)]
                    /\ \A i \in 1..Len(toSource') :
                         toSource'[i].action = "Start" => gs[i - 1].said = u[0]
<1> PICK gs : gs = Shorter(toSource, fs)
  OBVIOUS
<1>1. toSource \in Seq(Calls) /\ Along(toSource, fs, Standing, Obeying)
  BY DEF Present, QueueTypes, Whole, Courses
<1>2. Along(toSource', gs, Standing, Obeying)
  BY <1>1, CourseTail
<1>3. /\ gs[0] = fs[1] /\ gs[Len(toSource) - 1] = fs[Len(toSource)]
      /\ \A i \in 0..(Len(toSource) - 1) : gs[i] = fs[i + 1]
  BY <1>1, ShorterIs
<1>4. /\ Len(toSource) \in Nat \ {0} /\ Len(toSource') = Len(toSource) - 1
      /\ Head(toSource) = toSource[1] /\ Head(toSource) \in Calls
      /\ \A i \in 1..Len(toSource') : toSource'[i] = toSource[i + 1]
  BY <1>1, Taken
<1>5. fs[0] \in Standing /\ fs[1] = After(fs[0], toSource[1])
  <2>1. 1 \in 1..Len(toSource) /\ 1 - 1 = 0
    BY <1>4
  <2> QED
    BY <1>1, <2>1, OneStep
<1>6. ASSUME NEW i \in 1..Len(toSource'), toSource'[i].action = "Start" PROVE gs[i - 1].said = u[0]
  <2>1. /\ i + 1 \in 1..Len(toSource) /\ (i + 1) - 1 = i
        /\ i - 1 \in 0..(Len(toSource) - 1) /\ (i - 1) + 1 = i
    BY <1>4
  <2>2. fs[(i + 1) - 1].said = u[0]
    BY <1>4, <1>6, <2>1 DEF Whole, Starts
  <2> QED
    BY <1>3, <2>1, <2>2
<1> QED
  BY <1>2, <1>3, <1>4, <1>5, <1>6

\* It sends something up.
LEMMA JoinUp ==
  ASSUME Present, NEW fs, NEW fd, NEW fw, NEW u, Whole(fs, fd, fw, u),
         NEW m \in Data \cup Answers, Say(m)
  PROVE  /\ u[0] \in Nat /\ u[Len(Up)] \in Nat
         /\ Carried(Up') = Carried(Up) \cup (IF IsData(m) THEN {m.data} ELSE {})
         /\ \E v : /\ Along(Up', v, Nat, Counting) /\ v[0] = u[0]
                   /\ v[Len(Up')] = IF IsState(m) THEN u[Len(Up)] + 1 ELSE u[Len(Up)]
<1> DEFINE n == Len(Up)
           w == IF IsState(m) THEN u[n] + 1 ELSE u[n]
<1> PICK v : v = Longer(Up, u, w)
  OBVIOUS
<1>1. /\ Up \in Seq(Data \cup Answers) /\ Along(Up, u, Nat, Counting) /\ n \in Nat
      /\ u \in [0..n -> Nat]
  BY InOrder DEF Present, QueueTypes, Whole, Courses
<1>2. Up' = Append(Up, m) /\ Len(Up') = n + 1
  BY SourceSays DEF Present
<1>3. u[0] \in Nat /\ u[n] \in Nat /\ w \in Nat
  <2>1. 0 \in 0..n /\ n \in 0..n
    BY <1>1
  <2> QED
    BY <1>1, <2>1
<1>4. <<u[n], m, w>> \in Counting
  BY <1>3, Counted
<1> HIDE DEF w
<1>5. Along(Up', v, Nat, Counting)
  BY <1>1, <1>2, <1>3, <1>4, CourseAppend
<1>6. v[n + 1] = w /\ \A i \in 0..n : v[i] = u[i]
  BY <1>1, LongerIs
<1>7. Carried(Append(Up, m)) = Carried(Up) \cup (IF IsData(m) THEN {m.data} ELSE {})
  BY <1>1, CarriedAppend
<1> QED
  BY <1>1, <1>2, <1>3, <1>5, <1>6, <1>7 DEF w

\* What the source leaves alone.
LEMMA OthersKept ==
  ASSUME SourceUnchanged
  PROVE  /\ expected' = expected /\ owed' = owed /\ todo' = todo /\ toWriter' = toWriter
         /\ UNCHANGED writer /\ state' = state /\ Away' = Away /\ Written' = Written
         /\ AtSource' = AtSource /\ AtWriter' = AtWriter /\ skipped' = skipped /\ misled' = misled
BY DEF SourceUnchanged, controller, shared, writer, Written, Opened, Away, AtSource, AtWriter

LEMMA SourceBeginsWhole ==
  ASSUME Present, NEW fs, NEW fd, NEW fw, NEW u, Whole(fs, fd, fw, u), SourceBegins
  PROVE  \E gs, gd, gw, v : Whole(gs, gd, gw, v)'
<1> DEFINE m == Head(toSource)
           a == m.action
<1>1. toSource # << >> /\ toSource' = Tail(toSource) /\ UNCHANGED inbox /\ SourceUnchanged
  BY DEF SourceBegins
<1>2. Up' = Up /\ Down' = Down
  BY <1>1 DEF Up, Down
<1>3. /\ pending = visible /\ visible \in AcceptedIn(a) /\ pending' = Target(a) /\ visible' = visible
      /\ <<visible, pending'>> \in S!Chart
      /\ run' = IF a = "Start" /\ visible # "Paused" THEN run + 1 ELSE run
      /\ made' = IF run' # run THEN 0 ELSE made
  BY DEF SourceBegins, S!Undertake
<1>4. pending' # visible
  BY <1>3, Moves DEF Present, SenderTypes
<1>5. m \in Calls /\ fs[0] \in Standing /\ IsAction(m) /\ a \in RunAction
  BY <1>1, LeaveSource, Kinds
<1>6. PICK gs : /\ Along(toSource', gs, Standing, Obeying)
                /\ gs[0] = After(fs[0], m) /\ gs[Len(toSource')] = fs[Len(toSource)]
                /\ \A i \in 1..Len(toSource') :
                     toSource'[i].action = "Start" => gs[i - 1].said = u[0]
  BY <1>1, LeaveSource
<1>7. fs[0].state = visible /\ fs[0].runs = run /\ fs[0].said = u[Len(Up)]
  <2>1. fs[0].said \in Nat /\ u[Len(Up)] \in Nat
    <3>1. Len(Up) \in Nat /\ u \in [0..Len(Up) -> Nat]
      BY InOrder
    <3>2. Len(Up) \in 0..Len(Up)
      BY <3>1
    <3> QED
      BY <1>5, <3>1, <3>2 DEF Standing
  <2> QED
    BY <1>3, <2>1 DEF Whole, Ends
<1> HIDE DEF m
<1>8. gs[0].state = pending' /\ gs[0].runs = run' /\ gs[0].said = u[Len(Up)] + 1
  <2>1. gs[0] = [state |-> Target(a), runs |-> IF Begins(fs[0], m) THEN fs[0].runs + 1 ELSE fs[0].runs,
                 said |-> fs[0].said + 1]
    BY <1>3, <1>5, <1>6, <1>7 DEF After
  <2>2. Begins(fs[0], m) <=> a = "Start" /\ visible # "Paused"
    <3>1. a = "Start" => visible # "Started"
      BY <1>3, <1>4, Chart4
    <3> QED
      BY <1>7, <3>1 DEF Begins, Open2
  <2> QED
    BY <1>3, <1>7, <2>1, <2>2
<1>9. Courses(gs, fd, fw, u)'
  BY <1>1, <1>2, <1>6, OthersKept DEF Whole, Courses
<1>10. Ends(gs, fd, fw, u)'
  BY <1>1, <1>2, <1>3, <1>4, <1>6, <1>8, OthersKept DEF Whole, Ends
<1>11. Starts(gs, fd, u)'
  BY <1>1, <1>2, <1>6, OthersKept DEF Whole, Starts
<1>12. Matching(fw)'
  BY <1>1, OthersKept DEF Whole, Matching
<1>13. Accounting(fw)'
  <2>1. CASE run' = run
    BY <1>1, <1>2, <1>3, <2>1, OthersKept DEF Whole, Accounting, Carried
  <2>2. CASE run' # run
    BY <1>3, <2>2 DEF Accounting
  <2> QED
    BY <2>1, <2>2
<1> QED
  BY <1>9, <1>10, <1>11, <1>12, <1>13 DEF Whole

LEMMA SourceRepeatsWhole ==
  ASSUME Present, NEW fs, NEW fd, NEW fw, NEW u, Whole(fs, fd, fw, u), SourceRepeats
  PROVE  \E gs, gd, gw, v : Whole(gs, gd, gw, v)'
<1> DEFINE m == Head(toSource)
           a == m.action
           t == [state |-> visible]
<1>1. /\ toSource # << >> /\ toSource' = Tail(toSource) /\ Say(t) /\ UNCHANGED source
      /\ SourceUnchanged /\ pending = visible /\ visible = Target(a)
  BY DEF SourceRepeats
<1>2. visible' = visible /\ pending' = pending /\ run' = run /\ made' = made
  BY <1>1 DEF source
<1>3. t \in Data \cup Answers /\ IsState(t) /\ ~IsData(t)
  BY DEF Present, SenderTypes, Answers, IsState, IsData
<1> HIDE DEF t
<1>4. Down' = Down
  BY <1>1, <1>3, SourceSays DEF Present
<1>5. m \in Calls /\ fs[0] \in Standing /\ IsAction(m) /\ a \in RunAction
  BY <1>1, LeaveSource, Kinds
<1>6. PICK gs : /\ Along(toSource', gs, Standing, Obeying)
                /\ gs[0] = After(fs[0], m) /\ gs[Len(toSource')] = fs[Len(toSource)]
                /\ \A i \in 1..Len(toSource') :
                     toSource'[i].action = "Start" => gs[i - 1].said = u[0]
  BY <1>1, LeaveSource
<1>7. u[Len(Up)] \in Nat /\ Carried(Up') = Carried(Up)
  BY <1>1, <1>3, JoinUp
<1>8. PICK v : Along(Up', v, Nat, Counting) /\ v[0] = u[0] /\ v[Len(Up')] = u[Len(Up)] + 1
  BY <1>1, <1>3, JoinUp
<1>9. fs[0].state = visible /\ fs[0].runs = run /\ fs[0].said = u[Len(Up)]
  BY <1>1, <1>7 DEF Whole, Ends
<1> HIDE DEF m
<1>10. gs[0].state = pending /\ gs[0].runs = run /\ gs[0].said = u[Len(Up)] + 1
  <2>1. visible \in AcceptedIn(a)
    BY <1>1, <1>5, Chart4 DEF RunAction
  <2>2. gs[0] = [state |-> Target(a), runs |-> IF Begins(fs[0], m) THEN fs[0].runs + 1 ELSE fs[0].runs,
                 said |-> fs[0].said + 1]
    BY <1>5, <1>6, <1>9, <2>1 DEF After
  <2>3. ~Begins(fs[0], m)
    BY <1>1, <1>9, Chart4 DEF Begins, Open2
  <2> QED
    BY <1>1, <1>9, <2>2, <2>3
<1>11. Courses(gs, fd, fw, v)'
  BY <1>1, <1>4, <1>6, <1>8, OthersKept DEF Whole, Courses
<1>12. Ends(gs, fd, fw, v)'
  BY <1>1, <1>2, <1>4, <1>6, <1>7, <1>8, <1>10, OthersKept DEF Whole, Ends
<1>13. Starts(gs, fd, v)'
  BY <1>1, <1>4, <1>6, <1>8, OthersKept DEF Whole, Starts
<1>14. Matching(fw)' /\ Accounting(fw)'
  <2>1. Carried(Up)' = Carried(Up)
    BY <1>7
  <2> QED
    BY <1>1, <1>2, <2>1, OthersKept, WriterKept DEF Whole
<1> QED
  BY <1>11, <1>12, <1>13, <1>14 DEF Whole

LEMMA SourceRejectsWhole ==
  ASSUME Present, NEW fs, NEW fd, NEW fw, NEW u, Whole(fs, fd, fw, u), SourceRejects
  PROVE  \E gs, gd, gw, v : Whole(gs, gd, gw, v)'
<1> DEFINE m == Head(toSource)
<1>1. /\ toSource # << >> /\ toSource' = Tail(toSource) /\ UNCHANGED inbox /\ UNCHANGED source
      /\ SourceUnchanged /\ pending = visible /\ visible \notin AcceptedIn(m.action)
  BY DEF SourceRejects
<1>2. visible' = visible /\ pending' = pending /\ run' = run /\ made' = made
  BY <1>1 DEF source
<1>3. Up' = Up /\ Down' = Down
  BY <1>1 DEF Up, Down
<1>4. PICK gs : /\ Along(toSource', gs, Standing, Obeying)
                /\ gs[0] = After(fs[0], m) /\ gs[Len(toSource')] = fs[Len(toSource)]
                /\ \A i \in 1..Len(toSource') :
                     toSource'[i].action = "Start" => gs[i - 1].said = u[0]
  BY <1>1, LeaveSource
<1>5. gs[0] = fs[0]
  <2>1. fs[0].state = visible
    BY <1>1 DEF Whole, Ends
  <2> QED
    BY <1>1, <1>4, <2>1 DEF After
<1> HIDE DEF m
<1>6. Courses(gs, fd, fw, u)'
  BY <1>1, <1>3, <1>4, OthersKept DEF Whole, Courses
<1>7. Ends(gs, fd, fw, u)'
  BY <1>1, <1>2, <1>3, <1>4, <1>5, OthersKept DEF Whole, Ends
<1>8. Starts(gs, fd, u)'
  BY <1>1, <1>3, <1>4, OthersKept DEF Whole, Starts
<1>9. Matching(fw)' /\ Accounting(fw)'
  BY <1>1, <1>2, <1>3, OthersKept, WriterKept DEF Whole
<1> QED
  BY <1>6, <1>7, <1>8, <1>9 DEF Whole

LEMMA SourceAnnouncesWhole ==
  ASSUME Present, NEW fs, NEW fd, NEW fw, NEW u, Whole(fs, fd, fw, u), SourceAnnounces
  PROVE  \E gs, gd, gw, v : Whole(gs, gd, gw, v)'
<1> DEFINE t == [state |-> pending]
<1>1. /\ toSource' = toSource /\ Say(t) /\ UNCHANGED <<run, made>> /\ SourceUnchanged
      /\ visible' = pending /\ pending' = pending /\ pending # visible
  BY DEF SourceAnnounces, S!Announce
<1>2. t \in Data \cup Answers /\ IsState(t) /\ ~IsData(t)
  BY DEF Present, SenderTypes, Answers, IsState, IsData
<1> HIDE DEF t
<1>3. Down' = Down
  BY <1>1, <1>2, SourceSays DEF Present
<1>4. u[Len(Up)] \in Nat /\ Carried(Up') = Carried(Up)
  BY <1>1, <1>2, JoinUp
<1>5. PICK v : Along(Up', v, Nat, Counting) /\ v[0] = u[0] /\ v[Len(Up')] = u[Len(Up)] + 1
  BY <1>1, <1>2, JoinUp
<1>6. fs[0].said = u[Len(Up)] + 1
  BY <1>1 DEF Whole, Ends
<1>7. Courses(fs, fd, fw, v)'
  BY <1>1, <1>3, <1>5, OthersKept DEF Whole, Courses
<1>8. Ends(fs, fd, fw, v)'
  BY <1>1, <1>3, <1>4, <1>5, <1>6, OthersKept DEF Whole, Ends
<1>9. Starts(fs, fd, v)'
  BY <1>1, <1>3, <1>5, OthersKept DEF Whole, Starts
<1>10. Matching(fw)' /\ Accounting(fw)'
  <2>1. Carried(Up)' = Carried(Up)
    BY <1>4
  <2> QED
    BY <1>1, <2>1, OthersKept, WriterKept DEF Whole
<1> QED
  BY <1>7, <1>8, <1>9, <1>10 DEF Whole

LEMMA IterateWhole ==
  ASSUME Present, NEW fs, NEW fd, NEW fw, NEW u, Whole(fs, fd, fw, u), Iterate
  PROVE  \E gs, gd, gw, v : Whole(gs, gd, gw, v)'
<1>1. UNCHANGED <<visible, pending, run, made, toSource, inbox>> /\ SourceUnchanged
  BY DEF Iterate, S!Acquire
<1>2. Up' = Up /\ Down' = Down
  BY <1>1 DEF Up, Down
<1>3. Courses(fs, fd, fw, u)'
  BY <1>1, <1>2, OthersKept DEF Whole, Courses
<1>4. Ends(fs, fd, fw, u)'
  BY <1>1, <1>2, OthersKept DEF Whole, Ends
<1>5. Starts(fs, fd, u)'
  BY <1>1, <1>2, OthersKept DEF Whole, Starts
<1>6. Matching(fw)' /\ Accounting(fw)'
  BY <1>1, <1>2, OthersKept, WriterKept DEF Whole
<1> QED
  BY <1>3, <1>4, <1>5, <1>6 DEF Whole

LEMMA SendDataWhole ==
  ASSUME Present, Present', NEW fs, NEW fd, NEW fw, NEW u, Whole(fs, fd, fw, u), SendData
  PROVE  \E gs, gd, gw, v : Whole(gs, gd, gw, v)'
<1> DEFINE d == [run |-> run, number |-> made + 1]
           t == [data |-> d]
<1>1. /\ made' = made + 1 /\ Say(t) /\ UNCHANGED <<visible, pending, run, toSource>>
      /\ SourceUnchanged
  BY DEF SendData, S!Rest
<1>2. t \in Data \cup Answers /\ IsData(t) /\ ~IsState(t) /\ t.data = d
  <2>1. Up' = Append(Up, t) /\ Up' \in Seq(Data \cup Answers) /\ Up \in Seq(Data \cup Answers)
    BY <1>1 DEF Say, Present, QueueTypes, Up, Sender
  <2>2. Up'[Len(Up) + 1] = t /\ Len(Up) + 1 \in 1..Len(Up')
    BY <2>1
  <2>3. t \in Data \cup Answers
    BY <2>1, <2>2
  <2> QED
    BY <2>3 DEF IsData, IsState
<1> HIDE DEF t
<1>3. Down' = Down
  BY <1>1, <1>2, SourceSays DEF Present
<1>4. u[Len(Up)] \in Nat /\ Carried(Up') = Carried(Up) \cup {d}
  BY <1>1, <1>2, JoinUp
<1>5. PICK v : Along(Up', v, Nat, Counting) /\ v[0] = u[0] /\ v[Len(Up')] = u[Len(Up)]
  BY <1>1, <1>2, JoinUp
<1>6. Courses(fs, fd, fw, v)'
  BY <1>1, <1>3, <1>5, OthersKept DEF Whole, Courses
<1>7. Ends(fs, fd, fw, v)'
  BY <1>1, <1>3, <1>4, <1>5, OthersKept DEF Whole, Ends
<1>8. Starts(fs, fd, v)'
  BY <1>1, <1>3, <1>5, OthersKept DEF Whole, Starts
<1>9. Matching(fw)'
  BY <1>1, OthersKept DEF Whole, Matching
<1>10. Accounting(fw)'
  <2>1. /\ Written' = Written /\ Away' = Away /\ toWriter' = toWriter
    BY <1>1, OthersKept
  <2>2. Carried(toWriter)' = Carried(toWriter)
    BY <2>1
  <2> SUFFICES ASSUME fw[0].runs <= run, NEW k \in 1..made'
               PROVE  [run |-> run, number |-> k] \in
                        Range(Written) \cup Away \cup Carried(toWriter) \cup Carried(Up')
    BY <1>1, <2>1, <2>2 DEF Accounting
  <2>3. CASE k \in 1..made
    <3>1. [run |-> run, number |-> k] \in
            Range(Written) \cup Away \cup Carried(toWriter) \cup Carried(Up)
      BY <2>3 DEF Whole, Accounting
    <3> QED
      BY <1>4, <3>1
  <2>4. CASE k = made + 1
    BY <1>4, <2>4
  <2>5. made \in Nat
    BY DEF Present, SenderTypes
  <2> QED
    BY <1>1, <2>3, <2>4, <2>5
<1> QED
  BY <1>6, <1>7, <1>8, <1>9, <1>10 DEF Whole

\* The writer takes a message.
LEMMA LeaveWriter ==
  ASSUME Present, NEW fs, NEW fd, NEW fw, NEW u, Whole(fs, fd, fw, u), toWriter # << >>,
         toWriter' = Tail(toWriter)
  PROVE  /\ Head(toWriter) \in Calls \cup Data /\ fw[0] \in Standing
         /\ Head(toWriter) = toWriter[1] /\ 1 \in 1..Len(toWriter)
         /\ Carried(toWriter) = Carried(toWriter') \cup
              (IF IsData(Head(toWriter)) THEN {Head(toWriter).data} ELSE {})
         /\ \E gw : /\ Along(toWriter', gw, Standing, Obeying)
                    /\ gw[0] = After(fw[0], Head(toWriter))
                    /\ gw[Len(toWriter')] = fw[Len(toWriter)]
                    /\ \A i \in 1..Len(toWriter') :
                         IsData(toWriter'[i]) /\ gw[i - 1].state \in Open2 =>
                           toWriter'[i].data.run = gw[i - 1].runs
<1> PICK gw : gw = Shorter(toWriter, fw)
  OBVIOUS
<1>1. toWriter \in Seq(Calls \cup Data) /\ Along(toWriter, fw, Standing, Obeying)
  BY DEF Present, QueueTypes, Whole, Courses
<1>2. Along(toWriter', gw, Standing, Obeying)
  BY <1>1, CourseTail
<1>3. /\ gw[0] = fw[1] /\ gw[Len(toWriter) - 1] = fw[Len(toWriter)]
      /\ \A i \in 0..(Len(toWriter) - 1) : gw[i] = fw[i + 1]
  BY <1>1, ShorterIs
<1>4. /\ Len(toWriter) \in Nat \ {0} /\ Len(toWriter') = Len(toWriter) - 1
      /\ Head(toWriter) = toWriter[1] /\ Head(toWriter) \in Calls \cup Data
      /\ \A i \in 1..Len(toWriter') : toWriter'[i] = toWriter[i + 1]
  BY <1>1, Taken
<1>5. fw[0] \in Standing /\ fw[1] = After(fw[0], toWriter[1]) /\ 1 \in 1..Len(toWriter)
  <2>1. 1 \in 1..Len(toWriter) /\ 1 - 1 = 0
    BY <1>4
  <2> QED
    BY <1>1, <2>1, OneStep
<1>6. ASSUME NEW i \in 1..Len(toWriter'), IsData(toWriter'[i]), gw[i - 1].state \in Open2
      PROVE  toWriter'[i].data.run = gw[i - 1].runs
  <2>1. /\ i + 1 \in 1..Len(toWriter) /\ (i + 1) - 1 = i
        /\ i - 1 \in 0..(Len(toWriter) - 1) /\ (i - 1) + 1 = i
    BY <1>4
  <2>2. IsData(toWriter[i + 1]) /\ fw[(i + 1) - 1].state \in Open2
    BY <1>3, <1>4, <1>6, <2>1
  <2>3. toWriter[i + 1].data.run = fw[(i + 1) - 1].runs
    BY <2>1, <2>2 DEF Whole, Matching
  <2> QED
    BY <1>3, <1>4, <2>1, <2>3
<1>7. Carried(toWriter) = Carried(toWriter') \cup
        (IF IsData(Head(toWriter)) THEN {Head(toWriter).data} ELSE {})
  BY <1>1, CarriedTail
<1> QED
  BY <1>2, <1>3, <1>4, <1>5, <1>6, <1>7

\* What is left to show of a step of the writer's.
LEMMA WriterSteps ==
  ASSUME Present, NEW fs, NEW fd, NEW fw, NEW u, Whole(fs, fd, fw, u), toWriter # << >>,
         toWriter' = Tail(toWriter), WriterUnchanged,
         LET s == After(fw[0], Head(toWriter))
         IN  /\ state' # "Dead" => s.state = state'
             /\ \A i \in DOMAIN Written' : Written'[i].run = s.runs
             /\ s.runs <= run =>
                  \A k \in 1..made :
                    [run |-> run, number |-> k] \in
                      Range(Written') \cup Away' \cup Carried(toWriter') \cup Carried(Up)
  PROVE  \E gs, gd, gw, v : Whole(gs, gd, gw, v)'
<1> PICK gw : /\ Along(toWriter', gw, Standing, Obeying)
              /\ gw[0] = After(fw[0], Head(toWriter))
              /\ gw[Len(toWriter')] = fw[Len(toWriter)]
              /\ \A i \in 1..Len(toWriter') :
                   IsData(toWriter'[i]) /\ gw[i - 1].state \in Open2 =>
                     toWriter'[i].data.run = gw[i - 1].runs
  BY LeaveWriter
<1>1. /\ UNCHANGED <<visible, pending, run, made>> /\ UNCHANGED <<todo, toSource>>
      /\ UNCHANGED <<expected, owed>> /\ Up' = Up /\ Down' = Down
      /\ AtSource' = AtSource /\ AtWriter' = AtWriter
  BY DEF WriterUnchanged, source, controller, Up, Down, AtSource, AtWriter
<1>2. Courses(fs, fd, gw, u)'
  BY <1>1 DEF Whole, Courses
<1>3. Ends(fs, fd, gw, u)'
  BY <1>1 DEF Whole, Ends
<1>4. Starts(fs, fd, u)'
  BY <1>1 DEF Whole, Starts
<1>5. Matching(gw)'
  BY DEF Matching
<1>6. Accounting(gw)'
  BY <1>1 DEF Accounting
<1> QED
  BY <1>2, <1>3, <1>4, <1>5, <1>6 DEF Whole

LEMMA WriterRejectsWhole ==
  ASSUME Present, NEW fs, NEW fd, NEW fw, NEW u, Whole(fs, fd, fw, u), state # "Dead", WriterRejects
  PROVE  \E gs, gd, gw, v : Whole(gs, gd, gw, v)'
<1>1. /\ toWriter # << >> /\ toWriter' = Tail(toWriter) /\ WriterUnchanged /\ IsAction(Head(toWriter))
      /\ state \notin AcceptedIn(Head(toWriter).action)
  BY DEF WriterRejects, IsAction
<1>2. state' = state /\ Away' = Away /\ Written' = Written
  BY DEF WriterRejects, WriterUnchanged, shared, Away, writer, Written, Opened
<1>3. After(fw[0], Head(toWriter)) = fw[0] /\ fw[0].state = state
  BY <1>1 DEF Whole, Ends, After
<1>4. Carried(toWriter') = Carried(toWriter)
  <2>1. Head(toWriter) \in Calls \cup Data
    BY <1>1, LeaveWriter
  <2>2. ~IsData(Head(toWriter))
    BY <1>1, <2>1, Kinds
  <2> QED
    BY <1>1, <2>2, LeaveWriter
<1>5. /\ \A i \in DOMAIN Written : Written[i].run = fw[0].runs
      /\ fw[0].runs <= run =>
           \A k \in 1..made :
             [run |-> run, number |-> k] \in Range(Written) \cup Away \cup Carried(toWriter) \cup Carried(Up)
  BY DEF Whole, Matching, Accounting
<1> QED
  BY <1>1, <1>2, <1>3, <1>4, <1>5, WriterSteps

LEMMA WriterStraysWhole ==
  ASSUME Present, NEW fs, NEW fd, NEW fw, NEW u, Whole(fs, fd, fw, u), state # "Dead", WriterStrays
  PROVE  \E gs, gd, gw, v : Whole(gs, gd, gw, v)'
<1> DEFINE m == Head(toWriter)
<1>1. /\ toWriter # << >> /\ toWriter' = Tail(toWriter) /\ WriterUnchanged /\ IsData(m)
      /\ Away' = Away \cup {m.data} /\ (state' = "Dead" \/ state' = state)
  BY DEF WriterStrays, WriterUnchanged, shared, Away, IsData
<1>2. Written' = Written
  BY DEF WriterStrays, Written, Opened
<1>3. After(fw[0], m) = fw[0] /\ fw[0].state = state
  <2>1. m \in Calls \cup Data
    BY <1>1, LeaveWriter
  <2>2. ~IsAction(m)
    BY <1>1, <2>1, Kinds
  <2> QED
    BY <2>2 DEF After, Whole, Ends
<1>4. Carried(toWriter) = Carried(toWriter') \cup {m.data}
  BY <1>1, LeaveWriter
<1>5. /\ \A i \in DOMAIN Written : Written[i].run = fw[0].runs
      /\ fw[0].runs <= run =>
           \A k \in 1..made :
             [run |-> run, number |-> k] \in Range(Written) \cup Away \cup Carried(toWriter) \cup Carried(Up)
  BY DEF Whole, Matching, Accounting
<1>6. fw[0].runs <= run =>
        \A k \in 1..made :
          [run |-> run, number |-> k] \in Range(Written) \cup Away' \cup Carried(toWriter') \cup Carried(Up)
  BY <1>1, <1>4, <1>5
<1> QED
  BY <1>1, <1>2, <1>3, <1>5, <1>6, WriterSteps

LEMMA WriterStoresWhole ==
  ASSUME Present, NEW fs, NEW fd, NEW fw, NEW u, Whole(fs, fd, fw, u), state # "Dead", WriterStores
  PROVE  \E gs, gd, gw, v : Whole(gs, gd, gw, v)'
<1> DEFINE m == Head(toWriter)
<1>1. /\ toWriter # << >> /\ toWriter' = Tail(toWriter) /\ WriterUnchanged /\ IsData(m)
      /\ Opened /\ content' = Append(content, m.data) /\ Away' = Away /\ state' = state /\ file' = file
  BY DEF WriterStores, WriterUnchanged, shared, Away, ParseData, IsData
<1>2. m \in Calls \cup Data /\ ~IsAction(m) /\ m.data \in Datum /\ m = toWriter[1]
      /\ 1 \in 1..Len(toWriter)
  <2>1. m \in Calls \cup Data /\ m = toWriter[1] /\ 1 \in 1..Len(toWriter)
    BY <1>1, LeaveWriter
  <2> QED
    BY <1>1, <2>1, Kinds
<1> HIDE DEF m
<1>3. After(fw[0], m) = fw[0] /\ fw[0].state = state
  BY <1>2 DEF After, Whole, Ends
<1>4. Carried(toWriter) = Carried(toWriter') \cup {m.data}
  BY <1>1, LeaveWriter DEF m
<1>5. Written = content /\ Written' = Append(content, m.data) /\ content \in Seq(Datum)
  BY <1>1 DEF Written, Opened, Present, WriterTypes
<1>6. m.data.run = fw[0].runs
  <2>1. fw[0].state \in Open2
    BY <1>1, <1>3 DEF Present, FilePhase
  <2>2. IsData(toWriter[1]) /\ fw[1 - 1].state \in Open2
    BY <1>1, <1>2, <2>1
  <2>3. toWriter[1].data.run = fw[1 - 1].runs
    BY <1>2, <2>2 DEF Whole, Matching
  <2> QED
    BY <1>2, <2>3
<1>7. \A i \in DOMAIN Written' : Written'[i].run = fw[0].runs
  <2>1. \A i \in DOMAIN content : content[i].run = fw[0].runs
    BY <1>5 DEF Whole, Matching
  <2>2. \A i \in DOMAIN Written' : i \in DOMAIN content \/ i = Len(content) + 1
    BY <1>2, <1>5
  <2>3. Written'[Len(content) + 1] = m.data /\ \A i \in DOMAIN content : Written'[i] = content[i]
    BY <1>2, <1>5
  <2> QED
    BY <1>6, <2>1, <2>2, <2>3
<1>8. Range(Written) \cup {m.data} \subseteq Range(Written')
  <2>1. \A i \in DOMAIN content : i \in DOMAIN Written' /\ Written'[i] = content[i]
    BY <1>2, <1>5
  <2>2. Len(content) + 1 \in DOMAIN Written' /\ Written'[Len(content) + 1] = m.data
    BY <1>2, <1>5
  <2> QED
    BY <1>5, <2>1, <2>2 DEF Range
<1>9. fw[0].runs <= run =>
        \A k \in 1..made :
          [run |-> run, number |-> k] \in Range(Written') \cup Away' \cup Carried(toWriter') \cup Carried(Up)
  <2>1. fw[0].runs <= run =>
          \A k \in 1..made :
            [run |-> run, number |-> k] \in Range(Written) \cup Away \cup Carried(toWriter) \cup Carried(Up)
    BY DEF Whole, Accounting
  <2> QED
    BY <1>1, <1>4, <1>8, <2>1
<1> QED
  BY <1>1, <1>3, <1>7, <1>9, WriterSteps DEF m

LEMMA WriterObeysWhole ==
  ASSUME Present, Present', NEW fs, NEW fd, NEW fw, NEW u, Whole(fs, fd, fw, u), state # "Dead",
         WriterObeys
  PROVE  \E gs, gd, gw, v : Whole(gs, gd, gw, v)'
<1> DEFINE m == Head(toWriter)
           a == m.action
<1>1. /\ a \in RunAction /\ state \in Four /\ state \in AcceptedIn(a) /\ state' = Target(a)
      /\ Away' = Away /\ WriterUnchanged
      /\ toWriter # << >> /\ toWriter' = Tail(toWriter) /\ IsAction(m)
      /\ \/ a = "Start" /\ state \notin Open2 /\ ~Opened /\ Open
         \/ a = "Stop" /\ state \in Open2 /\ Opened /\ Close
         \/ /\ ~(a = "Start" /\ state \notin Open2)
            /\ state' \in Open2 <=> state \in Open2
            /\ UNCHANGED <<file, content, disk>>
  BY WriterDoes DEF WriterUnchanged, shared, Away
<1>2. m \in Calls \cup Data /\ fw[0] \in Standing /\ fw[0].state = state
  BY <1>1, LeaveWriter DEF Whole, Ends
<1>3. Carried(toWriter') = Carried(toWriter)
  <2>1. ~IsData(m)
    BY <1>1, <1>2, Kinds
  <2> QED
    BY <1>1, <2>1, LeaveWriter
<1> DEFINE s == After(fw[0], m)
<1>4. s.state = state' /\ s.runs = IF a = "Start" /\ state \notin Open2 THEN fw[0].runs + 1 ELSE fw[0].runs
  BY <1>1, <1>2 DEF After, Begins
<1>5. /\ \A i \in DOMAIN Written : Written[i].run = fw[0].runs
      /\ fw[0].runs <= run =>
           \A k \in 1..made :
             [run |-> run, number |-> k] \in Range(Written) \cup Away \cup Carried(toWriter) \cup Carried(Up)
  BY DEF Whole, Matching, Accounting
<1> HIDE DEF m, s
<1>6. CASE a = "Start" /\ state \notin Open2 /\ ~Opened /\ Open
  <2>1. Written' = << >>
    <3>1. file'.tfile = "open" /\ content' = << >>
      BY <1>6, Opens DEF Present
    <3> QED
      BY <3>1 DEF Written, Opened
  <2>2. \A i \in DOMAIN Written' : Written'[i].run = s.runs
    BY <2>1, NoPaths
  <2>3. ASSUME s.runs <= run, NEW k \in 1..made
        PROVE  [run |-> run, number |-> k] \in Away' \cup Carried(toWriter') \cup Carried(Up)
    <3>1. fw[0].runs < run
      <4>1. fw[0].runs \in Nat /\ run \in Nat /\ s.runs = fw[0].runs + 1
        BY <1>2, <1>4, <1>6 DEF Standing, Present, SenderTypes
      <4> QED
        BY <2>3, <4>1
    <3>2. fw[0].runs \in Nat /\ run \in Nat
      BY <1>2 DEF Standing, Present, SenderTypes
    <3>3. [run |-> run, number |-> k] \notin Range(Written)
      BY <1>5, <3>1, <3>2 DEF Range
    <3> QED
      BY <1>1, <1>3, <1>5, <3>1, <3>2, <3>3
  <2> QED
    BY <1>1, <1>4, <2>2, <2>3, WriterSteps DEF m, s
<1>7. CASE a = "Stop" /\ state \in Open2 /\ Opened /\ Close
  <2>1. Written' = Written
    <3>1. /\ file'.tfile = "closed" /\ file'.path = file.path /\ file.path \in DOMAIN disk
          /\ file.path # NoPath /\ DOMAIN disk' = DOMAIN disk
          /\ \A p \in DOMAIN disk' : disk'[p] = IF p = file.path THEN content ELSE disk[p]
      BY <1>7, Closes DEF Present
    <3> QED
      BY <1>7, <3>1 DEF Written, Opened
  <2>2. s.runs = fw[0].runs
    BY <1>4, <1>7
  <2> QED
    BY <1>1, <1>3, <1>4, <1>5, <2>1, <2>2, WriterSteps DEF m, s
<1>8. CASE ~(a = "Start" /\ state \notin Open2) /\ UNCHANGED <<file, content, disk>>
  <2>1. Written' = Written
    BY <1>8 DEF Written, Opened
  <2>2. s.runs = fw[0].runs
    BY <1>4, <1>8
  <2> QED
    BY <1>1, <1>3, <1>4, <1>5, <2>1, <2>2, WriterSteps DEF m, s
<1> QED
  BY <1>1, <1>6, <1>7, <1>8

-----------------------------------------------------------------------------
(* Both parts together. *)

Led == \E fs, fd, fw, u : Whole(fs, fd, fw, u)

LEMMA LedClean ==
  ASSUME Present, ~misled => Led, RNext
  PROVE  Clean
<1>1. CASE misled
  BY <1>1 DEF Clean
<1>2. CASE ~misled /\ SourceBegins
  BY <1>2, BeginsClean DEF Led
<1>3. CASE ~SourceBegins
  <2>1. run' = run
    <3>1. ASSUME NEW a \in RunAction, SendAction(a) PROVE run' = run
      BY <3>1 DEF SendAction, source
    <3>2. ASSUME NEW c \in Sender, Relay(c) PROVE run' = run
      BY <3>2 DEF Relay, source
    <3>3. ASSUME NEW c \in Sender, Callback(c) PROVE run' = run
      BY <3>3 DEF Callback, source
    <3>4. CASE WriterCallback
      BY <3>4 DEF WriterCallback, source
    <3>5. CASE SourceRepeats \/ SourceRejects \/ SourceAnnounces \/ Iterate \/ SendData
      BY <3>5 DEF SourceRepeats, SourceRejects, SourceAnnounces, Iterate, SendData, source
    <3>6. CASE WriterObeys \/ WriterRejects \/ WriterStores \/ WriterStrays
      <4>1. WriterUnchanged
        BY <3>6 DEF WriterObeys, WriterRejects, WriterStores, WriterStrays
      <4> QED
        BY <4>1 DEF WriterUnchanged, source
    <3> QED
      BY <1>3, <3>1, <3>2, <3>3, <3>4, <3>5, <3>6 DEF RNext
  <2> QED
    BY <2>1 DEF Clean
<1> QED
  BY <1>1, <1>2, <1>3

LEMMA RelayWhole ==
  ASSUME Present, NEW fs, NEW fd, NEW fw, NEW u, Whole(fs, fd, fw, u), NEW c \in Sender, Relay(c),
         ~misled'
  PROVE  \E gs, gd, gw, v : Whole(gs, gd, gw, v)'
<1>1. CASE c = "controller"
  BY <1>1, RelayDownWhole
<1>2. CASE c = "source"
  BY <1>2, RelayUpWhole
<1> QED
  BY <1>1, <1>2 DEF Sender

\* Nothing of what the courses lead along changes.
LEMMA WholeKept ==
  ASSUME NEW fs, NEW fd, NEW fw, NEW u, Whole(fs, fd, fw, u),
         UNCHANGED <<controller, source, writer>>, UNCHANGED <<inbox, toSource, toWriter, skipped>>,
         AtSource' = AtSource, AtWriter' = AtWriter
  PROVE  Whole(fs, fd, fw, u)'
<1>1. /\ UNCHANGED <<expected, owed, visible, pending, run, made>> /\ state' = state
      /\ inbox' = inbox /\ toSource' = toSource /\ toWriter' = toWriter
  BY DEF controller, source, writer
<1>2. Up' = Up /\ Down' = Down
  BY <1>1 DEF Up, Down
<1>3. Courses(fs, fd, fw, u)'
  BY <1>1, <1>2 DEF Whole, Courses
<1>4. Ends(fs, fd, fw, u)'
  BY <1>1, <1>2 DEF Whole, Ends
<1>5. Starts(fs, fd, u)'
  BY <1>1, <1>2 DEF Whole, Starts
<1>6. Matching(fw)' /\ Accounting(fw)'
  <2>1. Carried(Up)' = Carried(Up) /\ UNCHANGED <<writer, toWriter, run, made, skipped>>
    BY <1>1, <1>2
  <2> QED
    BY <2>1, WriterKept DEF Whole
<1> QED
  BY <1>3, <1>4, <1>5, <1>6 DEF Whole

\* A callback begins, which does not move the hub along Down.
LEMMA CallbackWhole ==
  ASSUME Present, NEW fs, NEW fd, NEW fw, NEW u, Whole(fs, fd, fw, u), NEW c \in Sender, Callback(c)
  PROVE  Whole(fs, fd, fw, u)'
<1>1. /\ UNCHANGED <<controller, source, writer>> /\ UNCHANGED <<inbox, toSource, toWriter, skipped>>
      /\ order' = order
  BY DEF Callback
<1>2. AtSource' = AtSource /\ AtWriter' = AtWriter
  <2>1. CASE c = "controller"
    <3>1. todo["controller"] = << >> /\ todo'["controller"] = order
      <4>1. todo["controller"] = << >>
        BY <2>1 DEF Callback
      <4>2. todo' = [todo EXCEPT !["controller"] = order] /\ "controller" \in DOMAIN todo
        BY <2>1, CallbackDown DEF Present, QueueTypes, Sender
      <4> QED
        BY <4>1, <4>2
    <3> QED
      BY <3>1, Places DEF Present, AtSource, AtWriter
  <2>2. CASE c = "source"
    <3>1. todo'["controller"] = todo["controller"]
      <4>1. todo' = [todo EXCEPT !["source"] = <<Reader(Head(Up))>>] /\ "controller" \in DOMAIN todo
        BY <2>2, CallbackUp DEF Present, QueueTypes, Sender
      <4> QED
        BY <4>1
    <3> QED
      BY <3>1 DEF AtSource, AtWriter
  <2> QED
    BY <2>1, <2>2 DEF Sender
<1> QED
  BY <1>1, <1>2, WholeKept

LEMMA WriterCallbackWhole ==
  ASSUME NEW fs, NEW fd, NEW fw, NEW u, Whole(fs, fd, fw, u), WriterCallback
  PROVE  Whole(fs, fd, fw, u)'
<1>1. /\ UNCHANGED <<controller, source, writer>> /\ UNCHANGED <<inbox, toSource, toWriter, skipped>>
      /\ todo' = todo
  BY DEF WriterCallback
<1>2. AtSource' = AtSource /\ AtWriter' = AtWriter
  BY <1>1 DEF AtSource, AtWriter
<1> QED
  BY <1>1, <1>2, WholeKept

LEMMA LedNext ==
  ASSUME Present, Present', Led, ~misled', RNext
  PROVE  Led'
<1>1. PICK fs, fd, fw, u : Whole(fs, fd, fw, u)
  BY DEF Led
<1>2. \E gs, gd, gw, v : Whole(gs, gd, gw, v)'
  <2>1. state # "Dead"
    BY DEF RNext
  <2>2. ASSUME NEW a \in RunAction, SendAction(a) PROVE <1>2!:
    BY <1>1, <2>2, SendActionWhole
  <2>3. ASSUME NEW c \in Sender, Relay(c) PROVE <1>2!:
    BY <1>1, <2>3, RelayWhole
  <2>4. CASE SourceBegins
    BY <1>1, <2>4, SourceBeginsWhole
  <2>5. CASE SourceRepeats
    BY <1>1, <2>5, SourceRepeatsWhole
  <2>6. CASE SourceRejects
    BY <1>1, <2>6, SourceRejectsWhole
  <2>7. CASE SourceAnnounces
    BY <1>1, <2>7, SourceAnnouncesWhole
  <2>8. CASE Iterate
    BY <1>1, <2>8, IterateWhole
  <2>9. CASE SendData
    BY <1>1, <2>9, SendDataWhole
  <2>10. CASE WriterObeys
    BY <1>1, <2>1, <2>10, WriterObeysWhole
  <2>11. CASE WriterRejects
    BY <1>1, <2>1, <2>11, WriterRejectsWhole
  <2>12. CASE WriterStores
    BY <1>1, <2>1, <2>12, WriterStoresWhole
  <2>13. CASE WriterStrays
    BY <1>1, <2>1, <2>13, WriterStraysWhole
  <2>14. ASSUME NEW c \in Sender, Callback(c) PROVE <1>2!:
    BY <1>1, <2>14, CallbackWhole
  <2>15. CASE WriterCallback
    BY <1>1, <2>15, WriterCallbackWhole
  <2> QED
    BY <2>2, <2>3, <2>4, <2>5, <2>6, <2>7, <2>8, <2>9, <2>10, <2>11, <2>12, <2>13, <2>14, <2>15
    DEF RNext
<1> QED
  BY <1>2 DEF Led

\* Who has been misled stays so.
LEMMA MisledStays ==
  ASSUME Present, RNext
  PROVE  ~misled' => ~misled
<1>1. ASSUME NEW a \in RunAction, SendAction(a) PROVE misled' = misled
  BY <1>1 DEF SendAction, shared
<1>2. ASSUME NEW c \in Sender, Relay(c) PROVE ~misled' => ~misled
  BY <1>2, Relays
<1>3. ASSUME NEW c \in Sender, Callback(c) PROVE misled' = misled
  BY <1>3 DEF Callback
<1>4. CASE WriterCallback
  BY <1>4 DEF WriterCallback
<1>5. CASE SourceBegins \/ SourceRepeats \/ SourceRejects \/ SourceAnnounces \/ Iterate \/ SendData
  <2>1. SourceUnchanged
    BY <1>5 DEF SourceBegins, SourceRepeats, SourceRejects, SourceAnnounces, Iterate, SendData
  <2> QED
    BY <2>1 DEF SourceUnchanged, shared
<1>6. CASE WriterObeys \/ WriterRejects \/ WriterStores \/ WriterStrays
  <2>1. WriterUnchanged
    BY <1>6 DEF WriterObeys, WriterRejects, WriterStores, WriterStrays
  <2> QED
    BY <2>1 DEF WriterUnchanged, shared
<1> QED
  BY <1>1, <1>2, <1>3, <1>4, <1>5, <1>6 DEF RNext

LEMMA AllUnchanged ==
  ASSUME UNCHANGED vars
  PROVE  /\ UNCHANGED <<controller, source, writer>>
         /\ UNCHANGED <<order, inbox, todo, toSource, toWriter, announced>>
         /\ UNCHANGED <<m_Client, overlaps, misled, skipped>>
<1>1. UNCHANGED <<controller, source, hub, writer>>
  BY DEF vars
<1>2. UNCHANGED <<order, inbox, todo, toSource, toWriter, announced, shared>>
  BY <1>1 DEF hub
<1> QED
  BY <1>1, <1>2 DEF shared

\* Nothing changes: neither part speaks of anything but the variables.
LEMMA PresentStutter ==
  ASSUME Present, UNCHANGED vars
  PROVE  Present'
<1>1. /\ UNCHANGED <<controller, source, writer>> /\ UNCHANGED <<order, inbox>>
      /\ todo' = todo /\ toSource' = toSource /\ toWriter' = toWriter /\ UNCHANGED announced
      /\ UNCHANGED <<m_Client, overlaps, misled, skipped>>
  BY AllUnchanged
<1>2. /\ SenderTypes' /\ WriterTypes' /\ FilePhase' /\ RestPhase' /\ RunPhase'
      /\ Up' = Up /\ Down' = Down
  BY <1>1, PresentKept
<1>3. SharedTypes'
  BY <1>1 DEF Present, QueueTypes, SharedTypes
<1>4. QueueTypes'
  BY <1>1, <1>2, <1>3 DEF Present, QueueTypes
<1> QED
  BY <1>2, <1>4 DEF Present

LEMMA LedStutter ==
  ASSUME Led, UNCHANGED vars
  PROVE  Led'
<1>1. /\ UNCHANGED <<controller, source, writer>> /\ todo' = todo
      /\ UNCHANGED <<inbox, toSource, toWriter, skipped>>
  BY AllUnchanged
<1>2. AtSource' = AtSource /\ AtWriter' = AtWriter
  BY <1>1 DEF AtSource, AtWriter
<1>3. PICK fs, fd, fw, u : Whole(fs, fd, fw, u)
  BY DEF Led
<1>4. Whole(fs, fd, fw, u)'
  BY <1>1, <1>2, <1>3, WholeKept
<1> QED
  BY <1>4 DEF Led

-----------------------------------------------------------------------------
(* The third part: the numbers of the data.  The course along toWriter and    *)
(* then Up gives the last piece of data before each place; the source's       *)
(* counters continue it, and the file ends with the one it begins with.  What *)
(* the hub has kept from the writer may be missing in between.                *)

Mark == [run : Nat, number : Nat]

Follows(d, e) ==
  \/ e.run = d.run /\ d.number < e.number /\ Between(d, e) \subseteq skipped
  \/ d.run < e.run

\* The last piece that the hub has relayed, and the last that it has had.
Behind(d, e) == d = e \/ (Follows(d, e) /\ e \in skipped)

Following == {t \in Mark \X Message \X Mark :
                IF IsData(t[2]) THEN t[3] = t[2].data /\ Follows(t[1], t[3]) ELSE t[3] = t[1]}

LastMade(d) == d = [run |-> run, number |-> made] \/ (d.run < run /\ made = 0)

LastWritten(d) == Opened /\ content # << >> => content[Len(content)] = d

Ordered(lw, lu) ==
  /\ Along(toWriter, lw, Mark, Following) /\ Along(Up, lu, Mark, Following)
  /\ Behind(lw[Len(toWriter)], lu[0])
  /\ LastMade(lu[Len(Up)]) /\ LastWritten(lw[0])

\* RunsApart and NoHoles of a writer that nobody has been misled about.
Apart == \A i, j \in DOMAIN Written : Written[i].run = Written[j].run

Continues(d, e) == d.number < e.number /\ Between(d, e) \subseteq skipped

Unbroken == \A i \in 1..(Len(Written) - 1) : Continues(Written[i], Written[i + 1])

Numbered == Unbroken /\ \E lw, lu : Ordered(lw, lu)

LEMMA Followed ==
  ASSUME NEW d, NEW m, NEW e
  PROVE  <<d, m, e>> \in Following <=>
           /\ d \in Mark /\ m \in Message /\ e \in Mark
           /\ IF IsData(m) THEN e = m.data /\ Follows(d, e) ELSE e = d
BY DEF Following

LEMMA FollowedThen ==
  ASSUME NEW d, NEW m, NEW e
  PROVE  <<d, m, e>> \in Following' <=>
           /\ d \in Mark /\ m \in Message /\ e \in Mark
           /\ IF IsData(m) THEN e = m.data /\ Follows(d, e)' ELSE e = d
BY DEF Following

\* What is missing after e is missing after d as well, and e itself is.
LEMMA FollowsOn ==
  ASSUME NEW d \in Mark, NEW e \in Mark, NEW f \in Mark, Behind(d, e), Follows(e, f)
  PROVE  Follows(d, f)
<1>1. /\ d.run \in Nat /\ e.run \in Nat /\ f.run \in Nat
      /\ d.number \in Nat /\ e.number \in Nat /\ f.number \in Nat
      /\ e = [run |-> e.run, number |-> e.number]
  BY DEF Mark
<1>2. CASE d = e
  BY <1>2
<1>3. CASE Follows(d, e) /\ e \in skipped
  <2>1. CASE d.run = e.run /\ e.run = f.run
    <3>1. /\ d.number < e.number /\ Between(d, e) \subseteq skipped
          /\ e.number < f.number /\ Between(e, f) \subseteq skipped
      BY <1>1, <1>3, <2>1 DEF Follows
    <3>2. ASSUME NEW n \in (d.number + 1)..(f.number - 1)
          PROVE  [run |-> d.run, number |-> n] \in skipped
      <4>1. CASE n < e.number
        <5>1. n \in (d.number + 1)..(e.number - 1)
          BY <1>1, <4>1
        <5> QED
          BY <3>1, <5>1 DEF Between
      <4>2. CASE n = e.number
        BY <1>1, <1>3, <2>1, <4>2
      <4>3. CASE n > e.number
        <5>1. n \in (e.number + 1)..(f.number - 1)
          BY <1>1, <4>3
        <5> QED
          BY <2>1, <3>1, <5>1 DEF Between
      <4> QED
        BY <1>1, <4>1, <4>2, <4>3
    <3>3. Between(d, f) \subseteq skipped
      BY <3>2 DEF Between
    <3>4. d.number < f.number
      BY <1>1, <3>1
    <3> QED
      BY <2>1, <3>3, <3>4 DEF Follows
  <2>2. CASE ~(d.run = e.run /\ e.run = f.run)
    <3>1. d.run <= e.run /\ e.run <= f.run
      BY <1>1, <1>3 DEF Follows
    <3>2. d.run < f.run
      BY <1>1, <2>2, <3>1
    <3> QED
      BY <3>2 DEF Follows
  <2> QED
    BY <2>1, <2>2
<1> QED
  BY <1>2, <1>3 DEF Behind

LEMMA AlongMore ==
  ASSUME NEW q, NEW f, NEW V, NEW R, NEW T, Along(q, f, V, R), R \subseteq T
  PROVE  Along(q, f, V, T)
BY DEF Along

\* The more the hub has kept from the writer, the more follows.
LEMMA MoreFollows ==
  ASSUME skipped \subseteq skipped'
  PROVE  /\ Following \subseteq Following'
         /\ \A d, e : Behind(d, e) => Behind(d, e)'
         /\ \A d, e : Continues(d, e) => Continues(d, e)'
<1>1. \A d, e : Follows(d, e) => Follows(d, e)'
  BY DEF Follows
<1>2. Following \subseteq Following'
  BY <1>1 DEF Following
<1>3. \A d, e : Behind(d, e) => Behind(d, e)'
  BY <1>1 DEF Behind
<1> QED
  BY <1>2, <1>3 DEF Continues

LEMMA NumberedInit ==
  ASSUME RInit
  PROVE  Numbered
<1> DEFINE d == [run |-> 0, number |-> 0]
           l == [i \in 0..0 |-> d]
<1>1. toWriter = << >> /\ Up = << >> /\ content = << >> /\ Written = << >> /\ run = 0 /\ made = 0
  BY DEF RInit, Up, Sender, Written
<1>2. Len(toWriter) = 0 /\ Len(Up) = 0 /\ Len(Written) = 0
  BY <1>1, Nothing
<1>3. d \in Mark /\ l \in [0..0 -> Mark] /\ l[0] = d
  BY DEF Mark
<1> HIDE DEF l
<1>4. Along(toWriter, l, Mark, Following) /\ Along(Up, l, Mark, Following)
  BY <1>2, <1>3 DEF Along
<1>5. LastMade(l[0]) /\ LastWritten(l[0])
  BY <1>1, <1>3 DEF LastMade, LastWritten
<1>6. Unbroken
  BY <1>2 DEF Unbroken
<1>7. Behind(l[0], l[0])
  BY DEF Behind
<1> QED
  BY <1>2, <1>4, <1>5, <1>6, <1>7 DEF Numbered, Ordered

LEMMA Marks ==
  ASSUME Present, NEW lw, NEW lu, Ordered(lw, lu)
  PROVE  /\ Len(toWriter) \in Nat /\ Len(Up) \in Nat
         /\ lw \in [0..Len(toWriter) -> Mark] /\ lu \in [0..Len(Up) -> Mark]
         /\ lw[0] \in Mark /\ lw[Len(toWriter)] \in Mark /\ lu[0] \in Mark /\ lu[Len(Up)] \in Mark
<1>1. Len(toWriter) \in Nat /\ Len(Up) \in Nat
  BY DEF Present, QueueTypes
<1>2. lw \in [0..Len(toWriter) -> Mark] /\ lu \in [0..Len(Up) -> Mark]
  BY DEF Ordered, Along
<1>3. 0 \in 0..Len(toWriter) /\ Len(toWriter) \in 0..Len(toWriter) /\ 0 \in 0..Len(Up)
      /\ Len(Up) \in 0..Len(Up)
  BY <1>1
<1> QED
  BY <1>1, <1>2, <1>3

\* What the writer has, when it does nothing.
LEMMA FileKept ==
  ASSUME NEW d, UNCHANGED writer, Unbroken, LastWritten(d), skipped \subseteq skipped'
  PROVE  Unbroken' /\ LastWritten(d)'
<1>1. UNCHANGED <<state, file, content, disk, lost>>
  BY DEF writer
<1>2. Written' = Written
  BY <1>1 DEF Written, Opened
<1>3. Unbroken'
  BY <1>2, MoreFollows DEF Unbroken
<1> QED
  BY <1>1, <1>3 DEF LastWritten, Opened

\* What changes nothing of all this.
LEMMA NumberedKept ==
  ASSUME Numbered, UNCHANGED <<toWriter, run, made, skipped>>, UNCHANGED writer, Up' = Up
  PROVE  Numbered'
<1>1. PICK lw, lu : Ordered(lw, lu)
  BY DEF Numbered
<1>2. Unbroken' /\ LastWritten(lw[0])'
  BY <1>1, FileKept DEF Numbered, Ordered
<1>3. Following' = Following /\ \A d, e : Behind(d, e)' <=> Behind(d, e)
  BY DEF Following, Follows, Behind
<1>4. Ordered(lw, lu)'
  BY <1>1, <1>2, <1>3 DEF Ordered, LastMade
<1> QED
  BY <1>2, <1>4 DEF Numbered

LEMMA SourceBeginsNumbered ==
  ASSUME Present, Numbered, SourceBegins
  PROVE  Numbered'
<1>1. PICK lw, lu : Ordered(lw, lu)
  BY DEF Numbered
<1>2. /\ UNCHANGED inbox /\ toWriter' = toWriter /\ UNCHANGED writer /\ skipped' = skipped
      /\ (run' = run /\ made' = made) \/ (run' = run + 1 /\ made' = 0)
  BY OthersKept DEF SourceBegins, SourceUnchanged, Present, SenderTypes
<1>3. Up' = Up
  BY <1>2 DEF Up
<1>4. Unbroken' /\ LastWritten(lw[0])'
  BY <1>1, <1>2, FileKept DEF Numbered, Ordered
<1>5. LastMade(lu[Len(Up)])'
  <2>1. lu[Len(Up)] \in Mark /\ LastMade(lu[Len(Up)]) /\ run \in Nat
    BY <1>1, Marks DEF Ordered, Present, SenderTypes
  <2>2. lu[Len(Up)].run \in Nat
    BY <2>1 DEF Mark
  <2>3. lu[Len(Up)].run <= run
    BY <2>1, <2>2 DEF LastMade
  <2> QED
    BY <1>2, <1>3, <2>1, <2>2, <2>3 DEF LastMade
<1>6. Along(toWriter, lw, Mark, Following)' /\ Along(Up, lu, Mark, Following)'
      /\ Behind(lw[Len(toWriter)], lu[0])'
  BY <1>1, <1>2, <1>3, MoreFollows, AlongMore DEF Ordered
<1>7. Ordered(lw, lu)'
  BY <1>4, <1>5, <1>6 DEF Ordered
<1> QED
  BY <1>4, <1>7 DEF Numbered

\* The source sends something up.
LEMMA SaysNumbered ==
  ASSUME Present, Present', Numbered, NEW m, Say(m), UNCHANGED writer, toWriter' = toWriter,
         skipped' = skipped,
         \A d \in Mark : LastMade(d) =>
           \E e \in Mark : LastMade(e)' /\ IF IsData(m) THEN e = m.data /\ Follows(d, e) ELSE e = d
  PROVE  Numbered'
<1>1. PICK lw, lu : Ordered(lw, lu)
  BY DEF Numbered
<1> DEFINE n == Len(Up)
<1>2. Up' = Append(Up, m) /\ Up' \in Seq(Data \cup Answers) /\ Up \in Seq(Data \cup Answers)
      /\ n \in Nat
  <2>1. Up' \in Seq(Data \cup Answers) /\ Up \in Seq(Data \cup Answers)
    BY DEF Present, QueueTypes
  <2>2. inbox \in [Sender -> Seq(Message)]
    BY DEF Present, QueueTypes
  <2>3. Up' = Append(Up, m)
    BY <2>2 DEF Say, Up, Sender
  <2> QED
    BY <2>1, <2>3
<1>3. m \in Message
  <2>1. Up'[n + 1] = m /\ n + 1 \in 1..Len(Up')
    BY <1>2
  <2> QED
    BY <1>2, <2>1, MessageTypes
<1>4. Up \in Seq(Message) /\ Len(Up') = n + 1
  BY <1>2, <1>3, MessageTypes
<1>5. lu[n] \in Mark /\ Along(Up, lu, Mark, Following)
  BY <1>1, Marks DEF Ordered
<1>6. PICK e \in Mark : LastMade(e)' /\ IF IsData(m) THEN e = m.data /\ Follows(lu[n], e) ELSE e = lu[n]
  BY <1>1, <1>5 DEF Ordered
<1>7. <<lu[n], m, e>> \in Following
  BY <1>3, <1>5, <1>6, Followed
<1> PICK l : l = Longer(Up, lu, e)
  OBVIOUS
<1>8. Along(Up', l, Mark, Following)
  BY <1>2, <1>3, <1>4, <1>5, <1>7, CourseAppend
<1>9. l[n + 1] = e /\ l[0] = lu[0]
  <2>1. l[n + 1] = e /\ \A i \in 0..n : l[i] = lu[i]
    BY <1>4, LongerIs
  <2> QED
    BY <1>2, <2>1
<1>10. Unbroken' /\ LastWritten(lw[0])'
  BY <1>1, FileKept DEF Numbered, Ordered
<1>11. Along(toWriter, lw, Mark, Following)' /\ Along(Up, l, Mark, Following)'
       /\ Behind(lw[Len(toWriter)], l[0])'
  BY <1>1, <1>8, <1>9, MoreFollows, AlongMore DEF Ordered
<1>12. Ordered(lw, l)'
  BY <1>4, <1>6, <1>9, <1>10, <1>11 DEF Ordered
<1> QED
  BY <1>10, <1>12 DEF Numbered

LEMMA SendDataNumbered ==
  ASSUME Present, Present', Numbered, SendData
  PROVE  Numbered'
<1> PICK e : e = [run |-> run, number |-> made + 1]
  OBVIOUS
<1> PICK t : t = [data |-> e]
  OBVIOUS
<1>1. /\ Say(t) /\ UNCHANGED writer /\ toWriter' = toWriter /\ run' = run /\ made' = made + 1
      /\ skipped' = skipped
  BY OthersKept DEF SendData, S!Rest
<1>2. IsData(t) /\ t.data = e
  BY DEF IsData
<1>3. e \in Mark /\ LastMade(e)'
  BY <1>1 DEF Mark, LastMade, Present, SenderTypes
<1>4. ASSUME NEW d \in Mark, LastMade(d) PROVE Follows(d, e)
  <2>1. run \in Nat /\ made \in Nat
    BY DEF Present, SenderTypes
  <2>2. CASE d = [run |-> run, number |-> made]
    <3>1. (made + 1)..((made + 1) - 1) = {}
      BY <2>1
    <3>2. Between(d, e) = {}
      BY <2>2, <3>1 DEF Between
    <3> QED
      BY <2>1, <2>2, <3>2 DEF Follows
  <2>3. CASE d.run < run
    BY <2>3 DEF Follows
  <2> QED
    BY <1>4, <2>2, <2>3 DEF LastMade
<1>5. \A d \in Mark : LastMade(d) =>
        \E f \in Mark : LastMade(f)' /\ IF IsData(t) THEN f = t.data /\ Follows(d, f) ELSE f = d
  BY <1>2, <1>3, <1>4
<1> QED
  BY <1>1, <1>5, SaysNumbered

LEMMA SourceSaysNumbered ==
  ASSUME Present, Present', Numbered, SourceRepeats \/ SourceAnnounces
  PROVE  Numbered'
<1>1. PICK s : Say([state |-> s])
  BY DEF SourceRepeats, SourceAnnounces
<1>2. /\ UNCHANGED writer /\ toWriter' = toWriter /\ run' = run /\ made' = made
      /\ skipped' = skipped
  BY OthersKept DEF SourceRepeats, SourceAnnounces, source
<1> DEFINE t == [state |-> s]
<1>3. ~IsData(t)
  BY DEF IsData
<1>4. \A d \in Mark : LastMade(d) => LastMade(d)'
  BY <1>2 DEF LastMade
<1> HIDE DEF t
<1>5. Say(t)
  BY <1>1 DEF t
<1> QED
  BY <1>2, <1>3, <1>4, <1>5, SaysNumbered

\* The hub puts a message into the writer's queue.
LEMMA JoinWriter ==
  ASSUME Present, NEW lw, NEW lu, Ordered(lw, lu), NEW m \in Calls \cup Data, NEW e \in Mark,
         <<lw[Len(toWriter)], m, e>> \in Following, toWriter' = Append(toWriter, m)
  PROVE  \E l : Along(toWriter', l, Mark, Following) /\ l[0] = lw[0] /\ l[Len(toWriter')] = e
<1> PICK l : l = Longer(toWriter, lw, e)
  OBVIOUS
<1>1. toWriter \in Seq(Calls \cup Data) /\ Along(toWriter, lw, Mark, Following)
      /\ Len(toWriter) \in Nat
  BY DEF Ordered, Present, QueueTypes
<1>2. Along(toWriter', l, Mark, Following)
  BY <1>1, CourseAppend
<1>3. l[Len(toWriter) + 1] = e /\ \A i \in 0..Len(toWriter) : l[i] = lw[i]
  BY <1>1, LongerIs
<1>4. Len(toWriter') = Len(toWriter) + 1
  BY <1>1
<1> QED
  BY <1>1, <1>2, <1>3, <1>4

LEMMA RelayDownNumbered ==
  ASSUME Present, Numbered, Relay("controller")
  PROVE  Numbered'
<1>1. PICK lw, lu : Ordered(lw, lu)
  BY DEF Numbered
<1> PICK m : m = Head(Down)
  OBVIOUS
<1>2. /\ UNCHANGED writer /\ run' = run /\ made' = made /\ Up' = Up /\ m \in Calls
      /\ skipped' = skipped
      /\ toWriter' = toWriter \/ toWriter' = Append(toWriter, m)
  <2>1. UNCHANGED source /\ UNCHANGED writer
    BY DEF Relay
  <2> QED
    BY <2>1, RelayDown DEF source, Present
<1>3. CASE toWriter' = toWriter
  BY <1>2, <1>3, NumberedKept
<1>4. CASE toWriter' = Append(toWriter, m)
  <2>1. m \in Calls \cup Data /\ ~IsData(m) /\ m \in Message
    BY <1>2, Kinds, MessageTypes
  <2>2. lw[Len(toWriter)] \in Mark /\ Behind(lw[Len(toWriter)], lu[0])
    BY <1>1, Marks DEF Ordered
  <2>3. <<lw[Len(toWriter)], m, lw[Len(toWriter)]>> \in Following
    BY <2>1, <2>2, Followed
  <2>4. PICK l : /\ Along(toWriter', l, Mark, Following) /\ l[0] = lw[0]
                 /\ l[Len(toWriter')] = lw[Len(toWriter)]
    BY <1>1, <1>4, <2>1, <2>2, <2>3, JoinWriter
  <2>5. Unbroken' /\ LastWritten(lw[0])'
    BY <1>1, <1>2, FileKept DEF Numbered, Ordered
  <2>6. Along(toWriter', l, Mark, Following') /\ Along(Up', lu, Mark, Following')
    BY <1>1, <1>2, <2>4, MoreFollows, AlongMore DEF Ordered
  <2>8. Behind(l[Len(toWriter)], lu[0])'
    BY <1>2, <2>2, <2>4, MoreFollows
  <2>7. Ordered(l, lu)'
    BY <1>1, <1>2, <2>4, <2>5, <2>6, <2>8 DEF Ordered, LastMade
  <2> QED
    BY <2>5, <2>7 DEF Numbered
<1> QED
  BY <1>2, <1>3, <1>4

LEMMA RelayUpNumbered ==
  ASSUME Present, Numbered, Relay("source"), ~misled'
  PROVE  Numbered'
<1>1. PICK lw, lu : Ordered(lw, lu)
  BY DEF Numbered
<1> PICK m : m = Head(Up)
  OBVIOUS
<1> PICK d : d = lu[Len(Up)]
  OBVIOUS
<1>2. UNCHANGED writer /\ run' = run /\ made' = made
  BY DEF Relay, source
<1>3. /\ Up # << >> /\ Up' = Tail(Up) /\ m \in Data \cup Answers
      /\ \/ m \in Data /\ toWriter' = Append(toWriter, m) /\ skipped' = skipped
         \/ m \in Data /\ toWriter' = toWriter /\ skipped' = skipped \cup {m.data}
         \/ m \in Answers /\ toWriter' = toWriter /\ skipped' = skipped
  BY RelayUp DEF Present
<1>4. Up \in Seq(Data \cup Answers) /\ Along(Up, lu, Mark, Following)
  BY <1>1 DEF Ordered, Present, QueueTypes
<1> PICK l : l = Shorter(Up, lu)
  OBVIOUS
<1>5. Along(Up', l, Mark, Following)
  BY <1>3, <1>4, CourseTail
<1>6. Len(Up) \in Nat \ {0} /\ Len(Up') = Len(Up) - 1 /\ m = Up[1]
  BY <1>3, <1>4, Taken
<1>7. l[0] = lu[1] /\ l[Len(Up')] = d
  BY <1>3, <1>4, <1>6, ShorterIs
<1>8. <<lu[0], m, lu[1]>> \in Following
  <2>1. 1 \in 1..Len(Up) /\ 1 - 1 = 0
    BY <1>6
  <2>2. <<lu[1 - 1], Up[1], lu[1]>> \in Following
    BY <1>4, <2>1 DEF Along
  <2> QED
    BY <1>6, <2>1, <2>2
<1>9. skipped \subseteq skipped'
  BY <1>3
<1>10. Unbroken' /\ LastWritten(lw[0])' /\ LastMade(d)'
  BY <1>1, <1>2, <1>9, FileKept DEF Numbered, Ordered, LastMade
<1>11. /\ Along(Up', l, Mark, Following') /\ Along(toWriter, lw, Mark, Following')
       /\ lw[Len(toWriter)] \in Mark /\ lu[0] \in Mark /\ lu[1] \in Mark
       /\ Behind(lw[Len(toWriter)], lu[0])
  BY <1>1, <1>5, <1>8, <1>9, MoreFollows, AlongMore, Followed, Marks DEF Ordered
\* The hub's last piece of data is now this one, or there is one more that is missing.
<1>12. m \in Data => lu[1] = m.data /\ Follows(lw[Len(toWriter)], lu[1])
  <2> SUFFICES ASSUME m \in Data PROVE lu[1] = m.data /\ Follows(lw[Len(toWriter)], lu[1])
    OBVIOUS
  <2>1. lu[1] = m.data /\ Follows(lu[0], lu[1])
    BY <1>8, Kinds, Followed
  <2> QED
    BY <1>11, <2>1, FollowsOn
<1>13. CASE m \in Data /\ toWriter' = Append(toWriter, m) /\ skipped' = skipped
  <2>1. m \in Calls \cup Data /\ IsData(m) /\ m \in Message
    BY <1>13, Kinds, MessageTypes
  <2>2. <<lw[Len(toWriter)], m, lu[1]>> \in Following
    BY <1>11, <1>12, <1>13, <2>1, Followed
  <2>3. PICK g : /\ Along(toWriter', g, Mark, Following) /\ g[0] = lw[0]
                 /\ g[Len(toWriter')] = lu[1]
    BY <1>1, <1>11, <1>13, <2>1, <2>2, JoinWriter
  <2>4. Along(toWriter', g, Mark, Following')
    BY <1>9, <2>3, MoreFollows, AlongMore
  <2>5. Behind(g[Len(toWriter)], l[0])'
    BY <1>7, <2>3 DEF Behind
  <2>6. Ordered(g, l)'
    BY <1>7, <1>10, <1>11, <2>3, <2>4, <2>5 DEF Ordered
  <2> QED
    BY <1>10, <2>6 DEF Numbered
<1>14. CASE m \in Data /\ toWriter' = toWriter /\ skipped' = skipped \cup {m.data}
  <2>1. Follows(lw[Len(toWriter)], lu[1])' /\ lu[1] \in skipped'
    BY <1>9, <1>12, <1>14 DEF Follows
  <2>2. Behind(lw[Len(toWriter)], l[0])'
    BY <1>7, <1>14, <2>1 DEF Behind
  <2>3. Ordered(lw, l)'
    BY <1>7, <1>10, <1>11, <1>14, <2>2 DEF Ordered
  <2> QED
    BY <1>10, <2>3 DEF Numbered
<1>15. CASE m \in Answers /\ toWriter' = toWriter /\ skipped' = skipped
  <2>1. ~IsData(m)
    BY <1>15, Kinds
  <2>2. lu[1] = lu[0]
    BY <1>8, <2>1, Followed
  <2>3. Behind(lw[Len(toWriter)], l[0])'
    BY <1>7, <1>9, <1>11, <1>15, <2>2, MoreFollows
  <2>4. Ordered(lw, l)'
    BY <1>7, <1>10, <1>11, <1>15, <2>3 DEF Ordered
  <2> QED
    BY <1>10, <2>4 DEF Numbered
<1> QED
  BY <1>3, <1>13, <1>14, <1>15

\* What is left to show of a step of the writer's.
LEMMA WriterNumbered ==
  ASSUME Present, NEW lw, NEW lu, Ordered(lw, lu), toWriter # << >>, toWriter' = Tail(toWriter),
         WriterUnchanged, Unbroken',
         \A d \in Mark : <<lw[0], Head(toWriter), d>> \in Following => LastWritten(d)'
  PROVE  Numbered'
<1>1. toWriter \in Seq(Calls \cup Data) /\ Along(toWriter, lw, Mark, Following)
  BY DEF Ordered, Present, QueueTypes
<1> PICK l : l = Shorter(toWriter, lw)
  OBVIOUS
<1>2. Along(toWriter', l, Mark, Following)
  BY <1>1, CourseTail
<1>3. Len(toWriter) \in Nat \ {0} /\ Len(toWriter') = Len(toWriter) - 1 /\ Head(toWriter) = toWriter[1]
  BY <1>1, Taken
<1>4. l[0] = lw[1] /\ l[Len(toWriter')] = lw[Len(toWriter)]
  BY <1>1, <1>3, ShorterIs
<1>5. <<lw[0], Head(toWriter), lw[1]>> \in Following
  <2>1. 1 \in 1..Len(toWriter) /\ 1 - 1 = 0
    BY <1>3
  <2>2. <<lw[1 - 1], toWriter[1], lw[1]>> \in Following
    BY <1>1, <2>1 DEF Along
  <2> QED
    BY <1>3, <2>1, <2>2
<1>6. lw[1] \in Mark
  BY <1>5, Followed
<1>7. LastWritten(lw[1])'
  BY <1>5, <1>6
<1>8. Up' = Up /\ run' = run /\ made' = made
  BY DEF WriterUnchanged, source, Up
<1>9. skipped' = skipped
  BY DEF WriterUnchanged, shared
<1>10. Along(toWriter', l, Mark, Following') /\ Along(Up', lu, Mark, Following')
  BY <1>2, <1>8, <1>9, MoreFollows, AlongMore DEF Ordered
<1>11. Behind(l[Len(toWriter)], lu[0])'
  BY <1>4, <1>9, MoreFollows DEF Ordered
<1>12. Ordered(l, lu)'
  BY <1>4, <1>7, <1>8, <1>10, <1>11 DEF Ordered, LastMade
<1> QED
  BY <1>12 DEF Numbered

LEMMA WriterRejectsNumbered ==
  ASSUME Present, Numbered, WriterRejects
  PROVE  Numbered'
<1>1. PICK lw, lu : Ordered(lw, lu)
  BY DEF Numbered
<1>2. /\ toWriter # << >> /\ toWriter' = Tail(toWriter) /\ WriterUnchanged /\ UNCHANGED writer
      /\ IsAction(Head(toWriter)) /\ skipped' = skipped
  BY DEF WriterRejects, IsAction, WriterUnchanged, shared
<1>3. ~IsData(Head(toWriter))
  BY <1>2, TakenByWriter, Kinds
<1>4. Unbroken' /\ LastWritten(lw[0])'
  BY <1>1, <1>2, FileKept DEF Numbered, Ordered
<1>5. \A d \in Mark : <<lw[0], Head(toWriter), d>> \in Following => LastWritten(d)'
  BY <1>3, <1>4, Followed
<1> QED
  BY <1>1, <1>2, <1>4, <1>5, WriterNumbered

LEMMA WriterStraysNumbered ==
  ASSUME Present, Numbered, WriterStrays
  PROVE  Numbered'
<1>1. PICK lw, lu : Ordered(lw, lu)
  BY DEF Numbered
<1>2. /\ toWriter # << >> /\ toWriter' = Tail(toWriter) /\ WriterUnchanged
      /\ UNCHANGED <<file, content, disk>> /\ ~Opened /\ skipped' = skipped
  BY DEF WriterStrays, WriterUnchanged, shared
<1>3. Unbroken'
  <2>1. Written' = Written
    BY <1>2 DEF Written, Opened
  <2> QED
    BY <1>2, <2>1, MoreFollows DEF Numbered, Unbroken
<1>4. \A d \in Mark : LastWritten(d)'
  BY <1>2 DEF LastWritten, Opened
<1> QED
  BY <1>1, <1>2, <1>3, <1>4, WriterNumbered

\* The piece it stores continues the file: it follows the last one, in the same run.
LEMMA WriterStoresNumbered ==
  ASSUME Present, Numbered, Apart', WriterStores
  PROVE  Numbered'
<1>1. PICK lw, lu : Ordered(lw, lu)
  BY DEF Numbered
<1> PICK m : m = Head(toWriter)
  OBVIOUS
<1>2. /\ toWriter # << >> /\ toWriter' = Tail(toWriter) /\ WriterUnchanged /\ IsData(m)
      /\ Opened /\ content' = Append(content, m.data) /\ file' = file /\ skipped' = skipped
  BY DEF WriterStores, ParseData, IsData, WriterUnchanged, shared
<1>3. m.data \in Datum /\ content \in Seq(Datum)
  BY <1>2, TakenByWriter DEF Present, WriterTypes
<1> PICK n : n = Len(content)
  OBVIOUS
<1>4. /\ n \in Nat /\ Len(content') = n + 1 /\ content'[n + 1] = m.data
      /\ \A i \in 1..n : content'[i] = content[i]
  BY <1>2, <1>3
<1>5. Written = content /\ Written' = content'
  BY <1>2 DEF Written, Opened
<1>6. ASSUME n # 0 PROVE Continues(content[n], m.data)
  <2>1. content[n] = lw[0]
    <3>1. content # << >>
      BY <1>4, <1>6, Nothing
    <3> QED
      BY <1>1, <1>2, <3>1 DEF Ordered, LastWritten
  <2>2. <<lw[0], m, lw[1]>> \in Following
    <3>1. toWriter \in Seq(Calls \cup Data) /\ Along(toWriter, lw, Mark, Following)
      BY <1>1 DEF Ordered, Present, QueueTypes
    <3>2. m = toWriter[1] /\ 1 \in 1..Len(toWriter) /\ 1 - 1 = 0
      BY <1>2, <3>1, Taken
    <3>3. <<lw[1 - 1], toWriter[1], lw[1]>> \in Following
      BY <3>1, <3>2 DEF Along
    <3> QED
      BY <3>2, <3>3
  <2>3. Follows(content[n], m.data)
    BY <1>2, <2>1, <2>2, Followed
  <2>4. content[n].run = m.data.run
    <3>1. n \in DOMAIN content' /\ n + 1 \in DOMAIN content' /\ content'[n] = content[n]
      BY <1>2, <1>3, <1>4, <1>6
    <3>2. content'[n].run = content'[n + 1].run
      BY <1>5, <3>1 DEF Apart
    <3> QED
      BY <1>4, <3>1, <3>2
  <2>5. content[n].run \in Nat
    <3>1. content[n] \in Datum
      BY <1>3, <1>4, <1>6
    <3> QED
      BY <3>1 DEF Datum
  <2> QED
    BY <2>3, <2>4, <2>5 DEF Follows, Continues
<1>7. Unbroken'
  <2>1. \A d, e : Continues(d, e) => Continues(d, e)'
    BY <1>2, MoreFollows
  <2>2. ASSUME NEW i \in 1..n PROVE Continues(content[i], content[i + 1])'
    <3> PICK d, e : d = content'[i] /\ e = content'[i + 1]
      OBVIOUS
    <3>1. Continues(d, e)
      <4>1. CASE i = n
        BY <1>4, <1>6, <4>1
      <4>2. CASE i \in 1..(n - 1)
        <5>1. Continues(content[i], content[i + 1])
          BY <1>5, <4>2 DEF Numbered, Unbroken
        <5>2. i \in 1..n /\ i + 1 \in 1..n
          BY <1>4, <4>2
        <5> QED
          BY <1>4, <5>1, <5>2
      <4> QED
        BY <1>4, <4>1, <4>2
    <3>2. Continues(d, e)'
      BY <2>1, <3>1
    <3> QED
      BY <3>2 DEF Continues, Between
  <2> QED
    BY <1>4, <1>5, <2>2 DEF Unbroken
<1>8. \A d \in Mark : <<lw[0], m, d>> \in Following => LastWritten(d)'
  BY <1>2, <1>4, Followed DEF LastWritten
<1> QED
  BY <1>1, <1>2, <1>7, <1>8, WriterNumbered

LEMMA WriterObeysNumbered ==
  ASSUME Present, Numbered, state # "Dead", WriterObeys
  PROVE  Numbered'
<1>1. PICK lw, lu : Ordered(lw, lu)
  BY DEF Numbered
<1>2. /\ WriterUnchanged /\ toWriter # << >> /\ toWriter' = Tail(toWriter) /\ IsAction(Head(toWriter))
      /\ \/ ~Opened /\ Open
         \/ Opened /\ Close
         \/ UNCHANGED <<file, content, disk>>
      /\ skipped' = skipped
  BY WriterDoes DEF WriterUnchanged, shared
<1>3. ~IsData(Head(toWriter))
  BY <1>2, TakenByWriter, Kinds
<1>4. Unbroken' /\ LastWritten(lw[0])'
  <2>1. CASE Open
    <3>1. file'.tfile = "open" /\ content' = << >>
      BY <2>1, Opens DEF Present
    <3>2. Written' = << >> /\ Len(Written') = 0
      BY <3>1, Nothing DEF Written, Opened
    <3> QED
      BY <3>1, <3>2 DEF Unbroken, LastWritten
  <2>2. CASE Opened /\ Close
    <3>1. /\ file'.tfile = "closed" /\ file'.path = file.path /\ file.path \in DOMAIN disk
          /\ file.path # NoPath /\ DOMAIN disk' = DOMAIN disk
          /\ \A p \in DOMAIN disk' : disk'[p] = IF p = file.path THEN content ELSE disk[p]
      BY <2>2, Closes DEF Present
    <3>2. Written' = Written /\ ~Opened'
      BY <2>2, <3>1 DEF Written, Opened
    <3> QED
      BY <1>2, <3>2, MoreFollows DEF Numbered, Unbroken, LastWritten
  <2>3. CASE UNCHANGED <<file, content, disk>>
    <3>1. Written' = Written
      BY <2>3 DEF Written, Opened
    <3> QED
      BY <1>1, <1>2, <2>3, <3>1, MoreFollows DEF Numbered, Unbroken, Ordered, LastWritten, Opened
  <2> QED
    BY <1>2, <2>1, <2>2, <2>3
<1>5. \A d \in Mark : <<lw[0], Head(toWriter), d>> \in Following => LastWritten(d)'
  BY <1>3, <1>4, Followed
<1> QED
  BY <1>1, <1>2, <1>4, <1>5, WriterNumbered

LEMMA NumberedNext ==
  ASSUME Present, Present', Numbered, Apart', ~misled', RNext
  PROVE  Numbered'
<1>1. ASSUME NEW a \in RunAction, SendAction(a) PROVE Numbered'
  <2>1. UNCHANGED <<toWriter, run, made, skipped>> /\ UNCHANGED writer /\ Up' = Up
    BY <1>1 DEF SendAction, source, shared, Up, Present, QueueTypes, Sender
  <2> QED
    BY <2>1, NumberedKept
<1>2. ASSUME NEW c \in Sender, Relay(c) PROVE Numbered'
  <2>1. c = "controller" \/ c = "source"
    BY DEF Sender
  <2> QED
    BY <1>2, <2>1, RelayDownNumbered, RelayUpNumbered
<1>3. ASSUME NEW c \in Sender, Callback(c) PROVE Numbered'
  <2>1. UNCHANGED <<toWriter, run, made, skipped>> /\ UNCHANGED writer /\ Up' = Up
    BY <1>3 DEF Callback, source, Up
  <2> QED
    BY <2>1, NumberedKept
<1>4. CASE WriterCallback
  <2>1. UNCHANGED <<toWriter, run, made, skipped>> /\ UNCHANGED writer /\ Up' = Up
    BY <1>4 DEF WriterCallback, source, Up
  <2> QED
    BY <2>1, NumberedKept
<1>5. CASE SourceRejects \/ Iterate
  <2>1. UNCHANGED <<toWriter, run, made, skipped>> /\ UNCHANGED writer /\ Up' = Up
    BY <1>5 DEF SourceRejects, Iterate, source, SourceUnchanged, shared, Up
  <2> QED
    BY <2>1, NumberedKept
<1>6. state # "Dead"
  BY DEF RNext
<1> QED
  BY <1>1, <1>2, <1>3, <1>4, <1>5, <1>6, SourceBeginsNumbered, SourceSaysNumbered, SendDataNumbered,
     WriterObeysNumbered, WriterRejectsNumbered, WriterStoresNumbered, WriterStraysNumbered DEF RNext

-----------------------------------------------------------------------------
(* What the invariant gives. *)

IInv == Present /\ (~misled => Led /\ Numbered)

LEMMA GivesTypes == Present => RTypeOK
<1> SUFFICES ASSUME Present PROVE RTypeOK
  OBVIOUS
<1>1. Four \subseteq State
  BY DEF Four, State
<1>2. S!TypeOK
  <2>1. alive \in BOOLEAN /\ acquiring \in BOOLEAN
    BY DEF Present, SenderTypes
  <2>2. visible \in Four /\ (pending = visible \/ <<visible, pending>> \in S!Chart)
    BY DEF Present, SenderTypes
  <2> QED
    BY <2>1, <2>2 DEF S!TypeOK, Four
<1>3. /\ expected \in State /\ owed \in Int /\ sentActions \in 0..MaxActions
      /\ run \in Nat /\ made \in 0..MaxData
  BY <1>1 DEF Present, SenderTypes
<1>4. inbox \in [Sender -> Seq(Message)] /\ todo \in [Sender -> Seq(Client)]
  BY DEF Present, QueueTypes
<1>5. /\ announced \in Nat /\ m_Client \in Client /\ overlaps \in 0..MaxOverlaps
      /\ misled \in BOOLEAN /\ skipped \subseteq Datum
  BY DEF Present, QueueTypes, SharedTypes
<1>6. toSource \in Seq([action : RunAction]) /\ toWriter \in Seq(Message)
  <2>1. toSource \in Seq(Calls) /\ toWriter \in Seq(Calls \cup Data)
    BY DEF Present, QueueTypes
  <2>2. toWriter \in Seq(Message)
    BY <2>1, MessageTypes
  <2> QED
    BY <2>1, <2>2 DEF Calls
<1>7. state \in State \cup {"Dead"} /\ content \in Seq(Datum) /\ lost \subseteq Datum
      /\ \A p \in DOMAIN disk : p \in Paths /\ disk[p] \in Seq(Datum)
  BY <1>1 DEF Present, WriterTypes
<1>8. file \in [tfile : {"null", "open", "closed"}, id : Nat \cup {-1},
                path : Paths \cup {NoPath}, event : BOOLEAN]
  <2>1. Paths \cup {NoPath} = Nat
    BY DEF Paths, NoPath
  <2> QED
    BY <2>1 DEF Present, WriterTypes, File
<1> QED
  BY <1>2, <1>3, <1>4, <1>5, <1>6, <1>7, <1>8 DEF RTypeOK

LEMMA GivesApart == Led => Apart
BY DEF Led, Whole, Matching, Apart

LEMMA GivesNoHoles == Unbroken => NoHoles
BY DEF Unbroken, Continues, NoHoles

\* Nobody has anything to read: the three have come to the same place.
LEMMA GivesAccounted == Present /\ (~misled => Led) => Accounted
<1> SUFFICES ASSUME Present, Led, toWriter = << >>, toSource = << >>,
                    \A c \in Sender : inbox[c] = << >>, NEW n \in 1..made
             PROVE  [run |-> run, number |-> n] \in Range(Written) \cup lost \cup skipped
  BY DEF Accounted
<1>1. PICK fs, fd, fw, u : Whole(fs, fd, fw, u)
  BY DEF Led
<1>2. Down = << >> /\ Up = << >>
  BY DEF Down, Up, Sender
<1>3. AtSource = 0 /\ AtWriter = 0
  <2>1. todo["controller"] = << >>
    BY <1>2 DEF Present, QueueTypes
  <2>2. << >> # <<"writer">> /\ << >> # <<"source">>
    BY Nothing
  <2> QED
    BY <2>1, <2>2 DEF AtSource, AtWriter
<1>4. fs[0] = fd[0] /\ fw[0] = fd[0] /\ fs[0].runs = run
  <2>1. Len(toSource) = 0 /\ Len(toWriter) = 0
    BY Nothing
  <2> QED
    BY <1>1, <1>3, <2>1 DEF Whole, Ends
<1>5. Carried(toWriter) = {} /\ Carried(Up) = {}
  BY <1>2, EmptyCarried
<1>6. run <= run
  BY DEF Present, SenderTypes
<1> QED
  BY <1>1, <1>4, <1>5, <1>6 DEF Whole, Accounting, Away

-----------------------------------------------------------------------------
(* The theorems. *)

\* The invariant, which is inductive.  Its second part is about a hub that has given every
\* action and every announcement to all of its receivers.
THEOREM Invariant == RSpec => []IInv
<1>1. RInit => IInv
  BY PresentInit, WholeInit, NumberedInit DEF IInv, Led
<1>2. IInv /\ [RNext]_vars => IInv'
  <2>1. ASSUME IInv, RNext PROVE IInv'
    <3>1. Present'
      BY <2>1, LedClean, PresentNext DEF IInv
    <3>2. ~misled' => ~misled
      BY <2>1, MisledStays DEF IInv
    <3>3. ASSUME ~misled' PROVE Led' /\ Numbered'
      <4>1. Present /\ Led /\ Numbered
        BY <2>1, <3>2, <3>3 DEF IInv
      <4>2. Led'
        BY <2>1, <3>1, <3>3, <4>1, LedNext
      <4>3. Apart'
        <5>1. PICK fs, fd, fw, u : Whole(fs, fd, fw, u)'
          BY <4>2 DEF Led
        <5> QED
          BY <5>1 DEF Whole, Matching, Apart
      <4>4. Numbered'
        BY <2>1, <3>1, <3>3, <4>1, <4>3, NumberedNext
      <4> QED
        BY <4>2, <4>4
    <3> QED
      BY <3>1, <3>3 DEF IInv
  <2>2. ASSUME IInv, UNCHANGED vars PROVE IInv'
    <3>1. Present'
      BY <2>2, PresentStutter DEF IInv
    <3>2. UNCHANGED <<toWriter, run, made, skipped>> /\ UNCHANGED writer /\ Up' = Up /\ misled' = misled
      BY <2>2, AllUnchanged DEF source, Up
    <3>3. ASSUME ~misled' PROVE Led' /\ Numbered'
      BY <2>2, <3>2, <3>3, LedStutter, NumberedKept DEF IInv
    <3> QED
      BY <3>1, <3>3 DEF IInv
  <2> QED
    BY <2>1, <2>2
<1> QED
  BY <1>1, <1>2, PTL DEF RSpec

\* Every variable has its type; above all, a controller that has sent its last action is
\* in a state of the chart, and the places of the hub in its loops are those of send.
THEOREM RunFilesTypes == RSpec => []RTypeOK
<1>1. IInv => RTypeOK
  BY GivesTypes DEF IInv
<1> QED
  BY <1>1, Invariant, PTL

\* RunsApart: a file holds the data of one run, whatever the order in which the hub
\* serves the two readers of an action (MessageHandlerServer::send), however many pauses,
\* rejected and repeated actions there are, and whatever data overlapping callbacks keep
\* from the writer, as long as they keep no action and no announcement from anybody.
THEOREM FilesHoldOneRun == RSpec => []RunsApart
<1>1. IInv => RunsApart
  BY GivesApart DEF IInv, Apart, RunsApart
<1> QED
  BY <1>1, Invariant, PTL

\* NoHoles: what the writer stores (FileWritter::onData) of a run is in the order in which
\* the source has made it, and only what the guard of MessageHandlerServer::send has left
\* out is missing between two pieces.
THEOREM FilesHaveNoHoles == RSpec => []NoHoles
<1>1. IInv => NoHoles
  BY GivesNoHoles DEF IInv, Numbered, NoHoles
<1> QED
  BY <1>1, Invariant, PTL

\* Accounted: when everything sent has been read, each piece of data of the run is in its
\* file, has met a writer without one, or has been kept from the writer by that guard.
THEOREM DataAccountedFor == RSpec => []Accounted
<1>1. IInv => Accounted
  BY GivesAccounted DEF IInv
<1> QED
  BY <1>1, Invariant, PTL

-----------------------------------------------------------------------------
(* A hub whose callbacks follow one another. *)

Serial ==
  /\ ~misled /\ skipped = {} /\ overlaps = 0
  /\ \A c \in Sender : todo[c] # << >> => m_Client = c

LEMMA NotToItself ==
  ASSUME Present, NEW c \in Sender, todo[c] # << >>
  PROVE  Head(todo[c]) # c
<1>1. CASE c = "controller"
  <2>1. todo[c] = order \/ todo[c] = <<order[2]>>
    BY <1>1 DEF Present, QueueTypes
  <2>2. order[1] # "controller" /\ order[2] # "controller" /\ Head(order) = order[1]
    BY DEF Present, QueueTypes
  <2>3. Head(<<order[2]>>) = order[2]
    OBVIOUS
  <2> QED
    BY <1>1, <2>1, <2>2, <2>3
<1>2. CASE c = "source"
  <2>1. todo[c] = <<Reader(Head(Up))>>
    BY <1>2 DEF Present, QueueTypes
  <2>2. Reader(Head(Up)) # "source"
    BY DEF Reader
  <2>3. Head(<<Reader(Head(Up))>>) = Reader(Head(Up))
    OBVIOUS
  <2> QED
    BY <1>2, <2>1, <2>2, <2>3
<1> QED
  BY <1>1, <1>2 DEF Sender

\* A callback begins while no other one is under way.
LEMMA BeginsAlone ==
  ASSUME MaxOverlaps = 0, Serial, NEW c, Begin(c)
  PROVE  m_Client' = c /\ overlaps' = 0 /\ \A d \in Sender : todo[d] = << >>
<1>1. /\ m_Client' = c /\ overlaps' <= 0
      /\ overlaps' = IF \E d \in Sender : todo[d] # << >> THEN 1 ELSE 0
  BY DEF Begin, Serial
<1>2. ~(1 <= 0)
  OBVIOUS
<1> QED
  BY <1>1, <1>2

LEMMA SerialKept ==
  ASSUME Serial, UNCHANGED <<todo, m_Client, overlaps, misled, skipped>>
  PROVE  Serial'
BY DEF Serial

LEMMA SerialNext ==
  ASSUME MaxOverlaps = 0, Present, Serial, RNext
  PROVE  Serial'
<1>1. ASSUME NEW a \in RunAction, SendAction(a) PROVE Serial'
  BY <1>1, SerialKept DEF SendAction, shared
<1>2. ASSUME NEW c \in Sender, Callback(c) PROVE Serial'
  <2>1. /\ m_Client' = c /\ overlaps' = 0 /\ \A d \in Sender : todo[d] = << >>
        /\ misled' = misled /\ skipped' = skipped
    BY <1>2, BeginsAlone DEF Callback
  <2>2. \A d \in Sender : d # c => todo'[d] = << >>
    BY <1>2, <2>1 DEF Callback, Present, QueueTypes
  <2> QED
    BY <2>1, <2>2 DEF Serial
<1>3. CASE WriterCallback
  <2>1. /\ overlaps' = 0 /\ \A d \in Sender : todo[d] = << >>
        /\ misled' = misled /\ skipped' = skipped /\ todo' = todo
    BY <1>3, BeginsAlone DEF WriterCallback
  <2> QED
    BY <2>1 DEF Serial
<1>4. ASSUME NEW c \in Sender, Relay(c) PROVE Serial'
  <2>1. m_Client = c /\ Head(todo[c]) # c
    BY <1>4, NotToItself DEF Relay, Serial
  <2>2. /\ UNCHANGED <<misled, skipped>> /\ UNCHANGED <<m_Client, overlaps>>
        /\ todo' = [todo EXCEPT ![c] = Tail(@)]
    BY <1>4, <2>1 DEF Relay, Deliver, LeaveOut
  <2>3. \A d \in Sender : d # c => todo'[d] = todo[d]
    BY <2>2 DEF Present, QueueTypes
  <2> QED
    BY <2>1, <2>2, <2>3 DEF Serial
<1>5. CASE SourceBegins \/ SourceRepeats \/ SourceRejects \/ SourceAnnounces \/ Iterate \/ SendData
  <2>1. SourceUnchanged
    BY <1>5 DEF SourceBegins, SourceRepeats, SourceRejects, SourceAnnounces, Iterate, SendData
  <2> QED
    BY <2>1, SerialKept DEF SourceUnchanged, shared
<1>6. CASE WriterObeys \/ WriterRejects \/ WriterStores \/ WriterStrays
  <2>1. WriterUnchanged
    BY <1>6 DEF WriterObeys, WriterRejects, WriterStores, WriterStrays
  <2> QED
    BY <2>1, SerialKept DEF WriterUnchanged, shared
<1> QED
  BY <1>1, <1>2, <1>3, <1>4, <1>5, <1>6 DEF RNext

\* It is callbacks that overlap, and nothing else, that make the guard of
\* MessageHandlerServer::send leave a receiver out: m_Client is then the sender's own
\* connection throughout the loop.
THEOREM NobodySkipped ==
  ASSUME MaxOverlaps = 0
  PROVE  RSpec => [](~misled /\ skipped = {})
<1>1. RInit => Serial
  BY DEF RInit, Serial, Sender
<1>2. IInv /\ Serial /\ [RNext]_vars => Serial'
  <2>1. ASSUME UNCHANGED vars, Serial PROVE Serial'
    BY <2>1, AllUnchanged, SerialKept
  <2> QED
    BY <2>1, SerialNext DEF IInv
<1>3. Serial => ~misled /\ skipped = {}
  BY DEF Serial
<1> QED
  BY <1>1, <1>2, <1>3, Invariant, PTL DEF RSpec

================================================================================
