----------------------------- MODULE Mpod_proofs -----------------------------
(***************************************************************************)
(* What a call reports has been in the crate, proved for any modules and   *)
(* channels, values, versions, numbers of calls, retries and faults.       *)
(***************************************************************************)
EXTENDS Mpod, FiniteSetTheorems, TLAPS

\* A number is used again when no datagram that has it is on its way any more.
NumbersFresh == pdu = NoPdu => \A d \in net : d.id # (sent + 1) % MaxId

IsQueue(q) == \E S : q \in Seq(S)

\* The parts of the crate somebody or something changes.
Moving == {"sysMainSwitch", "sysStatus", "outputVoltage", "outputSwitch"}

\* What the crate holds has been seen; what nobody changes is all that has been seen; a
\* module has the channels it says, and a status is one.
CratePhase ==
  /\ crate = [o \in Objects |-> crate[o]] /\ seen = [o \in Objects |-> seen[o]]
  /\ \A o \in Objects : crate[o] \in seen[o] /\ (o[1] \notin Moving => seen[o] = {crate[o]})
  /\ \A s \in DOMAIN Modules : crate[Object("moduleDescription", s)] = <<Modules[s]>>
  /\ seen[Object("sysStatus", 0)] \subseteq Statuses

\* A datagram with the number of the request that waits is that request or an answer to
\* it: to a get without an error, what the object has held since it was asked for.
NetPhase ==
  \A d \in net :
    /\ d = [id |-> d.id, tries |-> d.tries, kind |-> d.kind, object |-> d.object,
            value |-> d.value, error |-> d.error]
    /\ pdu # NoPdu /\ d.id = pdu.id =>
         /\ d.object = pdu.object /\ d.kind \in {pdu.op, "answer"}
         /\ d.kind = "answer" /\ pdu.op = "get" /\ ~d.error =>
              /\ d.value # << >> <=> d.object \in Objects
              /\ d.value # << >> => d.value[1] \in seen[d.object]

\* The request that waits is the next one of the call.
PduPhase ==
  pdu # NoPdu =>
    /\ pdu = [id |-> pdu.id, op |-> pdu.op, object |-> pdu.object, value |-> pdu.value, tries |-> pdu.tries]
    /\ call # NoCall /\ todo # << >>
    /\ pdu.op = Head(todo).op /\ pdu.object = Head(todo).object

\* What is left of the requests of a call that asks for one object.
LeftOf(c) ==
  LET o == Asked(c)
      put == Put(o, ValueOf(c.method, c.value))
  IN  {<< >>, <<Get(o)>>, <<put, Get(o)>>, <<Get(o), put, Get(o)>>}

\* Such a call ends with a get, whose answer is what the object has held since.
AskPhase ==
  call # NoCall /\ call.method # "getChannelsInfos" =>
    /\ infos = << >> /\ todo \in LeftOf(call)
    /\ todo = << >> /\ result # << >> => Asked(call) \in Objects /\ result[1] \in seen[Asked(call)]

TrueList(list) ==
  \A i \in 1..Len(list) :
    list[i][2] # << >> => list[i][1] \in Objects /\ list[i][2][1] \in seen[list[i][1]]

\* What a list has asked for and will ask for, in its order.
Place(list, rest, i) == IF i <= Len(list) THEN list[i][1] ELSE rest[i - Len(list)].object

ListedNames == {"outputVoltage", "outputName", "outputMeasurementTerminalVoltage"}

\* The list has got to slot n: the channels of those before are in it once, if the slot
\* has answered, and no others; what comes last is the description of slot n.
Walk(list, rest, skipped, n) ==
  /\ n \in 0..Slots /\ IsQueue(list) /\ IsQueue(rest)
  /\ \A i \in 1..Len(rest) :
       /\ rest[i].op = "get"
       /\ rest[i].object[1] = "moduleDescription" \/ \E k \in 1..5 : rest[i].object[1] = OfChannel[k]
       /\ rest[i].object[1] = "moduleDescription" => i = Len(rest) /\ n < Slots
  /\ n < Slots => rest # << >> /\ rest[Len(rest)].object = Object("moduleDescription", n)
  /\ \A name \in ListedNames, s \in DOMAIN Modules : \A c \in 0..(Modules[s] - 1) :
       LET places == {i \in 1..(Len(list) + Len(rest)) :
                        Place(list, rest, i) = Object(name, Numbered(s, c))}
       IN  /\ \A i, j \in places : i = j
           /\ s >= n => places = {}
           /\ s < n /\ ~skipped => places # {}

ListPhase ==
  call # NoCall /\ call.method = "getChannelsInfos" =>
    /\ TrueList(infos)
    /\ \E n \in 0..Slots : Walk(infos, todo, gaveUp, n)

\* The last reply, with the answer it was made of.
ReplyPhase ==
  reply # NoReply =>
    LET c == reply.call
    IN  /\ call = NoCall
        /\ c.method # "getChannelsInfos" /\ reply.answer # << >> =>
             Asked(c) \in Objects /\ reply.answer[1] \in seen[Asked(c)]
        /\ c.method = "crateIsOn" /\ reply.returned = <<TRUE>> => reply.answer = << <<1>> >>
        /\ c.method = "getCrateStatus" /\ reply.answer # << >> /\ reply.returned # << >> =>
             reply.returned[1] = MibBits(reply.answer[1])
        /\ IsQueue(reply.infos) /\ TrueList(reply.infos)
        /\ c.method = "getChannelsInfos" /\ reply.infos # << >> /\ ~reply.gaveUp =>
             \A name \in ListedNames, ch \in Channels :
               Cardinality({i \in DOMAIN reply.infos : reply.infos[i][1] = Object(name, ch)}) = 1

CallInv == CratePhase /\ NetPhase /\ PduPhase /\ AskPhase /\ ListPhase /\ ReplyPhase

-----------------------------------------------------------------------------
(* Queues. *)

LEMMA QueueIs ==
  ASSUME NEW q, IsQueue(q)
  PROVE  /\ Len(q) \in Nat /\ DOMAIN q = 1..Len(q)
         /\ q = << >> <=> Len(q) = 0
<1>1. PICK S : q \in Seq(S)
  BY DEF IsQueue
<1> QED
  BY <1>1

LEMMA QueueEmpty == IsQueue(<< >>) /\ Len(<< >>) = 0
<1>1. << >> \in Seq({0})
  OBVIOUS
<1> QED
  BY <1>1 DEF IsQueue

LEMMA QueueAppend ==
  ASSUME NEW q, IsQueue(q), NEW e
  PROVE  /\ IsQueue(Append(q, e)) /\ Len(Append(q, e)) = Len(q) + 1
         /\ \A i \in 1..(Len(q) + 1) : Append(q, e)[i] = IF i <= Len(q) THEN q[i] ELSE e
<1>1. PICK S : q \in Seq(S)
  BY DEF IsQueue
<1> DEFINE T == S \cup {e}
<1>2. q \in Seq(T) /\ e \in T
  BY <1>1
<1> HIDE DEF T
<1>3. Append(q, e) \in Seq(T) /\ Len(Append(q, e)) = Len(q) + 1 /\ Len(q) \in Nat
  BY <1>2
<1>4. Append(q, e)[Len(q) + 1] = e /\ \A i \in 1..Len(q) : Append(q, e)[i] = q[i]
  BY <1>2
<1> QED
  BY <1>3, <1>4 DEF IsQueue

LEMMA QueueJoin ==
  ASSUME NEW q, IsQueue(q), NEW r, IsQueue(r)
  PROVE  /\ IsQueue(q \o r) /\ Len(q \o r) = Len(q) + Len(r)
         /\ \A i \in 1..(Len(q) + Len(r)) : (q \o r)[i] = IF i <= Len(q) THEN q[i] ELSE r[i - Len(q)]
<1>1. PICK S : q \in Seq(S)
  BY DEF IsQueue
<1>2. PICK R : r \in Seq(R)
  BY DEF IsQueue
<1> DEFINE T == S \cup R
<1>3. q \in Seq(T) /\ r \in Seq(T)
  BY <1>1, <1>2
<1> HIDE DEF T
<1>4. q \o r \in Seq(T) /\ Len(q \o r) = Len(q) + Len(r) /\ Len(q) \in Nat /\ Len(r) \in Nat
  BY <1>3
<1>5. \A i \in 1..Len(q \o r) : (q \o r)[i] = IF i <= Len(q) THEN q[i] ELSE r[i - Len(q)]
  BY <1>3
<1> QED
  BY <1>4, <1>5 DEF IsQueue

LEMMA QueueTail ==
  ASSUME NEW q, IsQueue(q), q # << >>
  PROVE  /\ IsQueue(Tail(q)) /\ Head(q) = q[1] /\ Len(q) >= 1
         /\ Len(Tail(q)) = Len(q) - 1
         /\ \A i \in 1..(Len(q) - 1) : Tail(q)[i] = q[i + 1]
<1>1. PICK S : q \in Seq(S)
  BY DEF IsQueue
<1>2. Tail(q) \in Seq(S) /\ Len(q) \in Nat \ {0} /\ Len(Tail(q)) = Len(q) - 1
  BY <1>1
<1>3. \A i \in 1..(Len(q) - 1) : Tail(q)[i] = q[i + 1]
  BY <1>1
<1> QED
  BY <1>1, <1>2, <1>3 DEF IsQueue

LEMMA OneOf ==
  ASSUME NEW S, NEW q \in Seq(S), NEW i \in 1..Len(q)
  PROVE  q[i] \in S
OBVIOUS

-----------------------------------------------------------------------------
(* The bits of a status. *)

\* A bit of an octet is what the MIB says of it.
LEMMA BitIs ==
  ASSUME NEW x \in 0..255, NEW k \in 0..7
  PROVE  Bit(x, 7 - k) <=> x % TwoTo[8 - k] >= TwoTo[7 - k]
<1>1. TwoTo[0] = 1 /\ TwoTo[1] = 2 /\ TwoTo[2] = 4 /\ TwoTo[3] = 8 /\ TwoTo[4] = 16
      /\ TwoTo[5] = 32 /\ TwoTo[6] = 64 /\ TwoTo[7] = 128 /\ TwoTo[8] = 256
  BY DEF TwoTo
<1>2. k = 0 \/ k = 1 \/ k = 2 \/ k = 3 \/ k = 4 \/ k = 5 \/ k = 6 \/ k = 7
  OBVIOUS
<1>3. CASE k = 0
  <2>1. (x \div 128) % 2 = 1 <=> x % 256 >= 128
    OBVIOUS
  <2> QED
    BY <1>1, <1>3, <2>1 DEF Bit
<1>4. CASE k = 1
  <2>1. (x \div 64) % 2 = 1 <=> x % 128 >= 64
    OBVIOUS
  <2> QED
    BY <1>1, <1>4, <2>1 DEF Bit
<1>5. CASE k = 2
  <2>1. (x \div 32) % 2 = 1 <=> x % 64 >= 32
    OBVIOUS
  <2> QED
    BY <1>1, <1>5, <2>1 DEF Bit
<1>6. CASE k = 3
  <2>1. (x \div 16) % 2 = 1 <=> x % 32 >= 16
    OBVIOUS
  <2> QED
    BY <1>1, <1>6, <2>1 DEF Bit
<1>7. CASE k = 4
  <2>1. (x \div 8) % 2 = 1 <=> x % 16 >= 8
    OBVIOUS
  <2> QED
    BY <1>1, <1>7, <2>1 DEF Bit
<1>8. CASE k = 5
  <2>1. (x \div 4) % 2 = 1 <=> x % 8 >= 4
    OBVIOUS
  <2> QED
    BY <1>1, <1>8, <2>1 DEF Bit
<1>9. CASE k = 6
  <2>1. (x \div 2) % 2 = 1 <=> x % 4 >= 2
    OBVIOUS
  <2> QED
    BY <1>1, <1>9, <2>1 DEF Bit
<1>10. CASE k = 7
  <2>1. (x \div 1) % 2 = 1 <=> x % 2 >= 1
    OBVIOUS
  <2> QED
    BY <1>1, <1>10, <2>1 DEF Bit
<1> QED
  BY <1>2, <1>3, <1>4, <1>5, <1>6, <1>7, <1>8, <1>9, <1>10

\* The number made of a status has its bits.
LEMMA BitsKept ==
  ASSUME NEW octets \in Seq(0..255)
  PROVE  Number(octets) = MibBits(octets)
<1>1. ASSUME NEW b \in 0..(8 * Len(octets) - 1)
      PROVE  Bit(octets[(b \div 8) + 1], 7 - (b % 8)) <=>
               octets[(b \div 8) + 1] % TwoTo[8 - (b % 8)] >= TwoTo[7 - (b % 8)]
  <2>1. Len(octets) \in Nat /\ (b \div 8) + 1 \in 1..Len(octets) /\ b % 8 \in 0..7
    OBVIOUS
  <2>2. octets[(b \div 8) + 1] \in 0..255
    BY <2>1, OneOf
  <2> QED
    BY <2>1, <2>2, BitIs
<1> QED
  BY <1>1 DEF Number, MibBits

-----------------------------------------------------------------------------
(* The list of the channels. *)

LEMMA Sizes ==
  /\ Slots \in Nat /\ Slots >= 1
  /\ \A s \in DOMAIN Modules : s \in 0..(Slots - 1) /\ Modules[s] \in 0..100
BY ModulesAssumption

\* The parts of a channel that are listed.
LEMMA Parts ==
  /\ OfChannel[1] = "outputName" /\ OfChannel[2] = "outputMeasurementCurrent"
  /\ OfChannel[3] = "outputMeasurementCurrent"
  /\ OfChannel[4] = "outputMeasurementTerminalVoltage" /\ OfChannel[5] = "outputVoltage"
BY DEF OfChannel

\* The number of channels of a description.
Described(answer) == IF answer = << >> THEN 0 ELSE answer[1][1]

LeadsOn(F, n, m) ==
  /\ IsQueue(F)
  /\ Len(F) = 5 * m + IF n + 1 < Slots THEN 1 ELSE 0
  /\ \A i \in 1..(5 * m) :
       F[i] = Get(Object(OfChannel[((i - 1) % 5) + 1], Numbered(n, (i - 1) \div 5)))
  /\ n + 1 < Slots => F[5 * m + 1] = Get(Object("moduleDescription", n + 1))

\* What the description of a slot leads to: five requests for each of its channels, and
\* the description of the next slot.
LEMMA FurtherIs ==
  ASSUME call.method = "getChannelsInfos", NEW n \in 0..(Slots - 1), NEW answer, NEW m \in 0..100,
         m = Described(answer)
  PROVE  LeadsOn(Further(Object("moduleDescription", n), answer), n, m)
<1>3. 5 * m \in Nat
  <2>1. m \in Nat
    OBVIOUS
  <2> QED
    BY <2>1
<1> DEFINE o == Object("moduleDescription", n)
           p == [i \in 1..(5 * m) |->
                   Get(Object(OfChannel[((i - 1) % 5) + 1], Numbered(n, (i - 1) \div 5)))]
           q == IF n + 1 < Slots THEN <<Get(Object("moduleDescription", n + 1))>> ELSE << >>
<1>1. o[1] = "moduleDescription" /\ o[2] = n
  BY DEF Object
<1>2. Further(o, answer) = p \o q
  BY <1>1 DEF Further, Described
<1>4. IsQueue(p) /\ Len(p) = 5 * m
  <2> DEFINE R == {Get(Object(OfChannel[((i - 1) % 5) + 1], Numbered(n, (i - 1) \div 5))) : i \in 1..(5 * m)}
  <2>1. p \in [1..(5 * m) -> R]
    OBVIOUS
  <2> HIDE DEF R, p
  <2>2. p \in Seq(R) /\ Len(p) = 5 * m
    BY <1>3, <2>1
  <2> QED
    BY <2>2 DEF IsQueue
<1>5. \A i \in 1..(5 * m) :
        p[i] = Get(Object(OfChannel[((i - 1) % 5) + 1], Numbered(n, (i - 1) \div 5)))
  OBVIOUS
<1> HIDE DEF p
<1>6. /\ IsQueue(q) /\ Len(q) = IF n + 1 < Slots THEN 1 ELSE 0
      /\ n + 1 < Slots => q[1] = Get(Object("moduleDescription", n + 1))
  <2>1. CASE n + 1 < Slots
    <3>1. q = <<Get(Object("moduleDescription", n + 1))>>
      BY <2>1
    <3> DEFINE g == Get(Object("moduleDescription", n + 1))
    <3> HIDE DEF g
    <3>2. <<g>> \in Seq({g}) /\ Len(<<g>>) = 1 /\ <<g>>[1] = g
      OBVIOUS
    <3> QED
      BY <2>1, <3>1, <3>2 DEF IsQueue, g
  <2>2. CASE ~(n + 1 < Slots)
    BY <2>2, QueueEmpty
  <2> QED
    BY <2>1, <2>2
<1> HIDE DEF q
<1>7. /\ IsQueue(p \o q) /\ Len(p \o q) = Len(p) + Len(q)
      /\ \A i \in 1..(Len(p) + Len(q)) : (p \o q)[i] = IF i <= Len(p) THEN p[i] ELSE q[i - Len(p)]
  BY <1>4, <1>6, QueueJoin
<1>8. \A i \in 1..(5 * m) : (p \o q)[i] = p[i]
  BY <1>3, <1>4, <1>6, <1>7, Sizes
<1>9. n + 1 < Slots => (p \o q)[5 * m + 1] = q[1]
  <2>1. ASSUME n + 1 < Slots PROVE (p \o q)[5 * m + 1] = q[1]
    <3>1. PICK k : k = 5 * m + 1
      OBVIOUS
    <3>2. Len(q) = 1
      BY <1>6, <2>1
    <3>3. k \in 1..(Len(p) + Len(q)) /\ ~(k <= Len(p)) /\ k - Len(p) = 1
      <4>1. PICK w \in Nat : w = 5 * m
        BY <1>3
      <4>2. Len(p) = w /\ k = w + 1
        BY <1>4, <3>1, <4>1
      <4> QED
        BY <3>2, <4>2
    <3> QED
      BY <1>7, <3>1, <3>3
  <2> QED
    BY <2>1
<1> QED
  BY <1>2, <1>4, <1>5, <1>6, <1>7, <1>8, <1>9 DEF LeadsOn

\* From list and rest to list1 and rest1, with the requests of F behind the rest.
Moved(list, rest, F, list1, rest1) ==
  /\ IsQueue(list1) /\ IsQueue(rest1)
  /\ Len(list1) = Len(list) + 1 /\ Len(rest1) = Len(rest) - 1 + Len(F)
  /\ \A i \in 1..(Len(rest) - 1) : rest1[i] = rest[i + 1]
  /\ \A i \in 1..Len(F) : rest1[Len(rest) - 1 + i] = F[i]
  /\ \A i \in 1..(Len(list) + Len(rest)) : Place(list1, rest1, i) = Place(list, rest, i)
  /\ \A i \in 1..Len(F) : Place(list1, rest1, Len(list) + Len(rest) + i) = F[i].object

\* An answer comes for what is next: the places of what was there before stay.
LEMMA PlacesStay ==
  ASSUME NEW list, IsQueue(list), NEW rest, IsQueue(rest), rest # << >>, NEW F, IsQueue(F),
         NEW entry, entry[1] = Head(rest).object
  PROVE  Moved(list, rest, F, Append(list, entry), Tail(rest) \o F)
<1> DEFINE list1 == Append(list, entry)
           tail == Tail(rest)
           rest1 == tail \o F
<1>1. /\ IsQueue(list1) /\ Len(list1) = Len(list) + 1 /\ Len(list) \in Nat
      /\ \A i \in 1..(Len(list) + 1) : list1[i] = IF i <= Len(list) THEN list[i] ELSE entry
  BY QueueAppend, QueueIs
<1>2. /\ IsQueue(tail) /\ Len(tail) = Len(rest) - 1 /\ Len(rest) \in Nat /\ Len(rest) >= 1
      /\ \A i \in 1..(Len(rest) - 1) : tail[i] = rest[i + 1]
      /\ Head(rest) = rest[1]
  BY QueueTail, QueueIs
<1>3. Len(F) \in Nat
  BY QueueIs
<1> HIDE DEF list1, tail
<1>4. /\ IsQueue(rest1) /\ Len(rest1) = Len(tail) + Len(F)
      /\ \A i \in 1..(Len(tail) + Len(F)) : rest1[i] = IF i <= Len(tail) THEN tail[i] ELSE F[i - Len(tail)]
  BY <1>2, QueueJoin
<1> HIDE DEF rest1
<1>5. \A i \in 1..(Len(rest) - 1) : rest1[i] = rest[i + 1]
  BY <1>2, <1>3, <1>4
<1>6. \A i \in 1..Len(F) : rest1[Len(rest) - 1 + i] = F[i]
  <2>1. ASSUME NEW i \in 1..Len(F) PROVE rest1[Len(rest) - 1 + i] = F[i]
    <3>1. PICK k : k = Len(tail) + i
      OBVIOUS
    <3>2. k \in 1..(Len(tail) + Len(F)) /\ ~(k <= Len(tail)) /\ k - Len(tail) = i /\ k = Len(rest) - 1 + i
      BY <1>2, <1>3, <3>1
    <3>3. rest1[k] = F[k - Len(tail)]
      BY <1>4, <3>2
    <3> QED
      BY <3>2, <3>3
  <2> QED
    BY <2>1
<1>7. \A i \in 1..(Len(list) + Len(rest)) : Place(list1, rest1, i) = Place(list, rest, i)
  <2>1. ASSUME NEW i \in 1..(Len(list) + Len(rest)) PROVE Place(list1, rest1, i) = Place(list, rest, i)
    <3>1. CASE i <= Len(list)
      BY <1>1, <1>2, <3>1 DEF Place
    <3>2. CASE i = Len(list) + 1
      <4>1. list1[i][1] = entry[1] /\ i - Len(list) = 1 /\ ~(i <= Len(list)) /\ i <= Len(list1)
        BY <1>1, <3>2
      <4> QED
        BY <1>2, <4>1 DEF Place
    <3>3. CASE i > Len(list) + 1
      <4> DEFINE j == i - Len(list) - 1
      <4>1. j \in 1..(Len(rest) - 1) /\ i - Len(list1) = j /\ i - Len(list) = j + 1
        BY <1>1, <1>2, <3>3
      <4> HIDE DEF j
      <4>2. rest1[j] = rest[j + 1]
        BY <1>5, <4>1
      <4>3. ~(i <= Len(list)) /\ ~(i <= Len(list1))
        BY <1>1, <3>3
      <4> QED
        BY <4>1, <4>2, <4>3 DEF Place
    <3> QED
      BY <1>1, <1>2, <3>1, <3>2, <3>3
  <2> QED
    BY <2>1
<1>8. \A i \in 1..Len(F) : Place(list1, rest1, Len(list) + Len(rest) + i) = F[i].object
  <2>1. ASSUME NEW i \in 1..Len(F)
        PROVE  Place(list1, rest1, Len(list) + Len(rest) + i) = F[i].object
    <3>1. PICK k : k = Len(list) + Len(rest) + i
      OBVIOUS
    <3>2. ~(k <= Len(list1)) /\ k - Len(list1) = Len(rest) - 1 + i
      BY <1>1, <1>2, <1>3, <3>1
    <3> QED
      BY <1>6, <3>1, <3>2 DEF Place
  <2> QED
    BY <2>1
<1> QED
  BY <1>1, <1>2, <1>4, <1>5, <1>6, <1>7, <1>8 DEF list1, rest1, tail, Moved

\* Where a part of a channel comes among the five that are asked for.
Turn5(name) ==
  IF name = "outputName" THEN 1 ELSE IF name = "outputVoltage" THEN 5 ELSE 4

LEMMA TurnOf ==
  ASSUME NEW name \in ListedNames, NEW k \in 1..5
  PROVE  /\ Turn5(name) \in 1..5 /\ OfChannel[Turn5(name)] = name
         /\ OfChannel[k] = name => k = Turn5(name)
         /\ name # "moduleDescription" /\ OfChannel[k] # "moduleDescription"
<1>1. k = 1 \/ k = 2 \/ k = 3 \/ k = 4 \/ k = 5
  OBVIOUS
<1> QED
  BY <1>1, Parts DEF ListedNames, Turn5

SamePlace(n, i, s, c, name) ==
  Object(OfChannel[((i - 1) % 5) + 1], Numbered(n, (i - 1) \div 5)) = Object(name, Numbered(s, c))
    <=> s = n /\ i = 5 * c + Turn5(name)

\* Among the requests for the channels of slot n, a channel is at one place.
LEMMA OnePlace ==
  ASSUME NEW n \in Nat, NEW i \in 1..500, NEW s \in Nat, NEW c \in 0..99, NEW name \in ListedNames
  PROVE  SamePlace(n, i, s, c, name)
<1> DEFINE k == ((i - 1) % 5) + 1
           d == (i - 1) \div 5
<1>1. k \in 1..5 /\ d \in 0..99 /\ i = 5 * d + k
  OBVIOUS
<1> HIDE DEF k, d
<1>2. Turn5(name) \in 1..5 /\ (OfChannel[k] = name <=> k = Turn5(name))
  BY <1>1, TurnOf
<1>3. Object(OfChannel[k], Numbered(n, d)) = Object(name, Numbered(s, c))
        <=> OfChannel[k] = name /\ Numbered(n, d) = Numbered(s, c)
  BY DEF Object
<1>4. Numbered(n, d) = Numbered(s, c) <=> s = n /\ d = c
  <2>1. Numbered(n, d) = Numbered(s, c) => n = s /\ d = c
    BY <1>1 DEF Numbered
  <2> QED
    BY <2>1
<1>5. PICK t \in 1..5 : t = Turn5(name)
  BY <1>2
<1>6. i = 5 * c + t <=> d = c /\ k = t
  BY <1>1, <1>5
<1> QED
  BY <1>2, <1>3, <1>4, <1>5, <1>6 DEF k, d, SamePlace

LEMMA ChannelOf ==
  ASSUME NEW w \in 0..100, NEW c \in 0..(w - 1)
  PROVE  c \in 0..99
OBVIOUS

LEMMA RequestOf ==
  ASSUME NEW w \in 0..100, NEW i \in 1..(5 * w)
  PROVE  i \in 1..500
OBVIOUS

\* An answer that is not the description of a slot.
LEMMA WalkChannel ==
  ASSUME NEW list, NEW rest, NEW skipped, NEW n, Walk(list, rest, skipped, n), rest # << >>,
         NEW answer, NEW none \in BOOLEAN, Head(rest).object[1] # "moduleDescription"
  PROVE  Walk(Append(list, <<Head(rest).object, answer>>),
              Tail(rest) \o Further(Head(rest).object, answer), skipped \/ none, n)
<1> DEFINE entry == <<Head(rest).object, answer>>
           list1 == Append(list, entry)
           rest1 == Tail(rest) \o Further(Head(rest).object, answer)
<1>1. Further(Head(rest).object, answer) = << >> /\ entry[1] = Head(rest).object
  BY DEF Further
<1>2. IsQueue(list) /\ IsQueue(rest) /\ n \in 0..Slots
  BY DEF Walk
<1>3. /\ Len(list) \in Nat /\ Len(rest) \in Nat /\ Len(rest) >= 1 /\ Head(rest) = rest[1]
  BY <1>2, QueueIs, QueueTail
<1> HIDE DEF entry
<1>4. /\ IsQueue(list1) /\ IsQueue(rest1)
      /\ Len(list1) = Len(list) + 1 /\ Len(rest1) = Len(rest) - 1
      /\ \A i \in 1..(Len(rest) - 1) : rest1[i] = rest[i + 1]
      /\ \A i \in 1..(Len(list) + Len(rest)) : Place(list1, rest1, i) = Place(list, rest, i)
  <2>1. IsQueue(<< >>) /\ Len(<< >>) = 0
    BY QueueEmpty
  <2>2. Moved(list, rest, << >>, list1, rest1)
    BY <1>1, <1>2, <2>1, PlacesStay
  <2> HIDE DEF list1, rest1
  <2> QED
    BY <1>3, <2>1, <2>2 DEF Moved
<1> HIDE DEF list1, rest1
<1>5. \A i \in 1..Len(rest1) :
        /\ rest1[i].op = "get"
        /\ rest1[i].object[1] = "moduleDescription" \/ \E k \in 1..5 : rest1[i].object[1] = OfChannel[k]
        /\ rest1[i].object[1] = "moduleDescription" => i = Len(rest1) /\ n < Slots
  <2>1. ASSUME NEW i \in 1..Len(rest1)
        PROVE  /\ rest1[i].op = "get"
               /\ rest1[i].object[1] = "moduleDescription" \/ \E k \in 1..5 : rest1[i].object[1] = OfChannel[k]
               /\ rest1[i].object[1] = "moduleDescription" => i = Len(rest1) /\ n < Slots
    <3>1. i \in 1..(Len(rest) - 1) /\ i + 1 \in 1..Len(rest) /\ rest1[i] = rest[i + 1]
      BY <1>3, <1>4
    <3>2. /\ rest[i + 1].op = "get"
          /\ \/ rest[i + 1].object[1] = "moduleDescription"
             \/ \E k \in 1..5 : rest[i + 1].object[1] = OfChannel[k]
          /\ rest[i + 1].object[1] = "moduleDescription" => i + 1 = Len(rest) /\ n < Slots
      BY <3>1 DEF Walk
    <3>3. i + 1 = Len(rest) => i = Len(rest1)
      BY <1>3, <1>4
    <3> QED
      BY <3>1, <3>2, <3>3
  <2> QED
    BY <2>1
<1>6. n < Slots => rest1 # << >> /\ rest1[Len(rest1)].object = Object("moduleDescription", n)
  <2>1. ASSUME n < Slots PROVE rest1 # << >> /\ rest1[Len(rest1)].object = Object("moduleDescription", n)
    <3>1. rest[Len(rest)].object = Object("moduleDescription", n)
      BY <2>1 DEF Walk
    <3>2. Len(rest) # 1
      BY <1>3, <3>1 DEF Object
    <3>3. Len(rest1) \in 1..(Len(rest) - 1) /\ Len(rest1) + 1 = Len(rest)
      BY <1>3, <1>4, <3>2
    <3>4. rest1[Len(rest1)] = rest[Len(rest)]
      BY <1>4, <3>3
    <3>5. rest1 # << >>
      BY <1>4, <3>3, QueueIs
    <3> QED
      BY <3>1, <3>4, <3>5
  <2> QED
    BY <2>1
<1>7. ASSUME NEW name \in ListedNames, NEW s \in DOMAIN Modules, NEW c \in 0..(Modules[s] - 1)
      PROVE  LET places == {i \in 1..(Len(list1) + Len(rest1)) :
                              Place(list1, rest1, i) = Object(name, Numbered(s, c))}
             IN  /\ \A i, j \in places : i = j
                 /\ s >= n => places = {}
                 /\ s < n /\ ~(skipped \/ none) => places # {}
  <2> DEFINE o == Object(name, Numbered(s, c))
             old == {i \in 1..(Len(list) + Len(rest)) : Place(list, rest, i) = o}
             places == {i \in 1..(Len(list1) + Len(rest1)) : Place(list1, rest1, i) = o}
  <2>1. /\ \A i, j \in old : i = j
        /\ s >= n => old = {}
        /\ s < n /\ ~skipped => old # {}
    BY DEF Walk
  <2>2. Len(list1) + Len(rest1) = Len(list) + Len(rest)
    BY <1>3, <1>4
  <2> HIDE DEF o
  <2>3. places = old
    BY <1>4, <2>2
  <2> HIDE DEF old, places
  <2>4. /\ \A i, j \in places : i = j
        /\ s >= n => places = {}
        /\ s < n /\ ~(skipped \/ none) => places # {}
    BY <2>1, <2>3
  <2> QED
    BY <2>4 DEF places, o
<1>8. Walk(list1, rest1, skipped \/ none, n)
  BY <1>2, <1>4, <1>5, <1>6, <1>7 DEF Walk
<1> QED
  BY <1>8 DEF list1, rest1, entry

LEMMA GetIs ==
  ASSUME NEW o, NEW name, NEW k
  PROVE  /\ Get(o).op = "get" /\ Get(o).object = o
         /\ Object(name, k)[1] = name /\ Object(name, k)[2] = k
BY DEF Get, Object

\* The description of slot n, or none: the list goes on with its channels and slot n + 1.
LEMMA WalkSlot ==
  ASSUME call.method = "getChannelsInfos",
         NEW list, NEW rest, NEW skipped, NEW n, Walk(list, rest, skipped, n), rest # << >>,
         NEW answer, NEW none \in BOOLEAN, Head(rest).object[1] = "moduleDescription",
         \/ answer = << >> /\ (none \/ n \notin DOMAIN Modules)
         \/ answer # << >> /\ n \in DOMAIN Modules /\ answer[1] = <<Modules[n]>>
  PROVE  n \in 0..(Slots - 1) /\ Walk(Append(list, <<Head(rest).object, answer>>),
              Tail(rest) \o Further(Head(rest).object, answer), skipped \/ none, n + 1)
<1> DEFINE entry == <<Head(rest).object, answer>>
           F == Further(Head(rest).object, answer)
           list1 == Append(list, entry)
           rest1 == Tail(rest) \o F
           m == Described(answer)
<1>1. IsQueue(list) /\ IsQueue(rest) /\ n \in 0..Slots
  BY DEF Walk
<1>2. /\ Len(list) \in Nat /\ Len(rest) \in Nat /\ Len(rest) >= 1 /\ Head(rest) = rest[1]
  BY <1>1, QueueIs, QueueTail
<1>3. Len(rest) = 1 /\ n \in 0..(Slots - 1) /\ n + 1 \in 0..Slots
  <2>1. 1 = Len(rest) /\ n < Slots
    <3>1. 1 \in 1..Len(rest) /\ rest[1].object[1] = "moduleDescription"
      BY <1>2
    <3>2. \A i \in 1..Len(rest) : rest[i].object[1] = "moduleDescription" => i = Len(rest) /\ n < Slots
      BY DEF Walk
    <3> QED
      BY <3>1, <3>2
  <2> QED
    BY <1>1, <2>1, Sizes
<1>4. Head(rest).object = Object("moduleDescription", n)
  BY <1>2, <1>3, Sizes DEF Walk
<1>5. m \in 0..100 /\ (n \in DOMAIN Modules /\ ~none => m = Modules[n])
  <2>1. CASE answer = << >> /\ (none \/ n \notin DOMAIN Modules)
    BY <2>1 DEF Described
  <2>2. CASE answer # << >> /\ n \in DOMAIN Modules /\ answer[1] = <<Modules[n]>>
    BY <2>2, Sizes DEF Described
  <2> QED
    BY <2>1, <2>2
<1>7. entry[1] = Head(rest).object
  OBVIOUS
<1>8. /\ IsQueue(F)
      /\ Len(F) = 5 * m + IF n + 1 < Slots THEN 1 ELSE 0
      /\ \A i \in 1..(5 * m) :
           F[i] = Get(Object(OfChannel[((i - 1) % 5) + 1], Numbered(n, (i - 1) \div 5)))
      /\ n + 1 < Slots => F[5 * m + 1] = Get(Object("moduleDescription", n + 1))
  <2> HIDE DEF m
  <2>1. m = Described(answer)
    BY DEF m
  <2>2. LeadsOn(Further(Object("moduleDescription", n), answer), n, m)
    BY <1>3, <1>5, <2>1, FurtherIs
  <2>3. LeadsOn(F, n, m)
    BY <1>4, <2>2
  <2> HIDE DEF F
  <2> QED
    BY <2>3 DEF LeadsOn
<1> HIDE DEF m, F, entry
<1>9. Moved(list, rest, F, list1, rest1)
  BY <1>1, <1>7, <1>8, PlacesStay
<1> HIDE DEF list1, rest1
<1>10. PICK f \in Nat : f = 5 * m
  BY <1>5
<1>11. /\ IsQueue(list1) /\ IsQueue(rest1) /\ Len(F) \in Nat
       /\ Len(list1) = Len(list) + 1 /\ Len(rest1) = Len(F)
       /\ \A i \in 1..Len(F) : rest1[i] = F[i]
       /\ \A i \in 1..(Len(list) + 1) : Place(list1, rest1, i) = Place(list, rest, i)
       /\ \A i \in 1..Len(F) : Place(list1, rest1, Len(list) + 1 + i) = F[i].object
  <2>1. Len(F) \in Nat
    BY <1>8, QueueIs
  <2>2. \A i \in 1..Len(F) : rest1[i] = F[i]
    <3>1. ASSUME NEW i \in 1..Len(F) PROVE rest1[i] = F[i]
      <4>1. Len(rest) - 1 + i = i
        BY <1>3, <2>1
      <4> QED
        BY <1>9, <4>1 DEF Moved
    <3> QED
      BY <3>1
  <2> QED
    BY <1>3, <1>9, <2>1, <2>2 DEF Moved
<1>12. n + 1 < Slots => Len(F) = f + 1
  BY <1>8, <1>10
<1>13. ~(n + 1 < Slots) => Len(F) = f
  BY <1>8, <1>10
<1>14. /\ \A i \in 1..f :
            F[i] = Get(Object(OfChannel[((i - 1) % 5) + 1], Numbered(n, (i - 1) \div 5)))
       /\ n + 1 < Slots => F[f + 1] = Get(Object("moduleDescription", n + 1))
  BY <1>8, <1>10
<1>15. ASSUME NEW i \in 1..Len(rest1)
       PROVE  /\ rest1[i].op = "get"
              /\ rest1[i].object[1] = "moduleDescription" \/ \E k \in 1..5 : rest1[i].object[1] = OfChannel[k]
              /\ rest1[i].object[1] = "moduleDescription" => i = Len(rest1) /\ n + 1 < Slots
  <2>1. rest1[i] = F[i] /\ i \in 1..Len(F)
    BY <1>11
  <2>2. CASE i \in 1..f
    <3>1. PICK k \in 1..5 : k = ((i - 1) % 5) + 1
      BY <2>2
    <3>2. PICK d : d = (i - 1) \div 5
      OBVIOUS
    <3>4. F[i] = Get(Object(OfChannel[k], Numbered(n, d)))
      BY <1>14, <2>2, <3>1, <3>2
    <3>5. F[i].op = "get" /\ F[i].object[1] = OfChannel[k]
      BY <3>4, GetIs
    <3>3. "outputName" \in ListedNames
      BY DEF ListedNames
    <3> QED
      BY <2>1, <3>1, <3>3, <3>5, TurnOf
  <2>3. CASE i \notin 1..f
    <3>1. n + 1 < Slots /\ i = f + 1 /\ i = Len(rest1)
      BY <1>11, <1>12, <1>13, <2>1, <2>3
    <3>2. F[i].op = "get" /\ F[i].object[1] = "moduleDescription"
      BY <1>14, <3>1 DEF Get, Object
    <3> QED
      BY <2>1, <3>1, <3>2
  <2> QED
    BY <2>2, <2>3
<1>16. n + 1 < Slots => rest1 # << >> /\ rest1[Len(rest1)].object = Object("moduleDescription", n + 1)
  <2>1. ASSUME n + 1 < Slots
        PROVE  rest1 # << >> /\ rest1[Len(rest1)].object = Object("moduleDescription", n + 1)
    <3>1. Len(rest1) = f + 1 /\ f + 1 \in 1..Len(F)
      BY <1>11, <1>12, <2>1
    <3>2. rest1[f + 1] = Get(Object("moduleDescription", n + 1))
      BY <1>11, <1>14, <2>1, <3>1
    <3>3. rest1 # << >>
      BY <1>11, <3>1, QueueIs
    <3> QED
      BY <3>1, <3>2, <3>3 DEF Get
  <2> QED
    BY <2>1
<1>17. ASSUME NEW name \in ListedNames, NEW s \in DOMAIN Modules, NEW c \in 0..(Modules[s] - 1)
       PROVE  LET places == {i \in 1..(Len(list1) + Len(rest1)) :
                               Place(list1, rest1, i) = Object(name, Numbered(s, c))}
              IN  /\ \A i, j \in places : i = j
                  /\ s >= n + 1 => places = {}
                  /\ s < n + 1 /\ ~(skipped \/ none) => places # {}
  <2> DEFINE o == Object(name, Numbered(s, c))
             old == {i \in 1..(Len(list) + Len(rest)) : Place(list, rest, i) = o}
             places == {i \in 1..(Len(list1) + Len(rest1)) : Place(list1, rest1, i) = o}
  <2>1. /\ \A i, j \in old : i = j
        /\ s >= n => old = {}
        /\ s < n /\ ~skipped => old # {}
    BY DEF Walk
  <2>2. s \in Nat /\ c \in 0..99 /\ n \in Nat /\ Modules[s] \in 0..100
    <3>1. s \in 0..(Slots - 1) /\ Slots \in Nat
      BY Sizes
    <3>2. PICK w \in 0..100 : w = Modules[s]
      BY Sizes
    <3>3. c \in 0..(w - 1)
      BY <3>2
    <3> QED
      <4>1. s \in Nat
        BY <3>1
      <4>2. c \in 0..99
        BY <3>2, <3>3, ChannelOf
      <4>3. n \in Nat
        BY <1>1, <3>1
      <4> QED
        BY <3>2, <4>1, <4>2, <4>3
  <2>3. PICK t \in 1..5 : t = Turn5(name)
    BY TurnOf
  <2>4. ASSUME NEW i \in 1..Len(F)
        PROVE  F[i].object = o <=> s = n /\ i \in 1..f /\ i = 5 * c + t
    <3>1. CASE i \in 1..f
      <4>1. F[i].object = Object(OfChannel[((i - 1) % 5) + 1], Numbered(n, (i - 1) \div 5))
        BY <1>14, <3>1, GetIs
      <4>2. i \in 1..(5 * m)
        BY <1>10, <3>1
      <4>3. Object(OfChannel[((i - 1) % 5) + 1], Numbered(n, (i - 1) \div 5)) = Object(name, Numbered(s, c))
              <=> s = n /\ i = 5 * c + Turn5(name)
        <5>1. PICK w \in 0..100 : w = m
          BY <1>5
        <5>2. i \in 1..500
          <6>1. i \in 1..(5 * w)
            BY <4>2, <5>1
          <6> QED
            BY <6>1, RequestOf
        <5>3. SamePlace(n, i, s, c, name)
          BY <2>2, <5>2, OnePlace
        <5> QED
          BY <5>3 DEF SamePlace
      <4> QED
        BY <2>3, <3>1, <4>1, <4>3
    <3>2. CASE i \notin 1..f
      <4>1. n + 1 < Slots /\ i = f + 1
        BY <1>11, <1>12, <1>13, <3>2
      <4>2. F[i].object = Object("moduleDescription", n + 1)
        BY <1>14, <4>1 DEF Get
      <4>3. name # "moduleDescription"
        BY DEF ListedNames
      <4> QED
        BY <3>2, <4>2, <4>3 DEF Object
    <3> QED
      BY <3>1, <3>2
  <2> HIDE DEF o
  <2>5. ASSUME NEW i \in places
        PROVE  i \in old \/ (s = n /\ i = Len(list) + 1 + (5 * c + t))
    <3>1. CASE i \in 1..(Len(list) + 1)
      BY <1>3, <1>11, <3>1
    <3>2. CASE i \notin 1..(Len(list) + 1)
      <4> DEFINE j == i - (Len(list) + 1)
      <4>1. j \in 1..Len(F) /\ i = Len(list) + 1 + j
        BY <1>2, <1>11, <3>2
      <4> HIDE DEF j
      <4>2. F[j].object = o
        BY <1>11, <4>1
      <4> QED
        BY <2>4, <4>1, <4>2
    <3> QED
      BY <3>1, <3>2
  <2>6. ASSUME NEW i \in old PROVE i \in places
    BY <1>2, <1>3, <1>11
  <2>7. s = n /\ ~none => places # {}
    <3>1. ASSUME s = n, ~none PROVE places # {}
      <4>1. m = Modules[s] /\ f = 5 * m
        BY <1>5, <1>10, <3>1
      <4> DEFINE j == 5 * c + t
      <4>2. j \in 1..f /\ j \in 1..Len(F)
        <5>1. PICK w \in 0..100 : w = Modules[s]
          BY <2>2
        <5>2. f = 5 * w /\ c \in 0..(w - 1)
          BY <4>1, <5>1
        <5>3. j \in 1..f
          BY <2>2, <2>3, <5>1, <5>2
        <5> QED
          BY <1>10, <1>11, <1>12, <1>13, <5>3
      <4>3. F[j].object = o
        BY <2>4, <3>1, <4>2
      <4> HIDE DEF j
      <4>4. Place(list1, rest1, Len(list) + 1 + j) = o
        BY <1>11, <4>2, <4>3
      <4>5. Len(list) + 1 + j \in 1..(Len(list1) + Len(rest1))
        BY <1>2, <1>11, <4>2
      <4> QED
        BY <4>4, <4>5
    <3> QED
      BY <3>1
  <2> HIDE DEF old, places
  <2>8. \A i, j \in places : i = j
    BY <2>1, <2>2, <2>5
  <2>9. s >= n + 1 => places = {}
    BY <2>1, <2>2, <2>5
  <2>10. s < n + 1 /\ ~(skipped \/ none) => places # {}
    BY <2>1, <2>2, <2>6, <2>7
  <2> QED
    BY <2>8, <2>9, <2>10 DEF places, o
<1>18. Walk(list1, rest1, skipped \/ none, n + 1)
  BY <1>3, <1>11, <1>15, <1>16, <1>17 DEF Walk
<1> QED
  BY <1>3, <1>18 DEF list1, rest1, entry, F

\* The list begins with the description of slot 0.
LEMMA WalkBegins == Walk(<< >>, <<Get(Object("moduleDescription", 0))>>, FALSE, 0)
<1> DEFINE g == Get(Object("moduleDescription", 0))
<1>1. g.op = "get" /\ g.object = Object("moduleDescription", 0) /\ g.object[1] = "moduleDescription"
  BY GetIs
<1> HIDE DEF g
<1>2. <<g>> \in Seq({g}) /\ Len(<<g>>) = 1 /\ <<g>>[1] = g /\ <<g>> # << >>
  OBVIOUS
<1>3. IsQueue(<<g>>) /\ IsQueue(<< >>) /\ Len(<< >>) = 0
  BY <1>2, QueueEmpty DEF IsQueue
<1>4. 0 \in 0..Slots /\ 0 < Slots
  BY Sizes
<1>5. ASSUME NEW name \in ListedNames, NEW s \in DOMAIN Modules, NEW c \in 0..(Modules[s] - 1)
      PROVE  LET places == {i \in 1..(Len(<< >>) + Len(<<g>>)) :
                              Place(<< >>, <<g>>, i) = Object(name, Numbered(s, c))}
             IN  /\ \A i, j \in places : i = j
                 /\ s >= 0 => places = {}
                 /\ s < 0 /\ ~FALSE => places # {}
  <2> DEFINE o == Object(name, Numbered(s, c))
             places == {i \in 1..(Len(<< >>) + Len(<<g>>)) : Place(<< >>, <<g>>, i) = o}
  <2>1. g.object # o
    <3>1. name # "moduleDescription"
      BY DEF ListedNames
    <3> QED
      BY <1>1, <3>1, GetIs
  <2> HIDE DEF o
  <2>2. ASSUME NEW i \in places PROVE FALSE
    <3>1. i = 1 /\ ~(i <= Len(<< >>)) /\ i - Len(<< >>) = 1
      BY <1>2, <1>3
    <3>2. Place(<< >>, <<g>>, i) = g.object
      BY <1>2, <3>1 DEF Place
    <3> QED
      BY <2>1, <3>2
  <2> HIDE DEF places
  <2>3. places = {} /\ ~(s < 0)
    BY <2>2, Sizes
  <2> QED
    BY <2>3 DEF places, o
<1>6. ASSUME NEW i \in 1..Len(<<g>>)
      PROVE  /\ <<g>>[i].op = "get"
             /\ <<g>>[i].object[1] = "moduleDescription" \/ \E k \in 1..5 : <<g>>[i].object[1] = OfChannel[k]
             /\ <<g>>[i].object[1] = "moduleDescription" => i = Len(<<g>>) /\ 0 < Slots
  <2>1. i = 1
    BY <1>2
  <2> QED
    BY <1>1, <1>2, <1>4, <2>1
<1>7. 0 < Slots => <<g>> # << >> /\ <<g>>[Len(<<g>>)].object = Object("moduleDescription", 0)
  BY <1>1, <1>2
<1>8. Walk(<< >>, <<g>>, FALSE, 0)
  BY <1>3, <1>4, <1>5, <1>6, <1>7 DEF Walk
<1> QED
  BY <1>8 DEF g

-----------------------------------------------------------------------------
(* The crate. *)

LEMMA ObjectsAre ==
  /\ Object("sysStatus", 0) \in Objects
  /\ \A s : Object("moduleDescription", s) \in Objects <=> s \in DOMAIN Modules
  /\ \A name \in {"sysMainSwitch", "sysStatus", "outputNumber", "moduleNumber"} : Object(name, 0) \in Crate
<1>1. \A name \in {"sysMainSwitch", "sysStatus", "outputNumber", "moduleNumber"} : Object(name, 0) \in Crate
  BY DEF Crate
<1>2. Object("sysStatus", 0) \in Objects
  BY <1>1 DEF Objects
<1>3. ASSUME NEW s PROVE Object("moduleDescription", s) \in Objects <=> s \in DOMAIN Modules
  <2>1. Object("moduleDescription", s) \notin Crate /\ Object("moduleDescription", s) \notin Channel
    BY DEF Object, Crate, Channel
  <2>2. Object("moduleDescription", s) \in {Object("moduleDescription", t) : t \in DOMAIN Modules}
          <=> s \in DOMAIN Modules
    BY DEF Object
  <2> QED
    BY <2>1, <2>2 DEF Objects
<1> QED
  BY <1>1, <1>2, <1>3

\* The voltages are those of the channels.
LEMMA VoltageOf ==
  ASSUME NEW o \in Objects, o[1] = "outputVoltage"
  PROVE  \E s \in DOMAIN Modules : \E c \in 0..(Modules[s] - 1) : o = Object("outputVoltage", Numbered(s, c))
<1>1. o \notin Crate /\ o \notin {Object("moduleDescription", s) : s \in DOMAIN Modules}
  BY DEF Crate, Object
<1>2. o \in Channel
  BY <1>1 DEF Objects
<1>3. PICK ch \in Channels, name \in {"outputVoltage", "outputSwitch", "outputName", "outputGroup",
                        "outputMeasurementTerminalVoltage", "outputMeasurementCurrent"} : o = Object(name, ch)
  BY <1>2 DEF Channel
<1>4. o = Object("outputVoltage", ch)
  BY <1>3 DEF Object
<1>5. PICK s \in DOMAIN Modules : ch \in {Numbered(s, c) : c \in 0..(Modules[s] - 1)}
  BY DEF Channels
<1>6. PICK c \in 0..(Modules[s] - 1) : ch = Numbered(s, c)
  BY <1>5
<1> QED
  BY <1>4, <1>6

\* From the step to the next state every object has been seen to hold more.
Grown == \A o \in Objects : seen[o] \subseteq seen'[o]

\* An object takes another value.
LEMMA ChangeIs ==
  ASSUME CratePhase, NEW o, NEW v, Change(o, v),
         o[1] \in Moving, o[1] = "sysStatus" => v \in Statuses
  PROVE  CratePhase' /\ Grown
<1>1. /\ crate' = [p \in Objects |-> IF p = o THEN v ELSE crate[p]]
      /\ seen' = [p \in Objects |-> IF p = o THEN seen[p] \cup {v} ELSE seen[p]]
  BY DEF CratePhase, Change
<1>2. Grown
  BY <1>1 DEF Grown
<1>3. \A p \in Objects : crate'[p] \in seen'[p] /\ (p[1] \notin Moving => seen'[p] = {crate'[p]})
  BY <1>1 DEF CratePhase
<1>4. \A s \in DOMAIN Modules : crate'[Object("moduleDescription", s)] = <<Modules[s]>>
  <2>1. ASSUME NEW s \in DOMAIN Modules PROVE crate'[Object("moduleDescription", s)] = <<Modules[s]>>
    <3>1. Object("moduleDescription", s) \in Objects /\ Object("moduleDescription", s)[1] = "moduleDescription"
      BY ObjectsAre, GetIs
    <3>2. Object("moduleDescription", s) # o
      BY <3>1 DEF Moving
    <3> QED
      BY <1>1, <3>1, <3>2 DEF CratePhase
  <2> QED
    BY <2>1
<1>5. seen'[Object("sysStatus", 0)] \subseteq Statuses
  <2>1. Object("sysStatus", 0) \in Objects /\ Object("sysStatus", 0)[1] = "sysStatus"
    BY ObjectsAre, GetIs
  <2> QED
    BY <1>1, <2>1 DEF CratePhase
<1>6. crate' = [p \in Objects |-> crate'[p]] /\ seen' = [p \in Objects |-> seen'[p]]
  BY <1>1
<1> QED
  BY <1>2, <1>3, <1>4, <1>5, <1>6 DEF CratePhase

\* From now on counts what an object holds; what nobody changes is as before.
LEMMA AfreshIs ==
  ASSUME CratePhase, NEW o, crate' = crate, seen' = Afresh(o)
  PROVE  /\ CratePhase'
         /\ \A p \in Objects : p # o \/ p[1] \notin Moving => seen'[p] = seen[p]
<1>1. seen' = [p \in Objects |-> IF p = o THEN {crate[p]} ELSE seen[p]]
  BY DEF CratePhase, Afresh
<1>2. \A p \in Objects : p # o \/ p[1] \notin Moving => seen'[p] = seen[p]
  BY <1>1 DEF CratePhase
<1>3. \A p \in Objects : seen'[p] = {crate[p]} \/ seen'[p] = seen[p]
  BY <1>1
<1>4. \A p \in Objects : crate'[p] \in seen'[p] /\ (p[1] \notin Moving => seen'[p] = {crate'[p]})
  BY <1>2, <1>3 DEF CratePhase
<1>5. seen'[Object("sysStatus", 0)] \subseteq Statuses
  BY <1>3, ObjectsAre DEF CratePhase
<1>6. seen' = [p \in Objects |-> seen'[p]]
  BY <1>1
<1> QED
  BY <1>2, <1>4, <1>5, <1>6 DEF CratePhase

-----------------------------------------------------------------------------
(* The steps. *)

\* What a call has got stays true when only the crate and the network move.
LEMMA StaysTrue ==
  ASSUME CallInv, Grown,
         UNCHANGED <<call, todo, result, infos, gaveUp>>, reply' = reply \/ reply' = NoReply
  PROVE  AskPhase' /\ ListPhase' /\ ReplyPhase' /\ (pdu' = pdu => PduPhase')
<1>1. pdu' = pdu => PduPhase'
  BY DEF CallInv, PduPhase
<1>2. AskPhase'
  BY DEF CallInv, AskPhase, Grown
<1>4. ListPhase'
  <2>1. TrueList(infos) => TrueList(infos)'
    BY DEF TrueList, Grown
  <2> QED
    BY <2>1 DEF CallInv, ListPhase
<1>5. CASE reply' = NoReply
  BY <1>1, <1>2, <1>4, <1>5 DEF ReplyPhase
<1>6. CASE reply' = reply
  <2>1. TrueList(reply.infos) => TrueList(reply.infos)'
    BY <1>6 DEF TrueList, Grown
  <2>2. ReplyPhase'
    BY <1>6, <2>1 DEF CallInv, ReplyPhase, Grown
  <2> QED
    BY <1>1, <1>2, <1>4, <2>2
<1> QED
  BY <1>5, <1>6

LEMMA NetStays ==
  ASSUME NetPhase, Grown, pdu' = pdu, net' \subseteq net
  PROVE  NetPhase'
BY DEF NetPhase, Grown

LEMMA NetIdle ==
  ASSUME NetPhase, pdu' = NoPdu, net' \subseteq net
  PROVE  NetPhase'
BY DEF NetPhase

\* Steps that take datagrams away at most.
LEMMA QuietStep ==
  ASSUME CallInv, UNCHANGED <<crate, seen, call, todo, result, infos, gaveUp, pdu>>,
         reply' = reply \/ reply' = NoReply, net' \subseteq net
  PROVE  CallInv'
<1>1. Grown
  BY DEF Grown
<1>2. CratePhase'
  BY DEF CallInv, CratePhase
<1>3. NetPhase'
  BY <1>1, NetStays DEF CallInv
<1> QED
  BY <1>1, <1>2, <1>3, StaysTrue DEF CallInv

\* The request that waits is sent again.
LEMMA ResendStep ==
  ASSUME CallInv, UNCHANGED <<crate, seen, call, todo, result, infos, gaveUp, reply>>,
         pdu # NoPdu, pdu.op # "answer", pdu' = [pdu EXCEPT !.tries = pdu'.tries],
         net' \subseteq net \cup Datagram(pdu')
  PROVE  CallInv'
<1>1. /\ pdu' = [id |-> pdu.id, op |-> pdu.op, object |-> pdu.object, value |-> pdu.value, tries |-> pdu'.tries]
      /\ call # NoCall /\ todo # << >>
      /\ pdu.op = Head(todo).op /\ pdu.object = Head(todo).object
  BY DEF CallInv, PduPhase
<1>2. pdu'.id = pdu.id /\ pdu'.op = pdu.op /\ pdu'.object = pdu.object
  BY <1>1
<1>3. CratePhase'
  BY DEF CallInv, CratePhase
<1>4. PduPhase'
  BY <1>1, <1>2 DEF PduPhase
<1>5. AskPhase' /\ ListPhase' /\ ReplyPhase'
  <2>1. Grown
    BY DEF Grown
  <2> QED
    BY <2>1, StaysTrue
<1>6. NetPhase'
  <2> SUFFICES ASSUME NEW d \in net'
               PROVE  /\ d = [id |-> d.id, tries |-> d.tries, kind |-> d.kind, object |-> d.object,
                              value |-> d.value, error |-> d.error]
                      /\ d.id = pdu.id =>
                           /\ d.object = pdu.object /\ d.kind \in {pdu.op, "answer"}
                           /\ d.kind = "answer" /\ pdu.op = "get" /\ ~d.error =>
                                /\ d.value # << >> <=> d.object \in Objects
                                /\ d.value # << >> => d.value[1] \in seen[d.object]
    BY <1>2 DEF NetPhase
  <2>1. CASE d \in net
    BY <2>1 DEF CallInv, NetPhase
  <2>2. CASE d \in Datagram(pdu')
    <3>1. d = [id |-> pdu'.id, tries |-> pdu'.tries, kind |-> pdu'.op, object |-> pdu'.object,
               value |-> pdu'.value, error |-> FALSE]
      BY <2>2 DEF Datagram
    <3>2. d.kind = pdu.op /\ d.object = pdu.object
      BY <1>2, <3>1
    <3> QED
      BY <3>1, <3>2
  <2> QED
    BY <2>1, <2>2
<1> QED
  BY <1>3, <1>4, <1>5, <1>6 DEF CallInv

\* A call returns without an answer.
LEMMA ReturnEmpty ==
  ASSUME CallInv, call # NoCall, Return(<< >>, << >>, << >>), pdu' = NoPdu,
         UNCHANGED <<crate, seen>>, net' \subseteq net
  PROVE  CallInv'
<1>1. CratePhase'
  BY DEF CallInv, CratePhase
<1>2. NetPhase' /\ PduPhase'
  BY NetIdle DEF CallInv, PduPhase
<1>3. AskPhase' /\ ListPhase'
  BY DEF AskPhase, ListPhase, Return
<1>4. /\ reply'.answer = << >> /\ reply'.returned = << >> /\ reply'.infos = << >> /\ call' = NoCall
  BY DEF Return
<1>5. IsQueue(<< >>) /\ Len(<< >>) = 0
  BY QueueEmpty
<1>6. TrueList(<< >>)'
  BY <1>5 DEF TrueList
<1>7. ReplyPhase'
  <2>1. << >> # <<TRUE>>
    OBVIOUS
  <2>2. TrueList(reply.infos)'
    BY <1>4, <1>6 DEF TrueList
  <2> QED
    BY <1>4, <1>5, <2>1, <2>2 DEF ReplyPhase
<1> QED
  BY <1>1, <1>2, <1>3, <1>7 DEF CallInv

\* The answer to a datagram.
Answered(d, value, error) == [d EXCEPT !.kind = "answer", !.value = value, !.error = error]

LEMMA AnswerMade ==
  ASSUME NEW id, NEW tries, NEW kind, NEW object, NEW v, NEW e, NEW d, NEW value, NEW error,
         d = [id |-> id, tries |-> tries, kind |-> kind, object |-> object, value |-> v, error |-> e]
  PROVE  Answered(d, value, error)
           = [id |-> id, tries |-> tries, kind |-> "answer", object |-> object, value |-> value, error |-> error]
<1> DEFINE f == [d EXCEPT !.kind = "answer"]
           g == [f EXCEPT !.value = value]
           h == [g EXCEPT !.error = error]
<1>1. f = [id |-> id, tries |-> tries, kind |-> "answer", object |-> object, value |-> v, error |-> e]
  OBVIOUS
<1> HIDE DEF f
<1>2. g = [id |-> id, tries |-> tries, kind |-> "answer", object |-> object, value |-> value, error |-> e]
  BY <1>1
<1> HIDE DEF g
<1>3. h = [id |-> id, tries |-> tries, kind |-> "answer", object |-> object, value |-> value, error |-> error]
  BY <1>2
<1>4. Answered(d, value, error) = h
  BY DEF f, g, h, Answered
<1> QED
  BY <1>3, <1>4

LEMMA AnswerIs ==
  ASSUME NEW d, NEW value, NEW error,
         d = [id |-> d.id, tries |-> d.tries, kind |-> d.kind, object |-> d.object,
              value |-> d.value, error |-> d.error]
  PROVE  Answered(d, value, error)
           = [id |-> d.id, tries |-> d.tries, kind |-> "answer", object |-> d.object,
              value |-> value, error |-> error]
<1>1. PICK id, tries, kind, object, v, e :
        d = [id |-> id, tries |-> tries, kind |-> kind, object |-> object, value |-> v, error |-> e]
  BY Zenon
<1>2. d.id = id /\ d.tries = tries /\ d.object = object
  BY <1>1
<1>3. Answered(d, value, error)
        = [id |-> id, tries |-> tries, kind |-> "answer", object |-> object, value |-> value, error |-> error]
  BY <1>1, AnswerMade
<1> QED
  BY <1>2, <1>3, Zenon

\* The agent of the crate takes a datagram.
LEMMA ServeStep ==
  ASSUME CallInv, NEW d \in net, Serve(d)
  PROVE  CallInv'
<1> DEFINE Answer(value, error) ==
             net' = (net \ {d}) \cup {[d EXCEPT !.kind = "answer", !.value = value, !.error = error]}
           there == d.object \in Objects
<1>1. /\ d.kind # "answer"
      /\ UNCHANGED <<call, todo, result, infos, gaveUp, pdu, reply>>
      /\ \/ /\ d.kind = "get"
            /\ Answer(IF there THEN <<crate[d.object]>> ELSE << >>, ~there /\ version = "v1")
            /\ UNCHANGED <<crate, seen>>
         \/ /\ d.kind = "set" /\ Settable(d.object)
            /\ Change(d.object, d.value[1])
            /\ Answer(d.value, FALSE)
         \/ /\ d.kind = "set"
            /\ Answer(<< >>, TRUE)
            /\ UNCHANGED <<crate, seen>>
  BY DEF Serve
<1> HIDE DEF Answer
<1>2. CratePhase' /\ Grown
  <2>1. CASE UNCHANGED <<crate, seen>>
    BY <2>1 DEF CallInv, CratePhase, Grown
  <2>2. CASE Settable(d.object) /\ Change(d.object, d.value[1])
    BY <2>2, ChangeIs DEF CallInv, Settable, Moving
  <2> QED
    BY <1>1, <2>1, <2>2
<1>3. ASSUME NEW value, NEW error, Answer(value, error),
             pdu # NoPdu /\ d.id = pdu.id /\ pdu.op = "get" /\ ~error =>
               /\ value # << >> <=> d.object \in Objects
               /\ value # << >> => value[1] \in seen'[d.object]
      PROVE  NetPhase'
  <2> DEFINE new == [d EXCEPT !.kind = "answer", !.value = value, !.error = error]
  <2>1. /\ d = [id |-> d.id, tries |-> d.tries, kind |-> d.kind, object |-> d.object,
                value |-> d.value, error |-> d.error]
        /\ pdu # NoPdu /\ d.id = pdu.id => d.object = pdu.object
    BY DEF CallInv, NetPhase
  <2>2. new = [id |-> d.id, tries |-> d.tries, kind |-> "answer", object |-> d.object,
               value |-> value, error |-> error]
    BY <2>1, AnswerIs DEF Answered
  <2>3. net' = (net \ {d}) \cup {new}
    BY <1>3 DEF Answer
  <2> HIDE DEF new
  <2>4. /\ new = [id |-> new.id, tries |-> new.tries, kind |-> new.kind, object |-> new.object,
                  value |-> new.value, error |-> new.error]
        /\ new.id = d.id /\ new.object = d.object /\ new.kind = "answer"
        /\ new.value = value /\ new.error = error
    BY <2>2
  <2> SUFFICES ASSUME NEW e \in net'
               PROVE  /\ e = [id |-> e.id, tries |-> e.tries, kind |-> e.kind, object |-> e.object,
                              value |-> e.value, error |-> e.error]
                      /\ pdu # NoPdu /\ e.id = pdu.id =>
                           /\ e.object = pdu.object /\ e.kind \in {pdu.op, "answer"}
                           /\ e.kind = "answer" /\ pdu.op = "get" /\ ~e.error =>
                                /\ e.value # << >> <=> e.object \in Objects
                                /\ e.value # << >> => e.value[1] \in seen'[e.object]
    BY <1>1 DEF NetPhase
  <2>5. CASE e = new
    BY <1>3, <2>1, <2>4, <2>5
  <2>6. CASE e \in net
    BY <1>2, <2>6 DEF CallInv, NetPhase, Grown
  <2> QED
    BY <2>3, <2>5, <2>6
<1>4. pdu # NoPdu /\ d.id = pdu.id => d.kind = pdu.op
  BY <1>1 DEF CallInv, NetPhase
<1>5. NetPhase'
  <2>1. CASE /\ d.kind = "get"
             /\ Answer(IF there THEN <<crate[d.object]>> ELSE << >>, ~there /\ version = "v1")
             /\ UNCHANGED <<crate, seen>>
    <3> DEFINE value == IF there THEN <<crate[d.object]>> ELSE << >>
    <3>1. value # << >> <=> d.object \in Objects
      OBVIOUS
    <3>2. value # << >> => value[1] \in seen'[d.object]
      <4>1. ASSUME there PROVE value[1] \in seen'[d.object]
        <5>1. value[1] = crate[d.object]
          BY <4>1
        <5> QED
          BY <2>1, <4>1, <5>1 DEF CallInv, CratePhase
      <4> QED
        BY <3>1, <4>1
    <3>3. Answer(value, ~there /\ version = "v1")
      BY <2>1
    <3> HIDE DEF value
    <3> QED
      BY <1>3, <3>1, <3>2, <3>3
  <2>2. CASE d.kind = "set" /\ Answer(d.value, FALSE)
    BY <1>3, <1>4, <2>2
  <2>3. CASE d.kind = "set" /\ Answer(<< >>, TRUE)
    BY <1>3, <1>4, <2>3
  <2> QED
    BY <1>1, <2>1, <2>2, <2>3
<1> QED
  BY <1>1, <1>2, <1>5, StaysTrue DEF CallInv

\* Somebody at the crate.
LEMMA TurnStep ==
  ASSUME CallInv, NEW o, NEW v, Turn(o, v), o[1] \in Moving, o[1] = "sysStatus" => v \in Statuses
  PROVE  CallInv'
<1>1. /\ Change(o, v)
      /\ UNCHANGED <<call, todo, result, infos, gaveUp, pdu, net, reply>>
  BY DEF Turn
<1>2. CratePhase' /\ Grown
  BY <1>1, ChangeIs DEF CallInv
<1>3. NetPhase'
  BY <1>1, <1>2, NetStays DEF CallInv
<1> QED
  BY <1>1, <1>2, <1>3, StaysTrue DEF CallInv

\* The next request is sent, with a number that nothing on its way has.
LEMMA SendStep ==
  ASSUME CallInv, NumbersFresh, Send
  PROVE  CallInv'
<1>1. /\ call # NoCall /\ todo # << >> /\ pdu = NoPdu
      /\ pdu' = [id |-> sent', op |-> Head(todo).op, object |-> Head(todo).object,
                 value |-> Head(todo).value, tries |-> Retries]
      /\ sent' = (sent + 1) % MaxId
      /\ net' = net \cup Datagram(pdu') /\ seen' = Afresh(pdu'.object)
      /\ UNCHANGED <<crate, call, todo, result, infos, gaveUp, reply>>
  BY DEF Send
<1>2. /\ pdu'.id = sent' /\ pdu'.op = Head(todo).op /\ pdu'.object = Head(todo).object
      /\ pdu' = [id |-> pdu'.id, op |-> pdu'.op, object |-> pdu'.object, value |-> pdu'.value, tries |-> pdu'.tries]
  BY <1>1
<1>3. /\ CratePhase'
      /\ \A p \in Objects : p # pdu'.object \/ p[1] \notin Moving => seen'[p] = seen[p]
  BY <1>1, AfreshIs DEF CallInv
<1>4. PduPhase'
  BY <1>1, <1>2 DEF PduPhase
<1>5. NetPhase'
  <2> SUFFICES ASSUME NEW d \in net'
               PROVE  /\ d = [id |-> d.id, tries |-> d.tries, kind |-> d.kind, object |-> d.object,
                              value |-> d.value, error |-> d.error]
                      /\ d.id = pdu'.id =>
                           /\ d.object = pdu'.object /\ d.kind \in {pdu'.op, "answer"}
                           /\ ~(d.kind = "answer" /\ pdu'.op = "get")
    BY DEF NetPhase
  <2>1. CASE d \in net
    BY <1>1, <1>2, <2>1 DEF CallInv, NetPhase, NumbersFresh
  <2>2. CASE d \in Datagram(pdu')
    <3>1. d = [id |-> pdu'.id, tries |-> pdu'.tries, kind |-> pdu'.op, object |-> pdu'.object,
               value |-> pdu'.value, error |-> FALSE]
      BY <2>2 DEF Datagram
    <3>2. d.kind = pdu'.op /\ d.object = pdu'.object
      BY <3>1
    <3> QED
      BY <3>1, <3>2
  <2> QED
    BY <1>1, <2>1, <2>2
<1>6. AskPhase'
  BY <1>1 DEF CallInv, AskPhase
<1>7. ListPhase'
  <2> SUFFICES ASSUME call.method = "getChannelsInfos" PROVE TrueList(infos)' /\ \E n \in 0..Slots : Walk(infos, todo, gaveUp, n)
    BY <1>1 DEF ListPhase
  <2>1. TrueList(infos) /\ \E n \in 0..Slots : Walk(infos, todo, gaveUp, n)
    BY <1>1 DEF CallInv, ListPhase
  <2>2. PICK n \in 0..Slots : Walk(infos, todo, gaveUp, n)
    BY <2>1
  <2>3. IsQueue(infos) /\ IsQueue(todo)
    BY <2>2 DEF Walk
  <2>4. Len(infos) \in Nat /\ Len(todo) \in Nat /\ Len(todo) >= 1 /\ Head(todo) = todo[1]
    BY <1>1, <2>3, QueueIs, QueueTail
  <2>5. ASSUME NEW i \in 1..Len(infos), infos[i][2] # << >>
        PROVE  infos[i][1] \in Objects /\ infos[i][2][1] \in seen'[infos[i][1]]
    <3>1. infos[i][1] \in Objects /\ infos[i][2][1] \in seen[infos[i][1]]
      BY <2>1, <2>5 DEF TrueList
    <3>2. CASE infos[i][1] # pdu'.object \/ infos[i][1][1] \notin Moving
      BY <1>3, <3>1, <3>2
    <3>3. CASE infos[i][1] = pdu'.object /\ infos[i][1][1] \in Moving
      <4>1. infos[i][1] = todo[1].object
        BY <1>2, <2>4, <3>3
      <4>2. todo[1].object[1] = "moduleDescription" \/ \E k \in 1..5 : todo[1].object[1] = OfChannel[k]
        BY <2>2, <2>4 DEF Walk
      <4>3. infos[i][1][1] = "outputVoltage"
        <5>1. ASSUME NEW k \in 1..5, OfChannel[k] \in Moving PROVE OfChannel[k] = "outputVoltage"
          <6>1. k = 1 \/ k = 2 \/ k = 3 \/ k = 4 \/ k = 5
            OBVIOUS
          <6> QED
            BY <5>1, <6>1, Parts DEF Moving
        <5> QED
          BY <3>3, <4>1, <4>2, <5>1 DEF Moving
      <4>4. PICK s \in DOMAIN Modules : \E c \in 0..(Modules[s] - 1) :
              infos[i][1] = Object("outputVoltage", Numbered(s, c))
        BY <3>1, <4>3, VoltageOf
      <4>5. PICK c \in 0..(Modules[s] - 1) : infos[i][1] = Object("outputVoltage", Numbered(s, c))
        BY <4>4
      <4> DEFINE places == {j \in 1..(Len(infos) + Len(todo)) :
                              Place(infos, todo, j) = Object("outputVoltage", Numbered(s, c))}
      <4>6. \A j, k \in places : j = k
        BY <2>2 DEF Walk, ListedNames
      <4>7. i \in places
        BY <2>4, <4>5 DEF Place
      <4>8. Len(infos) + 1 \in places
        <5>1. PICK k : k = Len(infos) + 1
          OBVIOUS
        <5>2. k \in 1..(Len(infos) + Len(todo)) /\ ~(k <= Len(infos)) /\ k - Len(infos) = 1
          BY <2>4, <5>1
        <5>3. Place(infos, todo, k) = Object("outputVoltage", Numbered(s, c))
          BY <4>1, <4>5, <5>2 DEF Place
        <5> QED
          BY <5>1, <5>2, <5>3
      <4> HIDE DEF places
      <4>9. i = Len(infos) + 1
        BY <4>6, <4>7, <4>8
      <4> QED
        BY <2>4, <4>9
    <3> QED
      BY <3>2, <3>3
  <2>6. TrueList(infos)'
    BY <1>1, <2>5 DEF TrueList
  <2> QED
    BY <2>1, <2>6
<1>8. ReplyPhase'
  BY <1>1 DEF CallInv, ReplyPhase
<1> QED
  BY <1>3, <1>4, <1>5, <1>6, <1>7, <1>8 DEF CallInv

\* A get is over: it has an answer, or there is none.
LEMMA GetDone ==
  ASSUME CallInv, pdu # NoPdu, pdu.op = "get", pdu' = NoPdu,
         UNCHANGED <<crate, seen>>, net' \subseteq net,
         NEW answer, NEW none \in BOOLEAN, Received(answer, none),
         \/ none /\ answer = << >>
         \/ /\ answer # << >> <=> pdu.object \in Objects
            /\ answer # << >> => answer[1] \in seen[pdu.object]
  PROVE  CallInv'
<1>1. /\ call # NoCall /\ todo # << >>
      /\ Head(todo).op = "get" /\ pdu.object = Head(todo).object
  BY DEF CallInv, PduPhase
<1>2. CASE TypeUnknown(answer)
  <2>1. Return(<< >>, << >>, << >>)
    BY <1>2 DEF Received
  <2> QED
    BY <1>1, <2>1, ReturnEmpty
<1>3. CASE ~TypeUnknown(answer)
  <2>1. /\ result' = answer
        /\ infos' = IF call.method = "getChannelsInfos" THEN Append(infos, <<pdu.object, answer>>) ELSE infos
        /\ todo' = Tail(todo) \o Further(pdu.object, answer)
        /\ gaveUp' = (gaveUp \/ none)
        /\ UNCHANGED <<call, reply>>
    BY <1>3 DEF Received
  <2>2. CratePhase'
    BY DEF CallInv, CratePhase
  <2>3. NetPhase' /\ PduPhase'
    BY NetIdle DEF CallInv, PduPhase
  <2>4. ReplyPhase'
    BY <1>1, <2>1 DEF CallInv, ReplyPhase
  <2>5. AskPhase'
    <3> SUFFICES ASSUME call.method # "getChannelsInfos"
                 PROVE  /\ infos' = << >> /\ todo' \in LeftOf(call)
                        /\ todo' = << >> /\ result' # << >> =>
                             Asked(call) \in Objects /\ result'[1] \in seen[Asked(call)]
      BY <2>1 DEF AskPhase, LeftOf
    <3>1. infos = << >> /\ todo \in LeftOf(call)
      BY <1>1 DEF CallInv, AskPhase
    <3> DEFINE o == Asked(call)
               put == Put(o, ValueOf(call.method, call.value))
    <3>2. put.op = "set"
      BY DEF Put
    <3>3. Get(o).object = o
      BY GetIs
    <3>4. Further(pdu.object, answer) = << >>
      BY DEF Further
    <3>5. LeftOf(call) = {<< >>, <<Get(o)>>, <<put, Get(o)>>, <<Get(o), put, Get(o)>>}
      BY DEF LeftOf
    <3> HIDE DEF put, o
    <3>6. CASE todo = <<Get(o)>>
      <4>1. Tail(todo) = << >> /\ Head(todo) = Get(o)
        BY <3>6
      <4>2. todo' = << >> \o << >>
        BY <2>1, <3>4, <4>1
      <4>3. todo' = << >>
        <5>1. IsQueue(<< >>) /\ Len(<< >>) = 0
          BY QueueEmpty
        <5>2. IsQueue(<< >> \o << >>) /\ Len(<< >> \o << >>) = 0
          BY <5>1, QueueJoin
        <5> QED
          BY <4>2, <5>2, QueueIs
      <4>4. pdu.object = o
        BY <1>1, <3>3, <4>1
      <4>5. result' # << >> => o \in Objects /\ result'[1] \in seen[o]
        BY <2>1, <4>4
      <4> QED
        BY <2>1, <3>1, <3>5, <4>3, <4>5 DEF o
    <3>7. CASE todo = <<Get(o), put, Get(o)>>
      <4>1. Tail(todo) = <<put, Get(o)>>
        BY <3>7
      <4>2. todo' = <<put, Get(o)>> \o << >>
        BY <2>1, <3>4, <4>1
      <4>3. todo' = <<put, Get(o)>>
        BY <4>2
      <4>4. todo' # << >>
        BY <4>3
      <4> QED
        BY <2>1, <3>1, <3>5, <4>3, <4>4
    <3>8. CASE todo = <<put, Get(o)>>
      <4>1. Head(todo) = put
        BY <3>8
      <4> QED
        BY <1>1, <3>2, <4>1
    <3> QED
      BY <1>1, <3>1, <3>5, <3>6, <3>7, <3>8
  <2>6. ListPhase'
    <3> SUFFICES ASSUME call.method = "getChannelsInfos"
                 PROVE  TrueList(infos)' /\ \E n \in 0..Slots : Walk(infos', todo', gaveUp', n)
      BY <2>1 DEF ListPhase
    <3>1. TrueList(infos) /\ \E n \in 0..Slots : Walk(infos, todo, gaveUp, n)
      BY <1>1 DEF CallInv, ListPhase
    <3>2. PICK n \in 0..Slots : Walk(infos, todo, gaveUp, n)
      BY <3>1
    <3>3. /\ IsQueue(infos) /\ IsQueue(todo)
          /\ infos' = Append(infos, <<Head(todo).object, answer>>)
          /\ todo' = Tail(todo) \o Further(Head(todo).object, answer)
      BY <1>1, <2>1, <3>2 DEF Walk
    <3>4. TrueList(infos)'
      <4>1. /\ Len(infos) \in Nat /\ Len(infos') = Len(infos) + 1
            /\ \A i \in 1..(Len(infos) + 1) :
                 infos'[i] = IF i <= Len(infos) THEN infos[i] ELSE <<Head(todo).object, answer>>
        BY <3>3, QueueAppend, QueueIs
      <4>2. ASSUME NEW i \in 1..Len(infos'), infos'[i][2] # << >>
            PROVE  infos'[i][1] \in Objects /\ infos'[i][2][1] \in seen[infos'[i][1]]
        <5>1. CASE i <= Len(infos)
          BY <3>1, <4>1, <4>2, <5>1 DEF TrueList
        <5>2. CASE ~(i <= Len(infos))
          <6>1. infos'[i] = <<pdu.object, answer>>
            BY <1>1, <4>1, <5>2
          <6>2. infos'[i][1] = pdu.object /\ infos'[i][2] = answer
            BY <6>1
          <6> QED
            BY <4>2, <6>2
        <5> QED
          BY <5>1, <5>2
      <4> QED
        BY <4>2 DEF TrueList
    <3>5. CASE Head(todo).object[1] # "moduleDescription"
      <4>1. Walk(Append(infos, <<Head(todo).object, answer>>),
                 Tail(todo) \o Further(Head(todo).object, answer), gaveUp \/ none, n)
        BY <1>1, <3>2, <3>5, WalkChannel
      <4> QED
        BY <2>1, <3>3, <3>4, <4>1
    <3>6. CASE Head(todo).object[1] = "moduleDescription"
      <4>1. Head(todo).object = Object("moduleDescription", n)
        <5>1. Len(todo) \in Nat /\ Len(todo) >= 1 /\ Head(todo) = todo[1]
          BY <1>1, <3>3, QueueIs, QueueTail
        <5>2. 1 \in 1..Len(todo) /\ todo[1].object[1] = "moduleDescription"
          BY <3>6, <5>1
        <5>3. \A i \in 1..Len(todo) : todo[i].object[1] = "moduleDescription" => i = Len(todo) /\ n < Slots
          BY <3>2 DEF Walk
        <5>4. Len(todo) = 1 /\ n < Slots
          BY <5>2, <5>3
        <5> QED
          BY <3>2, <5>1, <5>4 DEF Walk
      <4>2. \/ answer = << >> /\ (none \/ n \notin DOMAIN Modules)
            \/ answer # << >> /\ n \in DOMAIN Modules /\ answer[1] = <<Modules[n]>>
        <5>1. pdu.object \in Objects <=> n \in DOMAIN Modules
          BY <1>1, <4>1, ObjectsAre
        <5>2. ASSUME answer # << >>, n \in DOMAIN Modules, answer[1] \in seen[pdu.object]
              PROVE  answer[1] = <<Modules[n]>>
          <6>1. pdu.object = Object("moduleDescription", n) /\ pdu.object[1] = "moduleDescription"
            BY <1>1, <4>1, GetIs
          <6>2. seen[pdu.object] = {crate[pdu.object]}
            BY <5>1, <5>2, <6>1 DEF CallInv, CratePhase, Moving
          <6>3. crate[pdu.object] = <<Modules[n]>>
            BY <5>2, <6>1 DEF CallInv, CratePhase
          <6> QED
            BY <5>2, <6>2, <6>3
        <5> QED
          BY <5>1, <5>2
      <4>3. n \in 0..(Slots - 1) /\ Walk(Append(infos, <<Head(todo).object, answer>>),
                 Tail(todo) \o Further(Head(todo).object, answer), gaveUp \/ none, n + 1)
        BY <1>1, <3>2, <3>6, <4>2, WalkSlot
      <4>4. n + 1 \in 0..Slots
        BY <4>3, Sizes
      <4> QED
        BY <2>1, <3>3, <3>4, <4>3, <4>4
    <3> QED
      BY <3>5, <3>6
  <2> QED
    BY <2>2, <2>3, <2>4, <2>5, <2>6 DEF CallInv
<1> QED
  BY <1>2, <1>3

\* A set is over: what is left of the call is the get of what has become of it.
LEMMA SetDoneStep ==
  ASSUME CallInv, pdu # NoPdu, pdu.op = "set", pdu' = NoPdu, SetDone,
         crate' = crate, seen' = seen \/ seen' = Afresh(pdu.object), net' \subseteq net
  PROVE  CallInv'
<1>1. /\ call # NoCall /\ todo # << >> /\ Head(todo).op = "set"
      /\ todo' = Tail(todo) /\ UNCHANGED <<call, result, infos, gaveUp, reply>>
  BY DEF CallInv, PduPhase, SetDone
<1>2. CratePhase'
  <2>1. CASE seen' = seen
    BY <2>1 DEF CallInv, CratePhase
  <2>2. CASE seen' = Afresh(pdu.object)
    BY <2>2, AfreshIs DEF CallInv
  <2> QED
    BY <2>1, <2>2
<1>3. NetPhase' /\ PduPhase'
  BY NetIdle DEF CallInv, PduPhase
<1>4. ReplyPhase'
  BY <1>1 DEF CallInv, ReplyPhase
<1>5. call.method # "getChannelsInfos"
  <2> SUFFICES ASSUME call.method = "getChannelsInfos" PROVE FALSE
    OBVIOUS
  <2>1. PICK n \in 0..Slots : Walk(infos, todo, gaveUp, n)
    BY <1>1 DEF CallInv, ListPhase
  <2>2. IsQueue(todo)
    BY <2>1 DEF Walk
  <2>3. Head(todo) = todo[1] /\ 1 \in 1..Len(todo)
    BY <1>1, <2>2, QueueIs, QueueTail
  <2>4. todo[1].op = "get"
    BY <2>1, <2>3 DEF Walk
  <2> QED
    BY <1>1, <2>3, <2>4
<1>6. AskPhase'
  <2> DEFINE o == Asked(call)
             put == Put(o, ValueOf(call.method, call.value))
  <2>1. infos = << >> /\ todo \in {<< >>, <<Get(o)>>, <<put, Get(o)>>, <<Get(o), put, Get(o)>>}
    BY <1>1, <1>5 DEF CallInv, AskPhase, LeftOf
  <2>2. Get(o).op = "get"
    BY GetIs
  <2>3. LeftOf(call) = {<< >>, <<Get(o)>>, <<put, Get(o)>>, <<Get(o), put, Get(o)>>}
    BY DEF LeftOf
  <2> HIDE DEF o, put
  <2>4. todo = <<put, Get(o)>>
    BY <1>1, <2>1, <2>2
  <2>5. todo' = <<Get(o)>> /\ todo' # << >>
    BY <1>1, <2>4
  <2>6. todo' \in LeftOf(call)
    BY <2>3, <2>5
  <2> QED
    BY <1>1, <2>1, <2>5, <2>6 DEF AskPhase, LeftOf
<1>7. ListPhase'
  BY <1>1, <1>5 DEF ListPhase
<1> QED
  BY <1>2, <1>3, <1>4, <1>6, <1>7 DEF CallInv

\* A list is over when all slots have been asked.
LEMMA WalkEnds ==
  ASSUME NEW list, NEW skipped, NEW n, Walk(list, << >>, skipped, n)
  PROVE  /\ IsQueue(list)
         /\ ~skipped => \A name \in ListedNames, ch \in Channels :
              Cardinality({i \in DOMAIN list : list[i][1] = Object(name, ch)}) = 1
<1>1. IsQueue(list) /\ n \in 0..Slots /\ ~(n < Slots)
  BY DEF Walk
<1>2. Len(list) \in Nat /\ DOMAIN list = 1..Len(list) /\ Len(<< >>) = 0
  BY <1>1, QueueIs, QueueEmpty
<1>3. ASSUME ~skipped, NEW name \in ListedNames, NEW ch \in Channels
      PROVE  Cardinality({i \in DOMAIN list : list[i][1] = Object(name, ch)}) = 1
  <2>1. PICK s \in DOMAIN Modules : ch \in {Numbered(s, c) : c \in 0..(Modules[s] - 1)}
    BY DEF Channels
  <2>2. PICK c \in 0..(Modules[s] - 1) : ch = Numbered(s, c)
    BY <2>1
  <2> DEFINE places == {i \in 1..(Len(list) + Len(<< >>)) :
                          Place(list, << >>, i) = Object(name, Numbered(s, c))}
             found == {i \in DOMAIN list : list[i][1] = Object(name, ch)}
  <2>3. s < n
    BY <1>1, Sizes
  <2>4. (\A i, j \in places : i = j) /\ places # {}
    BY <1>3, <2>3 DEF Walk
  <2>5. found = places
    BY <1>2, <2>2 DEF Place
  <2> HIDE DEF places, found
  <2>6. PICK k : k \in found
    BY <2>4, <2>5
  <2>7. found = {k}
    BY <2>4, <2>5, <2>6
  <2>8. Cardinality(found) = 1
    BY <2>7, FS_Singleton
  <2> QED
    BY <2>8 DEF found
<1> QED
  BY <1>1, <1>3

\* The call returns what it has got.
LEMMA FinishStep ==
  ASSUME CallInv, Finish
  PROVE  CallInv'
<1>1. /\ call # NoCall /\ todo = << >> /\ pdu = NoPdu
      /\ UNCHANGED <<crate, seen, pdu, net>>
      /\ call' = NoCall /\ pdu' = NoPdu
      /\ reply' = [call |-> call, answer |-> result, returned |-> Converted(call.method, result),
                   infos |-> infos, gaveUp |-> gaveUp]
  BY DEF Finish, Return
<1>2. CratePhase'
  BY <1>1 DEF CallInv, CratePhase
<1>3. NetPhase' /\ PduPhase'
  BY <1>1, NetIdle DEF CallInv, PduPhase
<1>4. AskPhase' /\ ListPhase'
  BY <1>1 DEF AskPhase, ListPhase
<1>5. call.method # "getChannelsInfos" =>
        /\ infos = << >>
        /\ result # << >> => Asked(call) \in Objects /\ result[1] \in seen[Asked(call)]
  BY <1>1 DEF CallInv, AskPhase
<1>6. ASSUME call.method = "getChannelsInfos"
      PROVE  /\ TrueList(infos) /\ IsQueue(infos)
             /\ ~gaveUp => \A name \in ListedNames, ch \in Channels :
                  Cardinality({i \in DOMAIN infos : infos[i][1] = Object(name, ch)}) = 1
  <2>1. PICK n \in 0..Slots : Walk(infos, << >>, gaveUp, n)
    BY <1>1, <1>6 DEF CallInv, ListPhase
  <2>2. TrueList(infos)
    BY <1>1, <1>6 DEF CallInv, ListPhase
  <2> QED
    BY <2>1, <2>2, WalkEnds
<1>7. TrueList(infos) /\ IsQueue(infos)
  <2>1. Len(<< >>) = 0 /\ IsQueue(<< >>)
    BY QueueEmpty
  <2>2. TrueList(<< >>)
    BY <2>1 DEF TrueList
  <2> QED
    BY <1>5, <1>6, <2>1, <2>2
<1>8. call.method = "crateIsOn" /\ Converted(call.method, result) = <<TRUE>> => result = << <<1>> >>
  <2> SUFFICES ASSUME call.method = "crateIsOn", Converted(call.method, result) = <<TRUE>>
               PROVE  result = << <<1>> >>
    OBVIOUS
  <2>1. Converted(call.method, result) = << result = << <<1>> >> >>
    BY DEF Converted
  <2>2. ASSUME NEW b, <<b>> = <<TRUE>> PROVE b = TRUE
    BY <2>2
  <2>3. (result = << <<1>> >>) = TRUE
    BY <2>1, <2>2
  <2> QED
    BY <2>3
<1>9. call.method = "getCrateStatus" /\ result # << >> /\ Converted(call.method, result) # << >> =>
        Converted(call.method, result)[1] = MibBits(result[1])
  <2> SUFFICES ASSUME call.method = "getCrateStatus", result # << >>, Converted(call.method, result) # << >>
               PROVE  Converted(call.method, result)[1] = MibBits(result[1])
    OBVIOUS
  <2>1. Converted(call.method, result) = IF IsText(result[1]) THEN << >> ELSE <<Number(result[1])>>
    BY DEF Converted
  <2>2. Converted(call.method, result)[1] = Number(result[1])
    BY <2>1
  <2>3. Asked(call) = Object("sysStatus", 0)
    BY ObjectsAre DEF Asked, Gets
  <2>4. result[1] \in Statuses
    BY <1>5, <2>3 DEF CallInv, CratePhase
  <2>5. result[1] \in Seq(0..255)
    BY <2>4, ModulesAssumption
  <2> QED
    BY <2>2, <2>5, BitsKept
<1>10. ReplyPhase'
  <2>1. /\ reply'.call = call /\ reply'.answer = result /\ reply'.infos = infos /\ reply'.gaveUp = gaveUp
        /\ reply'.returned = Converted(call.method, result)
    BY <1>1
  <2>2. TrueList(reply.infos)'
    BY <1>1, <1>7, <2>1 DEF TrueList
  <2> QED
    BY <1>1, <1>5, <1>6, <1>7, <1>8, <1>9, <2>1, <2>2 DEF ReplyPhase
<1> QED
  BY <1>2, <1>3, <1>4, <1>10 DEF CallInv

\* A call begins.
LEMMA CallStep ==
  ASSUME CallInv, NEW c \in Calls, Call(c)
  PROVE  CallInv'
<1>1. call = NoCall /\ reply' = NoReply /\ UNCHANGED <<crate, pdu, net, seen>>
  BY DEF Call
<1>2. CASE UNCHANGED <<call, todo, result, infos, gaveUp>>
  BY <1>1, <1>2, QuietStep
<1>3. CASE call' = c /\ todo' = Requests(c) /\ result' = << >> /\ infos' = << >> /\ gaveUp' = FALSE
  <2>1. pdu = NoPdu
    BY <1>1 DEF CallInv, PduPhase
  <2>2. CratePhase'
    BY <1>1 DEF CallInv, CratePhase
  <2>3. NetPhase' /\ PduPhase'
    BY <1>1, <2>1, NetIdle DEF CallInv, PduPhase
  <2>4. ReplyPhase'
    BY <1>1 DEF ReplyPhase
  <2>5. AskPhase'
    <3> SUFFICES ASSUME c.method # "getChannelsInfos" PROVE Requests(c) \in LeftOf(c)
      BY <1>3 DEF AskPhase, LeftOf
    <3> QED
      BY DEF Requests, LeftOf
  <2>6. ListPhase'
    <3> SUFFICES ASSUME c.method = "getChannelsInfos"
                 PROVE  TrueList(infos)' /\ \E n \in 0..Slots : Walk(infos', todo', gaveUp', n)
      BY <1>3 DEF ListPhase
    <3>1. todo' = <<Get(Object("moduleDescription", 0))>>
      BY <1>3 DEF Requests
    <3>2. Walk(infos', todo', gaveUp', 0)
      BY <1>3, <3>1, WalkBegins
    <3>3. Len(<< >>) = 0
      BY QueueEmpty
    <3>4. TrueList(infos)'
      BY <1>3, <3>3 DEF TrueList
    <3>5. 0 \in 0..Slots
      BY Sizes
    <3> QED
      BY <3>2, <3>4, <3>5
  <2> QED
    BY <2>2, <2>3, <2>4, <2>5, <2>6 DEF CallInv
<1> QED
  BY <1>2, <1>3 DEF Call

\* An answer arrives.
LEMMA ReceiveStep ==
  ASSUME CallInv, NEW d \in net, Receive(d)
  PROVE  CallInv'
<1>1. d.kind = "answer" /\ crate' = crate
  BY DEF Receive
<1>2. CASE /\ net' = net \ {d}
           /\ UNCHANGED <<call, todo, result, infos, gaveUp, pdu, reply, seen>>
  BY <1>1, <1>2, QuietStep
<1>3. CASE /\ d.id = pdu.id /\ pdu.op = "get" /\ ~d.error
           /\ net' = net \ {d} /\ pdu' = NoPdu
           /\ Received(d.value, FALSE)
           /\ UNCHANGED <<session, seen>>
  <2>1. pdu # NoPdu
    BY <1>3 DEF NoPdu
  <2>2. /\ d.value # << >> <=> pdu.object \in Objects
        /\ d.value # << >> => d.value[1] \in seen[pdu.object]
    BY <1>1, <1>3, <2>1 DEF CallInv, NetPhase
  <2> QED
    BY <1>1, <1>3, <2>1, <2>2, GetDone
<1>4. CASE /\ d.id = pdu.id /\ pdu.op = "get" /\ d.error
           /\ net' = (net \ {d}) \cup Datagram(pdu)
           /\ UNCHANGED <<call, todo, result, infos, gaveUp, pdu, reply, seen>>
  <2>1. pdu # NoPdu
    BY <1>4 DEF NoPdu
  <2>2. pdu' = [pdu EXCEPT !.tries = pdu'.tries]
    BY <1>4, <2>1 DEF CallInv, PduPhase
  <2>3. net' \subseteq net \cup Datagram(pdu')
    BY <1>4 DEF Datagram
  <2> QED
    BY <1>1, <1>4, <2>1, <2>2, <2>3, ResendStep
<1>5. CASE /\ d.id = pdu.id /\ pdu.op = "set"
           /\ net' = net \ {d} /\ pdu' = NoPdu
           /\ SetDone
           /\ seen' = Afresh(pdu.object)
  <2>1. pdu # NoPdu
    BY <1>5 DEF NoPdu
  <2> QED
    BY <1>1, <1>5, <2>1, SetDoneStep
<1> QED
  BY <1>2, <1>3, <1>4, <1>5 DEF Receive

\* No answer comes in time, or the request cannot be sent.
LEMMA FailStep ==
  ASSUME CallInv, Resend \/ GiveUp \/ SocketFails
  PROVE  CallInv'
<1>1. pdu # NoPdu /\ UNCHANGED <<crate, seen>>
  BY DEF Resend, GiveUp, SocketFails, Late
<1>2. /\ pdu = [id |-> pdu.id, op |-> pdu.op, object |-> pdu.object, value |-> pdu.value, tries |-> pdu.tries]
      /\ call # NoCall /\ todo # << >> /\ pdu.op = Head(todo).op
  BY <1>1 DEF CallInv, PduPhase
<1>3. pdu.op = "get" \/ pdu.op = "set"
  <2>1. CASE call.method = "getChannelsInfos"
    <3>1. PICK n \in 0..Slots : Walk(infos, todo, gaveUp, n)
      BY <1>2, <2>1 DEF CallInv, ListPhase
    <3>2. IsQueue(todo)
      BY <3>1 DEF Walk
    <3>3. Head(todo) = todo[1] /\ 1 \in 1..Len(todo)
      BY <1>2, <3>2, QueueIs, QueueTail
    <3> QED
      BY <1>2, <3>1, <3>3 DEF Walk
  <2>2. CASE call.method # "getChannelsInfos"
    <3> DEFINE o == Asked(call)
               put == Put(o, ValueOf(call.method, call.value))
    <3>1. todo \in {<< >>, <<Get(o)>>, <<put, Get(o)>>, <<Get(o), put, Get(o)>>}
      BY <1>2, <2>2 DEF CallInv, AskPhase, LeftOf
    <3>2. Get(o).op = "get" /\ put.op = "set"
      BY DEF Get, Put
    <3> HIDE DEF o, put
    <3> QED
      BY <1>2, <3>1, <3>2
  <2> QED
    BY <2>1, <2>2
<1>4. CASE Resend
  <2>1. /\ pdu' = [pdu EXCEPT !.tries = @ - 1] /\ net' = net \cup Datagram(pdu')
        /\ UNCHANGED <<call, todo, result, infos, gaveUp, reply>>
    BY <1>4 DEF Resend
  <2>2. pdu' = [pdu EXCEPT !.tries = pdu'.tries]
    BY <1>2, <2>1
  <2> QED
    BY <1>1, <1>3, <2>1, <2>2, ResendStep
<1>5. CASE GiveUp
  <2>1. pdu' = NoPdu /\ net' = net
        /\ IF pdu.op = "set" THEN SetDone ELSE Received(<< >>, TRUE)
    BY <1>5 DEF GiveUp
  <2> QED
    BY <1>1, <1>3, <2>1, SetDoneStep, GetDone
<1>6. CASE SocketFails
  <2>1. pdu' = NoPdu /\ net' = net
        /\ IF pdu.op = "set" THEN SetDone ELSE Return(<< >>, << >>, << >>)
    BY <1>6 DEF SocketFails
  <2> QED
    BY <1>1, <1>2, <1>3, <2>1, SetDoneStep, ReturnEmpty
<1> QED
  BY <1>4, <1>5, <1>6

LEMMA CallInvInit == MInit => CallInv
<1> SUFFICES ASSUME MInit PROVE CallInv
  OBVIOUS
<1>1. /\ call = NoCall /\ pdu = NoPdu /\ net = {} /\ reply = NoReply
      /\ seen = [o \in Objects |-> {crate[o]}]
  BY DEF MInit
<1>2. crate = [o \in Objects |-> crate[o]]
  BY DEF MInit
<1>3. \A s \in DOMAIN Modules : crate[Object("moduleDescription", s)] = <<Modules[s]>>
  <2>1. ASSUME NEW s \in DOMAIN Modules PROVE crate[Object("moduleDescription", s)] = <<Modules[s]>>
    <3>1. /\ Object("moduleDescription", s) \in Objects
          /\ Object("moduleDescription", s)[1] = "moduleDescription" /\ Object("moduleDescription", s)[2] = s
      BY ObjectsAre, GetIs
    <3> QED
      BY <3>1 DEF MInit
  <2> QED
    BY <2>1
<1>4. crate[Object("sysStatus", 0)] \in Statuses
  <2>1. Object("sysStatus", 0) \in Objects /\ Object("sysStatus", 0)[1] = "sysStatus"
    BY ObjectsAre, GetIs
  <2>2. crate[Object("sysStatus", 0)] = CHOOSE s \in Statuses : TRUE
    BY <2>1 DEF MInit
  <2> QED
    BY <2>2, ModulesAssumption
<1>5. CratePhase
  BY <1>1, <1>2, <1>3, <1>4, ObjectsAre DEF CratePhase
<1> QED
  BY <1>1, <1>5 DEF CallInv, NetPhase, PduPhase, AskPhase, ListPhase, ReplyPhase

LEMMA CallInvStep ==
  ASSUME CallInv, NumbersFresh, [MNext]_mvars
  PROVE  CallInv'
<1>1. CASE DoConnect \/ DoDisconnect \/ UNCHANGED mvars
  BY <1>1, QuietStep DEF DoConnect, DoDisconnect, mvars
<1>2. CASE \E c \in Calls : Call(c)
  BY <1>2, CallStep
<1>3. CASE Send
  BY <1>3, SendStep
<1>4. CASE \E d \in net : Receive(d)
  BY <1>4, ReceiveStep
<1>5. CASE Resend \/ GiveUp \/ SocketFails
  BY <1>5, FailStep
<1>6. CASE Finish
  BY <1>6, FinishStep
<1>7. CASE \E d \in net : Serve(d)
  BY <1>7, ServeStep
<1>8. CASE Unplug \/ \E d \in net : Lose(d)
  BY <1>8, QuietStep DEF Unplug, Lose
<1>9. CASE \E o \in Switches, v \in {<<0>>, <<1>>} : Turn(o, v)
  BY <1>9, TurnStep DEF Switches, Moving
<1>10. CASE \E v \in Statuses : Turn(Object("sysStatus", 0), v)
  BY <1>10, TurnStep, GetIs DEF Moving
<1> QED
  BY <1>1, <1>2, <1>3, <1>4, <1>5, <1>6, <1>7, <1>8, <1>9, <1>10 DEF MNext, Connector

\* The invariant says of the last reply what is promised.
LEMMA RepliesAreTrue == CallInv => AnswersAreTrue
<1> SUFFICES ASSUME CallInv PROVE AnswersAreTrue
  OBVIOUS
<1>1. CASE reply = NoReply
  <2>1. /\ reply.answer = << >> /\ reply.infos = << >> /\ reply.call.method = "none"
    BY <1>1 DEF NoReply, NoCall
  <2>2. DOMAIN << >> = {}
    OBVIOUS
  <2> QED
    BY <2>1, <2>2 DEF AnswersAreTrue
<1>2. CASE reply # NoReply
  <2> DEFINE c == reply.call
  <2>1. /\ c.method # "getChannelsInfos" /\ reply.answer # << >> =>
             Asked(c) \in Objects /\ reply.answer[1] \in seen[Asked(c)]
        /\ c.method = "crateIsOn" /\ reply.returned = <<TRUE>> => reply.answer = << <<1>> >>
        /\ c.method = "getCrateStatus" /\ reply.answer # << >> /\ reply.returned # << >> =>
             reply.returned[1] = MibBits(reply.answer[1])
        /\ IsQueue(reply.infos) /\ TrueList(reply.infos)
        /\ c.method = "getChannelsInfos" /\ reply.infos # << >> /\ ~reply.gaveUp =>
             \A name \in ListedNames, ch \in Channels :
               Cardinality({i \in DOMAIN reply.infos : reply.infos[i][1] = Object(name, ch)}) = 1
    BY <1>2 DEF CallInv, ReplyPhase
  <2> HIDE DEF c
  <2>2. c.method = "crateIsOn" /\ reply.returned = <<TRUE>> => <<1>> \in seen[Asked(c)]
    <3> SUFFICES ASSUME c.method = "crateIsOn", reply.returned = <<TRUE>> PROVE <<1>> \in seen[Asked(c)]
      OBVIOUS
    <3>1. reply.answer = << <<1>> >>
      BY <2>1
    <3>2. reply.answer # << >> /\ reply.answer[1] = <<1>>
      BY <3>1
    <3> QED
      BY <2>1, <3>2
  <2>3. c.method = "getCrateStatus" /\ reply.answer # << >> /\ reply.returned # << >> =>
          \E s \in seen[Asked(c)] : reply.returned[1] = MibBits(s)
    BY <2>1
  <2>4. \A i \in DOMAIN reply.infos : reply.infos[i][2] # << >> => reply.infos[i][2][1] \in seen[reply.infos[i][1]]
    BY <2>1, QueueIs DEF TrueList
  <2> QED
    BY <2>1, <2>2, <2>3, <2>4 DEF AnswersAreTrue, ListedNames, c
<1> QED
  BY <1>1, <1>2

\* What a call reports has been in the crate since it asked for it, a status has the bits
\* of the MIB, and a list has each channel once (AnswersAreTrue): the requests and the
\* loops of SNMPConnector and Mpod, whatever is lost, late, sent again or changed by hand,
\* as long as no number is used again while a datagram with it is on its way.
THEOREM AnswersTrue == MSpec /\ []NumbersFresh => []AnswersAreTrue
<1>1. MInit => CallInv
  BY CallInvInit
<1>2. CallInv /\ NumbersFresh /\ [MNext]_mvars => CallInv'
  BY CallInvStep
<1>3. CallInv => AnswersAreTrue
  BY RepliesAreTrue
<1> QED
  BY <1>1, <1>2, <1>3, PTL DEF MSpec
===============
