---------------------------- MODULE Messages_proofs ----------------------------
(***************************************************************************)
(* What the messages say, proved for any programs and pages, texts, states *)
(* and actions, and any number of messages: whoever handles a message      *)
(* reads what was put into it and knows who has sent it, and no handler    *)
(* ends by an exception as long as no text of a log is one fmt cannot take *)
(* and no program has come whose name is one, or whose class is none.      *)
(***************************************************************************)
EXTENDS Messages, SequenceTheorems, TLAPS

\* The words a program signs with.
ProgramKey(c) == Key(ClassOf[c], NameOf[c])

\* A message from which its handler reads what was to be said with it, and on which no
\* handler ends, but for a text that is braced.
Says(message, said) ==
  /\ message = [Type |-> message.Type, From |-> message.From, Content |-> message.Content]
  /\ message.Type \in TYPE
  /\ Handler(message.Type) = message.Type
  /\ Reading(message.Type, message.Content) = said
  /\ message.Type = "Action" => ValueAt(message.Content, "Action") \in Run!Action
  /\ message.Type = "Log" => ValueAt(message.Content, "Level") \in LEVEL
                             /\ ValueAt(message.Content, "Log") \in Texts

Sound(e) ==
  /\ e = Envelope(e.message, e.origin, e.said)
  /\ Says(e.message, e.said)

\* What a client sends.
ClientTypes == {"State", "Action", "Data", "Response", "Command", "Log"}

\* What a client has sent is its own, signed unless it is a page.
UpSound(c, e) ==
  /\ Sound(e)
  /\ e.message.Type \in ClientTypes
  /\ e.origin = c
  /\ e.message.From = IF c \in Page THEN << >> ELSE ProgramKey(c)

\* Who a message is from.
FromTrue(c, e) ==
  LET from == Identifier(e.message.From)
  IN  CASE e.origin = "Server" -> from = ServerKey \/ c \in Page
        [] e.origin \in Page -> from[1] = ClassOf[e.origin]
        [] OTHER -> from = ProgramKey(e.origin)

DownSound(c, e) == Sound(e) /\ FromTrue(c, e)

\* The words of a client's key: behind the place its class and the two words of its name.
KeyOf(c, words) ==
  LET id == Identifier(words)
  IN  /\ Len(words) = 6 /\ words[4] = ClassOf[c]
      /\ ClassOf[c] \in DOMAIN CLASS
      /\ Len(id) = 3 /\ id[1] = ClassOf[c]
      /\ c \notin Page => id = ProgramKey(c)

IsQueue(q) == \E S : q \in Seq(S)

UpQueue(c, q) == IsQueue(q) /\ \A i \in 1..Len(q) : UpSound(c, q[i])

DownQueue(c, q) == IsQueue(q) /\ \A i \in 1..Len(q) : DownSound(c, q[i])

\* The registered clients have their own keys, and all that is on its way is sound.
MInv ==
  /\ m_BrowserNumber \in Nat
  /\ DOMAIN m_Clients \subseteq Client
  /\ \A c \in DOMAIN m_Clients : KeyOf(c, m_Clients[c])
  /\ up = [c \in Client |-> up[c]] /\ down = [c \in Client |-> down[c]]
  /\ \A c \in Client : up[c] # << >> => c \in DOMAIN m_Clients
  /\ \A c \in Client : UpQueue(c, up[c]) /\ DownQueue(c, down[c])

-----------------------------------------------------------------------------
(* Queues. *)

LEMMA QueueAppend ==
  ASSUME NEW q, IsQueue(q), NEW e
  PROVE  /\ IsQueue(Append(q, e)) /\ Append(q, e) # << >>
         /\ \A i \in 1..Len(Append(q, e)) :
              (i \in 1..Len(q) /\ Append(q, e)[i] = q[i]) \/ Append(q, e)[i] = e
<1>1. PICK S : q \in Seq(S)
  BY DEF IsQueue
<1> DEFINE T == S \cup {e}
<1>2. q \in Seq(T) /\ e \in T
  BY <1>1
<1> HIDE DEF T
<1>3. Append(q, e) \in Seq(T) /\ Len(Append(q, e)) = Len(q) + 1 /\ Len(q) \in Nat
  BY <1>2
<1>4. Append(q, e)[Len(q) + 1] = e /\ \A i \in 1..Len(q) : Append(q, e)[i] = q[i]
  BY <1>2
<1>5. Append(q, e) # << >>
  BY <1>3
<1> QED
  BY <1>3, <1>4, <1>5 DEF IsQueue

LEMMA QueueJoin ==
  ASSUME NEW q, IsQueue(q), NEW r, IsQueue(r)
  PROVE  /\ IsQueue(q \o r)
         /\ \A i \in 1..Len(q \o r) :
              \/ \E j \in 1..Len(q) : (q \o r)[i] = q[j]
              \/ \E j \in 1..Len(r) : (q \o r)[i] = r[j]
<1>1. PICK S : q \in Seq(S)
  BY DEF IsQueue
<1>2. PICK R : r \in Seq(R)
  BY DEF IsQueue
<1> DEFINE T == S \cup R
<1>3. q \in Seq(T) /\ r \in Seq(T)
  BY <1>1, <1>2
<1> HIDE DEF T
<1>4. q \o r \in Seq(T) /\ Len(q \o r) = Len(q) + Len(r) /\ Len(q) \in Nat /\ Len(r) \in Nat
  BY <1>3
<1>5. \A i \in 1..Len(q \o r) : (q \o r)[i] = IF i <= Len(q) THEN q[i] ELSE r[i - Len(q)]
  BY <1>3
<1>6. ASSUME NEW i \in 1..Len(q \o r)
      PROVE  \/ \E j \in 1..Len(q) : (q \o r)[i] = q[j]
             \/ \E j \in 1..Len(r) : (q \o r)[i] = r[j]
  <2>1. CASE i <= Len(q)
    BY <1>4, <1>5, <2>1
  <2>2. CASE i > Len(q)
    <3>1. i - Len(q) \in 1..Len(r) /\ (q \o r)[i] = r[i - Len(q)]
      BY <1>4, <1>5, <2>2
    <3> QED
      BY <3>1
  <2> QED
    BY <1>4, <2>1, <2>2
<1> QED
  BY <1>4, <1>6 DEF IsQueue

LEMMA QueueTail ==
  ASSUME NEW q, IsQueue(q), q # << >>
  PROVE  /\ IsQueue(Tail(q)) /\ Head(q) = q[1] /\ 1 \in 1..Len(q)
         /\ \A i \in 1..Len(Tail(q)) : i + 1 \in 1..Len(q) /\ Tail(q)[i] = q[i + 1]
<1>1. PICK S : q \in Seq(S)
  BY DEF IsQueue
<1>2. Tail(q) \in Seq(S) /\ Len(q) \in Nat \ {0} /\ Len(Tail(q)) = Len(q) - 1
  BY <1>1
<1>3. \A i \in 1..(Len(q) - 1) : Tail(q)[i] = q[i + 1]
  BY <1>1
<1> QED
  BY <1>1, <1>2, <1>3 DEF IsQueue

LEMMA QueueShort ==
  ASSUME NEW e
  PROVE  /\ IsQueue(<< >>) /\ IsQueue(<<e>>) /\ Len(<< >>) = 0
         /\ Len(<<e>>) = 1 /\ <<e>>[1] = e
<1>1. << >> \in Seq({e}) /\ <<e>> \in Seq({e})
  OBVIOUS
<1> QED
  BY <1>1 DEF IsQueue

\* A queue that grows by what is sound, or shrinks, stays sound.
LEMMA DownGrows ==
  ASSUME NEW c, NEW q, DownQueue(c, q), NEW e, DownSound(c, e)
  PROVE  DownQueue(c, Append(q, e))
<1>1. IsQueue(q) /\ \A i \in 1..Len(q) : DownSound(c, q[i])
  BY DEF DownQueue
<1>2. /\ IsQueue(Append(q, e))
      /\ \A i \in 1..Len(Append(q, e)) :
           (i \in 1..Len(q) /\ Append(q, e)[i] = q[i]) \/ Append(q, e)[i] = e
  BY <1>1, QueueAppend
<1> QED
  BY <1>1, <1>2 DEF DownQueue

LEMMA DownJoins ==
  ASSUME NEW c, NEW q, DownQueue(c, q), NEW e, DownSound(c, e)
  PROVE  DownQueue(c, q \o <<e>>) /\ DownQueue(c, q \o << >>)
<1>1. IsQueue(q) /\ \A i \in 1..Len(q) : DownSound(c, q[i])
  BY DEF DownQueue
<1>2. ASSUME NEW r, IsQueue(r), \A j \in 1..Len(r) : DownSound(c, r[j])
      PROVE  DownQueue(c, q \o r)
  <2>1. IsQueue(q) /\ IsQueue(r)
    BY <1>1, <1>2
  <2>2. /\ IsQueue(q \o r)
        /\ \A i \in 1..Len(q \o r) : \/ \E j \in 1..Len(q) : (q \o r)[i] = q[j]
                                     \/ \E j \in 1..Len(r) : (q \o r)[i] = r[j]
    BY <2>1, QueueJoin
  <2> QED
    BY <1>1, <1>2, <2>2 DEF DownQueue
<1>3. DownQueue(c, q \o <<e>>)
  <2>1. IsQueue(<<e>>) /\ Len(<<e>>) = 1 /\ <<e>>[1] = e
    BY QueueShort
  <2>2. \A j \in 1..Len(<<e>>) : DownSound(c, <<e>>[j])
    BY <2>1
  <2> QED
    BY <1>2, <2>1, <2>2
<1>4. DownQueue(c, q \o << >>)
  <2>1. IsQueue(<< >>) /\ Len(<< >>) = 0
    BY QueueShort
  <2>2. \A j \in 1..Len(<< >>) : DownSound(c, << >>[j])
    BY <2>1
  <2> QED
    BY <1>2, <2>1, <2>2
<1> QED
  BY <1>3, <1>4

LEMMA UpGrows ==
  ASSUME NEW c, NEW q, UpQueue(c, q), NEW e, UpSound(c, e)
  PROVE  UpQueue(c, Append(q, e))
<1>1. IsQueue(q) /\ \A i \in 1..Len(q) : UpSound(c, q[i])
  BY DEF UpQueue
<1>2. /\ IsQueue(Append(q, e))
      /\ \A i \in 1..Len(Append(q, e)) :
           (i \in 1..Len(q) /\ Append(q, e)[i] = q[i]) \/ Append(q, e)[i] = e
  BY <1>1, QueueAppend
<1> QED
  BY <1>1, <1>2 DEF UpQueue

LEMMA QueuesShrink ==
  ASSUME NEW c, NEW q, q # << >>
  PROVE  /\ UpQueue(c, q) => UpSound(c, Head(q)) /\ UpQueue(c, Tail(q))
         /\ DownQueue(c, q) => DownSound(c, Head(q)) /\ DownQueue(c, Tail(q))
<1>1. IsQueue(q) => /\ IsQueue(Tail(q)) /\ Head(q) = q[1] /\ 1 \in 1..Len(q)
                    /\ \A i \in 1..Len(Tail(q)) : i + 1 \in 1..Len(q) /\ Tail(q)[i] = q[i + 1]
  BY QueueTail
<1> QED
  BY <1>1 DEF UpQueue, DownQueue

LEMMA NoQueue ==
  ASSUME NEW c
  PROVE  UpQueue(c, << >>) /\ DownQueue(c, << >>)
<1>1. IsQueue(<< >>) /\ Len(<< >>) = 0
  BY QueueShort
<1> QED
  BY <1>1 DEF UpQueue, DownQueue

-----------------------------------------------------------------------------
(* Keys. *)

LEMMA WebClasses ==
  /\ \A w \in {"WebBrowser", "WebLogger"} : w \in DOMAIN CLASS /\ CLASS[w] >= Web
  /\ \A w \in DOMAIN CLASS : CLASS[w] >= Web => w \in {"WebBrowser", "WebLogger"}
BY DEF CLASS, Web

\* A registered client is a page exactly when its key's class is one of theirs.
LEMMA PagesAreWebBased ==
  ASSUME NEW c \in Client, NEW words, KeyOf(c, words)
  PROVE  IsWebBased(words) <=> c \in Page
BY WebClasses, MessagesAssumption DEF KeyOf, IsWebBased

LEMMA JoinedWords ==
  ASSUME NEW W, NEW p \in Seq(W), NEW q \in Seq(W)
  PROVE  /\ p \o q \in Seq(W) /\ Len(p \o q) = Len(p) + Len(q) /\ Len(q) \in Nat
         /\ \A i \in 1..Len(p) : (p \o q)[i] = p[i]
         /\ \A i \in 1..Len(q) : (p \o q)[Len(p) + i] = q[i]
OBVIOUS

LEMMA ShortWords ==
  ASSUME NEW W, NEW a \in W, NEW b \in W, NEW d \in W
  PROVE  /\ <<a>> \in Seq(W) /\ Len(<<a>>) = 1 /\ <<a>>[1] = a
         /\ <<a, b>> \in Seq(W) /\ Len(<<a, b>>) = 2
         /\ <<a, b, d>> \in Seq(W) /\ Len(<<a, b, d>>) = 3
OBVIOUS

LEMMA ThreeWords ==
  ASSUME NEW words, Len(words) = 3
  PROVE  Identifier(words) = words /\ words # << >>
BY DEF Identifier

LEMMA ServerKeyIs == Identifier(ServerKey) = ServerKey /\ ServerKey # << >>
<1> DEFINE w == "WebSocketServer"
<1>1. <<w>> \in Seq({w}) /\ <<w, w>> \in Seq({w}) /\ Len(<<w>>) = 1 /\ Len(<<w, w>>) = 2
  <2>1. w \in {w}
    OBVIOUS
  <2> HIDE DEF w
  <2> QED
    BY <2>1, ShortWords
<1>2. ServerKey = <<w>> \o <<w, w>>
  BY DEF ServerKey, Key
<1> HIDE DEF w
<1>3. Len(ServerKey) = 3
  BY <1>1, <1>2, JoinedWords
<1> QED
  BY <1>3, ThreeWords

LEMMA LastWords ==
  ASSUME NEW W, NEW s \in Seq(W), Len(s) = 6
  PROVE  /\ SubSeq(s, 4, 6) \in Seq(W) /\ Len(SubSeq(s, 4, 6)) = 3
         /\ \A i \in 1..3 : SubSeq(s, 4, 6)[i] = s[3 + i]
<1>1. \A i \in 4..6 : s[i] \in W
  <2>1. 4..6 \subseteq 1..Len(s)
    OBVIOUS
  <2> QED
    BY <2>1, ElementOfSeq
<1>2. /\ SubSeq(s, 4, 6) \in Seq(W)
      /\ Len(SubSeq(s, 4, 6)) = IF 4 <= 6 THEN 6 - 4 + 1 ELSE 0
      /\ \A i \in 1..(6 - 4 + 1) : SubSeq(s, 4, 6)[i] = s[4 + i - 1]
  BY <1>1, SubSeqProperties
<1> QED
  BY <1>2

LEMMA FirstWord ==
  ASSUME NEW W, NEW s \in Seq(W), s # << >>
  PROVE  SubSeq(s, 1, 1) \in Seq(W)
<1>1. \A i \in 1..1 : s[i] \in W
  OBVIOUS
<1> QED
  BY <1>1, SubSeqProperties

\* Behind a place of three words, three more are found again.
LEMMA LocalWords ==
  ASSUME NEW W, NEW place \in Seq(W), Len(place) = 3, NEW local \in Seq(W), Len(place \o local) = 6
  PROVE  Identifier(place \o local) = local /\ Len(local) = 3 /\ (place \o local)[4] = local[1]
<1>1. Len(local) = 3 /\ place \o local \in Seq(W)
  <2>1. /\ place \o local \in Seq(W) /\ Len(place \o local) = Len(place) + Len(local)
        /\ Len(local) \in Nat
    BY JoinedWords
  <2> QED
    BY <2>1
<1>2. \A i \in 1..3 : (place \o local)[3 + i] = local[i]
  BY <1>1, JoinedWords
<1>3. (place \o local)[4] = local[1]
  <2>1. 1 \in 1..3 /\ 3 + 1 = 4
    OBVIOUS
  <2> QED
    BY <1>2, <2>1
<1>4. SubSeq(place \o local, 4, 6) = local
  <2> DEFINE rest == SubSeq(place \o local, 4, 6)
  <2>1. rest \in Seq(W) /\ Len(rest) = 3 /\ \A i \in 1..3 : rest[i] = (place \o local)[3 + i]
    BY <1>1, LastWords
  <2> HIDE DEF rest
  <2>2. \A i \in 1..Len(rest) : rest[i] = local[i]
    BY <1>2, <2>1
  <2>3. rest = local
    BY <1>1, <2>1, <2>2, SeqEqual
  <2> QED
    BY <2>3 DEF rest
<1> QED
  BY <1>1, <1>3, <1>4 DEF Identifier

LEMMA OneMore ==
  ASSUME NEW W, NEW s \in Seq(W), NEW x \in W
  PROVE  Append(s, x) \in Seq(W)
OBVIOUS

LEMMA OneBefore ==
  ASSUME NEW W, NEW x \in W, NEW s \in Seq(W)
  PROVE  <<x>> \o s \in Seq(W) /\ (<<x>> \o s)[1] = x
OBVIOUS

KeyWords(c, words) ==
  LET id == Identifier(words)
  IN  /\ words[4] = ClassOf[c]
      /\ Len(id) = 3 /\ id[1] = ClassOf[c]
      /\ c \notin Page => id = ProgramKey(c)

Six(words) == Len(words) = 6

\* A key of six words is that of a client with two words in its name.
LEMMA SixWords ==
  ASSUME NEW c \in Client, Six(KeyAtServer(c))
  PROVE  KeyWords(c, KeyAtServer(c))
<1>1. PICK number : number = ToString(m_BrowserNumber)
  OBVIOUS
<1>2. PICK W : W = STRING \cup {"", ClassOf[c], number}
  OBVIOUS
<1>3. "" \in W /\ ClassOf[c] \in W /\ number \in W
  BY <1>2
<1>4. NameOf[c] \in Seq(W) /\ NameOf[c] # << >>
  BY <1>2, MessagesAssumption, SeqMonotonic
<1>5. PICK name \in Seq(W) :
        name = IF c \in Page THEN Append(SubSeq(NameOf[c], 1, 1), number) ELSE NameOf[c]
  <2>1. SubSeq(NameOf[c], 1, 1) \in Seq(W)
    BY <1>4, FirstWord
  <2>2. Append(SubSeq(NameOf[c], 1, 1), number) \in Seq(W)
    BY <1>3, <2>1, OneMore
  <2> QED
    BY <1>4, <2>2
<1>6. PICK local \in Seq(W) : local = <<ClassOf[c]>> \o name /\ local[1] = ClassOf[c]
  BY <1>3, <1>5, OneBefore
<1>7. <<"", "", "">> \in Seq(W) /\ Len(<<"", "", "">>) = 3
  BY <1>3, ShortWords
<1>8. KeyAtServer(c) = <<"", "", "">> \o local /\ (c \notin Page => local = ProgramKey(c))
  BY <1>1, <1>5, <1>6 DEF KeyAtServer, ProgramKey, Key
<1>9. Len(KeyAtServer(c)) = 6
  BY DEF Six
<1>10. PICK place \in Seq(W) : place = <<"", "", "">> /\ Len(place) = 3
  BY <1>7
<1>11. /\ Identifier(KeyAtServer(c)) = local /\ Len(local) = 3
       /\ KeyAtServer(c)[4] = ClassOf[c]
  <2>1. KeyAtServer(c) = place \o local
    BY <1>8, <1>10
  <2>2. Identifier(place \o local) = local /\ Len(local) = 3 /\ (place \o local)[4] = local[1]
    BY <1>9, <1>10, <2>1, LocalWords
  <2> QED
    BY <1>6, <2>1, <2>2
<1> QED
  BY <1>6, <1>8, <1>11 DEF KeyWords

LEMMA AcceptedKey ==
  ASSUME NEW c \in Client, WellFormed(KeyAtServer(c))
  PROVE  KeyOf(c, KeyAtServer(c))
BY SixWords DEF WellFormed, KeyOf, KeyWords, Six

\* The key of a client whose class there is is accepted, if it has six words.
LEMMA ClassKnown ==
  ASSUME NEW c \in Client, Harmless(c), Len(KeyAtServer(c)) = 6
  PROVE  WellFormed(KeyAtServer(c))
<1>1. ClassOf[c] \in DOMAIN CLASS
  BY WebClasses, MessagesAssumption DEF Harmless
<1> QED
  BY <1>1, SixWords DEF WellFormed, KeyWords, Six

\* Keys with the same words have the same name.
LEMMA SameRest ==
  ASSUME NEW W, NEW x \in W, NEW y \in W, NEW s \in Seq(W), NEW t \in Seq(W),
         <<x>> \o s = <<y>> \o t
  PROVE  s = t
<1>1. /\ Len(<<x>> \o s) = 1 + Len(s) /\ Len(<<y>> \o t) = 1 + Len(t)
      /\ Len(s) \in Nat /\ Len(t) \in Nat
      /\ \A i \in 1..Len(s) : (<<x>> \o s)[1 + i] = s[i]
      /\ \A i \in 1..Len(t) : (<<y>> \o t)[1 + i] = t[i]
  <2>1. <<x>> \in Seq(W) /\ Len(<<x>>) = 1 /\ <<y>> \in Seq(W) /\ Len(<<y>>) = 1
    BY ShortWords
  <2> QED
    BY <2>1, JoinedWords
<1>2. Len(s) = Len(t)
  BY <1>1
<1>3. \A i \in 1..Len(s) : s[i] = t[i]
  BY <1>1, <1>2
<1> QED
  BY <1>2, <1>3, SeqEqual

LEMMA ProgramKeyIs ==
  ASSUME NEW c \in Client
  PROVE  /\ ProgramKey(c)[1] = ClassOf[c] /\ ProgramKey(c) # << >>
         /\ \A d \in Client : ProgramKey(c) = ProgramKey(d) => NameOf[c] = NameOf[d]
<1>1. ASSUME NEW d \in Client
      PROVE  /\ ProgramKey(c)[1] = ClassOf[c] /\ ProgramKey(c) # << >>
             /\ ProgramKey(c) = ProgramKey(d) => NameOf[c] = NameOf[d]
  <2>1. PICK W : W = STRING \cup {ClassOf[c], ClassOf[d]}
    OBVIOUS
  <2>2. NameOf[c] \in Seq(W) /\ NameOf[d] \in Seq(W) /\ ClassOf[c] \in W /\ ClassOf[d] \in W
    BY <2>1, MessagesAssumption, SeqMonotonic
  <2>3. PICK x, y, s, t : x = ClassOf[c] /\ y = ClassOf[d] /\ s = NameOf[c] /\ t = NameOf[d]
    OBVIOUS
  <2>4. x \in W /\ y \in W /\ s \in Seq(W) /\ t \in Seq(W)
    BY <2>2, <2>3
  <2>5. ProgramKey(c) = <<x>> \o s /\ ProgramKey(d) = <<y>> \o t
    BY <2>3 DEF ProgramKey, Key
  <2>6. (<<x>> \o s)[1] = x /\ Len(<<x>> \o s) = 1 + Len(s) /\ Len(s) \in Nat
    <3>1. <<x>> \in Seq(W) /\ Len(<<x>>) = 1
      BY <2>4, ShortWords
    <3> QED
      BY <2>4, <3>1, OneBefore, JoinedWords
  <2>7. <<x>> \o s # << >>
    BY <2>6
  <2>8. <<x>> \o s = <<y>> \o t => s = t
    BY <2>4, SameRest
  <2> QED
    BY <2>3, <2>5, <2>6, <2>7, <2>8
<1> QED
  BY <1>1

\* fmt takes what a program of a proper name signs, the server, or a page.
LEMMA KnownFormats ==
  ASSUME NEW words, NEW o \in Client \cup {"Server"},
         o = "Server" => Identifier(words) = ServerKey,
         o \in Page => Identifier(words)[1] = ClassOf[o],
         o \in Client \ Page => Identifier(words) = ProgramKey(o) /\ o \notin BadlyNamed
  PROVE  Formats(words)
<1> SUFFICES ASSUME NEW c \in BadlyNamed, Identifier(words) = ProgramKey(c) PROVE FALSE
  BY DEF Formats, ProgramKey
<1>1. c \in Client \ Page /\ NameOf[c] \in BracedNames
  BY DEF BadlyNamed
<1>2. CASE o = "Server"
  BY <1>2, ServerFormats DEF ProgramKey
<1>3. CASE o \in Page
  <2>1. ClassOf[o] = ClassOf[c]
    BY <1>1, <1>3, ProgramKeyIs
  <2> QED
    BY <1>1, <1>3, <2>1, MessagesAssumption
<1>4. CASE o \in Client \ Page
  <2>1. NameOf[o] = NameOf[c]
    BY <1>1, <1>4, ProgramKeyIs
  <2> QED
    BY <1>1, <1>4, <2>1 DEF BadlyNamed
<1> QED
  BY <1>2, <1>3, <1>4

-----------------------------------------------------------------------------
(* Messages. *)

\* An entry that is set is read again, and no other is changed.
LEMMA EntrySet ==
  ASSUME NEW content, NEW key, NEW value
  PROVE  /\ ValueAt(Set(content, key, value), key) = value
         /\ \A k : k # key => ValueAt(Set(content, key, value), k) = ValueAt(content, k)
BY DEF ValueAt, Set

LEMMA Built ==
  ASSUME NEW type, NEW from, NEW content
  PROVE  LET message == [Type |-> type, From |-> from, Content |-> content]
         IN  /\ message.Type = type /\ message.From = from /\ message.Content = content
             /\ \A key, value : With(message, key, value) =
                                [Type |-> type, From |-> from, Content |-> Set(content, key, value)]
             /\ \A words : [message EXCEPT !.From = words] =
                            [Type |-> type, From |-> words, Content |-> content]
BY DEF With

\* To sign a message leaves what it says.
LEMMA SigningKeeps ==
  ASSUME NEW message, NEW said, Says(message, said), NEW words
  PROVE  LET signed == [message EXCEPT !.From = words]
         IN  Says(signed, said) /\ signed.From = words /\ signed.Type = message.Type
                                /\ signed.Content = message.Content
<1> DEFINE signed == [message EXCEPT !.From = words]
<1>1. signed = [Type |-> message.Type, From |-> words, Content |-> message.Content]
  <2>1. PICK t, f, k : message = [Type |-> t, From |-> f, Content |-> k]
    BY DEF Says
  <2> QED
    BY <2>1, Built
<1> HIDE DEF signed
<1>2. signed.From = words /\ signed.Type = message.Type /\ signed.Content = message.Content
  BY <1>1
<1>3. Says(signed, said)
  BY <1>1, <1>2 DEF Says
<1> QED
  BY <1>2, <1>3 DEF signed

LEMMA Enveloped ==
  ASSUME NEW message, NEW origin, NEW said
  PROVE  LET e == Envelope(message, origin, said)
         IN  /\ e.message = message /\ e.origin = origin /\ e.said = said
             /\ Says(message, said) => Sound(e)
<1> DEFINE e == Envelope(message, origin, said)
<1>1. e.message = message /\ e.origin = origin /\ e.said = said
  BY DEF Envelope
<1>2. e = Envelope(e.message, e.origin, e.said)
  BY <1>1
<1> QED
  BY <1>1, <1>2 DEF Sound

\* What a message is built of is what its handler reads.
LEMMA LogSays ==
  ASSUME NEW text \in Texts, NEW level \in LEVEL
  PROVE  LET said == [Log |-> text, Level |-> level]
         IN  Says(Log(said), said) /\ Log(said).Type = "Log" /\ Log(said).From = << >>
<1> DEFINE said == [Log |-> text, Level |-> level]
           one == Set(Null, "Log", text)
           content == Set(one, "Level", level)
<1>1. Log(said) = [Type |-> "Log", From |-> << >>, Content |-> content]
  <2>1. With([Type |-> "Log", From |-> << >>, Content |-> Null], "Log", text)
         = [Type |-> "Log", From |-> << >>, Content |-> one]
    BY Built
  <2>2. With([Type |-> "Log", From |-> << >>, Content |-> one], "Level", level)
         = [Type |-> "Log", From |-> << >>, Content |-> content]
    BY Built
  <2> HIDE DEF one, content
  <2> QED
    BY <2>1, <2>2 DEF Log, Message
<1>2. ValueAt(content, "Log") = text /\ ValueAt(content, "Level") = level
  <2>1. ValueAt(one, "Log") = text
    BY EntrySet
  <2> QED
    BY <2>1, EntrySet
<1> HIDE DEF content
<1>3. Reading("Log", content) = said
  BY <1>2 DEF Reading
<1> QED
  BY <1>1, <1>2, <1>3 DEF Says, TYPE, Handler

LEMMA StateSays ==
  ASSUME NEW state
  PROVE  LET said == [State |-> state]
         IN  Says(State(said), said) /\ State(said).Type = "State" /\ State(said).From = << >>
<1> DEFINE said == [State |-> state]
           content == Set(Null, "State", state)
<1>1. State(said) = [Type |-> "State", From |-> << >>, Content |-> content]
  BY Built DEF State, Message
<1>2. ValueAt(content, "State") = state
  BY EntrySet
<1> HIDE DEF content
<1>3. Reading("State", content) = said
  BY <1>2 DEF Reading
<1> QED
  BY <1>1, <1>2, <1>3 DEF Says, TYPE, Handler

LEMMA ActionSays ==
  ASSUME NEW action \in Run!Action
  PROVE  LET said == [Action |-> action]
         IN  Says(Action(said), said) /\ Action(said).Type = "Action" /\ Action(said).From = << >>
<1> DEFINE said == [Action |-> action]
           content == Set(Null, "Action", action)
<1>1. Action(said) = [Type |-> "Action", From |-> << >>, Content |-> content]
  BY Built DEF Action, Message
<1>2. ValueAt(content, "Action") = action
  BY EntrySet
<1> HIDE DEF content
<1>3. Reading("Action", content) = said
  BY <1>2 DEF Reading
<1> QED
  BY <1>1, <1>2, <1>3 DEF Says, TYPE, Handler

\* Content that is handed over as it is.
LEMMA ContentSays ==
  ASSUME NEW content
  PROVE  /\ LET said == [Event |-> content]
            IN  Says(Data(said), said) /\ Data(said).Type = "Data" /\ Data(said).From = << >>
         /\ LET said == [Request |-> content]
            IN  Says(Command(said), said) /\ Command(said).Type = "Command"
                                          /\ Command(said).From = << >>
         /\ LET said == [Answer |-> content]
            IN  Says(Response(said), said) /\ Response(said).Type = "Response"
                                           /\ Response(said).From = << >>
<1>1. /\ Reading("Data", content) = [Event |-> content]
      /\ Reading("Command", content) = [Request |-> content]
      /\ Reading("Response", content) = [Answer |-> content]
  BY DEF Reading
<1> QED
  BY <1>1, Built DEF Data, Command, Response, Message, Says, TYPE, Handler

LEMMA OpenSays ==
  ASSUME NEW all, NEW id, NEW key
  PROVE  LET said == [All |-> all, ID |-> id, Key |-> key]
         IN  Says(Open(said), said)
<1> DEFINE said == [All |-> all, ID |-> id, Key |-> key]
           some == Set(Null, "All", all)
           more == Set(some, "ID", id)
           content == Set(more, "Key", key)
<1>1. Open(said) = [Type |-> "Open", From |-> << >>, Content |-> content]
  <2>1. With([Type |-> "Open", From |-> << >>, Content |-> Null], "All", all)
         = [Type |-> "Open", From |-> << >>, Content |-> some]
    BY Built
  <2>2. With([Type |-> "Open", From |-> << >>, Content |-> some], "ID", id)
         = [Type |-> "Open", From |-> << >>, Content |-> more]
    BY Built
  <2>3. With([Type |-> "Open", From |-> << >>, Content |-> more], "Key", key)
         = [Type |-> "Open", From |-> << >>, Content |-> content]
    BY Built
  <2> HIDE DEF some, more, content
  <2> QED
    BY <2>1, <2>2, <2>3 DEF Open, Message
<1>2. /\ ValueAt(content, "All") = all /\ ValueAt(content, "ID") = id
      /\ ValueAt(content, "Key") = key
  <2>1. ValueAt(some, "All") = all
    BY EntrySet
  <2>2. ValueAt(more, "All") = all /\ ValueAt(more, "ID") = id
    BY <2>1, EntrySet
  <2> QED
    BY <2>2, EntrySet
<1> HIDE DEF content
<1>3. Reading("Open", content) = said
  BY <1>2 DEF Reading, OpenKeys
<1> QED
  BY <1>1, <1>3 DEF Says, TYPE, Handler

LEMMA CloseSays ==
  ASSUME NEW all, NEW id, NEW key, NEW code
  PROVE  LET said == [All |-> all, ID |-> id, Key |-> key, Code |-> code]
         IN  Says(Close(said), said)
<1> DEFINE said == [All |-> all, ID |-> id, Key |-> key, Code |-> code]
           one == Set(Null, "Code", code)
           two == Set(one, "ID", id)
           three == Set(two, "Key", key)
           content == Set(three, "All", all)
<1>1. Close(said) = [Type |-> "Close", From |-> << >>, Content |-> content]
  <2>1. With([Type |-> "Close", From |-> << >>, Content |-> Null], "Code", code)
         = [Type |-> "Close", From |-> << >>, Content |-> one]
    BY Built
  <2>2. With([Type |-> "Close", From |-> << >>, Content |-> one], "ID", id)
         = [Type |-> "Close", From |-> << >>, Content |-> two]
    BY Built
  <2>3. With([Type |-> "Close", From |-> << >>, Content |-> two], "Key", key)
         = [Type |-> "Close", From |-> << >>, Content |-> three]
    BY Built
  <2>4. With([Type |-> "Close", From |-> << >>, Content |-> three], "All", all)
         = [Type |-> "Close", From |-> << >>, Content |-> content]
    BY Built
  <2> HIDE DEF one, two, three, content
  <2> QED
    BY <2>1, <2>2, <2>3, <2>4 DEF Close, Message
<1>2. /\ ValueAt(content, "All") = all /\ ValueAt(content, "ID") = id
      /\ ValueAt(content, "Key") = key /\ ValueAt(content, "Code") = code
  <2>1. ValueAt(one, "Code") = code
    BY EntrySet
  <2>2. ValueAt(two, "Code") = code /\ ValueAt(two, "ID") = id
    BY <2>1, EntrySet
  <2>3. ValueAt(three, "Code") = code /\ ValueAt(three, "ID") = id /\ ValueAt(three, "Key") = key
    BY <2>2, EntrySet
  <2> QED
    BY <2>3, EntrySet
<1> HIDE DEF content
<1>3. Reading("Close", content) = said
  BY <1>2 DEF Reading, CloseKeys
<1> QED
  BY <1>1, <1>3 DEF Says, TYPE, Handler

\* What a client says by itself is what it builds; it is not signed yet.
LEMMA SayingsSay ==
  ASSUME NEW c \in Client, NEW s \in Sayings(c)
  PROVE  Says(s[1], s[2]) /\ s[1].Type \in ClientTypes /\ s[1].From = << >>
<1>1. ASSUME NEW r, s = <<Command([Request |-> r]), [Request |-> r]>>
      PROVE  Says(s[1], s[2]) /\ s[1].Type \in ClientTypes /\ s[1].From = << >>
  BY <1>1, ContentSays DEF ClientTypes
<1>2. ASSUME NEW a \in Actions, s = <<Action([Action |-> a]), [Action |-> a]>>
      PROVE  Says(s[1], s[2]) /\ s[1].Type \in ClientTypes /\ s[1].From = << >>
  BY <1>2, ActionSays, MessagesAssumption DEF ClientTypes
<1>3. ASSUME NEW t, s = <<State([State |-> t]), [State |-> t]>>
      PROVE  Says(s[1], s[2]) /\ s[1].Type \in ClientTypes /\ s[1].From = << >>
  BY <1>3, StateSays DEF ClientTypes
<1>4. ASSUME NEW l \in [Log : Texts, Level : LogLevels], s = <<Log(l), l>>
      PROVE  Says(s[1], s[2]) /\ s[1].Type \in ClientTypes /\ s[1].From = << >>
  <2>1. PICK text \in Texts, level \in LEVEL : l = [Log |-> text, Level |-> level]
    BY MessagesAssumption
  <2> QED
    BY <1>4, <2>1, LogSays DEF ClientTypes
<1>5. ASSUME NEW e, s = <<Data([Event |-> e]), [Event |-> e]>>
      PROVE  Says(s[1], s[2]) /\ s[1].Type \in ClientTypes /\ s[1].From = << >>
  BY <1>5, ContentSays DEF ClientTypes
<1>6. \/ \E r : s = <<Command([Request |-> r]), [Request |-> r]>>
      \/ \E a \in Actions : s = <<Action([Action |-> a]), [Action |-> a]>>
      \/ \E t : s = <<State([State |-> t]), [State |-> t]>>
      \/ \E l \in [Log : Texts, Level : LogLevels] : s = <<Log(l), l>>
      \/ \E e : s = <<Data([Event |-> e]), [Event |-> e]>>
  <2>1. CASE c \in Page
    BY <2>1 DEF Sayings
  <2>2. CASE c \notin Page /\ ClassOf[c] = "Controller"
    BY <2>2 DEF Sayings
  <2>3. CASE c \notin Page /\ ClassOf[c] # "Controller"
    BY <2>3 DEF Sayings
  <2> QED
    BY <2>1, <2>2, <2>3
<1> QED
  BY <1>1, <1>2, <1>3, <1>4, <1>5, <1>6

\* What a client puts into its connection is its own.
LEMMA OwnMessage ==
  ASSUME NEW c \in Client, NEW message, NEW said, Says(message, said),
         message.Type \in ClientTypes, message.From = << >>
  PROVE  UpSound(c, Envelope(SignedByClient(message, c), c, said))
<1> DEFINE signed == SignedByClient(message, c)
<1>1. /\ Says(signed, said) /\ signed.Type \in ClientTypes
      /\ signed.From = IF c \in Page THEN << >> ELSE ProgramKey(c)
  BY SigningKeeps DEF SignedByClient, ProgramKey
<1> HIDE DEF signed
<1> DEFINE e == Envelope(signed, c, said)
<1>2. e.message = signed /\ e.origin = c /\ Sound(e)
  BY <1>1, Enveloped
<1> HIDE DEF e
<1>3. UpSound(c, e)
  BY <1>1, <1>2 DEF UpSound
<1> QED
  BY <1>3 DEF e, signed

\* What the server passes on says the same, and names whom it is from.
LEMMA Relayed ==
  ASSUME NEW c \in Client, KeyOf(c, m_Clients[c]), NEW e, UpSound(c, e)
  PROVE  LET relayed == [e EXCEPT !.message = Signed(@, c)]
         IN  /\ \A d : DownSound(d, relayed)
             /\ c \in Page => relayed.message.From = Identifier(m_Clients[c])
<1> DEFINE id == Identifier(m_Clients[c])
           signed == Signed(e.message, c)
           relayed == [e EXCEPT !.message = Signed(@, c)]
<1>1. Len(id) = 3 /\ id[1] = ClassOf[c] /\ (c \notin Page => id = ProgramKey(c))
  BY DEF KeyOf
<1> HIDE DEF id
<1>2. Identifier(id) = id /\ id # << >>
  BY <1>1, ThreeWords
<1>3. Says(e.message, e.said) /\ e.origin = c /\ e = Envelope(e.message, e.origin, e.said)
  BY DEF UpSound, Sound
<1>4. Says(signed, e.said) /\ signed.From = id
  <2>1. CASE c \in Page
    <3>1. e.message.From = << >> /\ IsWebBased(m_Clients[c])
      BY <2>1, PagesAreWebBased DEF UpSound
    <3>2. signed = [e.message EXCEPT !.From = id]
      BY <3>1 DEF Signed, id
    <3> HIDE DEF signed
    <3> QED
      BY <1>3, <3>2, SigningKeeps
  <2>2. CASE c \notin Page
    <3>1. e.message.From = id
      BY <1>1, <2>2 DEF UpSound
    <3> QED
      BY <1>2, <1>3, <3>1 DEF Signed
  <2> QED
    BY <2>1, <2>2
<1>5. relayed = Envelope(signed, c, e.said)
  <2>1. PICK m, s : e = Envelope(m, c, s)
    BY <1>3
  <2> QED
    BY <2>1 DEF Envelope
<1> HIDE DEF relayed, signed
<1>6. Sound(relayed) /\ relayed.message = signed /\ relayed.origin = c
  BY <1>4, <1>5, Enveloped
<1>7. c # "Server"
  BY MessagesAssumption
<1>8. ASSUME NEW d PROVE DownSound(d, relayed)
  BY <1>1, <1>2, <1>4, <1>6, <1>7 DEF DownSound, FromTrue
<1> QED
  BY <1>4, <1>6, <1>8 DEF relayed, id

-----------------------------------------------------------------------------
(* The invariant. *)

LEMMA MInit == Init => MInv
<1> SUFFICES ASSUME Init PROVE MInv
  OBVIOUS
<1>1. DOMAIN m_Clients = {}
  BY DEF Init
<1>2. \A c \in Client : up[c] = << >> /\ down[c] = << >>
  BY DEF Init
<1>3. up = [c \in Client |-> up[c]] /\ down = [c \in Client |-> down[c]] /\ m_BrowserNumber \in Nat
  BY DEF Init
<1> QED
  BY <1>1, <1>2, <1>3, NoQueue DEF MInv

\* To whoever is told, what is told is appended.
LEMMA Told ==
  ASSUME MInv, NEW receivers, NEW e, To(receivers, e),
         \A d \in receivers \cap Client : DownSound(d, e)
  PROVE  /\ down' = [d \in Client |-> down'[d]]
         /\ \A d \in Client : DownQueue(d, down'[d])
<1>1. down' = [d \in Client |-> IF d \in receivers THEN Append(down[d], e) ELSE down[d]]
  BY DEF To
<1>2. ASSUME NEW d \in Client PROVE DownQueue(d, down'[d])
  <2>1. DownQueue(d, down[d])
    BY DEF MInv
  <2>2. CASE d \in receivers
    <3>1. DownSound(d, e) /\ down'[d] = Append(down[d], e)
      BY <1>1, <2>2
    <3> QED
      BY <2>1, <3>1, DownGrows
  <2>3. CASE d \notin receivers
    BY <1>1, <2>1, <2>3
  <2> QED
    BY <2>2, <2>3
<1> QED
  BY <1>1, <1>2

LEMMA JoinKeeps ==
  ASSUME MInv, NEW c \in Client, Join(c)
  PROVE  MInv'
<1> DEFINE key == KeyAtServer(c)
           clients == Set(m_Clients, c, key)
           said == [All |-> {Identifier(clients[d]) : d \in DOMAIN clients}, ID |-> c,
                    Key |-> Identifier(key)]
           signed == [Open(said) EXCEPT !.From = ServerKey]
           e == Envelope(signed, "Server", said)
<1>1. m_BrowserNumber' \in Nat /\ up' = up
  BY DEF Join, MInv
<1>2. CASE WellFormed(key)
  <2>1. m_Clients' = clients /\ To(DOMAIN clients, e)
    BY <1>2 DEF Join
  <2>2. DOMAIN clients = DOMAIN m_Clients \cup {c} /\ clients[c] = key
        /\ \A d \in DOMAIN m_Clients \ {c} : clients[d] = m_Clients[d]
    BY DEF Set
  <2>3. KeyOf(c, key)
    BY <1>2, AcceptedKey
  <2>4. ASSUME NEW d PROVE DownSound(d, e)
    <3>1. Says(Open(said), said)
      BY OpenSays
    <3> HIDE DEF said
    <3>2. Says(signed, said) /\ signed.From = ServerKey
      BY <3>1, SigningKeeps
    <3> HIDE DEF signed
    <3>3. Sound(e) /\ e.message = signed /\ e.origin = "Server"
      BY <3>2, Enveloped
    <3> HIDE DEF e
    <3>4. "Server" \notin Page
      BY MessagesAssumption
    <3> QED
      BY <3>2, <3>3, <3>4, ServerKeyIs DEF DownSound, FromTrue
  <2> HIDE DEF key, clients, e
  <2>5. /\ down' = [d \in Client |-> down'[d]]
        /\ \A d \in Client : DownQueue(d, down'[d])
    BY <2>1, <2>4, Told
  <2>6. /\ DOMAIN m_Clients' \subseteq Client /\ DOMAIN m_Clients \subseteq DOMAIN m_Clients'
        /\ \A d \in DOMAIN m_Clients' : KeyOf(d, m_Clients'[d])
    BY <2>1, <2>2, <2>3 DEF MInv
  <2> QED
    BY <1>1, <2>5, <2>6 DEF MInv
<1>3. CASE ~WellFormed(key)
  <2>1. m_Clients' = m_Clients /\ down' = down
    BY <1>3 DEF Join
  <2> QED
    BY <1>1, <2>1 DEF MInv
<1> QED
  BY <1>2, <1>3

LEMMA LeaveKeeps ==
  ASSUME MInv, NEW c \in Client, Leave(c)
  PROVE  MInv'
<1> DEFINE clients == [d \in Registered \ {c} |-> m_Clients[d]]
           said == [All |-> {Identifier(clients[d]) : d \in DOMAIN clients}, ID |-> c,
                    Key |-> Identifier(m_Clients[c]), Code |-> "1000"]
           signed == [Close(said) EXCEPT !.From = m_Clients[c]]
           e == Envelope(signed, c, said)
<1>1. /\ m_Clients' = clients
      /\ down' = [d \in Client |-> IF d = c THEN << >>
                                  ELSE IF d \in DOMAIN clients THEN Append(down[d], e) ELSE down[d]]
      /\ m_BrowserNumber' = m_BrowserNumber /\ up' = up /\ up[c] = << >> /\ c \in DOMAIN m_Clients
  BY DEF Leave, Registered
<1>2. /\ DOMAIN clients = DOMAIN m_Clients \ {c}
      /\ \A d \in DOMAIN clients : clients[d] = m_Clients[d]
  BY DEF Registered
<1>3. ASSUME NEW d PROVE DownSound(d, e)
  <2>1. Says(Close(said), said)
    BY CloseSays
  <2> HIDE DEF said
  <2>2. Says(signed, said) /\ signed.From = m_Clients[c]
    BY <2>1, SigningKeeps
  <2> HIDE DEF signed
  <2>3. Sound(e) /\ e.message = signed /\ e.origin = c
    BY <2>2, Enveloped
  <2>4. KeyOf(c, m_Clients[c]) /\ c # "Server"
    BY <1>1, MessagesAssumption DEF MInv
  <2> QED
    BY <2>2, <2>3, <2>4 DEF DownSound, FromTrue, KeyOf
<1> HIDE DEF e, clients
<1>4. ASSUME NEW d \in Client PROVE DownQueue(d, down'[d])
  <2>1. DownQueue(d, down[d]) /\ DownSound(d, e)
    BY <1>3 DEF MInv
  <2>2. down'[d] = << >> \/ down'[d] = Append(down[d], e) \/ down'[d] = down[d]
    BY <1>1
  <2> QED
    BY <2>1, <2>2, DownGrows, NoQueue
<1>5. /\ DOMAIN m_Clients' \subseteq Client
      /\ \A d \in DOMAIN m_Clients' : KeyOf(d, m_Clients'[d])
      /\ \A d \in Client : up'[d] # << >> => d \in DOMAIN m_Clients'
  BY <1>1, <1>2 DEF MInv
<1> QED
  BY <1>1, <1>4, <1>5 DEF MInv

\* What a registered client puts into its connection is behind what is in it.
LEMMA PutKeeps ==
  ASSUME MInv, NEW c \in DOMAIN m_Clients, NEW message, NEW said, Says(message, said),
         message.Type \in ClientTypes, message.From = << >>, Put(c, message, said)
  PROVE  /\ up' = [d \in Client |-> up'[d]]
         /\ \A d \in Client : UpQueue(d, up'[d])
         /\ \A d \in Client : up'[d] # << >> => d \in DOMAIN m_Clients
<1> DEFINE e == Envelope(SignedByClient(message, c), c, said)
<1>1. c \in Client
  BY DEF MInv
<1>2. UpSound(c, e)
  BY <1>1, OwnMessage
<1>3. up' = [up EXCEPT ![c] = Append(@, e)]
  BY DEF Put
<1> HIDE DEF e
<1>4. up' = [d \in Client |-> IF d = c THEN Append(up[c], e) ELSE up[d]]
  BY <1>1, <1>3 DEF MInv
<1>5. UpQueue(c, Append(up[c], e))
  BY <1>1, <1>2, UpGrows DEF MInv
<1> QED
  BY <1>4, <1>5 DEF MInv

LEMMA SayKeeps ==
  ASSUME MInv, NEW c \in Client, Say(c)
  PROVE  MInv'
<1>1. c \in DOMAIN m_Clients /\ UNCHANGED <<m_Clients, m_BrowserNumber, down>>
  BY DEF Say, Registered
<1>2. PICK s \in Sayings(c) : Put(c, s[1], s[2])
  BY DEF Say
<1>3. Says(s[1], s[2]) /\ s[1].Type \in ClientTypes /\ s[1].From = << >>
  BY SayingsSay
<1>4. /\ up' = [d \in Client |-> up'[d]]
      /\ \A d \in Client : UpQueue(d, up'[d])
      /\ \A d \in Client : up'[d] # << >> => d \in DOMAIN m_Clients
  BY <1>1, <1>2, <1>3, PutKeeps
<1> QED
  BY <1>1, <1>4 DEF MInv

\* The three ways of the server to take a message.
LEMMA ServerSends ==
  ASSUME MInv, NEW c \in DOMAIN m_Clients, NEW e, UpSound(c, e),
         RelayPlain(c, e) \/ RelayCommand(c, e) \/ TakeLog(c, e)
  PROVE  /\ down' = [d \in Client |-> down'[d]]
         /\ \A d \in Client : DownQueue(d, down'[d])
<1> DEFINE relayed == [e EXCEPT !.message = Signed(@, c)]
<1>1. c \in Client /\ KeyOf(c, m_Clients[c])
  BY DEF MInv
<1>2. \A d : DownSound(d, relayed)
  BY <1>1, Relayed
<1>3. c \in Page => relayed.message.From = Identifier(m_Clients[c])
  BY <1>1, Relayed
<1>4. CASE RelayPlain(c, e)
  <2>1. To(Registered \ {c}, relayed)
    BY <1>4 DEF RelayPlain
  <2> HIDE DEF relayed
  <2> QED
    BY <1>2, <2>1, Told
<1>5. CASE RelayCommand(c, e)
  <2> DEFINE said == [Answer |-> HandleRequest(e.message.Content)]
             signed == Signed(Response(said), c)
             answer == Envelope(signed, "Server", said)
             named == {d \in Registered : Identifier(m_Clients[d]) = relayed.message.From}
  <2>1. down' = [d \in Client |-> down[d] \o (IF d \in Registered \ {c} THEN <<relayed>> ELSE << >>)
                                        \o (IF d \in named THEN <<answer>> ELSE << >>)]
    BY <1>5 DEF RelayCommand
  <2>2. /\ Says(signed, said)
        /\ signed.From = IF c \in Page THEN Identifier(m_Clients[c]) ELSE ServerKey
    <3>1. Says(Response(said), said) /\ Response(said).From = << >>
      BY ContentSays
    <3>2. PICK words : words = IF c \in Page THEN Identifier(m_Clients[c]) ELSE ServerKey
      OBVIOUS
    <3>3. signed = [Response(said) EXCEPT !.From = words]
      BY <1>1, <3>1, <3>2, PagesAreWebBased DEF Signed
    <3>4. Says(signed, said) /\ signed.From = words
      <4> HIDE DEF signed, said
      <4> QED
        BY <3>1, <3>3, SigningKeeps
    <3> QED
      BY <3>2, <3>4
  <2> HIDE DEF signed
  <2>3. Sound(answer) /\ answer.message = signed /\ answer.origin = "Server"
    BY <2>2, Enveloped
  <2> HIDE DEF answer
  <2>4. ASSUME NEW d \in named PROVE DownSound(d, answer)
    <3>1. "Server" \notin Page
      BY MessagesAssumption
    <3>2. CASE c \notin Page
      BY <2>2, <2>3, <3>1, <3>2, ServerKeyIs DEF DownSound, FromTrue
    <3>3. CASE c \in Page
      <4>1. d \in Client /\ KeyOf(d, m_Clients[d]) /\ Identifier(m_Clients[d]) = Identifier(m_Clients[c])
        BY <1>3, <3>3 DEF MInv, Registered
      <4>2. ClassOf[d] = ClassOf[c]
        BY <1>1, <4>1 DEF KeyOf
      <4>3. d \in Page
        BY <3>3, <4>1, <4>2, MessagesAssumption
      <4> QED
        BY <2>3, <3>1, <4>3 DEF DownSound, FromTrue
    <3> QED
      BY <3>2, <3>3
  <2> HIDE DEF relayed, named
  <2>5. ASSUME NEW d \in Client PROVE DownQueue(d, down'[d])
    <3>1. DownQueue(d, down[d])
      BY DEF MInv
    <3>2. PICK q : q = down[d] \o (IF d \in Registered \ {c} THEN <<relayed>> ELSE << >>)
      OBVIOUS
    <3>3. DownQueue(d, q)
      <4>1. DownQueue(d, down[d] \o <<relayed>>) /\ DownQueue(d, down[d] \o << >>)
        BY <1>2, <3>1, DownJoins
      <4> QED
        BY <3>2, <4>1
    <3>4. DownQueue(d, q \o << >>)
      BY <1>2, <3>3, DownJoins
    <3>5. d \in named => DownQueue(d, q \o <<answer>>)
      BY <2>4, <3>3, DownJoins
    <3>6. down'[d] = q \o (IF d \in named THEN <<answer>> ELSE << >>)
      BY <2>1, <3>2
    <3> QED
      BY <3>4, <3>5, <3>6
  <2> QED
    BY <2>1, <2>5
<1>6. CASE TakeLog(c, e)
  BY <1>6 DEF TakeLog, MInv
<1> QED
  BY <1>4, <1>5, <1>6

LEMMA TakeKeeps ==
  ASSUME MInv, NEW c \in Client, Take(c)
  PROVE  MInv'
<1> DEFINE e == Head(up[c])
<1>1. /\ c \in DOMAIN m_Clients /\ up[c] # << >> /\ up' = [up EXCEPT ![c] = Tail(@)]
      /\ RelayPlain(c, e) \/ RelayCommand(c, e) \/ TakeLog(c, e)
      /\ UNCHANGED <<m_Clients, m_BrowserNumber>>
  BY DEF Take, Registered
<1>2. UpSound(c, e) /\ UpQueue(c, Tail(up[c]))
  BY <1>1, QueuesShrink DEF MInv
<1> HIDE DEF e
<1>3. /\ down' = [d \in Client |-> down'[d]]
      /\ \A d \in Client : DownQueue(d, down'[d])
  BY <1>1, <1>2, ServerSends
<1>4. up' = [d \in Client |-> IF d = c THEN Tail(up[c]) ELSE up[d]]
  BY <1>1 DEF MInv
<1> QED
  BY <1>1, <1>2, <1>3, <1>4 DEF MInv

LEMMA HandleKeeps ==
  ASSUME MInv, NEW c \in Client, Handle(c)
  PROVE  MInv'
<1>1. /\ c \in DOMAIN m_Clients /\ down[c] # << >> /\ down' = [down EXCEPT ![c] = Tail(@)]
      /\ UNCHANGED <<m_Clients, m_BrowserNumber>>
  BY DEF Handle, Registered
<1>2. \/ up' = up
      \/ LET said == [Answer |-> HandleRequest(Head(down[c]).message.Content)]
         IN  Put(c, Response(said), said)
  BY DEF Handle
<1>3. /\ up' = [d \in Client |-> up'[d]]
      /\ \A d \in Client : UpQueue(d, up'[d])
      /\ \A d \in Client : up'[d] # << >> => d \in DOMAIN m_Clients
  <2>1. CASE up' = up
    BY <2>1 DEF MInv
  <2>2. CASE up' # up
    <3> DEFINE said == [Answer |-> HandleRequest(Head(down[c]).message.Content)]
    <3>1. Put(c, Response(said), said)
      BY <1>2, <2>2
    <3>2. Says(Response(said), said) /\ Response(said).Type = "Response" /\ Response(said).From = << >>
      BY ContentSays
    <3> HIDE DEF said
    <3>3. Response(said).Type \in ClientTypes
      BY <3>2 DEF ClientTypes
    <3> QED
      BY <1>1, <3>1, <3>2, <3>3, PutKeeps
  <2> QED
    BY <2>1, <2>2
<1>4. down' = [d \in Client |-> IF d = c THEN Tail(down[c]) ELSE down[d]]
  BY <1>1 DEF MInv
<1>5. DownQueue(c, Tail(down[c]))
  BY <1>1, QueuesShrink DEF MInv
<1> QED
  BY <1>1, <1>3, <1>4, <1>5 DEF MInv

LEMMA MNext == MInv /\ [Next]_vars => MInv'
<1> SUFFICES ASSUME MInv, [Next]_vars PROVE MInv'
  OBVIOUS
<1>1. CASE UNCHANGED vars
  BY <1>1 DEF vars, MInv
<1>2. CASE Next
  <2>1. PICK c \in Client : Join(c) \/ Leave(c) \/ Say(c) \/ Take(c) \/ Handle(c)
    BY <1>2 DEF Next
  <2> QED
    BY <2>1, JoinKeeps, LeaveKeeps, SayKeeps, TakeKeeps, HandleKeeps
<1> QED
  BY <1>1, <1>2

\* The invariant holds, whatever the programs are and however much they say.
THEOREM MessagesInvariant == Spec => []MInv
BY MInit, MNext, PTL DEF Spec

-----------------------------------------------------------------------------
(* What the runs check. *)

\* Whoever handles a message reads from it what was put into it, and knows who has sent
\* it (the constructors and getters of Message.cpp, addFrom of MessageHandlerServer.cpp).
THEOREM MessagesUnderstood == Spec => []Understood
<1>1. MInv => Understood
  <2> SUFFICES ASSUME MInv, NEW c \in Client, down[c] # << >>
               PROVE  LET envelope == Head(down[c])
                          message == envelope.message
                          from == Identifier(message.From)
                      IN  /\ Reading(Handler(message.Type), message.Content) = envelope.said
                          /\ CASE envelope.origin = "Server" -> from = ServerKey \/ c \in Page
                               [] envelope.origin \in Page -> from[1] = ClassOf[envelope.origin]
                               [] OTHER -> from = Key(ClassOf[envelope.origin], NameOf[envelope.origin])
    BY DEF Understood
  <2>1. DownSound(c, Head(down[c]))
    BY QueuesShrink DEF MInv
  <2> QED
    BY <2>1 DEF DownSound, Sound, Says, FromTrue, ProgramKey
<1> QED
  BY <1>1, MessagesInvariant, PTL

-----------------------------------------------------------------------------
(* Who a message comes from has come. *)

Known == Came \cup {"Server"}

OriginsIn(S, q) == \A i \in 1..Len(q) : q[i].origin \in S

OInv ==
  /\ Came \subseteq Client
  /\ \A c \in Client : OriginsIn(Known, down[c])

LEMMA OriginsJoin ==
  ASSUME NEW T, NEW q, IsQueue(q), OriginsIn(T, q), NEW r, IsQueue(r), OriginsIn(T, r)
  PROVE  OriginsIn(T, q \o r) /\ IsQueue(q \o r)
<1>1. /\ IsQueue(q \o r)
      /\ \A i \in 1..Len(q \o r) : \/ \E j \in 1..Len(q) : (q \o r)[i] = q[j]
                                   \/ \E j \in 1..Len(r) : (q \o r)[i] = r[j]
  BY QueueJoin
<1>2. /\ \A j \in 1..Len(q) : q[j].origin \in T
      /\ \A j \in 1..Len(r) : r[j].origin \in T
  BY DEF OriginsIn
<1>3. ASSUME NEW i \in 1..Len(q \o r) PROVE (q \o r)[i].origin \in T
  <2>1. CASE \E j \in 1..Len(q) : (q \o r)[i] = q[j]
    BY <1>2, <2>1
  <2>2. CASE \E j \in 1..Len(r) : (q \o r)[i] = r[j]
    BY <1>2, <2>2
  <2> QED
    BY <1>1, <2>1, <2>2
<1> QED
  BY <1>1, <1>3 DEF OriginsIn

\* However a queue changes, by a message of somebody known, or one less.
LEMMA OriginsGrow ==
  ASSUME NEW S, NEW T, S \subseteq T, NEW q, IsQueue(q), OriginsIn(S, q), NEW e, e.origin \in T
  PROVE  /\ OriginsIn(T, q) /\ OriginsIn(T, Append(q, e))
         /\ OriginsIn(T, q \o <<e>>) /\ OriginsIn(T, q \o << >>)
         /\ IsQueue(q \o <<e>>) /\ IsQueue(q \o << >>)
<1>1. OriginsIn(T, q)
  BY DEF OriginsIn
<1>2. OriginsIn(T, Append(q, e))
  <2>1. \A i \in 1..Len(Append(q, e)) :
          (i \in 1..Len(q) /\ Append(q, e)[i] = q[i]) \/ Append(q, e)[i] = e
    BY QueueAppend
  <2> QED
    BY <1>1, <2>1 DEF OriginsIn
<1>3. ASSUME NEW r, IsQueue(r), OriginsIn(T, r) PROVE OriginsIn(T, q \o r) /\ IsQueue(q \o r)
  BY <1>1, <1>3, OriginsJoin
<1>4. IsQueue(<<e>>) /\ OriginsIn(T, <<e>>)
  <2>1. IsQueue(<<e>>) /\ Len(<<e>>) = 1 /\ <<e>>[1] = e
    BY QueueShort
  <2> QED
    BY <2>1 DEF OriginsIn
<1>5. IsQueue(<< >>) /\ OriginsIn(T, << >>)
  <2>1. IsQueue(<< >>) /\ Len(<< >>) = 0
    BY QueueShort
  <2> QED
    BY <2>1 DEF OriginsIn
<1> QED
  BY <1>1, <1>2, <1>3, <1>4, <1>5

LEMMA OriginsShrink ==
  ASSUME NEW S, NEW q, IsQueue(q), OriginsIn(S, q), q # << >>
  PROVE  OriginsIn(S, Tail(q)) /\ Head(q).origin \in S
<1>1. /\ Head(q) = q[1] /\ 1 \in 1..Len(q)
      /\ \A i \in 1..Len(Tail(q)) : i + 1 \in 1..Len(q) /\ Tail(q)[i] = q[i + 1]
  BY QueueTail
<1> QED
  BY <1>1 DEF OriginsIn

\* Nobody who has come is forgotten.
LEMMA CameGrows ==
  ASSUME MInv, NEW c \in Client, Join(c) \/ Leave(c) \/ Say(c) \/ Take(c) \/ Handle(c)
  PROVE  Came \subseteq Came' /\ (Join(c) => c \in Came')
<1>1. CASE Join(c)
  <2>1. DOMAIN Set(m_Clients, c, KeyAtServer(c)) = DOMAIN m_Clients \cup {c}
    BY DEF Set
  <2> QED
    BY <1>1, <2>1 DEF Join, Came, Registered
<1>2. CASE Leave(c)
  BY <1>2 DEF Leave, Came, Registered
<1>3. CASE Say(c) \/ Take(c) \/ Handle(c)
  <2>1. m_Clients' = m_Clients /\ away' = away
    BY <1>3 DEF Say, Take, Handle
  <2>2. CASE Join(c)
    BY <1>1, <2>2
  <2>3. CASE ~Join(c)
    BY <2>1, <2>3 DEF Came, Registered
  <2> QED
    BY <2>2, <2>3
<1> QED
  BY <1>1, <1>2, <1>3

LEMMA OInit == Init => OInv
<1> SUFFICES ASSUME Init, NEW c \in Client PROVE OriginsIn(Known, down[c])
  BY DEF OInv, Init, Came, Registered
<1>1. down[c] = << >> /\ Len(<< >>) = 0
  BY QueueShort DEF Init
<1> QED
  BY <1>1 DEF OriginsIn

\* What a step does to a queue of messages from the server.
Changes(q, r) ==
  \/ r = q \/ r = << >>
  \/ q # << >> /\ r = Tail(q)
  \/ \E e : e.origin \in Known /\ r = Append(q, e)
  \/ \E e, f : /\ e.origin \in Known /\ f.origin \in Known
               /\ \E v \in {<<e>>, << >>}, w \in {<<f>>, << >>} : r = q \o v \o w

LEMMA ChangesKnow ==
  ASSUME NEW q, IsQueue(q), OriginsIn(Known, q), NEW r, Changes(q, r)
  PROVE  OriginsIn(Known, r)
<1>1. PICK S : S = Known
  OBVIOUS
<1>2. OriginsIn(S, << >>)
  <2>1. Len(<< >>) = 0
    BY QueueShort
  <2> QED
    BY <2>1 DEF OriginsIn
<1>3. ASSUME q # << >> PROVE OriginsIn(S, Tail(q))
  BY <1>1, <1>3, OriginsShrink
<1>4. ASSUME NEW e, e.origin \in S PROVE OriginsIn(S, Append(q, e))
  BY <1>1, <1>4, OriginsGrow
<1>5. ASSUME NEW e, NEW f, e.origin \in S, f.origin \in S,
             NEW v \in {<<e>>, << >>}, NEW w \in {<<f>>, << >>}
      PROVE  OriginsIn(S, q \o v \o w)
  <2>1. IsQueue(q \o v) /\ OriginsIn(S, q \o v)
    <3>1. /\ IsQueue(q \o <<e>>) /\ OriginsIn(S, q \o <<e>>)
          /\ IsQueue(q \o << >>) /\ OriginsIn(S, q \o << >>)
      BY <1>1, <1>5, OriginsGrow
    <3> QED
      BY <3>1
  <2>2. PICK p : p = q \o v
    OBVIOUS
  <2>3. OriginsIn(S, p \o <<f>>) /\ OriginsIn(S, p \o << >>)
    BY <1>5, <2>1, <2>2, OriginsGrow
  <2> QED
    BY <2>2, <2>3
<1>6. CASE r = q \/ r = << >>
  BY <1>1, <1>2, <1>6
<1>7. CASE q # << >> /\ r = Tail(q)
  BY <1>1, <1>3, <1>7
<1>8. CASE \E e : e.origin \in Known /\ r = Append(q, e)
  BY <1>1, <1>4, <1>8
<1>9. CASE \E e, f : /\ e.origin \in Known /\ f.origin \in Known
                     /\ \E v \in {<<e>>, << >>}, w \in {<<f>>, << >>} : r = q \o v \o w
  <2>1. PICK e, f : /\ e.origin \in Known /\ f.origin \in Known
                    /\ \E v \in {<<e>>, << >>}, w \in {<<f>>, << >>} : r = q \o v \o w
    BY <1>9
  <2>2. PICK v \in {<<e>>, << >>}, w \in {<<f>>, << >>} : r = q \o v \o w
    BY <2>1
  <2> QED
    BY <1>1, <1>5, <2>1, <2>2
<1> QED
  BY <1>6, <1>7, <1>8, <1>9 DEF Changes

\* Where each step takes what it puts into a queue from.
LEMMA StepChanges ==
  ASSUME MInv, NEW c \in Client, Join(c) \/ Leave(c) \/ Say(c) \/ Take(c) \/ Handle(c),
         NEW d \in Client
  PROVE  Changes(down[d], down'[d])
<1>1. CASE Join(c)
  <2>1. CASE down' = down
    BY <2>1 DEF Changes
  <2>2. CASE \E S, e : To(S, e) /\ e.origin = "Server"
    <3>1. PICK S, e : To(S, e) /\ e.origin = "Server"
      BY <2>2
    <3>2. down'[d] = down[d] \/ down'[d] = Append(down[d], e)
      BY <3>1 DEF To
    <3> QED
      BY <3>1, <3>2 DEF Changes, Known
  <2>3. down' = down \/ \E S, m, said : To(S, Envelope(m, "Server", said))
    BY <1>1 DEF Join
  <2>4. \A m, said : Envelope(m, "Server", said).origin = "Server"
    BY DEF Envelope
  <2> QED
    BY <2>1, <2>2, <2>3, <2>4
<1>2. CASE Leave(c)
  <2> DEFINE clients == [x \in Registered \ {c} |-> m_Clients[x]]
             said == [All |-> {Identifier(clients[x]) : x \in DOMAIN clients}, ID |-> c,
                      Key |-> Identifier(m_Clients[c]), Code |-> "1000"]
             e == Envelope([Close(said) EXCEPT !.From = m_Clients[c]], c, said)
  <2>1. down' = [x \in Client |-> IF x = c THEN << >>
                                  ELSE IF x \in DOMAIN clients THEN Append(down[x], e) ELSE down[x]]
    BY <1>2 DEF Leave
  <2>2. e.origin = c /\ c \in Known
    BY <1>2 DEF Envelope, Leave, Known, Came
  <2> HIDE DEF clients, e
  <2>3. down'[d] = << >> \/ down'[d] = Append(down[d], e) \/ down'[d] = down[d]
    BY <2>1
  <2> QED
    BY <2>2, <2>3 DEF Changes
<1>3. CASE Say(c)
  BY <1>3 DEF Say, Changes
<1>4. CASE Take(c)
  <2>1. PICK e : e = Head(up[c])
    OBVIOUS
  <2>2. UpSound(c, e) /\ c \in Known /\ (RelayPlain(c, e) \/ RelayCommand(c, e) \/ TakeLog(c, e))
    BY <1>4, <2>1, QueuesShrink DEF Take, MInv, Known, Came
  <2>3. PICK f : f = [e EXCEPT !.message = Signed(@, c)]
    OBVIOUS
  <2>4. f.origin = c
    <3>1. PICK m, s : e = Envelope(m, c, s)
      BY <2>2 DEF UpSound, Sound
    <3> QED
      BY <2>3, <3>1 DEF Envelope
  <2>5. CASE RelayPlain(c, e)
    <3>1. down'[d] = down[d] \/ down'[d] = Append(down[d], f)
      BY <2>3, <2>5 DEF RelayPlain, To
    <3> QED
      BY <2>2, <2>4, <3>1 DEF Changes
  <2>6. CASE RelayCommand(c, e)
    <3> DEFINE answered == [Answer |-> HandleRequest(e.message.Content)]
               g == Envelope(Signed(Response(answered), c), "Server", answered)
               relayed == [e EXCEPT !.message = Signed(@, c)]
               named == {x \in Registered : Identifier(m_Clients[x]) = relayed.message.From}
    <3>1. down' = [x \in Client |-> down[x] \o (IF x \in Registered \ {c} THEN <<relayed>> ELSE << >>)
                                           \o (IF x \in named THEN <<g>> ELSE << >>)]
      BY <2>6 DEF RelayCommand
    <3>2. relayed = f
      BY <2>3
    <3>3. g.origin = "Server"
      BY DEF Envelope
    <3> HIDE DEF g, relayed, named
    <3>4. PICK v \in {<<f>>, << >>}, w \in {<<g>>, << >>} : down'[d] = down[d] \o v \o w
      BY <3>1, <3>2
    <3> QED
      BY <2>2, <2>4, <3>3, <3>4 DEF Changes, Known
  <2>7. CASE TakeLog(c, e)
    BY <2>7 DEF TakeLog, Changes
  <2> QED
    BY <2>2, <2>5, <2>6, <2>7
<1>5. CASE Handle(c)
  <2>1. down[c] # << >> /\ down' = [down EXCEPT ![c] = Tail(@)]
    BY <1>5 DEF Handle
  <2>2. down'[d] = down[d] \/ (d = c /\ down'[d] = Tail(down[d]))
    BY <2>1 DEF MInv
  <2> QED
    BY <2>1, <2>2 DEF Changes
<1> QED
  BY <1>1, <1>2, <1>3, <1>4, <1>5

LEMMA ONext == MInv /\ OInv /\ [Next]_vars => OInv'
<1> SUFFICES ASSUME MInv, OInv, [Next]_vars PROVE OInv'
  OBVIOUS
<1>1. CASE UNCHANGED vars
  BY <1>1 DEF vars, OInv, OriginsIn, Known, Came, Registered
<1>2. CASE Next
  <2>1. PICK c \in Client : Join(c) \/ Leave(c) \/ Say(c) \/ Take(c) \/ Handle(c)
    BY <1>2 DEF Next
  <2>2. Known \subseteq Known'
    BY <2>1, CameGrows DEF Known
  <2>3. ASSUME NEW d \in Client PROVE OriginsIn(Known, down'[d])
    <3>1. IsQueue(down[d]) /\ OriginsIn(Known, down[d])
      BY DEF MInv, DownQueue, OInv
    <3> QED
      BY <2>1, <3>1, StepChanges, ChangesKnow
  <2>4. \A d \in Client : OriginsIn(Known', down'[d])
    BY <2>2, <2>3 DEF OriginsIn
  <2>5. Came' \subseteq Came \cup {c}
    <3>1. CASE Join(c)
      <4>1. DOMAIN Set(m_Clients, c, KeyAtServer(c)) = DOMAIN m_Clients \cup {c}
        BY DEF Set
      <4> QED
        BY <3>1, <4>1 DEF Join, Came, Registered
    <3>2. CASE Leave(c)
      BY <3>2 DEF Leave, Came, Registered
    <3>3. CASE Say(c) \/ Take(c) \/ Handle(c)
      BY <3>3 DEF Say, Take, Handle, Came, Registered
    <3> QED
      BY <2>1, <3>1, <3>2, <3>3
  <2> QED
    BY <2>1, <2>4, <2>5 DEF OInv
<1> QED
  BY <1>1, <1>2

\* Where no text is braced, every text is a format.
LEMMA TextsPrint ==
  ASSUME Braced = {}, NEW message, NEW said, Says(message, said)
  PROVE  message.Type = "Log" => Printable(message.Content)
BY DEF Says, Printable

\* Where no text is braced, a sound message whose sender's key is a format ends nobody.
LEMMA NothingThrows ==
  ASSUME Braced = {}, NEW message, NEW said, Says(message, said), Formats(message.From),
         NEW class
  PROVE  ~Throws(class, message)
BY TextsPrint DEF Says, Throws

\* As long as all who have come are harmless and no text is braced, no step ends anybody.
LEMMA NobodyEndsNow ==
  ASSUME MInv, OInv, Braced = {}, ended = {}, [Next]_vars, \A c \in Came' : Harmless(c)
  PROVE  ended' = {}
<1>1. ASSUME NEW c \in Client, Join(c) PROVE ended' = {}
  <2>1. Harmless(c)
    BY <1>1, CameGrows
  <2>2. Len(KeyAtServer(c)) = 6 => WellFormed(KeyAtServer(c))
    BY <2>1, ClassKnown
  <2> QED
    BY <1>1, <2>2 DEF Join
<1>2. ASSUME NEW c \in Client, Leave(c) PROVE ended' = {}
  BY <1>2 DEF Leave
<1>3. ASSUME NEW c \in Client, Say(c) PROVE ended' = {}
  <2>1. PICK s \in Sayings(c) :
          ended' = ended \cup (IF s[1].Type = "Log" /\ ~Printable(s[1].Content) THEN {c} ELSE {})
    BY <1>3 DEF Say
  <2>2. Says(s[1], s[2])
    BY SayingsSay
  <2> QED
    BY <2>1, <2>2, TextsPrint
<1>4. ASSUME NEW c \in Client, Take(c) PROVE ended' = {}
  <2>1. PICK e : e = Head(up[c])
    OBVIOUS
  <2>2. UpSound(c, e) /\ (RelayPlain(c, e) \/ RelayCommand(c, e) \/ TakeLog(c, e))
    BY <1>4, <2>1, QueuesShrink DEF Take, MInv
  <2>3. CASE RelayPlain(c, e) \/ RelayCommand(c, e)
    BY <2>3 DEF RelayPlain, RelayCommand
  <2>4. CASE TakeLog(c, e)
    <3>1. Harmless(c) /\ KeyOf(c, m_Clients[c])
      BY <1>4, CameGrows DEF Take, Came, MInv, Registered
    <3>2. Formats(e.message.From)
      <4>1. PICK words : words = e.message.From
        OBVIOUS
      <4>2. CASE c \in Page
        <5>1. words = << >>
          BY <2>2, <4>1, <4>2 DEF UpSound
        <5>2. Identifier(words) = << >>
          BY <5>1 DEF Identifier
        <5> QED
          BY <4>1, <5>2, ProgramKeyIs DEF Formats, BadlyNamed, ProgramKey
      <4>3. CASE c \notin Page
        <5>1. words = ProgramKey(c)
          BY <2>2, <4>1, <4>3 DEF UpSound
        <5>2. Identifier(words) = words
          <6>1. Len(words) = 3
            BY <3>1, <4>3, <5>1 DEF KeyOf
          <6> QED
            BY <6>1, ThreeWords
        <5>3. c # "Server" /\ c \notin BadlyNamed
          BY <3>1, MessagesAssumption DEF Harmless
        <5> QED
          BY <4>1, <4>3, <5>1, <5>2, <5>3, KnownFormats
      <4> QED
        BY <4>2, <4>3
    <3>3. e.message.Type = "Log" => Printable(e.message.Content)
      BY <2>2, TextsPrint DEF UpSound, Sound
    <3> QED
      BY <2>4, <3>2, <3>3 DEF TakeLog
  <2> QED
    BY <2>2, <2>3, <2>4
<1>5. ASSUME NEW c \in Client, Handle(c) PROVE ended' = {}
  <2>1. PICK e : e = Head(down[c])
    OBVIOUS
  <2>2. DownSound(c, e) /\ e.origin \in Known
    BY <1>5, <2>1, QueuesShrink, OriginsShrink DEF Handle, MInv, OInv, DownQueue
  <2>3. c \in Page => ended' = {}
    BY <1>5 DEF Handle
  <2>4. ASSUME c \notin Page PROVE Formats(e.message.From)
    <3>1. Came \subseteq Client
      BY DEF OInv
    <3>2. e.origin \in Client \cup {"Server"} /\ "Server" \notin Page /\ "Server" \notin Client
      BY <2>2, <3>1, MessagesAssumption DEF Known
    <3>3. e.origin \in Client => e.origin \notin BadlyNamed
      BY <1>5, <2>2, <3>2, CameGrows DEF Known, Harmless
    <3>4. FromTrue(c, e)
      BY <2>2 DEF DownSound
    <3> QED
      BY <2>4, <3>2, <3>3, <3>4, KnownFormats DEF FromTrue
  <2>5. c \notin Page => ~Throws(ClassOf[c], e.message)
    BY <2>2, <2>4, NothingThrows DEF DownSound, Sound
  <2> QED
    BY <1>5, <2>1, <2>3, <2>5 DEF Handle
<1> QED
  BY <1>1, <1>2, <1>3, <1>4, <1>5 DEF Next, vars

\* No handler ends its process by an exception, whatever is sent, as long as no text of
\* a log is one that fmt cannot take for a format (printLog in src/MessageHandler.cpp)
\* and whoever has come is of a class there is (Infos::setKey) and of a name that is a
\* format (printState, printAction, printData and printClose).
THEOREM NobodyEndsOfWhatIsSaid == Spec => []NobodyEnds
<1>1. Init => NobodyEnds
  BY DEF Init, NobodyEnds
<1>2. MInv /\ OInv /\ NobodyEnds /\ [Next]_vars => NobodyEnds'
  <2> SUFFICES ASSUME MInv, OInv, NobodyEnds, [Next]_vars, Braced = {}, \A c \in Came' : Harmless(c)
               PROVE  ended' = {}
    BY DEF NobodyEnds
  <2>1. Came \subseteq Came'
    <3>1. CASE UNCHANGED vars
      BY <3>1 DEF vars, Came, Registered
    <3>2. CASE Next
      BY <3>2, CameGrows DEF Next
    <3> QED
      BY <3>1, <3>2
  <2>2. ended = {}
    BY <2>1 DEF NobodyEnds
  <2> QED
    BY <2>2, NobodyEndsNow
<1> QED
  BY <1>1, <1>2, OInit, ONext, MessagesInvariant, PTL DEF Spec

=============================================================================
