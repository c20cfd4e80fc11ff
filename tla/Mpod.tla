-------------------------------- MODULE Mpod --------------------------------
(***************************************************************************)
(* The WIENER crate (extras/WIENER/src/Mpod.cpp) behind its SNMP connector *)
(* (extras/SNMP/src/SNMPConnector.cpp).  A remote call becomes requests    *)
(* over UDP, one after the other: a get, or for a change a get that tells  *)
(* the type, the set, and a get of what has become of it.                  *)
(*                                                                         *)
(* net-snmp is external: it sends a request again when no answer comes in  *)
(* time, gives up after Retries of them, takes an answer by its request's  *)
(* number and frees the request when it returns.  Datagrams are lost and   *)
(* late, the crate refuses changes, somebody turns its knobs or unplugs it. *)
(***************************************************************************)
EXTENDS Integers, Sequences, FiniteSets

CONSTANTS
  Slots,       \* MaxSlotsPerCrate
  Modules,     \* the channels of each slot that has a module
  Versions,    \* the versions of SNMP the file may ask for
  Methods,     \* the methods that are called
  Voltages, Statuses,            \* values of the crate; a status is a string of octets
  Retries,     \* m_retries
  MaxCalls,    \* bound: calls
  MaxFaults,   \* bound: lost datagrams, late answers, failing sockets, hands at the crate
  MaxId        \* request numbers, used again after so many

\* Channels are numbered in hundreds, and requests over and over.
ASSUME ModulesAssumption ==
  /\ Slots \in Nat \ {0} /\ DOMAIN Modules \subseteq 0..(Slots - 1)
  /\ \A s \in DOMAIN Modules : Modules[s] \in 0..100
  /\ Statuses # {} /\ \A s \in Statuses : s \in Seq(0..255)
  /\ Retries \in Nat /\ MaxId \in Nat \ {0}

VARIABLES
  version, session,   \* m_version; "closed", "open", or "dead" when the process has ended
  crate,              \* what the objects of the crate hold: octets, or one number
  call,               \* the method that is being called, NoCall if none
  todo,               \* the requests its code is still to make
  result,             \* the answer to the last get, << >> if none
  infos, gaveUp,      \* what getChannelsInfos has got; whether a request of the call had no answer
  pdu,                \* the request snmp_synch_response waits for
  sent, net, silent,  \* the number of the last request; the datagrams on their way; whether the crate is unplugged
  reply,              \* what the last call has returned
  seen,               \* history: what an object has held since it was last asked for, or set
  calls, faults       \* counters of the bounds

counters == <<calls, faults>>
mvars == <<version, session, crate, call, todo, result, infos, gaveUp, pdu, sent,
           net, silent, reply, seen, counters>>

NoCall == [method |-> "none", channel |-> 0, value |-> 0]
NoPdu == [id |-> 0, op |-> "none", object |-> <<"none", 0>>, value |-> << >>, tries |-> 0]
NoReply == [call |-> NoCall, answer |-> << >>, returned |-> << >>, infos |-> << >>, gaveUp |-> FALSE]

-----------------------------------------------------------------------------
(* The objects of the crate. *)

\* The number of channel ch of a slot.
Numbered(slot, ch) == 100 * slot + ch
Channels == UNION {{Numbered(s, c) : c \in 0..(Modules[s] - 1)} : s \in DOMAIN Modules}

Object(name, n) == <<name, n>>
Crate == {Object(name, 0) : name \in {"sysMainSwitch", "sysStatus", "outputNumber", "moduleNumber"}}
Channel == {Object(name, ch) : ch \in Channels,
              name \in {"outputVoltage", "outputSwitch", "outputName", "outputGroup",
                        "outputMeasurementTerminalVoltage", "outputMeasurementCurrent"}}
Objects == Crate \cup Channel \cup {Object("moduleDescription", s) : s \in DOMAIN Modules}

Settable(o) == o[1] \in {"sysMainSwitch", "outputVoltage", "outputSwitch"}

\* The methods of the board that only read, and the object they ask for.
Gets ==
  [crateIsOn |-> "sysMainSwitch", crateIsOff |-> "sysMainSwitch", getCrateStatus |-> "sysStatus",
   getVoltage |-> "outputVoltage", getMeasuredVoltage |-> "outputMeasurementTerminalVoltage",
   getMeasuredCurrent |-> "outputMeasurementCurrent", channelName |-> "outputName",
   whichModule |-> "outputGroup", getNumberOfChannels |-> "outputNumber",
   getNumberOfModules |-> "moduleNumber", getModuleDescription |-> "moduleDescription"]

\* The methods that set one.
Sets ==
  [turnOnCrate |-> "sysMainSwitch", turnOffCrate |-> "sysMainSwitch", setVoltage |-> "outputVoltage",
   turnOn |-> "outputSwitch", turnOff |-> "outputSwitch"]

ValueOf(m, v) == IF m = "setVoltage" THEN <<v>> ELSE IF m \in {"turnOnCrate", "turnOn"} THEN <<1>> ELSE <<0>>

Calls == {c \in
  [method : DOMAIN Gets \ {"getModuleDescription"}, channel : Channels, value : {0}]
    \cup [method : {"getModuleDescription"}, channel : 0..(Slots - 1), value : {0}]
    \cup [method : {"setVoltage"}, channel : Channels, value : Voltages]
    \cup [method : DOMAIN Sets \ {"setVoltage"}, channel : Channels, value : {0}]
    \cup [method : {"getChannelsInfos"}, channel : {0}, value : {0}] : c.method \in Methods}

\* The object of a call; those of the crate have no number.
Asked(c) ==
  LET name == IF c.method \in DOMAIN Gets THEN Gets[c.method] ELSE Sets[c.method]
  IN  IF Object(name, 0) \in Crate THEN Object(name, 0) ELSE Object(name, c.channel)

-----------------------------------------------------------------------------
(* receive: an octet string is text or a number. *)

\* Text unless an octet is 0, which ends the C string, or not a character.
IsText(octets) == \A i \in DOMAIN octets : octets[i] \in 1..127

TwoTo == [n \in 0..8 |-> <<1, 2, 4, 8, 16, 32, 64, 128, 256>>[n + 1]]

Bit(octet, n) == (octet \div TwoTo[n]) % 2 = 1

NumberAsItIs(octets) ==   \* slip: the bits of an octet are not turned round
  {8 * (i - 1) + n : i \in DOMAIN octets, n \in 0..7} \cap
    {b \in 0..(8 * Len(octets) - 1) : Bit(octets[(b \div 8) + 1], b % 8)}

\* The bits of the number: those of each octet in the other order.
Number(octets) == {b \in 0..(8 * Len(octets) - 1) : Bit(octets[(b \div 8) + 1], 7 - (b % 8))}

\* What a method makes of the answer: << >> where the conversion throws.  A get without
\* an answer is null, which converts to FALSE, 0 and "".
Converted(m, answer) ==
  CASE m = "crateIsOn" -> << answer = << <<1>> >> >>
    [] m = "crateIsOff" -> << answer # << <<1>> >> >>
    [] m \in {"turnOn", "turnOff"} -> <<TRUE>>
    [] m \in {"turnOnCrate", "turnOffCrate", "setVoltage"} -> << answer # << >> /\ answer # << <<0>> >> >>
    [] m = "getCrateStatus" /\ answer # << >> -> IF IsText(answer[1]) THEN << >> ELSE <<Number(answer[1])>>
    [] m = "getCrateStatus" /\ answer = << >> -> << {} >>
    [] OTHER -> answer

-----------------------------------------------------------------------------
(* The requests of a call. *)

Get(o) == [op |-> "get", object |-> o, value |-> << >>]
Put(o, v) == [op |-> "set", object |-> o, value |-> <<v>>]

\* send returns what it has received to know the type, or nothing of what it has done.
RequestsWithoutReadBack(c) ==   \* slip
  IF c.method = "getChannelsInfos" THEN <<Get(Object("moduleDescription", 0))>>
  ELSE IF c.method \in DOMAIN Gets THEN <<Get(Asked(c))>>
  ELSE <<Get(Asked(c)), Put(Asked(c), ValueOf(c.method, c.value))>>

Requests(c) ==
  IF c.method = "getChannelsInfos" THEN <<Get(Object("moduleDescription", 0))>>
  ELSE IF c.method \in DOMAIN Gets THEN <<Get(Asked(c))>>
  ELSE <<Get(Asked(c)), Put(Asked(c), ValueOf(c.method, c.value)), Get(Asked(c))>>

\* getChannelsInfos goes on with the channels of a slot that has described itself, and
\* with the next slot.  The current is asked for twice, as current and as set_current.
OfChannel == <<"outputName", "outputMeasurementCurrent", "outputMeasurementCurrent",
               "outputMeasurementTerminalVoltage", "outputVoltage">>

Further(o, answer) ==
  LET number == IF answer = << >> THEN 0 ELSE answer[1][1]
  IN  IF call.method # "getChannelsInfos" \/ o[1] # "moduleDescription" THEN << >>
      ELSE [i \in 1..(5 * number) |->
             Get(Object(OfChannel[((i - 1) % 5) + 1], Numbered(o[2], (i - 1) \div 5)))]
           \o IF o[2] + 1 < Slots THEN <<Get(Object("moduleDescription", o[2] + 1))>> ELSE << >>

\* findType throws when the first get of a change has brought nothing.
TypeUnknown(answer) == answer = << >> /\ \E i \in DOMAIN todo : todo[i].op = "set"

MInit ==
  /\ version \in Versions /\ session = "closed"
  /\ crate = [o \in Objects |->
                CASE o[1] = "sysStatus" -> CHOOSE s \in Statuses : TRUE
                  [] o[1] = "moduleDescription" -> <<Modules[o[2]]>>
                  [] o[1] \in {"outputMeasurementCurrent", "outputNumber", "moduleNumber"} -> <<1>>
                  [] o[1] \in {"outputName", "outputGroup"} -> <<o[2]>>
                  [] OTHER -> <<0>>]
  /\ call = NoCall /\ todo = << >> /\ result = << >> /\ infos = << >> /\ gaveUp = FALSE
  /\ pdu = NoPdu /\ sent = 0 /\ net = {} /\ silent = FALSE
  /\ reply = NoReply
  /\ seen = [o \in Objects |-> {crate[o]}]
  /\ calls = 0 /\ faults = 0

\* DoConnect and DoDisconnect; the module calls them between two remote calls.
DoConnect ==
  /\ session = "closed"
  /\ session' = "open"
  /\ UNCHANGED <<version, crate, call, todo, result, infos, gaveUp, pdu, sent, net, silent, reply, seen, counters>>

DoDisconnect ==
  /\ session = "open" /\ call = NoCall
  /\ session' = "closed"
  /\ UNCHANGED <<version, crate, call, todo, result, infos, gaveUp, pdu, sent, net, silent, reply, seen, counters>>

\* A remote call.  Without a session it goes through a null pointer.
Call(c) ==
  /\ session # "dead" /\ call = NoCall /\ calls < MaxCalls
  /\ calls' = calls + 1
  /\ reply' = NoReply
  /\ \/ /\ session = "open"
        /\ call' = c /\ todo' = Requests(c) /\ result' = << >> /\ infos' = << >> /\ gaveUp' = FALSE
        /\ UNCHANGED session
     \/ /\ session = "closed"
        /\ session' = "dead"
        /\ UNCHANGED <<call, todo, result, infos, gaveUp>>
  /\ UNCHANGED <<version, crate, pdu, sent, net, silent, seen, faults>>

\* From now on, what the object holds.
Afresh(o) == IF o \in Objects THEN [seen EXCEPT ![o] = {crate[o]}] ELSE seen

\* The datagram of a request; one that nobody can receive is gone at once.
Datagram(p) ==
  IF silent THEN {}
  ELSE {[id |-> p.id, tries |-> p.tries, kind |-> p.op, object |-> p.object, value |-> p.value, error |-> FALSE]}

\* snmp_synch_response sends the next request.
Send ==
  /\ session = "open" /\ call # NoCall /\ todo # << >> /\ pdu = NoPdu
  /\ sent' = (sent + 1) % MaxId
  /\ pdu' = [id |-> sent', op |-> Head(todo).op, object |-> Head(todo).object,
             value |-> Head(todo).value, tries |-> Retries]
  /\ net' = net \cup Datagram(pdu')
  /\ seen' = Afresh(pdu'.object)
  /\ UNCHANGED <<version, session, crate, call, todo, result, infos, gaveUp, silent, reply, counters>>

\* The call returns, or an exception ends it, which the remote caller gets as an error.
Return(answer, returned, list) ==
  /\ call' = NoCall /\ todo' = << >> /\ result' = << >> /\ infos' = << >> /\ gaveUp' = FALSE
  /\ reply' = [call |-> call, answer |-> answer, returned |-> returned, infos |-> list, gaveUp |-> gaveUp]

\* receive leaves its loop with an answer, or when there is none; send goes on with the set.
Received(answer, none) ==
  IF TypeUnknown(answer) THEN Return(<< >>, << >>, << >>)
  ELSE /\ result' = answer
       /\ infos' = IF call.method = "getChannelsInfos" THEN Append(infos, <<pdu.object, answer>>) ELSE infos
       /\ todo' = Tail(todo) \o Further(pdu.object, answer)
       /\ gaveUp' = (gaveUp \/ none)
       /\ UNCHANGED <<call, reply>>

\* send has printed what has become of the set, and goes on with the get.
SetDone ==
  /\ todo' = Tail(todo)
  /\ UNCHANGED <<call, result, infos, gaveUp, reply>>

\* An answer, to the request that waits for it or to one that has been given up.  An
\* error ends a set; receive sends its request again, which has been freed.
Receive(d) ==
  /\ session = "open" /\ d.kind = "answer"
  /\ \/ /\ d.id # pdu.id
        /\ net' = net \ {d}
        /\ UNCHANGED <<session, call, todo, result, infos, gaveUp, pdu, reply, seen>>
     \/ /\ d.id = pdu.id /\ pdu.op = "get" /\ ~d.error
        /\ net' = net \ {d} /\ pdu' = NoPdu
        /\ Received(d.value, FALSE)
        /\ UNCHANGED <<session, seen>>
     \/ /\ d.id = pdu.id /\ pdu.op = "get" /\ d.error
        /\ \/ session' = "dead" /\ net' = net \ {d}
           \/ session' = session /\ net' = (net \ {d}) \cup Datagram(pdu)
        /\ UNCHANGED <<call, todo, result, infos, gaveUp, pdu, reply, seen>>
     \/ /\ d.id = pdu.id /\ pdu.op = "set"
        /\ net' = net \ {d} /\ pdu' = NoPdu
        /\ SetDone
        /\ seen' = Afresh(pdu.object)
        /\ UNCHANGED session
  /\ UNCHANGED <<version, crate, sent, silent, counters>>

Fault == faults < MaxFaults /\ faults' = faults + 1

\* No answer in time: its datagram has been lost, or is late.
Late ==
  /\ session = "open" /\ pdu # NoPdu
  /\ IF \E d \in net : d.id = pdu.id THEN Fault ELSE UNCHANGED faults

Resend ==
  /\ Late /\ pdu.tries > 0
  /\ pdu' = [pdu EXCEPT !.tries = @ - 1]
  /\ net' = net \cup Datagram(pdu')
  /\ UNCHANGED <<version, session, crate, call, todo, result, infos, gaveUp, sent, silent, reply, seen, calls>>

GiveUpUnstopped ==   \* slip: receive does not stop after a timeout
  /\ Late /\ pdu.tries = 0
  /\ pdu' = NoPdu
  /\ IF pdu.op = "set" THEN SetDone ELSE UNCHANGED <<call, todo, result, infos, gaveUp, reply>>
  /\ UNCHANGED <<version, session, crate, sent, net, silent, seen, calls>>

GiveUp ==
  /\ Late /\ pdu.tries = 0
  /\ pdu' = NoPdu
  /\ IF pdu.op = "set" THEN SetDone ELSE Received(<< >>, TRUE)
  /\ UNCHANGED <<version, session, crate, sent, net, silent, seen, calls>>

\* The request cannot be sent: receive throws, send prints it.
SocketFails ==
  /\ session = "open" /\ pdu # NoPdu /\ Fault
  /\ pdu' = NoPdu
  /\ IF pdu.op = "set" THEN SetDone ELSE Return(<< >>, << >>, << >>)
  /\ UNCHANGED <<version, session, crate, sent, net, silent, seen, calls>>

Finish ==
  /\ session = "open" /\ call # NoCall /\ todo = << >> /\ pdu = NoPdu
  /\ Return(result, Converted(call.method, result), infos)
  /\ UNCHANGED <<version, session, crate, pdu, sent, net, silent, seen, counters>>

\* The crate, the network and who stands before them.

Change(o, v) ==
  /\ crate' = [crate EXCEPT ![o] = v]
  /\ seen' = [seen EXCEPT ![o] = @ \cup {v}]

\* An object that is not there is an error in v1 and an answer without a value in v2c.
Serve(d) ==
  /\ d.kind # "answer" /\ ~silent
  /\ LET there == d.object \in Objects
         Answer(value, error) == net' = (net \ {d}) \cup {[d EXCEPT !.kind = "answer", !.value = value, !.error = error]}
     IN  \/ /\ d.kind = "get"
            /\ Answer(IF there THEN <<crate[d.object]>> ELSE << >>, ~there /\ version = "v1")
            /\ UNCHANGED <<crate, seen>>
         \/ /\ d.kind = "set" /\ Settable(d.object)
            /\ Change(d.object, d.value[1])
            /\ Answer(d.value, FALSE)
         \/ /\ d.kind = "set"
            /\ Answer(<< >>, TRUE)
            /\ UNCHANGED <<crate, seen>>
  /\ UNCHANGED <<version, session, call, todo, result, infos, gaveUp, pdu, sent, silent, reply, counters>>

Lose(d) ==
  /\ Fault
  /\ net' = net \ {d}
  /\ UNCHANGED <<version, session, crate, call, todo, result, infos, gaveUp, pdu, sent, silent, reply, seen, calls>>

Turn(o, v) ==
  /\ Fault
  /\ v # crate[o] /\ Change(o, v)
  /\ UNCHANGED <<version, session, call, todo, result, infos, gaveUp, pdu, sent, net, silent, reply, calls>>

Unplug ==
  /\ Fault
  /\ silent' = ~silent /\ net' = {}
  /\ UNCHANGED <<version, session, crate, call, todo, result, infos, gaveUp, pdu, sent, reply, seen, calls>>

Switches == {o \in Objects : o[1] \in {"sysMainSwitch", "outputSwitch"}}

Connector == Send \/ (\E d \in net : Receive(d)) \/ Resend \/ GiveUp \/ Finish

MNext ==
  \/ DoConnect \/ DoDisconnect
  \/ \E c \in Calls : Call(c)
  \/ Connector \/ SocketFails
  \/ \E d \in net : Serve(d) \/ Lose(d)
  \/ \E o \in Switches, v \in {<<0>>, <<1>>} : Turn(o, v)
  \/ \E v \in Statuses : Turn(Object("sysStatus", 0), v)
  \/ Unplug

\* The library's timeouts, and a network that carries what it does not lose in time.
MSpec == MInit /\ [][MNext]_mvars /\ WF_mvars(Connector) /\ WF_mvars(\E d \in net : Serve(d))

-----------------------------------------------------------------------------
(* Properties. *)

\* The meaning of a status (the MIB): bit 0 is the first one of the first octet.
MibBits(octets) ==
  {b \in 0..(8 * Len(octets) - 1) : octets[(b \div 8) + 1] % TwoTo[8 - (b % 8)] >= TwoTo[7 - (b % 8)]}

\* Through losses, retries, late answers and somebody at the crate: what a call reports
\* has been in the crate, since the call asked for it or, after a change, since the crate
\* answered to the change; a status has the bits of the MIB; and the channels that are
\* listed are those of the crate, each of them once, unless a request had no answer.
AnswersAreTrue ==
  LET c == reply.call
      Names == {"outputVoltage", "outputName", "outputMeasurementTerminalVoltage"}
  IN  /\ reply.answer # << >> /\ c.method # "getChannelsInfos" => reply.answer[1] \in seen[Asked(c)]
      /\ c.method = "crateIsOn" /\ reply.returned = <<TRUE>> => <<1>> \in seen[Asked(c)]
      /\ c.method = "getCrateStatus" /\ reply.answer # << >> /\ reply.returned # << >> =>
           \E s \in seen[Asked(c)] : reply.returned[1] = MibBits(s)
      /\ \A i \in DOMAIN reply.infos :
           LET entry == reply.infos[i] IN entry[2] # << >> => entry[2][1] \in seen[entry[1]]
      /\ c.method = "getChannelsInfos" /\ reply.infos # << >> /\ ~reply.gaveUp =>
           \A name \in Names, ch \in Channels :
             Cardinality({i \in DOMAIN reply.infos : reply.infos[i][1] = Object(name, ch)}) = 1

\* Over v2c a call returns, whatever the crate and the network do.
CallsReturn == (version = "v2c" /\ call # NoCall) ~> (call = NoCall)
=============================================================================
