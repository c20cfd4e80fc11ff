------------------------ MODULE DigitizerConfig_proofs ------------------------
(***************************************************************************)
(* What a programmed digitizer holds, proved for any boards, any contents  *)
(* of the configuration file and any number of initializations.            *)
(***************************************************************************)
EXTENDS DigitizerConfig, WellFoundedInduction, TLAPS

\* The units of the board as it is.
BoardUnits == Units(GetInfo.family, Channels(GetInfo.family, GetInfo.form))

\* Masking never takes a unit from the board.
MaskPhase == mask = Setting \/ mask = BoardUnits

\* The registers there are.
BoardPhase == DOMAIN board = {"plain", "bits", "offset", "threshold", "fast", "edge", "trigger",
                              "groupMask", "enabled", "adc", "irq", "irqEvents", "tables"}

\* The number of events is that of some file, or of none.
InterruptPhase == interrupts = 0 \/ \E f \in Files : interrupts = f.interrupt

\* The files read so far that have a list for group g.
With(l, g) == {n \in DOMAIN l : g \in DOMAIN l[n].groupOffsets}

\* The list of group g is that of file m, the last one with a list for it.
IsList(p, l, g, m) ==
  /\ \A n \in With(l, g) : m >= n
  /\ p.groupOffsets[g] = [j \in Place |-> Percent(l[m].groupOffsets[g][j + 1])]

\* What a file c leaves in the members of setting i, whatever was in them.
MembersOf(c, i) ==
  LET level == IF c.baseline[i] # 0 THEN c.baseline[i] ELSE c.baselineCommon
  IN  IF level = 0
      THEN [dcOffset |-> Percent(c.dcChannel[i]), version |-> 0, file |-> c.dcChannel[i]]
      ELSE [dcOffset |-> Level(level, c.polarity), version |-> 1, file |-> level]

\* The record length and the post trigger may be those of the board, of which it would
\* make the same.
PlainPhase(c) ==
  /\ DOMAIN params.plain = Plain
  /\ \A k \in Plain \ {"RECORD_LENGTH", "POST_TRIGGER"} : params.plain[k] = c.plain[k]
  /\ Steady(c) =>
       /\ RecordLengthOf(hardware, params.plain["RECORD_LENGTH"]) = GrantedRecords(c)
       /\ PostTriggerOf(hardware, GrantedRecords(c), params.plain["POST_TRIGGER"]) = GrantedPost(c)

\* The members are those of the last file, but for what is read back from the board,
\* and for the lists of the groups, which are those of the last file that had one.
LastPhase ==
  loaded # << >> =>
    LET c == loaded[Len(loaded)]
    IN  /\ PlainPhase(c) /\ params.test = c.test
        /\ params.polarity = c.polarity /\ c.polarity \in {"NEGATIVE", "POSITIVE"}
        /\ params.fast = [i \in Setting |-> FastTrigger(c, i)]
        /\ params.threshold = [i \in Setting |-> c.threshold[i]]
        /\ params.set = [i \in Setting |-> MembersOf(c, i)]

\* The files read so far that have direct writes, and the writes: those of the last one.
WithWrites(l) == {n \in DOMAIN l : WellFormed(l[n].writes)}

WritesPhase ==
  /\ WithWrites(loaded) = {} => params.writes = << >>
  /\ WithWrites(loaded) # {} =>
       \E m \in WithWrites(loaded) : /\ \A n \in WithWrites(loaded) : m >= n
                                     /\ params.writes = loaded[m].writes.list

GroupPhase ==
  /\ DOMAIN params.groupOffsets = {g \in Setting : With(loaded, g) # {}}
  /\ \A g \in DOMAIN params.groupOffsets :
       \E m \in With(loaded, g) : IsList(params, loaded, g, m)

MembersPhase ==
  /\ DOMAIN params = {"plain", "test", "polarity", "trigger", "groupMask", "calibrate", "writes",
                      "set", "groupOffsets", "fast", "threshold"}
  /\ \A i \in Setting : DOMAIN params.set[i] = {"dcOffset", "version", "file"}
  /\ state \notin {"Uninitialized", "Dead"} => loaded # << >>

CInv ==
  /\ CTypeOK /\ MaskPhase /\ BoardPhase /\ InterruptPhase
  /\ LastPhase /\ WritesPhase /\ GroupPhase /\ MembersPhase

-----------------------------------------------------------------------------
(* Operators. *)

\* No board has more channels, or groups, than the mask has bits.
LEMMA ChannelCounts ==
  ASSUME NEW family, NEW form
  PROVE  Channels(family, form) \in {0, 4, 8, 16, 32, 36, 64}
BY DEF Channels

\* Every unit has an element in the arrays of settings.
LEMMA UnitsAreSettings ==
  ASSUME NEW family, NEW form
  PROVE  Units(family, Channels(family, form)) \subseteq Setting
<1>1. CASE family = "XX740"
  BY <1>1 DEF Channels, Units, Grouped, Setting
<1>2. CASE family = "XX742"
  BY <1>2 DEF Channels, Units, Grouped, Setting
<1>3. CASE family # "XX740" /\ family # "XX742"
  <2>1. Channels(family, form) \in {0, 4, 8, 16}
    BY <1>3 DEF Channels
  <2> QED
    BY <1>3, <2>1 DEF Units, Grouped, Setting
<1> QED
  BY <1>1, <1>2, <1>3

\* An action without settings leads to a programmed board only from one.
LEMMA MoveProgrammed ==
  ASSUME NEW a \in Action, Move(a), Programmed'
  PROVE  Programmed
BY DEF Move, Action, AcceptedIn, Target, Programmed

-----------------------------------------------------------------------------
(* Configuring. *)

\* What DoConfigure has done, with the outcomes it chose.
Configured(cal, irq, adc) ==
  LET nch == Found(board).nch
      b == ProgramDigitizer(GetInfo.family, nch, mask', cal, adc, irq[2])
  IN  /\ calibration' = cal
      /\ mask' = MaskChannels(nch)
      /\ interrupts' = irq[1]
      /\ board' = LoadDRS4CorrectionData(b)
      /\ params' = MembersRead(board')
      /\ known' = Found(board')

\* The family of the board never changes.
LEMMA SameInfo ==
  ASSUME UNCHANGED hardware
  PROVE  GetInfo' = GetInfo
BY DEF GetInfo

\* The mask that is programmed is all of the board's units.
LEMMA MaskIsWhole ==
  ASSUME MaskPhase
  PROVE  MaskChannels(Found(board).nch) = BoardUnits
BY UnitsAreSettings DEF MaskPhase, MaskChannels, Found, BoardUnits

\* Registers that hold a text hold the one that Get gives back.
LEMMA FrequencyAsSet ==
  ASSUME NEW cal, NEW irq, NEW adc, Configured(cal, irq, adc), GetInfo.family = "XX742",
         \A k \in DOMAIN Sent(GetInfo.family) : Settable(k, Sent(GetInfo.family)[k])
  PROVE  Frequency(board') = params.plain["DRS4_FREQUENCY"]
<1> DEFINE sent == Sent(GetInfo.family)
<1>1. "DRS4_FREQUENCY" \in DOMAIN sent /\ sent["DRS4_FREQUENCY"] = params.plain["DRS4_FREQUENCY"]
  BY DEF Sent, Plain
<1>2. "DRS4_FREQUENCY" \notin Numbers
  BY DEF Numbers, Records, Channels32, Blocks, FastTriggers, Decimation
<1>3. Texts["DRS4_FREQUENCY"] = Frequencies
  BY DEF Texts
<1>4. params.plain["DRS4_FREQUENCY"] \in DOMAIN Frequencies
  BY <1>1, <1>2, <1>3 DEF Settable
<1>5. \A v \in DOMAIN Frequencies : Frequencies[v] = v
  BY DEF Frequencies, Same
<1>6. Stored("DRS4_FREQUENCY", sent["DRS4_FREQUENCY"]) = params.plain["DRS4_FREQUENCY"]
  BY <1>1, <1>2, <1>3, <1>4, <1>5 DEF Stored
<1>7. board'.plain = Held(sent)
  BY DEF Configured, LoadDRS4CorrectionData, ProgramDigitizer
<1>8. DOMAIN Held(sent) = DOMAIN sent
  BY DEF Held
<1>9. Held(sent)["DRS4_FREQUENCY"] = params.plain["DRS4_FREQUENCY"]
  BY <1>1, <1>6 DEF Held
<1> QED
  BY <1>1, <1>7, <1>8, <1>9 DEF Frequency, Get

\* After it the module knows its board.
LEMMA ConfigureKnown ==
  ASSUME MaskPhase, Configure
  PROVE  MaskPhase' /\ KnownIsTrue'
<1>1. PICK cal \in LoadDACCalibration \ {"crash"}, irq \in SetInterruptConfig, adc \in PerformCalibration :
        Configured(cal, irq, adc)
  BY DEF Configure, DoConfigure, Configured
<1>2. GetInfo' = GetInfo
  BY SameInfo DEF Configure
<1> DEFINE family == GetInfo.family
           nch == Channels(family, GetInfo.form)
<1>3. Found(board).nch = nch
  BY DEF Found
<1>4. mask' = BoardUnits /\ BoardUnits = Units(family, nch)
  BY <1>1, MaskIsWhole DEF Configured, BoardUnits
<1>5. known'.nch = nch /\ known'.period = Period(family, Frequency(board'))
  BY <1>1 DEF Configured, Found
<1>6. board'.enabled = Units(family, nch)
  BY <1>1, <1>4 DEF Configured, LoadDRS4CorrectionData, ProgramDigitizer
<1>7. board'.tables = IF family = "XX742" THEN Frequency(board') ELSE "none"
  <2>1. CASE family = "XX742"
    <3>1. Frequency(board') = params.plain["DRS4_FREQUENCY"]
      BY <1>1, <2>1, FrequencyAsSet DEF Configure, DoConfigure
    <3> QED
      BY <1>1, <2>1, <3>1 DEF Configured, LoadDRS4CorrectionData, ProgramDigitizer
  <2>2. CASE family # "XX742"
    BY <1>1, <2>2 DEF Configured, LoadDRS4CorrectionData, ProgramDigitizer
  <2> QED
    BY <2>1, <2>2
<1>8. ASSUME family # "XX742" PROVE DOMAIN board'.offset = board'.enabled
  BY <1>1, <1>3, <1>4, <1>8 DEF Configured, LoadDRS4CorrectionData, ProgramDigitizer
<1>9. ASSUME family = "XX742" PROVE DOMAIN board'.offset = 0..(8 * (nch \div 8) - 1)
  <2>1. nch \in {16, 36} /\ Units(family, nch) = 0..((nch \div 8) - 1)
    BY <1>9 DEF Channels, Units, Grouped
  <2>2. DOMAIN board'.offset = {8 * g + j : g \in Units(family, nch), j \in Place}
    BY <1>1, <1>3, <1>4, <1>9 DEF Configured, LoadDRS4CorrectionData, ProgramDigitizer
  <2>3. \A n \in 0..(8 * (nch \div 8) - 1) :
          n \div 8 \in Units(family, nch) /\ n % 8 \in Place /\ n = 8 * (n \div 8) + (n % 8)
    BY <2>1 DEF Place
  <2>4. \A g \in Units(family, nch), j \in Place : 8 * g + j \in 0..(8 * (nch \div 8) - 1)
    BY <2>1 DEF Place
  <2> QED
    BY <2>2, <2>3, <2>4
<1> QED
  BY <1>2, <1>4, <1>5, <1>6, <1>7, <1>8, <1>9 DEF MaskPhase, KnownIsTrue, BoardUnits

-----------------------------------------------------------------------------
(* Initializing. *)

\* A pass over the offsets sets all of a setting's members.
LEMMA PassSets ==
  ASSUME NEW s, DOMAIN s = {"dcOffset", "version", "file"}, NEW v
  PROVE  DcOffset(s, v) = [dcOffset |-> Percent(v), version |-> 0, file |-> v]
<1> DEFINE p == Percent(v)
           a == [s EXCEPT !.dcOffset = p]
           b == [a EXCEPT !.version = 0]
           d == [b EXCEPT !.file = v]
<1>1. DOMAIN a = {"dcOffset", "version", "file"} /\ a["dcOffset"] = p
  OBVIOUS
<1>2. DOMAIN b = {"dcOffset", "version", "file"} /\ b["dcOffset"] = p /\ b["version"] = 0
  <2> HIDE DEF a, p
  <2> QED
    BY <1>1
<1>3. d = [dcOffset |-> p, version |-> 0, file |-> v]
  <2> HIDE DEF b, p
  <2> QED
    BY <1>2
<1> QED
  BY <1>3 DEF DcOffset

\* The passes over the offsets leave what the file says, in its order of precedence.
LEMMA PassesLeave ==
  ASSUME NEW s, DOMAIN s = {"dcOffset", "version", "file"}, NEW c, NEW i
  PROVE  OffsetPasses(s, c, i) = MembersOf(c, i)
<1> DEFINE common == IF c.dcCommon # 0 THEN DcOffset(s, c.dcCommon) ELSE s
           channel == DcOffset(common, c.dcChannel[i])
<1>1. DOMAIN common = {"dcOffset", "version", "file"}
  BY PassSets
<1>2. channel = [dcOffset |-> Percent(c.dcChannel[i]), version |-> 0, file |-> c.dcChannel[i]]
  BY <1>1, PassSets
<1>3. OffsetPasses(s, c, i) = Baseline(Baseline(channel, c.baselineCommon, c.polarity), c.baseline[i], c.polarity)
  BY DEF OffsetPasses
<1> HIDE DEF channel
<1> QED
  BY <1>2, <1>3 DEF Baseline, MembersOf

\* What file c at the end of l makes of m.
OneMore(l, c, g, m) ==
  /\ g \in DOMAIN c.groupOffsets =>
       Len(m) \in With(m, g) /\ (\A n \in With(m, g) : Len(m) >= n) /\ m[Len(m)] = c
  /\ g \notin DOMAIN c.groupOffsets => With(m, g) = With(l, g)
  /\ \A n \in With(l, g) : m[n] = l[n]

\* The files with a list for a group, after one more.
LEMMA WithOneMore ==
  ASSUME NEW l \in Seq(Files), NEW c \in Files, NEW g, NEW m, m = Append(l, c)
  PROVE  OneMore(l, c, g, m)
<1> SUFFICES
         /\ g \in DOMAIN c.groupOffsets =>
              Len(m) \in With(m, g) /\ (\A n \in With(m, g) : Len(m) >= n) /\ m[Len(m)] = c
         /\ g \notin DOMAIN c.groupOffsets => With(m, g) = With(l, g)
         /\ \A n \in With(l, g) : m[n] = l[n]
  BY DEF OneMore
<1>1. /\ DOMAIN m = 1..Len(m) /\ Len(m) = Len(l) + 1 /\ Len(l) \in Nat /\ DOMAIN l = 1..Len(l)
      /\ m[Len(m)] = c /\ \A n \in 1..Len(l) : m[n] = l[n]
  OBVIOUS
<1>2. With(l, g) \subseteq 1..Len(l) /\ \A n \in With(l, g) : m[n] = l[n]
  BY <1>1 DEF With
<1>3. ASSUME g \in DOMAIN c.groupOffsets
      PROVE  Len(m) \in With(m, g) /\ \A n \in With(m, g) : Len(m) >= n
  BY <1>1, <1>3 DEF With
<1>4. ASSUME g \notin DOMAIN c.groupOffsets
      PROVE  With(m, g) = With(l, g)
  BY <1>1, <1>4 DEF With
<1> QED
  BY <1>1, <1>2, <1>3, <1>4

\* The empty function.
LEMMA EmptyDomain == DOMAIN << >> = {}
OBVIOUS

\* Before any file has been read.
LEMMA InitHolds ==
  ASSUME CInit PROVE CInv
<1> USE DEF CInit
<1>0. DOMAIN params.groupOffsets = {} /\ DOMAIN loaded = {} /\ loaded \in Seq(Files) /\ Len(loaded) = 0
  <2>1. params.groupOffsets = << >> /\ loaded = << >>
    BY DEF initilizeParameters
  <2> HIDE DEF CInit
  <2> QED
    BY <2>1, EmptyDomain
<1>1. CTypeOK
  <2>1. DOMAIN params.set = Setting /\ DOMAIN params.fast = Setting
    BY DEF initilizeParameters
  <2>2. board.enabled = {} /\ board.irq = "off"
    BY DEF ResetBoard
  <2> QED
    <3>1. inits \in 0..MaxInits /\ Len(loaded) = inits
      <4>1. inits = 0 /\ MaxInits \in Nat
        BY ConfigAssumption
      <4> HIDE DEF CInit
      <4> QED
        BY <1>0, <4>1
    <3>2. known.nch = 0
      OBVIOUS
    <3> QED
      BY <1>0, <2>1, <2>2, <3>1, <3>2 DEF CTypeOK, State
<1>2. MaskPhase /\ InterruptPhase /\ LastPhase
  BY DEF MaskPhase, InterruptPhase, LastPhase
<1>3. BoardPhase
  BY DEF BoardPhase, ResetBoard
<1>4. GroupPhase
  <2>1. \A g : With(loaded, g) = {}
    BY <1>0 DEF With
  <2> QED
    BY <1>0, <2>1 DEF GroupPhase
<1>5. MembersPhase
  BY DEF MembersPhase, initilizeParameters
<1>6. WritesPhase
  <2>1. WithWrites(loaded) = {} /\ params.writes = << >>
    BY <1>0 DEF WithWrites, initilizeParameters
  <2> QED
    BY <2>1 DEF WritesPhase
<1> QED
  BY <1>1, <1>2, <1>3, <1>4, <1>5, <1>6 DEF CInv

\* verifyParameters leaves the last file's settings, and keeps the lists that it lacks.
LEMMA InitializeStep ==
  ASSUME CInv, Initialize
  PROVE  CInv'
<1> DEFINE c == file
<1>0. /\ c \in Files /\ loaded \in Seq(Files) /\ loaded' = Append(loaded, c)
      /\ params' = verifyParameters(params, c) /\ interrupts' = c.interrupt
      /\ DOMAIN params.groupOffsets \subseteq Setting
      /\ \A i \in Setting : DOMAIN params.set[i] = {"dcOffset", "version", "file"}
      /\ c.interrupt \in Nat /\ DOMAIN c.groupOffsets \subseteq Setting
      /\ state' = "Initialized"
  BY ConfigAssumption DEF CInv, CTypeOK, MembersPhase, Initialize
<1>1. /\ loaded' \in Seq(Files) /\ Len(loaded') = Len(loaded) + 1 /\ loaded' # << >>
      /\ loaded'[Len(loaded')] = c
  BY <1>0
<1>2. /\ params'.plain = c.plain /\ params'.polarity = c.polarity /\ params'.test = c.test
      /\ params'.writes = IF WellFormed(c.writes) THEN c.writes.list ELSE params.writes
      /\ params'.fast = [i \in Setting |-> FastTrigger(c, i)]
      /\ params'.threshold = [i \in Setting |-> c.threshold[i]]
      /\ params'.set = [i \in Setting |-> OffsetPasses(params.set[i], c, i)]
      /\ params'.groupOffsets = GroupOffsets(params.groupOffsets, c)
  BY <1>0 DEF verifyParameters
<1>3. params'.set = [i \in Setting |-> MembersOf(c, i)]
  <2>1. \A i \in Setting : OffsetPasses(params.set[i], c, i) = MembersOf(c, i)
    BY <1>0, PassesLeave
  <2> QED
    BY <1>2, <2>1
<1>4. CTypeOK'
  <2>1. inits' \in 0..MaxInits /\ Len(loaded') = inits'
    BY <1>0, <1>1, ConfigAssumption DEF CInv, CTypeOK, Initialize
  <2>2. DOMAIN params'.groupOffsets \subseteq Setting
    BY <1>0, <1>2 DEF GroupOffsets
  <2> QED
    BY <1>0, <1>1, <1>2, <2>1, <2>2 DEF CInv, CTypeOK, Initialize, State
<1>5. LastPhase'
  <2>1. hardware' = hardware /\ GetInfo' = GetInfo /\ c' = c
    BY SameInfo DEF Initialize
  <2>2. DOMAIN c.plain = Plain
    BY <1>0, ConfigAssumption
  <2>3. PlainPhase(c)'
    BY <1>2, <2>1, <2>2 DEF PlainPhase, Steady, GrantedRecords, GrantedPost
  <2> QED
    BY <1>0, <1>1, <1>2, <1>3, <2>3 DEF LastPhase, Initialize, Acceptable
<1>6. MembersPhase'
  <2>1. \A i \in Setting : DOMAIN MembersOf(c, i) = {"dcOffset", "version", "file"}
    BY DEF MembersOf
  <2> QED
    BY <1>0, <1>1, <1>3, <2>1 DEF MembersPhase, verifyParameters
<1>7. GroupPhase'
  <2> DEFINE old == params.groupOffsets
             new == params'.groupOffsets
  <2>1. DOMAIN new = DOMAIN old \cup DOMAIN c.groupOffsets
    BY <1>2 DEF GroupOffsets
  <2>2. \A g \in DOMAIN new :
          new[g] = IF g \in DOMAIN c.groupOffsets
                   THEN [j \in Place |-> Percent(c.groupOffsets[g][j + 1])] ELSE old[g]
    BY <1>2 DEF GroupOffsets
  <2>0. \A g : OneMore(loaded, c, g, loaded')
    BY <1>0, WithOneMore
  <2>3. DOMAIN new = {g \in Setting : With(loaded', g) # {}}
    BY <1>0, <2>0, <2>1 DEF CInv, GroupPhase, OneMore
  <2>4. ASSUME NEW g \in DOMAIN new
        PROVE  \E m \in With(loaded', g) : IsList(params', loaded', g, m)
    <3>1. CASE g \in DOMAIN c.groupOffsets
      <4>1. /\ Len(loaded') \in With(loaded', g) /\ loaded'[Len(loaded')] = c
            /\ \A n \in With(loaded', g) : Len(loaded') >= n
        BY <2>0, <3>1 DEF OneMore
      <4>2. IsList(params', loaded', g, Len(loaded'))
        BY <2>2, <3>1, <4>1 DEF IsList
      <4> QED
        BY <4>1, <4>2
    <3>2. CASE g \notin DOMAIN c.groupOffsets
      <4>1. g \in DOMAIN old /\ new[g] = old[g]
        BY <2>1, <2>2, <3>2
      <4>2. PICK m \in With(loaded, g) : IsList(params, loaded, g, m)
        BY <4>1 DEF CInv, GroupPhase
      <4>3. With(loaded', g) = With(loaded, g) /\ loaded'[m] = loaded[m]
        BY <2>0, <3>2, <4>2 DEF OneMore
      <4> QED
        BY <4>1, <4>2, <4>3 DEF IsList
    <3> QED
      BY <3>1, <3>2
  <2> QED
    BY <2>3, <2>4 DEF GroupPhase
<1>8. MaskPhase' /\ BoardPhase' /\ InterruptPhase'
  BY <1>0, SameInfo DEF CInv, MaskPhase, BoardUnits, BoardPhase, InterruptPhase, Initialize
<1>9. WritesPhase'
  <2> DEFINE l == loaded
             n == Len(l)
  <2>1. n \in Nat /\ DOMAIN l = 1..n /\ DOMAIN loaded' = 1..(n + 1) /\ Len(loaded') = n + 1
        /\ \A i \in 1..n : loaded'[i] = l[i]
    BY <1>0
  <2>2. CASE WellFormed(c.writes)
    <3>1. n + 1 \in WithWrites(loaded') /\ \A i \in WithWrites(loaded') : n + 1 >= i
      BY <1>1, <2>1, <2>2 DEF WithWrites
    <3> QED
      BY <1>1, <1>2, <2>1, <2>2, <3>1 DEF WritesPhase
  <2>3. CASE ~WellFormed(c.writes)
    <3>1. WithWrites(loaded') = WithWrites(l) /\ \A i \in WithWrites(l) : loaded'[i] = l[i]
      BY <1>1, <2>1, <2>3 DEF WithWrites
    <3>2. params'.writes = params.writes
      BY <1>2, <2>3
    <3> QED
      BY <3>1, <3>2 DEF CInv, WritesPhase
  <2> QED
    BY <2>2, <2>3
<1> QED
  BY <1>4, <1>5, <1>6, <1>7, <1>8, <1>9 DEF CInv

\* What is read back from the board, and what is kept of the members.
LEMMA ConfigureMembers ==
  ASSUME CInv, Configure
  PROVE  /\ DOMAIN params' = DOMAIN params /\ DOMAIN params'.plain = Plain
         /\ \A f \in DOMAIN params \ {"plain"} : params'[f] = params[f]
         /\ \A k \in Plain \ {"RECORD_LENGTH", "POST_TRIGGER"} : params'.plain[k] = params.plain[k]
         /\ LET records == RecordLengthOf(hardware, params.plain["RECORD_LENGTH"])
                post == PostTriggerOf(hardware, records, params.plain["POST_TRIGGER"])
            IN  /\ {"RECORD_LENGTH", "POST_TRIGGER"} \subseteq DOMAIN board'.plain
                /\ board'.plain["RECORD_LENGTH"] = records /\ board'.plain["POST_TRIGGER"] = post
                /\ params'.plain["RECORD_LENGTH"] = records
                /\ params'.plain["POST_TRIGGER"] = IF GetInfo.family = "XX742"
                                                   THEN params.plain["POST_TRIGGER"] ELSE post
<1>1. PICK cal \in LoadDACCalibration \ {"crash"}, irq \in SetInterruptConfig, adc \in PerformCalibration :
        Configured(cal, irq, adc)
  BY DEF Configure, DoConfigure, Configured
<1> DEFINE family == GetInfo.family
           sent == Sent(family)
           records == RecordLengthOf(hardware, params.plain["RECORD_LENGTH"])
           post == PostTriggerOf(hardware, records, params.plain["POST_TRIGGER"])
<1>2. board'.plain = Held(sent) /\ params' = MembersRead(board')
  BY <1>1 DEF Configured, LoadDRS4CorrectionData, ProgramDigitizer
<1>3. /\ {"RECORD_LENGTH", "POST_TRIGGER"} \subseteq DOMAIN sent
      /\ sent["RECORD_LENGTH"] = params.plain["RECORD_LENGTH"]
      /\ sent["POST_TRIGGER"] = params.plain["POST_TRIGGER"]
  BY DEF Sent, Plain
<1>4. /\ {"RECORD_LENGTH", "POST_TRIGGER"} \subseteq DOMAIN board'.plain
      /\ board'.plain["RECORD_LENGTH"] = records /\ board'.plain["POST_TRIGGER"] = post
  <2> HIDE DEF sent
  <2> QED
    BY <1>2, <1>3 DEF Held
<1>5. "plain" \in DOMAIN params
  BY DEF CInv, MembersPhase
<1>6. /\ DOMAIN params' = DOMAIN params
      /\ \A f \in DOMAIN params \ {"plain"} : params'[f] = params[f]
  BY <1>2, <1>5 DEF MembersRead
<1> DEFINE read == {"RECORD_LENGTH"} \cup (IF family = "XX742" THEN {} ELSE {"POST_TRIGGER"})
<1>7. params'.plain = [k \in Plain |-> IF k \in read THEN board'.plain[k] ELSE params.plain[k]]
  <2>1. \A k \in read : Get(board'.plain, k, 0) = board'.plain[k]
    BY DEF Get
  <2>2. params'.plain = [k \in Plain |-> IF k \in read THEN Get(board'.plain, k, 0) ELSE params.plain[k]]
    BY <1>2, <1>5 DEF MembersRead
  <2> HIDE DEF read
  <2> QED
    BY <2>1, <2>2
<1>8. {"RECORD_LENGTH", "POST_TRIGGER"} \subseteq Plain
  BY DEF Plain
<1> HIDE DEF sent, records, post
<1>9. /\ DOMAIN params'.plain = Plain
      /\ \A k \in Plain \ {"RECORD_LENGTH", "POST_TRIGGER"} : params'.plain[k] = params.plain[k]
      /\ params'.plain["RECORD_LENGTH"] = records
      /\ params'.plain["POST_TRIGGER"] = IF family = "XX742" THEN params.plain["POST_TRIGGER"] ELSE post
  BY <1>4, <1>7, <1>8
<1> QED
  BY <1>4, <1>6, <1>9 DEF records, post

\* Masks, interrupts and calibration after DoConfigure.
LEMMA ConfigureStep ==
  ASSUME CInv, Configure
  PROVE  CInv'
<1>1. PICK cal \in LoadDACCalibration \ {"crash"}, irq \in SetInterruptConfig, adc \in PerformCalibration :
        Configured(cal, irq, adc)
  BY DEF Configure, DoConfigure, Configured
<1>2. UNCHANGED <<hardware, file, inits, loaded>> /\ state' = "Configured" /\ GetInfo' = GetInfo
  BY SameInfo DEF Configure
<1>0. /\ DOMAIN params' = DOMAIN params /\ params'.set = params.set /\ params'.fast = params.fast
      /\ params'.groupOffsets = params.groupOffsets /\ params'.writes = params.writes
      /\ params'.test = params.test /\ params'.polarity = params.polarity
      /\ params'.threshold = params.threshold
  BY ConfigureMembers DEF CInv, MembersPhase
<1>3. MaskPhase' /\ mask' = BoardUnits
  BY <1>1, MaskIsWhole, ConfigureKnown DEF CInv, Configured
<1>4. mask' \subseteq Setting
  BY <1>3, UnitsAreSettings DEF BoardUnits
<1>5. irq[1] \in {0, interrupts} /\ irq[2] \in {"off", "armed"}
  BY DEF SetInterruptConfig
<1>6. /\ interrupts' = irq[1] /\ calibration' = cal /\ known' = Found(board')
      /\ board'.enabled = mask' /\ board'.irq = irq[2]
  BY <1>1 DEF Configured, LoadDRS4CorrectionData, ProgramDigitizer
<1>7. BoardPhase'
  BY <1>1 DEF BoardPhase, Configured, LoadDRS4CorrectionData, ProgramDigitizer
<1>8. InterruptPhase'
  BY <1>5, <1>6 DEF CInv, InterruptPhase
<1>9. CTypeOK'
  <2>1. cal \in {"none", "own", "foreign"}
    BY DEF LoadDACCalibration, CInv, CTypeOK
  <2>2. known'.nch \in {0, 4, 8, 16, 32, 36, 64}
    BY <1>6, ChannelCounts DEF Found
  <2>3. interrupts' \in Nat
    BY <1>5, <1>6 DEF CInv, CTypeOK
  <2> QED
    BY <1>0, <1>2, <1>4, <1>5, <1>6, <2>1, <2>2, <2>3 DEF CInv, CTypeOK, State
<1>10. (LastPhase /\ WritesPhase /\ GroupPhase /\ MembersPhase)'
  <2>1. loaded # << >>
    BY DEF CInv, MembersPhase, Configure, AcceptedIn
  <2> DEFINE c == loaded[Len(loaded)]
  <2>2. PlainPhase(c)
    BY <2>1 DEF CInv, LastPhase
  <2>3. PlainPhase(c)'
    <3> DEFINE p == params.plain
               q == params'.plain
               post == PostTriggerOf(hardware, RecordLengthOf(hardware, p["RECORD_LENGTH"]), p["POST_TRIGGER"])
    <3>1. /\ DOMAIN q = Plain
          /\ \A k \in Plain \ {"RECORD_LENGTH", "POST_TRIGGER"} : q[k] = p[k]
          /\ q["RECORD_LENGTH"] = RecordLengthOf(hardware, p["RECORD_LENGTH"])
          /\ q["POST_TRIGGER"] = IF GetInfo.family = "XX742" THEN p["POST_TRIGGER"] ELSE post
      BY ConfigureMembers
    <3>2. Steady(c)' <=> Steady(c)
      BY <1>2 DEF Steady, GrantedRecords, GrantedPost
    <3>3. ASSUME Steady(c)
          PROVE  /\ RecordLengthOf(hardware, q["RECORD_LENGTH"]) = GrantedRecords(c)
                 /\ PostTriggerOf(hardware, GrantedRecords(c), q["POST_TRIGGER"]) = GrantedPost(c)
      <4>1. /\ RecordLengthOf(hardware, p["RECORD_LENGTH"]) = GrantedRecords(c)
            /\ PostTriggerOf(hardware, GrantedRecords(c), p["POST_TRIGGER"]) = GrantedPost(c)
        BY <2>2, <3>3 DEF PlainPhase
      <4> QED
        BY <3>1, <3>3, <4>1 DEF Steady
    <3> QED
      BY <1>2, <2>2, <3>1, <3>2, <3>3 DEF PlainPhase, GrantedRecords, GrantedPost
  <2>4. LastPhase'
    BY <1>0, <1>2, <2>1, <2>3 DEF CInv, LastPhase
  <2>5. WritesPhase'
    BY <1>0, <1>2 DEF CInv, WritesPhase
  <2>6. GroupPhase'
    BY <1>0, <1>2 DEF CInv, GroupPhase, IsList
  <2>7. MembersPhase'
    BY <1>0, <1>2, <2>1 DEF CInv, MembersPhase
  <2> QED
    BY <2>4, <2>5, <2>6, <2>7
<1> QED
  BY <1>3, <1>7, <1>8, <1>9, <1>10 DEF CInv

\* The steps that leave the settings alone.
LEMMA OtherSteps ==
  ASSUME CInv,
         \/ \E f \in Files : Edit(f)
         \/ InitializeFails \/ ConfigureFails
         \/ \E a \in Action : Move(a)
         \/ Interrupt
         \/ UNCHANGED cvars
  PROVE  CInv'
<1>1. /\ UNCHANGED <<hardware, inits, loaded, params, interrupts, known, calibration, mask>>
      /\ file' \in Files
  BY DEF CInv, CTypeOK, Edit, InitializeFails, ConfigureFails, Move, Interrupt, cvars
<1>2. state' \in State \cup {"Dead"} /\ (state' \notin {"Uninitialized", "Dead"} => loaded # << >>)
  <2>1. CASE \E a \in Action : Move(a)
    BY <2>1 DEF CInv, MembersPhase, Move, Action, AcceptedIn, Target, State
  <2>2. CASE ~\E a \in Action : Move(a)
    BY <2>2 DEF CInv, CTypeOK, MembersPhase, Edit, InitializeFails, ConfigureFails, Interrupt, cvars
  <2> QED
    BY <2>1, <2>2
<1>3. /\ DOMAIN board' = DOMAIN board /\ board'.enabled = board.enabled
      /\ board'.irq \in {"off", "armed", "released"}
  <2>1. CASE Interrupt
    BY <2>1 DEF CInv, BoardPhase, Interrupt
  <2>2. CASE ~Interrupt
    BY <2>2 DEF CInv, CTypeOK, Edit, InitializeFails, ConfigureFails, Move, cvars
  <2> QED
    BY <2>1, <2>2
<1>4. CTypeOK'
  BY <1>1, <1>2, <1>3 DEF CInv, CTypeOK
<1>5. MaskPhase' /\ BoardPhase' /\ InterruptPhase'
  BY <1>1, <1>3, SameInfo DEF CInv, MaskPhase, BoardUnits, BoardPhase, InterruptPhase
<1>6. (LastPhase /\ WritesPhase /\ GroupPhase /\ MembersPhase)'
  BY <1>1, <1>2, SameInfo DEF CInv, LastPhase, PlainPhase, Steady, GrantedRecords, GrantedPost,
                              WritesPhase, GroupPhase, MembersPhase
<1> QED
  BY <1>4, <1>5, <1>6 DEF CInv

-----------------------------------------------------------------------------
(* The invariant. *)

\* Types, the mask, and the members that the last file, the ones before it and the
\* board leave.
THEOREM ConfigInvariance == CSpec => []CInv
<1>1. CInit => CInv
  BY InitHolds
<1>2. CInv /\ [CNext]_cvars => CInv'
  BY InitializeStep, ConfigureStep, OtherSteps DEF CNext
<1> QED
  BY <1>1, <1>2, PTL DEF CSpec

\* CTypeOK: masks, units and counts stay within the arrays, on every board.
THEOREM ConfigTypeCorrect == CSpec => []CTypeOK
<1>1. CInv => CTypeOK
  BY DEF CInv
<1> QED
  BY <1>1, ConfigInvariance, PTL

-----------------------------------------------------------------------------
(* What the module knows of its board. *)

\* Steps after which a programmed board is the one that was.
Kept ==
  /\ Programmed' => Programmed
  /\ UNCHANGED <<hardware, loaded, interrupts, known, calibration, mask>>
  /\ \A r \in DOMAIN board \ {"irq"} : board'[r] = board[r]
  /\ board'.irq = board.irq \/ (board.irq = "armed" /\ board'.irq = "released")

\* A step that leaves the board alone.
LEMMA SameBoard ==
  ASSUME UNCHANGED <<hardware, loaded, params, interrupts, known, calibration, mask, board>>,
         Programmed' => Programmed
  PROVE  Kept
BY DEF Kept

\* Every step but Initialize and Configure keeps what is programmed.
LEMMA KeptBySteps ==
  ASSUME CInv, [CNext]_cvars, ~Configure, ~Initialize
  PROVE  Kept
<1>1. CASE \E a \in Action : Move(a)
  <2>1. PICK a \in Action : Move(a)
    BY <1>1
  <2>2. Programmed' => Programmed
    BY <2>1, MoveProgrammed
  <2> QED
    BY <2>1, <2>2, SameBoard DEF Move
<1>2. CASE Interrupt
  BY <1>2 DEF CInv, BoardPhase, Kept, Interrupt, Programmed
<1>3. CASE (\E f \in Files : Edit(f)) \/ InitializeFails \/ ConfigureFails \/ UNCHANGED cvars
  <2>1. Programmed' => Programmed
    BY <1>3 DEF Edit, InitializeFails, ConfigureFails, cvars, Programmed
  <2> QED
    BY <1>3, <2>1, SameBoard DEF Edit, InitializeFails, ConfigureFails, cvars
<1> QED
  BY <1>1, <1>2, <1>3 DEF CNext

\* No initialization leads to a programmed board.
LEMMA InitializeUnprograms ==
  ASSUME Initialize PROVE ~Programmed'
BY DEF Initialize, Programmed

\* KnownIsTrue: what the module sends with every event is true of the board as programmed.
THEOREM KnownBoardIsTrue == CSpec => []KnownIsTrue
<1>1. CInit => KnownIsTrue
  BY DEF CInit, Programmed, KnownIsTrue
<1>2. CInv /\ KnownIsTrue /\ [CNext]_cvars => KnownIsTrue'
  <2> SUFFICES ASSUME CInv, KnownIsTrue, [CNext]_cvars PROVE KnownIsTrue'
    OBVIOUS
  <2>1. CASE Configure
    BY <2>1, ConfigureKnown DEF CInv
  <2>2. CASE Initialize
    BY <2>2, InitializeUnprograms DEF KnownIsTrue
  <2>3. CASE ~Configure /\ ~Initialize
    <3>1. Kept
      BY <2>3, KeptBySteps
    <3>2. GetInfo' = GetInfo /\ known' = known
      BY <3>1, SameInfo DEF Kept
    <3>3. /\ board'.plain = board.plain /\ board'.tables = board.tables
          /\ board'.enabled = board.enabled /\ board'.offset = board.offset
      BY <3>1 DEF Kept, CInv, BoardPhase
    <3>4. Frequency(board') = Frequency(board)
      BY <3>3 DEF Frequency
    <3> QED
      BY <3>1, <3>2, <3>3, <3>4 DEF Kept, KnownIsTrue
  <2> QED
    BY <2>1, <2>2, <2>3
<1> QED
  BY <1>1, <1>2, ConfigInvariance, PTL DEF CSpec

\* InterruptsConfigured, for files that ask for no more events than 16 bits can say.
THEOREM InterruptsAreConfigured ==
  ASSUME \A f \in Files : f.interrupt % 2^16 = f.interrupt
  PROVE  CSpec => []InterruptsConfigured
<1>1. CInit => InterruptsConfigured
  BY DEF CInit, Programmed, InterruptsConfigured
<1>2. CInv /\ InterruptsConfigured /\ [CNext]_cvars => InterruptsConfigured'
  <2> SUFFICES ASSUME CInv, InterruptsConfigured, [CNext]_cvars PROVE InterruptsConfigured'
    OBVIOUS
  <2>1. CASE Configure
    <3>1. PICK cal \in LoadDACCalibration \ {"crash"}, irq \in SetInterruptConfig, adc \in PerformCalibration :
            Configured(cal, irq, adc)
      BY <2>1 DEF Configure, DoConfigure, Configured
    <3>2. /\ interrupts' = irq[1] /\ board'.irq = irq[2]
          /\ board'.irqEvents = IF irq[2] = "armed" THEN InterruptConfig(1, 2, interrupts).events ELSE 0
      BY <3>1 DEF Configured, LoadDRS4CorrectionData, ProgramDigitizer
    <3>3. \/ irq[1] = 0 /\ irq[2] = "off"
          \/ interrupts # 0 /\ irq[1] = interrupts /\ irq[2] = "armed"
      BY DEF SetInterruptConfig
    <3>4. ASSUME interrupts # 0 PROVE InterruptConfig(1, 2, interrupts).events = interrupts
      BY <3>4 DEF CInv, InterruptPhase, InterruptConfig
    <3>5. interrupts \in Nat
      BY DEF CInv, CTypeOK
    <3> QED
      BY <3>2, <3>3, <3>4, <3>5 DEF InterruptsConfigured
  <2>2. CASE Initialize
    BY <2>2, InitializeUnprograms DEF InterruptsConfigured
  <2>3. CASE ~Configure /\ ~Initialize
    <3>1. Kept
      BY <2>3, KeptBySteps
    <3>2. board'.irqEvents = board.irqEvents
      BY <3>1 DEF Kept, CInv, BoardPhase
    <3> QED
      BY <3>1, <3>2 DEF Kept, InterruptsConfigured
  <2> QED
    BY <2>1, <2>2, <2>3
<1> QED
  BY <1>1, <1>2, ConfigInvariance, PTL DEF CSpec

-----------------------------------------------------------------------------
(* The settings of the file. *)

\* A text that goes from the file to the board is read back as it is.
LEMMA PlainStored ==
  ASSUME NEW k \in Plain, NEW v, Settable(k, v)
  PROVE  Stored(k, v) = v
<1>1. CASE k \in Numbers
  BY <1>1 DEF Stored
<1>2. CASE k \notin Numbers
  <2>1. k \in {"DRS4_FREQUENCY", "EXTERNAL_TRIGGER", "FAST_TRIGGER", "FAST_DIGITIZING", "FPIO_LEVEL"}
    BY <1>2 DEF Plain, Numbers, Records, Channels32, Blocks, FastTriggers, Decimation
  <2>2. Texts[k] \in {Frequencies, TriggerModes, FastTriggerModes, EnaDis, IOLevels}
    BY <2>1 DEF Texts
  <2>3. \A f \in {Frequencies, TriggerModes, FastTriggerModes, EnaDis, IOLevels} :
          \A t \in DOMAIN f : f[t] = t
    BY DEF Frequencies, TriggerModes, FastTriggerModes, EnaDis, IOLevels, Same
  <2> QED
    BY <1>2, <2>2, <2>3 DEF Settable, Stored
<1> QED
  BY <1>1, <1>2

\* The plain settings are sent as the members have them.
LEMMA PlainSent ==
  ASSUME NEW family, NEW k \in DOMAIN Sent(family), k \in Plain
  PROVE  Sent(family)[k] = params.plain[k]
BY DEF Sent, Plain

\* The list of a group is that of the last file with one.
LEMMA LastList ==
  ASSUME CInv, NEW g \in Setting, NEW j \in Place
  PROVE  LET with == {n \in DOMAIN loaded : g \in DOMAIN loaded[n].groupOffsets} IN
         /\ with = {} <=> g \notin DOMAIN params.groupOffsets
         /\ with # {} => params.groupOffsets[g][j] = Percent(loaded[Max(with)].groupOffsets[g][j + 1])
<1> DEFINE with == With(loaded, g)
<1>1. with = {} <=> g \notin DOMAIN params.groupOffsets
  BY DEF CInv, GroupPhase
<1>2. ASSUME with # {}
      PROVE  params.groupOffsets[g][j] = Percent(loaded[Max(with)].groupOffsets[g][j + 1])
  <2>1. PICK m \in with : IsList(params, loaded, g, m)
    BY <1>1, <1>2 DEF CInv, GroupPhase
  <2>2. \A n \in with : n \in Nat
    BY DEF CInv, CTypeOK, With
  <2>3. Max(with) \in with /\ \A n \in with : Max(with) >= n
    BY <2>1, <2>2 DEF IsList, Max
  <2>4. Max(with) = m
    BY <2>1, <2>2, <2>3 DEF IsList
  <2> QED
    BY <2>1, <2>4 DEF IsList
<1> QED
  BY <1>1, <1>2 DEF With

\* An offset goes to the board by the precedence that the file's keys have.
LEMMA UnitOffsetAsWanted ==
  ASSUME CInv, loaded # << >>, NEW u \in Setting, NEW cal, calibration' = cal,
         UNCHANGED <<hardware, loaded>>, GetInfo.family # "XX742"
  PROVE  UnitOffset(u, cal) = WantedOffset(loaded[Len(loaded)], u)'
<1> DEFINE c == loaded[Len(loaded)]
<1>1. params.set[u] = MembersOf(c, u) /\ params.polarity = c.polarity
  BY DEF CInv, LastPhase
<1>2. GetInfo' = GetInfo
  BY SameInfo
<1> QED
  BY <1>1, <1>2 DEF UnitOffset, WantedOffset, MembersOf, Calibrated

\* And on an XX742 by its group's list.
LEMMA ChannelOffsetAsWanted ==
  ASSUME CInv, loaded # << >>, NEW ch \in 0..127,
         UNCHANGED <<hardware, loaded>>, GetInfo.family = "XX742"
  PROVE  ChannelOffset(ch) = WantedGroupOffset(ch)'
<1> DEFINE c == loaded[Len(loaded)]
           g == ch \div 8
           with == {n \in DOMAIN loaded : g \in DOMAIN loaded[n].groupOffsets}
<1>1. params.set[g] = MembersOf(c, g) /\ g \in Setting /\ ch % 8 \in Place
  <2>1. g \in Setting /\ ch % 8 \in Place
    BY DEF Setting, Place
  <2> QED
    BY <2>1 DEF CInv, LastPhase
<1>2. GetInfo' = GetInfo
  BY SameInfo
<1>3. /\ with = {} <=> g \notin DOMAIN params.groupOffsets
      /\ with # {} => params.groupOffsets[g][ch % 8] = Percent(loaded[Max(with)].groupOffsets[g][(ch % 8) + 1])
  BY <1>1, LastList
<1>4. WantedGroupOffset(ch)' = IF with = {} THEN WantedOffset(c, g)'
                               ELSE Percent(loaded[Max(with)].groupOffsets[g][(ch % 8) + 1])
  BY DEF WantedGroupOffset, Last
<1>5. WantedOffset(c, g)' = params.set[g].dcOffset
  BY <1>1, <1>2 DEF WantedOffset, MembersOf
<1> QED
  BY <1>3, <1>4, <1>5 DEF ChannelOffset

\* DoConfigure programs what the last file says.
LEMMA ConfigureAsInitialized ==
  ASSUME CInv, Configure
  PROVE  AsInitialized'
<1>1. PICK cal \in LoadDACCalibration \ {"crash"}, irq \in SetInterruptConfig, adc \in PerformCalibration :
        Configured(cal, irq, adc)
  BY DEF Configure, DoConfigure, Configured
<1>2. UNCHANGED <<hardware, loaded>> /\ loaded # << >> /\ GetInfo' = GetInfo
  BY SameInfo DEF Configure, CInv, MembersPhase, AcceptedIn
<1>3. calibration' = cal
  BY <1>1 DEF Configured
<1> DEFINE c == loaded[Len(loaded)]
           family == GetInfo.family
           nch == Channels(family, GetInfo.form)
<1>4. Last(loaded') = c /\ GetInfo'.family = family
  BY <1>2 DEF Last
<1>5. Found(board).nch = nch /\ mask' = Units(family, nch) /\ Units(family, nch) \subseteq Setting
  BY <1>1, MaskIsWhole, UnitsAreSettings DEF CInv, Configured, Found, BoardUnits
<1>6. /\ PlainPhase(c) /\ params.polarity = c.polarity
      /\ c.polarity \in {"NEGATIVE", "POSITIVE"}
      /\ params.threshold = [i \in Setting |-> c.threshold[i]]
      /\ params.fast = [i \in Setting |-> FastTrigger(c, i)]
  BY <1>2 DEF CInv, LastPhase
<1>7. ASSUME NEW k \in (DOMAIN board'.plain \cap Plain) \ {"RECORD_LENGTH", "POST_TRIGGER"}
      PROVE  Get(board'.plain, k, 0) = c.plain[k]
  <2>1. /\ DOMAIN board'.plain = DOMAIN Sent(family)
        /\ k \in DOMAIN Sent(family) => board'.plain[k] = Stored(k, Sent(family)[k])
    <3>1. board'.plain = Held(Sent(family))
      BY <1>1 DEF Configured, LoadDRS4CorrectionData, ProgramDigitizer
    <3> QED
      BY <3>1 DEF Held
  <2>2. k \in DOMAIN Sent(family) /\ Sent(family)[k] = c.plain[k]
    BY <1>6, <2>1, PlainSent DEF PlainPhase
  <2>3. Settable(k, c.plain[k])
    BY <2>2 DEF Configure, DoConfigure
  <2>4. board'.plain[k] = c.plain[k]
    BY <2>1, <2>2, <2>3, PlainStored
  <2> QED
    BY <2>4 DEF Get, Plain
<1>12. Steady(c)' => /\ Get(board'.plain, "RECORD_LENGTH", 0) = GrantedRecords(c)'
                     /\ Get(board'.plain, "POST_TRIGGER", 0) = GrantedPost(c)'
  <2>1. /\ Steady(c)' <=> Steady(c)
        /\ GrantedRecords(c)' = GrantedRecords(c) /\ GrantedPost(c)' = GrantedPost(c)
    BY <1>2 DEF Steady, GrantedRecords, GrantedPost
  <2>2. LET records == RecordLengthOf(hardware, params.plain["RECORD_LENGTH"])
        IN  /\ board'.plain["RECORD_LENGTH"] = records
            /\ board'.plain["POST_TRIGGER"] = PostTriggerOf(hardware, records, params.plain["POST_TRIGGER"])
    BY ConfigureMembers
  <2> QED
    BY <1>6, <2>1, <2>2 DEF PlainPhase, Get
<1>8. ASSUME NEW u \in DOMAIN board'.edge
      PROVE  board'.edge[u] = IF c.polarity = "POSITIVE" THEN "RISING" ELSE "FALLING"
  <2>1. board'.edge[u] = Stored("TRIGGER_POLARITY", c.polarity)
    BY <1>1, <1>6 DEF Configured, LoadDRS4CorrectionData, ProgramDigitizer
  <2>2. "TRIGGER_POLARITY" \notin Numbers
    BY DEF Numbers, Records, Channels32, Blocks, FastTriggers, Decimation
  <2>3. Texts["TRIGGER_POLARITY"] = [POSITIVE |-> "RISING", NEGATIVE |-> "FALLING"]
    BY DEF Texts
  <2> QED
    BY <1>6, <2>1, <2>2, <2>3 DEF Stored
<1>9. ASSUME NEW u \in DOMAIN board'.threshold
      PROVE  board'.threshold[u] = c.threshold[u]
  <2>1. CASE family = "XX742"
    <3>1. board'.threshold = << >>
      BY <1>1, <2>1 DEF Configured, LoadDRS4CorrectionData, ProgramDigitizer
    <3> QED
      BY <3>1, EmptyDomain
  <2>2. CASE family # "XX742"
    <3>1. board'.threshold = [i \in Units(family, nch) \cap mask' |-> params.threshold[i]]
      BY <1>1, <1>5, <2>2 DEF Configured, LoadDRS4CorrectionData, ProgramDigitizer
    <3> QED
      BY <1>5, <1>6, <3>1
  <2> QED
    BY <2>1, <2>2
<1>10. ASSUME NEW u \in DOMAIN board'.offset
       PROVE  board'.offset[u] = IF family = "XX742" THEN WantedGroupOffset(u)' ELSE WantedOffset(c, u)'
  <2>1. CASE family = "XX742"
    <3>1. board'.offset = [ch \in {8 * g + j : g \in Units(family, nch) \cap mask', j \in Place} |-> ChannelOffset(ch)]
      BY <1>1, <1>5, <2>1 DEF Configured, LoadDRS4CorrectionData, ProgramDigitizer
    <3>2. u \in 0..127
      BY <1>5, <3>1 DEF Setting, Place
    <3> QED
      <4>1. ChannelOffset(u) = WantedGroupOffset(u)'
        BY <1>2, <2>1, <3>2, ChannelOffsetAsWanted
      <4> QED
        BY <2>1, <3>1, <4>1
  <2>2. CASE family # "XX742"
    <3>1. board'.offset = [i \in Units(family, nch) \cap mask' |-> UnitOffset(i, cal)]
      BY <1>1, <1>5, <2>2 DEF Configured, LoadDRS4CorrectionData, ProgramDigitizer
    <3> QED
      BY <1>2, <1>3, <1>5, <2>2, <3>1, UnitOffsetAsWanted
  <2> QED
    BY <2>1, <2>2
<1>11. ASSUME NEW g \in DOMAIN board'.fast
       PROVE  LET t == IF g \in {0, 1} THEN 0 ELSE 1
              IN  board'.fast[g] = [offset |-> IF c.trBaseline[t] # 0 THEN c.trBaseline[t] ELSE c.trOffset[t],
                                    threshold |-> c.trThreshold[t]]
  <2>1. CASE family = "XX742"
    <3>1. board'.fast = [i \in Units(family, nch) |-> params.fast[i]]
      BY <1>1, <1>5, <2>1 DEF Configured, LoadDRS4CorrectionData, ProgramDigitizer
    <3>2. g \in 0..3 /\ g \in Setting
      BY <1>5, <2>1, <3>1 DEF Channels, Units, Grouped
    <3>3. g \div 2 = IF g \in {0, 1} THEN 0 ELSE 1
      BY <3>2
    <3>4. board'.fast[g] = FastTrigger(c, g)
      BY <1>6, <3>1, <3>2
    <3> QED
      BY <3>3, <3>4 DEF FastTrigger
  <2>2. CASE family # "XX742"
    <3>1. board'.fast = << >>
      BY <1>1, <2>2 DEF Configured, LoadDRS4CorrectionData, ProgramDigitizer
    <3> QED
      BY <3>1, EmptyDomain
  <2> QED
    BY <2>1, <2>2
<1> QED
  <2> DEFINE d == Last(loaded)'
  <2>1. d = c /\ c' = c
    BY <1>2, <1>4
  <2>2. \A k \in (DOMAIN board'.plain \cap Plain) \ {"RECORD_LENGTH", "POST_TRIGGER"} :
          Get(board'.plain, k, 0) = d.plain[k]
    BY <1>7, <2>1
  <2>7. Steady(Last(loaded))' => /\ Get(board'.plain, "RECORD_LENGTH", 0) = GrantedRecords(Last(loaded))'
                                 /\ Get(board'.plain, "POST_TRIGGER", 0) = GrantedPost(Last(loaded))'
    BY <1>2, <1>4, <1>12, <2>1 DEF Steady, GrantedRecords, GrantedPost
  <2>3. \A u \in DOMAIN board'.edge : board'.edge[u] = IF d.polarity = "POSITIVE" THEN "RISING" ELSE "FALLING"
    BY <1>8, <2>1
  <2>4. \A u \in DOMAIN board'.threshold : board'.threshold[u] = d.threshold[u]
    BY <1>9, <2>1
  <2>5. \A u \in DOMAIN board'.offset :
          board'.offset[u] = IF GetInfo'.family = "XX742" THEN WantedGroupOffset(u)' ELSE WantedOffset(Last(loaded), u)'
    BY <1>2, <1>4, <1>10, <2>1 DEF WantedOffset
  <2>6. \A g \in DOMAIN board'.fast :
          LET t == IF g \in {0, 1} THEN 0 ELSE 1
          IN  board'.fast[g] = [offset |-> IF d.trBaseline[t] # 0 THEN d.trBaseline[t] ELSE d.trOffset[t],
                                threshold |-> d.trThreshold[t]]
    BY <1>11, <2>1
  <2> QED
    BY <2>2, <2>3, <2>4, <2>5, <2>6, <2>7 DEF AsInitialized

\* AsInitialized: whatever is edited, however the module has come back and however often
\* it is configured, a programmed board has the settings of the file of the last
\* Initialize, by its precedences, and of its record length and post trigger what a
\* board that rounds them steadily makes of them.
THEOREM SettingsAsInitialized == CSpec => []AsInitialized
<1>1. CInit => AsInitialized
  BY DEF CInit, Programmed, AsInitialized
<1>2. CInv /\ AsInitialized /\ [CNext]_cvars => AsInitialized'
  <2> SUFFICES ASSUME CInv, AsInitialized, [CNext]_cvars PROVE AsInitialized'
    OBVIOUS
  <2>1. CASE Configure
    BY <2>1, ConfigureAsInitialized
  <2>2. CASE Initialize
    BY <2>2, InitializeUnprograms DEF AsInitialized
  <2>3. CASE ~Configure /\ ~Initialize
    <3>1. Kept
      BY <2>3, KeptBySteps
    <3>2. GetInfo' = GetInfo /\ loaded' = loaded /\ calibration' = calibration
      BY <3>1, SameInfo DEF Kept
    <3>3. /\ board'.plain = board.plain /\ board'.edge = board.edge
          /\ board'.threshold = board.threshold /\ board'.offset = board.offset
          /\ board'.fast = board.fast
      BY <3>1 DEF Kept, CInv, BoardPhase
    <3>4. \A c, u : WantedOffset(c, u)' = WantedOffset(c, u)
      BY <3>2 DEF WantedOffset
    <3>5. \A ch : WantedGroupOffset(ch)' = WantedGroupOffset(ch)
      BY <3>2, <3>4 DEF WantedGroupOffset
    <3>6. \A c : /\ Steady(c)' <=> Steady(c)
                 /\ GrantedRecords(c)' = GrantedRecords(c) /\ GrantedPost(c)' = GrantedPost(c)
      BY <3>1, <3>2 DEF Kept, Steady, GrantedRecords, GrantedPost
    <3> QED
      BY <3>1, <3>2, <3>3, <3>4, <3>5, <3>6 DEF Kept, AsInitialized
  <2> QED
    BY <2>1, <2>2, <2>3
<1> QED
  BY <1>1, <1>2, ConfigInvariance, PTL DEF CSpec

-----------------------------------------------------------------------------
(* The direct writes. *)

\* Induction, from a set that has what it claims of 0 and of n + 1.
LEMMA Induction ==
  ASSUME NEW T, 0 \in T, \A n \in Nat : n \in T => n + 1 \in T
  PROVE  \A n \in Nat : n \in T
<1> SUFFICES ASSUME NEW n \in Nat, n \notin T PROVE FALSE
  OBVIOUS
<1> DEFINE N == {y \in Nat : y \notin T}
<1>1. PICK x \in N : \A y \in N : ~(<<y, x>> \in OpToRel(<, Nat))
  <2>1. n \in N /\ N \in SUBSET Nat
    OBVIOUS
  <2> QED
    BY <2>1, NatLessThanWellFounded, WFMin
<1>2. \A y \in N : ~(y < x)
  BY <1>1 DEF OpToRel
<1>3. x # 0 /\ x - 1 \in Nat
  OBVIOUS
<1>4. x - 1 \in T
  BY <1>2, <1>3
<1> QED
  BY <1>3, <1>4

\* Written is what its recursion says, because there is a function that is.
LEMMA WrittenIs ==
  ASSUME NEW bits, NEW writes, Len(writes) \in Nat
  PROVE  Written(bits, writes) =
           [n \in 0..Len(writes) |->
              IF n = 0 THEN bits ELSE WriteRegisterBitmask(Written(bits, writes)[n - 1], writes[n])]
<1> DEFINE Course(g, m) ==
             g = [n \in 0..m |-> IF n = 0 THEN bits ELSE WriteRegisterBitmask(g[n - 1], writes[n])]
           T == {m \in Nat : \E g : Course(g, m)}
<1>1. 0 \in T
  <2> DEFINE g == [n \in 0..0 |-> bits]
  <2>1. Course(g, 0)
    OBVIOUS
  <2> QED
    BY <2>1
<1>2. ASSUME NEW m \in Nat, m \in T PROVE m + 1 \in T
  <2>1. PICK g : Course(g, m)
    BY <1>2
  <2> DEFINE h == [n \in 0..(m + 1) |->
                    IF n <= m THEN g[n] ELSE WriteRegisterBitmask(g[m], writes[m + 1])]
  <2>2. \A n \in 0..m : h[n] = IF n = 0 THEN bits ELSE WriteRegisterBitmask(h[n - 1], writes[n])
    <3> SUFFICES ASSUME NEW n \in 0..m
                 PROVE  h[n] = IF n = 0 THEN bits ELSE WriteRegisterBitmask(h[n - 1], writes[n])
      OBVIOUS
    <3>1. h[n] = g[n] /\ (n # 0 => h[n - 1] = g[n - 1])
      OBVIOUS
    <3>2. g[n] = IF n = 0 THEN bits ELSE WriteRegisterBitmask(g[n - 1], writes[n])
      BY <2>1
    <3> QED
      BY <3>1, <3>2
  <2>3. h[m + 1] = WriteRegisterBitmask(h[m], writes[m + 1])
    OBVIOUS
  <2>4. DOMAIN h = 0..(m + 1) /\ h = [n \in 0..(m + 1) |-> h[n]]
    OBVIOUS
  <2> HIDE DEF h
  <2>5. Course(h, m + 1)
    BY <2>2, <2>3, <2>4
  <2> QED
    BY <2>5
<1> HIDE DEF T
<1>3. Len(writes) \in T
  BY <1>1, <1>2, Induction
<1>4. PICK g : Course(g, Len(writes))
  BY <1>3 DEF T
<1> QED
  BY <1>4 DEF Written

LEMMA MaxIs ==
  ASSUME NEW N \in SUBSET Nat, NEW m \in N, \A n \in N : m >= n
  PROVE  Max(N) = m
<1>1. Max(N) \in N /\ \A n \in N : Max(N) >= n
  BY DEF Max
<1>2. Max(N) \in Nat /\ m \in Nat /\ Max(N) >= m /\ m >= Max(N)
  BY <1>1
<1> QED
  BY <1>2

\* Of the first n of the writes, those that have bit b of register r in their mask.
On(writes, n, r, b) == {k \in 1..n : writes[k].register = r /\ b \in writes[k].mask}

\* A bit has the value that the last of them gives it, or the one it had.
LEMMA LastWriteWins ==
  ASSUME NEW bits, NEW S, NEW writes \in Seq(S), NEW r \in DOMAIN bits, NEW b
  PROVE  LET after == Written(bits, writes)[Len(writes)]
             on == On(writes, Len(writes), r, b)
         IN  /\ DOMAIN after = DOMAIN bits
             /\ on = {} => (b \in after[r] <=> b \in bits[r])
             /\ on # {} => \E m \in on : /\ \A k \in on : m >= k
                                         /\ b \in after[r] <=> b \in writes[m].data
<1> DEFINE f == Written(bits, writes)
           Claim(n) == /\ DOMAIN f[n] = DOMAIN bits
                       /\ On(writes, n, r, b) = {} => (b \in f[n][r] <=> b \in bits[r])
                       /\ On(writes, n, r, b) # {} =>
                            \E m \in On(writes, n, r, b) :
                              /\ \A k \in On(writes, n, r, b) : m >= k
                              /\ b \in f[n][r] <=> b \in writes[m].data
           T == {n \in Nat : n <= Len(writes) => Claim(n)}
<1>1. Len(writes) \in Nat
  OBVIOUS
<1>2. f[0] = bits /\ \A n \in 1..Len(writes) : f[n] = WriteRegisterBitmask(f[n - 1], writes[n])
  BY <1>1, WrittenIs
<1> HIDE DEF f
<1>3. 0 \in T
  <2>1. On(writes, 0, r, b) = {}
    BY DEF On
  <2> QED
    BY <1>2, <2>1
<1>4. ASSUME NEW n \in Nat, n \in T PROVE n + 1 \in T
  <2> SUFFICES ASSUME n + 1 <= Len(writes) PROVE Claim(n + 1)
    OBVIOUS
  <2> DEFINE w == writes[n + 1]
             hit == w.register = r /\ b \in w.mask
  <2>1. Claim(n) /\ n + 1 \in 1..Len(writes)
    BY <1>1, <1>4
  <2>2. f[n + 1] = [f[n] EXCEPT ![w.register] = (@ \ w.mask) \cup (w.data \cap w.mask)]
    <3>1. f[n + 1] = WriteRegisterBitmask(f[(n + 1) - 1], w) /\ (n + 1) - 1 = n
      BY <1>2, <2>1
    <3> QED
      BY <3>1 DEF WriteRegisterBitmask
  <2>3. On(writes, n + 1, r, b) = IF hit THEN On(writes, n, r, b) \cup {n + 1} ELSE On(writes, n, r, b)
    BY DEF On
  <2>4. On(writes, n, r, b) \subseteq 1..n
    BY DEF On
  <2>5. DOMAIN f[n + 1] = DOMAIN bits
    BY <2>1, <2>2
  <2>6. b \in f[n + 1][r] <=> IF hit THEN b \in w.data ELSE b \in f[n][r]
    BY <2>1, <2>2
  <2>7. CASE hit
    <3>1. n + 1 \in On(writes, n + 1, r, b) /\ \A k \in On(writes, n + 1, r, b) : n + 1 >= k
      BY <2>3, <2>4, <2>7
    <3> QED
      BY <2>5, <2>6, <2>7, <3>1
  <2>8. CASE ~hit
    BY <2>1, <2>3, <2>5, <2>6, <2>8
  <2> QED
    BY <2>7, <2>8
<1> HIDE DEF T
<1>5. Len(writes) \in T
  BY <1>1, <1>3, <1>4, Induction
<1> QED
  BY <1>1, <1>5 DEF T, f

\* The writes are those of the last file that had any.
LEMMA WritesOfLast ==
  ASSUME CInv
  PROVE  LET with == {n \in DOMAIN loaded : WellFormed(loaded[n].writes)}
         IN  /\ params.writes = IF with = {} THEN << >> ELSE loaded[Max(with)].writes.list
             /\ \E S : params.writes \in Seq(S)
<1> DEFINE with == WithWrites(loaded)
<1>1. CASE with = {}
  <2>1. params.writes = << >> /\ << >> \in Seq({})
    BY <1>1 DEF CInv, WritesPhase
  <2> QED
    BY <1>1, <2>1 DEF WithWrites
<1>2. CASE with # {}
  <2>1. PICK m \in with : (\A n \in with : m >= n) /\ params.writes = loaded[m].writes.list
    BY <1>2 DEF CInv, WritesPhase
  <2>2. \A n \in with : n \in Nat /\ loaded[n] \in Files /\ loaded[n].writes.form = "list"
    BY DEF CInv, CTypeOK, WithWrites, WellFormed
  <2>3. with \in SUBSET Nat
    BY <2>2
  <2>4. Max(with) = m
    <3> HIDE DEF with
    <3> QED
      BY <2>1, <2>3, MaxIs
  <2>5. params.writes \in Seq(ToSet(params.writes))
    BY <2>1, <2>2, ConfigAssumption
  <2> QED
    BY <1>2, <2>1, <2>4, <2>5 DEF WithWrites
<1> QED
  BY <1>1, <1>2

\* What is claimed of the bits, by the files that have been read.
BitsAre(l, bits) ==
  LET with == {n \in DOMAIN l : WellFormed(l[n].writes)}
      writes == IF with = {} THEN << >> ELSE l[Max(with)].writes.list
  IN  \A r \in DOMAIN bits, b \in 0..7 :
        LET on == {n \in DOMAIN writes : writes[n].register = r /\ b \in writes[n].mask}
        IN  b \in bits[r] <=> IF on = {} THEN r = "CONFIG" /\ b = 3 /\ Last(l).test
                                        ELSE b \in writes[Max(on)].data

LEMMA Claimed ==
  /\ DirectWritesLast <=> (Programmed => BitsAre(loaded, board.bits))
  /\ DirectWritesLast' <=> (Programmed' => BitsAre(loaded', board'.bits))
BY DEF DirectWritesLast, BitsAre

\* What DoConfigure leaves in the registers that are written bit by bit.
LEMMA ConfigureWrites ==
  ASSUME CInv, Configure
  PROVE  DirectWritesLast'
<1>1. PICK cal \in LoadDACCalibration \ {"crash"}, irq \in SetInterruptConfig, adc \in PerformCalibration :
        Configured(cal, irq, adc)
  BY DEF Configure, DoConfigure, Configured
<1>2. UNCHANGED loaded /\ loaded # << >>
  BY DEF Configure, CInv, MembersPhase, AcceptedIn
<1> DEFINE with == {n \in DOMAIN loaded : WellFormed(loaded[n].writes)}
           writes == IF with = {} THEN << >> ELSE loaded[Max(with)].writes.list
           bits == [ResetBoard.bits EXCEPT !["CONFIG"] = IF params.test THEN {3} ELSE {}]
           test == Last(loaded).test
<1>3. board'.bits = DirectWrites(bits)
  BY <1>1 DEF Configured, LoadDRS4CorrectionData, ProgramDigitizer
<1>4. params.writes = writes /\ \E S : writes \in Seq(S)
  BY WritesOfLast
<1>5. params.test = test
  BY <1>2 DEF CInv, LastPhase, Last
<1>6. DOMAIN bits = {"CONFIG", "OTHER"}
      /\ \A r \in DOMAIN bits, b \in 0..7 : b \in bits[r] <=> r = "CONFIG" /\ b = 3 /\ test
  BY <1>5 DEF ResetBoard
<1> HIDE DEF bits, writes, test
<1>7. ASSUME NEW r \in DOMAIN board'.bits, NEW b \in 0..7
      PROVE  LET on == {n \in DOMAIN writes : writes[n].register = r /\ b \in writes[n].mask}
             IN  b \in board'.bits[r] <=> IF on = {} THEN r = "CONFIG" /\ b = 3 /\ test
                                                   ELSE b \in writes[Max(on)].data
  <2>1. PICK S : writes \in Seq(S)
    BY <1>4
  <2>2. DOMAIN writes = 1..Len(writes) /\ Len(writes) \in Nat
    BY <2>1
  <2> DEFINE on == On(writes, Len(writes), r, b)
  <2>3. board'.bits = Written(bits, writes)[Len(writes)]
    BY <1>3, <1>4 DEF DirectWrites
  <2>4. r \in DOMAIN bits
    BY <1>6, <2>1, <2>3, LastWriteWins
  <2>5. /\ on = {} => (b \in board'.bits[r] <=> b \in bits[r])
        /\ on # {} => \E m \in on : /\ \A k \in on : m >= k
                                    /\ b \in board'.bits[r] <=> b \in writes[m].data
    BY <2>1, <2>3, <2>4, LastWriteWins
  <2>6. on = {n \in DOMAIN writes : writes[n].register = r /\ b \in writes[n].mask}
    BY <2>2 DEF On
  <2>7. on \in SUBSET Nat
    BY <2>2 DEF On
  <2> HIDE DEF on
  <2>8. ASSUME on # {} PROVE b \in board'.bits[r] <=> b \in writes[Max(on)].data
    <3>1. PICK m \in on : /\ \A k \in on : m >= k
                          /\ b \in board'.bits[r] <=> b \in writes[m].data
      BY <2>5, <2>8
    <3>2. Max(on) = m
      BY <2>7, <3>1, MaxIs
    <3> QED
      BY <3>1, <3>2
  <2> QED
    BY <1>6, <2>4, <2>5, <2>6, <2>8
<1>8. BitsAre(loaded, board'.bits)
  BY <1>7 DEF BitsAre, writes, test
<1> QED
  BY <1>2, <1>8, Claimed

\* DirectWritesLast: a bit of a programmed board has the value of the last of the direct
\* writes that has it in its mask, for any list of writes (WriteRegisterBitmask).
THEOREM DirectWritesCorrect == CSpec => []DirectWritesLast
<1>1. CInit => DirectWritesLast
  BY DEF CInit, Programmed, DirectWritesLast
<1>2. CInv /\ DirectWritesLast /\ [CNext]_cvars => DirectWritesLast'
  <2> SUFFICES ASSUME CInv, DirectWritesLast, [CNext]_cvars PROVE DirectWritesLast'
    OBVIOUS
  <2>1. CASE Configure
    BY <2>1, ConfigureWrites
  <2>2. CASE Initialize
    BY <2>2, InitializeUnprograms DEF DirectWritesLast
  <2>3. CASE ~Configure /\ ~Initialize
    <3>1. Kept
      BY <2>3, KeptBySteps
    <3>2. loaded' = loaded /\ board'.bits = board.bits
      BY <3>1 DEF Kept, CInv, BoardPhase
    <3> QED
      BY <3>1, <3>2, Claimed DEF Kept
  <2> QED
    BY <2>1, <2>2, <2>3
<1> QED
  BY <1>1, <1>2, ConfigInvariance, PTL DEF CSpec

=============================================================================
