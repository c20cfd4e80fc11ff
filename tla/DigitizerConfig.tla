--------------------------- MODULE DigitizerConfig ---------------------------
(***************************************************************************)
(* How a digitizer gets its settings (extras/CAEN/src/CAENDigitizerBoard): *)
(* verifyParameters reads them from the configuration file when the module *)
(* is initialized, and DoConfigure asks the board what it is and programs  *)
(* it.  Between the two the file may be edited and, as the module can come *)
(* back to either, the members keep what earlier files have left in them.  *)
(*                                                                         *)
(* The board is external: a register file that Reset clears and the calls  *)
(* of the library fill.  It may round the record length and the post       *)
(* trigger it is asked for, and Configure keeps what it has made of them.  *)
(* The conversions to DAC counts are uninterpreted: the model keeps which  *)
(* value went through which of them.                                       *)
(***************************************************************************)
EXTENDS RunStates, Settings, Integers, Sequences, SequencesExt, FiniteSetsExt

CONSTANTS
  Files,         \* the contents the board's table of the configuration file may have
  Hardware,      \* the boards: what GetInfo is told, and whether there is a DAC calibration
  RecordLengthOf(_, _),      \* what a board makes of a record length
  PostTriggerOf(_, _, _),    \* what it makes, at a record length, of a post trigger
  MaxInits       \* bound: Initialize actions

\* m_MAX_SET, and the channels of a group.
Setting == 0..15
Place == 0..7

\* The settings that go from the file to the board as they are, and what
\* verifyParameters and the board accept of them.
Plain == {"RECORD_LENGTH", "DRS4_FREQUENCY", "POST_TRIGGER", "EXTERNAL_TRIGGER",
          "FAST_TRIGGER", "FAST_DIGITIZING", "DECIMATION_FACTOR", "MAX_NUM_EVENTS_BLT", "FPIO_LEVEL"}

\* Every setting has a value, if it is the default, USE_INTERRUPT is a number,
\* verifyParameters looks for the lists of these groups, and WRITE_REGISTER that is a
\* list has its writes in order.
ASSUME ConfigAssumption ==
  /\ MaxInits \in Nat
  /\ \A f \in Files :
       /\ DOMAIN f.plain = Plain
       /\ f.interrupt \in Nat /\ DOMAIN f.groupOffsets \subseteq Setting
       /\ f.writes.form = "list" => f.writes.list \in Seq(ToSet(f.writes.list))

VARIABLES
  hardware,      \* the board, one of Hardware
  file,          \* the file's table for the board
  state,         \* m_State, "Dead" when the process has ended
  inits, loaded, \* Initialize actions; history: the files read so, the last one last
  params,        \* the members verifyParameters fills, and Configure changes
  interrupts,    \* m_InterruptNumEvents
  known,         \* what GetInfo and GetMoreBoardInfo have found
  calibration,   \* whose m_Cal and m_Offset the settings use
  mask,          \* m_EnableMask
  board          \* the board's registers

cvars == <<hardware, file, state, inits, loaded, params, interrupts, known,
           calibration, mask, board>>

-----------------------------------------------------------------------------
(* What the board is. *)

\* setFamilyCode and setFormFactor: what the library does not name so has no name.
setFamilyCode(code) ==
  IF code \in {"XX724", "XX721", "XX731", "XX720", "XX740", "XX751", "XX742", "XX780", "XX761",
              "XX743", "XX730", "XX790", "XX781", "XX725", "XX782"} THEN code ELSE ""

setFormFactor(code) == IF code \in {"VME64", "VME64X", "DESKTOP", "NIM"} THEN code ELSE ""

\* The major number of the AMC firmware's release.
setHasDPPFirware(release) == release > 128

\* What the module makes of the board's answer.
GetInfo == [family |-> setFamilyCode(hardware.code), form |-> setFormFactor(hardware.form),
            dpp |-> setHasDPPFirware(hardware.release)]

Grouped(family) == family \in {"XX740", "XX742"}

\* GetMoreBoardInfo: m_Nch by family and form factor.  The families it does not name
\* (XX743, XX782, XX790) keep the 0 of the start.
Channels(family, form) ==
  LET big == form \in {"VME64", "VME64X"}
  IN  CASE family \in {"XX724", "XX781", "XX780", "XX720", "XX721", "XX751", "XX761", "XX731"}
             -> IF big THEN 8 ELSE 4
        [] family \in {"XX725", "XX730"} -> IF big THEN 16 ELSE 8
        [] family = "XX740" -> IF big THEN 64 ELSE 32
        [] family = "XX742" -> IF big THEN 36 ELSE 16
        [] OTHER -> 0

\* m_Ts in picoseconds; for XX742 the board is asked for its frequency.
Period(family, frequency) ==
  CASE family \in {"XX724", "XX781", "XX780", "XX751"} -> 1000
    [] family \in {"XX720", "XX725"} -> 4000
    [] family \in {"XX721", "XX731", "XX730"} -> 2000
    [] family = "XX761" -> 250
    [] family = "XX740" -> 16000
    [] family = "XX742" /\ frequency = "1GHz" -> 1000
    [] family = "XX742" /\ frequency = "2.5GHz" -> 400
    [] family = "XX742" /\ frequency = "5GHz" -> 200
    [] family = "XX742" /\ frequency = "750MHz" -> 1333
    [] OTHER -> 0

\* The channels, or for the families with groups the groups, that have settings.
Units(family, nch) == 0..((IF Grouped(family) THEN nch \div 8 ELSE nch) - 1)

\* CAEN_DGTZ_Reset.
ResetBoard ==
  [plain |-> << >>, bits |-> [r \in {"CONFIG", "OTHER"} |-> {}],
   offset |-> << >>, threshold |-> << >>, fast |-> << >>,
   edge |-> << >>, trigger |-> << >>, groupMask |-> << >>, enabled |-> {}, adc |-> FALSE, irq |-> "off", irqEvents |-> 0,
   tables |-> "none"]

\* CAEN_DGTZ_GetDRS4SamplingFrequency.
Frequency(b) == IF "DRS4_FREQUENCY" \in DOMAIN b.plain THEN Get(b.plain, "DRS4_FREQUENCY", 0) ELSE "5GHz"

-----------------------------------------------------------------------------
(* verifyParameters. *)

Percent(v) == <<"percent", v>>
Level(v, polarity) == <<"level", v, polarity>>

\* The checks that throw.  The family is known once the board has been configured.
Acceptable(c, family) ==
  /\ c.plain["RECORD_LENGTH"] <= 1024
  /\ family = "XX742" => c.plain["RECORD_LENGTH"] \in {1024, 520, 256, 136}
  /\ c.plain["DRS4_FREQUENCY"] \in {"5GHz", "2.5GHz", "1GHz", "750MHz"}
  /\ c.plain["DECIMATION_FACTOR"] \in {1, 2, 4, 8, 16, 32, 64, 128}
  /\ c.plain["EXTERNAL_TRIGGER"] \in {"DISABLED", "ACQ_ONLY", "ACQ_AND_EXTOUT"}
  /\ c.plain["MAX_NUM_EVENTS_BLT"] <= 1023
  /\ c.plain["FAST_TRIGGER"] \in {"DISABLED", "ACQ_ONLY"}
  /\ c.plain["FPIO_LEVEL"] \in {"NIM", "TTL"}
  /\ c.polarity \in {"NEGATIVE", "POSITIVE"}
  /\ \A g \in DOMAIN c.groupOffsets : Len(c.groupOffsets[g]) = 8

\* The members of one setting after each of the four passes over them, in the
\* order of the code: DC_OFFSET_COMMON, DC_OFFSET_CHANNEL, BASELINE_LEVEL_COMMON,
\* BASELINE_LEVEL_CHANNEL.  0 is the default of every key.
DcOffset(s, v) == [s EXCEPT !.dcOffset = Percent(v), !.version = 0, !.file = v]
Baseline(s, v, polarity) ==
  IF v = 0 THEN s ELSE [dcOffset |-> Level(v, polarity), version |-> 1, file |-> v]

OffsetPassesSwapped(s, c, i) ==   \* slip: the common pass comes after the channels'
  Baseline(Baseline(DcOffset(s, c.dcChannel[i]), c.baseline[i], c.polarity), c.baselineCommon, c.polarity)

OffsetPasses(s, c, i) ==
  LET common == IF c.dcCommon # 0 THEN DcOffset(s, c.dcCommon) ELSE s
      channel == DcOffset(common, c.dcChannel[i])
  IN  Baseline(Baseline(channel, c.baselineCommon, c.polarity), c.baseline[i], c.polarity)

\* WRITE_REGISTER of another form is thrown for and caught at once.
WellFormed(writes) == writes.form = "list"

\* m_FTDCoffset and m_FTThreshold at i.  Beyond the array the loop over DC_OFFSET_TR
\* writes into m_FTThreshold, which is then filled from the file.
FastTrigger(c, i) ==
  LET t == i \div 2
  IN  [offset |-> IF c.trBaseline[t] # 0 THEN c.trBaseline[t] ELSE c.trOffset[t],
       threshold |-> c.trThreshold[t]]

\* The lists of the groups that have one; the other elements keep their value.
GroupOffsets(old, c) ==
  [g \in DOMAIN old \cup DOMAIN c.groupOffsets |->
     IF g \in DOMAIN c.groupOffsets THEN [j \in Place |-> Percent(c.groupOffsets[g][j + 1])] ELSE old[g]]

\* TRIGGER_THRESHOLD_COMMON is overwritten by the channels' loop, whatever they hold.
verifyParameters(p, c) ==
  [plain        |-> c.plain,
   test         |-> c.test,
   polarity     |-> c.polarity,
   trigger      |-> p.trigger,
   groupMask    |-> p.groupMask,
   calibrate    |-> c.skipCalibration,
   writes       |-> IF WellFormed(c.writes) THEN c.writes.list ELSE p.writes,
   set          |-> [i \in Setting |-> OffsetPasses(p.set[i], c, i)],
   groupOffsets |-> GroupOffsets(p.groupOffsets, c),
   fast         |-> [i \in Setting |-> FastTrigger(c, i)],
   threshold    |-> [i \in Setting |-> c.threshold[i]]]

initilizeParameters ==
  [plain |-> << >>, test |-> FALSE, polarity |-> "POSITIVE",
   trigger |-> [i \in Setting |-> "DISABLED"], groupMask |-> [i \in Setting |-> 0],
   calibrate |-> FALSE, writes |-> << >>,
   set |-> [i \in Setting |-> [dcOffset |-> 0, version |-> 0, file |-> 0]],
   groupOffsets |-> << >>,
   fast |-> [i \in Setting |-> [offset |-> 0, threshold |-> 0]],
   threshold |-> [i \in Setting |-> 0]]

-----------------------------------------------------------------------------
(* DoConfigure. *)

\* LoadDACCalibration: per setting the constants of its own channel.  XX740 has more
\* channels than m_Cal and m_Offset have elements: what is behind them, m_Offset and
\* then m_DRS4Frequency, is overwritten.
LoadDACCalibration ==
  IF GetInfo.family = "XX742" \/ ~hardware.calibrated THEN {calibration}
  ELSE IF GetInfo.family = "XX740" THEN {"own", "foreign", "crash"}
  ELSE {"own"}

\* Set_calibrated_DCO; the files' values are percents of the dynamic range.
Calibrated(s, polarity, cal) == <<"calibrated", s.file, polarity, cal>>

\* The offset of channel or group u, for XX740 and the families without groups.
UnitOffset(u, cal) ==
  LET s == params.set[u]
  IN  IF s.version = 1 THEN Calibrated(s, params.polarity, cal) ELSE s.dcOffset

\* The offset of channel ch of an XX742.
ChannelOffset(ch) ==
  IF ch \div 8 \in DOMAIN params.groupOffsets THEN params.groupOffsets[ch \div 8][ch % 8]
  ELSE params.set[ch \div 8].dcOffset

\* WriteRegisterBitmask on registers that are sets of bits.
WriteRegisterBitmask(bits, w) == [bits EXCEPT ![w.register] = (@ \ w.mask) \cup (w.data \cap w.mask)]

\* The registers before the first of the writes and after each of them.
Written(bits, writes) ==
  LET after[n \in 0..Len(writes)] ==
        IF n = 0 THEN bits ELSE WriteRegisterBitmask(after[n - 1], writes[n])
  IN  after

DirectWritesFirst(bits) ==   \* slip: the direct writes come before the other settings
  LET written == Written(ResetBoard.bits, params.writes)[Len(params.writes)]
  IN  [written EXCEPT !["CONFIG"] = @ \cup bits["CONFIG"]]

DirectWrites(bits) == Written(bits, params.writes)[Len(params.writes)]

\* The settings that are sent to a board of this family, with the two that are always
\* the same: the DES mode is never enabled.
Sent(family) ==
  LET others == {"DRS4_FREQUENCY", "FAST_TRIGGER", "FAST_DIGITIZING", "DECIMATION_FACTOR"}
      own == CASE family = "XX742" -> others \ {"DECIMATION_FACTOR"}
               [] family \in {"XX740", "XX724"} -> {"DECIMATION_FACTOR"}
               [] OTHER -> {}
      fixed == {"ACQUISITION_MODE"} \cup (IF family \in {"XX751", "XX731"} THEN {"DES_MODE"} ELSE {})
  IN  [k \in (Plain \ others) \cup own \cup fixed |->
         CASE k = "ACQUISITION_MODE" -> "SW_CONTROLLED" [] k = "DES_MODE" -> "DISABLED"
           [] OTHER -> params.plain[k]]

\* The modes and masks of the self triggers: by group, by channel, or by pairs, whose
\* mode is that of the even channel unless it is disabled.  An XX742 has none.
SelfTriggers(family, set, nch, modes) ==
  LET Pair(i) == IF modes[i] = "DISABLED" THEN <<modes[i + 1], {i + 1} \cap set>>
                 ELSE <<modes[i], {i} \cup (IF modes[i + 1] = "DISABLED" THEN {} ELSE {i + 1} \cap set)>>
  IN  CASE family = "XX742" -> << >>
        [] family \in {"XX730", "XX725"} ->
             [i \in {n \in 0..(nch - 1) : n % 2 = 0 /\ {n, n + 1} \cap set # {}} |-> Pair(i)]
        [] OTHER -> [u \in set |-> <<modes[u], {u}>>]

\* PerformCalibration: SKIP_STARTUP_CALIBRATION asks for it, and a failure is logged.
PerformCalibration ==
  IF params.calibrate /\ GetInfo.family \in {"XX761", "XX751", "XX730", "XX725"} THEN BOOLEAN ELSE {FALSE}

\* The registers of the texts and numbers, when they have been sent: the board may not
\* have just the record length and the post trigger it is asked for.
Held(sent) ==
  LET records == RecordLengthOf(hardware, sent["RECORD_LENGTH"])
  IN  [k \in DOMAIN sent |->
         CASE k = "RECORD_LENGTH" -> records
           [] k = "POST_TRIGGER" -> PostTriggerOf(hardware, records, sent[k])
           [] OTHER -> Stored(k, sent[k])]

\* The members that ProgramDigitizer reads back from a board with registers b.
MembersRead(b) ==
  LET read == {"RECORD_LENGTH"} \cup (IF GetInfo.family = "XX742" THEN {} ELSE {"POST_TRIGGER"})
  IN  [params EXCEPT !.plain = [k \in Plain |-> IF k \in read THEN Get(b.plain, k, 0) ELSE @[k]]]

\* ProgramDigitizer on the units of enable; irq says whether the interrupt could be
\* configured.  The order matters for the direct writes only.
ProgramDigitizer(family, nch, enable, cal, adc, irq) ==
  LET set == Units(family, nch) \cap enable
  IN  [plain     |-> Held(Sent(family)),
       bits      |-> DirectWrites([ResetBoard.bits EXCEPT !["CONFIG"] = IF params.test THEN {3} ELSE {}]),
       offset    |-> IF family = "XX742"
                     THEN [ch \in {8 * g + j : g \in set, j \in Place} |-> ChannelOffset(ch)]
                     ELSE [u \in set |-> UnitOffset(u, cal)],
       threshold |-> IF family = "XX742" THEN << >> ELSE [u \in set |-> params.threshold[u]],
       fast      |-> IF family = "XX742" THEN [g \in Units(family, nch) |-> params.fast[g]] ELSE << >>,
       edge      |-> [u \in set |-> Stored("TRIGGER_POLARITY", params.polarity)],
       trigger   |-> SelfTriggers(family, set, nch, params.trigger),
       groupMask |-> IF family = "XX740" THEN [g \in set |-> params.groupMask[g]] ELSE << >>,
       enabled   |-> enable,
       adc       |-> adc,
       irq       |-> irq,
       irqEvents |-> IF irq = "armed" THEN InterruptConfig(1, 2, interrupts).events ELSE 0,
       tables    |-> "none"]

MaskOfChannels(nch) == 0..(nch - 1)   \* slip: the channels' mask, for groups too

\* MaskChannels; the DES mode is never enabled.
MaskChannels(nch) == mask \cap Units(GetInfo.family, nch)

\* The outcomes of SetInterruptConfig: the number of events to wait for, the board.
SetInterruptConfigIgnored ==   \* slip: the failure is logged only
  IF interrupts = 0 THEN {<<0, "off">>} ELSE {<<interrupts, "armed">>, <<interrupts, "off">>}

SetInterruptConfig ==
  IF interrupts = 0 THEN {<<0, "off">>} ELSE {<<interrupts, "armed">>, <<0, "off">>}

FoundBefore(b) ==   \* slip: the board is not asked again after the programming
  [family |-> GetInfo.family, nch |-> Channels(GetInfo.family, GetInfo.form),
   period |-> Period(GetInfo.family, Frequency(board))]

\* GetInfo and GetMoreBoardInfo on a board with registers b.
Found(b) ==
  [family |-> GetInfo.family, nch |-> Channels(GetInfo.family, GetInfo.form),
   period |-> Period(GetInfo.family, Frequency(b))]

\* The DRS4 correction tables, for the frequency of the configuration.
LoadDRS4CorrectionData(b) ==
  [b EXCEPT !.tables = IF GetInfo.family = "XX742" THEN params.plain["DRS4_FREQUENCY"] ELSE @]

\* The board is asked what it is before the programming and again after it.
DoConfigure ==
  /\ ~GetInfo.dpp
  /\ \A k \in DOMAIN Sent(GetInfo.family) : Settable(k, Sent(GetInfo.family)[k])
  /\ \E cal \in LoadDACCalibration \ {"crash"}, irq \in SetInterruptConfig, adc \in PerformCalibration :
       LET nch == Found(board).nch
       IN  /\ calibration' = cal
           /\ mask' = MaskChannels(nch)
           /\ interrupts' = irq[1]
           /\ board' = LoadDRS4CorrectionData(
                         ProgramDigitizer(GetInfo.family, nch, mask', cal, adc, irq[2]))
           /\ params' = MembersRead(board')
           /\ known' = Found(board')

-----------------------------------------------------------------------------
(* The module. *)

CInit ==
  /\ hardware \in Hardware
  /\ file \in Files
  /\ state = "Uninitialized" /\ inits = 0 /\ loaded = << >>
  /\ params = initilizeParameters
  /\ interrupts = 0
  /\ known = [family |-> "", nch |-> 0, period |-> 0]
  /\ calibration = "none"
  /\ mask = Setting
  /\ board = ResetBoard

\* Somebody edits the file.
Edit(f) ==
  /\ f # file
  /\ file' = f
  /\ UNCHANGED <<hardware, state, inits, loaded, params, interrupts, known, calibration, mask, board>>

\* Module::Initialize with LoadConfig.
Initialize ==
  /\ state \in AcceptedIn("Initialize")
  /\ inits < MaxInits
  /\ Acceptable(file, known.family)
  /\ params' = verifyParameters(params, file)
  /\ interrupts' = file.interrupt
  /\ state' = "Initialized"
  /\ inits' = inits + 1
  /\ loaded' = Append(loaded, file)
  /\ UNCHANGED <<hardware, file, known, calibration, mask, board>>

\* verifyParameters throws, and the handler ends the process.
InitializeFails ==
  /\ state \in AcceptedIn("Initialize")
  /\ ~Acceptable(file, known.family)
  /\ state' = "Dead"
  /\ UNCHANGED <<hardware, file, inits, loaded, params, interrupts, known, calibration, mask, board>>

\* Module::Configure reads the file again into m_Conf, at which only verifyParameters
\* looks.
Configure ==
  /\ state \in AcceptedIn("Configure")
  /\ DoConfigure
  /\ state' = "Configured"
  /\ UNCHANGED <<hardware, file, inits, loaded>>

\* A DPP firmware, a call of the library that fails, or the overwritten memory: the
\* handler ends the process, or the process ends by itself.
ConfigureFails ==
  /\ state \in AcceptedIn("Configure")
  /\ state' = "Dead"
  /\ UNCHANGED <<hardware, file, inits, loaded, params, interrupts, known, calibration, mask, board>>

\* The actions that leave the settings alone.
Move(a) ==
  /\ a \in Action \ {"Initialize", "Configure", "Quit"}
  /\ state \in AcceptedIn(a) /\ state # Target(a)
  /\ state' = Target(a)
  /\ UNCHANGED <<hardware, file, inits, loaded, params, interrupts, known, calibration, mask, board>>

\* Interrupt, in the acquisition loop: the board's request comes, or the wait times
\* out.  A VME board is acknowledged, which releases its request (ROAK); the call that
\* would arm it again stands in the handler of the exceptions.
Interrupt ==
  /\ state = "Started" /\ interrupts > 0
  /\ board.irq = "armed" /\ GetInfo.form \in {"VME64", "VME64X"}
  /\ board' = [board EXCEPT !.irq = "released"]
  /\ UNCHANGED <<hardware, file, state, inits, loaded, params, interrupts, known, calibration, mask>>

CNext ==
  /\ state # "Dead"
  /\ \/ \E f \in Files : Edit(f)
     \/ Initialize \/ InitializeFails
     \/ Configure \/ ConfigureFails
     \/ \E a \in Action : Move(a)
     \/ Interrupt

CSpec == CInit /\ [][CNext]_cvars

-----------------------------------------------------------------------------
(* Properties. *)

\* The board is programmed: the states from Configure to Disconnect.
Programmed == state \in {"Configured", "Started", "Paused", "Stopped", "Cleared"}

CTypeOK ==
  /\ hardware \in Hardware /\ file \in Files
  /\ state \in State \cup {"Dead"}
  /\ inits \in 0..MaxInits /\ loaded \in Seq(Files) /\ Len(loaded) = inits
  /\ DOMAIN params.set = Setting /\ DOMAIN params.fast = Setting
  /\ DOMAIN params.groupOffsets \subseteq Setting
  /\ interrupts \in Nat
  /\ known.nch \in {0, 4, 8, 16, 32, 36, 64}
  /\ calibration \in {"none", "own", "foreign"}
  /\ mask \subseteq Setting
  /\ board.enabled \subseteq Setting /\ board.irq \in {"off", "armed", "released"}

\* What Configs.toml and the order of the keys promise of file c: a baseline of the
\* channel wins over the common one, and both over the offset of the channel.
WantedOffset(c, u) ==
  LET level == IF c.baseline[u] # 0 THEN c.baseline[u] ELSE c.baselineCommon
  IN  CASE level = 0 -> Percent(c.dcChannel[u])
        [] level # 0 /\ GetInfo.family = "XX742" -> Level(level, c.polarity)
        [] OTHER -> <<"calibrated", level, c.polarity, calibration>>

\* The offset of channel ch of an XX742: that of the last file with a list for its group.
WantedGroupOffset(ch) ==
  LET with == {n \in DOMAIN loaded : ch \div 8 \in DOMAIN loaded[n].groupOffsets}
  IN  IF with = {} THEN WantedOffset(Last(loaded), ch \div 8)
      ELSE Percent(loaded[Max(with)].groupOffsets[ch \div 8][(ch % 8) + 1])

\* What the board makes of the numbers of file c.
GrantedRecords(c) == RecordLengthOf(hardware, c.plain["RECORD_LENGTH"])
GrantedPost(c) == PostTriggerOf(hardware, GrantedRecords(c), c.plain["POST_TRIGGER"])

\* The board makes no more of what it has made of them; of the post trigger, where it
\* is read back at all.
Steady(c) ==
  /\ RecordLengthOf(hardware, GrantedRecords(c)) = GrantedRecords(c)
  /\ GetInfo.family # "XX742" => PostTriggerOf(hardware, GrantedRecords(c), GrantedPost(c)) = GrantedPost(c)

\* Whatever is edited, and whichever way the module has come back, a programmed board
\* has the settings of the file of the last Initialize: plain values, thresholds,
\* offsets by precedence, and the fast trigger TR0 for groups 0 and 1, TR1 for 2 and 3.
\* However often Configure is repeated, its record length and post trigger are what it
\* makes of the file's, if it makes no more of what it has made of them: what is
\* read back is programmed the next time.
AsInitialized ==
  Programmed =>
    LET c == Last(loaded)
    IN  /\ \A k \in (DOMAIN board.plain \cap Plain) \ {"RECORD_LENGTH", "POST_TRIGGER"} :
             Get(board.plain, k, 0) = c.plain[k]
        /\ Steady(c) => /\ Get(board.plain, "RECORD_LENGTH", 0) = GrantedRecords(c)
                        /\ Get(board.plain, "POST_TRIGGER", 0) = GrantedPost(c)
        /\ \A u \in DOMAIN board.edge : board.edge[u] = IF c.polarity = "POSITIVE" THEN "RISING" ELSE "FALLING"
        /\ \A u \in DOMAIN board.threshold : board.threshold[u] = c.threshold[u]
        /\ \A u \in DOMAIN board.offset :
             board.offset[u] = IF GetInfo.family = "XX742" THEN WantedGroupOffset(u) ELSE WantedOffset(c, u)
        /\ \A g \in DOMAIN board.fast :
             LET t == IF g \in {0, 1} THEN 0 ELSE 1
             IN  board.fast[g] = [offset |-> IF c.trBaseline[t] # 0 THEN c.trBaseline[t] ELSE c.trOffset[t],
                                  threshold |-> c.trThreshold[t]]

\* The direct writes are executed after the other settings (confs/Configs.toml): a bit
\* has the value of the last write that has it in its mask, among the writes of the
\* last file that had any; any other bit is left to the settings.
DirectWritesLast ==
  Programmed =>
    LET with == {n \in DOMAIN loaded : WellFormed(loaded[n].writes)}
        writes == IF with = {} THEN << >> ELSE loaded[Max(with)].writes.list
        On(r, b) == {n \in DOMAIN writes : writes[n].register = r /\ b \in writes[n].mask}
    IN  \A r \in DOMAIN board.bits, b \in 0..7 :
          b \in board.bits[r] <=>
            IF On(r, b) = {} THEN r = "CONFIG" /\ b = 3 /\ Last(loaded).test
            ELSE b \in writes[Max(On(r, b))].data

\* What the module knows of the board, and sends with every event, is true of the board
\* as it has been programmed, its correction tables are those of its
\* frequency, and all of the board's channels have been programmed.
KnownIsTrue ==
  Programmed =>
    LET nch == Channels(GetInfo.family, GetInfo.form)
    IN  /\ known.nch = nch
        /\ known.period = Period(GetInfo.family, Frequency(board))
        /\ board.tables = IF GetInfo.family = "XX742" THEN Frequency(board) ELSE "none"
        /\ board.enabled = Units(GetInfo.family, nch)
        /\ GetInfo.family # "XX742" => DOMAIN board.offset = board.enabled
        /\ GetInfo.family = "XX742" => DOMAIN board.offset = 0..(8 * (nch \div 8) - 1)

\* The acquisition loop waits for interrupts only on a board that has been told to
\* request them, though the failure to tell it is survived, and the count comes back
\* with the next Initialize.
InterruptsConfigured ==
  Programmed => /\ interrupts > 0 <=> board.irq # "off"
                /\ board.irqEvents = interrupts

=============================================================================
