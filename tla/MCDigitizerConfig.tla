-------------------------- MODULE MCDigitizerConfig --------------------------
(* DigitizerConfig for TLC. *)
EXTENDS DigitizerConfig

At(f) == [i \in Setting |-> IF i \in DOMAIN f THEN f[i] ELSE 0]
Once(i, v) == At([j \in {i} |-> v])

\* Every key at its default.
MCDefault ==
  [plain |-> [k \in Plain |->
                CASE k = "RECORD_LENGTH" -> 1024 [] k = "DRS4_FREQUENCY" -> "5GHz"
                  [] k = "POST_TRIGGER" -> 50 [] k = "EXTERNAL_TRIGGER" -> "ACQ_ONLY"
                  [] k = "FAST_TRIGGER" -> "DISABLED" [] k = "FAST_DIGITIZING" -> "ENABLED" [] k = "DECIMATION_FACTOR" -> 1
                  [] k = "MAX_NUM_EVENTS_BLT" -> 1023 [] k = "FPIO_LEVEL" -> "NIM"],
   test |-> FALSE, polarity |-> "NEGATIVE", skipCalibration |-> FALSE, interrupt |-> 0,
   writes |-> [form |-> "absent"], groupOffsets |-> << >>,
   dcCommon |-> 0, dcChannel |-> At(<< >>), baselineCommon |-> 0, baseline |-> At(<< >>),
   trOffset |-> At(<< >>), trBaseline |-> At(<< >>), trThreshold |-> At(<< >>),
   threshold |-> At(<< >>)]

\* A common baseline that channel 1 has otherwise, offsets below it, writes that share
\* bits with one another and with the test pattern, an interrupt.
MCBaselines ==
  [MCDefault EXCEPT !.test = TRUE, !.interrupt = 5, !.dcCommon = 7, !.dcChannel = Once(0, 3),
     !.baselineCommon = 50, !.baseline = Once(1, 80), !.polarity = "POSITIVE",
     !.trOffset = At([i \in {0, 1} |-> 100 + i]), !.trThreshold = At([i \in {0, 1} |-> 200 + i]),
     !.threshold = Once(1, 11), !.plain["DRS4_FREQUENCY"] = "1GHz",
     !.writes = [form |-> "list", list |-> <<[register |-> "CONFIG", data |-> {3, 4}, mask |-> {4, 5}],
                  [register |-> "CONFIG", data |-> {3, 5}, mask |-> {3}],
                  [register |-> "CONFIG", data |-> {}, mask |-> {3, 6}]>>]]

\* A list for one group, offsets of channels, a baseline of a fast trigger, a record
\* length that an XX742 does not have, writes that are not of the form.
MCGroups ==
  [MCDefault EXCEPT !.dcChannel = At([i \in {0, 1} |-> i + 1]), !.interrupt = 2,
     !.groupOffsets = [g \in {1} |-> <<1, 2, 3, 4, 5, 6, 7, 8>>],
     !.trBaseline = Once(1, 300), !.plain["RECORD_LENGTH"] = 520, !.writes = [form |-> "malformed"]]

\* Accepted as long as the family is not known, except for XX742.
MCLength == [MCDefault EXCEPT !.plain["RECORD_LENGTH"] = 300, !.skipCalibration = TRUE]

\* The value confs/Configs.toml names, which the code does not.
MCRefused == [MCDefault EXCEPT !.plain["EXTERNAL_TRIGGER"] = "ACQUISITION_AND_TRGOUT"]

MCFiles == {MCBaselines, MCGroups, MCLength, MCRefused}

Board(code, form, release, calibrated) ==
  [code |-> code, form |-> form, release |-> release, calibrated |-> calibrated]

\* A family with each kind of units, one with a DPP firmware, and one there is no
\* name for.
MCHardware ==
  {Board("XX742", "VME64", 4, TRUE), Board("XX740", "DESKTOP", 4, TRUE),
   Board("XX730", "VME64X", 4, TRUE), Board("XX724", "NIM", 4, FALSE),
   Board("XX751", "VME64", 130, FALSE), Board("new", "VME64", 4, FALSE)}

\* Record lengths come in steps of 16, but for the XX751, which gives what it is asked
\* for, and the XX730, which gives less each time.  Post triggers come in steps of 8 at
\* the longest records and of 4 at others.
MCRecordLengthOf(h, v) ==
  CASE h.code = "XX751" -> v
    [] h.code = "XX730" -> IF v > 400 THEN v - 256 ELSE v
    [] OTHER -> v - (v % 16)
MCPostTriggerOf(h, records, v) == v - (v % (IF records = 1024 THEN 8 ELSE 4))
=============================================================================
