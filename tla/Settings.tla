------------------------------ MODULE Settings ------------------------------
(***************************************************************************)
(* The wrappers of CAENDigitizerBoard around the digitizer library: Set    *)
(* turns the text of a setting into an enumerator of the library and       *)
(* refuses (InvalidParam) any other, Get turns it back.  Enumerators have  *)
(* here the names that Get gives them.  Numbers go through as they are.    *)
(***************************************************************************)
EXTENDS Naturals

Same(S) == [t \in S |-> t]
Renamed(S, text, name) == [t \in S \cup {text} |-> IF t = text THEN name ELSE t]

EnaDis == Same({"ENABLED", "DISABLED"})
TriggerModes == Same({"DISABLED", "EXTOUT_ONLY", "ACQ_ONLY", "ACQ_AND_EXTOUT"})
PulsePolarities == Same({"POSITIVE", "NEGATIVE"})
ZeroSuppressionModes == Same({"NO", "INT", "ZLE", "AMP"})
AcquisitionModes ==
  Renamed({"SW_CONTROLLED", "FIRST_TRG_CONTROLLED", "LVDS_CONTROLLED"}, "IN_CONTROLLED", "S_IN_CONTROLLED")
RunSynchronizationModes ==
  Renamed({"Disabled", "TrgOutTrgInDaisyChain", "TrgOutSinDaisyChain", "SinFanout"},
          "CAEN_DGTZ_RUN_SYNC_GpioGpioDaisyChain", "GpioGpioDaisyChain")
AnalogMonOutputs ==
  Same({"TRIGGER_MAJORITY", "TEST", "ANALOG_INSPECTION", "BUFFER_OCCUPANCY", "VOLTAGE_LEVEL"})
EventPackaging == Same({"ENABLED", "DISABLED"})
IOLevels == Same({"NIM", "TTL"})
Frequencies == Same({"5GHz", "2.5GHz", "1GHz", "750MHz"})
FastTriggerModes == Same({"DISABLED", "ACQ_ONLY"})
InterruptModes == Same({"RORA", "ROAK"})

\* What a DPPAcquisitionMode can be made of.
AcqMode == {"Oscilloscope", "List", "Mixed"}
SaveParam == {"EnergyOnly", "TimeOnly", "EnergyAndTime", "None"}

\* SetDPPAcquisitionMode: the chain of ifs over the saved parameter lacks an else, so
\* that all but EnergyAndTime end as None.
DPPAcquisitionModes ==
  [m \in AcqMode \X SaveParam |->
     IF m[2] = "EnergyAndTime" THEN m ELSE <<m[1], "None">>]

\* The registers by what they hold: the texts Set takes, and the enumerators.
Texts ==
  [DES_MODE |-> EnaDis,                SW_TRIGGER |-> TriggerModes,
   EXTERNAL_TRIGGER |-> TriggerModes,  CHANNEL_TRIGGER |-> TriggerModes,
   GROUP_TRIGGER |-> TriggerModes,     PULSE_POLARITY |-> PulsePolarities,
   ZERO_SUPPRESSION |-> ZeroSuppressionModes,
   ACQUISITION_MODE |-> AcquisitionModes,
   RUN_SYNC |-> RunSynchronizationModes,
   ANALOG_MONITOR |-> AnalogMonOutputs,
   EVENT_PACKAGING |-> EventPackaging, DPP_ACQUISITION |-> DPPAcquisitionModes,
   FPIO_LEVEL |-> IOLevels,            DRS4_FREQUENCY |-> Frequencies,
   FAST_TRIGGER |-> FastTriggerModes,  FAST_DIGITIZING |-> EnaDis,
   TRIGGER_POLARITY |-> [POSITIVE |-> "RISING", NEGATIVE |-> "FALLING"],
   DPP_TRIGGER |-> Same({"Normal", "Coincidence"}),
   INTERRUPT_STATE |-> EnaDis,         INTERRUPT_MODE |-> InterruptModes]

\* The registers that hold a number.
Records == {"RECORD_LENGTH", "CHANNEL_ENABLE_MASK", "GROUP_ENABLE_MASK"}
Channels32 == {"CHANNEL_GROUP_MASK", "POST_TRIGGER", "DPP_PRE_TRIGGER", "CHANNEL_DC_OFFSET",
               "GROUP_DC_OFFSET", "CHANNEL_THRESHOLD"}
Blocks == {"MAX_NUM_AGGREGATES_BLT", "MAX_NUM_EVENTS_BLT"}
FastTriggers == {"FAST_TRIGGER_THRESHOLD", "FAST_TRIGGER_DC_OFFSET"}
Decimation == {"DECIMATION_FACTOR"}
Numbers == Records \cup Channels32 \cup Blocks \cup FastTriggers \cup Decimation \cup {"GROUP_THRESHOLD"}

\* InterruptConfig: the level has 8 bits, the number of events 16.
InterruptConfig(level, statusID, events) ==
  [level |-> level % 2^8, statusID |-> statusID, events |-> events % 2^16]

\* What Set does not throw InvalidParam for.
Settable(k, v) == IF k \in Numbers THEN TRUE ELSE v \in DOMAIN Texts[k]

\* What Set asks the library to store.
Stored(k, v) == IF k \in Numbers THEN v ELSE Texts[k][v]

\* GetTriggerPolarity compares the number of the channel with the enumerator of the
\* rising edge, which is 0.
GetTriggerPolarity(channel) == IF channel = 0 THEN "POSITIVE" ELSE "NEGATIVE"

Get(b, k, channel) == IF k = "TRIGGER_POLARITY" THEN GetTriggerPolarity(channel) ELSE b[k]
=============================================================================
