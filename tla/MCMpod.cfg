CONSTANTS
  Slots = 2
  Modules <- MCModules
  Versions = {"v1", "v2c"}
  Methods = {"getCrateStatus", "getModuleDescription", "getVoltage", "setVoltage", "turnOffCrate", "getChannelsInfos"}
  Voltages = {5}
  Statuses <- MCStatuses
  Retries = 1
  MaxCalls = 2
  MaxFaults = 2
  MaxId = 32
SPECIFICATION MSpec
INVARIANT AnswersAreTrue
PROPERTY CallsReturn
CHECK_DEADLOCK FALSE
