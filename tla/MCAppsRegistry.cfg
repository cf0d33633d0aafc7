SPECIFICATION Spec
CONSTANTS
  Apps = {"flow", "zigbee", "edge"}
  Core = {"flow"}
  Odd = {"edge"}
  NotStored = NotStored
  MaxGenerations = 3
  MaxTimers = 2
  MaxRecords = 4
INVARIANTS ListedOnce StoredAtRest ConfigKeepsApp
