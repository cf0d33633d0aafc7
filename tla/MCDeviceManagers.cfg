SPECIFICATION ManagersSpec
CONSTANTS
  Pages = {"zwave", "zigbee", "generic", "thing"}
  Addresses = {n1}
  NoList = NoList
  MaxOnTheWay = 2
  MaxChanges = 1
INVARIANTS CurrentAtRest OwnNodesOnly
