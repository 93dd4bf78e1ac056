SPECIFICATION ConnectionsFairSpec
CONSTANTS
  Outbound = {o1}
  Inbound = {i1}
  nMaxGrants = 1
  nReceiveFloodSize = 1
  Talkers = {i1}
INVARIANTS NodesSafe OutboundSlots MessagesMove
PROPERTIES DisconnectedDeleted
