SPECIFICATION Spec
CONSTANTS
  Packets <- MCPackets
  Private = {"lan"}
  Lengths = {24, 32}
  PrefixOf <- MCPrefixOf
  RemoteMax = 2
  PrefixMax = 2
  FlowsMax = 2
  TopN = 1
  PollMax = 2
  MaxPackets = 5
INVARIANTS RowsUnique RowsAddUp RetransExact RemotesCountedOnce
