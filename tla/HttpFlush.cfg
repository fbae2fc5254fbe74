SPECIFICATION Spec
CHECK_DEADLOCK FALSE
CONSTANTS
  Requests <- MCRequests
  Responses <- MCFlushes
  AddressLists <- MCAddresses
  Ends = {"notify", "closed", "reset", "silent"}
  ReadCap = 3
  HeaderCap = 3
  MaxResponse = 26
  MaxRedirects = 2
  MaxInflate = 24
INVARIANTS
  DecodesDeflate
