\* Whole reads, hosts of every pair of byte orders.
CONSTANTS
  Msgs <- MCMsgs
  Strs = {300}
  UCNT = 2
  HostOrders <- MCHostOrders
  MaxShort = 0
  MaxMsgs = 2
SPECIFICATION Spec
INVARIANT PortableFieldsRoundTrip
PROPERTIES AllDelivered
CHECK_DEADLOCK FALSE
