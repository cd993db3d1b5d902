\* recv() may return fewer bytes than asked for, once per recv_count;
\* two little-endian hosts.
CONSTANTS
  Msgs <- MCMsgs
  Strs = {300}
  UCNT = 2
  HostOrders <- LittleToLittle
  MaxShort = 1
  MaxMsgs = 2
SPECIFICATION Spec
INVARIANT RoundTrip
CHECK_DEADLOCK FALSE
