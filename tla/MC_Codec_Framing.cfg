\* recv() may return fewer bytes than asked for, once per recv_count;
\* hosts of every pair of byte orders.
CONSTANTS
  Msgs <- MCMsgs
  Strs = {300}
  UCNT = 2
  HostOrders <- MCHostOrders
  MaxShort = 1
  MaxMsgs = 2
SPECIFICATION Spec
INVARIANT TypeOK
CHECK_DEADLOCK FALSE
