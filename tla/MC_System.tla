----------------------------- MODULE MC_System -----------------------------
EXTENDS System

\* Clients on descriptors 4, 5 and 6 (the listener is 3).  Their ids,
\* fd % 65535, order them as their descriptors do.
MCClients2 == {4, 5}
MCClients3 == {4, 5, 6}
====
