---------------------------- MODULE MCUserCheck ----------------------------
EXTENDS UserCheck

CONSTANTS k1, k2, c1, c2

World(host, keys, calls, order, broken, fresh, nf, nc) ==
  [host |-> host, keys |-> keys, calls |-> calls, order |-> order,
   broken |-> broken, fresh |-> fresh, faults |-> nf, changes |-> nc]

\* A call beside the loop, two calls at once, a loop that meets a key that always
\* fails, a new database, the server.
MCWorlds == {World("device", {k1}, {c1}, <<k1>>, {}, FALSE, 1, 1),
             World("device", {k1}, {c1, c2}, <<>>, {}, FALSE, 0, 1),
             World("device", {k1, k2}, {}, <<k1, k2>>, {k2}, FALSE, 0, 1),
             World("device", {k1}, {c1}, <<k1>>, {}, TRUE, 1, 0),
             World("server", {k1, k2}, {}, <<>>, {k2}, FALSE, 1, 1)}
=============================================================================
