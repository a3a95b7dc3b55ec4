--------------------------- MODULE MCLayeredConfig ---------------------------
(* "3" and "5" are numbers; a value with a quote in it is escaped and comes  *)
(* back with the escape; a host with a port comes back without it.           *)
EXTENDS LayeredConfig

DiskKey == "max_disk_usage_gb"
MCReread == [v \in Values |-> IF v = "quoted" THEN "escaped" ELSE v]
MCHostReread == [h \in Hosts |-> "host"]
MCPayload == [write |-> [key |-> DiskKey, value |-> "3"],
              secret |-> [key |-> "nntp_pass", value |-> "3"],
              junk |-> [key |-> DiskKey, value |-> ""]]

MCSetup(v, writable, omits, directives, c, e, r) ==
    [env |-> [k \in {DiskKey} |-> v], writable |-> writable, omits |-> omits,
     directives |-> directives,
     maxChanges |-> c, maxEdits |-> e, maxRestarts |-> r]

MCSetups ==
    {MCSetup("", TRUE, FALSE, {"write", "secret"}, 0, 1, 1),
     MCSetup("", TRUE, FALSE, {}, 2, 1, 0),
     MCSetup("", TRUE, TRUE, {"write"}, 1, 0, 1),
     MCSetup("3", FALSE, FALSE, {"write", "junk"}, 0, 1, 1)}
=============================================================================
