------------------------ MODULE MCServiceLifecycle -------------------------
(* Values for TLC of the constants of ServiceLifecycle that are records.   *)
EXTENDS ServiceLifecycle

CONSTANTS m, s

Scenario(kinds, targets, requests, faults, recorded) ==
    [kinds |-> kinds, targets |-> targets, requests |-> requests, faults |-> faults,
     recorded |-> recorded]

\* Each pairs requests whose steps can meet.
MCScenarios ==
    {Scenario({"reconnect"}, {s}, 2, 1, TRUE),
     Scenario({"reconnect", "arm"}, {m}, 2, 0, TRUE),
     Scenario({"reconnect"}, {m}, 1, 2, TRUE),
     Scenario({"file"}, {m}, 1, 2, TRUE),
     Scenario({"file"}, {m}, 2, 1, FALSE),
     Scenario({"sensor", "output", "reconnect"}, {s}, 2, 1, TRUE),
     Scenario({"output"}, {s}, 1, 1, FALSE),
     Scenario({"controller", "restart"}, {s}, 2, 1, TRUE),
     Scenario({"arm", "shutdown"}, {m}, 2, 1, TRUE),
     Scenario({"reconnect", "shutdown"}, {s}, 2, 0, FALSE),
     Scenario({"output", "shutdown"}, {s}, 2, 0, TRUE)}
=============================================================================
