-------------------------- MODULE MCServerDelivery --------------------------
(***************************************************************************)
(* The scenarios in which TLC checks ServerDelivery: the life of two       *)
(* connections in one place, late answers to manual outputs, operations    *)
(* that are submitted again, and the end of the server.                    *)
(***************************************************************************)
EXTENDS ServerDelivery

Of(count, out, kinds, stops) ==
    [connections |-> count, client_out |-> out, kinds |-> kinds, stops |-> stops]

MCScenarios ==
    {Of(2, 2, {"malformed", "hello", "query", "operation"}, FALSE),
     Of(2, 1, {"hello", "write"}, FALSE),
     Of(1, 2, {"malformed", "hello", "operation", "repeat"}, FALSE),
     Of(2, 1, {"hello", "shutdown"}, TRUE)}

=============================================================================
