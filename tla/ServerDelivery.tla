--------------------------- MODULE ServerDelivery ---------------------------
(***************************************************************************)
(* The two threads of the server (apps/lab-runtime/src/server.rs and       *)
(* server/coordination.rs): the reactor, which owns the sockets, and the   *)
(* owner, which owns the Application.  They share two bounded channels and *)
(* never wait: a message that finds its channel full is kept by the        *)
(* reactor, and costs the peer its connection on the owner's side.         *)
(*                                                                         *)
(* TCP and WebSocket peers use the same ClientDelivery and are one kind of *)
(* peer here.  A request is its message id and its kind; a reply is the    *)
(* message id it answers and whether it is final.  Bytes, frames and       *)
(* deadlines are left out: a peer may be lost at any moment.  Of the       *)
(* Application only the greeted clients and the accepted operations that   *)
(* have not ended are kept; the owner serves Batch requests in one turn.   *)
(*                                                                         *)
(* The end of the server is a request of a client, of the process or of an *)
(* owner that failed.  What the service does until it has its verdict is   *)
(* in ServiceLifecycle; here that is one step.                             *)
(***************************************************************************)
EXTENDS Integers, SequencesExt

CONSTANTS
    MaxConnection,  \* bound on connection ids
    MaxClients,     \* MAX_CLIENTS
    Queue,          \* QUEUE
    ClientIn,       \* CLIENT_IN
    ClientOut,      \* bound on the limit CLIENT_OUT
    ClientEvents,   \* CLIENT_EVENTS
    Batch,          \* connections served in one turn of the owner
    MaxOperations,  \* bound on pending operations
    MsgIds,
    Scenarios,      \* what clients and the process do: see Scenario
    None

\* Connections that come, CLIENT_OUT, kinds of requests that clients send, and whether
\* the server may be stopped by its process or lose its reactor.
Mutations == {"operation", "write", "repeat", "shutdown"}
Scenario ==
    [connections : 1..MaxConnection, client_out : 1..ClientOut,
     kinds : SUBSET ({"malformed", "hello", "query"} \cup Mutations),
     stops : BOOLEAN]

ASSUME CapacityAssumption ==
    /\ {MaxConnection, MaxClients, Queue, ClientIn, ClientOut, ClientEvents, Batch}
          \subseteq Nat \ {0}
    /\ MaxOperations \in Nat
    /\ Scenarios \subseteq Scenario

VARIABLES
    connections,  \* ConnectionCoordinator
    peers,        \* delivery state of each connection of the reactor, or None
    incoming,     \* channel to the owner
    outgoing,     \* channel to the reactor
    owner,        \* OwnerDelivery
    app,          \* greeted clients and pending operations
    network,      \* the reactor: "accepting", "closed" to new connections, "gone"
    server,       \* the owner: its phase, and whether StopAccept is sent
    scenario,     \* one of Scenarios
    history       \* replies that a shutdown did not offer, repetitions answered
                  \* "accepted", closes begun too late

reactor == <<connections, peers, network, scenario>>
vars == <<connections, peers, incoming, outgoing, owner, app, network, server, scenario, history>>

Ids == 1..MaxConnection

\* Message ids are only compared for equality.
Symmetry == Permutations(MsgIds)

-----------------------------------------------------------------------------
(* ClientDelivery.                                                         *)

NewPeer ==
    [replies |-> <<>>, events |-> 0, last_reply |-> FALSE, pending |-> 0,
     pending_ids |-> {}, rejection |-> FALSE, closing |-> FALSE, writing |-> None]

\* The rejection of a request that never reached the owner.
Rejection == [msg |-> None, final |-> TRUE]

\* Mutant: one request more than the owner will queue.
PendingFullLate(p) == p.pending > ClientIn

PendingFull(p) == p.pending >= ClientIn

ReplyQueued(p) == Len(p.replies) + (IF p.writing = "reply" THEN 1 ELSE 0)

EventQueued(p) == p.events + (IF p.writing = "event" THEN 1 ELSE 0)

Queued(p) ==
    Len(p.replies) + p.events + (IF p.writing = None THEN 0 ELSE 1)
    + (IF p.rejection THEN 1 ELSE 0)

RequestAdmitted(p, msg) == [p EXCEPT !.pending_ids = @ \cup {msg}, !.pending = @ + 1]

RejectAndClose(p) == [p EXCEPT !.rejection = TRUE, !.closing = TRUE]

\* stage_rejection: only when every request has its final reply.
StageRejection(p) ==
    IF p.rejection /\ p.pending_ids = {} /\ ReplyQueued(p) < scenario.client_out
    THEN [p EXCEPT !.rejection = FALSE, !.replies = Append(@, Rejection)]
    ELSE p

\* push_reply, when there is room.
PushReply(p, reply, consumed) ==
    [p EXCEPT !.pending_ids = IF reply.final THEN @ \ {reply.msg} ELSE @,
              !.replies = Append(@, reply),
              !.pending = IF consumed /\ @ > 0 THEN @ - 1 ELSE @]

\* next_message: replies and events take turns when both wait.
NextMessage(p) ==
    IF p.events > 0 /\ (p.last_reply \/ p.replies = <<>>)
    THEN [p EXCEPT !.events = @ - 1, !.writing = "event"]
    ELSE IF p.replies # <<>>
    THEN [p EXCEPT !.replies = Tail(@), !.writing = "reply"]
    ELSE p

MessageWritten(p) == [p EXCEPT !.last_reply = (p.writing = "reply"), !.writing = None]

-----------------------------------------------------------------------------
(* ConnectionCoordinator and OwnerDelivery.                                *)

CapacityFull(c) == Cardinality(c.active) + Len(c.pending_detach) >= MaxClients

BeginDetach(c, id) ==
    [c EXCEPT !.active = @ \ {id}, !.pending_detach = Append(@, id)]

\* Mutant: a request of a connection that is being closed is queued again.
AdmitRequestLate(o, id, request) ==
    LET queue == IF o.queued[id] = None THEN <<>> ELSE o.queued[id]
    IN  [o EXCEPT !.queued[id] = IF Len(queue) < ClientIn THEN Append(queue, request) ELSE queue]

AdmitRequest(o, id, request) ==
    LET queue == IF o.queued[id] = None THEN <<>> ELSE o.queued[id]
    IN  IF id \in o.closing THEN o
        ELSE [o EXCEPT !.queued[id] =
                  IF Len(queue) < ClientIn THEN Append(queue, request) ELSE queue]

BeginClose(o, id) == [o EXCEPT !.queued[id] = None, !.closing = @ \cup {id}]

NetworkDetached(o, id) ==
    [o EXCEPT !.queued[id] = None, !.closing = @ \ {id}, !.close_sent = @ \ {id}]

CloseSent(o, id) == [o EXCEPT !.queued[id] = None, !.close_sent = @ \cup {id}]

\* connection_ids, in order.
ConnectionIds(o) == SetToSortSeq({id \in Ids : o.queued[id] # None}, <)

\* The connections that next_requests looks at.
Turn(o) ==
    LET ids == ConnectionIds(o)
    IN  [i \in 1..(IF Len(ids) < Batch THEN Len(ids) ELSE Batch) |->
            ids[((o.rotation + i - 1) % Len(ids)) + 1]]

\* next_requests: what it takes, and what it leaves.
NextRequests(o) ==
    LET turn == SelectSeq(Turn(o), LAMBDA id : o.queued[id] # <<>>)
    IN  [i \in DOMAIN turn |-> [id |-> turn[i], request |-> Head(o.queued[turn[i]])]]

AfterRequests(o) ==
    LET turn == {Turn(o)[i] : i \in DOMAIN Turn(o)}
    IN  [o EXCEPT !.queued = [id \in Ids |->
                      IF id \in turn /\ @[id] # <<>> THEN Tail(@[id]) ELSE @[id]],
                  !.rotation = (@ + 1) % Len(ConnectionIds(o))]

-----------------------------------------------------------------------------
Init ==
    /\ connections = [next_id |-> 1, active |-> {}, pending_detach |-> <<>>]
    /\ peers = [id \in Ids |-> None]
    /\ incoming = <<>>
    /\ outgoing = <<>>
    /\ owner = [queued |-> [id \in Ids |-> None], closing |-> {}, close_sent |-> {}, rotation |-> 0]
    /\ app = [clients |-> {}, operations |-> {}]
    /\ network = "accepting"
    /\ server = [phase |-> "up", accept_stop_sent |-> FALSE]
    /\ scenario \in Scenarios
    /\ history = [unheard |-> {}, repeated |-> {}, late |-> {}]

-----------------------------------------------------------------------------
(* The reactor.                                                            *)

Accept ==
    /\ network = "accepting"
    /\ ~CapacityFull(connections)
    /\ connections.next_id <= scenario.connections
    /\ LET id == connections.next_id
       IN  /\ connections' = [connections EXCEPT !.next_id = id + 1, !.active = @ \cup {id}]
           /\ peers' = [peers EXCEPT ![id] = NewPeer]
    /\ UNCHANGED <<incoming, outgoing, owner, app, network, server, scenario, history>>

\* The detach of a lost connection goes to the owner when its channel has room.
SendDetach ==
    /\ connections.pending_detach # <<>>
    /\ Len(incoming) < Queue
    /\ incoming' = Append(incoming, [type |-> "Detach", id |-> Head(connections.pending_detach)])
    /\ connections' = [connections EXCEPT !.pending_detach = Tail(@)]
    /\ UNCHANGED <<peers, outgoing, owner, app, network, server, scenario, history>>

\* read: a request that finds the channel full stays in the input.
Read(id, request) ==
    LET p == peers[id]
        rejected == request.kind = "malformed" \/ request.msg \in p.pending_ids
    IN  /\ p # None /\ ~p.closing /\ ~PendingFull(p)
        /\ rejected \/ Len(incoming) < Queue
        /\ IF rejected
           THEN /\ peers' = [peers EXCEPT ![id] = RejectAndClose(p)]
                /\ UNCHANGED incoming
           ELSE /\ peers' = [peers EXCEPT ![id] = RequestAdmitted(p, request.msg)]
                /\ incoming' = Append(incoming, [type |-> "Request", id |-> id, request |-> request])
        /\ UNCHANGED <<connections, outgoing, owner, app, network, server, scenario, history>>

\* write: a message that is begun, and one that is through.
Write(id) ==
    LET p == StageRejection(peers[id])
        begun == IF p.writing = None THEN NextMessage(p) ELSE p
    IN  /\ peers[id] # None
        /\ begun.writing # None
        /\ \E done \in BOOLEAN :
              peers' = [peers EXCEPT ![id] = IF done THEN MessageWritten(begun) ELSE begun]
        /\ UNCHANGED <<connections, incoming, outgoing, owner, app, network, server, scenario, history>>

RemovePeer(id) ==
    /\ peers' = [peers EXCEPT ![id] = None]
    /\ connections' = BeginDetach(connections, id)

\* A closing peer that has nothing more to write.
Retire(id) ==
    /\ peers[id] # None /\ peers[id].closing /\ Queued(peers[id]) = 0
    /\ RemovePeer(id)
    /\ UNCHANGED <<incoming, outgoing, owner, app, network, server, scenario, history>>

\* A WebSocket peer that says goodbye, or whose frames cannot be read.
CloseByPeer(id) ==
    /\ peers[id] # None /\ ~peers[id].closing
    /\ peers' = [peers EXCEPT ![id].closing = TRUE]
    /\ UNCHANGED <<connections, incoming, outgoing, owner, app, network, server, scenario, history>>

\* End of file, an error of the socket, a deadline.
Lose(id) ==
    /\ peers[id] # None
    /\ RemovePeer(id)
    /\ UNCHANGED <<incoming, outgoing, owner, app, network, server, scenario, history>>

\* A message of the owner; one for a peer that is gone is dropped, and a peer whose
\* queue is full is.
Receive ==
    /\ outgoing # <<>>
    /\ outgoing' = Tail(outgoing)
    /\ LET m == Head(outgoing)
           p == IF m.type = "StopAccept" THEN None ELSE peers[m.id]
       IN  /\ network' = IF m.type = "StopAccept" THEN "closed" ELSE network
           /\ IF p = None THEN UNCHANGED <<connections, peers>>
              ELSE CASE m.type = "Close" ->
                          peers' = [peers EXCEPT ![m.id].closing = TRUE] /\ UNCHANGED connections
                     [] m.type = "Reply" ->
                          IF ReplyQueued(p) >= scenario.client_out THEN RemovePeer(m.id)
                          ELSE /\ peers' = [peers EXCEPT ![m.id] = PushReply(p, m.reply, m.consumed)]
                               /\ UNCHANGED connections
                     [] m.type = "Event" ->
                          IF EventQueued(p) >= ClientEvents THEN RemovePeer(m.id)
                          ELSE peers' = [peers EXCEPT ![m.id].events = @ + 1] /\ UNCHANGED connections
    /\ UNCHANGED <<incoming, owner, app, server, scenario, history>>

\* The thread of the reactor ends, and with it its peers and its ends of the channels;
\* what it has sent can still be received.
NetworkEnds ==
    /\ network' = "gone"
    /\ peers' = [id \in Ids |-> None]
    /\ connections' = [connections EXCEPT !.active = {}, !.pending_detach = <<>>]
    /\ outgoing' = <<>>

\* A listener that fails ends the reactor.
ReactorFails ==
    /\ scenario.stops /\ network = "accepting"
    /\ NetworkEnds
    /\ UNCHANGED <<incoming, owner, app, server, scenario, history>>

-----------------------------------------------------------------------------
(* The owner.  A turn is [owner, app, outgoing, phase, repeated].          *)

\* Application::detach; an accepted operation outlives its connection.
DetachApp(a, id) == [a EXCEPT !.clients = @ \ {id}]

Closed(t, id) == [t EXCEPT !.owner = BeginClose(@, id), !.app = DetachApp(@, id)]

\* try_send fails when the channel is full and when the reactor is gone.
Room(t) == IF network = "gone" THEN 0 ELSE Queue - Len(t.outgoing)

\* The messages of one connection go out until the channel is full.
SendAll(t, id, messages) ==
    LET room == Room(t)
    IN  IF Len(messages) <= room THEN [t EXCEPT !.outgoing = @ \o messages]
        ELSE Closed([t EXCEPT !.outgoing = @ \o SubSeq(messages, 1, room)], id)

Reply(id, msg, final, consumed) ==
    [type |-> "Reply", id |-> id, reply |-> [msg |-> msg, final |-> final], consumed |-> consumed]

\* An admitted operation is answered "accepted", and ends at once or is kept.
Begin(t, id, request, kept) ==
    LET accepted == Reply(id, request.msg, FALSE, TRUE)
        op == [id |-> id, msg |-> request.msg, kind |-> request.kind]
    IN  IF kept THEN SendAll([t EXCEPT !.app.operations = @ \cup {op}], id, <<accepted>>)
        ELSE SendAll(t, id, <<accepted, Reply(id, request.msg, TRUE, FALSE)>>)

\* handle_output_mutation: one manual write of an actuator can wait for its delivery.
HandleOutput(t, id, request, later) ==
    Begin(t, id, request, later /\ \A op \in t.app.operations : op.kind # "write")

\* The exact repetition of an operation, under a message id of its own: while the
\* operation has not ended the answer is its state, "accepted".
Repeat(t, id, request) ==
    IF t.app.operations = {} THEN SendAll(t, id, <<Reply(id, request.msg, TRUE, TRUE)>>)
    ELSE SendAll([t EXCEPT !.repeated = @ \cup {[id |-> id, msg |-> request.msg]}], id,
                 <<Reply(id, request.msg, FALSE, TRUE)>>)

\* handle_mutation of a greeted client.  While the service stops, nothing new is
\* admitted.  A shutdown that cannot begin ends at once, and the service stops.
HandleMutation(t, id, request, later) ==
    LET one == Reply(id, request.msg, TRUE, TRUE)
        room == Cardinality(t.app.operations) < MaxOperations
    IN  CASE request.kind = "repeat" -> Repeat(t, id, request)
          [] request.kind # "repeat" /\ t.phase # "up" -> SendAll(t, id, <<one>>)
          [] request.kind = "shutdown" /\ t.phase = "up" ->
               Begin([t EXCEPT !.phase = "stopping"], id, request, later)
          [] request.kind = "write" /\ t.phase = "up" -> HandleOutput(t, id, request, later /\ room)
          [] request.kind = "operation" /\ t.phase = "up" -> Begin(t, id, request, later /\ room)

\* Application::handle: what becomes of the Application, and the replies.  A hello
\* that is refused is a request with one final reply, like a query.
Handle(t, id, request, later) ==
    LET one == <<Reply(id, request.msg, TRUE, TRUE)>>
    IN  CASE request.kind = "hello" ->
               SendAll(IF t.phase = "up" THEN [t EXCEPT !.app.clients = @ \cup {id}] ELSE t, id, one)
          [] request.kind \in Mutations /\ id \in t.app.clients -> HandleMutation(t, id, request, later)
          [] OTHER -> SendAll(t, id, one)

TurnOf == [owner |-> owner, app |-> app, outgoing |-> outgoing, phase |-> server.phase,
           repeated |-> history.repeated]

Becomes(t) ==
    /\ owner' = t.owner /\ app' = t.app /\ outgoing' = t.outgoing
    /\ server' = [server EXCEPT !.phase = t.phase]
    /\ UNCHANGED reactor

OwnerReceive ==
    /\ incoming # <<>>
    /\ incoming' = Tail(incoming)
    /\ LET m == Head(incoming)
       IN  IF m.type = "Request"
           THEN owner' = AdmitRequest(owner, m.id, m.request) /\ UNCHANGED app
           ELSE /\ owner' = NetworkDetached(owner, m.id)
                /\ app' = IF m.id \in owner.closing THEN app ELSE DetachApp(app, m.id)
    /\ UNCHANGED <<reactor, outgoing, server, history>>

\* One batch of requests; `later` says which operations end in a later turn.
Serve(later) ==
    LET requests == NextRequests(owner)
        Step(t, i) == Handle(t, requests[i].id, requests[i].request, i \in later)
        turn == FoldLeftDomain(Step, [TurnOf EXCEPT !.owner = AfterRequests(@)], requests)
    IN  /\ ConnectionIds(owner) # <<>>
        /\ later \subseteq DOMAIN requests
        /\ Becomes(turn)
        /\ history' = [history EXCEPT !.repeated = turn.repeated]
        /\ UNCHANGED incoming

\* The end of an accepted operation: a reply, if its client is still greeted.
EndOperation(t, op) ==
    LET ended == [t EXCEPT !.app.operations = @ \ {op}]
    IN  IF op.id \in t.app.clients
        THEN SendAll(ended, op.id, <<Reply(op.id, op.msg, TRUE, FALSE)>>)
        ELSE ended

\* poll_outputs: the answer to a manual write is sent whether or not its client is there.
EndOutput(t, op) ==
    SendAll([t EXCEPT !.app.operations = @ \ {op}], op.id, <<Reply(op.id, op.msg, TRUE, FALSE)>>)

\* The detach of the connection is still to reach the owner.
Known(id) ==
    \/ id \in connections.active
    \/ id \in Range(connections.pending_detach)
    \/ \E i \in DOMAIN incoming : incoming[i].type = "Detach" /\ incoming[i].id = id

Complete(op) ==
    /\ op.kind # "shutdown"
    /\ Becomes(IF op.kind = "write" THEN EndOutput(TurnOf, op) ELSE EndOperation(TurnOf, op))
    /\ history' = IF ~Known(op.id) /\ op.id \in owner'.closing
                  THEN [history EXCEPT !.late = @ \cup {op.id}] ELSE history
    /\ UNCHANGED incoming

\* pump_events for a client that has a subscription; a gap closes the connection.
PumpEvent(id, gap) ==
    /\ owner.queued[id] # None /\ id \in app.clients
    /\ LET t == IF gap THEN Closed(TurnOf, id) ELSE TurnOf
       IN  Becomes(SendAll(t, id, <<[type |-> "Event", id |-> id]>>))
    /\ UNCHANGED <<incoming, history>>

SendClose(id) ==
    /\ id \in owner.closing \ owner.close_sent
    /\ Room(TurnOf) > 0
    /\ outgoing' = Append(outgoing, [type |-> "Close", id |-> id])
    /\ owner' = CloseSent(owner, id)
    /\ UNCHANGED <<reactor, incoming, app, server, history>>

-----------------------------------------------------------------------------
(* The end of the server.                                                  *)

\* The stop flag of the process, a fault of the owner's work, or a reactor that is gone.
BeginStop ==
    /\ scenario.stops /\ server.phase = "up"
    /\ server' = [server EXCEPT !.phase = "stopping"]
    /\ UNCHANGED <<reactor, incoming, outgoing, owner, app, history>>

SendStopAccept ==
    /\ server.phase # "up" /\ ~server.accept_stop_sent
    /\ Room(TurnOf) > 0
    /\ outgoing' = Append(outgoing, [type |-> "StopAccept"])
    /\ server' = [server EXCEPT !.accept_stop_sent = TRUE]
    /\ UNCHANGED <<reactor, incoming, owner, app, history>>

\* finish_shutdown: the shutdown that a client asked for ends, and its replies.
PendingShutdown == {op \in app.operations : op.kind = "shutdown"}
EndShutdown == {Reply(op.id, op.msg, TRUE, FALSE) : op \in {o \in PendingShutdown : o.id \in app.clients}}

\* shutdown_step has its verdict: the reply is offered to the reactor once.
FinishShutdown ==
    LET offered == Cardinality(EndShutdown) <= Room(TurnOf)
    IN  /\ server.phase = "stopping"
        /\ server' = [server EXCEPT !.phase = "terminal"]
        /\ app' = [app EXCEPT !.operations = @ \ PendingShutdown]
        /\ outgoing' = IF offered THEN outgoing \o SetToSeq(EndShutdown) ELSE outgoing
        /\ history' = IF offered THEN history
                      ELSE [history EXCEPT !.unheard = @ \cup {[id |-> m.id, msg |-> m.reply.msg] : m \in EndShutdown}]
        /\ UNCHANGED <<reactor, incoming, owner>>

\* 200 ms after the verdict the owner stops the reactor, waits for it and returns.
Exit ==
    /\ server.phase = "terminal"
    /\ server' = [server EXCEPT !.phase = "exited"]
    /\ NetworkEnds
    /\ incoming' = <<>>
    /\ UNCHANGED <<owner, app, scenario, history>>

ReactorNext ==
    /\ network # "gone"
    /\ \/ Accept \/ SendDetach \/ Receive \/ ReactorFails
       \/ \E id \in Ids : Write(id) \/ CloseByPeer(id) \/ Retire(id) \/ Lose(id)
       \/ \E id \in Ids, msg \in MsgIds, kind \in scenario.kinds : Read(id, [msg |-> msg, kind |-> kind])

OwnerNext ==
    /\ server.phase # "exited"
    /\ \/ OwnerReceive
       \/ \E later \in SUBSET (1..Batch) : Serve(later)
       \/ \E op \in app.operations : Complete(op)
       \/ \E id \in Ids : SendClose(id) \/ (\E gap \in BOOLEAN : PumpEvent(id, gap))
       \/ BeginStop \/ SendStopAccept \/ FinishShutdown \/ Exit

Next == ReactorNext \/ OwnerNext

Spec == Init /\ [][Next]_vars

-----------------------------------------------------------------------------
(* Properties.                                                             *)

Messages(channel, Test(_)) == {i \in DOMAIN channel : Test(channel[i])}

\* The queues and the pool of connections stay within their limits.
TypeOK ==
    /\ Len(incoming) <= Queue /\ Len(outgoing) <= Queue
    /\ Cardinality(connections.active) + Len(connections.pending_detach) <= MaxClients
    /\ connections.active = {id \in Ids : peers[id] # None}
    /\ \A id \in connections.active :
          ReplyQueued(peers[id]) <= scenario.client_out /\ EventQueued(peers[id]) <= ClientEvents
    /\ \A id \in Ids : owner.queued[id] = None \/ Len(owner.queued[id]) <= ClientIn

\* No request that the reactor admitted is lost: until its reply, each is in the
\* channel, in the owner's queue or answered in the other channel, unless its
\* connection is being closed.
RequestsAreKept ==
    \A id \in connections.active \ owner.closing :
        peers[id].pending =
            Cardinality(Messages(incoming, LAMBDA m : m.type = "Request" /\ m.id = id))
            + (IF owner.queued[id] = None THEN 0 ELSE Len(owner.queued[id]))
            + Cardinality(Messages(outgoing, LAMBDA m : m.type = "Reply" /\ m.id = id /\ m.consumed))

\* A message id is in flight only while somebody will still give its final reply.  Two
\* kinds of ids stay in flight without one: the final reply to a shutdown is offered
\* once and lost when the channel is full, and the repetition of an operation that has
\* not ended is answered "accepted", after which push_reply waits for a final reply
\* that goes to the id of the first submission.
IdsAreOwed ==
    \A id \in connections.active \ owner.closing : \A msg \in peers[id].pending_ids :
        \/ \E i \in DOMAIN incoming :
              incoming[i].type = "Request" /\ incoming[i].id = id /\ incoming[i].request.msg = msg
        \/ owner.queued[id] # None
           /\ \E i \in DOMAIN owner.queued[id] : owner.queued[id][i].msg = msg
        \/ \E op \in app.operations : op.id = id /\ op.msg = msg
        \/ [id |-> id, msg |-> msg] \in history.unheard \cup history.repeated
        \/ \E i \in DOMAIN outgoing :
              /\ outgoing[i].type = "Reply" /\ outgoing[i].id = id
              /\ outgoing[i].reply = [msg |-> msg, final |-> TRUE]

\* A client of the Application is a connection that can still be detached, and
\* there are never more of them than connections may be open: a new one is heard
\* of only after the detach of the one whose place it took.  The marks of a close go
\* with the connection too, except when the late answer to a manual output sets them
\* after it.
ClientsAreConnected == network # "gone" =>
    /\ \A id \in owner.closing \cup owner.close_sent : Known(id) \/ id \in history.late
    /\ \A id \in app.clients : Known(id) /\ id \notin owner.closing
    /\ Cardinality(app.clients) <= MaxClients

\* The rejection of a request is the last reply of its connection.
RejectionIsLast ==
    \A id \in connections.active :
        \A i \in DOMAIN peers[id].replies :
            peers[id].replies[i] = Rejection =>
                i = Len(peers[id].replies) /\ peers[id].pending_ids = {}

\* Every admitted request is answered, its message id with it but for the exceptions
\* of IdsAreOwed, and a rejection comes after all of them (ClientDelivery,
\* OwnerDelivery).
RequestsAreAnswered == RequestsAreKept /\ IdsAreOwed /\ RejectionIsLast

=============================================================================
