--------------------------- MODULE MtlsTransport ---------------------------
(***************************************************************************)
(* The broker's mutually authenticated transport (broker/mtls_transport.py)*)
(* and the process around it (broker/process.py).                          *)
(*                                                                         *)
(* An exchange uses two connections. On the first one the client reserves  *)
(* a place for the response and is told the exchange's identity, on the    *)
(* second one it submits the request, and the response comes back over the *)
(* first. Every connection has a thread of its own in the broker, and four *)
(* bounded semaphores admit them without ever waiting: connections,        *)
(* handshakes, reservations and handlers. One request is dispatched at a   *)
(* time. Any client with the pinned certificate may also submit for an     *)
(* exchange that is not its own (a stray request).                         *)
(***************************************************************************)
EXTENDS Naturals, FiniteSets

CONSTANTS Exchanges,
          Strays,       \* the exchanges for which a second request is submitted
          MaxHandshakes, MaxPending, MaxHandlers,  \* MtlsTransportLimits
          Nobody        \* no connection

\* The limits are those of MtlsTransportLimits; of clients there are as many as there are.
ASSUME TransportAssumption ==
    /\ IsFiniteSet(Exchanges) /\ Strays \subseteq Exchanges
    /\ MaxHandshakes \in Nat /\ MaxPending \in Nat /\ MaxHandlers \in Nat
    /\ Nobody \notin (Exchanges \X {"response", "request", "stray"})

VARIABLES client,       \* per exchange: where the client's _exchange is
          thread,       \* per connection: where its thread in the broker is
          slots,        \* the semaphores' values
          leases,       \* the slots held: <<semaphore, connection>>
          reservation,  \* per exchange: the entry in _reservations
          gate,         \* the connection whose request is dispatched
          lapsed,       \* the exchanges whose deadline has passed
          process,      \* the state of the broker process
          lock,         \* the process holds the authority lock
          dispatched    \* per exchange: how often its request was dispatched

transportVars == <<client, thread, slots, leases, reservation, gate, lapsed, process,
                   lock, dispatched>>

Connections == (Exchanges \X {"response", "request"}) \cup (Strays \X {"stray"})

Limits == [connections |-> MaxHandshakes + MaxPending + MaxHandlers,
           handshakes  |-> MaxHandshakes,
           exchanges   |-> MaxPending,
           handlers    |-> MaxHandlers]

TransportInit == /\ client = [e \in Exchanges |-> "start"]
                 /\ thread = [c \in Connections |-> "none"]
                 /\ slots = Limits
                 /\ leases = {}
                 /\ reservation = [e \in Exchanges |-> "none"]
                 /\ gate = Nobody
                 /\ lapsed = {}
                 /\ process = "serving"
                 /\ lock = TRUE
                 /\ dispatched = [e \in Exchanges |-> 0]

-----------------------------------------------------------------------------
(* Slots *)

Stopping == process # "serving"

\* BoundedSemaphore.acquire(blocking=False), and the lease of what it gave.
Free(kind) == slots[kind] > 0
acquire(kind, c) == /\ slots' = [slots EXCEPT ![kind] = @ - 1]
                    /\ leases' = leases \cup {<<kind, c>>}

\* _SlotLease.release: once, whichever path comes first.
release(kinds, c) == /\ slots' = [k \in DOMAIN slots |->
                                    slots[k] + IF k \in kinds /\ <<k, c>> \in leases
                                               THEN 1 ELSE 0]
                     /\ leases' = leases \ {<<k, c>> : k \in kinds}

Goto(c, place) == thread' = [thread EXCEPT ![c] = place]

\* The finally clauses of a thread: its slots, then its socket. The client of a
\* connection that ends before its exchange is complete gives up.
Ends(c) == /\ Goto(c, "ended")
           /\ release(DOMAIN slots, c)
           /\ reservation' = IF c[2] = "response"
                             THEN [reservation EXCEPT ![c[1]] = "none"] ELSE reservation

ClientFails(e) == client' = [client EXCEPT ![e] = IF @ = "done" THEN @ ELSE "failed"]

Dropped(c) == IF c[2] = "stray" THEN UNCHANGED client ELSE ClientFails(c[1])

\* _remaining, and the sockets that stop closes: what makes a waiting thread
\* give up.
GivesUp(c) == c[1] \in lapsed \/ client[c[1]] = "failed" \/ Stopping

-----------------------------------------------------------------------------
(* Accepting *)

Wanted(c) == CASE c[2] = "response" -> client[c[1]] = "start"
               [] c[2] = "request"  -> client[c[1]] = "submitting"
               [] c[2] = "stray"    -> client[c[1]] \in {"submitting", "sent"}

_accept_loop(c) ==
  /\ process = "serving" /\ thread[c] = "none" /\ Wanted(c)
  /\ IF Free("connections")
     THEN /\ acquire("connections", c)
          /\ Goto(c, "accepted")
          /\ client' = IF c[2] = "response"
                       THEN [client EXCEPT ![c[1]] = "reserving"] ELSE client
     ELSE Goto(c, "ended") /\ Dropped(c) /\ UNCHANGED <<slots, leases>>
  /\ UNCHANGED <<reservation, gate, lapsed, process, lock, dispatched>>

\* _handle_and_release: the handshake, _authenticate_peer and the control frame.
BeginHandshake(c) ==
  /\ thread[c] = "accepted"
  /\ IF Free("handshakes")
     THEN /\ acquire("handshakes", c)
          /\ Goto(c, "handshake")
          /\ UNCHANGED <<client, reservation>>
     ELSE Ends(c) /\ Dropped(c)
  /\ UNCHANGED <<gate, lapsed, process, lock, dispatched>>

FinishHandshake(c) ==
  /\ thread[c] = "handshake"
  /\ ~GivesUp(c)
  /\ release({"handshakes"}, c)
  /\ Goto(c, "authenticated")
  /\ UNCHANGED <<client, reservation, gate, lapsed, process, lock, dispatched>>

\* A thread that waits for its peer, or for an answer, past its end.
Abandon(c) ==
  /\ thread[c] \in {"handshake", "reserved", "sending", "admitted"}
  /\ GivesUp(c)
  /\ Ends(c) /\ Dropped(c)
  /\ UNCHANGED <<gate, lapsed, process, lock, dispatched>>

-----------------------------------------------------------------------------
(* The response channel *)

Reserve(c) ==
  /\ c[2] = "response" /\ thread[c] = "authenticated"
  /\ IF Free("exchanges") /\ ~Stopping
     THEN /\ acquire("exchanges", c)
          /\ reservation' = [reservation EXCEPT ![c[1]] = "open"]
          /\ client' = [client EXCEPT ![c[1]] = IF @ = "reserving" THEN "submitting" ELSE @]
          /\ Goto(c, "reserved")
     ELSE Ends(c) /\ Dropped(c)
  /\ UNCHANGED <<gate, lapsed, process, lock, dispatched>>

\* The reservation was answered; the frame is sent unless the broker stops.
SendResponse(c) ==
  /\ c[2] = "response" /\ thread[c] = "reserved"
  /\ reservation[c[1]] = "answered" /\ ~Stopping
  /\ Goto(c, "sending")
  /\ client' = [client EXCEPT ![c[1]] = IF @ = "sent" THEN "answered" ELSE @]
  /\ UNCHANGED <<slots, leases, reservation, gate, lapsed, process, lock, dispatched>>

\* _release_before_close_notify: the client has closed its side; the slots are
\* given back before the broker's own close lets the client go on.
release_delivered(c) ==
  /\ c[2] = "response" /\ thread[c] = "sending" /\ client[c[1]] = "answered"
  /\ release({"exchanges", "connections"}, c)
  /\ reservation' = [reservation EXCEPT ![c[1]] = "none"]
  /\ Goto(c, "released")
  /\ UNCHANGED <<client, gate, lapsed, process, lock, dispatched>>

\* The close_notify reaches the client, and _exchange returns.
CloseNotify(c) ==
  /\ thread[c] = "released"
  /\ client' = [client EXCEPT ![c[1]] = IF @ = "answered" THEN "done" ELSE @]
  /\ Goto(c, "closed")
  /\ UNCHANGED <<slots, leases, reservation, gate, lapsed, process, lock, dispatched>>

\* What is left of a thread whose slots are free: its place in _threads.
ThreadEnds(c) ==
  /\ thread[c] \in {"closed", "published"}
  /\ Ends(c)
  /\ UNCHANGED <<client, gate, lapsed, process, lock, dispatched>>

-----------------------------------------------------------------------------
(* The request channel *)

IsRequest(c) == c[2] \in {"request", "stray"}

\* The first look at the reservation, before the frame is read.
Admit(c) ==
  /\ IsRequest(c) /\ thread[c] = "authenticated"
  /\ IF Free("handlers") /\ reservation[c[1]] = "open" /\ ~Stopping
     THEN /\ acquire("handlers", c)
          /\ Goto(c, "admitted")
          /\ UNCHANGED <<client, reservation>>
     ELSE Ends(c) /\ Dropped(c)
  /\ UNCHANGED <<gate, lapsed, process, lock, dispatched>>

\* The frame and the client's close; the client now waits for its response.
ReceiveFrame(c) ==
  /\ IsRequest(c) /\ thread[c] = "admitted" /\ ~GivesUp(c)
  /\ Goto(c, "received")
  /\ client' = IF c[2] = "request" THEN [client EXCEPT ![c[1]] = "sent"] ELSE client
  /\ UNCHANGED <<slots, leases, reservation, gate, lapsed, process, lock, dispatched>>

\* Mutant: that the reservation is open is not looked at again.
ClaimFirstSeen(c) ==
  /\ IsRequest(c) /\ thread[c] = "received"
  /\ IF c[1] \notin lapsed /\ ~Stopping
     THEN /\ reservation' = [reservation EXCEPT ![c[1]] = "claimed"]
          /\ Goto(c, "claimed")
          /\ UNCHANGED <<client, slots, leases>>
     ELSE Ends(c) /\ Dropped(c)
  /\ UNCHANGED <<gate, lapsed, process, lock, dispatched>>

\* The second look, under the same lock as the claim.
Claim(c) ==
  /\ IsRequest(c) /\ thread[c] = "received"
  /\ IF reservation[c[1]] = "open" /\ c[1] \notin lapsed /\ ~Stopping
     THEN /\ reservation' = [reservation EXCEPT ![c[1]] = "claimed"]
          /\ Goto(c, "claimed")
          /\ UNCHANGED <<client, slots, leases>>
     ELSE Ends(c) /\ Dropped(c)
  /\ UNCHANGED <<gate, lapsed, process, lock, dispatched>>

\* _record_fatal: the broker stops.
_record_fatal == process' = IF process = "serving" THEN "stopping" ELSE process

\* _dispatch: one request at a time. A claimed request that waits for the gate
\* past its deadline stops the broker.
BeginDispatch(c) ==
  /\ thread[c] = "claimed" /\ gate = Nobody
  /\ gate' = c
  /\ Goto(c, "dispatching")
  /\ dispatched' = [dispatched EXCEPT ![c[1]] = @ + 1]
  /\ UNCHANGED <<client, slots, leases, reservation, lapsed, process, lock>>

GateExpires(c) ==
  /\ thread[c] = "claimed" /\ gate # Nobody /\ c[1] \in lapsed
  /\ _record_fatal
  /\ Ends(c)
  /\ UNCHANGED <<client, gate, lapsed, lock, dispatched>>

\* _watch_dispatch: a dispatch past its deadline stops the broker, and goes on.
_watch_dispatch(c) ==
  /\ gate = c /\ c[1] \in lapsed /\ process = "serving"
  /\ _record_fatal
  /\ UNCHANGED <<client, thread, slots, leases, reservation, gate, lapsed, lock, dispatched>>

\* The dispatcher returns, or raises, which stops the broker as well.
DispatchReturns(c) ==
  /\ gate = c
  /\ gate' = Nobody
  /\ \/ Goto(c, "answering") /\ UNCHANGED <<slots, leases, reservation, process>>
     \/ Ends(c) /\ _record_fatal
  /\ UNCHANGED <<client, lapsed, lock, dispatched>>

\* The slots of the request channel are free before the response is published.
ReleaseRequest(c) ==
  /\ thread[c] = "answering"
  /\ release({"handlers", "connections"}, c)
  /\ Goto(c, "answered")
  /\ UNCHANGED <<client, reservation, gate, lapsed, process, lock, dispatched>>

Publish(c) ==
  /\ thread[c] = "answered"
  /\ reservation' = [reservation EXCEPT ![c[1]] = IF @ = "claimed" THEN "answered" ELSE @]
  /\ Goto(c, "published")
  /\ UNCHANGED <<client, slots, leases, gate, lapsed, process, lock, dispatched>>

-----------------------------------------------------------------------------
(* Time, the clients' own deadlines, and the process *)

Lapse(e) == /\ e \notin lapsed /\ process \in {"serving", "stopping"}
            /\ \E c \in Connections : c[1] = e /\ thread[c] # "none"
            /\ lapsed' = lapsed \cup {e}
            /\ UNCHANGED <<client, thread, slots, leases, reservation, gate, process,
                           lock, dispatched>>

ClientTimesOut(e) == /\ client[e] \notin {"start", "done", "failed"}
                     /\ ClientFails(e)
                     /\ UNCHANGED <<thread, slots, leases, reservation, gate, lapsed,
                                    process, lock, dispatched>>

\* _handle_signal: the first signal asks for a stop, with the watchdog armed.
RequestStop == /\ process = "serving"
               /\ process' = "stopping"
               /\ UNCHANGED <<client, thread, slots, leases, reservation, gate, lapsed,
                              lock, dispatched>>

Drained == \A c \in Connections : thread[c] \in {"none", "ended"}

\* stop: the authority is given up once no thread is left; threads that do not
\* end in time keep it.
Stop == /\ process = "stopping" /\ Drained
        /\ process' = "stopped"
        /\ lock' = FALSE
        /\ UNCHANGED <<client, thread, slots, leases, reservation, gate, lapsed,
                       dispatched>>

StopTimesOut == /\ process = "stopping" /\ ~Drained
                /\ process' = "undrained"
                /\ UNCHANGED <<client, thread, slots, leases, reservation, gate, lapsed,
                               lock, dispatched>>

\* _watch_shutdown, or a second signal: the process exits, with all its threads
\* and its locks.
HardExit == /\ process \in {"stopping", "undrained"}
            /\ process' = "dead"
            /\ lock' = FALSE
            /\ gate' = Nobody
            /\ thread' = [c \in Connections |-> "ended"]
            /\ slots' = Limits /\ leases' = {}
            /\ reservation' = [e \in Exchanges |-> "none"]
            /\ client' = [e \in Exchanges |-> IF client[e] \in {"start", "done"}
                                              THEN client[e] ELSE "failed"]
            /\ UNCHANGED <<lapsed, dispatched>>

ServerStep(c) == \/ BeginHandshake(c) \/ FinishHandshake(c) \/ Abandon(c)
                 \/ Reserve(c) \/ SendResponse(c) \/ release_delivered(c)
                 \/ CloseNotify(c) \/ ThreadEnds(c) \/ Admit(c) \/ ReceiveFrame(c)
                 \/ Claim(c) \/ BeginDispatch(c) \/ GateExpires(c) \/ _watch_dispatch(c)
                 \/ ReleaseRequest(c) \/ Publish(c)

TransportNext == \/ \E c \in Connections : \/ _accept_loop(c) \/ ServerStep(c)
                                           \/ DispatchReturns(c)
                 \/ \E e \in Exchanges : Lapse(e) \/ ClientTimesOut(e)
                 \/ RequestStop \/ Stop \/ StopTimesOut \/ HardExit

TransportSpec == TransportInit /\ [][TransportNext]_transportVars

-----------------------------------------------------------------------------
(* Properties *)

TransportTypeOK ==
  /\ client \in [Exchanges -> {"start", "reserving", "submitting", "sent", "answered",
                               "done", "failed"}]
  /\ DOMAIN thread = Connections
  /\ leases \subseteq (DOMAIN Limits) \X Connections
  /\ reservation \in [Exchanges -> {"none", "open", "claimed", "answered"}]
  /\ gate \in Connections \cup {Nobody}
  /\ lapsed \subseteq Exchanges

\* No slot is lost and none is given back twice, on any of the paths a thread
\* can take; a thread that has ended holds none.
SlotsBalanced ==
  /\ \A k \in DOMAIN Limits :
       slots[k] + Cardinality({l \in leases : l[1] = k}) = Limits[k]
  /\ \A l \in leases : thread[l[2]] \notin {"none", "ended"}

\* A client whose exchange is complete may start the next one at once: nothing
\* of the exchange still occupies the broker (_release_before_close_notify),
\* unless another request was submitted for it.
FreeForNext == \A e \in Exchanges \ Strays, l \in leases :
                 client[e] = "done" => l[2] \notin {<<e, "response">>, <<e, "request">>}

\* A request is dispatched at most once, whoever submits for its exchange, and
\* a client is never told of a request that was not.
DispatchedOnce == \A e \in Exchanges : /\ dispatched[e] <= 1
                                       /\ client[e] = "done" => dispatched[e] = 1

\* Nothing is dispatched by a broker that has given up its authority, for which
\* the next broker waits.
AuthorityKept == gate # Nobody => lock

\* However an exchange ends, it was dispatched at most once, by a broker with authority,
\* and has given back its slots.
ExchangesSound ==
    TransportTypeOK /\ SlotsBalanced /\ FreeForNext /\ DispatchedOnce /\ AuthorityKept

\* A broker that is asked to stop, or has failed, gives up its authority in the
\* end, even if a dispatch never returns.
AuthorityGivenUp == Stopping ~> ~lock

=============================================================================
