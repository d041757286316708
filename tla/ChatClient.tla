----------------------------- MODULE ChatClient -----------------------------
(***************************************************************************)
(* assignments/4/client.c.  Two threads read one socket: main(), for the   *)
(* response of the request it has just sent, and handleEvents(), for the   *)
(* messages other users send.  recvMutex keeps their reads apart.  The     *)
(* socket is a stream of units smaller than a header, so that a read can   *)
(* start in the middle of a message, as reads of 16 bytes do.  Each send() *)
(* of the server arrives in one piece; an event takes four of them, each   *)
(* in a thread of its own, and those of the other threads come in between. *)
(***************************************************************************)
EXTENDS Integers, Sequences, SequencesExt

CONSTANTS Commands,     \* what the user types, of the commands below
          MaxCommands,  \* commands in a run (bound)
          MaxEvents,    \* messages of other users in a run (bound)
          MaxCuts,      \* times in a run a thread of the server sends between two
                        \* sends of another's message (bound)
          Rooms         \* rooms the server has, by id; it has General

ASSUME ClientAssumption ==
    /\ Commands \subseteq {"hello", "join", "list", "message"}
    /\ MaxCommands \in Nat /\ MaxEvents \in Nat /\ MaxCuts \in Nat
    /\ \A room \in Rooms : room \in Nat /\ 0 < room /\ room < 65535

\* Sizes, in units of at most 8 bytes: a header has 16, a number 5 or 7, the
\* shortest list 3 + 7; the body of an event is three sends of less than a header.
HeaderSize == 2
BodySize(m) == CASE m.kind = "event" -> 3 [] m.rpc = "list" -> 2 [] OTHER -> 1

Nobody == -1
General == 0
RoomNotFound == 65535
Garbage == -1            \* a number parsed from something else than a number

VARIABLES main,          \* what main()'s thread does next
          events,        \* what the thread of handleEvents() does next
          recvMutex,     \* the thread that holds it, or "free"
          request,       \* the request main() is working on
          response,      \* what sendReqRpc has received for it
          buf,           \* the start of handleEvents' header buffer, which says what it is
          sessionId, currentRoom,
          stream,        \* units that have arrived on the socket
          server,        \* requests that have reached the server
          wire,          \* what each thread of the server has left to send, by send():
                         \* 0 is the one that answers, each event has one of its own
          sending,       \* the one that has sent last, if it has something left, and
          cuts,          \* how often another has come in between (both for MaxCuts)
          sent,          \* events the server has begun to send
          closed,        \* whether the server has gone
          shown,         \* history: what handleEvents has printed
          fault

control == <<main, events, recvMutex>>
sends == <<stream, wire, sending, cuts>>
network == <<sends, server, sent, closed>>
vars == <<control, request, response, buf, sessionId, currentRoom, network, shown, fault>>

Unit(m, k) == [msg |-> m, at |-> k]
HeaderOf(m) == [k \in 1..HeaderSize |-> Unit(m, k)]
BodyOf(m) == [k \in 1..BodySize(m) |-> Unit(m, HeaderSize + k)]

\* The sends of a body: tag and length, header and parameters of an event.
BodySends(m) == IF m.kind = "event" THEN [k \in 1..BodySize(m) |-> <<BodyOf(m)[k]>>]
                ELSE <<BodyOf(m)>>
Nothing == [kind |-> "none", id |-> 0, rpc |-> "", val |-> 0]

First(n) == SubSeq(stream, 1, n)
Rest(n) == SubSeq(stream, n + 1, Len(stream))

Init ==
    /\ main = "lock" /\ events = "none" /\ recvMutex = "free"
    /\ request = [id |-> 1, rpc |-> "login", arg |-> 0]
    /\ response = Nothing
    /\ buf = Unit(Nothing, 1)
    /\ sessionId = 0 /\ currentRoom = General
    /\ stream = <<>> /\ server = <<>> /\ sent = 0 /\ closed = FALSE
    /\ wire = [thread \in 0..MaxEvents |-> <<>>] /\ sending = Nobody /\ cuts = 0
    /\ shown = <<>> /\ fault = "none"

-----------------------------------------------------------------------------
(* The server, as one client sees it: it answers requests in order, messages *)
(* excepted, and sends events when it likes.                                 *)

Answer(r) == CASE r.rpc = "login" -> 1
               [] r.rpc = "join" -> IF r.arg \in Rooms \cup {General} THEN r.arg ELSE RoomNotFound
               [] OTHER -> Garbage

local == <<control, request, response, buf, sessionId, currentRoom, shown, fault>>

\* A thread's send, after which these sends are left.
SendPart(thread, part, left) ==
    /\ stream' = stream \o part
    /\ wire' = [wire EXCEPT ![thread] = left]
    /\ sending' = IF left = <<>> THEN Nobody ELSE thread
    /\ cuts' = IF sending \in {thread, Nobody} THEN cuts ELSE cuts + 1
    /\ cuts' <= MaxCuts

\* Every message begins with its header.
SendHeader(thread, m) == SendPart(thread, HeaderOf(m), BodySends(m))

Reply ==
    /\ server # <<>> /\ wire[0] = <<>>
    /\ LET r == Head(server)
       IN  IF r.rpc = "message" THEN UNCHANGED sends
           ELSE SendHeader(0, [kind |-> "reply", id |-> r.id, rpc |-> r.rpc, val |-> Answer(r)])
    /\ server' = Tail(server)
    /\ UNCHANGED <<local, sent, closed>>

\* Events are numbered as their headers arrive.
Event ==
    /\ ~closed /\ sent < MaxEvents
    /\ sent' = sent + 1
    /\ SendHeader(sent', [kind |-> "event", id |-> sent', rpc |-> "", val |-> Garbage])
    /\ UNCHANGED <<local, server, closed>>

SendBody(thread) ==
    /\ wire[thread] # <<>>
    /\ SendPart(thread, Head(wire[thread]), Tail(wire[thread]))
    /\ UNCHANGED <<local, server, sent, closed>>

\* The server dies, as any client's /hello makes it do; what has arrived can
\* still be received.
Close ==
    /\ ~closed /\ closed' = TRUE
    /\ server' = <<>> /\ wire' = [thread \in 0..MaxEvents |-> <<>>] /\ sending' = Nobody
    /\ UNCHANGED <<local, stream, cuts, sent>>

Server == Reply \/ Event \/ (\E thread \in 0..MaxEvents : SendBody(thread)) \/ Close

-----------------------------------------------------------------------------
(* main(): sendLogin, and then a command at a time, each of them a call of   *)
(* sendReqRpc followed by what the caller does with the response.            *)

\* sendHello copies from address 1 before it sends anything.
Command ==
    /\ main = "command"
    /\ request.id <= MaxCommands
    /\ \E rpc \in Commands, arg \in Rooms \cup {General, 65534} :
         /\ rpc = "join" \/ arg = General
         /\ request' = [id |-> request.id + 1, rpc |-> rpc, arg |-> arg]
         /\ IF rpc = "hello" THEN fault' = "segv" /\ UNCHANGED main
            ELSE main' = "lock" /\ UNCHANGED fault
    /\ UNCHANGED <<events, recvMutex, response, buf, sessionId, currentRoom, network, shown>>

Lock ==
    /\ main = "lock" /\ recvMutex = "free"
    /\ recvMutex' = "main" /\ main' = "send"
    /\ UNCHANGED <<events, request, response, buf, sessionId, currentRoom, network, shown, fault>>

\* A bug: the wait flag is ignored and every request waits for a response.
NextIsRecvAlways(r) == "recvHead"

NextIsRecv(r) == IF r.rpc = "message" THEN "unlock" ELSE "recvHead"

\* Without a server the request is lost, or costs the client a SIGPIPE.
Send ==
    /\ main = "send"
    /\ server' = IF closed THEN server ELSE Append(server, request)
    /\ \/ main' = NextIsRecv(request) /\ UNCHANGED fault
       \/ closed /\ fault' = "sigpipe" /\ UNCHANGED main
    /\ UNCHANGED <<events, recvMutex, request, response, buf, sessionId, currentRoom>>
    /\ UNCHANGED <<sends, sent, closed, shown>>

\* recv(16, MSG_WAITALL): what is not a header has no length to go by.
RecvHead ==
    /\ main = "recvHead"
    /\ Len(stream) >= HeaderSize
    /\ IF First(HeaderSize) = HeaderOf(stream[1].msg)
       THEN response' = stream[1].msg /\ main' = "recvBody" /\ UNCHANGED fault
       ELSE fault' = "misread" /\ UNCHANGED <<response, main>>
    /\ stream' = Rest(HeaderSize)
    /\ UNCHANGED <<events, recvMutex, request, buf, sessionId, currentRoom>>
    /\ UNCHANGED <<server, wire, sending, cuts, sent, closed, shown>>

\* What is not the body holds no number that means anything.
RecvBody ==
    /\ main = "recvBody"
    /\ Len(stream) >= BodySize(response)
    /\ response' = IF First(BodySize(response)) = BodyOf(response) THEN response
                   ELSE [response EXCEPT !.val = Garbage]
    /\ stream' = Rest(BodySize(response))
    /\ main' = "unlock"
    /\ UNCHANGED <<events, recvMutex, request, buf, sessionId, currentRoom>>
    /\ UNCHANGED <<server, wire, sending, cuts, sent, closed, shown, fault>>

\* The connection is closed, recv's result not looked at: the rest of the
\* response is what malloc or realloc returned.
RecvFails ==
    /\ closed
    /\ \/ main = "recvHead" /\ Len(stream) < HeaderSize
       \/ main = "recvBody" /\ Len(stream) < BodySize(response)
    /\ fault' = "uninitialised"
    /\ stream' = <<>>
    /\ UNCHANGED <<control, request, response, buf, sessionId, currentRoom>>
    /\ UNCHANGED <<server, wire, sending, cuts, sent, closed, shown>>

\* A bug: sendReqRpc returns without unlocking when it does not wait.
UnlockAfterWaitOnly ==
    /\ main = "unlock"
    /\ recvMutex' = IF request.rpc = "message" THEN recvMutex ELSE "free"
    /\ main' = "return"
    /\ UNCHANGED <<events, request, response, buf, sessionId, currentRoom, network, shown, fault>>

Unlock ==
    /\ main = "unlock"
    /\ recvMutex' = "free" /\ main' = "return"
    /\ UNCHANGED <<events, request, response, buf, sessionId, currentRoom, network, shown, fault>>

\* A bug: joinRoom takes every answer for a room.
JoinedAnyway(id) == TRUE

Joined(id) == id # RoomNotFound

\* sendLogin takes a positive number for a session, joinRoom any number but
\* 65535 for a room; a number parsed from an event can be either.
Return ==
    /\ main = "return"
    /\ main' = "command"
    /\ events' = IF request.rpc = "login" THEN "lock" ELSE events
    /\ \/ request.rpc = "login" /\ sessionId' = response.val /\ UNCHANGED currentRoom
       \/ request.rpc = "login" /\ response.val = Garbage /\ UNCHANGED <<sessionId, currentRoom>>
       \/ /\ request.rpc = "join" /\ Joined(response.val)
          /\ currentRoom' = response.val /\ UNCHANGED sessionId
       \/ /\ request.rpc # "login"
          /\ request.rpc = "join" => ~Joined(response.val) \/ response.val = Garbage
          /\ UNCHANGED <<sessionId, currentRoom>>
    /\ response' = Nothing
    /\ UNCHANGED <<recvMutex, request, buf, network, shown, fault>>

MainThread == Command \/ Lock \/ Send \/ RecvHead \/ RecvBody \/ RecvFails \/ Unlock \/ Return

-----------------------------------------------------------------------------
(* handleEvents().                                                           *)

\* A bug: the header is read without the lock.
EventsDoNotLock ==
    /\ events = "lock" /\ events' = "recv"
    /\ UNCHANGED <<main, recvMutex, request, response, buf, sessionId, currentRoom, network, shown, fault>>

EventsLock ==
    /\ events = "lock" /\ recvMutex = "free"
    /\ recvMutex' = "events" /\ events' = "recv"
    /\ UNCHANGED <<main, request, response, buf, sessionId, currentRoom, network, shown, fault>>

\* A bug: the header is peeked at, too.
TakenNever(n) == 0

Taken(n) == n

\* recv(16, MSG_DONTWAIT): as much of a header as there is.
EventsRecv ==
    /\ events = "recv"
    /\ LET n == IF Len(stream) < HeaderSize THEN Len(stream) ELSE HeaderSize
       IN  /\ buf' = IF n = 0 THEN buf ELSE stream[1]
           /\ stream' = Rest(Taken(n))
           /\ events' = IF n = 0 THEN "retry" ELSE "unlock"
    /\ UNCHANGED <<main, recvMutex, request, response, sessionId, currentRoom>>
    /\ UNCHANGED <<server, wire, sending, cuts, sent, closed, shown, fault>>

\* The test on request and rpc, which are in a header's first unit.
EventsUnlock ==
    /\ events \in {"unlock", "retry"}
    /\ recvMutex' = "free"
    /\ events' = IF events = "unlock" /\ buf.msg.kind = "event" /\ buf.at = 1
                 THEN "peek" ELSE "lock"
    /\ UNCHANGED <<main, request, response, buf, sessionId, currentRoom, network, shown, fault>>

\* MSG_PEEK, without the lock, until the body is there; it stays there.
EventsPeek ==
    /\ events = "peek"
    /\ LET m == buf.msg
       IN  /\ Len(stream) >= BodySize(m)
           /\ shown' = Append(shown, [id |-> m.id, whole |-> First(BodySize(m)) = BodyOf(m)])
    /\ events' = "lock"
    /\ UNCHANGED <<main, recvMutex, request, response, buf, sessionId, currentRoom, network, fault>>

handleEvents == EventsLock \/ EventsRecv \/ EventsUnlock \/ EventsPeek

-----------------------------------------------------------------------------
Next ==
    /\ fault = "none"
    /\ MainThread \/ handleEvents \/ Server

\* Both threads run, and get a mutex that stays free; but main() may miss a
\* mutex that handleEvents frees and takes again.  The server answers, and sends
\* what it has begun to.
Fairness ==
    /\ WF_vars(fault = "none" /\ (Lock \/ Send \/ RecvHead \/ RecvBody \/ Unlock \/ Return))
    /\ WF_vars(fault = "none" /\ handleEvents)
    /\ WF_vars(fault = "none" /\ (Reply \/ \E thread \in 0..MaxEvents : SendBody(thread)))

Spec == Init /\ [][Next]_vars /\ Fairness

-----------------------------------------------------------------------------
\* The room can be 1 without being one of Rooms: a response to join may have
\* been the one to login.
TypeOK ==
    /\ main \in {"command", "lock", "send", "recvHead", "recvBody", "unlock", "return"}
    /\ events \in {"none", "lock", "recv", "retry", "unlock", "peek"}
    /\ recvMutex \in {"free", "main", "events"}
    /\ request.id \in 1..MaxCommands + 1
    /\ sessionId \in {0, 1, Garbage}
    /\ currentRoom \in Rooms \cup {General, 1, Garbage}
    /\ sent \in 0..MaxEvents /\ sending \in {Nobody} \cup 0..MaxEvents /\ cuts \in 0..MaxCuts
    /\ \A k \in DOMAIN shown : shown[k].id \in 1..sent
    /\ closed \in BOOLEAN
    /\ fault \in {"none", "segv", "sigpipe", "misread", "uninitialised"}

\* The mutex is held by exactly the thread that is between its lock and unlock,
\* and the event thread only runs once login has been answered.
LockDiscipline ==
    /\ recvMutex = "main" <=> main \in {"send", "recvHead", "recvBody", "unlock"}
    /\ recvMutex = "events" <=> events \in {"recv", "retry", "unlock"}
    /\ events # "none" <=> ~(request.rpc = "login" /\ main # "command")

\* What sendReqRpc returns is the response to what it has sent ("// Receive
\* response", client.c line 112).
ResponseIsReply ==
    /\ fault # "misread"
    /\ main = "return" /\ request.rpc # "message" =>
         response.kind = "reply" /\ response.id = request.id

\* It is as long as no event has been sent, for all that the event thread reads
\* from the same socket; unless the server goes, it is received in full.
ResponseIsReplyWithoutEvents ==
    sent = 0 => /\ ResponseIsReply
                /\ main = "return" /\ request.rpc # "message" => response.val = Answer(request)
                /\ fault \in {"uninitialised", "sigpipe"} => closed

\* An event is shown at most once, and events are shown in the order in which
\* their headers were sent, although their bodies stay in the stream and other
\* messages are sent in between.
EventsShownInOrder == \A j, k \in DOMAIN shown : j < k => shown[j].id < shown[k].id

\* If no event confuses it and the server is there, a request that has the mutex
\* returns, and while one waits for the mutex it becomes free again and again;
\* whether main() ever gets it then is up to the scheduler.
RequestsReturn == main # "command" ~>
    \/ main = "command" \/ (main = "lock" /\ recvMutex = "free")
    \/ sent > 0 \/ closed

\* With a single event in flight and no request but messages, it is shown in
\* full: sendMessage takes the mutex but reads nothing.
Pending == Len(stream) = HeaderSize /\ stream[1].msg.kind = "event" /\ stream[1].at = 1
LoneEventIsShown == events # "none" /\ Pending ~>
    \/ shown = <<[id |-> 1, whole |-> TRUE]>>
    \/ sent > 1 \/ closed \/ request.rpc \notin {"login", "message"}
=============================================================================
