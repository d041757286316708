----------------------------- MODULE ChatServer -----------------------------
(***************************************************************************)
(* assignments/4/server.c.  main() accepts connections and starts one      *)
(* thread per connection; every thread loops over receive, handle, answer. *)
(* The tables of users, rooms and memberships are global and unlocked, so  *)
(* a step is one access to a shared variable, one receive or one send.     *)
(* `fault' names the first thing the program does whose effect the C       *)
(* source no longer determines; nothing is modelled after it.              *)
(***************************************************************************)
EXTENDS Integers, Sequences, FiniteSets, SequencesExt

CONSTANTS MaxConnections,  \* connections accepted in a run (bound)
          MaxRequests,     \* requests of each of several clients (bound)
          MaxAlone,        \* requests of a client while it is the only one (bound)
          RoomNames,       \* names clients give rooms
          Tails,           \* what the bytes behind a name may make of it
          Rpcs,            \* what clients ask for once they have logged in
          Leaving          \* may a client close its connection?

ASSUME ServerAssumption ==
    /\ MaxConnections \in Nat \ {0}
    /\ MaxRequests \in Nat /\ MaxAlone \in Nat
    /\ RoomNames \subseteq Nat \ {0} /\ Tails \subseteq Int
    /\ Rpcs \subseteq {"hello", "join_room", "message", "list_rooms", "list_users", "create_room"}
    /\ Leaving \in BOOLEAN

Conn == 1..MaxConnections  \* connections, by descriptor: they grow with accept
                           \* and are never closed.  Thread t is the one of the t-th.
NoFd == -1                 \* what accept() returns when it fails
Junk == -2                 \* content of memory that was never written
General == 0               \* the name of the room main() creates
RoomNotFound == 65535

VARIABLES main,            \* what main()'s accept loop does next
          slot,            \* main()'s cli_fd; every thread has its address
          accepted,        \* connections accepted so far
          connectedUsers, roomsByUser,  \* numUsers is Len(connectedUsers)
          num, table,      \* numUsernames, numRooms; usernames, rooms
          pc,              \* what each thread does next
          fd, req,         \* the connection and request a thread is serving
          reg,             \* a thread's local: loaded count, room id, loop index
          sender,          \* handleMessage's sendingUserFd, and that user's name
          old,             \* a realloc's copy of the old block, per caller
          inbox, out,      \* parts in flight to and from the server
          asked, gone,     \* every client's requests; clients that have left
          raced,           \* history: tables two threads have worked on at once
          fault

accepting == <<main, slot, accepted>>
users == <<connectedUsers, roomsByUser>>
appended == <<num, table>>
locals == <<fd, req, reg, sender>>
clients == <<asked, gone>>
vars == <<accepting, users, appended, locals, clients, pc, old, inbox, out, raced, fault>>

HasBody(r) == r.rpc \notin {"list_rooms", "list_users"}
NeedsReply(r) == r.rpc # "message"

\* The tables a handler reads or writes.
Touches(r) ==
    CASE r.rpc = "hello" -> {}
      [] r.rpc = "login" -> {"usernames"}
      [] r.rpc \in {"create_room", "list_rooms"} -> {"rooms"}
      [] r.rpc = "join_room" -> {"rooms", "members"}
      [] OTHER -> {"usernames", "members"}

InUseBy(others) == UNION {Touches(req[u]) :
    u \in {v \in others : pc[v] \notin {"unborn", "loop", "head", "body"}}}

Init ==
    /\ main = "accept" /\ slot = NoFd /\ accepted = 0
    /\ connectedUsers = <<>> /\ roomsByUser = <<>>
    /\ num = [usernames |-> 0, rooms |-> 1]
    /\ table = [usernames |-> <<>>, rooms |-> <<General>>]
    /\ pc = [t \in Conn |-> "unborn"]
    /\ fd = [t \in Conn |-> NoFd]
    /\ req = [t \in Conn |-> [rpc |-> "login", arg |-> t]]
    /\ reg = [t \in Conn |-> 0]
    /\ sender = [t \in Conn |-> <<0, Junk>>]
    /\ old = [t \in Conn \cup {0} |-> <<>>]
    /\ inbox = [c \in Conn |-> <<>>] /\ out = [c \in Conn |-> <<>>]
    /\ asked = [c \in Conn |-> <<>>] /\ gone = {}
    /\ raced = {} /\ fault = "none"

-----------------------------------------------------------------------------
(* The clients, as far as the server can tell them apart: they connect, log  *)
(* in, and send the next request once something has come back for the last   *)
(* one that is answered.                                                     *)

Requests(c) ==
    IF asked[c] = <<>> THEN {[rpc |-> "login", arg |-> c]}
    ELSE [rpc : Rpcs \cap {"create_room"}, arg : RoomNames]
         \cup [rpc : Rpcs \cap {"join_room"}, arg : {General} \cup RoomNames]
         \cup [rpc : Rpcs \cap {"message"}, arg : 0..Cardinality(RoomNames)]
         \cup [rpc : Rpcs \cap {"hello", "list_rooms", "list_users"}, arg : {0}]

\* The requests a client gets an answer to, and the bodies it has been sent.
Owed(c) == {i \in DOMAIN asked[c] : NeedsReply(asked[c][i])}
Bodies(c) == {k \in DOMAIN out[c] : out[c][k].half = "body"}

Ask(c) ==
    /\ c <= accepted /\ c \notin gone
    /\ Len(asked[c]) < MaxRequests \/ (accepted = 1 /\ Len(asked[c]) < MaxAlone)
    /\ Cardinality(Bodies(c)) >= Cardinality(Owed(c))
    /\ \E r \in Requests(c) :
         /\ asked' = [asked EXCEPT ![c] = Append(@, r)]
         /\ inbox' = [inbox EXCEPT ![c] = @ \o <<[half |-> "head", req |-> r]>>
               \o IF HasBody(r) THEN <<[half |-> "body", req |-> r]>> ELSE <<>>]
    /\ UNCHANGED <<accepting, users, appended, locals, gone, pc, old, out, raced, fault>>

Leave(c) ==
    /\ Leaving
    /\ c <= accepted /\ c \notin gone
    /\ gone' = gone \cup {c}
    /\ UNCHANGED <<accepting, users, appended, locals, asked, pc, old, inbox, out, raced, fault>>

-----------------------------------------------------------------------------
(* main(): the accept loop.                                                  *)

\* accept() stores its result in the variable every thread looks at.
Accept ==
    /\ main = "accept"
    /\ accepted < MaxConnections
    /\ \A c \in Conn : Len(asked[c]) <= MaxRequests
    /\ accepted' = accepted + 1
    /\ slot' = accepted'
    /\ main' = "addUser"
    /\ raced' = raced \cup (InUseBy(Conn) \cap {"members"})
    /\ UNCHANGED <<users, pc, old>>

\* A bug: no `continue' after the error message.
AcceptFailsThrough ==
    /\ main = "accept" /\ slot' = NoFd /\ main' = "addUser"
    /\ UNCHANGED <<accepted, users, pc, old, raced>>

AcceptFails ==
    /\ main = "accept"
    /\ slot' = NoFd
    /\ UNCHANGED <<main, accepted, users, pc, old, raced>>

\* ++numUsers, and the realloc of connectedUsers, of which nothing is written
\* while it is copied; the old block is freed, the new entry not yet there.
AddUser ==
    /\ main = "addUser"
    /\ connectedUsers' = Append(connectedUsers, Junk)
    /\ main' = "growUsers"
    /\ UNCHANGED <<slot, accepted, roomsByUser, pc, old, raced>>

\* The connection's entry in connectedUsers.
PutUser ==
    /\ main = "growUsers"
    /\ connectedUsers' = [connectedUsers EXCEPT ![Len(connectedUsers)] = slot]
    /\ main' = "copyRooms"
    /\ UNCHANGED <<slot, accepted, roomsByUser, pc, old, raced>>

\* realloc(roomsByUser): the old block is copied, then the new one replaces it;
\* a block grown in place still holds what was written meanwhile.
CopyRooms ==
    /\ main = "copyRooms"
    /\ old' = [old EXCEPT ![0] = roomsByUser]
    /\ main' = "growRooms"
    /\ UNCHANGED <<slot, accepted, users, pc, raced>>

GrowRooms ==
    /\ main = "growRooms"
    /\ \E block \in {old[0], roomsByUser} : roomsByUser' = Append(block, Junk)
    /\ old' = [old EXCEPT ![0] = <<>>]
    /\ main' = "start"
    /\ UNCHANGED <<slot, accepted, connectedUsers, pc, raced>>

\* The new user's room, and the new user's thread, if pthread_create() does not
\* fail: its result is not looked at.
Start ==
    /\ main = "start"
    /\ roomsByUser' = [roomsByUser EXCEPT ![Len(connectedUsers)] = 0]
    /\ pc' \in {pc, [pc EXCEPT ![Len(connectedUsers)] = "loop"]}
    /\ main' = "accept"
    /\ UNCHANGED <<slot, accepted, connectedUsers, old, raced>>

Register == AddUser \/ PutUser \/ CopyRooms \/ GrowRooms \/ Start

MainStep(A) == A /\ UNCHANGED <<appended, locals, clients, inbox, out, fault>>

-----------------------------------------------------------------------------
(* A thread: newThreadHandler and recvReqRpc.                                *)

Goto(t, step) == pc' = [pc EXCEPT ![t] = step] /\ UNCHANGED fault
Set(t, value) == reg' = [reg EXCEPT ![t] = value]
Break(what) == fault' = what /\ UNCHANGED pc

\* A bug: the thread serves the first connection of the table.
FdOfFirst(t) == connectedUsers[1]

\* *(int*)cli_fd, whatever main() has put there since it started the thread.
FdOf(t) == slot

ReadSlot(t) ==
    /\ pc[t] = "loop"
    /\ fd' = [fd EXCEPT ![t] = FdOf(t)]
    /\ Set(t, 0) /\ sender' = [sender EXCEPT ![t] = <<0, Junk>>]
    /\ Goto(t, "head")
    /\ UNCHANGED <<users, appended, req, old, inbox, out, raced>>

FirstStep(r) ==
    CASE r.rpc \in {"login", "create_room"} -> "load"
      [] r.rpc = "join_room" -> "lookup"
      [] r.rpc = "message" -> "find"
      [] OTHER -> "collect"

\* The switch on the rpc.  handleHello copies from address 1.
Dispatch(t, r) ==
    /\ IF r.rpc = "hello" THEN Break("segv") ELSE Goto(t, FirstStep(r))
    /\ raced' = raced \cup (Touches(r) \cap
          (InUseBy(Conn \ {t}) \cup IF main = "accept" THEN {} ELSE {"members"}))

RecvHead(t) ==
    /\ pc[t] = "head"
    /\ fd[t] # NoFd /\ inbox[fd[t]] # <<>>
    /\ inbox' = [inbox EXCEPT ![fd[t]] = Tail(@)]
    /\ LET part == Head(inbox[fd[t]])
       IN  /\ req' = [req EXCEPT ![t] = part.req]
           /\ IF part.half = "body" THEN Break("misframed") /\ UNCHANGED raced
              ELSE IF HasBody(part.req) THEN Goto(t, "body") /\ UNCHANGED raced
              ELSE Dispatch(t, part.req)
    /\ UNCHANGED <<users, appended, fd, reg, sender, old, out>>

RecvBody(t) ==
    /\ pc[t] = "body"
    /\ inbox[fd[t]] # <<>>
    /\ inbox' = [inbox EXCEPT ![fd[t]] = Tail(@)]
    /\ IF Head(inbox[fd[t]]) = [half |-> "body", req |-> req[t]]
       THEN Dispatch(t, req[t]) ELSE Break("misframed") /\ UNCHANGED raced
    /\ UNCHANGED <<users, appended, locals, old, out>>

\* recv returns 0 or -1: the header is whatever malloc returned.
RecvFails(t) ==
    /\ pc[t] \in {"head", "body"}
    /\ fd[t] = NoFd \/ (fd[t] \in gone /\ inbox[fd[t]] = <<>>)
    /\ Break("uninitialised")
    /\ UNCHANGED <<users, appended, locals, old, inbox, out, raced>>

-----------------------------------------------------------------------------
(* handleLogin and handleCreateRoom: n++; t = realloc(t, n); t[n-1] = x.     *)

\* parseTlv copies a name without an end: it goes on with what the heap holds.
Parsed(name) == {name + k : k \in Tails \cup {0}} \cap Nat

\* handleLogin ends the name it has parsed, handleCreateRoom does not.
Names(r) == IF r.rpc = "login" THEN {r.arg} ELSE Parsed(r.arg)

Tab(t) == IF req[t].rpc = "login" THEN "usernames" ELSE "rooms"

LoadCount(t) ==
    /\ pc[t] = "load"
    /\ Set(t, num[Tab(t)])
    /\ Goto(t, "count")
    /\ UNCHANGED <<users, appended, fd, req, sender, old, inbox, out, raced>>

StoreCount(t) ==
    /\ pc[t] = "count"
    /\ num' = [num EXCEPT ![Tab(t)] = reg[t] + 1]
    /\ Goto(t, "grow")
    /\ UNCHANGED <<users, table, locals, old, inbox, out, raced>>

\* A bug: the block is grown to the count of before.
NewSizeOld(t) == num[Tab(t)] - 1

\* The size of the new block: the count is read again.
NewSize(t) == num[Tab(t)]

Grow(t) ==
    /\ pc[t] = "grow"
    /\ Set(t, NewSize(t))
    /\ old' = [old EXCEPT ![t] = table[Tab(t)]]
    /\ Goto(t, "publish")
    /\ UNCHANGED <<users, appended, fd, req, sender, inbox, out, raced>>

\* Two reallocs of one block may free it twice.
Publish(t) ==
    /\ pc[t] = "publish"
    /\ \/ /\ \E u \in Conn \ {t} : pc[u] = "publish" /\ Tab(u) = Tab(t)
          /\ Break("torn")
          /\ UNCHANGED table
       \/ /\ \E block \in {old[t], table[Tab(t)]} :
               table' = [table EXCEPT ![Tab(t)] =
                  [k \in 1..reg[t] |-> IF k <= Len(block) THEN block[k] ELSE Junk]]
          /\ Goto(t, "put")
    /\ old' = [old EXCEPT ![t] = <<>>]
    /\ UNCHANGED <<users, num, locals, inbox, out, raced>>

Put(t) ==
    /\ pc[t] = "put"
    /\ IF num[Tab(t)] > Len(table[Tab(t)]) THEN Break("torn") /\ UNCHANGED table
       ELSE /\ \E name \in Names(req[t]) :
                 table' = [table EXCEPT ![Tab(t)][num[Tab(t)]] = name]
            /\ Goto(t, "number")
    /\ UNCHANGED <<users, num, locals, old, inbox, out, raced>>

\* A bug: ids of rooms count from one.
AnswerFromOne(t) == num[Tab(t)]

\* The answer: the session is numUsernames, the room's id numRooms - 1.
Answer(t) == IF req[t].rpc = "login" THEN num["usernames"] ELSE num["rooms"] - 1

Number(t) ==
    /\ pc[t] = "number"
    /\ Set(t, Answer(t))
    /\ Goto(t, "sendHead")
    /\ UNCHANGED <<users, appended, fd, req, sender, old, inbox, out, raced>>

HandleAppend(t) ==
    LoadCount(t) \/ StoreCount(t) \/ Grow(t) \/ Publish(t) \/ Put(t) \/ Number(t)

-----------------------------------------------------------------------------
(* The handlers that look things up.                                         *)

numUsers == Len(connectedUsers)

\* Does a loop over the rooms only meet names?
RoomsReadable == /\ num["rooms"] <= Len(table["rooms"])
                 /\ \A k \in 1..num["rooms"] : table["rooms"][k] # Junk

\* Bugs: the last user is never looked at; the session, which counts from one,
\* is taken for an index.
IndexOfButLast(c) == {k \in 1..numUsers - 1 : connectedUsers[k] = c}
NameOfSession(k) ==
    IF k + 1 <= Len(table["usernames"]) THEN table["usernames"][k + 1] ELSE Junk

\* The user of a connection, and what the tables say of the k-th user.
IndexOf(c) == {k \in 1..numUsers : connectedUsers[k] = c}
RoomOf(k) == IF k <= Len(roomsByUser) THEN roomsByUser[k] ELSE Junk
NameOf(k) == IF k <= Len(table["usernames"]) THEN table["usernames"][k] ELSE Junk

\* handleJoinRoom: the last room of the name it has parsed; its id may not be
\* the number that stands for no room.
Lookup(t) ==
    /\ pc[t] = "lookup"
    /\ IF ~RoomsReadable THEN Break("torn") /\ UNCHANGED reg
       ELSE \E name \in Parsed(req[t].arg) :
            LET found == {k \in 1..num["rooms"] : table["rooms"][k] = name}
                id == IF found = {} THEN RoomNotFound ELSE Max(found) - 1
            IN  /\ Set(t, id)
                /\ Goto(t, IF id = RoomNotFound THEN "sendHead" ELSE "enter")
    /\ UNCHANGED <<users, appended, fd, req, sender, old, inbox, out, raced>>

\* handleJoinRoom: the caller's room, where main() has registered the caller.
Enter(t) ==
    /\ pc[t] = "enter"
    /\ IF \E k \in IndexOf(fd[t]) : k > Len(roomsByUser)
       THEN Break("torn") /\ UNCHANGED roomsByUser
       ELSE /\ roomsByUser' = [k \in DOMAIN roomsByUser |->
                                 IF k \in IndexOf(fd[t]) THEN reg[t] ELSE roomsByUser[k]]
            /\ Goto(t, "sendHead")
    /\ UNCHANGED <<connectedUsers, appended, locals, old, inbox, out, raced>>

CollectRooms(t) ==
    /\ pc[t] = "collect" /\ req[t].rpc = "list_rooms"
    /\ IF RoomsReadable THEN Set(t, num["rooms"]) /\ Goto(t, "sendHead")
       ELSE Break("torn") /\ UNCHANGED reg
    /\ UNCHANGED <<users, appended, fd, req, sender, old, inbox, out, raced>>

\* handleListUsers: the k-th user is written at position k of the list, which
\* is its end only if every user before is in the room as well.
CollectUsers(t) ==
    /\ pc[t] = "collect" /\ req[t].rpc = "list_users"
    /\ IF IndexOf(fd[t]) = {} \/ RoomOf(Max(IndexOf(fd[t]))) = Junk
       THEN Break("unregistered") /\ UNCHANGED reg
       ELSE LET room == RoomOf(Max(IndexOf(fd[t])))
                unsure == {k \in 1..numUsers : RoomOf(k) = Junk}
            IN  \E chance \in SUBSET unsure :
                  LET here == {k \in 1..numUsers : RoomOf(k) = room} \cup chance
                  IN  \/ /\ \E k \in here : NameOf(k) = Junk
                         /\ Break("nameless") /\ UNCHANGED reg
                      \/ /\ here # 1..Cardinality(here)
                         /\ Break("badlist") /\ UNCHANGED reg
                      \/ /\ here = 1..Cardinality(here) /\ \A k \in here : NameOf(k) # Junk
                         /\ Set(t, Cardinality(here)) /\ Goto(t, "sendHead")
    /\ UNCHANGED <<users, appended, fd, req, sender, old, inbox, out, raced>>

-----------------------------------------------------------------------------
(* Sending.  A response is a header and a body; an event is the header the   *)
(* client reads first and, as one part, the three sends that follow it.      *)

\* Sending to a client that has left may cost the server a SIGPIPE.
SendTo(c, t, kind, half, val, next) ==
    \/ /\ c \in Conn \ gone
       /\ out' = [out EXCEPT ![c] = Append(@,
             [kind |-> kind, half |-> half, by |-> t, req |-> req[t], val |-> val])]
       /\ Goto(t, next)
    \/ c \notin Conn \ gone /\ Goto(t, next) /\ UNCHANGED out
    \/ c \in gone /\ Break("sigpipe") /\ UNCHANGED out

\* A bug: main()'s variable is read again for the response.
ReplyToSlot(t) == slot

ReplyTo(t) == fd[t]

\* The number in a response: of a room's id two bytes are sent, of a count one.
Id(t) == IF req[t].rpc \in {"join_room", "create_room"} THEN reg[t] % 65536 ELSE reg[t]
InHead(t) == IF req[t].rpc = "list_rooms" THEN num["rooms"] % 256
             ELSE IF req[t].rpc = "list_users" THEN reg[t] % 256
             ELSE Id(t)

SendHead(t) ==
    /\ pc[t] = "sendHead"
    /\ SendTo(ReplyTo(t), t, "reply", "head", InHead(t), "sendBody")
    /\ UNCHANGED <<users, appended, locals, old, inbox, raced>>

SendBody(t) ==
    /\ pc[t] = "sendBody"
    /\ SendTo(ReplyTo(t), t, "reply", "body", Id(t), "loop")
    /\ UNCHANGED <<users, appended, locals, old, inbox, raced>>

\* handleMessage, and the first line of broadcastMessageToChannel.
Find(t) ==
    /\ pc[t] = "find"
    /\ LET own == IndexOf(fd[t])
       IN  \/ own = {} /\ Break("unregistered") /\ UNCHANGED <<reg, sender>>
           \/ /\ own # {} /\ NameOf(Min(own)) = Junk
              /\ Break("nameless") /\ UNCHANGED <<reg, sender>>
           \/ /\ own # {} /\ NameOf(Min(own)) # Junk
              /\ sender' = [sender EXCEPT ![t] = <<Min(own), NameOf(Min(own))>>]
              /\ Set(t, 1)
              /\ Goto(t, "each")
    /\ UNCHANGED <<users, appended, fd, req, old, inbox, out, raced>>

\* Bugs: the loop starts after the sender; descriptors and indexes are mixed up,
\* the first descriptor being 3.
AnotherAfter(t, k) == k > sender[t][1]
AnotherFd(t, k) == connectedUsers[k] + 2 # sender[t][1]

\* The test i != sender_id.
Another(t, k) == k # sender[t][1]

\* broadcastMessageToChannel: the loop over the users.
EachUser(t) ==
    /\ pc[t] = "each"
    /\ LET k == reg[t]
       IN  \/ k > numUsers /\ Goto(t, "loop") /\ UNCHANGED reg
           \/ /\ k <= numUsers /\ (~Another(t, k) \/ RoomOf(k) # req[t].arg)
              /\ Set(t, k + 1) /\ Goto(t, "each")
           \/ /\ k <= numUsers /\ Another(t, k) /\ RoomOf(k) \in {req[t].arg, Junk}
              /\ Goto(t, "eventHead") /\ UNCHANGED reg
    /\ UNCHANGED <<users, appended, fd, req, sender, old, inbox, out, raced>>

EventHead(t) ==
    /\ pc[t] = "eventHead"
    /\ SendTo(connectedUsers[reg[t]], t, "event", "head", sender[t], "eventBody")
    /\ UNCHANGED <<users, appended, locals, old, inbox, raced>>

EventBody(t) ==
    /\ pc[t] = "eventBody"
    /\ SendTo(connectedUsers[reg[t]], t, "event", "body", sender[t], "each")
    /\ Set(t, reg[t] + 1)
    /\ UNCHANGED <<users, appended, fd, req, sender, old, inbox, raced>>

-----------------------------------------------------------------------------
(* What a realloc under way has freed, and main()'s entry not yet written.   *)

\* The blocks a step of a thread reads or writes, or whose content it follows.
Reads(t) ==
    CASE pc[t] = "put" -> {Tab(t)}
      [] pc[t] = "lookup" -> {"rooms"}
      [] pc[t] = "enter" -> {"connectedUsers", "roomsByUser"}
      [] pc[t] = "collect" -> IF req[t].rpc = "list_rooms" THEN {"rooms"}
                              ELSE {"usernames", "connectedUsers", "roomsByUser"}
      [] pc[t] = "find" -> {"usernames", "connectedUsers"}
      [] pc[t] = "each" -> {"roomsByUser"}
      [] pc[t] \in {"eventHead", "eventBody"} -> {"connectedUsers"}
      [] OTHER -> {}

Freed == {Tab(u) : u \in {v \in Conn : pc[v] = "publish"}}
         \cup (IF main = "growUsers" THEN {"connectedUsers"} ELSE {})
         \cup (IF main = "growRooms" THEN {"roomsByUser"} ELSE {})

\* The block is still read as it was, as in the steps above, or it is not: an
\* entry may be any number, the descriptor looked for as well as another.
ReadsFreed(t) ==
    /\ Reads(t) \cap Freed # {}
    /\ Break("torn")
    /\ UNCHANGED <<users, appended, locals, old, inbox, out, raced>>

newThreadHandler(t) ==
    /\ \/ ReadSlot(t) \/ RecvHead(t) \/ RecvBody(t) \/ RecvFails(t)
       \/ HandleAppend(t) \/ Lookup(t) \/ Enter(t) \/ CollectRooms(t) \/ CollectUsers(t)
       \/ SendHead(t) \/ SendBody(t)
       \/ Find(t) \/ EachUser(t) \/ EventHead(t) \/ EventBody(t) \/ ReadsFreed(t)
    /\ UNCHANGED <<accepting, clients>>

Next ==
    /\ fault = "none"
    /\ \/ MainStep(Accept) \/ MainStep(AcceptFails) \/ MainStep(Register)
       \/ \E c \in Conn : Ask(c) \/ Leave(c)
       \/ \E t \in Conn : newThreadHandler(t)

\* Threads are scheduled fairly; nothing obliges a client to do anything.
Fairness == /\ WF_vars(fault = "none" /\ MainStep(Register))
            /\ \A t \in Conn : WF_vars(fault = "none" /\ newThreadHandler(t))

Spec == Init /\ [][Next]_vars /\ Fairness

-----------------------------------------------------------------------------
Step == {"loop", "head", "body", "load", "count", "grow", "publish", "put", "number", "lookup",
         "enter", "collect", "sendHead", "sendBody", "find", "each", "eventHead", "eventBody"}

TypeOK ==
    /\ main \in {"accept", "addUser", "growUsers", "copyRooms", "growRooms", "start"}
    /\ slot \in {NoFd} \cup Conn /\ accepted \in 0..MaxConnections
    /\ connectedUsers \in Seq(Conn \cup {Junk}) /\ roomsByUser \in Seq(Nat \cup {Junk})
    /\ num \in [{"usernames", "rooms"} -> Nat]
    /\ table \in [{"usernames", "rooms"} -> Seq(Nat \cup {Junk})]
    /\ fd \in [Conn -> {NoFd} \cup Conn] /\ reg \in [Conn -> Nat]
    /\ sender \in [Conn -> Nat \X (Nat \cup {Junk})]
    /\ pc \in [Conn -> Step \cup {"unborn"}]
    /\ gone \subseteq Conn
    /\ raced \subseteq {"usernames", "rooms", "members"}
    /\ fault \in {"none", "segv", "misframed", "uninitialised", "unregistered", "nameless",
                  "badlist", "torn", "sigpipe"}

Parts(c, kind) == {k \in DOMAIN out[c] : out[c][k].kind = kind}

\* A thread may drift to connections accepted after its own, never to one
\* accepted before: the stream of the first connection has a single reader
\* (newThreadHandler reads main()'s variable again for every request, line 343).
ServesNoOlder == \A t \in Conn : fd[t] # NoFd => fd[t] >= t

\* The server is sound for a client on its own: as long as one connection has
\* been accepted, no stream is misread, no table is read out of bounds, no
\* entry is read before it is written.
SoloClientIsSafe ==
    accepted <= 1 => fault \in {"none", "segv", "uninitialised", "sigpipe"}

\* The tables are damaged, or a client is served before it is registered, only
\* if two threads have been at work on the same table at the same time.
DamageNeedsRace == fault \in {"torn", "unregistered"} => raced # {}

\* As long as no event has been sent to a client, it receives complete
\* responses, in the order of its own requests, and nothing else (the responses
\* are two sends each, of any thread that happens to read the connection).
RepliesInOrder ==
    \A c \in Conn : Parts(c, "event") = {} =>
        /\ \A k \in DOMAIN out[c] :
             /\ out[c][k].half = IF k % 2 = 1 THEN "head" ELSE "body"
             /\ k % 2 = 0 => out[c][k].by = out[c][k - 1].by
        /\ \A k \in DOMAIN out[c] : \E i \in Owed(c) :
             /\ out[c][k].req = asked[c][i]
             /\ Cardinality({j \in Owed(c) : j <= i}) = (k + 1) \div 2

\* The answers to create_room, as places in `out'.
Created == UNION {{c} \X {k \in Parts(c, "reply") : out[c][k].half = "head"
                                                  /\ out[c][k].req.rpc = "create_room"} : c \in Conn}
RoomIn(p) == LET part == out[p[1]][p[2]]
             IN  /\ part.val + 1 \in DOMAIN table["rooms"]
                 /\ table["rooms"][part.val + 1] \in Parsed(part.req.arg)

\* "/create <room>: creates a room": the answer to create_room is the id of a
\* room of that name, but for the bytes the server reads behind it, and each
\* room has an id of its own, while two bytes do for the ids.
CreatedRoomsExist ==
    fault = "none" /\ num["rooms"] <= 65536
                   => /\ \A p \in Created : RoomIn(p)
                      /\ \A p, q \in Created :
                           out[p[1]][p[2]].val = out[q[1]][q[2]].val => p = q

\* The header of list_rooms counts the rooms when it is sent (line 250), the
\* body lists those there were before: they agree, while the count fits a byte.
RoomsAreCounted ==
    \A c \in Conn : Parts(c, "event") = {} /\ num["rooms"] < 256 =>
        \A k \in DOMAIN out[c] :
            out[c][k].half = "body" /\ out[c][k].req.rpc = "list_rooms"
              => out[c][k - 1].val = out[c][k].val

\* Unless two requests have been at work on the rooms at once, created rooms
\* exist and lists are counted right; and whatever the races, room 0 stays the
\* general room, where main() puts every newcomer.
RoomsAsAnswered ==
    /\ "rooms" \notin raced => CreatedRoomsExist /\ RoomsAreCounted
    /\ fault = "none" => table["rooms"][1] = General

\* The answers that have told a client it is in a room, as places in `out'.
Joins(c) == {k \in Parts(c, "reply") : /\ out[c][k].half = "head"
                                       /\ out[c][k].req.rpc = "join_room"
                                       /\ out[c][k].val # RoomNotFound}

\* "/join <room>: joins a room": once a client, which is still there, has been
\* told it is in a room and no other join of its is on the way, the server takes
\* it to be there (ids the client can be told, line 221, are below RoomNotFound).
JoinSticks ==
    fault = "none" => \A c \in 1..Len(roomsByUser) :
        Joins(c) # {} /\ c \notin gone /\ roomsByUser[c] < RoomNotFound =>
            \/ roomsByUser[c] = out[c][Max(Joins(c))].val
            \/ \E t \in Conn : fd[t] = c /\ pc[t] = "sendHead" /\ req[t].rpc = "join_room"

\* The same, unless a join and another use of the memberships have overlapped.
JoinSticksUnlessRaced == "members" \notin raced => JoinSticks

\* An event carries a message of the user it names as its sender, and is not
\* sent back to that user, whichever thread has read the message; until a
\* broadcast meets a user whose descriptor main() has not written (`torn').
EventsComeFromOthers ==
    \A c \in Conn : \A k \in Parts(c, "event") :
        LET part == out[c][k]
        IN  part.val[1] # c /\ Contains(asked[part.val[1]], part.req)

\* When a thread is through with a message, every other member of its room has
\* been sent it in full: unless memberships have changed in between.
BroadcastReachesRoom ==
    [][\A t \in Conn :
         /\ pc[t] = "each" /\ pc'[t] = "loop"
         /\ "members" \notin raced /\ gone = {}
         => \A k \in 1..numUsers :
              k # sender[t][1] /\ roomsByUser[k] = req[t].arg =>
                \E p \in Parts(k, "event") : /\ out[k][p].half = "body" /\ out[k][p].by = t
                                             /\ out[k][p].req = req[t]]_vars

\* main() has not been able to start the connection's thread.
NoThread(c) == pc[c] = "unborn" /\ (c < accepted \/ main = "accept")

\* The client that connected last is always served, if its thread could be
\* started: its requests are read until the next client is accepted.
NewestIsServed ==
    \A c \in Conn : accepted = c /\ inbox[c] # <<>>
                      ~> inbox[c] = <<>> \/ accepted # c \/ NoThread(c) \/ fault # "none"

\* "Once connected, type and press Enter to send messages to the room": a
\* request of any client whose thread was started is read sooner or later.
EveryoneIsServed ==
    \A c \in Conn : inbox[c] # <<>> ~> inbox[c] = <<>> \/ NoThread(c) \/ fault # "none"
=============================================================================
