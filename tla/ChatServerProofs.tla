-------------------------- MODULE ChatServerProofs --------------------------
(***************************************************************************)
(* Theorems about ChatServer, for any number of connections, requests and  *)
(* rooms.  IInv says how threads and connections are numbered; TInv adds   *)
(* the types, EInv who has asked for what, DInv what the tables look like  *)
(* while two threads have not been at work on them at once, SInv what a    *)
(* client on its own sends and finds.  On these rest BInv, whom a          *)
(* broadcast has reached so far; GInv, that the general room stays the     *)
(* first; JInv, where joins have put the clients; CInv, which rooms there  *)
(* are when their ids are told; LInv, how many rooms a list counts; and    *)
(* RInv, that a client without events is owed one answer at most.          *)
(***************************************************************************)
EXTENDS ChatServer, SequenceTheorems, FiniteSetTheorems, FunctionTheorems, NaturalsInduction,
        WellFoundedInduction, TLAPS

\* Why threads only drift forward: what they read is the latest connection or
\* the mark of a failed accept, and a thread is started for the latest one.
SlotIsNewest ==
    /\ accepted \in Nat
    /\ slot \in {NoFd, accepted}
    /\ main # "accept" => slot = accepted
    /\ connectedUsers \in Seq(Int)
    /\ Len(connectedUsers) = IF main = "addUser" THEN accepted - 1 ELSE accepted

StartedInOrder ==
    /\ pc \in [Conn -> Step \cup {"unborn"}]
    /\ fd \in [Conn -> Int]
    /\ \A t \in Conn : pc[t] # "unborn" => t <= accepted

IInv == SlotIsNewest /\ StartedInOrder /\ ServesNoOlder

-----------------------------------------------------------------------------
\* What a thread's step may do to the program counters.
Moves(t) == pc' = pc \/ \E step \in Step : pc' = [pc EXCEPT ![t] = step]

LEMMA GotoMoves ==
    /\ \A t : \A step \in Step : Goto(t, step) => Moves(t)
    /\ \A t, what : Break(what) => Moves(t)
  BY DEF Goto, Break, Moves

\* Where a thread may meet what a realloc has freed.
LEMMA FreedAt ==
    ASSUME NEW t, ReadsFreed(t)
    PROVE  /\ pc[t] \in {"put", "lookup", "enter", "collect", "find", "each", "eventHead", "eventBody"}
           /\ UNCHANGED pc /\ fault' = "torn"
  BY DEF ReadsFreed, Reads, Break

\* A step of a thread moves that thread only, and to the slot if anywhere.
LEMMA ThreadFrame ==
    ASSUME NEW t \in Conn, newThreadHandler(t)
    PROVE  /\ UNCHANGED <<main, slot, accepted, connectedUsers>>
           /\ pc[t] # "unborn"
           /\ Moves(t)
           /\ fd' = fd \/ fd' = [fd EXCEPT ![t] = slot]
  <1>1. UNCHANGED <<main, slot, accepted>>
    BY DEF newThreadHandler, accepting
  <1> USE GotoMoves DEF Step
  <1>2. ASSUME ReadSlot(t)
        PROVE  /\ connectedUsers' = connectedUsers /\ pc[t] # "unborn" /\ Moves(t)
               /\ fd' = [fd EXCEPT ![t] = slot]
    BY <1>2 DEF ReadSlot, FdOf, users
  <1>3. ASSUME NEW r, Dispatch(t, r) PROVE Moves(t)
    <2>1. FirstStep(r) \in Step
      BY DEF FirstStep
    <2> QED
      BY <1>3, <2>1 DEF Dispatch
  <1> DEFINE Stays == connectedUsers' = connectedUsers /\ pc[t] # "unborn" /\ fd' = fd
  <1>4. ASSUME RecvHead(t) PROVE Stays /\ Moves(t)
    <2>1. Stays
      BY <1>4 DEF RecvHead, users
    <2>2. Moves(t)
      BY <1>3, <1>4 DEF RecvHead
    <2> QED
      BY <2>1, <2>2
  <1>5. ASSUME RecvBody(t) \/ RecvFails(t) \/ ReadsFreed(t) PROVE Stays /\ Moves(t)
    <2>1. Stays
      BY <1>5, FreedAt DEF RecvBody, RecvFails, ReadsFreed, users, locals
    <2>2. Moves(t)
      BY <1>3, <1>5 DEF RecvBody, RecvFails, ReadsFreed
    <2> QED
      BY <2>1, <2>2
  <1>6. ASSUME HandleAppend(t) PROVE Stays /\ Moves(t)
    <2>1. Stays
      BY <1>6 DEF HandleAppend, LoadCount, StoreCount, Grow, Publish, Put, Number, users, locals
    <2>2. Moves(t)
      BY <1>6 DEF HandleAppend, LoadCount, StoreCount, Grow, Publish, Put, Number
    <2> QED
      BY <2>1, <2>2
  <1>7. ASSUME Lookup(t) \/ Enter(t) \/ CollectRooms(t) \/ CollectUsers(t)
        PROVE  Stays /\ Moves(t)
    <2>1. Stays
      BY <1>7 DEF Lookup, Enter, CollectRooms, CollectUsers, users, locals
    <2>2. Moves(t)
      BY <1>7 DEF Lookup, Enter, CollectRooms, CollectUsers
    <2> QED
      BY <2>1, <2>2
  <1>8. ASSUME SendHead(t) \/ SendBody(t) \/ EventHead(t) \/ EventBody(t)
        PROVE  Stays /\ Moves(t)
    <2>1. Stays
      BY <1>8 DEF SendHead, SendBody, EventHead, EventBody, users, locals
    <2>2. ASSUME NEW c, NEW kind, NEW half, NEW val, NEW next \in Step,
                 SendTo(c, t, kind, half, val, next)
          PROVE  Moves(t)
      BY <2>2 DEF SendTo
    <2>3. Moves(t)
      BY <1>8, <2>2 DEF SendHead, SendBody, EventHead, EventBody
    <2> QED
      BY <2>1, <2>3
  <1>9. ASSUME Find(t) \/ EachUser(t) PROVE Stays /\ Moves(t)
    <2>1. Stays
      BY <1>9 DEF Find, EachUser, users
    <2>2. Moves(t)
      BY <1>9 DEF Find, EachUser
    <2> QED
      BY <2>1, <2>2
  <1> QED
    BY <1>1, <1>2, <1>4, <1>5, <1>6, <1>7, <1>8, <1>9 DEF newThreadHandler

\* A thread keeps the invariant: the slot is newer than the thread.
LEMMA ThreadIInv == ASSUME IInv, NEW t \in Conn, newThreadHandler(t) PROVE IInv'
  <1>1. SlotIsNewest'
    BY ThreadFrame DEF IInv, SlotIsNewest
  <1>2. slot \in Int /\ t \in Int
    BY DEF IInv, SlotIsNewest, NoFd, Conn
  <1>3. StartedInOrder'
    BY <1>2, ThreadFrame DEF IInv, StartedInOrder, Moves, Step
  <1>4. slot # NoFd => slot >= t
    BY ThreadFrame DEF IInv, SlotIsNewest, StartedInOrder, Conn
  <1>5. ServesNoOlder'
    BY <1>2, <1>4, ThreadFrame DEF IInv, StartedInOrder, ServesNoOlder, Moves
  <1> QED
    BY <1>1, <1>3, <1>5 DEF IInv

\* An entry of a sequence is changed, or one that it does not have.
LEMMA StillLong ==
    ASSUME NEW S, NEW s \in Seq(S), NEW k, NEW e \in S
    PROVE  /\ [s EXCEPT ![k] = e] \in Seq(S)
           /\ Len([s EXCEPT ![k] = e]) = Len(s)
  <1>1. Len(s) \in Nat /\ s \in [1..Len(s) -> S]
    BY LenProperties
  <1>2. [s EXCEPT ![k] = e] \in [1..Len(s) -> S]
    BY <1>1
  <1>3. [s EXCEPT ![k] = e] \in Seq(S)
    BY <1>1, <1>2, SeqDef
  <1>4. DOMAIN [s EXCEPT ![k] = e] = 1..Len(s)
    BY <1>2
  <1> QED
    BY <1>1, <1>3, <1>4, LenProperties

LEMMA NewestFd == SlotIsNewest => slot \in Int
  BY DEF SlotIsNewest, NoFd

\* main() keeps the invariant: it puts every connection into the slot before it
\* starts the connection's thread.
LEMMA MainIInv ==
    ASSUME IInv, Accept \/ AcceptFails \/ Register, fd' = fd
    PROVE  IInv'
  <1> USE DEF IInv, SlotIsNewest, StartedInOrder, users
  <1>1. CASE Accept
    <2>1. SlotIsNewest'
      BY <1>1 DEF Accept
    <2>2. StartedInOrder' /\ ServesNoOlder'
      BY <1>1 DEF Accept, ServesNoOlder, Conn
    <2> QED
      BY <2>1, <2>2
  <1>2. CASE AcceptFails
    BY <1>2 DEF AcceptFails, ServesNoOlder
  <1>3. CASE AddUser
    BY <1>3 DEF AddUser, ServesNoOlder, Junk
  <1>4. CASE CopyRooms \/ GrowRooms
    BY <1>4 DEF CopyRooms, GrowRooms, ServesNoOlder
  <1>6. CASE PutUser
    <2>1. connectedUsers' \in Seq(Int) /\ Len(connectedUsers') = Len(connectedUsers)
      BY <1>6, StillLong, NewestFd DEF PutUser
    <2> QED
      BY <1>6, <2>1 DEF PutUser, ServesNoOlder
  <1>5. CASE Start
    <2>1. /\ UNCHANGED <<slot, accepted, connectedUsers>>
          /\ main = "start" /\ main' = "accept"
          /\ UNCHANGED pc \/ pc' = [pc EXCEPT ![accepted] = "loop"]
      BY <1>5 DEF Start
    <2>2. pc' \in [Conn -> Step \cup {"unborn"}]
      BY <2>1 DEF Step
    <2>3. \A t \in Conn : pc'[t] # "unborn" => t <= accepted
      <3>1. CASE UNCHANGED pc
        BY <2>1, <3>1
      <3>2. CASE pc' = [pc EXCEPT ![accepted] = "loop"]
        BY <3>2 DEF Conn
      <3> QED
        BY <2>1, <3>1, <3>2
    <2> QED
      BY <2>1, <2>2, <2>3 DEF ServesNoOlder
  <1> QED
    BY <1>1, <1>2, <1>3, <1>4, <1>5, <1>6 DEF Register

\* However many clients connect, whatever they send and however the threads are
\* scheduled, no thread reads from a connection accepted before the one it was
\* started for (newThreadHandler, lines 340-345, and main, lines 388-399).
THEOREM ServesNoOlderHolds == Spec => []ServesNoOlder
  <1>1. Init => IInv
    <2> SUFFICES ASSUME Init PROVE IInv
      OBVIOUS
    <2> USE DEF Init
    <2>1. SlotIsNewest
      BY DEF SlotIsNewest
    <2>2. StartedInOrder
      BY DEF StartedInOrder, NoFd
    <2>3. ServesNoOlder
      BY DEF ServesNoOlder
    <2> QED
      BY <2>1, <2>2, <2>3 DEF IInv
  <1>2. IInv /\ [Next]_vars => IInv'
    <2> SUFFICES ASSUME IInv, [Next]_vars PROVE IInv'
      OBVIOUS
    <2>1. CASE UNCHANGED vars
      BY <2>1 DEF vars, accepting, users, locals, IInv, SlotIsNewest, StartedInOrder, ServesNoOlder
    <2>2. CASE \E c \in Conn : Ask(c) \/ Leave(c)
      BY <2>2 DEF Ask, Leave, accepting, users, locals, IInv, SlotIsNewest, StartedInOrder,
                  ServesNoOlder
    <2>3. CASE MainStep(Accept) \/ MainStep(AcceptFails) \/ MainStep(Register)
      BY <2>3, MainIInv DEF MainStep, locals
    <2>4. CASE \E t \in Conn : newThreadHandler(t)
      BY <2>4, ThreadIInv
    <2> QED
      BY <2>1, <2>2, <2>3, <2>4 DEF Next
  <1>3. IInv => ServesNoOlder
    BY DEF IInv
  <1> QED
    BY <1>1, <1>2, <1>3, PTL DEF Spec

-----------------------------------------------------------------------------
(* The types.                                                                *)

Tables == {"usernames", "rooms"}
Entries == Nat \cup {Junk}
Calls == {"login", "hello", "join_room", "message", "list_rooms", "list_users", "create_room"}
Reqs == [rpc : Calls, arg : Nat]
InParts == [half : {"head", "body"}, req : Reqs]
OutParts == [kind : {"reply", "event"}, half : {"head", "body"}, by : Conn, req : Reqs,
             val : Nat \cup (Nat \X Entries)]
Faults == {"none", "segv", "misframed", "uninitialised", "unregistered", "nameless",
           "badlist", "torn", "sigpipe"}

\* main()'s variables: users are registered in the order of their connections.
TypedMain ==
    /\ main \in {"accept", "addUser", "growUsers", "copyRooms", "growRooms", "start"}
    /\ slot \in {NoFd} \cup Conn /\ accepted \in 0..MaxConnections
    /\ main # "accept" => accepted # 0
    /\ connectedUsers \in Seq(Conn \cup {Junk})
    /\ \A k \in 1..Len(connectedUsers) :
         connectedUsers[k] = IF main = "growUsers" /\ k = accepted THEN Junk ELSE k

TypedTables ==
    /\ roomsByUser \in Seq(Entries)
    /\ num \in [Tables -> Nat] /\ num["rooms"] # 0
    /\ table \in [Tables -> Seq(Entries)]
    /\ old \in [Conn \cup {0} -> Seq(Entries)]

TypedThreads ==
    /\ fd \in [Conn -> {NoFd} \cup Conn]
    /\ req \in [Conn -> Reqs]
    /\ reg \in [Conn -> Nat]
    /\ sender \in [Conn -> Nat \X Entries]

TypedNetwork ==
    /\ inbox \in [Conn -> Seq(InParts)]
    /\ out \in [Conn -> Seq(OutParts)]
    /\ asked \in [Conn -> Seq(Reqs)]
    /\ gone \subseteq Conn

TypedHistory ==
    /\ raced \subseteq {"usernames", "rooms", "members"}
    /\ fault \in Faults

\* The inductive invariant for the types.
TInv == IInv /\ TypedMain /\ TypedTables /\ TypedThreads /\ TypedNetwork /\ TypedHistory

\* The greatest of some numbers up to n.
LEMMA GreatestOf ==
    ASSUME NEW n \in Nat, NEW S, S \subseteq 1..n, S # {}
    PROVE  Max(S) \in S /\ \A x \in S : x <= Max(S)
  <1> DEFINE R == OpToRel(<, Nat)
             T == {n - x : x \in S}
  <1>1. IsWellFoundedOn(R, Nat)
    BY NatLessThanWellFounded
  <1>2. \A x, y \in Nat : <<y, x>> \in R <=> y < x
    BY DEF OpToRel
  <1>3. T \subseteq Nat /\ T # {}
    <2>1. \A x \in S : x \in 1..n
      OBVIOUS
    <2>2. \A x \in S : n - x \in Nat
      BY <2>1
    <2> QED
      BY <2>2
  <1> HIDE DEF R
  <1>4. PICK x \in T : \A y \in T : ~ (<<y, x>> \in R)
    BY <1>1, <1>3, WFMin
  <1>5. PICK z \in S : x = n - z
    BY <1>4
  <1>6. ASSUME NEW y \in S PROVE z >= y
    <2>1. n - y \in T /\ n - y \in Nat /\ n - z \in Nat
      BY <1>3
    <2>2. ~ (<<n - y, n - z>> \in R)
      BY <1>4, <1>5, <2>1
    <2>3. ~ (n - y < n - z)
      BY <1>2, <2>1, <2>2
    <2> QED
      BY <2>3
  <1>7. \A y \in S : z >= y
    BY <1>6
  <1>8. Max(S) \in S /\ \A y \in S : Max(S) >= y
    BY <1>7, Zenon DEF Max
  <1> QED
    BY <1>8

LEMMA UsersCounted == TypedMain => numUsers \in Nat
  BY LenProperties DEF TypedMain, numUsers

\* The descriptors in the table; the newest may not have been written yet.
LEMMA DescriptorOf ==
    ASSUME TypedMain, NEW k \in 1..numUsers
    PROVE  /\ connectedUsers[k] \in {k, Junk}
           /\ main # "growUsers" \/ k # accepted => connectedUsers[k] = k
  BY DEF TypedMain, numUsers

LEMMA JunkIsNoFd == Junk \notin Conn /\ Junk # NoFd
  BY DEF Conn, Junk, NoFd

\* A user is registered once, under the number of its connection.
LEMMA IndexIsNumber ==
    ASSUME TypedMain, NEW c \in {NoFd} \cup Conn
    PROVE  /\ numUsers \in Nat
           /\ IndexOf(c) # {} => /\ c \in 1..numUsers /\ IndexOf(c) = {c}
                                /\ Max(IndexOf(c)) = c /\ Min(IndexOf(c)) = c
           /\ main # "growUsers" /\ c \in 1..numUsers => IndexOf(c) # {}
  <1>1. numUsers \in Nat
    BY UsersCounted
  <1>2. c # Junk
    BY JunkIsNoFd
  <1>3. ASSUME IndexOf(c) # {}
        PROVE  /\ c \in 1..numUsers /\ IndexOf(c) = {c}
               /\ Max(IndexOf(c)) = c /\ Min(IndexOf(c)) = c
    <2>1. IndexOf(c) \subseteq {c}
      BY <1>2 DEF TypedMain, IndexOf, numUsers
    <2>2. IndexOf(c) = {c} /\ c \in 1..numUsers
      BY <1>3, <2>1 DEF IndexOf
    <2>3. c >= c /\ c =< c
      BY <1>1, <2>2
    <2>4. Max({c}) = c /\ Min({c}) = c
      BY <2>3, Zenon DEF Max, Min
    <2> QED
      BY <2>2, <2>4
  <1>4. ASSUME main # "growUsers", c \in 1..numUsers PROVE IndexOf(c) # {}
    BY <1>4 DEF IndexOf, TypedMain, numUsers
  <1> QED
    BY <1>1, <1>3, <1>4

\* What the tables say.
LEMMA EntryTypes ==
    ASSUME TypedTables, NEW k \in Nat \ {0}
    PROVE  RoomOf(k) \in Entries /\ NameOf(k) \in Entries
  <1>1. roomsByUser \in Seq(Entries) /\ table["usernames"] \in Seq(Entries)
    BY DEF TypedTables, Tables
  <1>2. Len(roomsByUser) \in Nat /\ Len(table["usernames"]) \in Nat
    BY <1>1, LenProperties
  <1>3. k <= Len(roomsByUser) => roomsByUser[k] \in Entries
    BY <1>1, <1>2, ElementOfSeq
  <1>4. k <= Len(table["usernames"]) => table["usernames"][k] \in Entries
    BY <1>1, <1>2, ElementOfSeq
  <1> QED
    BY <1>3, <1>4 DEF RoomOf, NameOf, Entries

\* A name parsed is a name.
LEMMA NameTypes ==
    ASSUME NEW r, r.arg \in Nat
    PROVE  Names(r) \subseteq Nat /\ Names(r) # {} /\ Parsed(r.arg) \subseteq Nat
  <1>1. Parsed(r.arg) \subseteq Nat /\ r.arg \in Parsed(r.arg)
    <2>1. r.arg + 0 = r.arg /\ 0 \in Tails \cup {0}
      OBVIOUS
    <2> QED
      BY <2>1 DEF Parsed
  <1> QED
    BY <1>1 DEF Names

LEMMA BothTables ==
    ASSUME NEW S, NEW a \in S, NEW b \in S
    PROVE  [usernames |-> a, rooms |-> b] \in [Tables -> S]
  BY DEF Tables

LEMMA InitTInv == Init => TInv
  <1> SUFFICES ASSUME Init PROVE TInv
    OBVIOUS
  <1> USE ServerAssumption DEF Init
  <1>1. IInv
    <2>1. SlotIsNewest
      BY DEF SlotIsNewest
    <2>2. StartedInOrder
      BY DEF StartedInOrder, NoFd
    <2>3. ServesNoOlder
      BY DEF ServesNoOlder
    <2> QED
      BY <2>1, <2>2, <2>3 DEF IInv
  <1>2. TypedMain
    BY DEF TypedMain
  <1>3. TypedTables
    <2>1. roomsByUser \in Seq(Entries) /\ old \in [Conn \cup {0} -> Seq(Entries)]
      OBVIOUS
    <2>2. num \in [Tables -> Nat] /\ num["rooms"] # 0
      BY DEF Tables
    <2>3. <<>> \in Seq(Entries) /\ <<General>> \in Seq(Entries)
      BY DEF Entries, General
    <2>4. table \in [Tables -> Seq(Entries)]
      BY <2>3, BothTables
    <2> QED
      BY <2>1, <2>2, <2>4 DEF TypedTables
  <1>4. TypedThreads
    BY DEF TypedThreads, Reqs, Calls, Entries, Conn
  <1>5. TypedNetwork
    BY DEF TypedNetwork
  <1>6. TypedHistory
    BY DEF TypedHistory, Faults
  <1> QED
    BY <1>1, <1>2, <1>3, <1>4, <1>5, <1>6 DEF TInv

-----------------------------------------------------------------------------
(* Steps of main() and of the clients.                                       *)

LEMMA MainTInv ==
    ASSUME TInv, MainStep(Accept) \/ MainStep(AcceptFails) \/ MainStep(Register)
    PROVE  TInv'
  <1>1. IInv /\ TypedMain /\ TypedTables /\ TypedThreads /\ TypedNetwork /\ TypedHistory
    BY DEF TInv
  <1>2. Accept \/ AcceptFails \/ Register
    BY DEF MainStep
  <1>3. UNCHANGED <<num, table, fd, req, reg, sender, asked, gone, inbox, out, fault>>
    BY DEF MainStep, appended, locals, clients
  <1>4. IInv'
    BY <1>1, <1>2, <1>3, MainIInv
  <1>5. TypedThreads' /\ TypedNetwork'
    BY <1>1, <1>3 DEF TypedThreads, TypedNetwork
  <1>6. TypedMain'
    <2> USE <1>1 DEF TypedMain, users
    <2>1. CASE Accept
      <3>1. accepted + 1 \in Conn /\ accepted + 1 \in 0..MaxConnections /\ accepted + 1 # 0
        BY <2>1, ServerAssumption DEF Accept, Conn
      <3> QED
        BY <2>1, <3>1 DEF Accept
    <2>2. CASE AcceptFails
      BY <2>2 DEF AcceptFails
    <2>3. CASE AddUser
      <3>1. /\ main = "addUser" /\ main' = "growUsers" /\ UNCHANGED <<slot, accepted>>
            /\ connectedUsers' = Append(connectedUsers, Junk)
        BY <2>3 DEF AddUser
      <3>2. accepted \in Nat \ {0} /\ Len(connectedUsers) = accepted - 1
        BY <3>1 DEF IInv, SlotIsNewest
      <3>3. /\ connectedUsers' \in Seq(Conn \cup {Junk})
            /\ Len(connectedUsers') = Len(connectedUsers) + 1
            /\ \A k \in 1..Len(connectedUsers) : connectedUsers'[k] = connectedUsers[k]
            /\ connectedUsers'[Len(connectedUsers) + 1] = Junk
        BY <3>1, AppendProperties
      <3>4. \A k \in 1..Len(connectedUsers') : k # accepted => connectedUsers'[k] = k
        BY <3>1, <3>2, <3>3
      <3>5. connectedUsers'[accepted] = Junk
        BY <3>2, <3>3
      <3> QED
        BY <3>1, <3>2, <3>3, <3>4, <3>5
    <2>4. CASE CopyRooms \/ GrowRooms \/ Start
      BY <2>4 DEF CopyRooms, GrowRooms, Start
    <2>5. CASE PutUser
      <3>1. /\ main = "growUsers" /\ main' = "copyRooms" /\ UNCHANGED <<slot, accepted>>
            /\ connectedUsers' = [connectedUsers EXCEPT ![accepted] = slot]
        BY <2>5 DEF PutUser, IInv, SlotIsNewest
      <3>2. /\ slot = accepted /\ accepted \in Conn /\ accepted # 0
            /\ Len(connectedUsers) = accepted
        BY <3>1 DEF IInv, SlotIsNewest, Conn
      <3>3. /\ connectedUsers' \in Seq(Conn \cup {Junk})
            /\ Len(connectedUsers') = Len(connectedUsers)
        BY <3>1, <3>2, StillLong
      <3>4. connectedUsers \in [1..Len(connectedUsers) -> Conn \cup {Junk}]
        BY LenProperties
      <3>5. \A k \in 1..Len(connectedUsers') : connectedUsers'[k] = k
        BY <3>1, <3>2, <3>3, <3>4
      <3> QED
        BY <3>1, <3>2, <3>3, <3>5
    <2> QED
      BY <1>2, <2>1, <2>2, <2>3, <2>4, <2>5 DEF Register
  <1>7. TypedTables'
    <2>1. old[0] \in Seq(Entries) /\ roomsByUser \in Seq(Entries)
      BY <1>1 DEF TypedTables
    <2>2. CASE Accept \/ AcceptFails \/ AddUser \/ PutUser
      <3>1. UNCHANGED <<roomsByUser, old>>
        BY <2>2 DEF Accept, AcceptFails, AddUser, PutUser, users
      <3> QED
        BY <1>1, <1>3, <3>1 DEF TypedTables
    <2>3. CASE CopyRooms
      <3>1. UNCHANGED roomsByUser /\ old' = [old EXCEPT ![0] = roomsByUser]
        BY <2>3 DEF CopyRooms, users
      <3> QED
        BY <1>1, <1>3, <3>1 DEF TypedTables
    <2>4. CASE GrowRooms
      <3>1. PICK block \in {old[0], roomsByUser} : roomsByUser' = Append(block, Junk)
        BY <2>4 DEF GrowRooms
      <3>2. Junk \in Entries /\ block \in Seq(Entries)
        BY <2>1, <3>1 DEF Entries
      <3>3. roomsByUser' \in Seq(Entries)
        BY <3>1, <3>2, AppendProperties
      <3>4. <<>> \in Seq(Entries)
        OBVIOUS
      <3>5. old' \in [Conn \cup {0} -> Seq(Entries)]
        BY <1>1, <2>4, <3>4 DEF GrowRooms, TypedTables
      <3> QED
        BY <1>1, <1>3, <3>3, <3>5 DEF TypedTables
    <2>5. CASE Start
      <3>1. /\ roomsByUser' = [roomsByUser EXCEPT ![Len(connectedUsers)] = 0]
            /\ UNCHANGED old
        BY <2>5 DEF Start
      <3>2. 0 \in Entries
        BY DEF Entries
      <3>3. roomsByUser' \in Seq(Entries)
        BY <2>1, <3>1, <3>2, StillLong
      <3> QED
        BY <1>1, <1>3, <3>1, <3>3 DEF TypedTables
    <2> QED
      BY <1>2, <2>2, <2>3, <2>4, <2>5 DEF Register
  <1>8. TypedHistory'
    <2>1. raced' \in {raced, raced \cup (InUseBy(Conn) \cap {"members"})}
      BY <1>2 DEF Accept, AcceptFails, Register, AddUser, PutUser, CopyRooms, GrowRooms, Start
    <2> QED
      BY <1>1, <1>3, <2>1 DEF TypedHistory
  <1> QED
    BY <1>4, <1>5, <1>6, <1>7, <1>8 DEF TInv

\* What a client sends.
LEMMA RequestTypes ==
    ASSUME TypedNetwork, NEW c \in Conn, NEW r \in Requests(c)
    PROVE  r \in Reqs
  <1>1. \A n \in RoomNames : n \in Nat
    BY ServerAssumption
  <1>2. General \in Nat /\ 0..Cardinality(RoomNames) \subseteq Nat /\ c \in Nat
    BY DEF General, Conn
  <1> QED
    BY <1>1, <1>2 DEF Requests, Reqs, Calls

LEMMA ClientTInv ==
    ASSUME TInv, NEW c \in Conn, Ask(c) \/ Leave(c)
    PROVE  TInv'
  <1>1. IInv /\ TypedMain /\ TypedTables /\ TypedThreads /\ TypedNetwork /\ TypedHistory
    BY DEF TInv
  <1>2. /\ UNCHANGED <<main, slot, accepted, connectedUsers, roomsByUser, num, table>>
        /\ UNCHANGED <<fd, req, reg, sender, pc, old, out, raced, fault>>
    BY DEF Ask, Leave, accepting, users, appended, locals
  <1>3. IInv'
    BY <1>1, <1>2 DEF IInv, SlotIsNewest, StartedInOrder, ServesNoOlder
  <1>4. TypedMain' /\ TypedTables' /\ TypedThreads' /\ TypedHistory'
    BY <1>1, <1>2 DEF TypedMain, TypedTables, TypedThreads, TypedHistory
  <1>5. CASE Leave(c)
    <2>1. UNCHANGED <<asked, inbox>> /\ gone' = gone \cup {c}
      BY <1>5 DEF Leave
    <2>2. TypedNetwork'
      BY <1>1, <1>2, <2>1 DEF TypedNetwork
    <2> QED
      BY <1>3, <1>4, <2>2 DEF TInv
  <1>6. CASE Ask(c)
    <2>1. PICK r \in Requests(c) :
            /\ asked' = [asked EXCEPT ![c] = Append(@, r)]
            /\ inbox' = [inbox EXCEPT ![c] = (@ \o <<[half |-> "head", req |-> r]>>)
                  \o IF HasBody(r) THEN <<[half |-> "body", req |-> r]>> ELSE <<>>]
            /\ UNCHANGED gone
      BY <1>6 DEF Ask
    <2>2. r \in Reqs
      BY <1>1, RequestTypes
    <2>3. asked[c] \in Seq(Reqs) /\ inbox[c] \in Seq(InParts)
      BY <1>1 DEF TypedNetwork
    <2>4. Append(asked[c], r) \in Seq(Reqs)
      BY <2>2, <2>3, AppendProperties
    <2>5. inbox'[c] \in Seq(InParts) /\ inbox' = [inbox EXCEPT ![c] = inbox'[c]]
      <3>1. [half |-> "head", req |-> r] \in InParts /\ [half |-> "body", req |-> r] \in InParts
        BY <2>2 DEF InParts
      <3>2. PICK head, rest : /\ head = <<[half |-> "head", req |-> r]>>
                              /\ rest = IF HasBody(r) THEN <<[half |-> "body", req |-> r]>> ELSE <<>>
        OBVIOUS
      <3>3. head \in Seq(InParts) /\ rest \in Seq(InParts)
        BY <3>1, <3>2
      <3>4. inbox' = [inbox EXCEPT ![c] = (inbox[c] \o head) \o rest]
        BY <2>1, <3>2
      <3>5. inbox[c] \o head \in Seq(InParts)
        BY <2>3, <3>3, ConcatProperties
      <3>6. (inbox[c] \o head) \o rest \in Seq(InParts)
        BY <3>3, <3>5, ConcatProperties
      <3>7. inbox'[c] = (inbox[c] \o head) \o rest
        BY <1>1, <3>4 DEF TypedNetwork
      <3> QED
        BY <3>4, <3>6, <3>7
    <2>6. TypedNetwork'
      BY <1>1, <1>2, <2>1, <2>4, <2>5 DEF TypedNetwork
    <2> QED
      BY <1>3, <1>4, <2>6 DEF TInv
  <1> QED
    BY <1>5, <1>6

-----------------------------------------------------------------------------
(* Steps of the threads.                                                     *)

LEMMA GotoHistory ==
    ASSUME TypedHistory, NEW t, UNCHANGED raced,
           \/ \E step : Goto(t, step)
           \/ \E what \in Faults : Break(what)
    PROVE  TypedHistory'
  BY DEF TypedHistory, Goto, Break

LEMMA DispatchHistory ==
    ASSUME TypedHistory, NEW t, NEW r, Dispatch(t, r)
    PROVE  TypedHistory'
  <1>1. fault' \in {fault, "segv"}
    BY DEF Dispatch, Goto, Break
  <1>2. PICK X : raced' = raced \cup (Touches(r) \cap X)
    BY DEF Dispatch
  <1>3. Touches(r) \subseteq {"usernames", "rooms", "members"}
    BY DEF Touches
  <1> QED
    BY <1>1, <1>2, <1>3 DEF TypedHistory, Faults

LEMMA SendTypes ==
    ASSUME TInv, NEW t \in Conn, NEW c, NEW kind \in {"reply", "event"},
           NEW half \in {"head", "body"}, NEW val \in Nat \cup (Nat \X Entries), NEW next,
           SendTo(c, t, kind, half, val, next), UNCHANGED raced
    PROVE  out' \in [Conn -> Seq(OutParts)] /\ TypedHistory'
  <1>1. TypedHistory /\ out \in [Conn -> Seq(OutParts)] /\ req[t] \in Reqs
    BY DEF TInv, TypedNetwork, TypedThreads
  <1>2. Goto(t, next) \/ Break("sigpipe")
    BY DEF SendTo
  <1>3. TypedHistory'
    BY <1>1, <1>2, GotoHistory DEF Faults
  <1>4. PICK part : part = [kind |-> kind, half |-> half, by |-> t, req |-> req[t], val |-> val]
    OBVIOUS
  <1>5. part \in OutParts
    BY <1>1, <1>4 DEF OutParts
  <1>6. out' = out \/ (c \in Conn /\ out' = [out EXCEPT ![c] = Append(@, part)])
    BY <1>4 DEF SendTo
  <1>7. ASSUME c \in Conn PROVE Append(out[c], part) \in Seq(OutParts)
    BY <1>1, <1>5, <1>7, AppendProperties
  <1>8. out' \in [Conn -> Seq(OutParts)]
    BY <1>1, <1>6, <1>7
  <1> QED
    BY <1>3, <1>8

\* What is left to show for a step of a thread.
TypedByThread ==
    TypedTables /\ TypedThreads /\ inbox \in [Conn -> Seq(InParts)]
    /\ out \in [Conn -> Seq(OutParts)] /\ TypedHistory

LEMMA ReadSlotTypes == ASSUME TInv, NEW t \in Conn, ReadSlot(t) PROVE TypedByThread'
  <1>1. TypedMain /\ TypedTables /\ TypedThreads /\ TypedNetwork /\ TypedHistory
    BY DEF TInv
  <1>2. /\ UNCHANGED <<roomsByUser, num, table, old, req, inbox, out, raced>>
        /\ fd' = [fd EXCEPT ![t] = slot]
        /\ reg' = [reg EXCEPT ![t] = 0]
        /\ sender' = [sender EXCEPT ![t] = <<0, Junk>>]
        /\ Goto(t, "head")
    BY DEF ReadSlot, FdOf, Set, users, appended
  <1>3. TypedTables' /\ inbox' \in [Conn -> Seq(InParts)] /\ out' \in [Conn -> Seq(OutParts)]
    BY <1>1, <1>2 DEF TypedTables, TypedNetwork
  <1>4. TypedThreads'
    <2>1. <<0, Junk>> \in Nat \X Entries
      BY DEF Entries
    <2> QED
      BY <1>1, <1>2, <2>1 DEF TypedThreads, TypedMain
  <1>5. TypedHistory'
    BY <1>1, <1>2, GotoHistory
  <1> QED
    BY <1>3, <1>4, <1>5 DEF TypedByThread

\* A part is taken from an inbox.
LEMMA Taken ==
    ASSUME TypedNetwork, NEW c \in Conn, inbox[c] # <<>>,
           inbox' = [inbox EXCEPT ![c] = Tail(@)]
    PROVE  /\ inbox' \in [Conn -> Seq(InParts)]
           /\ Head(inbox[c]) \in InParts
           /\ Head(inbox[c]) = inbox[c][1] /\ 1 \in DOMAIN inbox[c]
           /\ DOMAIN inbox'[c] = 1..Len(inbox[c]) - 1 /\ Len(inbox[c]) \in Nat \ {0}
           /\ \A k \in 1..Len(inbox[c]) - 1 : inbox'[c][k] = inbox[c][k + 1]
           /\ \A d \in Conn : d # c => inbox'[d] = inbox[d]
  <1>1. inbox[c] \in Seq(InParts)
    BY DEF TypedNetwork
  <1>2. Len(inbox[c]) \in Nat \ {0} /\ DOMAIN inbox[c] = 1..Len(inbox[c])
    BY <1>1, EmptySeq, LenProperties
  <1>3. /\ Head(inbox[c]) = inbox[c][1] /\ Head(inbox[c]) \in InParts
        /\ Tail(inbox[c]) \in Seq(InParts) /\ Len(Tail(inbox[c])) = Len(inbox[c]) - 1
        /\ \A k \in 1..Len(inbox[c]) - 1 : Tail(inbox[c])[k] = inbox[c][k + 1]
    BY <1>1, <1>2, HeadTailProperties
  <1>4. DOMAIN Tail(inbox[c]) = 1..Len(inbox[c]) - 1
    BY <1>3, LenProperties
  <1>5. inbox'[c] = Tail(inbox[c]) /\ inbox' \in [Conn -> Seq(InParts)]
    BY <1>3 DEF TypedNetwork
  <1>6. \A d \in Conn : d # c => inbox'[d] = inbox[d]
    BY DEF TypedNetwork
  <1> QED
    BY <1>2, <1>3, <1>4, <1>5, <1>6

LEMMA RecvHeadTypes == ASSUME TInv, NEW t \in Conn, RecvHead(t) PROVE TypedByThread'
  <1>1. TypedTables /\ TypedThreads /\ TypedNetwork /\ TypedHistory
    BY DEF TInv
  <1>2. PICK part : part = Head(inbox[fd[t]])
    OBVIOUS
  <1>3. /\ fd[t] # NoFd /\ inbox[fd[t]] # <<>>
        /\ inbox' = [inbox EXCEPT ![fd[t]] = Tail(@)]
        /\ req' = [req EXCEPT ![t] = part.req]
        /\ \/ Break("misframed") /\ UNCHANGED raced
           \/ Goto(t, "body") /\ UNCHANGED raced
           \/ Dispatch(t, part.req)
        /\ UNCHANGED <<roomsByUser, num, table, fd, reg, sender, old, out>>
    BY <1>2 DEF RecvHead, users, appended
  <1>4. fd[t] \in Conn
    BY <1>1, <1>3 DEF TypedThreads
  <1>5. inbox' \in [Conn -> Seq(InParts)] /\ part \in InParts
    BY <1>1, <1>2, <1>3, <1>4, Taken
  <1>6. part.req \in Reqs
    BY <1>5 DEF InParts
  <1>7. TypedTables' /\ TypedThreads' /\ out' \in [Conn -> Seq(OutParts)]
    BY <1>1, <1>3, <1>6 DEF TypedTables, TypedThreads, TypedNetwork
  <1>8. TypedHistory'
    BY <1>1, <1>3, GotoHistory, DispatchHistory DEF Faults
  <1> QED
    BY <1>5, <1>7, <1>8 DEF TypedByThread

LEMMA RecvBodyTypes ==
    ASSUME TInv, NEW t \in Conn, fd[t] # NoFd, RecvBody(t) PROVE TypedByThread'
  <1>1. TypedTables /\ TypedThreads /\ TypedNetwork /\ TypedHistory
    BY DEF TInv
  <1>2. /\ inbox[fd[t]] # <<>> /\ inbox' = [inbox EXCEPT ![fd[t]] = Tail(@)]
        /\ \/ Break("misframed") /\ UNCHANGED raced
           \/ Dispatch(t, req[t])
        /\ UNCHANGED <<roomsByUser, num, table, fd, req, reg, sender, old, out>>
    BY DEF RecvBody, users, appended, locals
  <1>3. fd[t] \in Conn
    BY <1>1 DEF TypedThreads
  <1>4. inbox' \in [Conn -> Seq(InParts)]
    BY <1>1, <1>2, <1>3, Taken
  <1>5. TypedTables' /\ TypedThreads' /\ out' \in [Conn -> Seq(OutParts)]
    BY <1>1, <1>2 DEF TypedTables, TypedThreads, TypedNetwork
  <1>6. TypedHistory'
    BY <1>1, <1>2, GotoHistory, DispatchHistory DEF Faults
  <1> QED
    BY <1>4, <1>5, <1>6 DEF TypedByThread

LEMMA BreakTypes ==
    ASSUME TInv, NEW t \in Conn, RecvFails(t) \/ ReadsFreed(t)
    PROVE  TypedByThread'
  <1>1. TypedTables /\ TypedThreads /\ TypedNetwork /\ TypedHistory
    BY DEF TInv
  <1>2. (Break("uninitialised") \/ Break("torn")) /\ UNCHANGED raced
        /\ UNCHANGED <<roomsByUser, num, table, fd, req, reg, sender, old, inbox, out>>
    BY DEF RecvFails, ReadsFreed, users, appended, locals
  <1>3. TypedHistory'
    BY <1>1, <1>2, GotoHistory DEF Faults
  <1> QED
    BY <1>1, <1>2, <1>3 DEF TypedByThread, TypedTables, TypedThreads, TypedNetwork

\* handleLogin and handleCreateRoom.
LEMMA AppendTypes == ASSUME TInv, NEW t \in Conn, HandleAppend(t) PROVE TypedByThread'
  <1>1. TypedTables /\ TypedThreads /\ TypedNetwork /\ TypedHistory
    BY DEF TInv
  <1>2. Tab(t) \in Tables
    BY DEF Tab, Tables
  <1>3. num[Tab(t)] \in Nat /\ num["rooms"] \in Nat \ {0} /\ num["usernames"] \in Nat
    BY <1>1, <1>2 DEF TypedTables, Tables
  <1>4. UNCHANGED <<roomsByUser, fd, req, sender, inbox, out, raced>>
    BY DEF HandleAppend, LoadCount, StoreCount, Grow, Publish, Put, Number, users, locals
  <1>5. inbox' \in [Conn -> Seq(InParts)] /\ out' \in [Conn -> Seq(OutParts)]
    BY <1>1, <1>4 DEF TypedNetwork
  <1>6. TypedHistory'
    <2>1. (\E step : Goto(t, step)) \/ \E what \in Faults : Break(what)
      BY DEF HandleAppend, LoadCount, StoreCount, Grow, Publish, Put, Number, Faults
    <2> QED
      BY <1>1, <1>4, <2>1, GotoHistory
  <1>7. ASSUME NEW n \in Nat, reg' = [reg EXCEPT ![t] = n] PROVE TypedThreads'
    BY <1>1, <1>4, <1>7 DEF TypedThreads
  <1>8. ASSUME UNCHANGED reg PROVE TypedThreads'
    BY <1>1, <1>4, <1>8 DEF TypedThreads
  <1>9. CASE LoadCount(t) \/ Number(t)
    <2>1. UNCHANGED <<num, table, old>>
      BY <1>9 DEF LoadCount, Number, appended
    <2>2. TypedTables'
      BY <1>1, <1>4, <2>1 DEF TypedTables
    <2>3. \E n \in Nat : reg' = [reg EXCEPT ![t] = n]
      BY <1>3, <1>9 DEF LoadCount, Number, Answer, Set
    <2> QED
      BY <1>5, <1>6, <1>7, <2>2, <2>3 DEF TypedByThread
  <1>10. CASE StoreCount(t)
    <2>1. /\ num' = [num EXCEPT ![Tab(t)] = reg[t] + 1] /\ UNCHANGED <<table, reg, old>>
      BY <1>10 DEF StoreCount, locals
    <2>2. reg[t] + 1 \in Nat \ {0}
      BY <1>1 DEF TypedThreads
    <2>3. num' \in [Tables -> Nat] /\ num'["rooms"] # 0
      BY <1>1, <1>2, <2>1, <2>2 DEF TypedTables, Tables
    <2>4. TypedTables'
      BY <1>1, <1>4, <2>1, <2>3 DEF TypedTables
    <2> QED
      BY <1>5, <1>6, <1>8, <2>1, <2>4 DEF TypedByThread
  <1>11. CASE Grow(t)
    <2>1. /\ old' = [old EXCEPT ![t] = table[Tab(t)]] /\ UNCHANGED <<num, table>>
          /\ reg' = [reg EXCEPT ![t] = num[Tab(t)]]
      BY <1>11 DEF Grow, NewSize, Set, appended
    <2>2. table[Tab(t)] \in Seq(Entries)
      BY <1>1, <1>2 DEF TypedTables
    <2>3. TypedTables'
      BY <1>1, <1>4, <2>1, <2>2 DEF TypedTables
    <2> QED
      BY <1>3, <1>5, <1>6, <1>7, <2>1, <2>3 DEF TypedByThread
  <1>12. CASE Publish(t)
    <2>1. /\ old' = [old EXCEPT ![t] = <<>>] /\ UNCHANGED <<num, reg>>
          /\ \/ UNCHANGED table
             \/ \E block \in {old[t], table[Tab(t)]} :
                  table' = [table EXCEPT ![Tab(t)] =
                     [k \in 1..reg[t] |-> IF k <= Len(block) THEN block[k] ELSE Junk]]
      BY <1>12 DEF Publish, locals
    <2>2. <<>> \in Seq(Entries)
      OBVIOUS
    <2>3. old' \in [Conn \cup {0} -> Seq(Entries)]
      BY <1>1, <2>1, <2>2 DEF TypedTables
    <2>4. ASSUME NEW block \in {old[t], table[Tab(t)]}
          PROVE  [k \in 1..reg[t] |-> IF k <= Len(block) THEN block[k] ELSE Junk] \in Seq(Entries)
      <3>1. block \in Seq(Entries) /\ reg[t] \in Nat
        BY <1>1, <1>2 DEF TypedTables, TypedThreads
      <3>2. Len(block) \in Nat
        BY <3>1, LenProperties
      <3>3. ASSUME NEW k \in 1..reg[t] PROVE (IF k <= Len(block) THEN block[k] ELSE Junk) \in Entries
        <4>1. k <= Len(block) => k \in 1..Len(block)
          BY <3>1, <3>2
        <4>2. k <= Len(block) => block[k] \in Entries
          BY <3>1, <4>1, ElementOfSeq
        <4> QED
          BY <4>2 DEF Entries
      <3>4. [k \in 1..reg[t] |-> IF k <= Len(block) THEN block[k] ELSE Junk] \in [1..reg[t] -> Entries]
        BY <3>3
      <3> QED
        BY <3>1, <3>4, SeqDef
    <2>5. table' \in [Tables -> Seq(Entries)]
      BY <1>1, <1>2, <2>1, <2>4 DEF TypedTables
    <2>6. TypedTables'
      BY <1>1, <1>4, <2>1, <2>3, <2>5 DEF TypedTables
    <2> QED
      BY <1>5, <1>6, <1>8, <2>1, <2>6 DEF TypedByThread
  <1>13. CASE Put(t)
    <2>0. req[t].arg \in Nat
      BY <1>1 DEF TypedThreads, Reqs
    <2>1. PICK name \in Nat :
          /\ UNCHANGED <<num, reg, old>>
          /\ \/ UNCHANGED table
             \/ table' = [table EXCEPT ![Tab(t)] = [table[Tab(t)] EXCEPT ![num[Tab(t)]] = name]]
      BY <1>13, <2>0, NameTypes DEF Put, locals
    <2>2. table[Tab(t)] \in Seq(Entries) /\ name \in Entries
      BY <1>1, <1>2 DEF TypedTables, TypedThreads, Reqs, Entries
    <2>3. [table[Tab(t)] EXCEPT ![num[Tab(t)]] = name] \in Seq(Entries)
      BY <2>2, StillLong
    <2>4. TypedTables'
      BY <1>1, <1>2, <1>4, <2>1, <2>3 DEF TypedTables
    <2> QED
      BY <1>5, <1>6, <1>8, <2>1, <2>4 DEF TypedByThread
  <1> QED
    BY <1>9, <1>10, <1>11, <1>12, <1>13 DEF HandleAppend

\* The handlers that look things up.
LEMMA LookupTypes ==
    ASSUME TInv, NEW t \in Conn, Lookup(t) \/ Enter(t) \/ CollectRooms(t) \/ CollectUsers(t)
    PROVE  TypedByThread'
  <1>1. TypedMain /\ TypedTables /\ TypedThreads /\ TypedNetwork /\ TypedHistory
    BY DEF TInv
  <1>2. UNCHANGED <<num, table, old, fd, req, sender, inbox, out, raced>>
    BY DEF Lookup, Enter, CollectRooms, CollectUsers, appended, locals
  <1>3. inbox' \in [Conn -> Seq(InParts)] /\ out' \in [Conn -> Seq(OutParts)]
    BY <1>1, <1>2 DEF TypedNetwork
  <1>4. TypedHistory'
    <2>1. (\E step : Goto(t, step)) \/ \E what \in Faults : Break(what)
      <3>1. CASE Lookup(t) \/ Enter(t) \/ CollectRooms(t)
        BY <3>1 DEF Lookup, Enter, CollectRooms, Faults
      <3>2. CASE CollectUsers(t)
        BY <3>2 DEF CollectUsers, Faults
      <3> QED
        BY <3>1, <3>2
    <2> QED
      BY <1>1, <1>2, <2>1, GotoHistory
  <1>5. num["rooms"] \in Nat
    BY <1>1 DEF TypedTables, Tables
  <1>6. CASE Lookup(t) \/ CollectRooms(t) \/ CollectUsers(t)
    <2>1. UNCHANGED roomsByUser
      BY <1>6 DEF Lookup, CollectRooms, CollectUsers, users
    <2>2. UNCHANGED reg \/ \E n \in Nat : reg' = [reg EXCEPT ![t] = n]
      <3>1. CASE Lookup(t)
        <4>1. PICK found : /\ found \subseteq 1..num["rooms"]
                           /\ \/ UNCHANGED reg
                              \/ Set(t, IF found = {} THEN RoomNotFound ELSE Max(found) - 1)
          BY <3>1 DEF Lookup
        <4>2. UNCHANGED reg \/ Set(t, IF found = {} THEN RoomNotFound ELSE Max(found) - 1)
          BY <4>1
        <4>3. found # {} => Max(found) \in 1..num["rooms"]
          <5>1. found \subseteq 1..num["rooms"]
            BY <4>1
          <5> QED
            BY <1>5, <5>1, GreatestOf
        <4>4. (IF found = {} THEN RoomNotFound ELSE Max(found) - 1) \in Nat
          BY <1>5, <4>3 DEF RoomNotFound
        <4> QED
          BY <4>2, <4>4 DEF Set
      <3>2. CASE CollectRooms(t)
        BY <1>5, <3>2 DEF CollectRooms, Set
      <3>3. CASE CollectUsers(t)
        <4>1. UNCHANGED reg \/ \E here \in SUBSET (1..numUsers) : Set(t, Cardinality(here))
          <5>1. PICK unsure : unsure = {k \in 1..numUsers : RoomOf(k) = Junk}
            OBVIOUS
          <5>2. PICK room : room = RoomOf(Max(IndexOf(fd[t])))
            OBVIOUS
          <5>3. \/ UNCHANGED reg
                \/ \E chance \in SUBSET unsure :
                     \/ UNCHANGED reg
                     \/ Set(t, Cardinality({k \in 1..numUsers : RoomOf(k) = room} \cup chance))
            BY <3>3, <5>1, <5>2 DEF CollectUsers
          <5>4. \A chance \in SUBSET unsure :
                  {k \in 1..numUsers : RoomOf(k) = room} \cup chance \in SUBSET (1..numUsers)
            BY <5>1
          <5> QED
            BY <5>3, <5>4
        <4>2. \A here \in SUBSET (1..numUsers) : Cardinality(here) \in Nat
          <5>1. numUsers \in Nat
            BY <1>1, LenProperties DEF TypedMain, numUsers
          <5>2. IsFiniteSet(1..numUsers)
            BY <5>1, FS_Interval
          <5> QED
            BY <5>2, FS_Subset, FS_CardinalityType
        <4> QED
          BY <4>1, <4>2 DEF Set
      <3> QED
        BY <1>6, <3>1, <3>2, <3>3
    <2>3. TypedTables'
      BY <1>1, <1>2, <2>1 DEF TypedTables
    <2>4. TypedThreads'
      BY <1>1, <1>2, <2>2 DEF TypedThreads
    <2> QED
      BY <1>3, <1>4, <2>3, <2>4 DEF TypedByThread
  <1>7. CASE Enter(t)
    <2>1. UNCHANGED reg
      BY <1>7 DEF Enter, locals
    <2>2. TypedThreads'
      BY <1>1, <1>2, <2>1 DEF TypedThreads
    <2>3. roomsByUser' \in Seq(Entries)
      <3>1. roomsByUser \in Seq(Entries) /\ reg[t] \in Entries
        BY <1>1 DEF TypedTables, TypedThreads, Entries
      <3>2. Len(roomsByUser) \in Nat /\ DOMAIN roomsByUser = 1..Len(roomsByUser)
            /\ roomsByUser \in [1..Len(roomsByUser) -> Entries]
        BY <3>1, LenProperties
      <3>3. \/ UNCHANGED roomsByUser
            \/ roomsByUser' = [k \in 1..Len(roomsByUser) |->
                                 IF k \in IndexOf(fd[t]) THEN reg[t] ELSE roomsByUser[k]]
        BY <1>7, <3>2 DEF Enter
      <3>4. roomsByUser' \in [1..Len(roomsByUser) -> Entries]
        BY <3>1, <3>2, <3>3
      <3> QED
        BY <3>2, <3>4, SeqDef
    <2>4. TypedTables'
      BY <1>1, <1>2, <2>3 DEF TypedTables
    <2> QED
      BY <1>3, <1>4, <2>2, <2>4 DEF TypedByThread
  <1> QED
    BY <1>6, <1>7

\* What a response says is a number.
LEMMA NumbersSent ==
    ASSUME TypedTables, TypedThreads, NEW t \in Conn
    PROVE  InHead(t) \in Nat /\ Id(t) \in Nat
  <1>1. reg[t] \in Nat /\ num["rooms"] \in Nat
    BY DEF TypedThreads, TypedTables, Tables
  <1>2. /\ reg[t] % 65536 \in Nat /\ reg[t] % 256 \in Nat
        /\ num["rooms"] % 256 \in Nat
    BY <1>1
  <1> QED
    BY <1>1, <1>2 DEF InHead, Id

LEMMA SendingTypes ==
    ASSUME TInv, NEW t \in Conn, SendHead(t) \/ SendBody(t) \/ EventHead(t) \/ EventBody(t)
    PROVE  TypedByThread'
  <1>1. TypedTables /\ TypedThreads /\ TypedNetwork /\ TypedHistory
    BY DEF TInv
  <1>2. UNCHANGED <<roomsByUser, num, table, old, fd, req, sender, inbox, raced>>
    BY DEF SendHead, SendBody, EventHead, EventBody, users, appended, locals
  <1>3. TypedTables' /\ inbox' \in [Conn -> Seq(InParts)]
    BY <1>1, <1>2 DEF TypedTables, TypedNetwork
  <1>4. TypedThreads'
    <2>1. UNCHANGED reg \/ reg' = [reg EXCEPT ![t] = reg[t] + 1]
      BY DEF SendHead, SendBody, EventHead, EventBody, locals, Set
    <2>2. reg[t] + 1 \in Nat
      BY <1>1 DEF TypedThreads
    <2> QED
      BY <1>1, <1>2, <2>1, <2>2 DEF TypedThreads
  <1>5. out' \in [Conn -> Seq(OutParts)] /\ TypedHistory'
    <2>1. /\ InHead(t) \in Nat \cup (Nat \X Entries) /\ Id(t) \in Nat \cup (Nat \X Entries)
          /\ sender[t] \in Nat \cup (Nat \X Entries)
      BY <1>1, NumbersSent DEF TypedThreads
    <2>2. CASE SendHead(t)
      <3>1. SendTo(ReplyTo(t), t, "reply", "head", InHead(t), "sendBody")
        BY <2>2 DEF SendHead
      <3> QED
        BY <1>2, <2>1, <3>1, SendTypes
    <2>3. CASE SendBody(t)
      <3>1. SendTo(ReplyTo(t), t, "reply", "body", Id(t), "loop")
        BY <2>3 DEF SendBody
      <3> QED
        BY <1>2, <2>1, <3>1, SendTypes
    <2>4. CASE EventHead(t)
      <3>1. SendTo(connectedUsers[reg[t]], t, "event", "head", sender[t], "eventBody")
        BY <2>4 DEF EventHead
      <3> QED
        BY <1>2, <2>1, <3>1, SendTypes
    <2>5. CASE EventBody(t)
      <3>1. SendTo(connectedUsers[reg[t]], t, "event", "body", sender[t], "each")
        BY <2>5 DEF EventBody
      <3> QED
        BY <1>2, <2>1, <3>1, SendTypes
    <2> QED
      BY <2>2, <2>3, <2>4, <2>5
  <1> QED
    BY <1>3, <1>4, <1>5 DEF TypedByThread

LEMMA MessageTypes ==
    ASSUME TInv, NEW t \in Conn, Find(t) \/ EachUser(t)
    PROVE  TypedByThread'
  <1>1. TypedMain /\ TypedTables /\ TypedThreads /\ TypedNetwork /\ TypedHistory
    BY DEF TInv
  <1>2. UNCHANGED <<roomsByUser, num, table, old, fd, req, inbox, out, raced>>
    BY DEF Find, EachUser, users, appended
  <1>3. TypedTables' /\ inbox' \in [Conn -> Seq(InParts)] /\ out' \in [Conn -> Seq(OutParts)]
    BY <1>1, <1>2 DEF TypedTables, TypedNetwork
  <1>4. TypedHistory'
    <2>1. (\E step : Goto(t, step)) \/ \E what \in Faults : Break(what)
      BY DEF Find, EachUser, Faults
    <2> QED
      BY <1>1, <1>2, <2>1, GotoHistory
  <1>5. TypedThreads'
    <2>1. CASE Find(t)
      <3>1. PICK own : own = IndexOf(fd[t])
        OBVIOUS
      <3>2. \/ UNCHANGED <<reg, sender>>
            \/ /\ own # {}
               /\ sender' = [sender EXCEPT ![t] = <<Min(own), NameOf(Min(own))>>]
               /\ reg' = [reg EXCEPT ![t] = 1]
        BY <2>1, <3>1 DEF Find, Set
      <3>3. own # {} => Min(own) \in Nat \ {0}
        BY <1>1, <3>1, IndexIsNumber DEF TypedThreads
      <3>4. own # {} => <<Min(own), NameOf(Min(own))>> \in Nat \X Entries
        BY <1>1, <3>3, EntryTypes
      <3> QED
        BY <1>1, <1>2, <3>2, <3>4 DEF TypedThreads
    <2>2. CASE EachUser(t)
      <3>1. UNCHANGED sender /\ (UNCHANGED reg \/ reg' = [reg EXCEPT ![t] = reg[t] + 1])
        BY <2>2 DEF EachUser, Set
      <3>2. reg[t] + 1 \in Nat
        BY <1>1 DEF TypedThreads
      <3> QED
        BY <1>1, <1>2, <3>1, <3>2 DEF TypedThreads
    <2> QED
      BY <2>1, <2>2
  <1> QED
    BY <1>3, <1>4, <1>5 DEF TypedByThread

\* A thread that has read a part of a request has a connection; and its
\* connection is one main() has accepted.
Serves == \A t \in Conn :
    /\ fd[t] # NoFd => fd[t] <= accepted
    /\ pc[t] \notin {"unborn", "loop", "head"} => fd[t] # NoFd

LEMMA ServesStays == TInv /\ Serves /\ [Next]_vars => Serves'
  <1> SUFFICES ASSUME TInv, Serves, [Next]_vars PROVE Serves'
    OBVIOUS
  <1>1. IInv /\ TypedMain /\ TypedThreads
    BY DEF TInv
  <1>2. CASE UNCHANGED vars
    BY <1>2 DEF vars, accepting, locals, Serves
  <1>3. CASE \E c \in Conn : Ask(c) \/ Leave(c)
    BY <1>3 DEF Ask, Leave, accepting, locals, Serves
  <1>4. CASE MainStep(Accept) \/ MainStep(AcceptFails) \/ MainStep(Register)
    <2>1. UNCHANGED fd /\ (Accept \/ AcceptFails \/ Register)
      BY <1>4 DEF MainStep, locals
    <2>2. accepted \in Nat /\ accepted' \in {accepted, accepted + 1}
      BY <1>1, <2>1 DEF TypedMain, Accept, AcceptFails, Register, AddUser, PutUser, CopyRooms,
                        GrowRooms, Start
    <2>3. UNCHANGED pc \/ (Start /\ pc' = [pc EXCEPT ![Len(connectedUsers)] = "loop"])
      BY <2>1 DEF Accept, AcceptFails, Register, AddUser, PutUser, CopyRooms, GrowRooms, Start
    <2>4. pc \in [Conn -> Step \cup {"unborn"}]
      BY <1>1 DEF IInv, StartedInOrder
    <2>5. \A t \in Conn : pc'[t] \in {pc[t], "loop"}
      BY <2>3, <2>4
    <2>6. \A t \in Conn : fd[t] # NoFd => fd[t] \in Nat
      BY <1>1 DEF TypedThreads, Conn
    <2> QED
      BY <2>1, <2>2, <2>5, <2>6 DEF Serves
  <1>5. CASE \E t \in Conn : newThreadHandler(t)
    <2>1. PICK t \in Conn : newThreadHandler(t)
      BY <1>5
    <2>2. UNCHANGED accepted /\ Moves(t)
      BY <2>1, ThreadFrame
    <2>3. pc \in [Conn -> Step \cup {"unborn"}] /\ fd \in [Conn -> {NoFd} \cup Conn]
      BY <1>1 DEF IInv, StartedInOrder, TypedThreads
    <2>4. \A u \in Conn : u # t => pc'[u] = pc[u]
      BY <2>2, <2>3 DEF Moves
    <2>5. CASE ReadSlot(t)
      <3>1. fd' = [fd EXCEPT ![t] = slot] /\ pc' = [pc EXCEPT ![t] = "head"]
        BY <2>5 DEF ReadSlot, FdOf, Goto
      <3>2. slot # NoFd => slot <= accepted
        BY <1>1 DEF IInv, SlotIsNewest
      <3> QED
        BY <2>2, <2>3, <3>1, <3>2 DEF Serves
    <2>6. CASE ~ReadSlot(t)
      <3>1. UNCHANGED fd
        BY <2>1, <2>6 DEF newThreadHandler, RecvHead, RecvBody, RecvFails, ReadsFreed,
                          HandleAppend, LoadCount, StoreCount, Grow, Publish, Put, Number, Lookup,
                          Enter, CollectRooms, CollectUsers, SendHead, SendBody, Find, EachUser,
                          EventHead, EventBody, locals
      <3>2. pc[t] # "loop" /\ (pc[t] = "head" => fd[t] # NoFd \/ UNCHANGED pc)
        BY <2>1, <2>6, FreedAt DEF newThreadHandler, RecvHead, RecvBody, RecvFails, ReadsFreed,
                          HandleAppend, LoadCount, StoreCount, Grow, Publish, Put, Number, Lookup,
                          Enter, CollectRooms, CollectUsers, SendHead, SendBody, Find, EachUser,
                          EventHead, EventBody, Break
      <3>3. pc[t] # "unborn"
        BY <2>1, ThreadFrame
      <3> QED
        BY <2>2, <2>4, <3>1, <3>2, <3>3 DEF Serves
    <2> QED
      BY <2>5, <2>6
  <1> QED
    BY <1>2, <1>3, <1>4, <1>5 DEF Next

LEMMA ThreadTInv ==
    ASSUME TInv, Serves, NEW t \in Conn, newThreadHandler(t)
    PROVE  TInv'
  <1>1. IInv /\ TypedMain /\ TypedNetwork
    BY DEF TInv
  <1>2. IInv'
    BY <1>1, ThreadIInv
  <1>3. TypedMain'
    BY <1>1, ThreadFrame DEF TypedMain
  <1>4. pc[t] = "body" => fd[t] # NoFd
    BY DEF Serves
  <1>5. TypedByThread'
    <2>1. RecvBody(t) => pc[t] = "body"
      BY DEF RecvBody
    <2> QED
      BY <1>4, <2>1, ReadSlotTypes, RecvHeadTypes, RecvBodyTypes, BreakTypes, AppendTypes,
         LookupTypes, SendingTypes, MessageTypes DEF newThreadHandler
  <1>6. TypedNetwork'
    <2>1. UNCHANGED <<asked, gone>>
      BY DEF newThreadHandler, clients
    <2> QED
      BY <1>1, <1>5, <2>1 DEF TypedNetwork, TypedByThread
  <1> QED
    BY <1>2, <1>3, <1>5, <1>6 DEF TInv, TypedByThread

LEMMA NextTInv == TInv /\ Serves /\ [Next]_vars => TInv' /\ Serves'
  <1> SUFFICES ASSUME TInv, Serves, [Next]_vars PROVE TInv'
    BY ServesStays
  <1>1. CASE UNCHANGED vars
    BY <1>1 DEF vars, accepting, users, appended, locals, clients, TInv, IInv, SlotIsNewest,
                StartedInOrder, ServesNoOlder, TypedMain, TypedTables, TypedThreads, TypedNetwork,
                TypedHistory
  <1>2. CASE Next
    BY <1>2, MainTInv, ClientTInv, ThreadTInv DEF Next
  <1> QED
    BY <1>1, <1>2

LEMMA InitServes == Init => Serves
  BY DEF Init, Serves

\* The types of the server, and that users are registered in the order of their
\* connections, however many clients connect and whatever they send.
LEMMA TypesInvariant == Spec => [](TInv /\ Serves)
  BY InitTInv, InitServes, NextTInv, PTL DEF Spec

THEOREM TypeCorrect == Spec => []TypeOK
  <1>1. TInv => TypeOK
    <2> SUFFICES ASSUME TInv PROVE TypeOK
      OBVIOUS
    <2>1. pc \in [Conn -> Step \cup {"unborn"}]
      BY DEF TInv, IInv, StartedInOrder
    <2> QED
      BY <2>1 DEF TInv, TypedMain, TypedTables, TypedThreads, TypedNetwork, TypedHistory, TypeOK,
                  Tables, Entries, Faults
  <1> QED
    BY TypesInvariant, <1>1, PTL

-----------------------------------------------------------------------------
(* Events.                                                                   *)

AskedBy(c) == {asked[c][k] : k \in DOMAIN asked[c]}
Busy(t) == pc[t] \notin {"unborn", "loop", "head"}

\* A request is one of the client whose connection it has come by.
RequestsFit ==
    /\ \A c \in Conn : \A k \in DOMAIN inbox[c] : inbox[c][k].req \in AskedBy(c)
    /\ \A t \in Conn : Busy(t) => req[t] \in AskedBy(fd[t])

\* A broadcast knows who has sent the message, and whom it is for.
BroadcastFits(t) ==
    /\ pc[t] \in {"each", "eventHead", "eventBody"} => sender[t][1] = fd[t] /\ reg[t] # 0
    /\ pc[t] \in {"eventHead", "eventBody"} /\ fault = "none" =>
         reg[t] \in 1..numUsers /\ reg[t] # fd[t]

Told(c, part) == part.kind = "event" =>
    /\ part.val[1] \in Conn /\ part.val[1] # c
    /\ part.req \in AskedBy(part.val[1])

EventsFit == \A c \in Conn : \A k \in DOMAIN out[c] : Told(c, out[c][k])

EInv == RequestsFit /\ (\A t \in Conn : BroadcastFits(t)) /\ EventsFit

\* A part is sent to c, or nothing is.
LEMMA SendFits ==
    ASSUME TInv, EventsFit, NEW c, NEW part \in OutParts, UNCHANGED asked,
           out' = out \/ (c \in Conn /\ out' = [out EXCEPT ![c] = Append(@, part)]),
           c \in Conn => Told(c, part)
    PROVE  EventsFit'
  <1>1. \A d, p : Told(d, p)' <=> Told(d, p)
    BY DEF Told, AskedBy
  <1>2. CASE out' = out
    BY <1>1, <1>2 DEF EventsFit, Told, AskedBy
  <1>3. CASE c \in Conn /\ out' = [out EXCEPT ![c] = Append(@, part)]
    <2>1. out \in [Conn -> Seq(OutParts)] /\ out[c] \in Seq(OutParts)
      BY <1>3 DEF TInv, TypedNetwork
    <2>2. out'[c] = Append(out[c], part) /\ \A d \in Conn : d # c => out'[d] = out[d]
      BY <1>3, <2>1
    <2>3. /\ Len(out[c]) \in Nat /\ DOMAIN out[c] = 1..Len(out[c])
          /\ DOMAIN out'[c] = 1..Len(out[c]) + 1
          /\ out'[c][Len(out[c]) + 1] = part
          /\ \A k \in 1..Len(out[c]) : out'[c][k] = out[c][k]
      BY <2>1, <2>2, AppendProperties, LenProperties
    <2>4. ASSUME NEW d \in Conn, NEW k \in DOMAIN out'[d] PROVE Told(d, out'[d][k])
      <3>1. CASE d # c
        BY <2>2, <2>4, <3>1 DEF EventsFit
      <3>2. CASE d = c
        <4>1. k \in 1..Len(out[c]) \/ k = Len(out[c]) + 1
          BY <2>3, <3>2
        <4> QED
          BY <1>3, <2>3, <3>2, <4>1 DEF EventsFit
      <3> QED
        BY <3>1, <3>2
    <2> QED
      BY <2>4 DEF EventsFit, Told, AskedBy
  <1> QED
    BY <1>2, <1>3

LEMMA MainEInv ==
    ASSUME fault = "none", TInv, EInv, MainStep(Accept) \/ MainStep(AcceptFails) \/ MainStep(Register)
    PROVE  EInv'
  <1>1. /\ UNCHANGED <<req, fd, reg, sender, inbox, out, asked>>
        /\ Accept \/ AcceptFails \/ Register
    BY DEF MainStep, locals, clients
  <1>2. pc \in [Conn -> Step \cup {"unborn"}] /\ connectedUsers \in Seq(Conn \cup {Junk})
    BY DEF TInv, IInv, StartedInOrder, TypedMain
  <1>3. UNCHANGED pc \/ pc' = [pc EXCEPT ![Len(connectedUsers)] = "loop"]
    BY <1>1 DEF Accept, AcceptFails, Register, AddUser, PutUser, CopyRooms, GrowRooms, Start
  <1>4. \A t \in Conn : pc'[t] = pc[t] \/ pc'[t] = "loop"
    BY <1>2, <1>3
  <1>5. numUsers \in Nat /\ numUsers' \in Nat /\ numUsers <= numUsers'
    <2>1. CASE UNCHANGED connectedUsers
      BY <1>2, <2>1, LenProperties DEF numUsers
    <2>2. CASE AddUser
      <3>1. connectedUsers' = Append(connectedUsers, Junk)
        BY <2>2 DEF AddUser
      <3>2. Len(connectedUsers') = Len(connectedUsers) + 1 /\ Len(connectedUsers) \in Nat
        BY <1>2, <3>1, AppendProperties, LenProperties
      <3> QED
        BY <3>2 DEF numUsers
    <2>3. CASE PutUser
      <3>1. slot \in Conn
        BY <2>3 DEF PutUser, TInv, IInv, SlotIsNewest, TypedMain, Conn
      <3>2. Len(connectedUsers') = Len(connectedUsers) /\ Len(connectedUsers) \in Nat
        BY <1>2, <2>3, <3>1, StillLong, LenProperties DEF PutUser
      <3> QED
        BY <3>2 DEF numUsers
    <2> QED
      BY <1>1, <2>1, <2>2, <2>3 DEF Accept, AcceptFails, Register, CopyRooms, GrowRooms, Start, users
  <1>6. RequestsFit'
    BY <1>1, <1>4 DEF EInv, RequestsFit, Busy, AskedBy
  <1>7. \A t \in Conn : BroadcastFits(t)'
    BY <1>1, <1>4, <1>5 DEF EInv, BroadcastFits
  <1>8. EventsFit'
    BY <1>1 DEF EInv, EventsFit, Told, AskedBy
  <1> QED
    BY <1>6, <1>7, <1>8 DEF EInv

LEMMA ClientEInv ==
    ASSUME fault = "none", TInv, EInv, Serves, NEW c \in Conn, Ask(c) \/ Leave(c)
    PROVE  EInv'
  <1>1. UNCHANGED <<req, fd, reg, sender, pc, out, connectedUsers>>
    BY DEF Ask, Leave, locals, users
  <1>2. asked \in [Conn -> Seq(Reqs)] /\ inbox \in [Conn -> Seq(InParts)] /\ fd \in [Conn -> {NoFd} \cup Conn]
    BY DEF TInv, TypedNetwork, TypedThreads
  <1>3. CASE Leave(c)
    BY <1>1, <1>3 DEF Leave, EInv, RequestsFit, Busy, AskedBy, BroadcastFits, numUsers, EventsFit, Told
  <1>4. CASE Ask(c)
    <2>1. PICK r \in Requests(c) :
            /\ asked' = [asked EXCEPT ![c] = Append(@, r)]
            /\ inbox' = [inbox EXCEPT ![c] = (@ \o <<[half |-> "head", req |-> r]>>)
                  \o IF HasBody(r) THEN <<[half |-> "body", req |-> r]>> ELSE <<>>]
      BY <1>4 DEF Ask
    <2>2. r \in Reqs
      BY RequestTypes DEF TInv
    <2>3. asked' = [asked EXCEPT ![c] = Append(asked[c], r)] /\ asked[c] \in Seq(Reqs)
      BY <1>2, <2>1
    <2>4. /\ DOMAIN asked[c] = 1..Len(asked[c]) /\ DOMAIN asked'[c] = 1..Len(asked[c]) + 1
          /\ asked'[c][Len(asked[c]) + 1] = r /\ Len(asked[c]) \in Nat
          /\ \A k \in 1..Len(asked[c]) : asked'[c][k] = asked[c][k]
      <3>1. asked'[c] = Append(asked[c], r)
        BY <1>2, <2>3
      <3> QED
        BY <2>2, <2>3, <3>1, AppendProperties, LenProperties
    <2>5. /\ r \in AskedBy(c)' /\ AskedBy(c) \subseteq AskedBy(c)'
          /\ \A d \in Conn : AskedBy(d) \subseteq AskedBy(d)'
      <3>1. Len(asked[c]) + 1 \in DOMAIN asked'[c]
        BY <2>4
      <3>2. r \in AskedBy(c)'
        BY <2>4, <3>1 DEF AskedBy
      <3>3. AskedBy(c) \subseteq AskedBy(c)'
        BY <2>4 DEF AskedBy
      <3>4. \A d \in Conn : d # c => AskedBy(d) \subseteq AskedBy(d)'
        BY <1>2, <2>3 DEF AskedBy
      <3> QED
        BY <3>2, <3>3, <3>4
    <2>6. ASSUME NEW d \in Conn, NEW k \in DOMAIN inbox'[d] PROVE inbox'[d][k].req \in AskedBy(d)'
      <3>1. CASE d # c
        <4>1. inbox'[d] = inbox[d]
          BY <1>2, <2>1, <3>1
        <4> QED
          BY <2>5, <2>6, <4>1 DEF EInv, RequestsFit
      <3>2. CASE d = c
        <4>1. PICK head, rest : /\ head = <<[half |-> "head", req |-> r]>>
                                /\ rest = IF HasBody(r) THEN <<[half |-> "body", req |-> r]>> ELSE <<>>
          OBVIOUS
        <4>2. [half |-> "head", req |-> r] \in InParts /\ [half |-> "body", req |-> r] \in InParts
          BY <2>2 DEF InParts
        <4>3. head \in Seq(InParts) /\ rest \in Seq(InParts)
          BY <4>1, <4>2
        <4>4. inbox[c] \o head \in Seq(InParts) /\ inbox'[c] = (inbox[c] \o head) \o rest
              /\ inbox[c] \in Seq(InParts)
          BY <1>2, <2>1, <4>1, <4>3, ConcatProperties
        <4>5. Len(inbox[c]) \in Nat /\ Len(rest) \in Nat /\ DOMAIN inbox[c] = 1..Len(inbox[c])
          BY <4>3, <4>4, LenProperties
        <4>6. /\ Len(inbox[c] \o head) = Len(inbox[c]) + Len(head)
              /\ \A i \in 1..Len(inbox[c]) + Len(head) :
                   (inbox[c] \o head)[i] = IF i <= Len(inbox[c]) THEN inbox[c][i]
                                           ELSE head[i - Len(inbox[c])]
          BY <4>3, <4>4, ConcatProperties
        <4>7. Len(head) = 1 /\ head[1].req = r
          BY <4>1
        <4>8. \A i \in 1..Len(rest) : rest[i].req = r
          BY <4>1
        <4>9. /\ Len(inbox'[c]) = Len(inbox[c] \o head) + Len(rest)
              /\ inbox'[c] \in Seq(InParts)
              /\ \A i \in 1..Len(inbox[c] \o head) + Len(rest) :
                   inbox'[c][i] = IF i <= Len(inbox[c] \o head) THEN (inbox[c] \o head)[i]
                                  ELSE rest[i - Len(inbox[c] \o head)]
          BY <4>3, <4>4, ConcatProperties
        <4>10. k \in 1..Len(inbox[c]) + 1 + Len(rest)
          <5>1. DOMAIN inbox'[c] = 1..Len(inbox'[c])
            BY <4>9, LenProperties
          <5> QED
            BY <2>6, <3>2, <4>6, <4>7, <4>9, <5>1
        <4>11. CASE k \in 1..Len(inbox[c])
          <5>1. inbox'[c][k] = inbox[c][k]
            BY <4>5, <4>6, <4>7, <4>9, <4>10, <4>11
          <5> QED
            BY <2>5, <3>2, <4>5, <4>11, <5>1 DEF EInv, RequestsFit
        <4>12. CASE k = Len(inbox[c]) + 1
          <5>1. inbox'[c][k] = head[1]
            BY <4>5, <4>6, <4>7, <4>9, <4>10, <4>12
          <5> QED
            BY <2>5, <3>2, <4>7, <5>1
        <4>13. CASE k > Len(inbox[c]) + 1
          <5>1. PICK i \in 1..Len(rest) : i = k - Len(inbox[c] \o head)
            BY <4>5, <4>6, <4>7, <4>10, <4>13
          <5>2. inbox'[c][k] = rest[i]
            BY <4>5, <4>6, <4>7, <4>9, <4>10, <4>13, <5>1
          <5> QED
            BY <2>5, <3>2, <4>8, <5>2
        <4> QED
          BY <4>5, <4>10, <4>11, <4>12, <4>13
      <3> QED
        BY <3>1, <3>2
    <2>7. ASSUME NEW t \in Conn, Busy(t) PROVE (req[t] \in AskedBy(fd[t]))'
      <3>1. fd[t] \in Conn /\ req[t] \in AskedBy(fd[t])
        BY <1>2, <2>7 DEF EInv, RequestsFit, Serves, Busy
      <3>2. PICK d : d = fd[t] /\ d = fd'[t]
        BY <1>1
      <3>3. req[t] \in AskedBy(d)'
        BY <2>5, <3>1, <3>2
      <3>4. AskedBy(d)' = AskedBy(fd[t])'
        BY <3>2 DEF AskedBy
      <3> QED
        BY <1>1, <3>3, <3>4
    <2>8. RequestsFit'
      BY <1>1, <2>6, <2>7 DEF RequestsFit, Busy
    <2>9. EventsFit'
      BY <1>1, <2>5 DEF EInv, EventsFit, Told
    <2>10. \A t \in Conn : BroadcastFits(t)'
      BY <1>1 DEF EInv, BroadcastFits, numUsers
    <2> QED
      BY <2>8, <2>9, <2>10 DEF EInv
  <1> QED
    BY <1>3, <1>4

\* A thread that has read a request, or parts of it.
LEMMA RecvEInv ==
    ASSUME fault = "none", TInv, EInv, Serves, NEW t \in Conn, RecvHead(t) \/ RecvBody(t), UNCHANGED clients
    PROVE  EInv'
  <1>1. /\ pc \in [Conn -> Step \cup {"unborn"}] /\ fd \in [Conn -> {NoFd} \cup Conn]
        /\ req \in [Conn -> Reqs] /\ TypedNetwork
    BY DEF TInv, IInv, StartedInOrder, TypedThreads
  <1>2. PICK c : c = fd[t]
    OBVIOUS
  <1>3. /\ inbox[c] # <<>> /\ inbox' = [inbox EXCEPT ![c] = Tail(@)]
        /\ UNCHANGED <<fd, reg, sender, connectedUsers, out, asked>>
    BY <1>2 DEF RecvHead, RecvBody, users, locals, clients
  <1>4. c \in Conn
    <2>1. fd[t] # NoFd
      BY DEF RecvHead, RecvBody, Serves
    <2> QED
      BY <1>1, <1>2, <2>1
  <1>5. /\ Head(inbox[c]) = inbox[c][1] /\ 1 \in DOMAIN inbox[c]
        /\ DOMAIN inbox'[c] = 1..Len(inbox[c]) - 1 /\ Len(inbox[c]) \in Nat \ {0}
        /\ \A k \in 1..Len(inbox[c]) - 1 : inbox'[c][k] = inbox[c][k + 1]
        /\ \A d \in Conn : d # c => inbox'[d] = inbox[d]
    BY <1>1, <1>3, <1>4, Taken
  <1>6. PICK step : /\ UNCHANGED pc \/ pc' = [pc EXCEPT ![t] = step]
                    /\ step \notin {"each", "eventHead", "eventBody"}
    <2>1. ASSUME NEW r, Dispatch(t, r)
          PROVE  UNCHANGED pc \/ pc' = [pc EXCEPT ![t] = FirstStep(r)]
      BY <2>1 DEF Dispatch, Goto, Break
    <2>2. \A r : FirstStep(r) \notin {"each", "eventHead", "eventBody"}
      BY DEF FirstStep
    <2>3. CASE RecvHead(t)
      <3>1. \/ UNCHANGED pc
            \/ pc' = [pc EXCEPT ![t] = "body"]
            \/ \E r : Dispatch(t, r)
        BY <2>3 DEF RecvHead, Goto, Break
      <3> QED
        BY <2>1, <2>2, <3>1
    <2>4. CASE RecvBody(t)
      <3>1. UNCHANGED pc \/ \E r : Dispatch(t, r)
        BY <2>4 DEF RecvBody, Break
      <3> QED
        BY <2>1, <2>2, <3>1
    <2> QED
      BY <2>3, <2>4
  <1>7. \A u \in Conn : u # t => pc'[u] = pc[u]
    BY <1>1, <1>6
  <1>8. pc[t] \in {"head", "body"} /\ (pc'[t] = pc[t] \/ pc'[t] \notin {"each", "eventHead", "eventBody"})
    <2>1. pc[t] \in {"head", "body"}
      BY DEF RecvHead, RecvBody
    <2> QED
      BY <1>1, <1>6, <2>1
  <1>9. \A u \in Conn : req'[u] = IF u = t /\ RecvHead(t) THEN inbox[c][1].req ELSE req[u]
    <2>1. CASE RecvHead(t)
      <3>1. req' = [req EXCEPT ![t] = Head(inbox[c]).req]
        BY <1>2, <2>1 DEF RecvHead
      <3> QED
        BY <1>1, <1>5, <2>1, <3>1
    <2>2. CASE ~RecvHead(t)
      BY <2>2 DEF RecvBody, locals
    <2> QED
      BY <2>1, <2>2
  <1>10. RequestsFit'
    <2>1. \A d \in Conn : AskedBy(d)' = AskedBy(d)
      BY <1>3 DEF AskedBy
    <2>2. ASSUME NEW d \in Conn, NEW k \in DOMAIN inbox'[d] PROVE inbox'[d][k].req \in AskedBy(d)
      <3>1. CASE d = c
        <4>1. inbox'[c][k] = inbox[c][k + 1] /\ k + 1 \in 1..Len(inbox[c])
          BY SMTT(30), <1>5, <3>1
        <4>2. DOMAIN inbox[c] = 1..Len(inbox[c])
          BY <1>1, <1>4, LenProperties DEF TypedNetwork
        <4> QED
          BY <1>4, <3>1, <4>1, <4>2 DEF EInv, RequestsFit
      <3> QED
        BY <1>5, <2>2, <3>1 DEF EInv, RequestsFit
    <2>3. inbox[c][1].req \in AskedBy(c)
      BY <1>4, <1>5 DEF EInv, RequestsFit
    <2>4. ASSUME NEW u \in Conn, Busy(u)' PROVE req'[u] \in AskedBy(fd[u])
      <3>1. CASE u = t
        <4>1. RecvHead(t) \/ Busy(t)
          BY DEF RecvBody, Busy
        <4> QED
          BY <1>2, <1>9, <2>3, <3>1, <4>1 DEF EInv, RequestsFit
      <3>2. CASE u # t
        BY <1>7, <1>9, <2>4, <3>2 DEF EInv, RequestsFit, Busy
      <3> QED
        BY <3>1, <3>2
    <2>5. ASSUME NEW u \in Conn, Busy(u)' PROVE (req[u] \in AskedBy(fd[u]))'
      <3>1. req'[u] \in AskedBy(fd[u])
        BY <2>4, <2>5
      <3>2. AskedBy(fd[u])' = AskedBy(fd[u])
        BY <1>3 DEF AskedBy
      <3> QED
        BY <3>1, <3>2
    <2> QED
      BY <2>1, <2>2, <2>5 DEF RequestsFit
  <1>11. \A u \in Conn : BroadcastFits(u)'
    BY <1>3, <1>7, <1>8 DEF EInv, BroadcastFits, numUsers
  <1>12. EventsFit'
    BY <1>3 DEF EInv, EventsFit, Told, AskedBy
  <1> QED
    BY <1>10, <1>11, <1>12 DEF EInv

\* A step of a thread on the request it has.
LEMMA WorkEInv ==
    ASSUME fault = "none", TInv, EInv, Serves, NEW t \in Conn, newThreadHandler(t), ~RecvHead(t), ~RecvBody(t)
    PROVE  EInv'
  <1>1. /\ pc \in [Conn -> Step \cup {"unborn"}] /\ fd \in [Conn -> {NoFd} \cup Conn]
        /\ reg \in [Conn -> Nat] /\ sender \in [Conn -> Nat \X Entries] /\ req \in [Conn -> Reqs]
    BY DEF TInv, IInv, StartedInOrder, TypedThreads
  <1>2. UNCHANGED <<connectedUsers, asked>> /\ Moves(t)
    BY ThreadFrame DEF newThreadHandler, clients
  <1>3. \A u \in Conn : u # t => pc'[u] = pc[u]
    BY <1>1, <1>2 DEF Moves
  <1>4. \A d : AskedBy(d)' = AskedBy(d)
    BY <1>2 DEF AskedBy
  <1>5. CASE ReadSlot(t)
    <2>1. /\ UNCHANGED <<req, inbox, out>>
          /\ fd' = [fd EXCEPT ![t] = slot] /\ reg' = [reg EXCEPT ![t] = 0]
          /\ sender' = [sender EXCEPT ![t] = <<0, Junk>>]
          /\ pc' = [pc EXCEPT ![t] = "head"]
      BY <1>5 DEF ReadSlot, FdOf, Set, Goto
    <2>2. pc'[t] = "head"
      BY <1>1, <2>1
    <2>3. \A u \in Conn : u # t => fd'[u] = fd[u] /\ reg'[u] = reg[u] /\ sender'[u] = sender[u]
      BY <1>1, <2>1
    <2>4. \A u \in Conn : Busy(u)' => u # t /\ Busy(u) /\ fd'[u] = fd[u]
      BY <1>3, <2>2, <2>3 DEF Busy
    <2>5. RequestsFit'
      BY SMTT(30), <1>2, <2>1, <2>4 DEF EInv, RequestsFit, AskedBy
    <2>6. \A u \in Conn : BroadcastFits(u)'
      BY <1>2, <1>3, <2>2, <2>3 DEF EInv, BroadcastFits, numUsers
    <2>7. EventsFit'
      BY <1>2, <2>1 DEF EInv, EventsFit, Told, AskedBy
    <2> QED
      BY <2>5, <2>6, <2>7 DEF EInv
  <1>6. CASE RecvFails(t) \/ ReadsFreed(t)
    <2>1. UNCHANGED <<pc, fd, req, reg, sender, inbox, out>>
      BY <1>6 DEF RecvFails, ReadsFreed, Break, locals
    <2> QED
      BY <1>2, <2>1 DEF EInv, RequestsFit, Busy, BroadcastFits, EventsFit, Told, AskedBy, numUsers
  <1>7. CASE ~ReadSlot(t) /\ ~RecvFails(t) /\ ~ReadsFreed(t)
    <2>1. UNCHANGED <<fd, req, inbox>> /\ Busy(t)
      BY <1>7 DEF newThreadHandler, HandleAppend, LoadCount, StoreCount, Grow, Publish, Put, Number,
             Lookup, Enter, CollectRooms, CollectUsers, SendHead, SendBody, Find, EachUser, EventHead,
             EventBody, locals, Busy
    <2>2. RequestsFit'
      BY <1>2, <1>3, <2>1 DEF EInv, RequestsFit, AskedBy, Busy
    <2>3. fd[t] \in Conn /\ req[t] \in AskedBy(fd[t])
      BY <1>1, <2>1 DEF Serves, Busy, EInv, RequestsFit
    <2>4. \A u \in Conn : u # t => reg'[u] = reg[u] /\ sender'[u] = sender[u]
      BY <1>1, <1>7 DEF newThreadHandler, HandleAppend, LoadCount, StoreCount, Grow, Publish, Put,
             Number, Lookup, Enter, CollectRooms, CollectUsers, SendHead, SendBody, Find, EachUser,
             EventHead, EventBody, locals, Set
    <2>5. \A u \in Conn : u # t => BroadcastFits(u)'
      BY <1>2, <1>3, <2>1, <2>4 DEF EInv, BroadcastFits, numUsers
    <2>6. CASE HandleAppend(t) \/ Lookup(t) \/ Enter(t) \/ CollectRooms(t) \/ CollectUsers(t)
      <3>1. UNCHANGED out
        BY <2>6 DEF HandleAppend, LoadCount, StoreCount, Grow, Publish, Put, Number, Lookup, Enter,
               CollectRooms, CollectUsers
      <3>2. pc'[t] \notin {"each", "eventHead", "eventBody"}
        <4>1. pc[t] \notin {"each", "eventHead", "eventBody"}
          BY <2>6 DEF HandleAppend, LoadCount, StoreCount, Grow, Publish, Put, Number, Lookup, Enter,
               CollectRooms, CollectUsers
        <4>2. \/ UNCHANGED pc
              \/ \E step \in {"count", "grow", "publish", "put", "number", "sendHead", "enter"} :
                   pc' = [pc EXCEPT ![t] = step]
          <5>1. CASE HandleAppend(t)
            BY <5>1 DEF HandleAppend, LoadCount, StoreCount, Grow, Publish, Put, Number, Goto, Break
          <5>2. CASE Lookup(t) \/ Enter(t) \/ CollectRooms(t)
            BY <5>2 DEF Lookup, Enter, CollectRooms, Goto, Break
          <5>3. CASE CollectUsers(t)
            BY <5>3 DEF CollectUsers, Goto, Break
          <5> QED
            BY <2>6, <5>1, <5>2, <5>3
        <4> QED
          BY <1>1, <4>1, <4>2
      <3>3. BroadcastFits(t)'
        BY <3>2 DEF BroadcastFits
      <3>4. EventsFit'
        BY <1>2, <3>1 DEF EInv, EventsFit, Told, AskedBy
      <3> QED
        BY <2>2, <2>5, <3>3, <3>4 DEF EInv
    <2>7. CASE Find(t)
      <3>1. UNCHANGED out
        BY <2>7 DEF Find
      <3>2. \/ pc[t] = "find" /\ UNCHANGED pc
            \/ /\ IndexOf(fd[t]) # {} /\ pc' = [pc EXCEPT ![t] = "each"]
               /\ reg' = [reg EXCEPT ![t] = 1]
               /\ sender' = [sender EXCEPT ![t] =
                     <<Min(IndexOf(fd[t])), NameOf(Min(IndexOf(fd[t])))>>]
        BY <2>7 DEF Find, Set, Goto, Break
      <3>3. IndexOf(fd[t]) # {} => Min(IndexOf(fd[t])) = fd[t]
        BY <1>1, IndexIsNumber DEF TInv
      <3>4. \/ pc'[t] = "find"
            \/ pc'[t] = "each" /\ reg'[t] = 1 /\ sender'[t][1] = fd[t]
        BY <1>1, <3>2, <3>3
      <3>5. BroadcastFits(t)'
        BY <2>1, <3>4 DEF BroadcastFits
      <3>6. EventsFit'
        BY <1>2, <3>1 DEF EInv, EventsFit, Told, AskedBy
      <3> QED
        BY <2>2, <2>5, <3>5, <3>6 DEF EInv
    <2>8. CASE EachUser(t)
      <3>1. pc[t] = "each" /\ UNCHANGED <<out, sender>>
        BY <2>8 DEF EachUser
      <3>2. sender[t][1] = fd[t] /\ reg[t] # 0 /\ reg[t] \in Nat
        BY <1>1, <3>1 DEF EInv, BroadcastFits
      <3>3. \/ pc' = [pc EXCEPT ![t] = "loop"]
            \/ pc' = [pc EXCEPT ![t] = "each"] /\ reg' = [reg EXCEPT ![t] = reg[t] + 1]
            \/ /\ pc' = [pc EXCEPT ![t] = "eventHead"] /\ UNCHANGED reg
               /\ reg[t] <= numUsers /\ reg[t] # sender[t][1]
        BY <2>8 DEF EachUser, Another, Set, Goto
      <3>4. numUsers \in Nat /\ numUsers' = numUsers
        BY <1>2, LenProperties DEF TInv, TypedMain, numUsers
      <3>5. BroadcastFits(t)'
        BY <1>1, <2>1, <3>1, <3>2, <3>3, <3>4 DEF BroadcastFits
      <3>6. EventsFit'
        BY <1>2, <3>1 DEF EInv, EventsFit, Told, AskedBy
      <3> QED
        BY <2>2, <2>5, <3>5, <3>6 DEF EInv
    <2>9. CASE SendHead(t) \/ SendBody(t)
      <3>1. PICK half \in {"head", "body"}, val \in Nat :
              \E next \in {"sendBody", "loop"} : SendTo(fd[t], t, "reply", half, val, next)
        <4>1. InHead(t) \in Nat /\ Id(t) \in Nat
          BY <1>1, NumbersSent DEF TInv
        <4> QED
          BY <2>9, <4>1 DEF SendHead, SendBody, ReplyTo
      <3>2. PICK part : part = [kind |-> "reply", half |-> half, by |-> t, req |-> req[t], val |-> val]
        OBVIOUS
      <3>3. /\ out' = out \/ (fd[t] \in Conn /\ out' = [out EXCEPT ![fd[t]] = Append(@, part)])
            /\ UNCHANGED pc \/ \E next \in {"sendBody", "loop"} : pc' = [pc EXCEPT ![t] = next]
        BY <3>1, <3>2 DEF SendTo, Goto, Break
      <3>4. part \in OutParts /\ part.kind = "reply"
        BY <1>1, <3>1, <3>2 DEF OutParts
      <3>5. EventsFit'
        BY <1>2, <3>3, <3>4, SendFits DEF Told, EInv
      <3>6. pc'[t] \notin {"each", "eventHead", "eventBody"}
        <4>1. pc[t] \notin {"each", "eventHead", "eventBody"}
          BY <2>9 DEF SendHead, SendBody
        <4> QED
          BY <1>1, <3>3, <4>1
      <3>7. BroadcastFits(t)'
        BY <3>6 DEF BroadcastFits
      <3> QED
        BY <2>2, <2>5, <3>5, <3>7 DEF EInv
    <2>10. CASE EventHead(t) \/ EventBody(t)
      <3>1. pc[t] \in {"eventHead", "eventBody"} /\ UNCHANGED sender
        BY <2>10 DEF EventHead, EventBody, locals
      <3>2. /\ sender[t][1] = fd[t] /\ reg[t] # fd[t] /\ reg[t] \in 1..numUsers /\ reg[t] \in Nat
        BY <1>1, <3>1 DEF EInv, BroadcastFits
      <3>3. connectedUsers[reg[t]] \in {reg[t], Junk}
        BY <3>2, DescriptorOf DEF TInv
      <3>4. PICK half \in {"head", "body"}, c \in {reg[t], Junk} :
              \E next \in {"eventBody", "each"} :
                 /\ SendTo(c, t, "event", half, sender[t], next)
                 /\ next = "eventBody" => UNCHANGED reg
                 /\ next = "each" => reg' = [reg EXCEPT ![t] = reg[t] + 1]
        <4>1. CASE EventHead(t)
          BY <3>3, <4>1 DEF EventHead, locals
        <4>2. CASE EventBody(t)
          BY <3>3, <4>2 DEF EventBody, Set
        <4> QED
          BY <2>10, <4>1, <4>2
      <3>5. PICK part : part = [kind |-> "event", half |-> half, by |-> t, req |-> req[t], val |-> sender[t]]
        OBVIOUS
      <3>6. /\ out' = out \/ (c \in Conn /\ out' = [out EXCEPT ![c] = Append(@, part)])
            /\ \/ UNCHANGED pc
               \/ pc' = [pc EXCEPT ![t] = "eventBody"] /\ UNCHANGED reg
               \/ pc' = [pc EXCEPT ![t] = "each"] /\ reg' = [reg EXCEPT ![t] = reg[t] + 1]
        BY <3>4, <3>5 DEF SendTo, Goto, Break
      <3>7. part \in OutParts /\ part.val = sender[t] /\ part.req = req[t]
        BY <1>1, <3>4, <3>5 DEF OutParts
      <3>8. c \in Conn => Told(c, part)
        BY <2>3, <3>2, <3>4, <3>7, JunkIsNoFd DEF Told
      <3>9. EventsFit'
        BY <1>2, <3>6, <3>7, <3>8, SendFits DEF EInv
      <3>10. BroadcastFits(t)'
        <4>1. numUsers' = numUsers
          BY <1>2 DEF numUsers
        <4>2. reg[t] + 1 # 0 /\ reg'[t] \in {reg[t], reg[t] + 1}
          BY <1>1, <2>10, <3>2 DEF EventHead, EventBody, locals, Set
        <4>4. sender'[t][1] = fd'[t]
          BY <2>1, <3>1, <3>2
        <4>3. CASE UNCHANGED pc
          <5>1. fault' # "none" \/ pc'[t] \notin {"eventHead", "eventBody"}
                \/ (pc'[t] = "eventBody" /\ UNCHANGED reg)
            BY <1>1, <2>10, <3>1, <4>3 DEF EventHead, EventBody, SendTo, Goto, Break, locals
          <5>2. reg'[t] # 0
            BY <3>2, <4>2
          <5> QED
            BY <2>1, <3>2, <4>1, <4>4, <5>1, <5>2 DEF BroadcastFits
        <4>5. CASE pc' = [pc EXCEPT ![t] = "eventBody"] /\ UNCHANGED reg
          BY <2>1, <3>2, <4>1, <4>4, <4>5 DEF BroadcastFits
        <4>6. CASE pc' = [pc EXCEPT ![t] = "each"] /\ reg' = [reg EXCEPT ![t] = reg[t] + 1]
          <5>1. pc'[t] = "each" /\ reg'[t] # 0
            BY <1>1, <3>2, <4>6
          <5> QED
            BY <4>4, <5>1 DEF BroadcastFits
        <4> QED
          BY <3>6, <4>3, <4>5, <4>6
      <3> QED
        BY <2>2, <2>5, <3>9, <3>10 DEF EInv
    <2> QED
      BY <1>7, <2>6, <2>7, <2>8, <2>9, <2>10 DEF newThreadHandler
  <1> QED
    BY <1>5, <1>6, <1>7

LEMMA NextEInv == TInv /\ Serves /\ EInv /\ [Next]_vars => EInv'
  <1> SUFFICES ASSUME TInv, Serves, EInv, [Next]_vars PROVE EInv'
    OBVIOUS
  <1>1. CASE UNCHANGED vars
    <2>1. UNCHANGED <<connectedUsers, pc, fd, req, reg, sender, inbox, out, asked, fault>>
      BY <1>1 DEF vars, users, locals, clients
    <2> QED
      BY <2>1 DEF EInv, RequestsFit, Busy, BroadcastFits, EventsFit, Told, AskedBy, numUsers
  <1>2. CASE fault = "none" /\ (MainStep(Accept) \/ MainStep(AcceptFails) \/ MainStep(Register))
    BY <1>2, MainEInv
  <1>3. CASE fault = "none" /\ \E c \in Conn : Ask(c) \/ Leave(c)
    BY <1>3, ClientEInv
  <1>4. CASE fault = "none" /\ \E t \in Conn : newThreadHandler(t)
    <2>1. PICK t \in Conn : newThreadHandler(t)
      BY <1>4
    <2>2. UNCHANGED clients
      BY <2>1 DEF newThreadHandler
    <2>3. CASE RecvHead(t) \/ RecvBody(t)
      BY <1>4, <2>2, <2>3, RecvEInv
    <2>4. CASE ~RecvHead(t) /\ ~RecvBody(t)
      BY <1>4, <2>1, <2>4, WorkEInv
    <2> QED
      BY <2>3, <2>4
  <1> QED
    BY <1>1, <1>2, <1>3, <1>4 DEF Next

LEMMA InitEInv == Init => EInv
  <1> SUFFICES ASSUME Init PROVE EInv
    OBVIOUS
  <1>1. \A t \in Conn : pc[t] = "unborn"
    BY DEF Init
  <1>2. \A c \in Conn : inbox[c] = <<>> /\ out[c] = <<>>
    BY DEF Init
  <1> QED
    BY <1>1, <1>2 DEF EInv, RequestsFit, Busy, BroadcastFits, EventsFit

LEMMA EventsInvariant == Spec => [](TInv /\ Serves /\ EInv)
  <1>1. Init => EInv
    BY InitEInv
  <1>2. TInv /\ Serves /\ EInv /\ [Next]_vars => EInv'
    BY NextEInv
  <1> QED
    BY <1>1, <1>2, TypesInvariant, PTL DEF Spec

\* Whichever thread has read a message, from whichever connection it reads: an
\* event goes to another client than the one it names as its sender, and carries
\* a message this one has sent (handleMessage and broadcastMessageToChannel), as
\* long as no broadcast reads a descriptor that main() has yet to write.
THEOREM EventsComeFromOthersHolds == Spec => []EventsComeFromOthers
  <1>1. TInv /\ EInv => EventsComeFromOthers
    <2> SUFFICES ASSUME TInv, EInv, NEW c \in Conn, NEW k \in Parts(c, "event")
                 PROVE  /\ out[c][k].val[1] # c
                        /\ Contains(asked[out[c][k].val[1]], out[c][k].req)
      BY DEF EventsComeFromOthers
    <2>1. PICK d, r : d = out[c][k].val[1] /\ r = out[c][k].req
      OBVIOUS
    <2>2. d \in Conn /\ d # c /\ r \in AskedBy(d)
      BY <2>1 DEF Parts, EInv, EventsFit, Told
    <2>3. asked[d] \in Seq(Reqs)
      BY <2>2 DEF TInv, TypedNetwork
    <2>4. DOMAIN asked[d] = 1..Len(asked[d])
      BY <2>3, LenProperties
    <2>5. \E i \in 1..Len(asked[d]) : asked[d][i] = r
      BY <2>2, <2>4 DEF AskedBy
    <2> QED
      BY <2>1, <2>2, <2>5 DEF Contains
  <1> QED
    BY <1>1, EventsInvariant, PTL

-----------------------------------------------------------------------------
(* The tables, as long as two threads have not been at work on them at once.  *)

Shared == {"usernames", "rooms", "members"}
Working(t) == pc[t] \notin {"unborn", "loop", "head", "body"}
Uses(t, tab) == Working(t) /\ tab \in Touches(req[t])

\* A thread is in the handler of the request it has.
StepFits(t) ==
    /\ pc[t] \in {"load", "count", "grow", "publish", "put", "number"} =>
         req[t].rpc \in {"login", "create_room"}
    /\ pc[t] \in {"lookup", "enter"} => req[t].rpc = "join_room"
    /\ pc[t] = "collect" => req[t].rpc \in {"list_rooms", "list_users"}
    /\ pc[t] \in {"find", "each", "eventHead", "eventBody"} => req[t].rpc = "message"
    /\ pc[t] \in {"sendHead", "sendBody"} => req[t].rpc \notin {"message", "hello"}

\* What `raced' remembers; main() works on the memberships as well.
Apart ==
    /\ \A tab \in Shared \ raced : \A t, u \in Conn : Uses(t, tab) /\ Uses(u, tab) => t = u
    /\ "members" \notin raced /\ main # "accept" => \A t \in Conn : ~Uses(t, "members")

\* A table that nobody appends to is as long as its count, and has been written.
Whole(tab, n) == \A k \in 1..n : table[tab][k] # Junk
Clean(tab) == Len(table[tab]) = num[tab] /\ Whole(tab, num[tab])

Appends(t, tab) == pc[t] \in {"count", "grow", "publish", "put"} /\ Tab(t) = tab

\* How far a thread has come that appends to the table.
Midway(t, tab) ==
    /\ pc[t] = "count" => Clean(tab) /\ reg[t] = num[tab]
    /\ pc[t] \in {"grow", "publish"} =>
         num[tab] = Len(table[tab]) + 1 /\ Whole(tab, Len(table[tab]))
    /\ pc[t] = "publish" => reg[t] = num[tab] /\ old[t] = table[tab]
    /\ pc[t] = "put" => Len(table[tab]) = num[tab] /\ Whole(tab, num[tab] - 1)

TableFits(tab) ==
    /\ (\A t \in Conn : ~Appends(t, tab)) => Clean(tab)
    /\ \A t \in Conn : Appends(t, tab) => Midway(t, tab)

\* Everyone's room has been written, but the newcomer's.
MembersFit ==
    /\ Len(roomsByUser) = IF main \in {"addUser", "growUsers", "copyRooms", "growRooms"} THEN accepted - 1
                          ELSE accepted
    /\ \A k \in 1..(IF main = "accept" THEN accepted ELSE accepted - 1) : roomsByUser[k] # Junk
    /\ main = "growRooms" => old[0] = roomsByUser

MembersSafe == "members" \notin raced => MembersFit
TablesFit == \A tab \in Tables \ raced : TableFits(tab)

\* The thread main() is about to start.
NewestWaits == main # "accept" => pc[accepted] = "unborn"

Undamaged == (\A t \in Conn : StepFits(t)) /\ Apart /\ TablesFit /\ MembersSafe /\ NewestWaits

DInv == (fault = "none" => Undamaged) /\ DamageNeedsRace

LEMMA TouchesShared == \A r : Touches(r) \subseteq Shared
  BY DEF Touches, Shared

\* A thread that appends to a table uses it.
LEMMA AppendsUses ==
    ASSUME NEW t \in Conn, StepFits(t),
           pc[t] \in {"load", "count", "grow", "publish", "put", "number"}
    PROVE  Uses(t, Tab(t)) /\ Tab(t) \in Tables
  BY DEF StepFits, Uses, Working, Touches, Tab, Tables

\* Nobody else appends to a table that is not raced.
LEMMA AloneOnTable ==
    ASSUME Undamaged, NEW tab \in Tables \ raced, NEW t \in Conn, Uses(t, tab)
    PROVE  /\ \A u \in Conn : u # t => ~Uses(u, tab) /\ ~Appends(u, tab)
           /\ ~Appends(t, tab) => Clean(tab)
  <1>1. \A u \in Conn : Appends(u, tab) => Uses(u, tab)
    BY AppendsUses DEF Undamaged, Appends
  <1>2. tab \in Shared \ raced
    BY DEF Tables, Shared
  <1>3. \A u \in Conn : u # t => ~Uses(u, tab)
    BY <1>2 DEF Undamaged, Apart
  <1> QED
    BY <1>1, <1>3 DEF Undamaged, TablesFit, TableFits

\* A step after which no more is used than before.
LEMMA ApartStays ==
    ASSUME Apart, raced \subseteq raced', main' = main \/ main' = "accept",
           \A u \in Conn : \A tab \in Shared : Uses(u, tab)' => Uses(u, tab)
    PROVE  Apart'
  <1>1. "members" \in Shared
    BY DEF Shared
  <1> QED
    BY <1>1 DEF Apart

\* A step that leaves a table alone, and who appends to it.
LEMMA TableStays ==
    ASSUME NEW tab \in Tables, TableFits(tab), num'[tab] = num[tab], table'[tab] = table[tab],
           \A u \in Conn : Appends(u, tab)' <=> Appends(u, tab),
           \A u \in Conn : Appends(u, tab) => /\ pc'[u] = pc[u] /\ reg'[u] = reg[u]
                                              /\ old'[u] = old[u]
    PROVE  TableFits(tab)'
  <1>1. Clean(tab)' <=> Clean(tab)
    BY DEF Clean, Whole
  <1>2. ASSUME NEW u \in Conn, Appends(u, tab)' PROVE Midway(u, tab)'
    <2>1. Appends(u, tab) /\ Midway(u, tab)
      BY <1>2 DEF TableFits
    <2>2. pc'[u] = pc[u] /\ reg'[u] = reg[u] /\ old'[u] = old[u]
      BY <2>1
    <2>3. \A n : Whole(tab, n)' <=> Whole(tab, n)
      BY DEF Whole
    <2> QED
      BY <1>1, <2>1, <2>2, <2>3 DEF Midway
  <1> QED
    BY <1>1, <1>2 DEF TableFits

LEMMA OthersStay ==
    ASSUME TInv, NEW t \in Conn, UNCHANGED pc \/ \E step : pc' = [pc EXCEPT ![t] = step],
           \A u \in Conn : u # t => req'[u] = req[u]
    PROVE  /\ \A u \in Conn : u # t => pc'[u] = pc[u] /\ (StepFits(u)' <=> StepFits(u))
           /\ \A u \in Conn : \A tab : u # t => (Uses(u, tab)' <=> Uses(u, tab))
           /\ \A u \in Conn : \A tab : u # t => (Appends(u, tab)' <=> Appends(u, tab))
  <1>1. \A u \in Conn : u # t => pc'[u] = pc[u]
    BY DEF TInv, IInv, StartedInOrder
  <1> QED
    BY <1>1 DEF StepFits, Uses, Working, Appends, Tab

\* A step of a thread that does not append.
LEMMA CalmStep ==
    ASSUME TInv, Undamaged, NEW t \in Conn, NEW step,
           UNCHANGED <<main, accepted, num, table, raced>>,
           pc' = [pc EXCEPT ![t] = step],
           pc[t] \notin {"unborn", "count", "grow", "publish", "put"},
           step \notin {"count", "grow", "publish", "put"},
           \A u \in Conn : u # t => req'[u] = req[u] /\ reg'[u] = reg[u] /\ old'[u] = old[u],
           StepFits(t)', \A tab \in Shared : Uses(t, tab)' => Uses(t, tab), MembersSafe'
    PROVE  Undamaged'
  <1>1. /\ \A u \in Conn : u # t => pc'[u] = pc[u] /\ (StepFits(u)' <=> StepFits(u))
        /\ \A u \in Conn : \A tab : u # t => (Uses(u, tab)' <=> Uses(u, tab))
        /\ \A u \in Conn : \A tab : u # t => (Appends(u, tab)' <=> Appends(u, tab))
    BY OthersStay
  <1>2. pc'[t] = step
    BY DEF TInv, IInv, StartedInOrder
  <1>3. \A u \in Conn : StepFits(u)'
    BY <1>1 DEF Undamaged
  <1>4. Apart'
    <2>1. \A u \in Conn : \A tab \in Shared : Uses(u, tab)' => Uses(u, tab)
      BY <1>1
    <2>2. Apart /\ raced \subseteq raced' /\ main' = main
      BY DEF Undamaged
    <2> QED
      BY <2>1, <2>2, ApartStays
  <1>5. \A tab : ~Appends(t, tab) /\ ~Appends(t, tab)'
    BY <1>2 DEF Appends
  <1>6. ASSUME NEW tab \in Tables \ raced PROVE TableFits(tab)'
    <2>1. TableFits(tab)
      BY DEF Undamaged, TablesFit
    <2>2. \A u \in Conn : Appends(u, tab)' <=> Appends(u, tab)
      BY <1>1, <1>5
    <2>3. \A u \in Conn : Appends(u, tab) => pc'[u] = pc[u] /\ reg'[u] = reg[u] /\ old'[u] = old[u]
      BY <1>1, <1>5
    <2>4. tab \in Tables /\ num'[tab] = num[tab] /\ table'[tab] = table[tab]
      OBVIOUS
    <2> QED
      BY <2>1, <2>2, <2>3, <2>4, TableStays
  <1>7. TablesFit'
    BY <1>6 DEF TablesFit
  <1>8. NewestWaits'
    BY <1>1, <1>2 DEF Undamaged, NewestWaits
  <1> QED
    BY <1>3, <1>4, <1>7, <1>8 DEF Undamaged

LEMMA MembersStay ==
    ASSUME MembersSafe, UNCHANGED <<roomsByUser, main, accepted, old, raced>>
    PROVE  MembersSafe'
  BY DEF MembersSafe, MembersFit

LEMMA AcceptDInv == ASSUME TInv, Undamaged, MainStep(Accept) PROVE Undamaged'
  <1>1. /\ UNCHANGED <<pc, req, reg, num, table, old, roomsByUser>>
        /\ main = "accept" /\ main' = "addUser" /\ accepted' = accepted + 1
        /\ accepted < MaxConnections
        /\ raced' = raced \cup (InUseBy(Conn) \cap {"members"})
    BY DEF MainStep, Accept, appended, locals, users
  <1>2. /\ \A u \in Conn : StepFits(u)' <=> StepFits(u)
        /\ \A u \in Conn : \A tab : Uses(u, tab)' <=> Uses(u, tab)
        /\ \A u \in Conn : \A tab : Appends(u, tab)' <=> Appends(u, tab)
    BY <1>1 DEF StepFits, Uses, Working, Appends, Tab
  <1>3. "members" \notin raced' => \A t \in Conn : ~Uses(t, "members")
    <2> SUFFICES ASSUME NEW t \in Conn, Uses(t, "members") PROVE "members" \in raced'
      OBVIOUS
    <2>1. t \in {v \in Conn : pc[v] \notin {"unborn", "loop", "head", "body"}}
      BY DEF Uses, Working
    <2>2. "members" \in InUseBy(Conn)
      BY <2>1 DEF InUseBy, Uses
    <2> QED
      BY <1>1, <2>2
  <1>4. Apart'
    <2>1. \A u \in Conn : \A tab \in Shared : Uses(u, tab)' => Uses(u, tab)
      BY <1>2
    <2>2. Apart /\ raced \subseteq raced'
      BY <1>1 DEF Undamaged
    <2>3. "members" \in Shared
      BY DEF Shared
    <2> QED
      BY <1>3, <2>1, <2>2, <2>3 DEF Apart
  <1>5. TablesFit'
    <2> SUFFICES ASSUME NEW tab \in Tables \ raced' PROVE TableFits(tab)'
      BY DEF TablesFit
    <2>1. TableFits(tab) /\ tab \in Tables
      BY <1>1 DEF Undamaged, TablesFit
    <2>2. \A u \in Conn : Appends(u, tab)' <=> Appends(u, tab)
      BY <1>2
    <2>3. /\ num'[tab] = num[tab] /\ table'[tab] = table[tab]
          /\ \A u \in Conn : pc'[u] = pc[u] /\ reg'[u] = reg[u] /\ old'[u] = old[u]
      BY <1>1
    <2> QED
      BY <2>1, <2>2, <2>3, TableStays
  <1>6. accepted \in Nat
    BY DEF TInv, IInv, SlotIsNewest
  <1>7. MembersSafe'
    BY <1>1, <1>6 DEF Undamaged, MembersSafe, MembersFit
  <1>8. NewestWaits'
    <2>1. accepted + 1 \in Conn
      BY <1>1, <1>6, ServerAssumption DEF Conn
    <2>2. pc[accepted + 1] = "unborn"
      BY <1>6, <2>1 DEF TInv, IInv, StartedInOrder
    <2> QED
      BY <1>1, <2>2 DEF NewestWaits
  <1> QED
    BY <1>2, <1>4, <1>5, <1>7, <1>8 DEF Undamaged

LEMMA RegisterDInv ==
    ASSUME TInv, Undamaged, MainStep(AcceptFails) \/ MainStep(Register)
    PROVE  Undamaged'
  <1>1. /\ UNCHANGED <<req, reg, num, table, raced, accepted>>
        /\ AcceptFails \/ AddUser \/ PutUser \/ CopyRooms \/ GrowRooms \/ Start
    BY DEF MainStep, AcceptFails, Register, AddUser, PutUser, CopyRooms, GrowRooms, Start,
           appended, locals
  <1>2. /\ accepted \in Nat /\ old \in [Conn \cup {0} -> Seq(Entries)]
        /\ connectedUsers \in Seq(Conn \cup {Junk}) /\ roomsByUser \in Seq(Entries)
        /\ pc \in [Conn -> Step \cup {"unborn"}]
        /\ main # "accept" => accepted \in Conn
    BY DEF TInv, IInv, SlotIsNewest, StartedInOrder, TypedMain, TypedTables, Conn
  <1>3. pc' = pc \/ (main = "start" /\ pc' = [pc EXCEPT ![accepted] = "loop"])
    <2>1. main = "start" => Len(connectedUsers) = accepted
      BY DEF TInv, IInv, SlotIsNewest
    <2> QED
      BY <1>1, <2>1 DEF AcceptFails, AddUser, PutUser, CopyRooms, GrowRooms, Start
  <1>4. \A u \in Conn : pc'[u] = pc[u] \/ (pc[u] = "unborn" /\ pc'[u] = "loop")
    BY <1>2, <1>3 DEF Undamaged, NewestWaits
  <1>5. /\ \A u \in Conn : StepFits(u) => StepFits(u)'
        /\ \A u \in Conn : \A tab : Uses(u, tab)' <=> Uses(u, tab)
        /\ \A u \in Conn : \A tab : Appends(u, tab)' <=> Appends(u, tab)
    BY <1>1, <1>4 DEF StepFits, Uses, Working, Appends, Tab
  <1>6. Apart'
    <2>1. main # "accept" \/ main' = main
      BY <1>1 DEF AcceptFails, AddUser, PutUser, CopyRooms, GrowRooms, Start
    <2>2. \A u \in Conn : \A tab \in Shared : Uses(u, tab)' => Uses(u, tab)
      BY <1>5
    <2>3. Apart /\ raced' = raced /\ "members" \in Shared
      BY <1>1 DEF Undamaged, Shared
    <2> QED
      BY <2>1, <2>2, <2>3 DEF Apart
  <1>7. TablesFit'
    <2> SUFFICES ASSUME NEW tab \in Tables \ raced' PROVE TableFits(tab)'
      BY DEF TablesFit
    <2>1. TableFits(tab) /\ tab \in Tables
      BY <1>1 DEF Undamaged, TablesFit
    <2>2. \A u \in Conn : Appends(u, tab) => pc'[u] = pc[u]
      BY <1>4 DEF Appends
    <2>3. \A u \in Conn : old'[u] = old[u]
      <3>1. \A u \in Conn : u # 0
        BY DEF Conn
      <3> QED
        BY <1>1, <1>2, <3>1 DEF AcceptFails, AddUser, PutUser, CopyRooms, GrowRooms, Start
    <2>4. \A u \in Conn : Appends(u, tab)' <=> Appends(u, tab)
      BY <1>5
    <2>5. num'[tab] = num[tab] /\ table'[tab] = table[tab] /\ \A u \in Conn : reg'[u] = reg[u]
      BY <1>1
    <2> QED
      BY <2>1, <2>2, <2>3, <2>4, <2>5, TableStays
  <1>8. MembersSafe'
    <2> SUFFICES ASSUME "members" \notin raced PROVE MembersFit'
      BY <1>1 DEF MembersSafe
    <2>1. MembersFit
      BY DEF Undamaged, MembersSafe
    <2>2. CASE AcceptFails \/ AddUser \/ PutUser
      BY <1>1, <2>1, <2>2 DEF MembersFit, AcceptFails, AddUser, PutUser, users
    <2>3. CASE CopyRooms
      <3>1. old'[0] = roomsByUser
        BY <1>2, <2>3 DEF CopyRooms
      <3> QED
        BY <1>1, <2>1, <2>3, <3>1 DEF MembersFit, CopyRooms, users
    <2>4. CASE GrowRooms
      <3>1. roomsByUser' = Append(roomsByUser, Junk) /\ main = "growRooms" /\ main' = "start"
        BY <2>1, <2>4 DEF MembersFit, GrowRooms
      <3>2. Junk \in Entries
        BY DEF Entries
      <3>3. /\ Len(roomsByUser') = Len(roomsByUser) + 1
            /\ \A k \in 1..Len(roomsByUser) : roomsByUser'[k] = roomsByUser[k]
        BY <1>2, <3>1, <3>2, AppendProperties
      <3> QED
        BY <1>1, <1>2, <2>1, <3>1, <3>3 DEF MembersFit
    <2>5. CASE Start
      <3>1. /\ main = "start" /\ main' = "accept"
            /\ roomsByUser' = [roomsByUser EXCEPT ![accepted] = 0]
        <4>1. main = "start" => Len(connectedUsers) = accepted
          BY DEF TInv, IInv, SlotIsNewest
        <4> QED
          BY <2>5, <4>1 DEF Start
      <3>2. Len(roomsByUser) = accepted /\ \A k \in 1..accepted - 1 : roomsByUser[k] # Junk
        BY <2>1, <3>1 DEF MembersFit
      <3>3. DOMAIN roomsByUser' = 1..accepted /\ \A k \in 1..accepted :
              roomsByUser'[k] = IF k = accepted THEN 0 ELSE roomsByUser[k]
        BY <1>2, <3>1, <3>2, LenProperties
      <3>4. Len(roomsByUser') = accepted
        <4>1. roomsByUser' \in Seq(Entries)
          BY <1>2, <3>1, StillLong DEF Entries
        <4> QED
          BY <1>2, <3>3, <4>1, LenProperties
      <3>5. \A k \in 1..accepted : roomsByUser'[k] # Junk
        BY <1>2, <3>2, <3>3 DEF Junk
      <3> QED
        BY <1>1, <3>1, <3>4, <3>5 DEF MembersFit
    <2> QED
      BY <1>1, <2>2, <2>3, <2>4, <2>5
  <1>9. NewestWaits'
    BY <1>1, <1>2, <1>3 DEF Undamaged, NewestWaits, AcceptFails, AddUser, PutUser, CopyRooms,
                            GrowRooms, Start
  <1> QED
    BY <1>5, <1>6, <1>7, <1>8, <1>9 DEF Undamaged

\* A thread starts on a request: `raced' has it if a table is in use.
LEMMA DispatchDInv ==
    ASSUME TInv, Undamaged, NEW t \in Conn, NEW r \in Reqs, Dispatch(t, r), fault = "none",
           pc[t] \in {"head", "body"}, req'[t] = r, \A u \in Conn : u # t => req'[u] = req[u],
           UNCHANGED <<main, accepted, num, table, roomsByUser, old, reg>>
    PROVE  DInv'
  <1>1. CASE r.rpc = "hello"
    BY <1>1 DEF Dispatch, Break, DInv, DamageNeedsRace
  <1>2. CASE r.rpc # "hello"
    <2>1. pc' = [pc EXCEPT ![t] = FirstStep(r)] /\ fault' = "none"
      BY <1>2 DEF Dispatch, Goto
    <2>2. raced' = raced \cup (Touches(r) \cap
             (InUseBy(Conn \ {t}) \cup IF main = "accept" THEN {} ELSE {"members"}))
      BY DEF Dispatch
    <2>3. pc'[t] = FirstStep(r)
      BY <2>1 DEF TInv, IInv, StartedInOrder
    <2>4. /\ \A u \in Conn : u # t => pc'[u] = pc[u] /\ (StepFits(u)' <=> StepFits(u))
          /\ \A u \in Conn : \A tab : u # t => (Uses(u, tab)' <=> Uses(u, tab))
          /\ \A u \in Conn : \A tab : u # t => (Appends(u, tab)' <=> Appends(u, tab))
      BY <2>1, OthersStay
    <2>5. StepFits(t)'
      <3>1. r.rpc \in Calls
        BY DEF Reqs
      <3> QED
        BY <1>2, <2>3, <3>1 DEF StepFits, FirstStep, Calls
    <2>6. \A tab : ~Appends(t, tab) /\ ~Appends(t, tab)' /\ ~Uses(t, tab)
      BY <2>3 DEF Appends, FirstStep, Uses, Working
    <2>7. \A tab : Uses(t, tab)' => tab \in Touches(r)
      BY DEF Uses
    <2>8. ASSUME NEW u \in Conn, u # t, NEW tab, Uses(u, tab), Uses(t, tab)' PROVE tab \in raced'
      <3>1. u \in {v \in Conn \ {t} : pc[v] \notin {"unborn", "loop", "head", "body"}}
        BY <2>8 DEF Uses, Working
      <3>2. tab \in InUseBy(Conn \ {t})
        BY <2>8, <3>1 DEF InUseBy, Uses
      <3> QED
        BY <2>2, <2>7, <2>8, <3>2
    <2>9. main # "accept" /\ Uses(t, "members")' => "members" \in raced'
      BY <2>2, <2>7
    <2>10. Apart /\ raced \subseteq raced' /\ "members" \in Shared
      BY <2>2 DEF Undamaged, Shared
    <2>11. Apart'
      <3>1. ASSUME NEW tab \in Shared \ raced', NEW u \in Conn, NEW v \in Conn,
                   Uses(u, tab)', Uses(v, tab)'
            PROVE  u = v
        <4>1. CASE u = t \/ v = t
          BY <2>4, <2>8, <3>1, <4>1
        <4>2. CASE u # t /\ v # t
          BY <2>4, <2>10, <3>1, <4>2 DEF Apart
        <4> QED
          BY <4>1, <4>2
      <3>2. ASSUME "members" \notin raced', main' # "accept", NEW u \in Conn
            PROVE  ~Uses(u, "members")'
        BY <2>4, <2>9, <2>10, <3>2 DEF Apart
      <3> QED
        BY <3>1, <3>2 DEF Apart
    <2>12. TablesFit'
      <3> SUFFICES ASSUME NEW tab \in Tables \ raced' PROVE TableFits(tab)'
        BY DEF TablesFit
      <3>1. TableFits(tab) /\ tab \in Tables
        BY <2>10 DEF Undamaged, TablesFit
      <3>2. \A u \in Conn : Appends(u, tab)' <=> Appends(u, tab)
        BY <2>4, <2>6
      <3>3. \A u \in Conn : Appends(u, tab) => pc'[u] = pc[u]
        BY <2>4, <2>6
      <3>4. /\ num'[tab] = num[tab] /\ table'[tab] = table[tab]
            /\ \A u \in Conn : reg'[u] = reg[u] /\ old'[u] = old[u]
        OBVIOUS
      <3> QED
        BY <3>1, <3>2, <3>3, <3>4, TableStays
    <2>13. MembersSafe'
      BY <2>10 DEF Undamaged, MembersSafe, MembersFit
    <2>14. NewestWaits'
      <3>1. main # "accept" => pc[accepted] = "unborn" /\ accepted \in Conn
        BY DEF Undamaged, NewestWaits, TInv, IInv, SlotIsNewest, TypedMain, Conn
      <3> QED
        BY <2>4, <3>1 DEF NewestWaits
    <2>15. \A u \in Conn : StepFits(u)'
      BY <2>4, <2>5 DEF Undamaged
    <2> QED
      BY <2>1, <2>11, <2>12, <2>13, <2>14, <2>15 DEF Undamaged, DInv, DamageNeedsRace
  <1> QED
    BY <1>1, <1>2

\* A thread that meets what a realloc has freed is not alone on the table.
LEMMA FreedNeedsRace ==
    ASSUME Undamaged, NEW t \in Conn, ReadsFreed(t)
    PROVE  raced # {}
  <1> SUFFICES ASSUME raced = {} PROVE FALSE
    OBVIOUS
  <1>1. StepFits(t) /\ Apart
    BY DEF Undamaged
  <1>2. PICK block : block \in Reads(t) /\ block \in Freed
    BY DEF ReadsFreed
  <1>3. /\ block \in Tables => Uses(t, block)
        /\ block \in {"connectedUsers", "roomsByUser"} => Uses(t, "members")
    <2>1. CASE pc[t] = "put"
      <3>1. block = Tab(t) /\ block \in Tables
        BY <1>2, <2>1 DEF Reads, Tab, Tables
      <3> QED
        BY <1>1, <2>1, <3>1, AppendsUses DEF Tables
    <2>2. CASE pc[t] # "put"
      BY <1>1, <1>2, <2>2, FreedAt DEF Reads, StepFits, Uses, Working, Touches, Tables
    <2> QED
      BY <2>1, <2>2
  <1>4. CASE \E u \in Conn : pc[u] = "publish" /\ block = Tab(u)
    <2>1. PICK u \in Conn : pc[u] = "publish" /\ block = Tab(u)
      BY <1>4
    <2>2. Uses(u, block) /\ block \in Tables /\ u # t
      BY <2>1, AppendsUses, FreedAt DEF Undamaged
    <2> QED
      BY <1>1, <1>3, <2>2 DEF Apart, Shared, Tables
  <1>5. CASE block \in {"connectedUsers", "roomsByUser"} /\ main \in {"growUsers", "growRooms"}
    BY <1>1, <1>3, <1>5 DEF Apart
  <1> QED
    BY <1>2, <1>4, <1>5 DEF Freed

LEMMA ReceiveDInv ==
    ASSUME TInv, Undamaged, Serves, fault = "none", NEW t \in Conn, UNCHANGED accepting,
           ReadSlot(t) \/ RecvHead(t) \/ RecvBody(t) \/ RecvFails(t) \/ ReadsFreed(t)
    PROVE  DInv'
  <1>1. MembersSafe /\ (UNCHANGED <<roomsByUser, main, accepted, old, raced>> => MembersSafe')
    BY MembersStay DEF Undamaged
  <1>2. CASE ReadSlot(t)
    <2>1. /\ UNCHANGED <<main, accepted, num, table, raced, req, roomsByUser, old>>
          /\ pc[t] = "loop" /\ pc' = [pc EXCEPT ![t] = "head"] /\ fault' = fault
          /\ reg' = [reg EXCEPT ![t] = 0]
      BY <1>2 DEF ReadSlot, Goto, Set, accepting, users, appended
    <2>2. \A u \in Conn : u # t => reg'[u] = reg[u]
      BY <2>1 DEF TInv, TypedThreads
    <2>3. pc'[t] = "head"
      BY <2>1 DEF TInv, IInv, StartedInOrder
    <2>4. StepFits(t)' /\ \A tab \in Shared : ~Uses(t, tab)'
      BY <2>3 DEF StepFits, Uses, Working
    <2>5. Undamaged'
      BY <1>1, <2>1, <2>2, <2>4, CalmStep
    <2> QED
      BY <2>1, <2>5 DEF DInv, DamageNeedsRace
  <1>3. CASE RecvFails(t)
    BY <1>3 DEF RecvFails, Break, DInv, DamageNeedsRace
  <1>6. CASE ReadsFreed(t)
    BY <1>6, FreedNeedsRace DEF ReadsFreed, Break, DInv, DamageNeedsRace
  <1>4. CASE RecvHead(t)
    <2>1. PICK c, part : c = fd[t] /\ part = Head(inbox[c])
      OBVIOUS
    <2>2. /\ UNCHANGED <<main, accepted, num, table, roomsByUser, old, reg>>
          /\ pc[t] = "head" /\ req' = [req EXCEPT ![t] = part.req]
          /\ inbox[c] # <<>> /\ inbox' = [inbox EXCEPT ![c] = Tail(@)]
          /\ fd[t] # NoFd
      BY <1>4, <2>1 DEF RecvHead, accepting, users, appended
    <2>3. c \in Conn
      BY <2>1, <2>2 DEF TInv, TypedThreads
    <2>4. part.req \in Reqs
      BY <2>1, <2>2, <2>3, Taken DEF TInv, InParts
    <2>5. req'[t] = part.req /\ \A u \in Conn : u # t => req'[u] = req[u]
      BY <2>2 DEF TInv, TypedThreads
    <2>6. \/ Break("misframed")
          \/ pc' = [pc EXCEPT ![t] = "body"] /\ UNCHANGED <<fault, raced>>
          \/ Dispatch(t, part.req)
      BY <1>4, <2>1 DEF RecvHead, Goto
    <2>7. CASE Break("misframed")
      BY <2>7 DEF Break, DInv, DamageNeedsRace
    <2>8. CASE pc' = [pc EXCEPT ![t] = "body"] /\ UNCHANGED <<fault, raced>>
      <3>1. pc'[t] = "body"
        BY <2>8 DEF TInv, IInv, StartedInOrder
      <3>2. StepFits(t)' /\ \A tab \in Shared : ~Uses(t, tab)'
        BY <3>1 DEF StepFits, Uses, Working
      <3>3. MembersSafe'
        BY <1>1, <2>2, <2>8
      <3>4. Undamaged'
        BY <2>2, <2>5, <2>8, <3>2, <3>3, CalmStep
      <3> QED
        BY <2>8, <3>4 DEF DInv, DamageNeedsRace
    <2>9. CASE Dispatch(t, part.req)
      BY <2>2, <2>4, <2>5, <2>9, DispatchDInv
    <2> QED
      BY <2>6, <2>7, <2>8, <2>9
  <1>5. CASE RecvBody(t)
    <2>1. /\ UNCHANGED <<main, accepted, num, table, roomsByUser, old, reg, req>> /\ pc[t] = "body"
          /\ Dispatch(t, req[t]) \/ Break("misframed")
      BY <1>5 DEF RecvBody, accepting, users, appended, locals
    <2>2. req[t] \in Reqs
      BY DEF TInv, TypedThreads
    <2>3. CASE Break("misframed")
      BY <2>3 DEF Break, DInv, DamageNeedsRace
    <2>4. CASE Dispatch(t, req[t])
      BY <2>1, <2>2, <2>4, DispatchDInv
    <2> QED
      BY <2>1, <2>3, <2>4
  <1> QED
    BY <1>2, <1>3, <1>4, <1>5, <1>6

\* A step of the thread that appends to the table: what is left to show when the
\* table is not raced.
LEMMA AppendStep ==
    ASSUME TInv, Undamaged, NEW t \in Conn, NEW step, NEW tab, tab = Tab(t),
           pc[t] \in {"load", "count", "grow", "publish", "put"},
           step \in {"count", "grow", "publish", "put", "number"},
           pc' = [pc EXCEPT ![t] = step],
           UNCHANGED <<main, accepted, roomsByUser, req, raced>>,
           \A other \in Tables : other # tab => /\ num'[other] = num[other]
                                               /\ table'[other] = table[other],
           \A u \in Conn \cup {0} : u # t => reg'[u] = reg[u] /\ old'[u] = old[u],
           tab \notin raced => \/ step = "number" /\ Clean(tab)'
                               \/ step # "number" /\ Midway(t, tab)'
    PROVE  Undamaged'
  <1>1. /\ \A u \in Conn : u # t => pc'[u] = pc[u] /\ (StepFits(u)' <=> StepFits(u))
        /\ \A u \in Conn : \A other : u # t => (Uses(u, other)' <=> Uses(u, other))
        /\ \A u \in Conn : \A other : u # t => (Appends(u, other)' <=> Appends(u, other))
    BY OthersStay
  <1>2. pc'[t] = step /\ StepFits(t)
    BY DEF TInv, IInv, StartedInOrder, Undamaged
  <1>3. StepFits(t)'
    BY <1>2 DEF StepFits
  <1>4. Uses(t, tab) /\ tab \in Tables
    BY <1>2, AppendsUses
  <1>5. \A other : Uses(t, other)' => Uses(t, other)
    BY <1>2 DEF Uses, Working
  <1>6. Apart'
    <2>1. \A u \in Conn : \A other \in Shared : Uses(u, other)' => Uses(u, other)
      BY <1>1, <1>5
    <2>2. Apart /\ raced \subseteq raced' /\ main' = main
      BY DEF Undamaged
    <2> QED
      BY <2>1, <2>2, ApartStays
  <1>7. \A other : other # tab => ~Appends(t, other) /\ ~Appends(t, other)'
    BY DEF Appends, Tab
  <1>8. ASSUME NEW other \in Tables \ raced, other # tab PROVE TableFits(other)'
    <2>1. TableFits(other) /\ other \in Tables
      BY DEF Undamaged, TablesFit
    <2>2. \A u \in Conn : Appends(u, other)' <=> Appends(u, other)
      BY <1>1, <1>7, <1>8
    <2>3. \A u \in Conn : Appends(u, other) => /\ pc'[u] = pc[u] /\ reg'[u] = reg[u]
                                              /\ old'[u] = old[u]
      BY <1>1, <1>7, <1>8
    <2>4. num'[other] = num[other] /\ table'[other] = table[other]
      BY <1>8
    <2> QED
      BY <2>1, <2>2, <2>3, <2>4, TableStays
  <1>9. ASSUME tab \notin raced PROVE TableFits(tab)'
    <2>1. \A u \in Conn : u # t => ~Appends(u, tab)
      BY <1>4, <1>9, AloneOnTable
    <2>2. \A u \in Conn : u # t => ~Appends(u, tab)'
      BY <1>1, <2>1
    <2>3. Appends(t, tab)' <=> step # "number"
      BY <1>2 DEF Appends, Tab
    <2> QED
      BY <1>9, <2>2, <2>3 DEF TableFits
  <1>10. TablesFit'
    BY <1>8, <1>9 DEF TablesFit
  <1>11. MembersSafe'
    <2>1. t # 0
      BY DEF Conn
    <2>2. old'[0] = old[0]
      BY <2>1
    <2> QED
      BY <2>2 DEF Undamaged, MembersSafe, MembersFit
  <1>12. NewestWaits'
    BY <1>1 DEF Undamaged, NewestWaits
  <1> QED
    BY <1>1, <1>3, <1>6, <1>10, <1>11, <1>12 DEF Undamaged

LEMMA AppendDInv ==
    ASSUME TInv, Undamaged, fault = "none", NEW t \in Conn, UNCHANGED accepting, HandleAppend(t)
    PROVE  DInv'
  <1>1. PICK tab : tab = Tab(t)
    OBVIOUS
  <1>2. /\ tab \in Tables /\ pc \in [Conn -> Step \cup {"unborn"}] /\ reg \in [Conn -> Nat]
        /\ num \in [Tables -> Nat] /\ table \in [Tables -> Seq(Entries)]
        /\ old \in [Conn \cup {0} -> Seq(Entries)] /\ req[t] \in Reqs
    BY <1>1 DEF Tab, Tables, TInv, IInv, StartedInOrder, TypedTables, TypedThreads
  <1>3. /\ UNCHANGED <<main, accepted, roomsByUser, req, raced>>
        /\ pc[t] \in {"load", "count", "grow", "publish", "put", "number"}
        /\ StepFits(t)
    BY DEF HandleAppend, LoadCount, StoreCount, Grow, Publish, Put, Number, accepting, users, locals,
           Undamaged
  <1>4. ASSUME tab \notin raced
        PROVE  /\ \A u \in Conn : u # t => ~Appends(u, tab)
               /\ pc[t] = "load" => Clean(tab)
               /\ pc[t] \in {"count", "grow", "publish", "put"} => Midway(t, tab)
    <2>1. Uses(t, tab)
      BY <1>1, <1>3, AppendsUses
    <2>2. pc[t] = "load" => ~Appends(t, tab)
      BY DEF Appends
    <2>3. pc[t] \in {"count", "grow", "publish", "put"} => Appends(t, tab)
      BY <1>1 DEF Appends
    <2> QED
      BY <1>2, <1>4, <2>1, <2>2, <2>3, AloneOnTable DEF Undamaged, TablesFit, TableFits
  <1>5. Len(table[tab]) \in Nat /\ num[tab] \in Nat
    BY <1>2, LenProperties
  <1>6. ASSUME NEW step, Goto(t, step), Undamaged' PROVE DInv'
    BY <1>6 DEF Goto, DInv, DamageNeedsRace
  <1>7. CASE LoadCount(t)
    <2>1. pc[t] = "load" /\ reg' = [reg EXCEPT ![t] = num[tab]] /\ UNCHANGED <<num, table, old>>
          /\ pc' = [pc EXCEPT ![t] = "count"] /\ Goto(t, "count")
      BY <1>1, <1>7 DEF LoadCount, Set, Goto, appended
    <2>2. pc'[t] = "count" /\ reg'[t] = num[tab]
      BY <1>2, <2>1
    <2>3. tab \notin raced => Midway(t, tab)'
      BY <1>4, <2>1, <2>2 DEF Midway, Clean, Whole
    <2>4. \A u \in Conn \cup {0} : u # t => reg'[u] = reg[u] /\ old'[u] = old[u]
      BY <1>2, <2>1
    <2>5. Undamaged'
      BY <1>1, <1>3, <2>1, <2>3, <2>4, AppendStep
    <2> QED
      BY <1>6, <2>1, <2>5
  <1>8. CASE StoreCount(t)
    <2>1. pc[t] = "count" /\ num' = [num EXCEPT ![tab] = reg[t] + 1] /\ UNCHANGED <<reg, table, old>>
          /\ pc' = [pc EXCEPT ![t] = "grow"] /\ Goto(t, "grow")
      BY <1>1, <1>8 DEF StoreCount, Goto, locals
    <2>2. pc'[t] = "grow" /\ num'[tab] = reg[t] + 1
      BY <1>2, <2>1
    <2>3. tab \notin raced => Midway(t, tab)'
      BY <1>4, <1>5, <2>1, <2>2 DEF Midway, Clean, Whole
    <2>4. \A other \in Tables : other # tab => num'[other] = num[other] /\ table'[other] = table[other]
      BY <1>2, <2>1
    <2>5. Undamaged'
      BY <1>1, <1>3, <2>1, <2>3, <2>4, AppendStep
    <2> QED
      BY <1>6, <2>1, <2>5
  <1>9. CASE Grow(t)
    <2>1. pc[t] = "grow" /\ reg' = [reg EXCEPT ![t] = num[tab]] /\ UNCHANGED <<num, table>>
          /\ old' = [old EXCEPT ![t] = table[tab]]
          /\ pc' = [pc EXCEPT ![t] = "publish"] /\ Goto(t, "publish")
      BY <1>1, <1>9 DEF Grow, NewSize, Set, Goto, appended
    <2>2. pc'[t] = "publish" /\ reg'[t] = num[tab] /\ old'[t] = table[tab]
      BY <1>2, <2>1
    <2>3. tab \notin raced => Midway(t, tab)'
      BY <1>4, <2>1, <2>2 DEF Midway, Clean, Whole
    <2>4. \A u \in Conn \cup {0} : u # t => reg'[u] = reg[u] /\ old'[u] = old[u]
      BY <1>2, <2>1
    <2>5. Undamaged'
      BY <1>1, <1>3, <2>1, <2>3, <2>4, AppendStep
    <2> QED
      BY <1>6, <2>1, <2>5
  <1>10. CASE Publish(t)
    <2>1. pc[t] = "publish" /\ UNCHANGED <<num, reg>> /\ old' = [old EXCEPT ![t] = <<>>]
      BY <1>10 DEF Publish, locals
    <2>2. CASE Break("torn")
      <3>1. tab \in raced
        <4>1. PICK u \in Conn : u # t /\ pc[u] = "publish" /\ Tab(u) = tab
          BY <1>1, <1>10, <2>1, <2>2 DEF Publish, Break, Goto
        <4> QED
          BY <1>4, <4>1 DEF Appends
      <3> QED
        BY <1>3, <2>2, <3>1 DEF Break, DInv, DamageNeedsRace
    <2>3. CASE ~Break("torn")
      <3>1. Goto(t, "put") /\ pc' = [pc EXCEPT ![t] = "put"] /\ pc[t] = "publish"
        BY <1>10, <2>1, <2>3 DEF Publish, Goto
      <3>2. /\ \A other \in Tables : other # tab => /\ num'[other] = num[other]
                                                  /\ table'[other] = table[other]
            /\ tab \notin raced => Midway(t, tab)'
        <4>1. PICK block \in {old[t], table[tab]} :
                table' = [table EXCEPT ![tab] =
                   [k \in 1..reg[t] |-> IF k <= Len(block) THEN block[k] ELSE Junk]]
          BY <1>1, <1>10, <2>3 DEF Publish
        <4>2. /\ table'[tab] = [k \in 1..reg[t] |-> IF k <= Len(block) THEN block[k] ELSE Junk]
              /\ \A other \in Tables : other # tab => table'[other] = table[other]
          BY <1>2, <4>1
        <4>3. ASSUME tab \notin raced PROVE Midway(t, tab)'
          <5>1. /\ num[tab] = Len(table[tab]) + 1 /\ Whole(tab, Len(table[tab]))
                /\ reg[t] = num[tab] /\ block = table[tab]
            BY <1>4, <2>1, <4>1, <4>3 DEF Midway
          <5>2. Len(table'[tab]) = num[tab]
            <6>1. \A k \in 1..reg[t] : k <= Len(table[tab]) => table[tab][k] \in Entries
              BY <1>2, <1>5, ElementOfSeq
            <6>2. table'[tab] \in [1..reg[t] -> Entries]
              BY <4>2, <5>1, <6>1 DEF Entries
            <6>3. table'[tab] \in Seq(Entries)
              BY <1>5, <5>1, <6>2, SeqDef
            <6>4. DOMAIN table'[tab] = 1..num[tab]
              BY <4>2, <5>1
            <6> QED
              BY <1>5, <6>3, <6>4, LenProperties
          <5>3. \A k \in 1..num[tab] - 1 : table'[tab][k] # Junk
            BY <1>5, <4>2, <5>1 DEF Whole
          <5>4. pc'[t] = "put"
            BY <1>2, <3>1
          <5> QED
            BY <2>1, <5>2, <5>3, <5>4 DEF Midway, Whole
        <4> QED
          BY <2>1, <4>2, <4>3
      <3>3. \A u \in Conn \cup {0} : u # t => reg'[u] = reg[u] /\ old'[u] = old[u]
        BY <1>2, <2>1
      <3>4. Undamaged'
        BY <1>1, <1>3, <3>1, <3>2, <3>3, AppendStep
      <3> QED
        BY <1>6, <3>1, <3>4
    <2> QED
      BY <2>2, <2>3
  <1>11. CASE Put(t)
    <2>1. pc[t] = "put" /\ UNCHANGED <<num, reg, old>>
      BY <1>11 DEF Put, locals
    <2>2. CASE num[tab] > Len(table[tab])
      <3>1. Break("torn")
        BY <1>1, <1>11, <2>2 DEF Put
      <3>2. tab \in raced
        BY <1>4, <1>5, <2>1, <2>2 DEF Midway
      <3> QED
        BY <1>3, <3>1, <3>2 DEF Break, DInv, DamageNeedsRace
    <2>3. CASE ~(num[tab] > Len(table[tab]))
      <3>0. Names(req[t]) \subseteq Nat
        BY <1>2, NameTypes DEF Reqs
      <3>1. PICK name \in Nat :
              table' = [table EXCEPT ![tab][num[tab]] = name] /\ Goto(t, "number")
        BY <1>1, <1>11, <2>3, <3>0 DEF Put
      <3>2. /\ table'[tab] = [table[tab] EXCEPT ![num[tab]] = name]
            /\ \A other \in Tables : other # tab => table'[other] = table[other]
        BY <1>2, <3>1
      <3>3. name \in Nat /\ name # Junk
        BY DEF Junk
      <3>4. ASSUME tab \notin raced PROVE Clean(tab)'
        <4>1. Len(table[tab]) = num[tab] /\ Whole(tab, num[tab] - 1)
          BY <1>4, <2>1, <3>4 DEF Midway
        <4>2. DOMAIN table[tab] = 1..num[tab] /\ table'[tab] \in Seq(Entries)
          <5>1. table[tab] \in Seq(Entries) /\ name \in Entries
            BY <1>2, <3>3 DEF Entries
          <5>2. PICK s, k, e : s = table[tab] /\ k = num[tab] /\ e = name
            OBVIOUS
          <5>3. [s EXCEPT ![k] = e] \in Seq(Entries)
            BY <5>1, <5>2, StillLong
          <5>4. table'[tab] \in Seq(Entries)
            BY <3>2, <5>2, <5>3
          <5> QED
            BY <4>1, <5>1, <5>4, LenProperties
        <4>3. Len(table'[tab]) = num[tab]
          BY <1>5, <3>2, <4>2, LenProperties
        <4>4. \A k \in 1..num[tab] : table'[tab][k] # Junk
          BY <1>5, <3>2, <3>3, <4>1, <4>2 DEF Whole
        <4> QED
          BY <2>1, <4>3, <4>4 DEF Clean, Whole
      <3>5. pc' = [pc EXCEPT ![t] = "number"]
        BY <3>1 DEF Goto
      <3>6. Undamaged'
        BY <1>1, <1>3, <2>1, <3>2, <3>4, <3>5, AppendStep
      <3> QED
        BY <1>6, <3>1, <3>6
    <2> QED
      BY <2>2, <2>3
  <1>12. CASE Number(t)
    <2>1. /\ pc[t] = "number" /\ UNCHANGED <<num, table, old>> /\ Goto(t, "sendHead")
          /\ pc' = [pc EXCEPT ![t] = "sendHead"] /\ reg' = [reg EXCEPT ![t] = Answer(t)]
      BY <1>12 DEF Number, Goto, Set, appended
    <2>2. pc'[t] = "sendHead"
      BY <1>2, <2>1
    <2>3. StepFits(t)' /\ \A other \in Shared : Uses(t, other)' => Uses(t, other)
      BY <1>3, <2>1, <2>2 DEF StepFits, Uses, Working
    <2>4. \A u \in Conn : u # t => req'[u] = req[u] /\ reg'[u] = reg[u] /\ old'[u] = old[u]
      BY <1>2, <1>3, <2>1
    <2>5. MembersSafe'
      BY <1>3, <2>1, MembersStay DEF Undamaged
    <2>6. Undamaged'
      BY <1>3, <2>1, <2>3, <2>4, <2>5, CalmStep
    <2> QED
      BY <1>6, <2>1, <2>6
  <1> QED
    BY <1>7, <1>8, <1>9, <1>10, <1>11, <1>12 DEF HandleAppend

\* A table nobody else is at work on can be read.
LEMMA RoomsAreReadable ==
    ASSUME TInv, Undamaged, NEW t \in Conn, Uses(t, "rooms"), "rooms" \notin raced,
           pc[t] \notin {"count", "grow", "publish", "put"}
    PROVE  RoomsReadable
  <1>1. "rooms" \in Tables \ raced /\ ~Appends(t, "rooms")
    BY DEF Tables, Appends
  <1>2. Clean("rooms")
    BY <1>1, AloneOnTable
  <1>3. num["rooms"] \in Nat
    BY DEF TInv, TypedTables, Tables
  <1> QED
    BY <1>2, <1>3 DEF Clean, Whole, RoomsReadable

\* A client that is served has been registered, and has a room.
LEMMA ServedIsRegistered ==
    ASSUME TInv, Undamaged, Serves, NEW t \in Conn, Uses(t, "members"), "members" \notin raced
    PROVE  /\ main = "accept" /\ Len(roomsByUser) = accepted /\ numUsers = accepted
           /\ IndexOf(fd[t]) = {fd[t]} /\ Max(IndexOf(fd[t])) = fd[t]
           /\ RoomOf(fd[t]) # Junk
  <1>1. main = "accept" /\ MembersFit
    BY DEF Undamaged, Apart, MembersSafe
  <1>2. /\ Len(roomsByUser) = accepted /\ numUsers = accepted /\ accepted \in Nat
        /\ \A k \in 1..accepted : roomsByUser[k] # Junk
    BY <1>1 DEF MembersFit, TInv, IInv, SlotIsNewest, numUsers
  <1>3. fd[t] \in 1..accepted /\ fd[t] \in Conn
    BY <1>2 DEF Uses, Working, Serves, TInv, TypedThreads, Conn
  <1>4. IndexOf(fd[t]) = {fd[t]} /\ Max(IndexOf(fd[t])) = fd[t]
    BY <1>1, <1>2, <1>3, IndexIsNumber DEF TInv
  <1> QED
    BY <1>1, <1>2, <1>3, <1>4 DEF RoomOf

LEMMA LookupDInv ==
    ASSUME TInv, Undamaged, Serves, fault = "none", NEW t \in Conn, UNCHANGED accepting,
           Lookup(t) \/ Enter(t) \/ CollectRooms(t) \/ CollectUsers(t) \/ Find(t)
    PROVE  DInv'
  <1>1. /\ pc \in [Conn -> Step \cup {"unborn"}] /\ reg \in [Conn -> Nat]
        /\ roomsByUser \in Seq(Entries) /\ StepFits(t)
    BY DEF TInv, IInv, StartedInOrder, TypedTables, TypedThreads, Undamaged
  <1>2. /\ UNCHANGED <<main, accepted, num, table, raced, req, old>>
        /\ pc[t] \in {"lookup", "enter", "collect", "find"}
    BY DEF Lookup, Enter, CollectRooms, CollectUsers, Find, accepting, users, appended, locals
  <1>3. Uses(t, "members") \/ (Uses(t, "rooms") /\ req[t].rpc = "list_rooms")
    BY <1>1, <1>2 DEF StepFits, Uses, Working, Touches
  <1>4. ASSUME NEW what \in Faults \ {"none", "torn", "unregistered"}, Break(what) PROVE DInv'
    BY <1>4 DEF Break, DInv, DamageNeedsRace
  <1>5. ASSUME NEW what, Break(what), what # "none", raced # {} PROVE DInv'
    <2>1. raced' # {}
      BY <1>2, <1>5
    <2> QED
      BY <1>5, <2>1 DEF Break, DInv, DamageNeedsRace, Undamaged
  <1>6. ASSUME NEW step, Goto(t, step), step \in {"enter", "sendHead", "each"}, StepFits(t)',
               \A u \in Conn : u # t => reg'[u] = reg[u], MembersSafe'
        PROVE  DInv'
    <2>1. pc' = [pc EXCEPT ![t] = step] /\ fault' = "none"
      BY <1>6 DEF Goto
    <2>2. \A tab \in Shared : Uses(t, tab)' => Uses(t, tab)
      BY <1>2 DEF Uses, Working
    <2>3. \A u \in Conn : u # t => req'[u] = req[u] /\ reg'[u] = reg[u] /\ old'[u] = old[u]
      BY <1>2, <1>6
    <2>4. pc[t] \notin {"unborn", "count", "grow", "publish", "put"}
          /\ step \notin {"count", "grow", "publish", "put"}
      BY <1>2, <1>6
    <2>5. Undamaged'
      BY <1>2, <1>6, <2>1, <2>2, <2>3, <2>4, CalmStep
    <2> QED
      BY <2>1, <2>5 DEF DInv, DamageNeedsRace
  <1>7. ASSUME UNCHANGED roomsByUser PROVE MembersSafe'
    BY <1>2, <1>7, MembersStay DEF Undamaged
  <1>8. ASSUME NEW step, Goto(t, step), step = "sendHead" \/ (step = "enter" /\ pc[t] = "lookup")
                                        \/ (step = "each" /\ pc[t] = "find"),
               pc[t] = "find" => step = "each"
        PROVE  StepFits(t)'
    <2>1. pc'[t] = step
      BY <1>1, <1>8 DEF Goto
    <2> QED
      BY <1>1, <1>2, <1>8, <2>1 DEF StepFits
  <1>9. CASE Lookup(t) \/ CollectRooms(t)
    <2>1. UNCHANGED roomsByUser /\ Uses(t, "rooms") /\ pc[t] \in {"lookup", "collect"}
      <3>1. req[t].rpc \in {"join_room", "list_rooms"}
        BY <1>1, <1>9 DEF StepFits, Lookup, CollectRooms
      <3> QED
        BY <1>9, <3>1 DEF Lookup, CollectRooms, users, Uses, Working, Touches
    <2>2. ASSUME ~RoomsReadable PROVE raced # {}
      BY <2>1, <2>2, RoomsAreReadable
    <2>3. \/ ~RoomsReadable /\ Break("torn")
          \/ \E step : /\ Goto(t, step) /\ \E value : Set(t, value)
                       /\ step = "sendHead" \/ (step = "enter" /\ pc[t] = "lookup")
      BY <1>9 DEF Lookup, CollectRooms
    <2>4. ASSUME NEW step, Goto(t, step), \E value : Set(t, value),
                 step = "sendHead" \/ (step = "enter" /\ pc[t] = "lookup")
          PROVE  DInv'
      <3>1. \A u \in Conn : u # t => reg'[u] = reg[u]
        BY <1>1, <2>4 DEF Set
      <3>2. StepFits(t)'
        BY <1>8, <2>1, <2>4
      <3> QED
        BY <1>6, <1>7, <2>1, <2>4, <3>1, <3>2
    <2> QED
      BY <1>5, <2>2, <2>3, <2>4
  <1>10. CASE Enter(t)
    <2>1. /\ Uses(t, "members") /\ UNCHANGED reg
          /\ pc[t] = "enter"
      BY <1>1, <1>10 DEF Enter, locals, StepFits, Uses, Working, Touches
    <2>2. CASE \E k \in IndexOf(fd[t]) : k > Len(roomsByUser)
      <3>1. Break("torn")
        BY <1>10, <2>2 DEF Enter
      <3>2. "members" \in raced
        <4> SUFFICES ASSUME "members" \notin raced PROVE FALSE
          OBVIOUS
        <4>1. IndexOf(fd[t]) = {fd[t]} /\ Len(roomsByUser) = accepted
          BY <2>1, ServedIsRegistered
        <4>2. fd[t] > accepted
          BY <2>2, <4>1
        <4>3. fd[t] <= accepted /\ accepted \in Nat /\ fd[t] \in Int
          BY <2>1 DEF Serves, TInv, IInv, SlotIsNewest, StartedInOrder
        <4> QED
          BY <4>2, <4>3
      <3> QED
        BY <1>5, <3>1, <3>2
    <2>3. CASE ~\E k \in IndexOf(fd[t]) : k > Len(roomsByUser)
      <3>1. /\ roomsByUser' = [k \in DOMAIN roomsByUser |->
                                 IF k \in IndexOf(fd[t]) THEN reg[t] ELSE roomsByUser[k]]
            /\ Goto(t, "sendHead")
        BY <1>10, <2>3 DEF Enter
      <3>2. MembersSafe'
        <4> SUFFICES ASSUME "members" \notin raced PROVE MembersFit'
          BY <1>2 DEF MembersSafe
        <4>1. main = "accept" /\ Len(roomsByUser) = accepted
          BY <2>1, ServedIsRegistered
        <4>2. MembersFit
          BY DEF Undamaged, MembersSafe
        <4>3. \A k \in 1..accepted : roomsByUser[k] # Junk
          BY <4>1, <4>2 DEF MembersFit
        <4>4. reg[t] # Junk /\ reg[t] \in Entries /\ accepted \in Nat
          BY <1>1 DEF Junk, Entries, TInv, IInv, SlotIsNewest
        <4>5. DOMAIN roomsByUser = 1..accepted
          BY <1>1, <4>1, LenProperties
        <4>6. DOMAIN roomsByUser' = 1..accepted /\ \A k \in 1..accepted : roomsByUser'[k] # Junk
          BY <3>1, <4>3, <4>4, <4>5
        <4>7. roomsByUser' \in Seq(Entries)
          <5>1. \A k \in 1..accepted : roomsByUser[k] \in Entries
            BY <1>1, <4>1, ElementOfSeq
          <5>2. roomsByUser' \in [1..accepted -> Entries]
            BY <3>1, <4>4, <4>5, <5>1
          <5> QED
            BY <4>4, <5>2, SeqDef
        <4>8. Len(roomsByUser') = accepted
          BY <4>4, <4>6, <4>7, LenProperties
        <4> QED
          BY <1>2, <4>1, <4>6, <4>8 DEF MembersFit
      <3>3. StepFits(t)'
        BY <1>8, <2>1, <3>1
      <3> QED
        BY <1>6, <2>1, <3>1, <3>2, <3>3
    <2> QED
      BY <2>2, <2>3
  <1>11. CASE CollectUsers(t)
    <2>1. Uses(t, "members") /\ UNCHANGED roomsByUser /\ pc[t] = "collect"
      BY <1>11 DEF CollectUsers, users, Uses, Working, Touches
    <2>2. \/ (IndexOf(fd[t]) = {} \/ RoomOf(Max(IndexOf(fd[t]))) = Junk) /\ Break("unregistered")
          \/ Break("nameless") \/ Break("badlist")
          \/ (\E value : Set(t, value)) /\ Goto(t, "sendHead")
      BY <1>11 DEF CollectUsers
    <2>3. CASE (IndexOf(fd[t]) = {} \/ RoomOf(Max(IndexOf(fd[t]))) = Junk) /\ Break("unregistered")
      <3>1. "members" \in raced
        BY <2>1, <2>3, ServedIsRegistered
      <3> QED
        BY <1>5, <2>3, <3>1
    <2>4. CASE Break("nameless") \/ Break("badlist")
      BY <1>4, <2>4 DEF Faults
    <2>5. CASE (\E value : Set(t, value)) /\ Goto(t, "sendHead")
      <3>1. \A u \in Conn : u # t => reg'[u] = reg[u]
        BY <1>1, <2>5 DEF Set
      <3>2. StepFits(t)'
        BY <1>8, <2>1, <2>5
      <3> QED
        BY <1>6, <1>7, <2>1, <2>5, <3>1, <3>2
    <2> QED
      BY <2>2, <2>3, <2>4, <2>5
  <1>12. CASE Find(t)
    <2>1. Uses(t, "members") /\ UNCHANGED roomsByUser /\ pc[t] = "find"
      BY <1>1, <1>12 DEF Find, users, StepFits, Uses, Working, Touches
    <2>2. \/ IndexOf(fd[t]) = {} /\ Break("unregistered")
          \/ Break("nameless")
          \/ Set(t, 1) /\ Goto(t, "each")
      BY <1>12 DEF Find
    <2>3. CASE IndexOf(fd[t]) = {} /\ Break("unregistered")
      <3>1. "members" \in raced
        BY <2>1, <2>3, ServedIsRegistered
      <3> QED
        BY <1>5, <2>3, <3>1
    <2>4. CASE Break("nameless")
      BY <1>4, <2>4 DEF Faults
    <2>5. CASE Set(t, 1) /\ Goto(t, "each")
      <3>1. \A u \in Conn : u # t => reg'[u] = reg[u]
        BY <1>1, <2>5 DEF Set
      <3>2. StepFits(t)'
        BY <1>8, <2>1, <2>5
      <3> QED
        BY <1>6, <1>7, <2>1, <2>5, <3>1, <3>2
    <2> QED
      BY <2>2, <2>3, <2>4, <2>5
  <1> QED
    BY <1>9, <1>10, <1>11, <1>12

LEMMA SendDInv ==
    ASSUME TInv, Undamaged, fault = "none", NEW t \in Conn, UNCHANGED accepting,
           SendHead(t) \/ SendBody(t) \/ EachUser(t) \/ EventHead(t) \/ EventBody(t)
    PROVE  DInv'
  <1>1. /\ pc \in [Conn -> Step \cup {"unborn"}] /\ reg \in [Conn -> Nat] /\ StepFits(t)
    BY DEF TInv, IInv, StartedInOrder, TypedThreads, Undamaged
  <1>2. /\ UNCHANGED <<main, accepted, num, table, raced, req, old, roomsByUser>>
        /\ pc[t] \in {"sendHead", "sendBody", "each", "eventHead", "eventBody"}
        /\ reg' = reg \/ \E value : reg' = [reg EXCEPT ![t] = value]
    BY DEF SendHead, SendBody, EachUser, EventHead, EventBody, accepting, users, appended, locals, Set
  <1>3. \/ Break("sigpipe")
        \/ \E step : /\ Goto(t, step)
                     /\ \/ step = "loop"
                        \/ step = "sendBody" /\ pc[t] = "sendHead"
                        \/ /\ step \in {"each", "eventHead", "eventBody"}
                           /\ pc[t] \in {"each", "eventHead", "eventBody"}
    BY DEF SendHead, SendBody, EachUser, EventHead, EventBody, SendTo
  <1>4. CASE Break("sigpipe")
    BY <1>4 DEF Break, DInv, DamageNeedsRace
  <1>5. ASSUME NEW step, Goto(t, step),
               \/ step = "loop"
               \/ step = "sendBody" /\ pc[t] = "sendHead"
               \/ /\ step \in {"each", "eventHead", "eventBody"}
                  /\ pc[t] \in {"each", "eventHead", "eventBody"}
        PROVE  DInv'
    <2>1. pc' = [pc EXCEPT ![t] = step] /\ fault' = "none"
      BY <1>5 DEF Goto
    <2>2. pc'[t] = step
      BY <1>1, <2>1
    <2>3. StepFits(t)'
      BY <1>1, <1>2, <1>5, <2>2 DEF StepFits
    <2>4. \A tab \in Shared : Uses(t, tab)' => Uses(t, tab)
      BY <1>2 DEF Uses, Working
    <2>5. \A u \in Conn : u # t => req'[u] = req[u] /\ reg'[u] = reg[u] /\ old'[u] = old[u]
      BY <1>1, <1>2
    <2>6. MembersSafe'
      BY <1>2, MembersStay DEF Undamaged
    <2>7. /\ pc[t] \notin {"unborn", "count", "grow", "publish", "put"}
          /\ step \notin {"count", "grow", "publish", "put"}
      BY <1>2, <1>5
    <2>8. Undamaged'
      BY <1>2, <2>1, <2>3, <2>4, <2>5, <2>6, <2>7, CalmStep
    <2> QED
      BY <2>1, <2>8 DEF DInv, DamageNeedsRace
  <1> QED
    BY <1>3, <1>4, <1>5

LEMMA NextDInv == TInv /\ Serves /\ DInv /\ [Next]_vars => DInv'
  <1> SUFFICES ASSUME TInv, Serves, DInv, [Next]_vars PROVE DInv'
    OBVIOUS
  <1>1. CASE UNCHANGED <<main, accepted, num, table, pc, req, reg, old, roomsByUser, raced, fault>>
    BY <1>1 DEF DInv, Undamaged, StepFits, Apart, Uses, Working, TablesFit, TableFits, Clean, Whole,
                Appends, Midway, Tab, MembersSafe, MembersFit, NewestWaits, DamageNeedsRace
  <1>2. CASE UNCHANGED vars
    BY <1>1, <1>2 DEF vars, accepting, users, appended, locals
  <1>3. CASE fault = "none" /\ \E c \in Conn : Ask(c) \/ Leave(c)
    BY <1>1, <1>3 DEF Ask, Leave, accepting, users, appended, locals
  <1>4. CASE fault = "none" /\ (MainStep(Accept) \/ MainStep(AcceptFails) \/ MainStep(Register))
    <2>1. Undamaged' /\ fault' = "none"
      BY <1>4, AcceptDInv, RegisterDInv DEF DInv, MainStep
    <2> QED
      BY <2>1 DEF DInv, DamageNeedsRace
  <1>5. CASE fault = "none" /\ \E t \in Conn : newThreadHandler(t)
    <2>1. PICK t \in Conn : newThreadHandler(t)
      BY <1>5
    <2>2. UNCHANGED accepting /\ Undamaged
      BY <1>5, <2>1 DEF newThreadHandler, DInv
    <2>3. CASE ReadSlot(t) \/ RecvHead(t) \/ RecvBody(t) \/ RecvFails(t) \/ ReadsFreed(t)
      BY <1>5, <2>2, <2>3, ReceiveDInv
    <2>4. CASE HandleAppend(t)
      BY <1>5, <2>2, <2>4, AppendDInv
    <2>5. CASE Lookup(t) \/ Enter(t) \/ CollectRooms(t) \/ CollectUsers(t) \/ Find(t)
      BY <1>5, <2>2, <2>5, LookupDInv
    <2>6. CASE SendHead(t) \/ SendBody(t) \/ EachUser(t) \/ EventHead(t) \/ EventBody(t)
      BY <1>5, <2>2, <2>6, SendDInv
    <2> QED
      BY <2>1, <2>3, <2>4, <2>5, <2>6 DEF newThreadHandler
  <1> QED
    BY <1>2, <1>3, <1>4, <1>5 DEF Next

LEMMA InitDInv == Init => DInv
  <1> SUFFICES ASSUME Init PROVE DInv
    OBVIOUS
  <1>1. /\ main = "accept" /\ accepted = 0 /\ roomsByUser = <<>> /\ fault = "none"
        /\ num = [usernames |-> 0, rooms |-> 1]
        /\ table = [usernames |-> <<>>, rooms |-> <<General>>]
        /\ \A t \in Conn : pc[t] = "unborn"
    BY DEF Init
  <1>2. \A tab \in Tables : Clean(tab)
    <2>1. Clean("usernames")
      BY <1>1 DEF Clean, Whole
    <2>2. Clean("rooms")
      BY <1>1 DEF Clean, Whole, General, Junk
    <2> QED
      BY <2>1, <2>2 DEF Tables
  <1>3. TablesFit
    BY <1>1, <1>2 DEF TablesFit, TableFits, Appends
  <1> QED
    BY <1>1, <1>3 DEF DInv, Undamaged, StepFits, Apart, Uses, Working, MembersSafe, MembersFit,
                      NewestWaits, DamageNeedsRace

LEMMA DamageInvariant == Spec => [](TInv /\ Serves /\ DInv)
  <1>1. Init => DInv
    BY InitDInv
  <1>2. TInv /\ Serves /\ DInv /\ [Next]_vars => DInv'
    BY NextDInv
  <1> QED
    BY <1>1, <1>2, TypesInvariant, PTL DEF Spec

\* However many clients connect: a table is torn, or a client is served that is
\* not registered yet, only after two threads have been at work on one table at
\* the same time (the handlers take no lock, lines 55-330, nor does main, lines
\* 388-399).
THEOREM DamageNeedsRaceHolds == Spec => []DamageNeedsRace
  <1>1. DInv => DamageNeedsRace
    BY DEF DInv
  <1> QED
    BY <1>1, DamageInvariant, PTL

-----------------------------------------------------------------------------
(* A client on its own.                                                      *)

\* A request is followed by its body, if it has one, and then by the next.
Framed(parts) == \A k \in 1..Len(parts) :
    /\ parts[k].half = "head" /\ HasBody(parts[k].req) =>
         k < Len(parts) /\ parts[k + 1] = [half |-> "body", req |-> parts[k].req]
    /\ (parts[k].half = "body" \/ ~HasBody(parts[k].req)) /\ k < Len(parts) =>
         parts[k + 1].half = "head"

StreamFits ==
    /\ Framed(inbox[1])
    /\ pc[1] = "body" => /\ inbox[1] # <<>> /\ inbox[1][1] = [half |-> "body", req |-> req[1]]
                         /\ HasBody(req[1])
    /\ pc[1] # "body" /\ inbox[1] # <<>> => inbox[1][1].half = "head"

\* Until there is a user, the client's first request, a login, is on its way.
LoginFirst == num["usernames"] = 0 =>
    \/ asked[1] = <<>> /\ inbox[1] = <<>> /\ pc[1] \in {"unborn", "loop", "head"}
    \/ /\ asked[1] # <<>> /\ inbox[1] # <<>> /\ inbox[1][1].req.rpc = "login"
       /\ pc[1] \in {"unborn", "loop", "head"}
    \/ asked[1] # <<>> /\ pc[1] \in {"body", "load", "count"} /\ req[1].rpc = "login"

SInv == /\ accepted <= 1 => raced = {} /\ (fault = "none" => StreamFits /\ LoginFirst)
        /\ SoloClientIsSafe

\* There is one thread, and main() is waiting for the next client.
LEMMA Solo ==
    ASSUME TInv, Serves, DInv, SInv, fault = "none", accepted <= 1
    PROVE  /\ 1 \in Conn /\ raced = {} /\ Undamaged /\ StreamFits /\ LoginFirst
           /\ \A t \in Conn : pc[t] # "unborn" => t = 1 /\ accepted = 1 /\ main = "accept"
           /\ \A t \in Conn : fd[t] # NoFd => fd[t] = 1
  <1>1. accepted \in Nat /\ MaxConnections \in Nat \ {0}
    BY ServerAssumption DEF TInv, IInv, SlotIsNewest
  <1>2. raced = {} /\ Undamaged /\ StreamFits /\ LoginFirst
    BY DEF SInv, DInv
  <1>3. ASSUME NEW t \in Conn, pc[t] # "unborn" PROVE t = 1 /\ accepted = 1 /\ main = "accept"
    <2>1. t <= accepted /\ t \in 1..MaxConnections
      BY <1>3 DEF TInv, IInv, StartedInOrder, Conn
    <2>2. t = 1 /\ accepted = 1
      BY <1>1, <2>1
    <2> QED
      BY <1>2, <1>3, <2>2 DEF Undamaged, NewestWaits
  <1>4. ASSUME NEW t \in Conn, fd[t] # NoFd PROVE fd[t] = 1
    BY <1>1, <1>4 DEF Serves, TInv, TypedThreads, Conn
  <1> QED
    BY <1>1, <1>2, <1>3, <1>4 DEF Conn

LEMMA NobodyElse ==
    ASSUME NEW others, \A u \in others : pc[u] = "unborn"
    PROVE  InUseBy(others) = {}
  <1>1. {v \in others : pc[v] \notin {"unborn", "loop", "head", "body"}} = {}
    OBVIOUS
  <1> QED
    BY <1>1 DEF InUseBy

\* What a request adds to the inbox.
LEMMA AskedParts ==
    ASSUME NEW parts \in Seq(InParts), NEW r \in Reqs, NEW longer,
           longer = (parts \o <<[half |-> "head", req |-> r]>>)
                    \o IF HasBody(r) THEN <<[half |-> "body", req |-> r]>> ELSE <<>>
    PROVE  /\ longer \in Seq(InParts) /\ Len(parts) \in Nat
           /\ Len(longer) = Len(parts) + IF HasBody(r) THEN 2 ELSE 1
           /\ \A k \in 1..Len(parts) : longer[k] = parts[k]
           /\ longer[Len(parts) + 1] = [half |-> "head", req |-> r]
           /\ HasBody(r) => longer[Len(parts) + 2] = [half |-> "body", req |-> r]
  <1>1. PICK h, b : h = [half |-> "head", req |-> r] /\ b = [half |-> "body", req |-> r]
    OBVIOUS
  <1>2. h \in InParts /\ b \in InParts
    BY <1>1 DEF InParts
  <1>3. PICK one : one = parts \o <<h>>
    OBVIOUS
  <1>4. /\ one \in Seq(InParts) /\ Len(parts) \in Nat /\ Len(one) = Len(parts) + 1
        /\ \A k \in 1..Len(parts) : one[k] = parts[k]
        /\ one[Len(parts) + 1] = h
    <2>1. one = Append(parts, h)
      BY <1>2, <1>3, AppendIsConcat
    <2> QED
      BY <1>2, <2>1, AppendProperties, LenProperties
  <1>5. CASE HasBody(r)
    <2>1. longer = one \o <<b>>
      BY <1>1, <1>3, <1>5
    <2>2. longer = Append(one, b)
      <3>1. one \in Seq(InParts) /\ b \in InParts
        BY <1>2, <1>4
      <3>2. Append(one, b) = one \o <<b>>
        BY <3>1, AppendIsConcat
      <3> QED
        BY <2>1, <3>2
    <2>3. /\ longer \in Seq(InParts) /\ Len(longer) = Len(one) + 1 /\ longer[Len(one) + 1] = b
          /\ \A k \in 1..Len(one) : longer[k] = one[k]
      <3>1. one \in Seq(InParts) /\ b \in InParts
        BY <1>2, <1>4
      <3>2. /\ Append(one, b) \in Seq(InParts) /\ Len(Append(one, b)) = Len(one) + 1
            /\ Append(one, b)[Len(one) + 1] = b
            /\ \A k \in 1..Len(one) : Append(one, b)[k] = one[k]
        BY <3>1, AppendProperties
      <3> QED
        BY <2>2, <3>2
    <2> QED
      BY <1>1, <1>4, <1>5, <2>3
  <1>6. CASE ~HasBody(r)
    <2>1. longer = one \o <<>>
      BY <1>1, <1>3, <1>6
    <2>2. longer = one
      BY <1>4, <2>1, ConcatEmptySeq
    <2> QED
      BY <1>1, <1>4, <1>6, <2>2
  <1> QED
    BY <1>5, <1>6

LEMMA AskStaysFramed ==
    ASSUME NEW parts \in Seq(InParts), Framed(parts), NEW r \in Reqs, NEW longer,
           longer = (parts \o <<[half |-> "head", req |-> r]>>)
                    \o IF HasBody(r) THEN <<[half |-> "body", req |-> r]>> ELSE <<>>
    PROVE  Framed(longer)
  <1>1. /\ Len(parts) \in Nat
        /\ Len(longer) = Len(parts) + IF HasBody(r) THEN 2 ELSE 1
        /\ \A k \in 1..Len(parts) : longer[k] = parts[k]
        /\ longer[Len(parts) + 1] = [half |-> "head", req |-> r]
        /\ HasBody(r) => longer[Len(parts) + 2] = [half |-> "body", req |-> r]
    BY AskedParts
  <1>2. ASSUME NEW k \in 1..Len(longer)
        PROVE  /\ longer[k].half = "head" /\ HasBody(longer[k].req) =>
                    k < Len(longer) /\ longer[k + 1] = [half |-> "body", req |-> longer[k].req]
               /\ (longer[k].half = "body" \/ ~HasBody(longer[k].req)) /\ k < Len(longer) =>
                    longer[k + 1].half = "head"
    <2>1. PICK n \in Nat, m \in Nat : n = Len(parts) /\ m = Len(longer)
      BY <1>1
    <2>2. m = n + (IF HasBody(r) THEN 2 ELSE 1) /\ k \in 1..m
      BY <1>1, <1>2, <2>1
    <2>3. CASE k < n
      <3>1. k \in 1..Len(parts) /\ k + 1 \in 1..Len(parts) /\ k < Len(parts) /\ k < Len(longer)
        BY <2>1, <2>2, <2>3
      <3>2. longer[k] = parts[k] /\ longer[k + 1] = parts[k + 1]
        BY <1>1, <3>1
      <3> QED
        BY <3>1, <3>2 DEF Framed
    <2>4. CASE k = n
      <3>1. k \in 1..Len(parts) /\ ~(k < Len(parts))
        BY <2>1, <2>2, <2>4
      <3>2. longer[k] = parts[k] /\ longer[k + 1].half = "head"
        BY <1>1, <2>1, <2>4, <3>1
      <3> QED
        BY <3>1, <3>2 DEF Framed
    <2>5. CASE k = n + 1
      <3>1. longer[k] = [half |-> "head", req |-> r]
        BY <1>1, <2>1, <2>5
      <3>2. CASE HasBody(r)
        <4>1. k < m /\ longer[k + 1] = [half |-> "body", req |-> r]
          BY <1>1, <2>1, <2>2, <2>5, <3>2
        <4> QED
          BY <2>1, <3>1, <3>2, <4>1
      <3>3. CASE ~HasBody(r)
        <4>1. ~(k < m)
          BY <2>2, <2>5, <3>3
        <4> QED
          BY <2>1, <3>1, <3>3, <4>1
      <3> QED
        BY <3>2, <3>3
    <2>6. CASE k = n + 2
      <3>1. HasBody(r) /\ ~(k < m)
        BY <2>2, <2>6
      <3>2. longer[k] = [half |-> "body", req |-> r]
        BY <1>1, <2>1, <2>6, <3>1
      <3> QED
        BY <2>1, <3>1, <3>2
    <2> QED
      BY <2>2, <2>3, <2>4, <2>5, <2>6
  <1> QED
    BY <1>2 DEF Framed

LEMMA SoloAsks ==
    ASSUME TInv, StreamFits, LoginFirst, 1 \in Conn, Ask(1)
    PROVE  StreamFits' /\ LoginFirst'
  <1>1. /\ inbox \in [Conn -> Seq(InParts)] /\ asked \in [Conn -> Seq(Reqs)]
        /\ UNCHANGED <<pc, req, num>>
    BY DEF TInv, TypedNetwork, Ask, locals, appended
  <1>2. PICK r \in Requests(1) :
          /\ asked' = [asked EXCEPT ![1] = Append(@, r)]
          /\ inbox' = [inbox EXCEPT ![1] = (@ \o <<[half |-> "head", req |-> r]>>)
                \o IF HasBody(r) THEN <<[half |-> "body", req |-> r]>> ELSE <<>>]
    BY DEF Ask
  <1>3. r \in Reqs
    BY RequestTypes DEF TInv
  <1>4. PICK parts, longer : parts = inbox[1] /\ longer = inbox'[1]
    OBVIOUS
  <1>5. /\ parts \in Seq(InParts)
        /\ longer = (parts \o <<[half |-> "head", req |-> r]>>)
                    \o IF HasBody(r) THEN <<[half |-> "body", req |-> r]>> ELSE <<>>
    BY <1>1, <1>2, <1>4
  <1>6. Framed(longer)
    BY <1>3, <1>4, <1>5, AskStaysFramed DEF StreamFits
  <1>7. /\ Len(parts) \in Nat
        /\ Len(longer) = Len(parts) + IF HasBody(r) THEN 2 ELSE 1
        /\ \A k \in 1..Len(parts) : longer[k] = parts[k]
        /\ longer[Len(parts) + 1] = [half |-> "head", req |-> r]
    BY <1>3, <1>5, AskedParts
  <1>8. longer # <<>> /\ asked'[1] # <<>>
    <2>1. longer # <<>>
      BY <1>7, EmptySeq
    <2>2. asked'[1] = Append(asked[1], r) /\ asked[1] \in Seq(Reqs)
      BY <1>1, <1>2
    <2> QED
      BY <1>3, <2>1, <2>2, AppendProperties
  <1>9. parts # <<>> => longer[1] = parts[1]
    <2>1. parts # <<>> => Len(parts) # 0
      BY <1>5, EmptySeq
    <2> QED
      BY <1>7, <2>1
  <1>10. parts = <<>> => longer[1] = [half |-> "head", req |-> r]
    BY <1>7, EmptySeq
  <1>11. StreamFits'
    <2>1. longer[1].half = "head" \/ pc[1] = "body"
      BY <1>4, <1>9, <1>10 DEF StreamFits
    <2>2. pc[1] = "body" => longer[1] = [half |-> "body", req |-> req[1]] /\ HasBody(req[1])
      BY <1>4, <1>9 DEF StreamFits
    <2>3. HasBody(req[1])' <=> HasBody(req[1])
      BY <1>1
    <2> QED
      BY <1>1, <1>4, <1>6, <1>8, <2>1, <2>2, <2>3 DEF StreamFits
  <1>12. LoginFirst'
    <2> SUFFICES ASSUME num["usernames"] = 0
                 PROVE  \/ longer[1].req.rpc = "login" /\ pc[1] \in {"unborn", "loop", "head"}
                        \/ pc[1] \in {"body", "load", "count"} /\ req[1].rpc = "login"
      BY <1>1, <1>4, <1>8 DEF LoginFirst
    <2>1. CASE asked[1] = <<>> /\ inbox[1] = <<>> /\ pc[1] \in {"unborn", "loop", "head"}
      <3>1. r = [rpc |-> "login", arg |-> 1]
        BY <2>1 DEF Requests
      <3> QED
        BY <1>4, <1>10, <2>1, <3>1
    <2> QED
      BY <1>4, <1>9, <2>1 DEF LoginFirst
  <1> QED
    BY <1>11, <1>12

\* The rest of a stream.
LEMMA RestIsFramed ==
    ASSUME NEW parts \in Seq(InParts), parts # <<>>, Framed(parts), NEW rest, rest = Tail(parts)
    PROVE  /\ Framed(rest)
           /\ parts[1].half = "head" /\ HasBody(parts[1].req) =>
                 rest # <<>> /\ rest[1] = [half |-> "body", req |-> parts[1].req]
           /\ (parts[1].half = "body" \/ ~HasBody(parts[1].req)) /\ rest # <<>> =>
                 rest[1].half = "head"
  <1>1. /\ Len(parts) \in Nat \ {0} /\ rest \in Seq(InParts) /\ Len(rest) = Len(parts) - 1
        /\ \A k \in 1..Len(rest) : rest[k] = parts[k + 1]
    <2>1. Len(parts) \in Nat \ {0}
      BY EmptySeq, LenProperties
    <2>2. rest \in Seq(InParts) /\ Len(rest) = Len(parts) - 1
      BY HeadTailProperties
    <2>3. \A k \in 1..Len(rest) : rest[k] = parts[k + 1]
      BY HeadTailProperties
    <2> QED
      BY <2>1, <2>2, <2>3
  <1>2. PICK n \in Nat : n = Len(rest) /\ Len(parts) = n + 1
    <2>1. Len(parts) \in Nat \ {0} /\ Len(rest) = Len(parts) - 1
      BY <1>1
    <2>2. Len(rest) \in Nat /\ Len(parts) = Len(rest) + 1
      BY <2>1
    <2> QED
      BY <2>2
  <1>3. rest # <<>> <=> n # 0
    BY <1>1, <1>2, EmptySeq
  <1>4. ASSUME NEW k \in 1..Len(rest)
        PROVE  /\ rest[k].half = "head" /\ HasBody(rest[k].req) =>
                    k < Len(rest) /\ rest[k + 1] = [half |-> "body", req |-> rest[k].req]
               /\ (rest[k].half = "body" \/ ~HasBody(rest[k].req)) /\ k < Len(rest) =>
                    rest[k + 1].half = "head"
    <2>1. k \in 1..n /\ k + 1 \in 1..Len(parts) /\ rest[k] = parts[k + 1]
      BY <1>1, <1>2
    <2>2. k < n => rest[k + 1] = parts[(k + 1) + 1]
      BY <1>1, <1>2, <2>1
    <2>3. /\ rest[k].half = "head" /\ HasBody(rest[k].req) =>
               k + 1 < Len(parts) /\ parts[(k + 1) + 1] = [half |-> "body", req |-> rest[k].req]
          /\ (rest[k].half = "body" \/ ~HasBody(rest[k].req)) /\ k + 1 < Len(parts) =>
               parts[(k + 1) + 1].half = "head"
      BY <2>1 DEF Framed
    <2>4. k + 1 < Len(parts) <=> k < Len(rest)
      BY <1>2, <2>1
    <2> QED
      BY <1>2, <2>2, <2>3, <2>4
  <1>5. 1 \in 1..Len(parts) /\ (1 < Len(parts) <=> n # 0) /\ (n # 0 => rest[1] = parts[1 + 1])
    BY <1>1, <1>2
  <1>6. /\ parts[1].half = "head" /\ HasBody(parts[1].req) =>
               1 < Len(parts) /\ parts[1 + 1] = [half |-> "body", req |-> parts[1].req]
        /\ (parts[1].half = "body" \/ ~HasBody(parts[1].req)) /\ 1 < Len(parts) =>
               parts[1 + 1].half = "head"
    BY <1>5 DEF Framed
  <1>7. Framed(rest)
    BY <1>4 DEF Framed
  <1> QED
    BY <1>3, <1>5, <1>6, <1>7

\* Nobody else is at work, and main() is not either.
LEMMA SoloDispatch ==
    ASSUME \A t \in Conn : pc[t] # "unborn" => t = 1, main = "accept", raced = {},
           NEW r \in Reqs, Dispatch(1, r), fault = "none"
    PROVE  /\ raced' = {} /\ fault' \in {"none", "segv"}
           /\ fault' = "none" => pc' = [pc EXCEPT ![1] = FirstStep(r)]
  <1>1. InUseBy(Conn \ {1}) = {}
    BY NobodyElse
  <1> QED
    BY <1>1 DEF Dispatch, Break, Goto

LEMMA SoloReceives ==
    ASSUME TInv, Serves, DInv, SInv, fault = "none", accepted <= 1, UNCHANGED <<accepting, clients>>,
           pc[1] # "unborn", RecvHead(1) \/ RecvBody(1)
    PROVE  /\ raced' = {} /\ fault' \in {"none", "segv"}
           /\ fault' = "none" => StreamFits' /\ LoginFirst'
  <1>1. /\ 1 \in Conn /\ raced = {} /\ StreamFits /\ LoginFirst /\ main = "accept"
        /\ \A t \in Conn : pc[t] # "unborn" => t = 1
        /\ fd[1] # NoFd => fd[1] = 1
    BY Solo
  <1>2. fd[1] = 1 /\ pc[1] \in {"head", "body"}
    BY <1>1 DEF RecvHead, RecvBody, Serves
  <1>3. PICK parts, rest : parts = inbox[1] /\ rest = inbox'[1]
    OBVIOUS
  <1>4. inbox[1] # <<>> /\ inbox' = [inbox EXCEPT ![1] = Tail(@)] /\ UNCHANGED <<num, asked>>
    BY <1>2 DEF RecvHead, RecvBody, appended, clients
  <1>5. /\ inbox \in [Conn -> Seq(InParts)] /\ pc \in [Conn -> Step \cup {"unborn"}]
        /\ req \in [Conn -> Reqs]
    BY DEF TInv, TypedNetwork, IInv, StartedInOrder, TypedThreads
  <1>6. parts \in Seq(InParts) /\ parts # <<>> /\ rest = Tail(parts) /\ Framed(parts)
    BY <1>1, <1>3, <1>4, <1>5 DEF StreamFits
  <1>7. /\ Framed(rest)
        /\ parts[1].half = "head" /\ HasBody(parts[1].req) =>
                 rest # <<>> /\ rest[1] = [half |-> "body", req |-> parts[1].req]
        /\ (parts[1].half = "body" \/ ~HasBody(parts[1].req)) /\ rest # <<>> =>
                 rest[1].half = "head"
    BY <1>6, RestIsFramed
  <1>8. Head(parts) = parts[1] /\ parts[1] \in InParts
    BY <1>6, EmptySeq, HeadTailProperties, ElementOfSeq, LenProperties
  <1>9. \A r : FirstStep(r) \notin {"unborn", "loop", "head", "body"}
    BY DEF FirstStep
  <1>10. asked[1] # <<>> \/ num["usernames"] # 0
    BY <1>3, <1>6, <1>1 DEF LoginFirst
  <1>11. CASE RecvHead(1)
    <2>1. /\ parts[1].half = "head" /\ parts[1].req \in Reqs /\ pc[1] = "head"
          /\ req' = [req EXCEPT ![1] = parts[1].req]
          /\ IF HasBody(parts[1].req) THEN Goto(1, "body") /\ UNCHANGED raced
             ELSE Dispatch(1, parts[1].req)
      <3>1. parts[1].half = "head" /\ parts[1].req \in Reqs /\ pc[1] = "head"
        BY <1>1, <1>3, <1>6, <1>8, <1>11 DEF StreamFits, RecvHead, InParts
      <3> QED
        BY <1>2, <1>3, <1>8, <1>11, <3>1 DEF RecvHead
    <2>2. req'[1] = parts[1].req
      BY <1>1, <1>5, <2>1
    <2>3. num["usernames"] = 0 => parts[1].req.rpc = "login"
      BY <1>1, <1>3, <1>6, <2>1 DEF LoginFirst
    <2>4. CASE HasBody(parts[1].req)
      <3>1. pc'[1] = "body" /\ raced' = {} /\ fault' = "none"
        BY <1>1, <1>5, <2>1, <2>4 DEF Goto
      <3>2. HasBody(req[1])'
        BY <2>2, <2>4 DEF HasBody
      <3>3. StreamFits'
        BY <1>3, <1>7, <2>1, <2>2, <2>4, <3>1, <3>2 DEF StreamFits
      <3>4. LoginFirst'
        BY <1>4, <1>10, <2>2, <2>3, <3>1 DEF LoginFirst
      <3> QED
        BY <3>1, <3>3, <3>4
    <2>5. CASE ~HasBody(parts[1].req)
      <3>1. /\ raced' = {} /\ fault' \in {"none", "segv"}
            /\ fault' = "none" => pc'[1] = FirstStep(parts[1].req)
        BY <1>1, <1>5, <2>1, <2>5, SoloDispatch
      <3>2. num["usernames"] # 0
        BY <2>3, <2>5 DEF HasBody
      <3>3. fault' = "none" => StreamFits'
        BY <1>3, <1>7, <1>9, <2>5, <3>1 DEF StreamFits
      <3>4. LoginFirst'
        BY <1>4, <3>2 DEF LoginFirst
      <3> QED
        BY <3>1, <3>3, <3>4
    <2> QED
      BY <2>4, <2>5
  <1>12. CASE RecvBody(1)
    <2>1. /\ parts[1] = [half |-> "body", req |-> req[1]] /\ pc[1] = "body"
          /\ Dispatch(1, req[1]) /\ UNCHANGED req /\ HasBody(req[1])
      <3>1. parts[1] = [half |-> "body", req |-> req[1]] /\ pc[1] = "body" /\ HasBody(req[1])
        BY <1>1, <1>3, <1>12 DEF StreamFits, RecvBody
      <3> QED
        BY <1>2, <1>3, <1>8, <1>12, <3>1 DEF RecvBody, locals
    <2>2. req[1] \in Reqs
      BY <1>1, <1>5
    <2>3. /\ raced' = {} /\ fault' \in {"none", "segv"}
          /\ fault' = "none" => pc'[1] = FirstStep(req[1])
      BY <1>1, <1>5, <2>1, <2>2, SoloDispatch
    <2>4. fault' = "none" => StreamFits'
      BY <1>3, <1>7, <1>9, <2>1, <2>3 DEF StreamFits
    <2>5. ASSUME fault' = "none" PROVE LoginFirst'
      <3>1. CASE num["usernames"] = 0
        <4>1. req[1].rpc = "login"
          BY <1>1, <2>1, <3>1 DEF LoginFirst
        <4>2. pc'[1] = "load"
          BY <2>3, <2>5, <4>1 DEF FirstStep
        <4> QED
          BY <1>4, <1>10, <2>1, <3>1, <4>1, <4>2 DEF LoginFirst
      <3>2. CASE num["usernames"] # 0
        BY <1>4, <3>2 DEF LoginFirst
      <3> QED
        BY <3>1, <3>2
    <2> QED
      BY <2>3, <2>4, <2>5
  <1> QED
    BY <1>11, <1>12

\* The one client is a user from its login on, and it is the only one.
LEMMA SoloIsNamed ==
    ASSUME TInv, Serves, DInv, SInv, fault = "none", accepted <= 1, 1 \in Conn,
           pc[1] \in {"collect", "find"}, Uses(1, "members"), Uses(1, "usernames")
    PROVE  /\ numUsers = 1 /\ IndexOf(fd[1]) = {1} /\ Min(IndexOf(fd[1])) = 1
           /\ Max(IndexOf(fd[1])) = 1
           /\ RoomOf(1) # Junk /\ NameOf(1) # Junk
  <1>1. /\ raced = {} /\ Undamaged /\ LoginFirst /\ accepted = 1
        /\ fd[1] = 1
    BY Solo DEF Serves, Uses, Working
  <1>2. numUsers = 1 /\ IndexOf(fd[1]) = {1} /\ RoomOf(1) # Junk /\ Max(IndexOf(fd[1])) = 1
    BY <1>1, ServedIsRegistered
  <1>3. Min(IndexOf(fd[1])) = 1
    <2>1. IndexOf(1) = {1} /\ TypedMain
      BY <1>1, <1>2 DEF TInv
    <2>2. 1 \in 1..numUsers
      BY <1>2
    <2> QED
      BY <1>1, <2>1, <2>2, IndexIsNumber
  <1>4. num["usernames"] # 0
    BY <1>1 DEF LoginFirst
  <1>5. "usernames" \in Tables \ raced /\ ~Appends(1, "usernames")
    BY <1>1 DEF Tables, Appends
  <1>6. Clean("usernames")
    BY <1>1, <1>5, AloneOnTable
  <1>7. num["usernames"] \in Nat
    BY DEF TInv, TypedTables, Tables
  <1>8. NameOf(1) # Junk
    BY <1>4, <1>6, <1>7 DEF Clean, Whole, NameOf
  <1> QED
    BY <1>2, <1>3, <1>8

LEMMA SoloWorks ==
    ASSUME TInv, Serves, DInv, SInv, fault = "none", accepted <= 1, UNCHANGED <<accepting, clients>>,
           DInv', newThreadHandler(1), pc[1] # "unborn", ~RecvHead(1), ~RecvBody(1)
    PROVE  /\ raced' = {} /\ fault' \in {"none", "segv", "uninitialised", "sigpipe"}
           /\ fault' = "none" => StreamFits' /\ LoginFirst'
  <1>1. /\ 1 \in Conn /\ raced = {} /\ Undamaged /\ StreamFits /\ LoginFirst
    BY Solo
  <1>2. /\ pc \in [Conn -> Step \cup {"unborn"}] /\ reg \in [Conn -> Nat] /\ num \in [Tables -> Nat]
        /\ StepFits(1)
    BY <1>1 DEF TInv, IInv, StartedInOrder, TypedThreads, TypedTables, Undamaged
  <1>3. UNCHANGED <<inbox, req, raced, asked>>
    BY DEF newThreadHandler, ReadSlot, RecvFails, ReadsFreed, HandleAppend, LoadCount, StoreCount,
           Grow, Publish, Put, Number, Lookup, Enter, CollectRooms, CollectUsers, SendHead,
           SendBody, Find, EachUser, EventHead, EventBody, locals, clients
  <1>4. fault' \notin {"torn", "unregistered"}
    BY <1>1, <1>3 DEF DInv, DamageNeedsRace
  <1>5. CASE RecvFails(1) \/ ReadsFreed(1)
    <2>1. fault' = "uninitialised"
      BY <1>4, <1>5, FreedAt DEF RecvFails, Break
    <2> QED
      BY <1>1, <1>3, <2>1
  <1>6. CASE ReadSlot(1)
    <2>1. pc[1] = "loop" /\ pc'[1] = "head" /\ UNCHANGED <<num, fault>>
      BY <1>1, <1>2, <1>6 DEF ReadSlot, Goto, appended
    <2>2. StreamFits'
      BY <1>1, <1>3, <2>1 DEF StreamFits
    <2>3. LoginFirst'
      BY <1>1, <1>3, <2>1 DEF LoginFirst
    <2> QED
      BY <1>1, <1>3, <2>1, <2>2, <2>3
  <1>7. CASE ~RecvFails(1) /\ ~ReadsFreed(1) /\ ~ReadSlot(1)
    <2>1. pc[1] \notin {"unborn", "loop", "head", "body"}
      BY <1>7 DEF newThreadHandler, HandleAppend, LoadCount, StoreCount, Grow, Publish,
             Put, Number, Lookup, Enter, CollectRooms, CollectUsers, SendHead, SendBody, Find, EachUser,
             EventHead, EventBody
    <2>2. pc'[1] # "body"
      <3>1. CASE HandleAppend(1) \/ Lookup(1) \/ Enter(1) \/ CollectRooms(1) \/ CollectUsers(1)
        <4>1. UNCHANGED pc \/ \E step : step # "body" /\ pc' = [pc EXCEPT ![1] = step]
          BY <3>1 DEF HandleAppend, LoadCount, StoreCount, Grow, Publish, Put, Number, Lookup, Enter,
                 CollectRooms, CollectUsers, Goto, Break
        <4> QED
          BY <1>1, <1>2, <2>1, <4>1
      <3>2. CASE SendHead(1) \/ SendBody(1) \/ Find(1) \/ EachUser(1) \/ EventHead(1) \/ EventBody(1)
        <4>1. UNCHANGED pc \/ \E step : step # "body" /\ pc' = [pc EXCEPT ![1] = step]
          BY <3>2 DEF SendHead, SendBody, Find, EachUser, EventHead, EventBody, SendTo, Goto, Break
        <4> QED
          BY <1>1, <1>2, <2>1, <4>1
      <3> QED
        BY <1>7, <3>1, <3>2 DEF newThreadHandler
    <2>3. StreamFits'
      BY <1>1, <1>3, <2>1, <2>2 DEF StreamFits
    <2>4. CASE StoreCount(1)
      <3>1. num' = [num EXCEPT ![Tab(1)] = reg[1] + 1] /\ pc[1] = "count" /\ fault' = "none"
        BY <2>4 DEF StoreCount, Goto
      <3>2. num["usernames"] = 0 => Tab(1) = "usernames"
        BY <1>1, <2>1 DEF LoginFirst, Tab
      <3>3. num'["usernames"] # 0
        BY <1>1, <1>2, <3>1, <3>2 DEF Tables
      <3>4. LoginFirst'
        BY <3>3 DEF LoginFirst
      <3> QED
        BY <1>1, <1>3, <2>3, <3>1, <3>4
    <2>5. CASE LoadCount(1)
      <3>1. pc[1] = "load" /\ pc'[1] = "count" /\ UNCHANGED num /\ fault' = "none"
        BY <1>1, <1>2, <2>5 DEF LoadCount, Goto, appended
      <3>2. LoginFirst'
        BY <1>1, <1>3, <3>1 DEF LoginFirst
      <3> QED
        BY <1>1, <1>3, <2>3, <3>1, <3>2
    <2>6. CASE ~StoreCount(1) /\ ~LoadCount(1)
      <3>1. UNCHANGED num /\ pc[1] \notin {"load", "count"}
        BY <1>7, <2>6 DEF newThreadHandler, HandleAppend, Grow, Publish,
               Put, Number, Lookup, Enter, CollectRooms, CollectUsers, SendHead, SendBody, Find,
               EachUser, EventHead, EventBody, appended
      <3>2. num["usernames"] # 0
        BY <1>1, <2>1, <3>1 DEF LoginFirst
      <3>3. LoginFirst'
        BY <3>1, <3>2 DEF LoginFirst
      <3>4. CASE Find(1)
        <4>1. Uses(1, "members") /\ Uses(1, "usernames") /\ pc[1] = "find"
          BY <1>2, <3>4 DEF Find, StepFits, Uses, Working, Touches
        <4>2. IndexOf(fd[1]) # {} /\ NameOf(Min(IndexOf(fd[1]))) # Junk
          BY <1>1, <4>1, SoloIsNamed
        <4>3. fault' = "none"
          BY <3>4, <4>2 DEF Find, Goto
        <4> QED
          BY <1>1, <1>3, <2>3, <3>3, <4>3
      <3>5. CASE CollectUsers(1)
        <4>1. Uses(1, "members") /\ Uses(1, "usernames") /\ pc[1] = "collect"
          BY <3>5 DEF CollectUsers, Uses, Working, Touches
        <4>2. /\ numUsers = 1 /\ IndexOf(fd[1]) = {1} /\ Max(IndexOf(fd[1])) = 1
              /\ RoomOf(1) # Junk /\ NameOf(1) # Junk
          BY <1>1, <4>1, SoloIsNamed
        <4>3. /\ {k \in 1..numUsers : RoomOf(k) = Junk} = {}
              /\ {k \in 1..numUsers : RoomOf(k) = RoomOf(1)} = {1}
          BY <4>2
        <4>4. {1} = 1..Cardinality({1})
          <5>1. Cardinality({1}) = 1
            BY FS_Singleton
          <5> QED
            BY <5>1
        <4>5. PICK room : room = RoomOf(Max(IndexOf(fd[1]))) /\ room = RoomOf(1) /\ room # Junk
          BY <4>2
        <4>6. PICK here : /\ \E chance \in SUBSET {k \in 1..numUsers : RoomOf(k) = Junk} :
                                here = {k \in 1..numUsers : RoomOf(k) = room} \cup chance
                          /\ \/ \E k \in here : NameOf(k) = Junk
                             \/ here # 1..Cardinality(here)
                             \/ Goto(1, "sendHead")
          <5>1. IndexOf(fd[1]) # {} /\ RoomOf(Max(IndexOf(fd[1]))) # Junk
            BY <4>2
          <5> QED
            BY <3>5, <4>5, <5>1, Zenon DEF CollectUsers
        <4>7. {k \in 1..numUsers : RoomOf(k) = room} = {1}
          BY <4>3, <4>5
        <4>8. Goto(1, "sendHead")
          BY <4>2, <4>3, <4>4, <4>6, <4>7
        <4>9. fault' = "none"
          BY <4>8 DEF Goto
        <4> QED
          BY <1>1, <1>3, <2>3, <3>3, <4>9
      <3>6. CASE ~Find(1) /\ ~CollectUsers(1)
        <4>1. CASE Grow(1) \/ Publish(1) \/ Put(1) \/ Number(1) \/ Lookup(1) \/ Enter(1) \/ CollectRooms(1)
          <5>1. fault' \in {"none", "torn"}
            BY <4>1 DEF Grow, Publish, Put, Number, Lookup, Enter, CollectRooms, Goto, Break
          <5> QED
            BY <1>1, <1>3, <1>4, <2>3, <3>3, <5>1
        <4>2. CASE SendHead(1) \/ SendBody(1) \/ EachUser(1) \/ EventHead(1) \/ EventBody(1)
          <5>1. fault' \in {"none", "sigpipe"}
            BY <4>2 DEF SendHead, SendBody, EachUser, EventHead, EventBody, SendTo, Goto, Break
          <5> QED
            BY <1>1, <1>3, <2>3, <3>3, <5>1
        <4> QED
          BY <1>7, <2>6, <3>6, <4>1, <4>2 DEF newThreadHandler, HandleAppend
      <3> QED
        BY <3>4, <3>5, <3>6
    <2> QED
      BY <2>4, <2>5, <2>6
  <1> QED
    BY <1>5, <1>6, <1>7

LEMMA NextSInv == TInv /\ Serves /\ DInv /\ DInv' /\ SInv /\ [Next]_vars => SInv'
  <1> SUFFICES ASSUME TInv, Serves, DInv, DInv', SInv, [Next]_vars PROVE SInv'
    OBVIOUS
  <1>1. CASE UNCHANGED vars
    <2>1. UNCHANGED <<accepted, raced, fault, inbox, pc, req, num, asked>>
      BY <1>1 DEF vars, accepting, locals, appended, clients
    <2> QED
      BY <2>1 DEF SInv, SoloClientIsSafe, StreamFits, LoginFirst
  <1>2. fault = "none" \/ UNCHANGED vars
    BY DEF Next
  <1>3. accepted \in Nat /\ pc \in [Conn -> Step \cup {"unborn"}]
    BY DEF TInv, IInv, SlotIsNewest, StartedInOrder
  <1>4. CASE fault = "none" /\ accepted > 1
    <2>1. accepted' \in {accepted, accepted + 1} \/ accepted' = accepted
      BY <1>4 DEF Next, MainStep, Accept, AcceptFails, Register, AddUser, PutUser, CopyRooms,
                  GrowRooms, Start, Ask, Leave, newThreadHandler, accepting, vars
    <2> QED
      BY <1>3, <1>4, <2>1 DEF SInv, SoloClientIsSafe
  <1>5. CASE fault = "none" /\ accepted <= 1
    <2>1. /\ 1 \in Conn /\ raced = {} /\ Undamaged /\ StreamFits /\ LoginFirst
          /\ \A t \in Conn : pc[t] # "unborn" => t = 1 /\ accepted = 1 /\ main = "accept"
      BY <1>5, Solo
    <2>2. CASE MainStep(Accept)
      <3>1. /\ UNCHANGED <<fault, inbox, pc, req, num, asked>> /\ accepted' = accepted + 1
            /\ raced' = raced \cup (InUseBy(Conn) \cap {"members"})
        BY <2>2 DEF MainStep, Accept, locals, appended, clients
      <3>2. accepted' <= 1 => raced' = {}
        BY <1>3, <2>1, <3>1, NobodyElse
      <3>3. StreamFits' /\ LoginFirst'
        BY <2>1, <3>1 DEF StreamFits, LoginFirst
      <3> QED
        BY <1>5, <3>1, <3>2, <3>3 DEF SInv, SoloClientIsSafe
    <2>3. CASE MainStep(AcceptFails) \/ MainStep(Register)
      <3>1. UNCHANGED <<fault, inbox, req, num, asked, accepted, raced>>
        BY <2>3 DEF MainStep, AcceptFails, Register, AddUser, PutUser, CopyRooms, GrowRooms, Start,
                    locals, appended, clients
      <3>2. pc' = pc \/ (main = "start" /\ pc' = [pc EXCEPT ![accepted] = "loop"])
        <4>1. main = "start" => Len(connectedUsers) = accepted
          BY DEF TInv, IInv, SlotIsNewest
        <4> QED
          BY <2>3, <4>1 DEF MainStep, AcceptFails, Register, AddUser, PutUser, CopyRooms,
                            GrowRooms, Start
      <3>3. pc'[1] = pc[1] \/ (pc[1] = "unborn" /\ pc'[1] = "loop")
        BY <1>3, <2>1, <3>2
      <3>4. StreamFits' /\ LoginFirst'
        BY <2>1, <3>1, <3>3 DEF StreamFits, LoginFirst
      <3> QED
        BY <1>5, <2>1, <3>1, <3>4 DEF SInv, SoloClientIsSafe
    <2>4. CASE \E c \in Conn : Leave(c)
      <3>1. UNCHANGED <<accepted, raced, fault, inbox, pc, req, num, asked>>
        BY <2>4 DEF Leave, accepting, locals, appended
      <3> QED
        BY <3>1 DEF SInv, SoloClientIsSafe, StreamFits, LoginFirst
    <2>5. CASE \E c \in Conn : Ask(c)
      <3>1. Ask(1) /\ UNCHANGED <<accepted, raced, fault>>
        <4>1. PICK c \in Conn : Ask(c)
          BY <2>5
        <4>2. c <= accepted /\ c \in 1..MaxConnections
          BY <4>1 DEF Ask, Conn
        <4>3. c = 1
          BY <1>3, <1>5, <4>2
        <4> QED
          BY <4>1, <4>3 DEF Ask, accepting
      <3>2. StreamFits' /\ LoginFirst'
        BY <2>1, <3>1, SoloAsks
      <3> QED
        BY <1>5, <2>1, <3>1, <3>2 DEF SInv, SoloClientIsSafe
    <2>6. CASE \E t \in Conn : newThreadHandler(t)
      <3>1. newThreadHandler(1) /\ pc[1] # "unborn"
        BY <2>1, <2>6, ThreadFrame
      <3>2. UNCHANGED <<accepting, clients>>
        BY <3>1 DEF newThreadHandler
      <3>3. /\ raced' = {} /\ fault' \in {"none", "segv", "uninitialised", "sigpipe"}
            /\ fault' = "none" => StreamFits' /\ LoginFirst'
        BY <1>5, <3>1, <3>2, SoloReceives, SoloWorks
      <3> QED
        BY <3>3 DEF SInv, SoloClientIsSafe
    <2> QED
      BY <1>1, <2>2, <2>3, <2>4, <2>5, <2>6 DEF Next
  <1> QED
    BY <1>1, <1>2, <1>3, <1>4, <1>5

LEMMA InitSInv == Init => SInv
  <1> SUFFICES ASSUME Init PROVE SInv
    OBVIOUS
  <1>1. 1 \in Conn
    BY ServerAssumption DEF Conn
  <1>2. inbox[1] = <<>> /\ asked[1] = <<>> /\ pc[1] = "unborn" /\ raced = {} /\ fault = "none"
    BY <1>1 DEF Init
  <1> QED
    BY <1>2 DEF SInv, StreamFits, Framed, LoginFirst, SoloClientIsSafe

\* Whatever a client sends while no other has connected, and in whatever steps
\* it is served: no request is taken for another part of the stream, no table
\* is read outside its bounds, and the user has a number, a name and a room
\* when they are looked up.  What is left is the greeting (handleHello reads
\* address 1) and a client that has left (lines 133-140, 343-347).
THEOREM SoloClientIsSafeHolds == Spec => []SoloClientIsSafe
  <1>1. Init => SInv
    BY InitSInv
  <1>2. TInv /\ Serves /\ DInv /\ DInv' /\ SInv /\ [Next]_vars => SInv'
    BY NextSInv
  <1>3. SInv => SoloClientIsSafe
    BY DEF SInv
  <1> QED
    BY <1>1, <1>2, <1>3, DamageInvariant, PTL DEF Spec

-----------------------------------------------------------------------------
(* What a step does to the threads, to what has been sent, and to the        *)
(* history.                                                                  *)

\* A thread leaves the locals of the others alone.
LEMMA OnlyItsOwn ==
    ASSUME TInv, NEW t \in Conn, newThreadHandler(t), NEW u \in Conn, u # t
    PROVE  /\ pc'[u] = pc[u] /\ fd'[u] = fd[u] /\ req'[u] = req[u]
           /\ reg'[u] = reg[u] /\ sender'[u] = sender[u] /\ old'[u] = old[u]
  <1>1. /\ pc \in [Conn -> Step \cup {"unborn"}] /\ fd \in [Conn -> {NoFd} \cup Conn]
        /\ reg \in [Conn -> Nat] /\ sender \in [Conn -> Nat \X Entries] /\ req \in [Conn -> Reqs]
        /\ old \in [Conn \cup {0} -> Seq(Entries)]
    BY DEF TInv, IInv, StartedInOrder, TypedThreads, TypedTables
  <1>2. pc'[u] = pc[u] /\ fd'[u] = fd[u]
    BY <1>1, ThreadFrame DEF Moves
  <1>3. CASE ReadSlot(t) \/ RecvHead(t) \/ RecvBody(t) \/ RecvFails(t) \/ ReadsFreed(t)
    BY <1>1, <1>2, <1>3 DEF ReadSlot, RecvHead, RecvBody, RecvFails, ReadsFreed, locals, Set
  <1>4. CASE HandleAppend(t)
    BY <1>1, <1>2, <1>4 DEF HandleAppend, LoadCount, StoreCount, Grow, Publish, Put, Number, locals, Set
  <1>5. CASE Lookup(t) \/ Enter(t) \/ CollectRooms(t) \/ CollectUsers(t)
    BY <1>1, <1>2, <1>5 DEF Lookup, Enter, CollectRooms, CollectUsers, locals, Set
  <1>6. CASE SendHead(t) \/ SendBody(t) \/ EventHead(t) \/ EventBody(t)
    BY <1>1, <1>2, <1>6 DEF SendHead, SendBody, EventHead, EventBody, locals, Set
  <1>7. CASE Find(t) \/ EachUser(t)
    BY <1>1, <1>2, <1>7 DEF Find, EachUser, locals, Set
  <1> QED
    BY <1>3, <1>4, <1>5, <1>6, <1>7 DEF newThreadHandler

\* Thread t sends c this part of an answer to its request.
Sends(t, c, part) ==
    /\ c \in Conn \ gone /\ part \in OutParts /\ part.by = t /\ part.req = req[t]
    /\ out' = [out EXCEPT ![c] = Append(@, part)]

LEMMA PartSent ==
    ASSUME TInv, NEW t \in Conn, NEW c, NEW kind \in {"reply", "event"}, NEW half \in {"head", "body"},
           NEW val \in Nat \cup (Nat \X Entries), NEW step, SendTo(c, t, kind, half, val, step)
    PROVE  \/ out' = out /\ c \notin Conn \ gone
           \/ \E part : /\ Sends(t, c, part) /\ part.kind = kind /\ part.half = half /\ part.val = val
                        /\ Goto(t, step)
  <1>1. PICK part : part = [kind |-> kind, half |-> half, by |-> t, req |-> req[t], val |-> val]
    OBVIOUS
  <1>2. req[t] \in Reqs
    BY DEF TInv, TypedThreads
  <1>3. part \in OutParts /\ part.by = t /\ part.req = req[t]
    BY <1>1, <1>2 DEF OutParts
  <1>4. part.kind = kind /\ part.half = half /\ part.val = val
    BY <1>1
  <1>5. \/ c \in Conn \ gone /\ out' = [out EXCEPT ![c] = Append(@, part)] /\ Goto(t, step)
        \/ c \notin Conn \ gone /\ out' = out
    BY <1>1 DEF SendTo
  <1> QED
    BY <1>3, <1>4, <1>5 DEF Sends

\* A part reaches a client that has not left.
LEMMA PartReaches ==
    ASSUME TInv, NEW t \in Conn, NEW c \in Conn \ gone, NEW kind \in {"reply", "event"},
           NEW half \in {"head", "body"}, NEW val \in Nat \cup (Nat \X Entries), NEW step,
           SendTo(c, t, kind, half, val, step)
    PROVE  \E part : Sends(t, c, part) /\ part.kind = kind /\ part.half = half
  <1>1. PICK part : part = [kind |-> kind, half |-> half, by |-> t, req |-> req[t], val |-> val]
    OBVIOUS
  <1>2. req[t] \in Reqs
    BY DEF TInv, TypedThreads
  <1>3. part \in OutParts /\ part.by = t /\ part.req = req[t] /\ part.kind = kind /\ part.half = half
    BY <1>1, <1>2 DEF OutParts
  <1>4. out' = [out EXCEPT ![c] = Append(@, part)]
    BY <1>1 DEF SendTo
  <1> QED
    BY <1>3, <1>4 DEF Sends

\* The body of an event reaches a client that has not left.
LEMMA BodyReaches ==
    ASSUME TInv, NEW t \in Conn, NEW k \in Conn \ gone, SendTo(k, t, "event", "body", sender[t], "each")
    PROVE  \E part : Sends(t, k, part) /\ part.kind = "event" /\ part.half = "body"
  <1>1. sender[t] \in Nat \cup (Nat \X Entries)
    BY DEF TInv, TypedThreads
  <1> QED
    BY ZenonT(30), <1>1, PartReaches

\* What has been sent, and by which step.
SentReply(t) == \E part :
    /\ Sends(t, fd[t], part) /\ part.kind = "reply"
    /\ \/ /\ pc[t] = "sendHead" /\ pc' = [pc EXCEPT ![t] = "sendBody"]
          /\ part.half = "head" /\ part.val = InHead(t)
       \/ /\ pc[t] = "sendBody" /\ pc' = [pc EXCEPT ![t] = "loop"]
          /\ part.half = "body" /\ part.val = Id(t)

SentEvent(t) == \E part :
    /\ Sends(t, connectedUsers[reg[t]], part) /\ part.kind = "event"
    /\ \/ pc[t] = "eventHead" /\ part.half = "head"
       \/ pc[t] = "eventBody" /\ part.half = "body"

LEMMA RepliesAndEvents ==
    ASSUME TInv, NEW t \in Conn, newThreadHandler(t)
    PROVE  \/ out' = out
           \/ SentReply(t) /\ UNCHANGED <<num, table, roomsByUser, req, reg, fd, inbox, raced, fault>>
           \/ SentEvent(t) /\ UNCHANGED <<num, table, roomsByUser, req, fd, inbox, raced, fault>>
  <1>1. InHead(t) \in Nat /\ Id(t) \in Nat /\ sender[t] \in Nat \X Entries
    BY NumbersSent DEF TInv, TypedThreads
  <1>2. CASE SendHead(t)
    <2>1. SendTo(fd[t], t, "reply", "head", InHead(t), "sendBody") /\ pc[t] = "sendHead"
      BY <1>2 DEF SendHead, ReplyTo
    <2>2. \/ out' = out
          \/ \E part : /\ Sends(t, fd[t], part) /\ part.kind = "reply" /\ part.half = "head"
                       /\ part.val = InHead(t) /\ Goto(t, "sendBody")
      BY <1>1, <2>1, PartSent
    <2>3. UNCHANGED <<num, table, roomsByUser, req, reg, fd, inbox, raced>>
      BY <1>2 DEF SendHead, users, appended, locals
    <2> QED
      BY <2>1, <2>2, <2>3 DEF SentReply, Goto
  <1>3. CASE SendBody(t)
    <2>1. SendTo(fd[t], t, "reply", "body", Id(t), "loop") /\ pc[t] = "sendBody"
      BY <1>3 DEF SendBody, ReplyTo
    <2>2. \/ out' = out
          \/ \E part : /\ Sends(t, fd[t], part) /\ part.kind = "reply" /\ part.half = "body"
                       /\ part.val = Id(t) /\ Goto(t, "loop")
      BY <1>1, <2>1, PartSent
    <2>3. UNCHANGED <<num, table, roomsByUser, req, reg, fd, inbox, raced>>
      BY <1>3 DEF SendBody, users, appended, locals
    <2> QED
      BY <2>1, <2>2, <2>3 DEF SentReply, Goto
  <1>4. CASE EventHead(t) \/ EventBody(t)
    <2>1. PICK c : c = connectedUsers[reg[t]]
      OBVIOUS
    <2>2. \/ SendTo(c, t, "event", "head", sender[t], "eventBody") /\ pc[t] = "eventHead"
          \/ SendTo(c, t, "event", "body", sender[t], "each") /\ pc[t] = "eventBody"
      BY <1>4, <2>1 DEF EventHead, EventBody
    <2>3. \/ out' = out
          \/ UNCHANGED fault /\ \E part :
               /\ Sends(t, c, part) /\ part.kind = "event"
               /\ \/ pc[t] = "eventHead" /\ part.half = "head"
                  \/ pc[t] = "eventBody" /\ part.half = "body"
      <3>1. CASE SendTo(c, t, "event", "head", sender[t], "eventBody") /\ pc[t] = "eventHead"
        <4>1. \/ out' = out
              \/ \E part : /\ Sends(t, c, part) /\ part.kind = "event" /\ part.half = "head"
                           /\ Goto(t, "eventBody")
          BY ZenonT(30), <1>1, <3>1, PartSent
        <4> QED
          BY <3>1, <4>1 DEF Goto
      <3>2. CASE SendTo(c, t, "event", "body", sender[t], "each") /\ pc[t] = "eventBody"
        <4>1. \/ out' = out
              \/ \E part : /\ Sends(t, c, part) /\ part.kind = "event" /\ part.half = "body"
                           /\ Goto(t, "each")
          BY ZenonT(30), <1>1, <3>2, PartSent
        <4> QED
          BY <3>2, <4>1 DEF Goto
      <3> QED
        BY <2>2, <3>1, <3>2
    <2>4. UNCHANGED <<num, table, roomsByUser, req, fd, inbox, raced>>
      BY <1>4 DEF EventHead, EventBody, users, appended, locals
    <2> QED
      BY <2>1, <2>3, <2>4 DEF SentEvent
  <1>5. CASE ~(SendHead(t) \/ SendBody(t) \/ EventHead(t) \/ EventBody(t))
    BY <1>5 DEF newThreadHandler, ReadSlot, RecvHead, RecvBody, RecvFails, ReadsFreed,
                HandleAppend, LoadCount, StoreCount, Grow, Publish, Put, Number, Lookup, Enter,
                CollectRooms, CollectUsers, Find, EachUser
  <1> QED
    BY <1>2, <1>3, <1>4, <1>5

\* A part comes last.
LEMMA LastSent ==
    ASSUME TInv, NEW t \in Conn, NEW c, NEW part, Sends(t, c, part)
    PROVE  /\ c \in Conn /\ c \notin gone
           /\ Len(out[c]) \in Nat /\ DOMAIN out[c] = 1..Len(out[c])
           /\ Len(out'[c]) = Len(out[c]) + 1 /\ DOMAIN out'[c] = 1..(Len(out[c]) + 1)
           /\ out'[c][Len(out[c]) + 1] = part
           /\ \A k \in 1..Len(out[c]) : out'[c][k] = out[c][k]
           /\ \A d \in Conn : d # c => out'[d] = out[d]
  <1>1. /\ out \in [Conn -> Seq(OutParts)] /\ c \in Conn /\ c \notin gone /\ out[c] \in Seq(OutParts)
        /\ out' = [out EXCEPT ![c] = Append(@, part)] /\ part \in OutParts
    BY DEF TInv, TypedNetwork, Sends
  <1>2. out'[c] = Append(out[c], part) /\ \A d \in Conn : d # c => out'[d] = out[d]
    BY <1>1
  <1>3. /\ Len(out[c]) \in Nat /\ DOMAIN out[c] = 1..Len(out[c])
        /\ out'[c] \in Seq(OutParts) /\ Len(out'[c]) = Len(out[c]) + 1
        /\ out'[c][Len(out[c]) + 1] = part
        /\ \A k \in 1..Len(out[c]) : out'[c][k] = out[c][k]
    BY <1>1, <1>2, AppendProperties, LenProperties
  <1>4. DOMAIN out'[c] = 1..(Len(out[c]) + 1)
    BY <1>3, LenProperties
  <1> QED
    BY <1>1, <1>2, <1>3, <1>4

\* What has been sent stays sent, and the history is kept.
LEMMA HistoryGrows ==
    ASSUME TInv, [Next]_vars
    PROVE  /\ \A c \in Conn : \A k \in DOMAIN out[c] : k \in DOMAIN out'[c] /\ out'[c][k] = out[c][k]
           /\ raced \subseteq raced' /\ gone \subseteq gone'
           /\ fault' = "none" => fault = "none"
  <1>1. CASE UNCHANGED vars
    BY <1>1 DEF vars, clients
  <1>2. CASE fault = "none" /\ (MainStep(Accept) \/ MainStep(AcceptFails) \/ MainStep(Register))
    BY <1>2 DEF MainStep, clients, Accept, AcceptFails, Register, AddUser, PutUser, CopyRooms,
                GrowRooms, Start
  <1>3. CASE fault = "none" /\ \E c \in Conn : Ask(c) \/ Leave(c)
    BY <1>3 DEF Ask, Leave
  <1>4. CASE fault = "none" /\ \E t \in Conn : newThreadHandler(t)
    <2>1. PICK t \in Conn : newThreadHandler(t)
      BY <1>4
    <2>2. UNCHANGED gone
      BY <2>1 DEF newThreadHandler, clients
    <2>3. raced \subseteq raced'
      BY <2>1 DEF newThreadHandler, ReadSlot, RecvHead, RecvBody, RecvFails, ReadsFreed,
                  HandleAppend, LoadCount, StoreCount, Grow, Publish, Put, Number, Lookup, Enter,
                  CollectRooms, CollectUsers, Find, EachUser, SendHead, SendBody, EventHead,
                  EventBody, Dispatch
    <2>4. ASSUME NEW c, NEW part, Sends(t, c, part), NEW d \in Conn, NEW k \in DOMAIN out[d]
          PROVE  k \in DOMAIN out'[d] /\ out'[d][k] = out[d][k]
      BY <2>4, LastSent
    <2>5. \A d \in Conn : \A k \in DOMAIN out[d] : k \in DOMAIN out'[d] /\ out'[d][k] = out[d][k]
      BY <2>1, <2>4, RepliesAndEvents DEF SentReply, SentEvent
    <2> QED
      BY <1>4, <2>2, <2>3, <2>5
  <1> QED
    BY <1>1, <1>2, <1>3, <1>4 DEF Next

-----------------------------------------------------------------------------
(* Broadcasts.                                                               *)

\* The whole of the message has been sent to user k.
SentTo(t, k) == \E p \in Parts(k, "event") : /\ out[k][p].half = "body" /\ out[k][p].by = t
                                             /\ out[k][p].req = req[t]

\* The users the loop has passed.
Passed(t) == \A k \in 1..numUsers :
    k < reg[t] /\ k # sender[t][1] /\ roomsByUser[k] = req[t].arg => SentTo(t, k)

Passing(t) == pc[t] \in {"each", "eventHead", "eventBody"}

BInv == fault = "none" /\ "members" \notin raced /\ gone = {} =>
    \A t \in Conn : Passing(t) => Passed(t)

\* A message is on its way to the members of a room: nobody changes them.
LEMMA MembersStand ==
    ASSUME TInv, Serves, Undamaged, NEW t \in Conn, Passing(t), "members" \notin raced
    PROVE  /\ main = "accept" /\ req[t].rpc = "message" /\ Uses(t, "members")
           /\ numUsers = accepted /\ Len(roomsByUser) = accepted
           /\ \A k \in 1..numUsers : k \in Conn /\ connectedUsers[k] = k
           /\ \A u \in Conn : Uses(u, "members") => u = t
  <1>1. req[t].rpc = "message"
    BY DEF Undamaged, StepFits, Passing
  <1>2. Uses(t, "members")
    BY <1>1 DEF Uses, Working, Passing, Touches
  <1>3. main = "accept" /\ Len(roomsByUser) = accepted /\ numUsers = accepted
    BY <1>2, ServedIsRegistered
  <1>4. \A u \in Conn : Uses(u, "members") => u = t
    BY <1>2 DEF Undamaged, Apart, Shared
  <1>5. \A k \in 1..numUsers : k \in Conn
    BY <1>3, ServerAssumption DEF TInv, TypedMain, Conn
  <1>6. \A k \in 1..numUsers : connectedUsers[k] = k
    BY <1>3, DescriptorOf DEF TInv
  <1> QED
    BY <1>1, <1>2, <1>3, <1>4, <1>5, <1>6

\* What has been sent stays sent.
LEMMA StillSent ==
    ASSUME TInv, [Next]_vars, NEW t \in Conn, NEW k \in Conn, SentTo(t, k), req'[t] = req[t]
    PROVE  SentTo(t, k)'
  <1>1. PICK p \in Parts(k, "event") : /\ out[k][p].half = "body" /\ out[k][p].by = t
                                       /\ out[k][p].req = req[t]
    BY DEF SentTo
  <1>2. p \in DOMAIN out[k] /\ out[k][p].kind = "event"
    BY <1>1 DEF Parts
  <1>3. p \in DOMAIN out'[k] /\ out'[k][p] = out[k][p]
    BY <1>2, HistoryGrows
  <1>4. p \in Parts(k, "event")'
    BY <1>2, <1>3 DEF Parts
  <1> QED
    BY <1>1, <1>3, <1>4 DEF SentTo

\* A step that leaves the members and the loop alone.
LEMMA PassedStays ==
    ASSUME TInv, Serves, Undamaged, [Next]_vars, NEW t \in Conn, Passing(t), Passed(t),
           "members" \notin raced,
           UNCHANGED <<connectedUsers, roomsByUser>>, req'[t] = req[t], sender'[t] = sender[t],
           reg'[t] = reg[t]
    PROVE  Passed(t)'
  <1>1. numUsers' = numUsers /\ numUsers \in Nat
    BY UsersCounted DEF numUsers, TInv
  <1>2. \A k \in 1..numUsers : k \in Conn
    BY MembersStand
  <1>3. \A k \in 1..numUsers : SentTo(t, k) => SentTo(t, k)'
    BY <1>2, StillSent
  <1> QED
    BY <1>1, <1>3 DEF Passed

\* Nobody else changes what a broadcast goes by.
LEMMA OthersPass ==
    ASSUME TInv, Serves, Undamaged, [Next]_vars, NEW t \in Conn, newThreadHandler(t),
           NEW u \in Conn, u # t, Passing(u), Passed(u), "members" \notin raced
    PROVE  Passed(u)'
  <1>1. ~Uses(t, "members")
    BY MembersStand
  <1>2. ~Enter(t)
    <2>1. Enter(t) => Uses(t, "members")
      BY DEF Enter, Undamaged, StepFits, Uses, Working, Touches
    <2> QED
      BY <1>1, <2>1
  <1>3. UNCHANGED roomsByUser
    BY <1>2 DEF newThreadHandler, ReadSlot, RecvHead, RecvBody, RecvFails, ReadsFreed,
                HandleAppend, LoadCount, StoreCount, Grow, Publish, Put, Number, Lookup,
                CollectRooms, CollectUsers, Find, EachUser, SendHead, SendBody, EventHead,
                EventBody, users
  <1>4. UNCHANGED connectedUsers
    BY ThreadFrame
  <1> QED
    BY <1>3, <1>4, OnlyItsOwn, PassedStays

\* A turn of the loop.
LEMMA LoopPasses ==
    ASSUME TInv, Serves, EInv, Undamaged, fault = "none", fault' = "none", [Next]_vars, NEW t \in Conn,
           newThreadHandler(t), Passing(t) => Passed(t), Passing(t)', "members" \notin raced, gone = {}
    PROVE  Passed(t)'
  <1>1. /\ pc \in [Conn -> Step \cup {"unborn"}] /\ reg \in [Conn -> Nat] /\ fd[t] \in {NoFd} \cup Conn
    BY DEF TInv, IInv, StartedInOrder, TypedThreads
  <1>2. CASE Find(t)
    <2>1. reg' = [reg EXCEPT ![t] = 1] \/ UNCHANGED pc
      BY <1>2 DEF Find, Set, Break
    <2>2. pc[t] = "find"
      BY <1>2 DEF Find
    <2>3. reg'[t] = 1
      BY <1>1, <2>1, <2>2 DEF Passing
    <2>4. \A k \in 1..numUsers' : ~(k < reg'[t])
      BY <2>3
    <2> QED
      BY <2>4 DEF Passed
  <1>3. CASE Passing(t) /\ ~Find(t)
    <2>1. Passed(t)
      BY <1>3
    <2>2. UNCHANGED <<connectedUsers, roomsByUser, req, sender>>
      BY <1>3 DEF newThreadHandler, ReadSlot, RecvHead, RecvBody, RecvFails, ReadsFreed,
                  HandleAppend, LoadCount, StoreCount, Grow, Publish, Put, Number, Lookup, Enter,
                  CollectRooms, CollectUsers, EachUser, SendHead, SendBody, EventHead, EventBody,
                  users, locals, Passing
    <2>3. /\ main = "accept" /\ numUsers = accepted /\ Len(roomsByUser) = accepted
          /\ \A k \in 1..numUsers : k \in Conn /\ connectedUsers[k] = k
      BY <1>3, MembersStand
    <2>4. numUsers' = numUsers /\ numUsers \in Nat
      BY <2>2, UsersCounted DEF numUsers, TInv
    <2>5. \A k \in 1..numUsers : SentTo(t, k) => SentTo(t, k)'
      BY <2>2, <2>3, StillSent
    <2>6. ASSUME NEW n \in Nat, n = reg[t], reg'[t] = n + 1,
                 n \in 1..numUsers /\ n # sender[t][1] /\ roomsByUser[n] = req[t].arg
                   => SentTo(t, n)'
          PROVE  Passed(t)'
      <3>1. ASSUME NEW k \in 1..numUsers, k < n + 1, k # sender[t][1], roomsByUser[k] = req[t].arg
            PROVE  SentTo(t, k)'
        <4>1. k < n \/ k = n
          BY <2>4, <3>1
        <4> QED
          BY <2>1, <2>5, <2>6, <3>1, <4>1 DEF Passed
      <3> QED
        BY <2>2, <2>4, <2>6, <3>1 DEF Passed
    <2>7. CASE UNCHANGED reg
      BY <1>3, <2>1, <2>2, <2>7, PassedStays
    <2>8. CASE EachUser(t)
      <3>1. \/ UNCHANGED reg
            \/ /\ reg' = [reg EXCEPT ![t] = reg[t] + 1] /\ reg[t] <= numUsers
               /\ reg[t] = sender[t][1] \/ RoomOf(reg[t]) # req[t].arg
        BY <2>8 DEF EachUser, Set, Another
      <3>2. ASSUME reg[t] \in 1..numUsers, RoomOf(reg[t]) # req[t].arg
            PROVE  roomsByUser[reg[t]] # req[t].arg
        BY <2>3, <3>2 DEF RoomOf
      <3>3. PICK n \in Nat : n = reg[t]
        BY <1>1
      <3>4. CASE reg' = [reg EXCEPT ![t] = reg[t] + 1] /\ (n = sender[t][1] \/ RoomOf(n) # req[t].arg)
        BY <1>1, <2>6, <3>2, <3>3, <3>4
      <3> QED
        BY <2>7, <3>1, <3>3, <3>4
    <2>9. CASE EventHead(t)
      BY <2>7, <2>9 DEF EventHead, locals
    <2>10. CASE EventBody(t)
      <3>1. reg' = [reg EXCEPT ![t] = reg[t] + 1] /\ reg[t] \in 1..numUsers
        BY <2>10 DEF EventBody, Set, EInv, BroadcastFits
      <3>2. PICK k : k = reg[t]
        OBVIOUS
      <3>3. connectedUsers[k] = k /\ k \in Conn
        BY <2>3, <3>1, <3>2
      <3>4. PICK part : Sends(t, k, part) /\ part.kind = "event" /\ part.half = "body"
        <4>1. SendTo(k, t, "event", "body", sender[t], "each")
          BY <2>10, <3>2, <3>3 DEF EventBody
        <4> QED
          BY <3>3, <4>1, BodyReaches
      <3>5. /\ Len(out[k]) + 1 \in DOMAIN out'[k] /\ out'[k][Len(out[k]) + 1] = part
        BY <3>4, LastSent
      <3>6. part.by = t /\ part.req = req'[t]
        BY <2>2, <3>4 DEF Sends
      <3>7. SentTo(t, k)'
        BY <3>4, <3>5, <3>6 DEF SentTo, Parts
      <3>8. k \in Nat /\ reg'[t] = k + 1
        BY <1>1, <3>1, <3>2
      <3> QED
        BY <2>6, <3>2, <3>7, <3>8
    <2> QED
      BY <1>3, <2>7, <2>8, <2>9, <2>10 DEF newThreadHandler, ReadSlot, RecvHead, RecvBody,
                                           RecvFails, ReadsFreed, HandleAppend, LoadCount,
                                           StoreCount, Grow, Publish, Put, Number, Lookup, Enter,
                                           CollectRooms, CollectUsers, SendHead, SendBody, locals,
                                           Passing
  <1>4. CASE ~Passing(t) /\ ~Find(t)
    <2>1. ~Passing(t)'
      <3>1. CASE ReadSlot(t) \/ RecvFails(t) \/ ReadsFreed(t)
        BY <1>1, <1>4, <3>1 DEF ReadSlot, RecvFails, ReadsFreed, Goto, Break, Passing
      <3>2. CASE RecvHead(t) \/ RecvBody(t)
        <4>1. ASSUME NEW r, Dispatch(t, r) PROVE ~Passing(t)'
          BY <1>1, <1>4, <4>1 DEF Dispatch, Goto, Break, Passing, FirstStep
        <4> QED
          BY <1>1, <1>4, <3>2, <4>1 DEF RecvHead, RecvBody, Goto, Break, Passing
      <3>3. CASE HandleAppend(t)
        BY <1>1, <1>4, <3>3 DEF HandleAppend, LoadCount, StoreCount, Grow, Publish, Put, Number,
             Goto, Break, Passing
      <3>4. CASE Lookup(t) \/ Enter(t) \/ CollectRooms(t)
        BY <1>1, <1>4, <3>4 DEF Lookup, Enter, CollectRooms, Goto, Break, Passing
      <3>5. CASE CollectUsers(t)
        BY <1>1, <1>4, <3>5 DEF CollectUsers, Goto, Break, Passing
      <3>6. CASE SendHead(t) \/ SendBody(t)
        BY <1>1, <1>4, <3>6 DEF SendHead, SendBody, SendTo, Goto, Break, Passing
      <3>7. CASE EachUser(t) \/ EventHead(t) \/ EventBody(t)
        BY <1>4, <3>7 DEF EachUser, EventHead, EventBody, Passing
      <3> QED
        BY <1>4, <3>1, <3>2, <3>3, <3>4, <3>5, <3>6, <3>7 DEF newThreadHandler
    <2> QED
      BY <2>1
  <1> QED
    BY <1>2, <1>3, <1>4

LEMMA NextBInv == TInv /\ Serves /\ EInv /\ DInv /\ BInv /\ [Next]_vars => BInv'
  <1> SUFFICES ASSUME TInv, Serves, EInv, DInv, BInv, [Next]_vars,
                      fault' = "none", "members" \notin raced', gone' = {},
                      NEW u \in Conn, Passing(u)'
               PROVE  Passed(u)'
    BY DEF BInv
  <1>1. fault = "none" /\ "members" \notin raced /\ gone = {} /\ Undamaged
    BY HistoryGrows DEF DInv
  <1>2. Passing(u) => Passed(u)
    BY <1>1 DEF BInv
  <1>3. CASE UNCHANGED vars
    BY <1>1, <1>2, <1>3, PassedStays DEF vars, users, locals, Passing
  <1>4. CASE \E c \in Conn : Ask(c) \/ Leave(c)
    <2>1. UNCHANGED <<pc, connectedUsers, roomsByUser, req, sender, reg>>
      BY <1>4 DEF Ask, Leave, users, locals
    <2> QED
      BY <1>1, <1>2, <2>1, PassedStays DEF Passing
  <1>5. CASE MainStep(Accept) \/ MainStep(AcceptFails)
    <2>1. UNCHANGED <<pc, connectedUsers, roomsByUser, req, sender, reg>>
      BY <1>5 DEF MainStep, Accept, AcceptFails, users, locals
    <2> QED
      BY <1>1, <1>2, <2>1, PassedStays DEF Passing
  <1>6. CASE MainStep(Register)
    <2>1. main # "accept" /\ (UNCHANGED pc \/ pc' = [pc EXCEPT ![Len(connectedUsers)] = "loop"])
      BY <1>6 DEF MainStep, Register, AddUser, PutUser, CopyRooms, GrowRooms, Start
    <2>2. pc \in [Conn -> Step \cup {"unborn"}]
      BY DEF TInv, IInv, StartedInOrder
    <2>3. Passing(u)
      BY <2>1, <2>2 DEF Passing
    <2> QED
      BY <1>1, <2>1, <2>3, MembersStand
  <1>7. CASE \E t \in Conn : newThreadHandler(t)
    <2>1. PICK t \in Conn : newThreadHandler(t)
      BY <1>7
    <2>2. CASE u = t
      BY <1>1, <1>2, <2>1, <2>2, LoopPasses
    <2>3. CASE u # t
      BY <1>1, <1>2, <2>1, <2>3, OnlyItsOwn, OthersPass DEF Passing
    <2> QED
      BY <2>2, <2>3
  <1> QED
    BY <1>3, <1>4, <1>5, <1>6, <1>7 DEF Next

LEMMA InitBInv == Init => BInv
  BY DEF Init, BInv, Passing

LEMMA BroadcastInvariant == Spec => [](TInv /\ Serves /\ DInv /\ BInv)
  <1>1. Init => BInv
    BY InitBInv
  <1>2. TInv /\ Serves /\ EInv /\ DInv /\ BInv /\ [Next]_vars => BInv'
    BY NextBInv
  <1> QED
    BY <1>1, <1>2, EventsInvariant, DamageInvariant, PTL DEF Spec

\* Whoever reads the message and however many threads are at work: when the loop
\* of broadcastMessageToChannel (lines 143-150) ends, every other member of the
\* room has been sent all of the event, unless the memberships have been used by
\* two at once or a client has left.
THEOREM BroadcastReachesRoomHolds == Spec => BroadcastReachesRoom
  <1> DEFINE Reaches == \A t \in Conn :
         /\ pc[t] = "each" /\ pc'[t] = "loop"
         /\ "members" \notin raced /\ gone = {}
         => \A k \in 1..numUsers :
              k # sender[t][1] /\ roomsByUser[k] = req[t].arg =>
                \E p \in Parts(k, "event") : /\ out[k][p].half = "body" /\ out[k][p].by = t
                                             /\ out[k][p].req = req[t]
  <1>1. TInv /\ Serves /\ DInv /\ BInv /\ [Next]_vars => Reaches \/ UNCHANGED vars
    <2> SUFFICES ASSUME TInv, Serves, DInv, BInv, [Next]_vars, ~UNCHANGED vars, NEW t \in Conn,
                        pc[t] = "each", pc'[t] = "loop", "members" \notin raced, gone = {},
                        NEW k \in 1..numUsers, k # sender[t][1], roomsByUser[k] = req[t].arg
                 PROVE  SentTo(t, k)
      BY DEF SentTo
    <2>1. Next /\ fault = "none"
      BY DEF Next
    <2>2. pc \in [Conn -> Step \cup {"unborn"}]
      BY DEF TInv, IInv, StartedInOrder
    <2>3. Passed(t)
      BY <2>1 DEF BInv, Passing
    <2>4. numUsers < reg[t]
      <3>1. \E u \in Conn : newThreadHandler(u)
        <4>1. ~(\E c \in Conn : Ask(c) \/ Leave(c))
          BY DEF Ask, Leave
        <4>2. ASSUME MainStep(Accept) \/ MainStep(AcceptFails) \/ MainStep(Register) PROVE FALSE
          <5>1. UNCHANGED pc \/ (main = "start" /\ pc' = [pc EXCEPT ![Len(connectedUsers)] = "loop"])
            BY <4>2 DEF MainStep, Accept, AcceptFails, Register, AddUser, PutUser, CopyRooms,
                        GrowRooms, Start
          <5>2. (Len(connectedUsers) = accepted /\ pc[accepted] = "unborn") \/ UNCHANGED pc
            BY <2>1, <5>1 DEF TInv, IInv, SlotIsNewest, DInv, Undamaged, NewestWaits
          <5> QED
            BY <2>2, <5>1, <5>2
        <4> QED
          BY <2>1, <4>1, <4>2 DEF Next
      <3>2. newThreadHandler(t)
        BY <3>1, OnlyItsOwn
      <3>3. EachUser(t)
        BY <2>2, <3>2, FreedAt DEF newThreadHandler, ReadSlot, RecvHead, RecvBody, RecvFails, ReadsFreed,
                    HandleAppend, LoadCount, StoreCount, Grow, Publish, Put, Number, Lookup, Enter,
                    CollectRooms, CollectUsers, SendHead, SendBody, Find, EventHead, EventBody
      <3>4. numUsers \in Nat /\ reg[t] \in Nat
        BY UsersCounted DEF TInv, TypedThreads
      <3> QED
        BY <2>2, <3>3, <3>4 DEF EachUser, Goto
    <2>5. numUsers \in Nat /\ reg[t] \in Nat
      BY UsersCounted DEF TInv, TypedThreads
    <2>6. k < reg[t]
      BY <2>4, <2>5
    <2> QED
      BY <2>3, <2>6 DEF Passed
  <1>2. [](TInv /\ Serves /\ DInv /\ BInv) /\ [][Next]_vars => [][Reaches]_vars
    BY <1>1, PTL
  <1> QED
    BY <1>2, BroadcastInvariant, PTL DEF Spec, BroadcastReachesRoom

-----------------------------------------------------------------------------
(* What a thread does to the table it appends to.                            *)

GrownFrom(tab, block, n) ==
    Len(table'[tab]) = n /\ \A k \in 1..n : k <= Len(block) => table'[tab][k] = block[k]

AppendTurn(t, tab) ==
    \/ pc[t] = "load" /\ pc'[t] = "count" /\ reg'[t] = num[tab] /\ UNCHANGED <<num, table>>
    \/ pc[t] = "count" /\ pc'[t] = "grow" /\ num'[tab] = reg[t] + 1 /\ UNCHANGED <<table, reg>>
    \/ /\ pc[t] = "grow" /\ pc'[t] = "publish" /\ reg'[t] = num[tab] /\ old'[t] = table[tab]
       /\ UNCHANGED <<num, table>>
    \/ /\ pc[t] = "publish" /\ pc'[t] = "put" /\ UNCHANGED <<num, reg>>
       /\ GrownFrom(tab, old[t], reg[t]) \/ GrownFrom(tab, table[tab], reg[t])
    \/ /\ pc[t] = "put" /\ pc'[t] = "number" /\ UNCHANGED <<num, reg>> /\ num[tab] <= Len(table[tab])
       /\ \E name \in Names(req[t]) : table'[tab] = [table[tab] EXCEPT ![num[tab]] = name]
       /\ Len(table'[tab]) = Len(table[tab])
    \/ pc[t] = "number" /\ pc'[t] = "sendHead" /\ reg'[t] = Answer(t) /\ UNCHANGED <<num, table>>

LEMMA AppendTurns ==
    ASSUME TInv, fault = "none", fault' = "none", NEW t \in Conn, HandleAppend(t), NEW tab, tab = Tab(t)
    PROVE  /\ UNCHANGED <<req, raced, out, roomsByUser, fd>> /\ AppendTurn(t, tab)
           /\ \A other \in Tables : other # tab => num'[other] = num[other]
                                                   /\ table'[other] = table[other]
  <1>1. /\ tab \in Tables /\ pc \in [Conn -> Step \cup {"unborn"}] /\ reg \in [Conn -> Nat]
        /\ num \in [Tables -> Nat] /\ table \in [Tables -> Seq(Entries)]
        /\ old \in [Conn \cup {0} -> Seq(Entries)] /\ req[t] \in Reqs
    BY DEF Tab, Tables, TInv, IInv, StartedInOrder, TypedTables, TypedThreads
  <1>2. UNCHANGED <<req, raced, out, roomsByUser, fd>>
    BY DEF HandleAppend, LoadCount, StoreCount, Grow, Publish, Put, Number, users, locals
  <1>3. ASSUME NEW what, Break(what) PROVE what = "none"
    BY <1>3 DEF Break
  <1>4. table[tab] \in Seq(Entries) /\ Len(table[tab]) \in Nat /\ num[tab] \in Nat
    BY <1>1, LenProperties
  <1>5. CASE LoadCount(t) \/ Number(t)
    <2>1. UNCHANGED <<num, table>>
      BY <1>5 DEF LoadCount, Number, appended
    <2>2. AppendTurn(t, tab)
      BY <1>1, <1>5, <2>1 DEF LoadCount, Number, Goto, Set, AppendTurn
    <2> QED
      BY <1>2, <2>1, <2>2
  <1>6. CASE StoreCount(t)
    <2>1. num' = [num EXCEPT ![tab] = reg[t] + 1] /\ UNCHANGED <<table, reg>>
      BY <1>6 DEF StoreCount, locals
    <2>2. pc[t] = "count" /\ pc'[t] = "grow" /\ num'[tab] = reg[t] + 1
      BY <1>1, <1>6, <2>1 DEF StoreCount, Goto
    <2> QED
      BY <1>1, <1>2, <2>1, <2>2 DEF AppendTurn
  <1>7. CASE Grow(t)
    <2>1. UNCHANGED <<num, table>> /\ reg'[t] = num[tab] /\ old'[t] = table[tab]
      BY <1>1, <1>7 DEF Grow, NewSize, Set, appended
    <2>2. pc[t] = "grow" /\ pc'[t] = "publish"
      BY <1>1, <1>7 DEF Grow, Goto
    <2> QED
      BY <1>2, <2>1, <2>2 DEF AppendTurn
  <1>8. CASE Publish(t)
    <2>1. Goto(t, "put") /\ UNCHANGED <<num, reg>> /\ pc[t] = "publish"
      BY <1>3, <1>8 DEF Publish, locals
    <2>2. PICK block \in {old[t], table[tab]} :
            table' = [table EXCEPT ![tab] =
               [k \in 1..reg[t] |-> IF k <= Len(block) THEN block[k] ELSE Junk]]
      BY <1>3, <1>8 DEF Publish
    <2>3. block \in Seq(Entries) /\ Len(block) \in Nat /\ reg[t] \in Nat
      BY <1>1, <2>2, LenProperties
    <2>4. /\ table'[tab] = [k \in 1..reg[t] |-> IF k <= Len(block) THEN block[k] ELSE Junk]
          /\ \A other \in Tables : other # tab => table'[other] = table[other]
      BY <1>1, <2>2
    <2>5. Len(table'[tab]) = reg[t]
      <3>1. \A k \in 1..reg[t] : k <= Len(block) => block[k] \in Entries
        BY <2>3, ElementOfSeq
      <3>2. table'[tab] \in [1..reg[t] -> Entries]
        BY <2>4, <3>1 DEF Entries
      <3>3. table'[tab] \in Seq(Entries) /\ DOMAIN table'[tab] = 1..reg[t]
        BY <2>3, <3>2, SeqDef
      <3> QED
        BY <2>3, <3>3, LenProperties
    <2>6. GrownFrom(tab, block, reg[t])
      BY <2>4, <2>5 DEF GrownFrom
    <2>7. pc'[t] = "put"
      BY <1>1, <2>1 DEF Goto
    <2> QED
      BY <1>2, <2>1, <2>2, <2>4, <2>6, <2>7 DEF AppendTurn
  <1>9. CASE Put(t)
    <2>1. Goto(t, "number") /\ UNCHANGED <<num, reg>> /\ pc[t] = "put"
      BY <1>3, <1>9 DEF Put, locals
    <2>0. num[tab] <= Len(table[tab])
      BY <1>3, <1>4, <1>9 DEF Put
    <2>2. PICK name \in Names(req[t]) : table' = [table EXCEPT ![tab][num[tab]] = name]
      BY <1>3, <1>4, <1>9 DEF Put
    <2>3. /\ table'[tab] = [table[tab] EXCEPT ![num[tab]] = name]
          /\ \A other \in Tables : other # tab => table'[other] = table[other]
      BY <1>1, <2>2
    <2>4. name \in Entries
      BY <1>1, NameTypes DEF Reqs, Entries
    <2>5. PICK s, n, e : s = table[tab] /\ n = num[tab] /\ e = name
      OBVIOUS
    <2>6. [s EXCEPT ![n] = e] \in Seq(Entries)
      BY <1>4, <2>4, <2>5, StillLong
    <2>7. table'[tab] \in Seq(Entries) /\ DOMAIN table'[tab] = DOMAIN table[tab]
      BY <2>3, <2>5, <2>6
    <2>8. Len(table'[tab]) = Len(table[tab])
      BY <1>4, <2>7, LenProperties
    <2>9. pc'[t] = "number"
      BY <1>1, <2>1 DEF Goto
    <2> QED
      BY <1>2, <2>0, <2>1, <2>3, <2>8, <2>9 DEF AppendTurn
  <1> QED
    BY <1>5, <1>6, <1>7, <1>8, <1>9 DEF HandleAppend

\* A step that appends to no table.
Appending == {"load", "count", "grow", "publish", "put", "number"}

LEMMA NothingAppended ==
    ASSUME TInv, NEW t \in Conn, newThreadHandler(t), ~HandleAppend(t), fault' = "none"
    PROVE  /\ UNCHANGED <<num, table>> /\ pc[t] \notin Appending
           /\ pc'[t] \notin Appending \ {"load"}
  <1>1. pc \in [Conn -> Step \cup {"unborn"}]
    BY DEF TInv, IInv, StartedInOrder
  <1>2. UNCHANGED <<num, table>>
    BY DEF newThreadHandler, ReadSlot, RecvHead, RecvBody, RecvFails, ReadsFreed, Lookup, Enter,
           CollectRooms, CollectUsers, Find, EachUser, SendHead, SendBody, EventHead, EventBody,
           appended
  <1>3. pc[t] \notin Appending
    BY FreedAt DEF newThreadHandler, ReadSlot, RecvHead, RecvBody, RecvFails, ReadsFreed, Lookup, Enter,
           CollectRooms, CollectUsers, Find, EachUser, SendHead, SendBody, EventHead, EventBody,
           Appending
  <1>4. pc'[t] \notin Appending \ {"load"}
    <2>1. CASE ReadSlot(t) \/ RecvFails(t) \/ ReadsFreed(t)
      BY <1>1, <1>3, <2>1 DEF ReadSlot, RecvFails, ReadsFreed, Goto, Break, Appending
    <2>2. CASE RecvHead(t) \/ RecvBody(t)
      <3>1. ASSUME NEW r, Dispatch(t, r) PROVE pc'[t] \notin Appending \ {"load"}
        BY <1>1, <1>3, <3>1 DEF Dispatch, Goto, Break, Appending, FirstStep
      <3> QED
        BY <1>1, <1>3, <2>2, <3>1 DEF RecvHead, RecvBody, Goto, Break, Appending
    <2>3. CASE Lookup(t) \/ Enter(t) \/ CollectRooms(t)
      BY <1>1, <1>3, <2>3 DEF Lookup, Enter, CollectRooms, Goto, Break, Appending
    <2>4. CASE CollectUsers(t)
      BY <1>1, <1>3, <2>4 DEF CollectUsers, Goto, Break, Appending
    <2>5. CASE SendHead(t) \/ SendBody(t) \/ EventHead(t) \/ EventBody(t)
      BY <1>1, <1>3, <2>5 DEF SendHead, SendBody, EventHead, EventBody, SendTo, Goto, Break, Appending
    <2>6. CASE Find(t) \/ EachUser(t)
      BY <1>1, <1>3, <2>6 DEF Find, EachUser, Goto, Break, Appending
    <2> QED
      BY <2>1, <2>2, <2>3, <2>4, <2>5, <2>6 DEF newThreadHandler
  <1> QED
    BY <1>2, <1>3, <1>4

\* main() and the clients leave the tables to the threads.
LEMMA TablesAreTheThreads ==
    ASSUME TInv, Serves, UNCHANGED vars \/ (\E c \in Conn : Ask(c) \/ Leave(c))
                 \/ MainStep(Accept) \/ MainStep(AcceptFails) \/ MainStep(Register)
    PROVE  /\ UNCHANGED <<num, table, fd, req, reg, sender, out>>
           /\ \A t \in Conn : old'[t] = old[t] /\ pc'[t] \in {pc[t], "loop"}
  <1>1. pc \in [Conn -> Step \cup {"unborn"}] /\ old \in [Conn \cup {0} -> Seq(Entries)]
    BY DEF TInv, IInv, StartedInOrder, TypedTables
  <1>2. CASE UNCHANGED vars
    BY <1>2 DEF vars, appended, locals
  <1>3. CASE \E c \in Conn : Ask(c) \/ Leave(c)
    BY <1>3 DEF Ask, Leave, appended, locals
  <1>4. CASE MainStep(Accept) \/ MainStep(AcceptFails) \/ MainStep(Register)
    <2>1. UNCHANGED <<num, table, fd, req, reg, sender, out>>
      BY <1>4 DEF MainStep, appended, locals
    <2>2. 0 \notin Conn
      BY DEF Conn
    <2>3. \A t \in Conn : old'[t] = old[t] /\ pc'[t] \in {pc[t], "loop"}
      BY <1>1, <1>4, <2>2 DEF MainStep, Accept, AcceptFails, Register, AddUser, PutUser, CopyRooms,
                              GrowRooms, Start
    <2> QED
      BY <2>1, <2>3
  <1> QED
    BY <1>2, <1>3, <1>4

-----------------------------------------------------------------------------
(* The general room.                                                         *)

GeneralFirst(s) == Len(s) # 0 /\ s[1] = General

\* A thread that makes a room never makes it the first.
KeepsGeneral(t) == Tab(t) = "rooms" =>
    /\ pc[t] = "count" => reg[t] # 0
    /\ pc[t] \in {"grow", "publish", "put"} => num["rooms"] > 1
    /\ pc[t] = "publish" => reg[t] # 0 /\ GeneralFirst(old[t])

GInv == fault = "none" => GeneralFirst(table["rooms"]) /\ \A t \in Conn : KeepsGeneral(t)

\* A thread that stands still, while the rooms only grow in number.
LEMMA KeepsStill ==
    ASSUME NEW t \in Conn, KeepsGeneral(t), pc'[t] = pc[t], req'[t] = req[t], reg'[t] = reg[t],
           old'[t] = old[t], num["rooms"] > 1 => num'["rooms"] > 1
    PROVE  KeepsGeneral(t)'
  BY DEF KeepsGeneral, Tab, GeneralFirst

\* A turn of a thread that makes a room.
LEMMA RoomTurn ==
    ASSUME TInv, GInv, fault = "none", fault' = "none", NEW t \in Conn, HandleAppend(t), Tab(t) = "rooms"
    PROVE  /\ GeneralFirst(table["rooms"])' /\ KeepsGeneral(t)'
           /\ num["rooms"] > 1 => num'["rooms"] > 1
  <1>1. AppendTurn(t, "rooms") /\ UNCHANGED req /\ Tab(t)' = Tab(t)
    BY AppendTurns DEF Tab
  <1>2. GeneralFirst(table["rooms"]) /\ KeepsGeneral(t)
    BY DEF GInv
  <1>3. /\ num["rooms"] \in Nat \ {0} /\ reg[t] \in Nat
        /\ table["rooms"] \in Seq(Entries) /\ old[t] \in Seq(Entries)
    BY DEF TInv, TypedTables, TypedThreads, Tables
  <1>4. Len(table["rooms"]) \in Nat \ {0} /\ Len(old[t]) \in Nat
    BY <1>2, <1>3, LenProperties DEF GeneralFirst
  <1> HIDE DEF GInv
  <1>5. CASE pc[t] \in {"load", "grow", "number"}
    <2>1. UNCHANGED <<num, table>>
      BY <1>1, <1>5 DEF AppendTurn
    <2>2. \/ pc'[t] = "count" /\ reg'[t] = num["rooms"]
          \/ pc[t] = "grow" /\ pc'[t] = "publish" /\ reg'[t] = num["rooms"] /\ old'[t] = table["rooms"]
          \/ pc'[t] = "sendHead"
      BY <1>1, <1>5 DEF AppendTurn
    <2>3. KeepsGeneral(t)'
      BY <1>2, <1>3, <1>4, <2>1, <2>2 DEF KeepsGeneral, GeneralFirst
    <2> QED
      BY <1>2, <2>1, <2>3 DEF GeneralFirst
  <1>6. CASE pc[t] = "count"
    <2>1. pc'[t] = "grow" /\ num'["rooms"] = reg[t] + 1 /\ UNCHANGED table
      BY <1>1, <1>6 DEF AppendTurn
    <2>2. reg[t] # 0
      BY <1>2, <1>6 DEF KeepsGeneral
    <2>3. num'["rooms"] > 1
      BY <1>3, <2>1, <2>2
    <2> QED
      BY <1>2, <2>1, <2>3 DEF KeepsGeneral, GeneralFirst
  <1>7. CASE pc[t] = "publish"
    <2>1. /\ pc'[t] = "put" /\ UNCHANGED <<num, reg>>
          /\ \E block \in {old[t], table["rooms"]} : GrownFrom("rooms", block, reg[t])
      BY <1>1, <1>7 DEF AppendTurn
    <2>2. PICK block \in {old[t], table["rooms"]} : GrownFrom("rooms", block, reg[t])
      BY <2>1
    <2>3. reg[t] # 0 /\ GeneralFirst(old[t]) /\ num["rooms"] > 1
      BY <1>2, <1>7 DEF KeepsGeneral
    <2>4. Len(block) \in Nat \ {0} /\ block[1] = General
      BY <1>2, <1>4, <2>2, <2>3 DEF GeneralFirst
    <2>5. 1 \in 1..reg[t] /\ 1 <= Len(block)
      BY <1>3, <2>3, <2>4
    <2>6. Len(table'["rooms"]) = reg[t] /\ table'["rooms"][1] = General
      BY <2>2, <2>4, <2>5 DEF GrownFrom
    <2> QED
      BY <2>1, <2>3, <2>6 DEF KeepsGeneral, GeneralFirst
  <1>8. CASE pc[t] = "put"
    <2>1. /\ pc'[t] = "number" /\ UNCHANGED <<num, reg>>
          /\ Len(table'["rooms"]) = Len(table["rooms"])
          /\ \E name \in Names(req[t]) :
               table'["rooms"] = [table["rooms"] EXCEPT ![num["rooms"]] = name]
      BY <1>1, <1>8 DEF AppendTurn
    <2>2. num["rooms"] > 1
      BY <1>2, <1>8 DEF KeepsGeneral
    <2>3. 1 \in DOMAIN table["rooms"] /\ num["rooms"] # 1
      BY <1>3, <1>4, <2>2, LenProperties
    <2>4. table'["rooms"][1] = table["rooms"][1]
      BY <2>1, <2>3
    <2> QED
      BY <1>2, <1>4, <2>1, <2>4 DEF KeepsGeneral, GeneralFirst
  <1> QED
    BY <1>1, <1>5, <1>6, <1>7, <1>8 DEF AppendTurn

LEMMA NextGInv == TInv /\ Serves /\ GInv /\ [Next]_vars => GInv'
  <1> SUFFICES ASSUME TInv, Serves, GInv, [Next]_vars, fault' = "none"
               PROVE  GeneralFirst(table["rooms"])' /\ \A u \in Conn : KeepsGeneral(u)'
    BY DEF GInv
  <1>1. fault = "none" /\ GeneralFirst(table["rooms"]) /\ \A u \in Conn : KeepsGeneral(u)
    BY HistoryGrows DEF GInv
  <1>2. CASE ~(\E t \in Conn : newThreadHandler(t))
    <2>1. /\ UNCHANGED <<num, table, fd, req, reg, sender, out>>
          /\ \A t \in Conn : old'[t] = old[t] /\ pc'[t] \in {pc[t], "loop"}
      BY <1>2, TablesAreTheThreads DEF Next
    <2>2. ASSUME NEW u \in Conn PROVE KeepsGeneral(u)'
      <3>1. CASE pc'[u] = pc[u]
        BY <1>1, <2>1, <3>1, KeepsStill
      <3>2. CASE pc'[u] = "loop"
        BY <3>2 DEF KeepsGeneral
      <3> QED
        BY <2>1, <3>1, <3>2
    <2> QED
      BY <1>1, <2>1, <2>2 DEF GeneralFirst
  <1>3. CASE \E t \in Conn : newThreadHandler(t)
    <2>1. PICK t \in Conn : newThreadHandler(t)
      BY <1>3
    <2>2. CASE ~HandleAppend(t)
      <3>1. UNCHANGED <<num, table>> /\ pc'[t] \notin Appending \ {"load"}
        BY <2>1, <2>2, NothingAppended
      <3>2. KeepsGeneral(t)'
        BY <3>1 DEF KeepsGeneral, Appending
      <3>3. ASSUME NEW u \in Conn, u # t PROVE KeepsGeneral(u)'
        BY <1>1, <2>1, <3>1, <3>3, OnlyItsOwn, KeepsStill
      <3> QED
        BY <1>1, <3>1, <3>2, <3>3 DEF GeneralFirst
    <2>3. CASE HandleAppend(t) /\ Tab(t) # "rooms"
      <3>1. /\ num'["rooms"] = num["rooms"] /\ table'["rooms"] = table["rooms"] /\ UNCHANGED req
        BY <1>1, <2>3, AppendTurns DEF Tables
      <3>2. KeepsGeneral(t)'
        BY <2>3, <3>1 DEF KeepsGeneral, Tab
      <3>3. ASSUME NEW u \in Conn, u # t PROVE KeepsGeneral(u)'
        BY <1>1, <2>1, <3>1, <3>3, OnlyItsOwn, KeepsStill
      <3> QED
        BY <1>1, <3>1, <3>2, <3>3 DEF GeneralFirst
    <2>4. CASE HandleAppend(t) /\ Tab(t) = "rooms"
      <3>1. /\ GeneralFirst(table["rooms"])' /\ KeepsGeneral(t)'
            /\ num["rooms"] > 1 => num'["rooms"] > 1
        BY <1>1, <2>4, RoomTurn
      <3>2. ASSUME NEW u \in Conn, u # t PROVE KeepsGeneral(u)'
        BY <1>1, <2>1, <3>1, <3>2, OnlyItsOwn, KeepsStill
      <3> QED
        BY <3>1, <3>2
    <2> QED
      BY <2>2, <2>3, <2>4
  <1> QED
    BY <1>2, <1>3

LEMMA InitGInv == Init => GInv
  <1> SUFFICES ASSUME Init PROVE GInv
    OBVIOUS
  <1>1. table["rooms"] = <<General>>
    BY DEF Init
  <1>2. Len(table["rooms"]) = 1 /\ table["rooms"][1] = General
    BY <1>1
  <1>3. \A t \in Conn : pc[t] = "unborn"
    BY DEF Init
  <1> QED
    BY <1>2, <1>3 DEF GInv, GeneralFirst, KeepsGeneral

-----------------------------------------------------------------------------
(* Joins.                                                                    *)

IsJoined(part) == /\ part.kind = "reply" /\ part.half = "head"
                  /\ part.req.rpc = "join_room" /\ part.val # RoomNotFound
JoinedAt(c) == {k \in DOMAIN out[c] : IsJoined(out[c][k])}

\* A thread has entered a client into a room and is about to say so.
Entered(t) == pc[t] = "sendHead" /\ req[t].rpc = "join_room" /\ reg[t] # RoomNotFound

Sticks(c) == JoinedAt(c) # {} /\ c \notin gone /\ c \in 1..Len(roomsByUser) =>
    \/ roomsByUser[c] = out[c][Max(JoinedAt(c))].val
    \/ roomsByUser[c] >= RoomNotFound
    \/ \E t \in Conn : fd[t] = c /\ Entered(t)

JoinsFit(t) ==
    /\ pc[t] = "enter" => reg[t] # RoomNotFound
    /\ Entered(t) => fd[t] \in 1..Len(roomsByUser) /\ roomsByUser[fd[t]] = reg[t]

\* Nothing has been sent on connections to come, no join answered on the newest.
NewestIsNew ==
    /\ \A c \in Conn : c > accepted => out[c] = <<>>
    /\ main # "accept" => JoinedAt(accepted) = {}

JInv == fault = "none" /\ "members" \notin raced =>
    (\A c \in Conn : Sticks(c)) /\ (\A t \in Conn : JoinsFit(t)) /\ NewestIsNew

\* A part that tells of a join is the last of them.
LEMMA JoinedNext ==
    ASSUME TInv, NEW t \in Conn, NEW c, NEW part, Sends(t, c, part)
    PROVE  /\ \A d \in Conn : d # c => JoinedAt(d)' = JoinedAt(d) /\ out'[d] = out[d]
           /\ ~IsJoined(part) => JoinedAt(c)' = JoinedAt(c)
           /\ IsJoined(part) => /\ JoinedAt(c)' # {} /\ Max(JoinedAt(c)') = Len(out[c]) + 1
                                /\ out'[c][Len(out[c]) + 1] = part
           /\ JoinedAt(c) # {} => out'[c][Max(JoinedAt(c))] = out[c][Max(JoinedAt(c))]
  <1>1. /\ c \in Conn /\ Len(out[c]) \in Nat /\ DOMAIN out[c] = 1..Len(out[c])
        /\ DOMAIN out'[c] = 1..(Len(out[c]) + 1)
        /\ out'[c][Len(out[c]) + 1] = part
        /\ \A k \in 1..Len(out[c]) : out'[c][k] = out[c][k]
        /\ \A d \in Conn : d # c => out'[d] = out[d]
    BY LastSent
  <1>2. PICK n \in Nat : n = Len(out[c])
    BY <1>1
  <1>3. \A d \in Conn : d # c => JoinedAt(d)' = JoinedAt(d) /\ out'[d] = out[d]
    BY <1>1 DEF JoinedAt
  <1>4. 1..(n + 1) = 1..n \cup {n + 1} /\ n + 1 \notin 1..n
    OBVIOUS
  <1>5. JoinedAt(c)' = {k \in 1..n \cup {n + 1} : IsJoined(out'[c][k])}
    BY <1>1, <1>2, <1>4 DEF JoinedAt, IsJoined
  <1>6. JoinedAt(c) = {k \in 1..n : IsJoined(out[c][k])}
    BY <1>1, <1>2 DEF JoinedAt
  <1>7. ~IsJoined(part) => JoinedAt(c)' = JoinedAt(c)
    BY <1>1, <1>2, <1>5, <1>6
  <1>8. ASSUME IsJoined(part) PROVE JoinedAt(c)' # {} /\ Max(JoinedAt(c)') = n + 1
    <2>1. PICK S : S = JoinedAt(c)'
      OBVIOUS
    <2>2. S \subseteq 1..(n + 1) /\ n + 1 \in S
      <3>1. out'[c][n + 1] = part
        BY <1>1, <1>2
      <3>2. IsJoined(out'[c][n + 1])
        BY <1>8, <3>1, Zenon
      <3>3. n + 1 \in S
        BY <1>5, <2>1, <3>2
      <3> QED
        BY <1>4, <1>5, <2>1, <3>3
    <2>3. n + 1 \in Nat /\ S # {}
      BY <2>2
    <2>4. Max(S) \in S /\ \A x \in S : x <= Max(S)
      BY <2>2, <2>3, GreatestOf
    <2>5. Max(S) = n + 1
      <3>1. PICK m : m = Max(S)
        OBVIOUS
      <3>2. m \in 1..(n + 1) /\ n + 1 <= m
        BY <2>2, <2>4, <3>1
      <3>3. m = n + 1
        BY <3>2
      <3> QED
        BY <3>1, <3>3
    <2> QED
      BY <2>1, <2>3, <2>5
  <1>9. ASSUME JoinedAt(c) # {} PROVE out'[c][Max(JoinedAt(c))] = out[c][Max(JoinedAt(c))]
    <2>1. JoinedAt(c) \subseteq 1..n
      BY <1>6
    <2>2. Max(JoinedAt(c)) \in JoinedAt(c)
      BY <1>9, <2>1, GreatestOf
    <2> QED
      BY <1>1, <1>2, <2>1, <2>2
  <1> QED
    BY <1>1, <1>2, <1>3, <1>7, <1>8, <1>9

\* Whoever enters a room, or is about to tell of it, uses the memberships.
LEMMA JoiningUses ==
    ASSUME Undamaged, NEW t \in Conn, pc[t] = "enter" \/ Entered(t) \/ (pc[t] = "sendHead" /\ req[t].rpc = "join_room")
    PROVE  Uses(t, "members")
  BY DEF Undamaged, StepFits, Entered, Uses, Working, Touches

\* A client is where it was, and has been told what it had been.
LEMMA SticksStill ==
    ASSUME NEW c \in Conn, Sticks(c), JoinedAt(c)' = JoinedAt(c), gone \subseteq gone',
           JoinedAt(c) # {} /\ c \notin gone' => out'[c][Max(JoinedAt(c))] = out[c][Max(JoinedAt(c))],
           JoinedAt(c) # {} /\ c \notin gone' /\ c \in 1..Len(roomsByUser') =>
               c \in 1..Len(roomsByUser) /\ roomsByUser'[c] = roomsByUser[c],
           \A t \in Conn : c \notin gone' /\ fd[t] = c /\ Entered(t) =>
                 fd'[t] = c /\ Entered(t)'
    PROVE  Sticks(c)'
  <1> SUFFICES ASSUME JoinedAt(c) # {}, c \notin gone', c \in 1..Len(roomsByUser')
               PROVE  \/ roomsByUser'[c] = out'[c][Max(JoinedAt(c))].val
                      \/ roomsByUser'[c] >= RoomNotFound
                      \/ \E t \in Conn : fd'[t] = c /\ Entered(t)'
    BY DEF Sticks
  <1>1. c \notin gone /\ c \in 1..Len(roomsByUser) /\ roomsByUser'[c] = roomsByUser[c]
    OBVIOUS
  <1>2. \/ roomsByUser[c] = out[c][Max(JoinedAt(c))].val
        \/ roomsByUser[c] >= RoomNotFound
        \/ \E t \in Conn : fd[t] = c /\ Entered(t)
    BY <1>1 DEF Sticks
  <1> QED
    BY <1>1, <1>2

\* A turn that enters no room.
LEMMA TurnsFit ==
    ASSUME TInv, Undamaged, fault' = "none", NEW t \in Conn, newThreadHandler(t), ~Enter(t)
    PROVE  JoinsFit(t)'
  <1>1. /\ pc \in [Conn -> Step \cup {"unborn"}] /\ reg \in [Conn -> Nat] /\ StepFits(t)
    BY DEF TInv, IInv, StartedInOrder, TypedThreads, Undamaged
  <1>2. ASSUME NEW what, Break(what) PROVE what = "none"
    BY <1>2 DEF Break
  <1>3. CASE Lookup(t)
    <2>1. PICK id : reg' = [reg EXCEPT ![t] = id] /\ Goto(t, IF id = RoomNotFound THEN "sendHead" ELSE "enter")
      BY <1>2, <1>3 DEF Lookup, Set
    <2>2. reg'[t] = id /\ pc'[t] = IF id = RoomNotFound THEN "sendHead" ELSE "enter"
      BY <1>1, <2>1 DEF Goto
    <2> QED
      BY <2>2 DEF JoinsFit, Entered
  <1>4. CASE Number(t) \/ CollectRooms(t) \/ CollectUsers(t)
    <2>1. req'[t] = req[t] /\ req[t].rpc # "join_room"
      BY <1>1, <1>4 DEF Number, CollectRooms, CollectUsers, StepFits
    <2>2. pc'[t] # "enter"
      <3>1. CASE Number(t) \/ CollectRooms(t)
        BY <1>1, <3>1 DEF Number, CollectRooms, Goto, Break
      <3>2. CASE CollectUsers(t)
        BY <1>1, <3>2 DEF CollectUsers, Goto, Break
      <3> QED
        BY <1>4, <3>1, <3>2
    <2> QED
      BY <2>1, <2>2 DEF JoinsFit, Entered
  <1>5. CASE ~(Lookup(t) \/ Number(t) \/ CollectRooms(t) \/ CollectUsers(t))
    <2>1. pc'[t] \notin {"enter", "sendHead"}
      <3>1. CASE ReadSlot(t) \/ RecvFails(t) \/ ReadsFreed(t)
        BY <1>1, <1>2, <3>1 DEF ReadSlot, RecvFails, ReadsFreed, Goto, Break
      <3>2. CASE RecvHead(t) \/ RecvBody(t)
        <4>1. ASSUME NEW r, Dispatch(t, r) PROVE pc'[t] \notin {"enter", "sendHead"}
          BY <1>1, <1>2, <4>1 DEF Dispatch, Goto, FirstStep
        <4> QED
          BY <1>1, <1>2, <3>2, <4>1 DEF RecvHead, RecvBody, Goto
      <3>3. CASE LoadCount(t) \/ StoreCount(t) \/ Grow(t) \/ Publish(t) \/ Put(t)
        BY <1>1, <1>2, <3>3 DEF LoadCount, StoreCount, Grow, Publish, Put, Goto
      <3>4. CASE SendHead(t) \/ SendBody(t) \/ EventHead(t) \/ EventBody(t)
        BY <1>1, <1>2, <3>4 DEF SendHead, SendBody, EventHead, EventBody, SendTo, Goto
      <3>5. CASE Find(t) \/ EachUser(t)
        BY <1>1, <1>2, <3>5 DEF Find, EachUser, Goto
      <3> QED
        BY <1>5, <3>1, <3>2, <3>3, <3>4, <3>5 DEF newThreadHandler, HandleAppend
    <2> QED
      BY <2>1 DEF JoinsFit, Entered
  <1> QED
    BY <1>3, <1>4, <1>5

\* A client is entered into a room.
LEMMA EnterJInv ==
    ASSUME TInv, Serves, Undamaged, JInv, fault = "none", fault' = "none", "members" \notin raced,
           NEW t \in Conn, newThreadHandler(t), Enter(t)
    PROVE  JInv'
  <1>1. /\ pc \in [Conn -> Step \cup {"unborn"}] /\ reg \in [Conn -> Nat] /\ StepFits(t)
        /\ roomsByUser \in Seq(Entries) /\ fd \in [Conn -> {NoFd} \cup Conn]
    BY DEF TInv, IInv, StartedInOrder, TypedThreads, TypedTables, Undamaged
  <1>2. Uses(t, "members") /\ pc[t] = "enter"
    BY JoiningUses DEF Enter
  <1>3. /\ main = "accept" /\ Len(roomsByUser) = accepted /\ IndexOf(fd[t]) = {fd[t]}
        /\ fd[t] \in 1..accepted
    <2>1. /\ main = "accept" /\ Len(roomsByUser) = accepted /\ numUsers = accepted
          /\ IndexOf(fd[t]) = {fd[t]}
      BY <1>2, ServedIsRegistered
    <2>2. fd[t] \in {NoFd} \cup Conn /\ IndexOf(fd[t]) # {}
      BY <1>1, <2>1
    <2> QED
      BY <2>1, <2>2, IndexIsNumber DEF TInv
  <1>4. reg[t] # RoomNotFound /\ (\A c \in Conn : Sticks(c)) /\ NewestIsNew
    BY <1>2 DEF JInv, JoinsFit
  <1>5. /\ roomsByUser' = [k \in DOMAIN roomsByUser |-> IF k \in {fd[t]} THEN reg[t] ELSE roomsByUser[k]]
        /\ pc'[t] = "sendHead" /\ UNCHANGED <<out, reg, req, fd, accepted, main, gone, raced>>
    <2>1. UNCHANGED <<out, reg, req, fd, accepted, main, gone, raced>>
      BY DEF Enter, newThreadHandler, accepting, clients, locals
    <2>2. \/ Break("torn")
          \/ /\ roomsByUser' = [k \in DOMAIN roomsByUser |-> IF k \in IndexOf(fd[t]) THEN reg[t] ELSE roomsByUser[k]]
             /\ Goto(t, "sendHead")
      BY DEF Enter
    <2> QED
      BY <1>1, <1>3, <2>1, <2>2 DEF Break, Goto
  <1>6. DOMAIN roomsByUser = 1..accepted /\ accepted \in Nat
    BY <1>1, <1>3, LenProperties
  <1>7. Len(roomsByUser') = accepted /\ roomsByUser'[fd[t]] = reg[t]
        /\ \A k \in 1..accepted : k # fd[t] => roomsByUser'[k] = roomsByUser[k]
    <2>1. DOMAIN roomsByUser' = 1..accepted
      BY <1>5, <1>6
    <2>2. roomsByUser' \in Seq(Entries)
      <3>1. reg[t] \in Entries
        BY <1>1 DEF Entries
      <3>2. \A k \in DOMAIN roomsByUser : roomsByUser[k] \in Entries
        BY <1>1, <1>3, <1>6, ElementOfSeq
      <3>3. roomsByUser' \in [1..accepted -> Entries]
        BY <1>5, <1>6, <3>1, <3>2
      <3> QED
        BY <1>6, <3>3, SeqDef
    <2>3. Len(roomsByUser') = accepted
      BY <1>6, <2>1, <2>2, LenProperties
    <2> QED
      BY <1>3, <1>5, <1>6, <2>3
  <1>8. Entered(t)'
    BY <1>1, <1>2, <1>4, <1>5 DEF StepFits, Entered
  <1>9. JoinsFit(t)'
    BY <1>3, <1>5, <1>7 DEF JoinsFit
  <1>10. ASSUME NEW u \in Conn, u # t PROVE JoinsFit(u)'
    <2>1. ~Uses(u, "members")
      BY <1>2, <1>10 DEF Undamaged, Apart, Shared
    <2>2. pc[u] # "enter" /\ ~Entered(u)
      BY <2>1, JoiningUses
    <2> QED
      BY <1>10, <2>2, OnlyItsOwn DEF JoinsFit, Entered
  <1>11. ASSUME NEW c \in Conn PROVE Sticks(c)'
    <2>1. CASE c = fd[t]
      BY <1>5, <1>8, <2>1 DEF Sticks
    <2>2. CASE c # fd[t]
      <3>1. Sticks(c) /\ JoinedAt(c)' = JoinedAt(c)
        BY <1>4, <1>5 DEF JoinedAt
      <3>2. \A u \in Conn : fd[u] = c /\ Entered(u) => fd'[u] = c /\ Entered(u)'
        BY <2>2, OnlyItsOwn DEF Entered
      <3> QED
        BY <1>3, <1>5, <1>7, <2>2, <3>1, <3>2, SticksStill
    <2> QED
      BY <2>1, <2>2
  <1>12. NewestIsNew'
    BY <1>4, <1>5 DEF NewestIsNew, JoinedAt
  <1> QED
    BY <1>9, <1>10, <1>11, <1>12 DEF JInv

\* The answer to a join.
LEMMA SendHeadJInv ==
    ASSUME TInv, Serves, Undamaged, JInv, fault = "none", fault' = "none", "members" \notin raced,
           NEW t \in Conn, newThreadHandler(t), SendHead(t)
    PROVE  JInv'
  <1>1. /\ pc \in [Conn -> Step \cup {"unborn"}] /\ reg[t] \in Nat /\ StepFits(t)
        /\ fd[t] \in {NoFd} \cup Conn
    BY DEF TInv, IInv, StartedInOrder, TypedThreads, Undamaged
  <1>2. /\ pc[t] = "sendHead" /\ UNCHANGED <<main, accepted, gone, fd, req, reg, roomsByUser>>
    BY DEF SendHead, newThreadHandler, accepting, clients, users, locals
  <1>3. pc'[t] = "sendBody" /\ UNCHANGED fault
    <2>1. Goto(t, "sendBody") \/ Break("sigpipe")
      BY DEF SendHead, SendTo
    <2> QED
      BY <1>1, <2>1 DEF Goto, Break
  <1>4. (\A c \in Conn : Sticks(c)) /\ (\A u \in Conn : JoinsFit(u)) /\ NewestIsNew
    BY DEF JInv
  <1>5. \A u \in Conn : JoinsFit(u)'
    <2>1. JoinsFit(t)'
      BY <1>3 DEF JoinsFit, Entered
    <2>2. ASSUME NEW u \in Conn, u # t PROVE JoinsFit(u)'
      BY <1>2, <1>4, <2>2, OnlyItsOwn DEF JoinsFit, Entered
    <2> QED
      BY <2>1, <2>2
  <1>6. \A u \in Conn : \A c : c # fd[t] /\ fd[u] = c /\ Entered(u) => fd'[u] = c /\ Entered(u)'
    BY OnlyItsOwn DEF Entered
  <1>7. CASE fd[t] \notin Conn \ gone
    <2>1. UNCHANGED out
      BY <1>7 DEF SendHead, SendTo, ReplyTo
    <2>2. ASSUME NEW c \in Conn PROVE Sticks(c)'
      <3>1. CASE c = fd[t]
        BY <1>2, <1>7, <3>1 DEF Sticks
      <3>2. CASE c # fd[t]
        BY <1>2, <1>4, <1>6, <2>1, <3>2, SticksStill DEF JoinedAt
      <3> QED
        BY <3>1, <3>2
    <2>3. NewestIsNew'
      BY <1>2, <1>4, <2>1 DEF NewestIsNew, JoinedAt
    <2> QED
      BY <1>5, <2>2, <2>3 DEF JInv
  <1>8. CASE fd[t] \in Conn \ gone
    <2>1. PICK c : c = fd[t]
      OBVIOUS
    <2>2. PICK part : /\ Sends(t, c, part) /\ part.kind = "reply" /\ part.half = "head"
                      /\ part.val = InHead(t)
      <3>1. SendTo(c, t, "reply", "head", InHead(t), "sendBody") /\ InHead(t) \in Nat
        BY <2>1, NumbersSent DEF SendHead, ReplyTo, TInv
      <3> QED
        BY <1>8, <2>1, <3>1, PartSent
    <2>3. part.req = req[t] /\ c \in Conn /\ c \notin gone
      BY <2>2 DEF Sends
    <2>4. /\ \A d \in Conn : d # c => JoinedAt(d)' = JoinedAt(d) /\ out'[d] = out[d]
          /\ ~IsJoined(part) => JoinedAt(c)' = JoinedAt(c)
          /\ IsJoined(part) => /\ JoinedAt(c)' # {} /\ Max(JoinedAt(c)') = Len(out[c]) + 1
                               /\ out'[c][Len(out[c]) + 1] = part
          /\ JoinedAt(c) # {} => out'[c][Max(JoinedAt(c))] = out[c][Max(JoinedAt(c))]
      BY <2>2, JoinedNext
    <2>5. ASSUME NEW d \in Conn, d # c PROVE Sticks(d)'
      BY <1>2, <1>4, <1>6, <2>1, <2>4, <2>5, SticksStill
    <2>6. c <= accepted
      BY <1>8, <2>1 DEF Serves, Conn, NoFd
    <2>7. \A d \in Conn : d > accepted => out'[d] = <<>>
      <3>1. \A d \in Conn : d > accepted => d # c
        BY <2>3, <2>6 DEF Conn, TInv, TypedMain
      <3> QED
        BY <1>4, <2>4, <3>1 DEF NewestIsNew
    <2>8. CASE req[t].rpc # "join_room"
      <3>1. ~IsJoined(part) /\ ~Entered(t)
        BY <2>3, <2>8 DEF IsJoined, Entered
      <3>2. \A u \in Conn : fd[u] = c /\ Entered(u) => fd'[u] = c /\ Entered(u)'
        BY <3>1, OnlyItsOwn DEF Entered
      <3>3. Sticks(c)'
        BY <1>2, <1>4, <2>3, <2>4, <3>1, <3>2, SticksStill
      <3>4. main' # "accept" => JoinedAt(accepted)' = {}
        <4>1. main # "accept" => accepted \in Conn
          BY ServerAssumption DEF TInv, TypedMain, Conn
        <4> QED
          BY <1>2, <1>4, <2>4, <3>1, <4>1 DEF NewestIsNew
      <3> QED
        BY <1>2, <1>5, <2>5, <2>7, <3>3, <3>4 DEF JInv, NewestIsNew, JoinedAt
    <2>9. CASE req[t].rpc = "join_room"
      <3>1. Uses(t, "members")
        BY <1>2, <2>9, JoiningUses
      <3>2. main = "accept"
        BY <3>1 DEF Undamaged, Apart
      <3>3. NewestIsNew'
        BY <1>2, <2>7, <3>2 DEF NewestIsNew
      <3>4. part.val = reg[t] % 65536
        BY <2>2, <2>9 DEF InHead, Id
      <3>5. Sticks(c)'
        <4>1. CASE reg[t] = RoomNotFound
          <5>1. ~IsJoined(part) /\ ~Entered(t)
            BY <3>4, <4>1 DEF IsJoined, Entered, RoomNotFound
          <5>2. \A u \in Conn : fd[u] = c /\ Entered(u) => fd'[u] = c /\ Entered(u)'
            BY <5>1, OnlyItsOwn DEF Entered
          <5> QED
            BY <1>2, <1>4, <2>3, <2>4, <5>1, <5>2, SticksStill
        <4>2. CASE reg[t] # RoomNotFound
          <5>1. c \in 1..Len(roomsByUser) /\ roomsByUser[c] = reg[t]
            BY <1>2, <1>4, <2>1, <2>9, <4>2 DEF JoinsFit, Entered
          <5>2. CASE reg[t] >= RoomNotFound
            BY <1>2, <5>1, <5>2 DEF Sticks
          <5>3. CASE ~(reg[t] >= RoomNotFound)
            <6>1. reg[t] % 65536 = reg[t]
              BY <1>1, <5>3 DEF RoomNotFound
            <6>2. part.val = reg[t]
              BY <3>4, <6>1
            <6>3. IsJoined(part)
              BY <2>2, <2>3, <2>9, <4>2, <6>2 DEF IsJoined
            <6>4. out'[c][Max(JoinedAt(c)')].val = reg[t]
              BY <2>4, <6>2, <6>3
            <6>5. roomsByUser'[c] = (out[c][Max(JoinedAt(c))].val)'
              BY <1>2, <5>1, <6>4
            <6> QED
              BY <6>5 DEF Sticks
          <5> QED
            BY <5>2, <5>3
        <4> QED
          BY <4>1, <4>2
      <3> QED
        BY <1>5, <2>5, <3>3, <3>5 DEF JInv
    <2> QED
      BY <2>8, <2>9
  <1> QED
    BY <1>7, <1>8

\* What else a thread does.
LEMMA TurnJInv ==
    ASSUME TInv, Serves, EInv, Undamaged, JInv, fault = "none", fault' = "none", "members" \notin raced,
           NEW t \in Conn, newThreadHandler(t), ~Enter(t), ~SendHead(t)
    PROVE  JInv'
  <1>1. (\A c \in Conn : Sticks(c)) /\ (\A u \in Conn : JoinsFit(u)) /\ NewestIsNew
    BY DEF JInv
  <1>2. UNCHANGED <<main, accepted, gone, roomsByUser>>
    BY DEF newThreadHandler, ReadSlot, RecvHead, RecvBody, RecvFails, ReadsFreed, HandleAppend,
           LoadCount, StoreCount, Grow, Publish, Put, Number, Lookup, CollectRooms, CollectUsers,
           Find, EachUser, SendHead, SendBody, EventHead, EventBody, users, accepting, clients
  <1>3. ~Entered(t)
    <2>1. pc[t] # "sendHead"
      BY FreedAt DEF newThreadHandler, ReadSlot, RecvHead, RecvBody, RecvFails, HandleAppend,
             LoadCount, StoreCount, Grow, Publish, Put, Number, Lookup, CollectRooms, CollectUsers,
             Find, EachUser, SendBody, EventHead, EventBody
    <2> QED
      BY <2>1 DEF Entered
  <1>4. \A u \in Conn : JoinsFit(u)'
    <2>1. JoinsFit(t)'
      BY TurnsFit
    <2>2. ASSUME NEW u \in Conn, u # t PROVE JoinsFit(u)'
      BY <1>1, <1>2, <2>2, OnlyItsOwn DEF JoinsFit, Entered
    <2> QED
      BY <2>1, <2>2
  <1>5. \A u \in Conn : \A c : fd[u] = c /\ Entered(u) => fd'[u] = c /\ Entered(u)'
    BY <1>3, OnlyItsOwn DEF Entered
  <1>6. CASE out' = out
    BY <1>1, <1>2, <1>4, <1>5, <1>6, SticksStill DEF JInv, NewestIsNew, JoinedAt
  <1>7. CASE \E c, part : Sends(t, c, part) /\ ~IsJoined(part) /\ c <= accepted
    <2>1. PICK c, part : Sends(t, c, part) /\ ~IsJoined(part) /\ c <= accepted
      BY <1>7
    <2>2. /\ \A d \in Conn : JoinedAt(d)' = JoinedAt(d)
          /\ \A d \in Conn : d # c => out'[d] = out[d]
          /\ JoinedAt(c) # {} => out'[c][Max(JoinedAt(c))] = out[c][Max(JoinedAt(c))]
      BY <2>1, JoinedNext
    <2>3. \A d \in Conn : JoinedAt(d) # {} => out'[d][Max(JoinedAt(d))] = out[d][Max(JoinedAt(d))]
      BY <2>2
    <2>4. \A d \in Conn : Sticks(d)'
      BY <1>1, <1>2, <1>5, <2>2, <2>3, SticksStill
    <2>5. main # "accept" => accepted \in Conn
      BY ServerAssumption DEF TInv, TypedMain, Conn
    <2>6. main' # "accept" => JoinedAt(accepted)' = {}
      BY <1>1, <1>2, <2>2, <2>5 DEF NewestIsNew
    <2>7. \A d \in Conn : d > accepted => out'[d] = <<>>
      <3>1. \A d \in Conn : d > accepted => d # c
        BY <2>1 DEF Conn, TInv, TypedMain
      <3> QED
        BY <1>1, <2>2, <3>1 DEF NewestIsNew
    <2> QED
      BY <1>2, <1>4, <2>4, <2>6, <2>7 DEF JInv, NewestIsNew, JoinedAt
  <1>8. out' = out \/ \E c, part : Sends(t, c, part) /\ ~IsJoined(part) /\ c <= accepted
    <2>1. CASE SentReply(t)
      <3>1. PICK part : Sends(t, fd[t], part) /\ part.half = "body"
        <4>1. pc[t] # "sendHead"
          BY FreedAt DEF newThreadHandler, ReadSlot, RecvHead, RecvBody, RecvFails, HandleAppend,
                 LoadCount, StoreCount, Grow, Publish, Put, Number, Lookup,
                 CollectRooms, CollectUsers, Find, EachUser, SendBody, EventHead, EventBody
        <4> QED
          BY <2>1, <4>1 DEF SentReply
      <3>2. fd[t] <= accepted /\ ~IsJoined(part)
        BY <3>1 DEF Serves, Sends, Conn, NoFd, IsJoined
      <3> QED
        BY <3>1, <3>2
    <2>2. CASE SentEvent(t)
      <3>1. PICK part : /\ Sends(t, connectedUsers[reg[t]], part) /\ part.kind = "event"
                        /\ pc[t] \in {"eventHead", "eventBody"}
        BY <2>2 DEF SentEvent
      <3>2. reg[t] \in 1..numUsers
        BY <3>1 DEF EInv, BroadcastFits
      <3>3. connectedUsers[reg[t]] = reg[t] /\ numUsers <= accepted
        <4>1. connectedUsers[reg[t]] \in {reg[t], Junk} /\ connectedUsers[reg[t]] \in Conn
          BY <3>1, <3>2, DescriptorOf DEF TInv, Sends
        <4>2. numUsers <= accepted
          BY DEF TInv, IInv, SlotIsNewest, numUsers
        <4> QED
          BY <4>1, <4>2, JunkIsNoFd
      <3>4. connectedUsers[reg[t]] <= accepted
        <4>1. accepted \in Nat /\ numUsers \in Nat /\ reg[t] \in Nat
          BY IndexIsNumber DEF TInv, IInv, SlotIsNewest, TypedThreads
        <4>2. reg[t] <= accepted
          BY <3>2, <3>3, <4>1
        <4> QED
          BY <3>3, <4>2
      <3> QED
        BY <3>1, <3>4 DEF IsJoined
    <2> QED
      BY <2>1, <2>2, RepliesAndEvents
  <1> QED
    BY <1>6, <1>7, <1>8

\* A client is accepted, and registered.
LEMMA AcceptJInv ==
    ASSUME TInv, JInv, MainStep(Accept), fault = "none", "members" \notin raced
    PROVE  JInv'
  <1>1. (\A c \in Conn : Sticks(c)) /\ (\A t \in Conn : JoinsFit(t)) /\ NewestIsNew
    BY DEF JInv
  <1>2. /\ UNCHANGED <<out, roomsByUser, pc, fd, req, reg, gone>> /\ accepted' = accepted + 1
        /\ accepted \in Nat /\ accepted' \in Conn
    BY ServerAssumption DEF MainStep, Accept, users, locals, clients, TInv, IInv, SlotIsNewest, TypedMain, Conn
  <1>3. \A c \in Conn : Sticks(c)'
    BY <1>1, <1>2, SticksStill DEF JoinedAt, Entered
  <1>4. \A t \in Conn : JoinsFit(t)'
    BY <1>1, <1>2 DEF JoinsFit, Entered
  <1>5. out[accepted'] = <<>> /\ \A c \in Conn : c > accepted' => out[c] = <<>>
    BY <1>1, <1>2 DEF NewestIsNew, Conn
  <1>6. JoinedAt(accepted)' = {}
    BY <1>2, <1>5 DEF JoinedAt
  <1> QED
    BY <1>2, <1>3, <1>4, <1>5, <1>6 DEF JInv, NewestIsNew

LEMMA RegisterJInv ==
    ASSUME TInv, Undamaged, JInv, MainStep(Register), fault = "none", "members" \notin raced
    PROVE  JInv'
  <1>1. (\A c \in Conn : Sticks(c)) /\ (\A t \in Conn : JoinsFit(t)) /\ NewestIsNew /\ MembersFit
    BY DEF JInv, Undamaged, MembersSafe
  <1>2. /\ UNCHANGED <<out, fd, req, reg, gone, accepted>> /\ main # "accept"
        /\ accepted \in Nat \ {0} /\ accepted \in Conn /\ Len(connectedUsers) \in {accepted - 1, accepted}
    <2>1. UNCHANGED <<out, fd, req, reg, gone, accepted>> /\ main # "accept"
      BY DEF MainStep, Register, AddUser, PutUser, CopyRooms, GrowRooms, Start, locals, clients
    <2> QED
      BY <2>1, ServerAssumption DEF TInv, IInv, SlotIsNewest, TypedMain, Conn
  <1>3. ASSUME NEW t \in Conn PROVE pc[t] # "enter" /\ ~Entered(t) /\ pc'[t] # "enter" /\ ~Entered(t)'
    <2>1. ~Uses(t, "members")
      BY <1>2 DEF Undamaged, Apart
    <2>2. pc[t] # "enter" /\ ~Entered(t)
      BY <2>1, JoiningUses
    <2>3. pc'[t] \in {pc[t], "loop"}
      <3>1. pc \in [Conn -> Step \cup {"unborn"}]
        BY DEF TInv, IInv, StartedInOrder
      <3> QED
        BY <3>1 DEF MainStep, Register, AddUser, PutUser, CopyRooms, GrowRooms, Start
    <2> QED
      BY <1>2, <2>2, <2>3 DEF Entered
  <1>4. \A t \in Conn : JoinsFit(t)'
    BY <1>3 DEF JoinsFit
  <1>5. JoinedAt(accepted) = {} /\ \A c \in Conn : JoinedAt(c)' = JoinedAt(c)
    BY <1>1, <1>2 DEF NewestIsNew, JoinedAt
  <1>6. NewestIsNew'
    BY <1>1, <1>2, <1>5 DEF NewestIsNew, JoinedAt
  <1>7. ASSUME NEW c \in 1..Len(roomsByUser'), c # accepted
        PROVE  c \in 1..Len(roomsByUser) /\ roomsByUser'[c] = roomsByUser[c]
    <2>1. roomsByUser \in Seq(Entries) /\ Len(roomsByUser) \in Nat
      BY LenProperties DEF TInv, TypedTables
    <2>2. CASE AddUser \/ PutUser \/ CopyRooms
      BY <1>7, <2>2 DEF AddUser, PutUser, CopyRooms, users
    <2>3. CASE GrowRooms
      <3>1. Len(roomsByUser) = accepted - 1 /\ old[0] = roomsByUser
        BY <1>1, <2>3 DEF GrowRooms, MembersFit
      <3>2. roomsByUser' = Append(roomsByUser, Junk) /\ Junk \in Entries
        BY <2>3, <3>1 DEF GrowRooms, Entries
      <3>3. /\ Len(roomsByUser') = Len(roomsByUser) + 1
            /\ \A k \in 1..Len(roomsByUser) : roomsByUser'[k] = roomsByUser[k]
        BY <2>1, <3>2, AppendProperties
      <3> QED
        BY <1>2, <1>7, <2>1, <3>1, <3>3
    <2>4. CASE Start
      <3>1. Len(connectedUsers) = accepted
        BY <2>4 DEF Start, TInv, IInv, SlotIsNewest
      <3>2. roomsByUser' = [roomsByUser EXCEPT ![accepted] = 0] /\ 0 \in Entries
        BY <2>4, <3>1 DEF Start, Entries
      <3>3. roomsByUser' \in Seq(Entries) /\ DOMAIN roomsByUser' = DOMAIN roomsByUser
        BY <2>1, <3>2, StillLong
      <3>4. Len(roomsByUser') = Len(roomsByUser) /\ c \in DOMAIN roomsByUser
        BY <1>7, <2>1, <3>3, LenProperties
      <3> QED
        BY <1>7, <3>2, <3>4
    <2> QED
      BY <2>2, <2>3, <2>4 DEF MainStep, Register
  <1>8. \A c \in Conn : Sticks(c)'
    <2>1. ASSUME NEW c \in Conn PROVE Sticks(c)'
      <3>1. Sticks(c) /\ JoinedAt(c)' = JoinedAt(c)
        BY <1>1, <1>5
      <3>2. JoinedAt(c) # {} => c # accepted
        BY <1>5
      <3> QED
        BY <1>2, <1>3, <1>7, <3>1, <3>2, SticksStill
    <2> QED
      BY <2>1
  <1> QED
    BY <1>4, <1>6, <1>8 DEF JInv

LEMMA NextJInv == TInv /\ Serves /\ EInv /\ DInv /\ JInv /\ [Next]_vars => JInv'
  <1> SUFFICES ASSUME TInv, Serves, EInv, DInv, JInv, [Next]_vars,
                      fault' = "none", "members" \notin raced'
               PROVE  JInv'
    BY DEF JInv
  <1>1. fault = "none" /\ "members" \notin raced /\ gone \subseteq gone' /\ Undamaged
    BY HistoryGrows DEF DInv
  <1>2. CASE UNCHANGED <<main, accepted, pc, fd, req, reg, out, roomsByUser>>
    <2>1. (\A c \in Conn : Sticks(c)) /\ (\A t \in Conn : JoinsFit(t)) /\ NewestIsNew
      BY <1>1 DEF JInv
    <2>2. \A c \in Conn : Sticks(c)'
      BY <1>1, <1>2, <2>1, SticksStill DEF JoinedAt, Entered
    <2>3. (\A t \in Conn : JoinsFit(t)') /\ NewestIsNew'
      BY <1>2, <2>1 DEF JoinsFit, Entered, NewestIsNew, JoinedAt
    <2> QED
      BY <2>2, <2>3 DEF JInv
  <1>3. CASE UNCHANGED vars \/ MainStep(AcceptFails) \/ \E c \in Conn : Ask(c) \/ Leave(c)
    <2>1. UNCHANGED <<main, accepted, pc, fd, req, reg, out, roomsByUser>>
      BY <1>3 DEF vars, MainStep, AcceptFails, Ask, Leave, accepting, users, locals
    <2> QED
      BY <1>2, <2>1
  <1>4. CASE MainStep(Accept) \/ MainStep(Register)
    BY <1>1, <1>4, AcceptJInv, RegisterJInv
  <1>5. CASE \E t \in Conn : newThreadHandler(t)
    BY <1>1, <1>5, EnterJInv, SendHeadJInv, TurnJInv
  <1> QED
    BY <1>3, <1>4, <1>5 DEF Next

LEMMA InitJInv == Init => JInv
  <1> SUFFICES ASSUME Init PROVE JInv
    OBVIOUS
  <1>1. (\A t \in Conn : pc[t] = "unborn") /\ (\A c \in Conn : out[c] = <<>>) /\ roomsByUser = <<>>
        /\ main = "accept"
    BY DEF Init
  <1>2. \A c \in Conn : JoinedAt(c) = {}
    BY <1>1 DEF JoinedAt
  <1> QED
    BY <1>1, <1>2 DEF JInv, Sticks, JoinsFit, Entered, NewestIsNew

LEMMA JoinsInvariant == Spec => [](TInv /\ DInv /\ JInv)
  <1>1. Init => JInv
    BY InitJInv
  <1>2. TInv /\ Serves /\ EInv /\ DInv /\ JInv /\ [Next]_vars => JInv'
    BY NextJInv
  <1> QED
    BY <1>1, <1>2, EventsInvariant, DamageInvariant, PTL DEF Spec

\* However many clients join rooms, are accepted or leave meanwhile: a client
\* that has been told the id of its room is in that room until its next join is
\* served (handleJoinRoom, lines 203-225), unless two have been at work on the
\* memberships at once.
THEOREM JoinSticksHolds == Spec => []JoinSticksUnlessRaced
  <1>1. TInv /\ DInv /\ JInv => JoinSticksUnlessRaced
    <2> SUFFICES ASSUME TInv, DInv, JInv, "members" \notin raced, fault = "none",
                        NEW c \in 1..Len(roomsByUser), Joins(c) # {}, c \notin gone,
                        roomsByUser[c] < RoomNotFound
                 PROVE  \/ roomsByUser[c] = out[c][Max(Joins(c))].val
                        \/ \E t \in Conn : fd[t] = c /\ pc[t] = "sendHead" /\ req[t].rpc = "join_room"
      BY DEF JoinSticksUnlessRaced, JoinSticks
    <2>1. Joins(c) = JoinedAt(c)
      BY DEF Joins, JoinedAt, IsJoined, Parts
    <2>2. c \in Conn
      <3>1. Len(roomsByUser) \in {accepted - 1, accepted}
        BY DEF DInv, Undamaged, MembersSafe, MembersFit
      <3>2. accepted \in Nat /\ accepted <= MaxConnections
        BY ServerAssumption DEF TInv, TypedMain
      <3> QED
        BY <3>1, <3>2, ServerAssumption DEF Conn
    <2>3. Sticks(c)
      BY <2>2 DEF JInv
    <2>4. roomsByUser[c] \in Entries
      BY ElementOfSeq DEF TInv, TypedTables
    <2>5. ~(roomsByUser[c] >= RoomNotFound)
      BY <2>4 DEF Entries, Junk, RoomNotFound
    <2> QED
      BY <2>1, <2>3, <2>5 DEF Sticks, Entered
  <1> QED
    BY <1>1, JoinsInvariant, PTL

-----------------------------------------------------------------------------
(* Created rooms.                                                            *)

TellsId(part) == part.kind = "reply" /\ part.half = "head" /\ part.req.rpc = "create_room"
IdAt(p) == out[p[1]][p[2]].val

\* A client is told a room's id only after the room is there.
RoomsTold ==
    /\ \A p \in Created : IdAt(p) \in Nat /\ IdAt(p) < num["rooms"] /\ RoomIn(p)
    /\ \A p, q \in Created : IdAt(p) = IdAt(q) => p = q

\* A thread is making a room: nobody has been told of it, and it is there once
\* its name has been written.
Creating(t) == req[t].rpc = "create_room" /\ pc[t] \in {"grow", "publish", "put", "number", "sendHead"}
RoomMade(t) == Creating(t) =>
    /\ \A p \in Created : IdAt(p) + 1 < num["rooms"]
    /\ pc[t] \in {"number", "sendHead"} =>
         num["rooms"] \in DOMAIN table["rooms"] /\ table["rooms"][num["rooms"]] \in Names(req[t])
    /\ pc[t] = "sendHead" => reg[t] = num["rooms"] - 1

CInv == fault = "none" /\ "rooms" \notin raced /\ num["rooms"] <= 65536 =>
    RoomsTold /\ \A t \in Conn : RoomMade(t)

\* `Created' is where these parts are.
CreatedFits ==
    /\ \A p \in Created : p[1] \in Conn /\ p[2] \in DOMAIN out[p[1]] /\ p = <<p[1], p[2]>>
                          /\ TellsId(out[p[1]][p[2]])
    /\ \A c \in Conn : \A k \in DOMAIN out[c] : TellsId(out[c][k]) => <<c, k>> \in Created

LEMMA CreatedPlaces == CreatedFits
  <1> DEFINE Places(c) == {k \in Parts(c, "reply") : out[c][k].half = "head"
                                                     /\ out[c][k].req.rpc = "create_room"}
  <1>1. \A c, k : k \in Places(c) <=> k \in DOMAIN out[c] /\ TellsId(out[c][k])
    BY DEF Parts, TellsId
  <1>2. Created = UNION {{c} \X Places(c) : c \in Conn}
    BY DEF Created
  <1> HIDE DEF Places
  <1>3. \A p \in Created : \E c \in Conn : p \in {c} \X Places(c)
    BY <1>2
  <1>4. \A c \in Conn : \A k \in Places(c) : <<c, k>> \in Created
    <2> SUFFICES ASSUME NEW c \in Conn, NEW k \in Places(c) PROVE <<c, k>> \in Created
      OBVIOUS
    <2>1. <<c, k>> \in {c} \X Places(c)
      OBVIOUS
    <2> QED
      BY <1>2, <2>1
  <1> QED
    BY <1>1, <1>3, <1>4 DEF CreatedFits

\* A part is sent: it may tell of a room.
LEMMA CreatedNext ==
    ASSUME TInv, NEW t \in Conn, NEW c, NEW part, Sends(t, c, part), NEW n \in Nat, n = Len(out[c]) + 1
    PROVE  /\ ~TellsId(part) => Created' = Created
           /\ TellsId(part) => Created' = Created \cup {<<c, n>>} /\ IdAt(<<c, n>>)' = part.val
                               /\ (out[c][n])' = part
           /\ \A p \in Created : (out[p[1]][p[2]])' = out[p[1]][p[2]]
  <1>0. CreatedFits'
    BY CreatedPlaces, PTL
  <1>1. /\ c \in Conn /\ Len(out[c]) \in Nat /\ DOMAIN out[c] = 1..Len(out[c])
        /\ DOMAIN out'[c] = 1..(Len(out[c]) + 1)
        /\ out'[c][Len(out[c]) + 1] = part
        /\ \A k \in 1..Len(out[c]) : out'[c][k] = out[c][k]
        /\ \A d \in Conn : d # c => out'[d] = out[d]
    BY LastSent
  <1>2. PICK m \in Nat : m = Len(out[c]) /\ n = m + 1
    BY <1>1
  <1>3. 1..n = 1..m \cup {n} /\ n \notin 1..m
    BY <1>2
  <1>4. \A p \in Created : (out[p[1]][p[2]])' = out[p[1]][p[2]]
    BY <1>1, CreatedPlaces DEF CreatedFits
  <1>5. (out[c][n])' = part /\ IdAt(<<c, n>>)' = part.val
    BY <1>1, <1>2 DEF IdAt
  <1>6. \A p \in Created : p \in Created'
    <2> SUFFICES ASSUME NEW p \in Created PROVE p \in Created'
      OBVIOUS
    <2>1. PICK d, k : d = p[1] /\ k = p[2]
      OBVIOUS
    <2>2. d \in Conn /\ k \in DOMAIN out[d] /\ p = <<d, k>> /\ TellsId(out[d][k])
      BY <2>1, CreatedPlaces DEF CreatedFits
    <2>3. k \in DOMAIN out'[d] /\ out'[d][k] = out[d][k]
      BY <1>1, <1>2, <1>3, <2>2
    <2>4. TellsId(out'[d][k])
      BY <2>2, <2>3
    <2>5. \A e \in Conn : \A i \in DOMAIN out'[e] : TellsId(out'[e][i]) => <<e, i>> \in Created'
      BY <1>0 DEF CreatedFits
    <2> QED
      BY <2>2, <2>3, <2>4, <2>5
  <1>7. ASSUME NEW p \in Created' PROVE p \in Created \/ (p = <<c, n>> /\ TellsId(part))
    <2>1. PICK d, k : d = p[1] /\ k = p[2]
      OBVIOUS
    <2>2. \A q \in Created' : q[1] \in Conn /\ q[2] \in DOMAIN out'[q[1]] /\ q = <<q[1], q[2]>>
                              /\ TellsId(out'[q[1]][q[2]])
      BY <1>0 DEF CreatedFits
    <2>3. d \in Conn /\ k \in DOMAIN out'[d] /\ p = <<d, k>> /\ TellsId(out'[d][k])
      BY <1>7, <2>1, <2>2
    <2>4. CASE d = c /\ k = n
      BY <1>5, <2>3, <2>4
    <2>5. CASE ~(d = c /\ k = n)
      <3>1. k \in DOMAIN out[d] /\ out'[d][k] = out[d][k]
        BY <1>1, <1>2, <1>3, <2>3, <2>5
      <3>2. TellsId(out[d][k])
        BY <2>3, <3>1
      <3> QED
        BY <2>3, <3>1, <3>2, CreatedPlaces DEF CreatedFits
    <2> QED
      BY <2>4, <2>5
  <1>8. TellsId(part) => <<c, n>> \in Created'
    <2>1. \A e \in Conn : \A i \in DOMAIN out'[e] : TellsId(out'[e][i]) => <<e, i>> \in Created'
      BY <1>0 DEF CreatedFits
    <2>2. n \in DOMAIN out'[c] /\ out'[c][n] = part
      BY <1>1, <1>2
    <2> QED
      BY <1>1, <2>1, <2>2
  <1>9. ~TellsId(part) => Created' = Created
    BY <1>6, <1>7
  <1>10. TellsId(part) => Created' = Created \cup {<<c, n>>}
    BY <1>6, <1>7, <1>8
  <1> QED
    BY <1>4, <1>5, <1>9, <1>10

\* A room is found where it was.
SamePlace(p) == LET k == IdAt(p) + 1
                IN  k \in DOMAIN table'["rooms"] /\ table'["rooms"][k] = table["rooms"][k]

\* The rooms clients have been told of stay as they are.
LEMMA ToldStays ==
    ASSUME RoomsTold, Created' = Created, num'["rooms"] >= num["rooms"],
           num["rooms"] \in Nat, num'["rooms"] \in Nat,
           \A p \in Created : (out[p[1]][p[2]])' = out[p[1]][p[2]],
           \A p \in Created : SamePlace(p)
    PROVE  RoomsTold' /\ \A p \in Created : IdAt(p)' = IdAt(p)
  <1>1. \A p \in Created : IdAt(p)' = IdAt(p)
    BY DEF IdAt
  <1>2. ASSUME NEW p \in Created PROVE IdAt(p)' \in Nat /\ IdAt(p)' < num'["rooms"] /\ RoomIn(p)'
    <2>1. IdAt(p) \in Nat /\ IdAt(p) < num["rooms"] /\ RoomIn(p)
      BY DEF RoomsTold
    <2>2. RoomIn(p)'
      BY SMTT(30), <1>2, <2>1 DEF RoomIn, SamePlace, IdAt
    <2>3. IdAt(p)' = IdAt(p)
      BY <1>1
    <2> QED
      BY <2>1, <2>2, <2>3
  <1>3. \A p, q \in Created : IdAt(p)' = IdAt(q)' => p = q
    BY <1>1 DEF RoomsTold
  <1> QED
    BY <1>1, <1>2, <1>3 DEF RoomsTold

\* A thread that stands still.
LEMMA MadeStill ==
    ASSUME NEW u \in Conn, RoomMade(u), Created' = Created,
           num'["rooms"] = num["rooms"], table'["rooms"] = table["rooms"],
           \A p \in Created : IdAt(p)' = IdAt(p),
           pc'[u] = pc[u] \/ pc'[u] = "loop", req'[u] = req[u], reg'[u] = reg[u]
    PROVE  RoomMade(u)'
  BY DEF RoomMade, Creating

\* Whoever makes a room uses the rooms.
LEMMA CreatingUses ==
    ASSUME Undamaged, NEW t \in Conn, Creating(t)
    PROVE  Uses(t, "rooms")
  BY DEF Creating, Uses, Working, Touches

LEMMA OthersMakeNone ==
    ASSUME TInv, Undamaged, "rooms" \notin raced, NEW t \in Conn, newThreadHandler(t),
           Uses(t, "rooms"), NEW u \in Conn, u # t
    PROVE  RoomMade(u)'
  <1>1. ~Uses(u, "rooms")
    BY DEF Undamaged, Apart, Shared
  <1>2. ~Creating(u)
    BY <1>1, CreatingUses
  <1> QED
    BY <1>2, OnlyItsOwn DEF RoomMade, Creating

\* A step that is none of making a room.
LEMMA NotMaking ==
    ASSUME TInv, Undamaged, fault = "none", fault' = "none", NEW t \in Conn, newThreadHandler(t), ~HandleAppend(t)
    PROVE  ~Creating(t)'
  <1>1. /\ pc \in [Conn -> Step \cup {"unborn"}] /\ StepFits(t)
    BY DEF TInv, IInv, StartedInOrder, Undamaged
  <1>2. pc'[t] \notin Appending \ {"load"}
    BY NothingAppended
  <1>3. ASSUME NEW what, Break(what) PROVE what = "none"
    BY <1>3 DEF Break
  <1>4. CASE Lookup(t) \/ Enter(t) \/ CollectRooms(t) \/ CollectUsers(t)
    <2>1. req'[t] = req[t] /\ req[t].rpc # "create_room"
      BY <1>1, <1>4 DEF Lookup, Enter, CollectRooms, CollectUsers, StepFits, locals
    <2> QED
      BY <2>1 DEF Creating
  <1>5. CASE ~(Lookup(t) \/ Enter(t) \/ CollectRooms(t) \/ CollectUsers(t))
    <2>1. pc'[t] # "sendHead"
      <3>1. CASE ReadSlot(t) \/ RecvFails(t) \/ ReadsFreed(t)
        BY <1>1, <1>3, <3>1 DEF ReadSlot, RecvFails, ReadsFreed, Goto
      <3>2. CASE RecvHead(t) \/ RecvBody(t)
        <4>1. ASSUME NEW r, Dispatch(t, r) PROVE pc'[t] # "sendHead"
          BY <1>1, <1>3, <4>1 DEF Dispatch, Goto, FirstStep
        <4> QED
          BY <1>1, <1>3, <3>2, <4>1 DEF RecvHead, RecvBody, Goto
      <3>3. CASE SendHead(t) \/ SendBody(t) \/ EventHead(t) \/ EventBody(t)
        BY <1>1, <1>3, <3>3 DEF SendHead, SendBody, EventHead, EventBody, SendTo, Goto
      <3>4. CASE Find(t) \/ EachUser(t)
        BY <1>1, <1>3, <3>4 DEF Find, EachUser, Goto
      <3> QED
        BY <1>5, <3>1, <3>2, <3>3, <3>4 DEF newThreadHandler
    <2> QED
      BY <1>2, <2>1 DEF Creating, Appending
  <1> QED
    BY <1>4, <1>5

\* The rooms only grow in number.
LEMMA RoomsGrow ==
    ASSUME TInv, Serves, Undamaged, [Next]_vars, "rooms" \notin raced, fault = "none", fault' = "none"
    PROVE  num["rooms"] \in Nat /\ num'["rooms"] \in Nat /\ num["rooms"] <= num'["rooms"]
  <1>1. num["rooms"] \in Nat
    BY DEF TInv, TypedTables, Tables
  <1>2. CASE UNCHANGED num
    BY <1>1, <1>2
  <1>3. CASE \E t \in Conn : newThreadHandler(t)
    <2>1. PICK t \in Conn : newThreadHandler(t)
      BY <1>3
    <2>2. CASE HandleAppend(t)
      <3>1. PICK tab : tab = Tab(t)
        OBVIOUS
      <3>2. /\ AppendTurn(t, tab) /\ tab \in Tables
            /\ \A other \in Tables : other # tab => num'[other] = num[other]
        BY <2>2, <3>1, AppendTurns DEF Tab, Tables
      <3>3. CASE tab = "rooms" /\ pc[t] = "count"
        <4>1. reg[t] = num["rooms"]
          <5>1. Appends(t, "rooms")
            BY <3>1, <3>3 DEF Appends
          <5> QED
            BY <3>3, <5>1 DEF Undamaged, TablesFit, TableFits, Midway, Tables
        <4>2. num'["rooms"] = reg[t] + 1
          BY <3>2, <3>3 DEF AppendTurn
        <4> QED
          BY <1>1, <4>1, <4>2
      <3>4. CASE tab = "rooms" /\ pc[t] # "count"
        BY <1>2, <3>2, <3>4 DEF AppendTurn
      <3>5. CASE tab # "rooms"
        BY <1>1, <3>2, <3>5 DEF Tables
      <3> QED
        BY <3>3, <3>4, <3>5
    <2>3. CASE ~HandleAppend(t)
      BY <1>2, <2>1, <2>3, NothingAppended
    <2> QED
      BY <2>2, <2>3
  <1>4. CASE ~(\E t \in Conn : newThreadHandler(t))
    BY <1>2, <1>4, TablesAreTheThreads DEF Next
  <1> QED
    BY <1>3, <1>4

\* A turn of a thread that makes a room.
LEMMA MakingTurn ==
    ASSUME TInv, Serves, Undamaged, [Next]_vars, fault = "none", fault' = "none", "rooms" \notin raced,
           RoomsTold, NEW t \in Conn, RoomMade(t), newThreadHandler(t), HandleAppend(t),
           Tab(t) = "rooms"
    PROVE  RoomsTold' /\ RoomMade(t)'
  <1>1. AppendTurn(t, "rooms") /\ UNCHANGED <<req, out>>
    BY AppendTurns
  <1>2. /\ num["rooms"] \in Nat /\ num'["rooms"] \in Nat /\ num["rooms"] <= num'["rooms"]
        /\ table["rooms"] \in Seq(Entries)
    BY RoomsGrow DEF TInv, TypedTables, Tables
  <1>3. Created' = Created /\ \A p \in Created : (out[p[1]][p[2]])' = out[p[1]][p[2]]
    BY <1>1 DEF Created, Parts
  <1>4. DOMAIN table["rooms"] = 1..Len(table["rooms"]) /\ Len(table["rooms"]) \in Nat
    BY <1>2, LenProperties
  <1>5. req[t].rpc = "create_room"
    <2>1. req[t].rpc \in {"login", "create_room"}
      BY <1>1 DEF AppendTurn, Undamaged, StepFits
    <2> QED
      BY <2>1 DEF Tab
  <1>6. pc[t] \in {"count", "grow", "publish", "put"} => Midway(t, "rooms")
    <2>1. pc[t] \in {"count", "grow", "publish", "put"} => Appends(t, "rooms")
      BY DEF Appends
    <2> QED
      BY <2>1 DEF Undamaged, TablesFit, TableFits, Tables
  <1>7. \A p \in Created : /\ IdAt(p) \in Nat /\ IdAt(p) < num["rooms"]
                            /\ IdAt(p) + 1 \in DOMAIN table["rooms"]
    BY DEF RoomsTold, RoomIn, IdAt
  <1>8. ASSUME \A p \in Created : SamePlace(p)
        PROVE  RoomsTold' /\ \A p \in Created : IdAt(p)' = IdAt(p)
    BY <1>2, <1>3, <1>8, ToldStays
  <1>9. CASE UNCHANGED table /\ pc[t] \notin {"publish", "put"}
    <2>1. \A p \in Created : SamePlace(p)
      BY <1>7, <1>9 DEF SamePlace
    <2>2. RoomsTold' /\ \A p \in Created : IdAt(p)' = IdAt(p)
      BY <1>8, <2>1
    <2>3. CASE pc[t] = "count"
      <3>1. pc'[t] = "grow" /\ num'["rooms"] = reg[t] + 1 /\ reg[t] = num["rooms"]
        BY <1>1, <1>6, <2>3 DEF AppendTurn, Midway
      <3>2. \A p \in Created : IdAt(p) + 1 < num'["rooms"]
        BY <1>2, <1>7, <3>1
      <3> QED
        BY <1>3, <2>2, <3>1, <3>2 DEF RoomMade
    <2>4. CASE pc[t] = "load"
      BY <1>1, <2>2, <2>4 DEF RoomMade, Creating, AppendTurn
    <2>5. CASE pc[t] = "grow"
      <3>1. pc'[t] = "publish" /\ UNCHANGED num /\ \A p \in Created : IdAt(p) + 1 < num["rooms"]
        BY <1>1, <1>5, <2>5 DEF AppendTurn, RoomMade, Creating
      <3> QED
        BY <1>3, <2>2, <3>1 DEF RoomMade
    <2>6. CASE pc[t] = "number"
      <3>1. /\ pc'[t] = "sendHead" /\ UNCHANGED num /\ \A p \in Created : IdAt(p) + 1 < num["rooms"]
            /\ num["rooms"] \in DOMAIN table["rooms"] /\ table["rooms"][num["rooms"]] \in Names(req[t])
            /\ reg'[t] = num["rooms"] - 1
        BY <1>1, <1>5, <2>6 DEF AppendTurn, RoomMade, Creating, Answer
      <3> QED
        BY <1>1, <1>3, <1>9, <2>2, <3>1 DEF RoomMade
    <2> QED
      BY <1>1, <1>9, <2>3, <2>4, <2>5, <2>6 DEF AppendTurn
  <1>10. CASE pc[t] = "publish"
    <2>1. /\ pc'[t] = "put" /\ UNCHANGED <<num, reg>>
          /\ \E block \in {old[t], table["rooms"]} : GrownFrom("rooms", block, reg[t])
      BY <1>1, <1>10 DEF AppendTurn
    <2>2. old[t] = table["rooms"] /\ reg[t] = num["rooms"] /\ num["rooms"] = Len(table["rooms"]) + 1
      BY <1>6, <1>10 DEF Midway
    <2>3. /\ Len(table'["rooms"]) = num["rooms"]
          /\ \A k \in 1..num["rooms"] : k <= Len(table["rooms"]) => table'["rooms"][k] = table["rooms"][k]
      BY <2>1, <2>2 DEF GrownFrom
    <2>4. DOMAIN table'["rooms"] = 1..num["rooms"]
      <3>1. table'["rooms"] \in Seq(Entries)
        <4>1. TInv'
          BY NextTInv
        <4> QED
          BY <4>1 DEF TInv, TypedTables, Tables
      <3> QED
        BY <2>3, <3>1, LenProperties
    <2>5. ASSUME NEW p \in Created PROVE SamePlace(p)
      <3>1. PICK k \in Nat : k = IdAt(p) + 1
        BY <1>7
      <3>2. k \in 1..Len(table["rooms"])
        BY <1>4, <1>7, <3>1
      <3>3. k \in 1..num["rooms"] /\ k <= Len(table["rooms"])
        BY <1>2, <1>4, <2>2, <3>2
      <3> QED
        BY <2>3, <2>4, <3>1, <3>3 DEF SamePlace
    <2>6. RoomsTold' /\ \A p \in Created : IdAt(p)' = IdAt(p)
      BY <1>8, <2>5
    <2>7. \A p \in Created : IdAt(p) + 1 < num["rooms"]
      BY <1>5, <1>10 DEF RoomMade, Creating
    <2> QED
      BY <1>3, <2>1, <2>6, <2>7 DEF RoomMade
  <1>11. CASE pc[t] = "put"
    <2>1. /\ pc'[t] = "number" /\ UNCHANGED <<num, reg>>
          /\ \E name \in Names(req[t]) :
               table'["rooms"] = [table["rooms"] EXCEPT ![num["rooms"]] = name]
      BY <1>1, <1>11 DEF AppendTurn
    <2>2. Len(table["rooms"]) = num["rooms"]
      BY <1>6, <1>11 DEF Midway
    <2>3. \A p \in Created : IdAt(p) + 1 < num["rooms"]
      BY <1>5, <1>11 DEF RoomMade, Creating
    <2>4. \A p \in Created : SamePlace(p)
      <3>1. ASSUME NEW p \in Created PROVE SamePlace(p)
        <4>1. PICK k \in Nat : k = IdAt(p) + 1
          BY <1>7
        <4>2. k \in DOMAIN table["rooms"] /\ k # num["rooms"]
          BY <1>2, <1>7, <2>3, <4>1
        <4> QED
          BY <2>1, <4>1, <4>2 DEF SamePlace
      <3> QED
        BY <3>1
    <2>5. RoomsTold' /\ \A p \in Created : IdAt(p)' = IdAt(p)
      BY <1>8, <2>4
    <2>6. num["rooms"] \in DOMAIN table["rooms"]
      <3>1. num["rooms"] # 0
        BY DEF TInv, TypedTables
      <3> QED
        BY <1>2, <1>4, <2>2, <3>1
    <2>7. num["rooms"] \in DOMAIN table'["rooms"] /\ table'["rooms"][num["rooms"]] \in Names(req[t])
      BY <2>1, <2>6
    <2> QED
      BY <1>1, <1>3, <2>1, <2>3, <2>5, <2>7 DEF RoomMade
  <1> QED
    BY <1>1, <1>9, <1>10, <1>11 DEF AppendTurn

\* The rooms stay, and no client is told of a new one.
LEMMA RoomsStay ==
    ASSUME TInv, RoomsTold, Created' = Created,
           \A p \in Created : (out[p[1]][p[2]])' = out[p[1]][p[2]],
           num'["rooms"] = num["rooms"], table'["rooms"] = table["rooms"]
    PROVE  RoomsTold' /\ \A p \in Created : IdAt(p)' = IdAt(p)
  <1>1. num["rooms"] \in Nat
    BY DEF TInv, TypedTables, Tables
  <1>2. \A p \in Created : SamePlace(p)
    BY DEF RoomsTold, RoomIn, SamePlace, IdAt
  <1>3. num'["rooms"] >= num["rooms"] /\ num'["rooms"] \in Nat
    BY <1>1
  <1> QED
    BY <1>1, <1>2, <1>3, ToldStays

\* A part that tells of no room.
LEMMA NoRoomTold ==
    ASSUME TInv, NEW t \in Conn, NEW c, NEW part, Sends(t, c, part), ~TellsId(part)
    PROVE  Created' = Created /\ \A p \in Created : (out[p[1]][p[2]])' = out[p[1]][p[2]]
  <1>1. PICK n \in Nat : n = Len(out[c]) + 1
    BY LastSent
  <1> QED
    BY <1>1, CreatedNext

\* A client is told of its new room.
LEMMA TellsOfRoom ==
    ASSUME TInv, RoomsTold, num["rooms"] <= 65536, NEW t \in Conn, RoomMade(t), pc[t] = "sendHead",
           req[t].rpc = "create_room", NEW c, NEW part, Sends(t, c, part), TellsId(part),
           part.val = reg[t] % 65536, UNCHANGED <<num, table>>
    PROVE  RoomsTold'
  <1>1. PICK n \in Nat : n = Len(out[c]) + 1
    BY LastSent
  <1>2. /\ Created' = Created \cup {<<c, n>>} /\ IdAt(<<c, n>>)' = part.val /\ (out[c][n])' = part
        /\ \A p \in Created : (out[p[1]][p[2]])' = out[p[1]][p[2]]
    BY <1>1, CreatedNext
  <1>3. PICK rooms : rooms = num["rooms"]
    OBVIOUS
  <1>4. /\ rooms \in Nat \ {0} /\ rooms <= 65536 /\ reg[t] = rooms - 1
        /\ rooms \in DOMAIN table["rooms"] /\ table["rooms"][rooms] \in Parsed(req[t].arg)
        /\ \A p \in Created : IdAt(p) + 1 < rooms
    BY <1>3 DEF TInv, TypedTables, Tables, RoomMade, Creating, Names
  <1>5. part.val = rooms - 1
    BY <1>4
  <1>6. part.req = req[t]
    BY DEF Sends
  <1>7. \A p \in Created : IdAt(p) \in Nat /\ IdAt(p)' = IdAt(p) /\ IdAt(p) + 1 < rooms
    BY <1>2, <1>4 DEF RoomsTold, IdAt
  <1>8. PICK id \in Nat : id = rooms - 1
    BY <1>4
  <1>9. IdAt(<<c, n>>)' = id /\ id < rooms /\ id + 1 = rooms
    BY <1>2, <1>4, <1>5, <1>8
  <1>10. RoomIn(<<c, n>>)'
    <2>1. <<c, n>>[1] = c /\ <<c, n>>[2] = n
      OBVIOUS
    <2> QED
      BY <1>2, <1>4, <1>5, <1>6, <1>8, <1>9, <2>1 DEF RoomIn
  <1>11. \A p \in Created : RoomIn(p)'
    BY <1>2 DEF RoomsTold, RoomIn
  <1>12. ASSUME NEW p \in Created' PROVE IdAt(p)' \in Nat /\ IdAt(p)' < num'["rooms"] /\ RoomIn(p)'
    <2>1. CASE p \in Created
      <3>1. IdAt(p)' = IdAt(p) /\ IdAt(p) \in Nat /\ IdAt(p) < num["rooms"]
        BY <1>7, <2>1 DEF RoomsTold
      <3> QED
        BY <1>11, <2>1, <3>1
    <2>2. CASE p = <<c, n>>
      BY <1>3, <1>8, <1>9, <1>10, <2>2
    <2> QED
      BY <1>2, <1>12, <2>1, <2>2
  <1>13. ASSUME NEW p \in Created', NEW q \in Created', IdAt(p)' = IdAt(q)' PROVE p = q
    <2>1. CASE p \in Created /\ q \in Created
      BY <1>7, <1>13, <2>1 DEF RoomsTold
    <2>2. CASE p \in Created /\ q = <<c, n>>
      BY <1>7, <1>9, <1>13, <2>2
    <2>3. CASE p = <<c, n>> /\ q \in Created
      BY <1>7, <1>9, <1>13, <2>3
    <2> QED
      BY <1>2, <1>13, <2>1, <2>2, <2>3
  <1> QED
    BY <1>12, <1>13 DEF RoomsTold

LEMMA NextCInv == TInv /\ Serves /\ DInv /\ CInv /\ [Next]_vars => CInv'
  <1> SUFFICES ASSUME TInv, Serves, DInv, CInv, [Next]_vars, fault' = "none", "rooms" \notin raced',
                      num'["rooms"] <= 65536
               PROVE  RoomsTold' /\ \A u \in Conn : RoomMade(u)'
    BY DEF CInv
  <1>1. fault = "none" /\ "rooms" \notin raced /\ Undamaged
    BY HistoryGrows DEF DInv
  <1>2. num["rooms"] <= 65536
    BY <1>1, RoomsGrow
  <1>3. RoomsTold /\ \A u \in Conn : RoomMade(u)
    BY <1>1, <1>2 DEF CInv
  <1> HIDE DEF CInv
  <1>4. ASSUME UNCHANGED out PROVE Created' = Created /\ \A p \in Created : (out[p[1]][p[2]])' = out[p[1]][p[2]]
    BY <1>4 DEF Created, Parts
  <1>5. CASE ~(\E t \in Conn : newThreadHandler(t))
    <2>1. /\ UNCHANGED <<num, table, fd, req, reg, sender, out>>
          /\ \A t \in Conn : old'[t] = old[t] /\ pc'[t] \in {pc[t], "loop"}
      BY <1>5, TablesAreTheThreads DEF Next
    <2>2. RoomsTold' /\ \A p \in Created : IdAt(p)' = IdAt(p)
      BY <1>3, <1>4, <2>1, RoomsStay
    <2>3. \A u \in Conn : RoomMade(u)'
      BY <1>3, <1>4, <2>1, <2>2, MadeStill
    <2> QED
      BY <2>2, <2>3
  <1>6. CASE \E t \in Conn : newThreadHandler(t)
    <2>1. PICK t \in Conn : newThreadHandler(t)
      BY <1>6
    <2>2. ASSUME Created' = Created, \A p \in Created : (out[p[1]][p[2]])' = out[p[1]][p[2]],
                 num'["rooms"] = num["rooms"], table'["rooms"] = table["rooms"], RoomMade(t)'
          PROVE  RoomsTold' /\ \A u \in Conn : RoomMade(u)'
      <3>1. RoomsTold' /\ \A p \in Created : IdAt(p)' = IdAt(p)
        BY <1>3, <2>2, RoomsStay
      <3>2. \A u \in Conn : u # t => RoomMade(u)'
        BY <1>3, <2>1, <2>2, <3>1, MadeStill, OnlyItsOwn
      <3> QED
        BY <2>2, <3>1, <3>2
    <2>3. ASSUME Uses(t, "rooms"), RoomsTold', RoomMade(t)' PROVE RoomsTold' /\ \A u \in Conn : RoomMade(u)'
      BY <1>1, <2>1, <2>3, OthersMakeNone
    <2>4. CASE HandleAppend(t)
      <3>1. AppendTurn(t, Tab(t)) /\ UNCHANGED <<req, out>> /\ req[t].rpc \in {"login", "create_room"}
        BY <1>1, <2>4, AppendTurns DEF AppendTurn, Undamaged, StepFits
      <3>2. CASE Tab(t) = "rooms"
        <4>1. RoomsTold' /\ RoomMade(t)'
          BY <1>1, <1>3, <2>1, <2>4, <3>2, MakingTurn
        <4>2. Uses(t, "rooms")
          BY <3>1, <3>2 DEF AppendTurn, Uses, Working, Touches, Tab
        <4> QED
          BY <2>3, <4>1, <4>2
      <3>3. CASE Tab(t) # "rooms"
        <4>1. num'["rooms"] = num["rooms"] /\ table'["rooms"] = table["rooms"]
          BY <1>1, <2>4, <3>3, AppendTurns DEF Tables
        <4>2. RoomMade(t)'
          BY <3>1, <3>3 DEF RoomMade, Creating, Tab
        <4> QED
          BY <1>4, <2>2, <3>1, <4>1, <4>2
      <3> QED
        BY <3>2, <3>3
    <2>5. CASE ~HandleAppend(t)
      <3>1. UNCHANGED <<num, table>>
        BY <2>1, <2>5, NothingAppended
      <3>2. RoomMade(t)'
        BY <1>1, <2>1, <2>5, NotMaking DEF RoomMade
      <3>3. CASE out' = out
        BY <1>4, <2>2, <3>1, <3>2, <3>3
      <3>4. ASSUME NEW c, NEW part, Sends(t, c, part), ~TellsId(part)
            PROVE  RoomsTold' /\ \A u \in Conn : RoomMade(u)'
        <4>1. Created' = Created /\ \A p \in Created : (out[p[1]][p[2]])' = out[p[1]][p[2]]
          BY <3>4, NoRoomTold
        <4> QED
          BY <2>2, <3>1, <3>2, <4>1
      <3>5. CASE SentEvent(t)
        <4>1. PICK c, part : Sends(t, c, part) /\ part.kind = "event"
          BY <3>5 DEF SentEvent
        <4> QED
          BY <3>4, <4>1 DEF TellsId
      <3>6. CASE SentReply(t)
        <4>1. PICK part : /\ Sends(t, fd[t], part) /\ part.kind = "reply"
                          /\ \/ pc[t] = "sendHead" /\ part.half = "head" /\ part.val = InHead(t)
                             \/ pc[t] = "sendBody" /\ part.half = "body" /\ part.val = Id(t)
          BY <3>6 DEF SentReply
        <4>2. CASE ~TellsId(part)
          BY <3>4, <4>1, <4>2
        <4>3. CASE TellsId(part)
          <5>1. pc[t] = "sendHead" /\ req[t].rpc = "create_room" /\ part.val = reg[t] % 65536
            BY <4>1, <4>3 DEF TellsId, Sends, InHead, Id
          <5>2. RoomsTold'
            BY <1>2, <1>3, <3>1, <4>1, <4>3, <5>1, TellsOfRoom
          <5>3. Uses(t, "rooms")
            BY <5>1 DEF Uses, Working, Touches
          <5> QED
            BY <2>3, <3>2, <5>2, <5>3
        <4> QED
          BY <4>2, <4>3
      <3> QED
        BY <2>1, <3>3, <3>5, <3>6, RepliesAndEvents
    <2> QED
      BY <2>4, <2>5
  <1> QED
    BY <1>5, <1>6

LEMMA InitCInv == Init => CInv
  <1> SUFFICES ASSUME Init PROVE CInv
    OBVIOUS
  <1>1. \A t \in Conn : pc[t] = "unborn"
    BY DEF Init
  <1>2. \A c \in Conn : out[c] = <<>>
    BY DEF Init
  <1>3. ASSUME NEW p \in Created PROVE FALSE
    <2>1. PICK d, k : d = p[1] /\ k = p[2]
      OBVIOUS
    <2>2. d \in Conn /\ k \in DOMAIN out[d]
      BY <1>3, <2>1, CreatedPlaces DEF CreatedFits
    <2>3. DOMAIN out[d] = {}
      BY <1>2, <2>2
    <2> QED
      BY <2>2, <2>3
  <1> QED
    BY <1>1, <1>3 DEF CInv, RoomsTold, RoomMade, Creating

-----------------------------------------------------------------------------
(* Replies: at any time at most one is owed on a connection that has had no  *)
(* events.                                                                   *)

Calm(c) == Parts(c, "event") = {}

\* A request that is answered waits in the inbox; it is the only one there.
OwedAt(c, k) == inbox[c][k].half = "head" /\ NeedsReply(inbox[c][k].req)
NoneWaits(c) == \A k \in DOMAIN inbox[c] : ~OwedAt(c, k)
OneWaits(c, r) == \E k \in DOMAIN inbox[c] : /\ inbox[c][k].req = r
                                             /\ \A j \in DOMAIN inbox[c] : OwedAt(c, j) <=> j = k

\* A thread has read such a request; it is the only one that has.
Serving(c, t) == fd[t] = c /\ Busy(t) /\ NeedsReply(req[t])
NoneServes(c) == \A t \in Conn : ~Serving(c, t)
OneServes(c, t) == \A u \in Conn : Serving(c, u) <=> u = t

\* The k-th part sent answers the request whose turn it is.
Upto(c, i) == {j \in Owed(c) : j <= i}
Answers(c, k, r) == \E i \in Owed(c) : r = asked[c][i] /\ Cardinality(Upto(c, i)) = (k + 1) \div 2

Alternates(c) == \A k \in DOMAIN out[c] :
    /\ out[c][k].half = IF k % 2 = 1 THEN "head" ELSE "body"
    /\ k % 2 = 0 => out[c][k].by = out[c][k - 1].by
    /\ Answers(c, k, out[c][k].req)

Due(c, r) == Answers(c, Len(out[c]) + 1, r)

Quiet(c) == Len(out[c]) = 2 * Cardinality(Owed(c)) /\ NoneWaits(c) /\ NoneServes(c)
Waiting(c) == /\ Len(out[c]) + 2 = 2 * Cardinality(Owed(c)) /\ NoneServes(c)
              /\ \E r \in Reqs : OneWaits(c, r) /\ Due(c, r)
Served(c) == /\ Len(out[c]) + 2 = 2 * Cardinality(Owed(c)) /\ NoneWaits(c)
             /\ \E t \in Conn : OneServes(c, t) /\ pc[t] # "sendBody" /\ Due(c, req[t])
HalfServed(c) == /\ Len(out[c]) + 1 = 2 * Cardinality(Owed(c)) /\ NoneWaits(c)
                 /\ \E t \in Conn : /\ OneServes(c, t) /\ pc[t] = "sendBody"
                                    /\ out[c][Len(out[c])].by = t
                                    /\ out[c][Len(out[c])].req = req[t]

InTurn(c) == Quiet(c) \/ Waiting(c) \/ Served(c) \/ HalfServed(c)

RInv == \A c \in Conn : Calm(c) =>
    /\ Alternates(c)
    /\ fault = "none" /\ c \notin gone => InTurn(c)

-----------------------------------------------------------------------------
(* Lists of rooms.                                                           *)

\* A thread that lists rooms knows how many there are, and what it has said.
CountsRooms(t) == req[t].rpc = "list_rooms" /\ pc[t] \in {"sendHead", "sendBody"} =>
    /\ reg[t] = num["rooms"]
    /\ \A c \in Conn \ gone : pc[t] = "sendBody" /\ fd[t] = c /\ Calm(c) =>
         out[c][Len(out[c])].val = num["rooms"] % 256

Counted(c) == \A k \in DOMAIN out[c] :
    out[c][k].half = "body" /\ out[c][k].req.rpc = "list_rooms" =>
      /\ out[c][k].val \in Nat /\ out[c][k].val <= num["rooms"]
      /\ out[c][k - 1].val = out[c][k].val % 256

LInv == "rooms" \notin raced =>
    /\ \A c \in Conn : Calm(c) => Counted(c)
    /\ fault = "none" => \A t \in Conn : CountsRooms(t)

-----------------------------------------------------------------------------
\* Every other part is a body.
LEMMA EvenCount ==
    ASSUME NEW n \in Nat
    PROVE  Cardinality({k \in 1..n : k % 2 = 0}) = n \div 2
  <1> DEFINE Even == {k \in 1..n : k % 2 = 0}
  <1>1. PICK h \in Nat : h = n \div 2
    OBVIOUS
  <1>2. n = 2 * h \/ n = 2 * h + 1
    BY <1>1
  <1>3. PICK F : F = [i \in 1..h |-> 2 * i]
    OBVIOUS
  <1>4. F \in [1..h -> Even]
    <2>1. ASSUME NEW i \in 1..h PROVE 2 * i \in Even
      <3>1. 2 * i \in 1..n
        BY <1>2
      <3>2. (2 * i) % 2 = 0
        OBVIOUS
      <3> QED
        BY <3>1, <3>2
    <2> QED
      BY <1>3, <2>1
  <1>5. \A i, j \in 1..h : F[i] = F[j] => i = j
    BY <1>3
  <1>6. ASSUME NEW k \in Even PROVE \E i \in 1..h : F[i] = k
    <2>1. k \in 1..n /\ k % 2 = 0
      OBVIOUS
    <2>2. PICK i \in Nat : i = k \div 2
      BY <2>1
    <2>3. k = 2 * i
      BY <2>1, <2>2
    <2>4. i \in 1..h
      BY <1>2, <2>1, <2>3
    <2> QED
      BY <1>3, <2>3, <2>4
  <1>7. F \in Bijection(1..h, Even)
    BY <1>4, <1>5, <1>6, Fun_IsBij
  <1>8. ExistsBijection(1..h, Even)
    BY <1>7, Fun_ExistsBij
  <1> HIDE DEF Even
  <1>9. Cardinality(Even) = h
    BY <1>8, FS_CountingElements
  <1> QED
    BY <1>1, <1>9 DEF Even

LEMMA HalfAreBodies ==
    ASSUME TInv, NEW c \in Conn, Alternates(c)
    PROVE  Cardinality(Bodies(c)) = Len(out[c]) \div 2
  <1>1. Len(out[c]) \in Nat /\ DOMAIN out[c] = 1..Len(out[c])
    BY LenProperties DEF TInv, TypedNetwork
  <1>2. PICK n \in Nat : n = Len(out[c])
    BY <1>1
  <1>3. ASSUME NEW k \in 1..n PROVE out[c][k].half = "body" <=> k % 2 = 0
    <2>1. k % 2 \in {0, 1}
      OBVIOUS
    <2>2. out[c][k].half = IF k % 2 = 1 THEN "head" ELSE "body"
      BY <1>1, <1>2 DEF Alternates
    <2> QED
      BY <2>1, <2>2
  <1>4. Bodies(c) = {k \in 1..n : k % 2 = 0}
    BY <1>1, <1>2, <1>3 DEF Bodies
  <1> QED
    BY <1>2, <1>4, EvenCount

LEMMA FiniteOwed ==
    ASSUME TInv, NEW c \in Conn
    PROVE  /\ Len(asked[c]) \in Nat /\ DOMAIN asked[c] = 1..Len(asked[c])
           /\ IsFiniteSet(Owed(c)) /\ Cardinality(Owed(c)) \in Nat
  <1>1. Len(asked[c]) \in Nat /\ DOMAIN asked[c] = 1..Len(asked[c])
    BY LenProperties DEF TInv, TypedNetwork
  <1>2. IsFiniteSet(1..Len(asked[c]))
    BY <1>1, FS_Interval
  <1>3. Owed(c) \subseteq 1..Len(asked[c])
    BY <1>1 DEF Owed
  <1>4. IsFiniteSet(Owed(c))
    BY <1>2, <1>3, FS_Subset
  <1> QED
    BY <1>1, <1>4, FS_CardinalityType

\* A client asks for one thing more.
LEMMA OweMore ==
    ASSUME TInv, NEW c \in Conn, NEW r \in Reqs, asked'[c] = Append(asked[c], r),
           NEW m \in Nat, m = Cardinality(Owed(c))
    PROVE  /\ \A k, q : Answers(c, k, q) => Answers(c, k, q)'
           /\ ~NeedsReply(r) => Cardinality(Owed(c))' = m
           /\ NeedsReply(r) => Cardinality(Owed(c))' = m + 1 /\ Answers(c, 2 * m + 1, r)'
  <1>1. PICK n \in Nat : n = Len(asked[c]) /\ DOMAIN asked[c] = 1..n
    BY FiniteOwed
  <1>2. /\ DOMAIN asked'[c] = 1..(n + 1) /\ asked'[c][n + 1] = r
        /\ \A k \in 1..n : asked'[c][k] = asked[c][k]
    <2>1. asked[c] \in Seq(Reqs)
      BY DEF TInv, TypedNetwork
    <2>2. /\ Append(asked[c], r) \in Seq(Reqs) /\ Len(Append(asked[c], r)) = n + 1
          /\ Append(asked[c], r)[n + 1] = r
          /\ \A k \in 1..n : Append(asked[c], r)[k] = asked[c][k]
      BY <1>1, <2>1, AppendProperties
    <2>3. DOMAIN Append(asked[c], r) = 1..(n + 1)
      BY <2>2, LenProperties
    <2> QED
      BY <2>2, <2>3
  <1>3. Owed(c) = {i \in 1..n : NeedsReply(asked[c][i])}
    BY <1>1 DEF Owed
  <1>4. Owed(c)' = {i \in 1..(n + 1) : NeedsReply(asked'[c][i])}
    BY <1>2 DEF Owed, NeedsReply
  <1>5. n + 1 \notin 1..n /\ 1..(n + 1) = 1..n \cup {n + 1}
    OBVIOUS
  <1>6. \A i \in 1..n : i \in Owed(c)' <=> i \in Owed(c)
    BY <1>2, <1>3, <1>4, <1>5
  <1>7. n + 1 \in Owed(c)' <=> NeedsReply(r)
    BY <1>2, <1>4, <1>5
  <1>8. Owed(c) \subseteq 1..n /\ Owed(c)' \subseteq 1..(n + 1)
    BY <1>3, <1>4
  <1>9. Owed(c)' = IF NeedsReply(r) THEN Owed(c) \cup {n + 1} ELSE Owed(c)
    <2>1. \A i : i \in Owed(c) => i \in Owed(c)'
      BY <1>6, <1>8
    <2>2. \A i : i \in Owed(c)' => i \in Owed(c) \/ i = n + 1
      BY <1>5, <1>6, <1>8
    <2>3. n + 1 \notin Owed(c)
      BY <1>5, <1>8
    <2>4. NeedsReply(r) => Owed(c)' = Owed(c) \cup {n + 1}
      BY <1>7, <2>1, <2>2
    <2>5. ~NeedsReply(r) => Owed(c)' = Owed(c)
      BY <1>7, <2>1, <2>2
    <2> QED
      BY <2>4, <2>5
  <1>10. ASSUME NEW k, NEW q, Answers(c, k, q) PROVE Answers(c, k, q)'
    <2>1. PICK i \in Owed(c) : q = asked[c][i] /\ Cardinality(Upto(c, i)) = (k + 1) \div 2
      BY <1>10 DEF Answers
    <2>2. i \in 1..n /\ i \in Owed(c)'
      BY <1>6, <1>8, <2>1
    <2>3. \A j \in 1..(n + 1) : j <= i => j \in 1..n
      BY <2>2
    <2>4. Upto(c, i)' = Upto(c, i)
      BY <1>6, <1>8, <1>9, <2>3 DEF Upto
    <2>5. q = asked'[c][i]
      BY <1>2, <2>1, <2>2
    <2> QED
      BY <2>1, <2>2, <2>4, <2>5 DEF Answers
  <1>11. IsFiniteSet(Owed(c)) /\ n + 1 \notin Owed(c)
    BY <1>5, <1>8, FiniteOwed
  <1>12. Cardinality(Owed(c) \cup {n + 1}) = m + 1
    BY <1>11, FS_AddElement
  <1>13. ASSUME NeedsReply(r) PROVE Answers(c, 2 * m + 1, r)'
    <2>1. Owed(c)' = Owed(c) \cup {n + 1}
      BY <1>9, <1>13
    <2>2. PICK i \in Nat : i = n + 1
      OBVIOUS
    <2>3. Upto(c, i)' = Owed(c)'
      <3>1. \A j \in Owed(c)' : j <= i
        BY <1>8, <2>2
      <3> QED
        BY <3>1 DEF Upto
    <2>4. (2 * m + 1 + 1) \div 2 = m + 1
      OBVIOUS
    <2>5. Cardinality(Upto(c, i)') = (2 * m + 1 + 1) \div 2
      BY <1>12, <2>1, <2>3, <2>4
    <2>6. i \in Owed(c)' /\ r = asked'[c][i]
      BY <1>2, <2>1, <2>2
    <2> QED
      BY <2>5, <2>6 DEF Answers
  <1> QED
    BY <1>9, <1>10, <1>12, <1>13

LEMMA SameOwed ==
    ASSUME NEW c \in Conn, asked'[c] = asked[c]
    PROVE  /\ Owed(c)' = Owed(c) /\ Cardinality(Owed(c))' = Cardinality(Owed(c))
           /\ \A k, q : Answers(c, k, q)' <=> Answers(c, k, q)
  <1>1. Owed(c)' = Owed(c)
    BY DEF Owed
  <1>2. \A i : Upto(c, i)' = Upto(c, i)
    BY <1>1 DEF Upto
  <1> QED
    BY <1>1, <1>2 DEF Answers

LEMMA AlternatesStay ==
    ASSUME NEW c \in Conn, Alternates(c), out'[c] = out[c],
           \A k, q : Answers(c, k, q) => Answers(c, k, q)'
    PROVE  Alternates(c)'
  BY DEF Alternates

\* Thread u has nothing to do with c, or is where it was in its request.
Steady(c, u) ==
    /\ Serving(c, u)' <=> Serving(c, u)
    /\ Serving(c, u) => req'[u] = req[u] /\ (pc'[u] = "sendBody" <=> pc[u] = "sendBody")

LEMMA InTurnStays ==
    ASSUME NEW c \in Conn, InTurn(c), out'[c] = out[c], asked'[c] = asked[c],
           \A u \in Conn : Steady(c, u),
           NoneWaits(c) => NoneWaits(c)', \A r \in Reqs : OneWaits(c, r) => OneWaits(c, r)'
    PROVE  InTurn(c)'
  <1>1. /\ Cardinality(Owed(c))' = Cardinality(Owed(c))
        /\ \A k, q : Answers(c, k, q)' <=> Answers(c, k, q)
    BY SameOwed
  <1>2. \A q : Due(c, q)' <=> Due(c, q)
    BY <1>1 DEF Due
  <1>3. NoneServes(c)' <=> NoneServes(c)
    BY DEF NoneServes, Steady
  <1>4. \A t \in Conn : OneServes(c, t) =>
          /\ OneServes(c, t)' /\ req'[t] = req[t] /\ (pc'[t] = "sendBody" <=> pc[t] = "sendBody")
    BY DEF OneServes, Steady
  <1>5. CASE Quiet(c)
    BY <1>1, <1>3, <1>5 DEF Quiet, InTurn
  <1>6. CASE Waiting(c)
    BY <1>1, <1>2, <1>3, <1>6 DEF Waiting, InTurn
  <1>7. CASE Served(c)
    <2>1. PICK t \in Conn : OneServes(c, t) /\ pc[t] # "sendBody" /\ Due(c, req[t])
      BY <1>7 DEF Served
    <2>2. PICK r : r = req[t]
      OBVIOUS
    <2>3. OneServes(c, t)' /\ pc'[t] # "sendBody" /\ req'[t] = r /\ Due(c, r)'
      BY <1>2, <1>4, <2>1, <2>2
    <2> QED
      BY <1>1, <1>7, <2>3 DEF Served, InTurn
  <1>8. CASE HalfServed(c)
    <2>1. PICK t \in Conn : /\ OneServes(c, t) /\ pc[t] = "sendBody"
                            /\ out[c][Len(out[c])].by = t /\ out[c][Len(out[c])].req = req[t]
      BY <1>8 DEF HalfServed
    <2>2. /\ OneServes(c, t)' /\ pc'[t] = "sendBody"
          /\ out'[c][Len(out'[c])].by = t /\ out'[c][Len(out'[c])].req = req'[t]
      BY <1>4, <2>1
    <2> QED
      BY <1>1, <1>8, <2>2 DEF HalfServed, InTurn
  <1> QED
    BY <1>5, <1>6, <1>7, <1>8 DEF InTurn

\* A client asks for the next thing.
LEMMA AsksInTurn ==
    ASSUME TInv, NEW c \in Conn, Ask(c), Alternates(c), InTurn(c)
    PROVE  Alternates(c)' /\ InTurn(c)'
  <1>1. PICK r \in Requests(c) :
          /\ asked' = [asked EXCEPT ![c] = Append(@, r)]
          /\ inbox' = [inbox EXCEPT ![c] = @ \o <<[half |-> "head", req |-> r]>>
                \o IF HasBody(r) THEN <<[half |-> "body", req |-> r]>> ELSE <<>>]
    BY DEF Ask
  <1>2. r \in Reqs
    BY <1>1, RequestTypes DEF TInv
  <1>3. UNCHANGED <<out, pc, fd, req>> /\ Cardinality(Bodies(c)) >= Cardinality(Owed(c))
    BY DEF Ask, locals
  <1>4. PICK m \in Nat : m = Cardinality(Owed(c))
    BY FiniteOwed
  <1>5. asked'[c] = Append(asked[c], r)
    BY <1>1 DEF TInv, TypedNetwork
  <1>6. /\ \A k, q : Answers(c, k, q) => Answers(c, k, q)'
        /\ ~NeedsReply(r) => Cardinality(Owed(c))' = m
        /\ NeedsReply(r) => Cardinality(Owed(c))' = m + 1 /\ Answers(c, 2 * m + 1, r)'
    BY <1>2, <1>4, <1>5, OweMore
  <1>7. Alternates(c)'
    BY <1>3, <1>6, AlternatesStay
  <1>8. Len(out[c]) \in Nat /\ Cardinality(Bodies(c)) = Len(out[c]) \div 2
    BY HalfAreBodies, LenProperties DEF TInv, TypedNetwork
  <1>9. Len(out[c]) = 2 * m /\ Quiet(c)
    <2>1. PICK l \in Nat : l = Len(out[c])
      BY <1>8
    <2>2. l \div 2 >= m
      BY <1>3, <1>4, <1>8, <2>1
    <2>3. l = 2 * m \/ l + 2 = 2 * m \/ l + 1 = 2 * m
      BY <1>4, <2>1 DEF InTurn, Quiet, Waiting, Served, HalfServed
    <2>4. l = 2 * m /\ l + 2 # 2 * m /\ l + 1 # 2 * m
      BY <2>2, <2>3
    <2> QED
      BY <1>4, <2>1, <2>4 DEF InTurn, Waiting, Served, HalfServed
  <1>10. NoneWaits(c) /\ NoneServes(c)'
    BY <1>3, <1>9 DEF Quiet, NoneServes, Serving, Busy
  <1>11. PICK n \in Nat : n = Len(inbox[c]) /\ DOMAIN inbox[c] = 1..n
    BY LenProperties DEF TInv, TypedNetwork
  <1>12. /\ \A k \in 1..n : inbox'[c][k] = inbox[c][k]
         /\ inbox'[c][n + 1] = [half |-> "head", req |-> r]
         /\ HasBody(r) => inbox'[c][n + 2] = [half |-> "body", req |-> r]
         /\ DOMAIN inbox'[c] = IF HasBody(r) THEN 1..(n + 2) ELSE 1..(n + 1)
    <2>1. PICK parts, longer : parts = inbox[c] /\ longer = inbox'[c]
      OBVIOUS
    <2>2. /\ parts \in Seq(InParts)
          /\ longer = (parts \o <<[half |-> "head", req |-> r]>>)
                      \o IF HasBody(r) THEN <<[half |-> "body", req |-> r]>> ELSE <<>>
      BY <1>1, <2>1 DEF TInv, TypedNetwork
    <2>3. longer \in Seq(InParts)
      BY <1>2, <2>2, AskedParts
    <2>4. /\ Len(longer) = Len(parts) + IF HasBody(r) THEN 2 ELSE 1
          /\ \A k \in 1..Len(parts) : longer[k] = parts[k]
          /\ longer[Len(parts) + 1] = [half |-> "head", req |-> r]
      BY <1>2, <2>2, AskedParts
    <2>5. HasBody(r) => longer[Len(parts) + 2] = [half |-> "body", req |-> r]
      BY <1>2, <2>2, AskedParts
    <2>6. DOMAIN longer = 1..Len(longer)
      BY <2>3, LenProperties
    <2> QED
      BY <1>11, <2>1, <2>4, <2>5, <2>6
  <1>13. \A k \in DOMAIN inbox'[c] : k \in 1..n \/ k = n + 1 \/ (HasBody(r) /\ k = n + 2)
    BY <1>12
  <1>14. \A k \in DOMAIN inbox'[c] : OwedAt(c, k)' <=> k = n + 1 /\ NeedsReply(r)
    <2> SUFFICES ASSUME NEW k \in DOMAIN inbox'[c]
                 PROVE  OwedAt(c, k)' <=> k = n + 1 /\ NeedsReply(r)
      OBVIOUS
    <2>1. CASE k \in 1..n
      <3>1. ~OwedAt(c, k) /\ k # n + 1
        BY <1>10, <1>11, <2>1 DEF NoneWaits
      <3> QED
        BY <1>12, <2>1, <3>1 DEF OwedAt
    <2>2. CASE k = n + 1
      BY <1>12, <2>2 DEF OwedAt
    <2>3. CASE HasBody(r) /\ k = n + 2
      BY <1>12, <2>3 DEF OwedAt
    <2> QED
      BY <1>13, <2>1, <2>2, <2>3
  <1>15. CASE ~NeedsReply(r)
    <2>1. NoneWaits(c)'
      BY <1>14, <1>15 DEF NoneWaits
    <2> QED
      BY <1>3, <1>6, <1>7, <1>9, <1>10, <1>15, <2>1 DEF InTurn, Quiet
  <1>16. CASE NeedsReply(r)
    <2>1. n + 1 \in DOMAIN inbox'[c] /\ inbox'[c][n + 1].req = r
      BY <1>12
    <2>2. OneWaits(c, r)'
      BY <1>14, <1>16, <2>1 DEF OneWaits
    <2>3. Due(c, r)'
      BY <1>3, <1>6, <1>9, <1>16 DEF Due
    <2>4. Len(out'[c]) + 2 = 2 * Cardinality(Owed(c)')
      BY <1>3, <1>6, <1>9, <1>16
    <2> QED
      BY <1>2, <1>7, <1>10, <2>2, <2>3, <2>4 DEF InTurn, Waiting
  <1> QED
    BY <1>15, <1>16

\* The first part of a stream that is not owed an answer is taken.
LEMMA StreamMoves ==
    ASSUME TInv, NEW c \in Conn, inbox[c] # <<>>, inbox' = [inbox EXCEPT ![c] = Tail(@)], ~OwedAt(c, 1)
    PROVE  /\ NoneWaits(c) => NoneWaits(c)'
           /\ \A r \in Reqs : OneWaits(c, r) => OneWaits(c, r)'
  <1>1. /\ 1 \in DOMAIN inbox[c] /\ DOMAIN inbox'[c] = 1..Len(inbox[c]) - 1
        /\ Len(inbox[c]) \in Nat \ {0}
        /\ \A k \in 1..Len(inbox[c]) - 1 : inbox'[c][k] = inbox[c][k + 1]
    BY Taken DEF TInv
  <1>2. DOMAIN inbox[c] = 1..Len(inbox[c])
    BY LenProperties DEF TInv, TypedNetwork
  <1>3. PICK n \in Nat \ {0} : n = Len(inbox[c])
    BY <1>1
  <1>4. \A k \in 1..n - 1 : k + 1 \in 1..n /\ (OwedAt(c, k)' <=> OwedAt(c, k + 1))
    BY <1>1, <1>3 DEF OwedAt
  <1>5. NoneWaits(c) => NoneWaits(c)'
    BY <1>1, <1>2, <1>3, <1>4 DEF NoneWaits
  <1>6. ASSUME NEW r \in Reqs, OneWaits(c, r) PROVE OneWaits(c, r)'
    <2>1. PICK k \in 1..n : inbox[c][k].req = r /\ \A j \in 1..n : OwedAt(c, j) <=> j = k
      BY <1>2, <1>3, <1>6 DEF OneWaits
    <2>2. k # 1
      BY <1>1, <1>2, <1>3, <2>1
    <2>3. PICK i \in 1..n - 1 : k = i + 1
      BY <2>2
    <2>4. inbox'[c][i].req = r
      BY <1>1, <1>3, <2>1, <2>3
    <2>5. \A j \in 1..n - 1 : OwedAt(c, j)' <=> j = i
      BY <1>4, <2>1, <2>3
    <2> QED
      BY <1>1, <1>3, <2>4, <2>5 DEF OneWaits
  <1> QED
    BY <1>5, <1>6

\* What a thread does that receives.
LEMMA WhatIsReceived ==
    ASSUME TInv, Serves, NEW t \in Conn, RecvHead(t) \/ RecvBody(t), fault = "none", fault' = "none"
    PROVE  /\ fd[t] \in Conn /\ inbox[fd[t]] # <<>> /\ inbox' = [inbox EXCEPT ![fd[t]] = Tail(@)]
           /\ UNCHANGED <<fd, out>> /\ Busy(t)' /\ pc'[t] # "sendBody"
           /\ \/ pc[t] = "head" /\ inbox[fd[t]][1].half = "head" /\ req'[t] = inbox[fd[t]][1].req
              \/ pc[t] = "body" /\ inbox[fd[t]][1].half = "body" /\ req'[t] = req[t]
  <1>1. /\ pc \in [Conn -> Step \cup {"unborn"}] /\ fd \in [Conn -> {NoFd} \cup Conn]
        /\ req \in [Conn -> Reqs] /\ TypedNetwork
    BY DEF TInv, IInv, StartedInOrder, TypedThreads
  <1>2. PICK c : c = fd[t]
    OBVIOUS
  <1>3. /\ inbox[c] # <<>> /\ inbox' = [inbox EXCEPT ![c] = Tail(@)] /\ UNCHANGED <<fd, out>>
    BY <1>2 DEF RecvHead, RecvBody, locals
  <1>4. c \in Conn
    <2>1. fd[t] # NoFd
      BY DEF RecvHead, RecvBody, Serves
    <2> QED
      BY <1>1, <1>2, <2>1
  <1>5. Head(inbox[c]) = inbox[c][1] /\ inbox[c][1] \in InParts
    BY <1>1, <1>3, <1>4, Taken
  <1>6. ASSUME NEW what, Break(what) PROVE what = "none"
    BY <1>6 DEF Break
  <1>7. ASSUME NEW r, Dispatch(t, r) PROVE Busy(t)' /\ pc'[t] # "sendBody"
    <2>1. Goto(t, FirstStep(r))
      BY <1>6, <1>7 DEF Dispatch
    <2>2. FirstStep(r) \notin {"unborn", "loop", "head", "sendBody"}
      BY DEF FirstStep
    <2> QED
      BY <1>1, <2>1, <2>2 DEF Goto, Busy
  <1>8. CASE RecvHead(t)
    <2>1. /\ pc[t] = "head" /\ req' = [req EXCEPT ![t] = inbox[c][1].req] /\ inbox[c][1].half # "body"
          /\ Goto(t, "body") \/ Dispatch(t, inbox[c][1].req)
      BY <1>2, <1>5, <1>6, <1>8 DEF RecvHead
    <2>2. Busy(t)' /\ pc'[t] # "sendBody"
      BY <1>1, <1>7, <2>1 DEF Goto, Busy
    <2>3. inbox[c][1].half = "head" /\ req'[t] = inbox[c][1].req
      BY <1>1, <1>5, <2>1 DEF InParts
    <2> QED
      BY <1>2, <1>3, <1>4, <2>1, <2>2, <2>3
  <1>9. CASE RecvBody(t)
    <2>1. /\ pc[t] = "body" /\ req' = req /\ inbox[c][1] = [half |-> "body", req |-> req[t]]
          /\ Dispatch(t, req[t])
      BY <1>2, <1>5, <1>6, <1>9 DEF RecvBody, locals
    <2> QED
      BY <1>2, <1>3, <1>4, <1>7, <2>1
  <1> QED
    BY <1>8, <1>9

LEMMA ReceivesInTurn ==
    ASSUME TInv, Serves, NEW t \in Conn, newThreadHandler(t), RecvHead(t) \/ RecvBody(t),
           fault = "none", fault' = "none", NEW c \in Conn, InTurn(c)
    PROVE  InTurn(c)'
  <1>1. /\ fd[t] \in Conn /\ inbox[fd[t]] # <<>> /\ inbox' = [inbox EXCEPT ![fd[t]] = Tail(@)]
        /\ UNCHANGED <<fd, out>> /\ Busy(t)' /\ pc'[t] # "sendBody"
        /\ \/ pc[t] = "head" /\ inbox[fd[t]][1].half = "head" /\ req'[t] = inbox[fd[t]][1].req
           \/ pc[t] = "body" /\ inbox[fd[t]][1].half = "body" /\ req'[t] = req[t]
    BY WhatIsReceived
  <1>2. UNCHANGED asked
    BY DEF newThreadHandler, clients
  <1>3. \A u \in Conn : u # t => Steady(c, u)
    BY <1>1, OnlyItsOwn DEF Steady, Serving, Busy
  <1>4. CASE fd[t] # c
    <2>1. inbox'[c] = inbox[c]
      BY <1>1, <1>4 DEF TInv, TypedNetwork
    <2>2. Steady(c, t)
      BY <1>1, <1>4 DEF Steady, Serving
    <2>3. (NoneWaits(c) => NoneWaits(c)') /\ \A r \in Reqs : OneWaits(c, r) => OneWaits(c, r)'
      BY <2>1 DEF NoneWaits, OneWaits, OwedAt
    <2> QED
      BY <1>1, <1>2, <1>3, <2>2, <2>3, InTurnStays
  <1>5. CASE fd[t] = c /\ ~OwedAt(c, 1)
    <2>1. (NoneWaits(c) => NoneWaits(c)') /\ \A r \in Reqs : OneWaits(c, r) => OneWaits(c, r)'
      BY <1>1, <1>5, StreamMoves
    <2>2. Steady(c, t)
      <3>1. CASE pc[t] = "head"
        <4>1. ~Serving(c, t) /\ ~NeedsReply(req'[t])
          BY <1>1, <1>5, <3>1 DEF Serving, Busy, OwedAt
        <4> QED
          BY <4>1 DEF Steady, Serving
      <3>2. CASE pc[t] = "body"
        BY <1>1, <3>2 DEF Steady, Serving, Busy
      <3> QED
        BY <1>1, <3>1, <3>2
    <2> QED
      BY <1>1, <1>2, <1>3, <2>1, <2>2, InTurnStays
  <1>6. CASE fd[t] = c /\ OwedAt(c, 1)
    <2>1. pc[t] = "head" /\ req'[t] = inbox[c][1].req /\ NeedsReply(req'[t])
      BY <1>1, <1>6 DEF OwedAt
    <2>2. /\ 1 \in DOMAIN inbox[c] /\ DOMAIN inbox'[c] = 1..Len(inbox[c]) - 1
          /\ DOMAIN inbox[c] = 1..Len(inbox[c]) /\ Len(inbox[c]) \in Nat \ {0}
          /\ \A k \in 1..Len(inbox[c]) - 1 : inbox'[c][k] = inbox[c][k + 1]
      BY <1>1, <1>6, Taken, LenProperties DEF TInv, TypedNetwork
    <2>3. Waiting(c)
      BY <1>6, <2>2 DEF InTurn, Quiet, Served, HalfServed, NoneWaits
    <2>4. PICK r \in Reqs : OneWaits(c, r) /\ Due(c, r)
      BY <2>3 DEF Waiting
    <2>5. PICK k \in DOMAIN inbox[c] : /\ inbox[c][k].req = r
                                       /\ \A j \in DOMAIN inbox[c] : OwedAt(c, j) <=> j = k
      BY <2>4 DEF OneWaits
    <2>6. k = 1 /\ r = req'[t]
      BY <1>6, <2>1, <2>2, <2>5
    <2>7. PICK n \in Nat \ {0} : n = Len(inbox[c])
      BY <2>2
    <2>8. NoneWaits(c)'
      <3>1. ASSUME NEW j \in 1..n - 1 PROVE ~OwedAt(c, j)'
        <4>1. j + 1 \in 1..n /\ j + 1 # 1
          BY <2>7
        <4>2. ~OwedAt(c, j + 1)
          BY <2>2, <2>5, <2>6, <2>7, <4>1
        <4> QED
          BY <2>2, <2>7, <4>2 DEF OwedAt
      <3> QED
        BY <2>2, <2>7, <3>1 DEF NoneWaits
    <2>9. OneServes(c, t)'
      <3>1. Serving(c, t)'
        BY <1>1, <1>6, <2>1 DEF Serving
      <3>2. \A u \in Conn : u # t => ~Serving(c, u)'
        BY <1>3, <2>3 DEF Waiting, NoneServes, Steady
      <3> QED
        BY <3>1, <3>2 DEF OneServes
    <2>10. Due(c, r)' /\ Cardinality(Owed(c))' = Cardinality(Owed(c))
      BY <1>1, <1>2, <2>4, SameOwed DEF Due
    <2>11. Len(out'[c]) + 2 = 2 * Cardinality(Owed(c)')
      BY <1>1, <2>3, <2>10 DEF Waiting
    <2>12. Served(c)'
      BY <1>1, <2>6, <2>8, <2>9, <2>10, <2>11 DEF Served
    <2> QED
      BY <2>12 DEF InTurn
  <1> QED
    BY <1>4, <1>5, <1>6

\* What has been sent before still answers the same requests.
LEMMA AnswerStays ==
    ASSUME TInv, NEW t \in Conn, newThreadHandler(t), NEW c \in Conn
    PROVE  /\ UNCHANGED <<asked, gone>> /\ Cardinality(Owed(c))' = Cardinality(Owed(c))
           /\ \A k, q : Answers(c, k, q)' <=> Answers(c, k, q)
  BY SameOwed DEF newThreadHandler, clients

\* The header of an answer is sent, or its body.
LEMMA SendsInTurn ==
    ASSUME TInv, Undamaged, NEW t \in Conn, newThreadHandler(t), SentReply(t), NEW c \in Conn, c = fd[t],
           UNCHANGED <<fd, req, inbox>>, Alternates(c), InTurn(c)
    PROVE  Alternates(c)' /\ InTurn(c)'
  <1>1. PICK part :
          /\ Sends(t, c, part)
          /\ \/ pc[t] = "sendHead" /\ pc' = [pc EXCEPT ![t] = "sendBody"] /\ part.half = "head"
             \/ pc[t] = "sendBody" /\ pc' = [pc EXCEPT ![t] = "loop"] /\ part.half = "body"
    BY DEF SentReply
  <1>2. /\ DOMAIN out[c] = 1..Len(out[c]) /\ Len(out[c]) \in Nat
        /\ Len(out'[c]) = Len(out[c]) + 1 /\ DOMAIN out'[c] = 1..(Len(out[c]) + 1)
        /\ out'[c][Len(out[c]) + 1] = part
        /\ \A k \in 1..Len(out[c]) : out'[c][k] = out[c][k]
        /\ part.by = t /\ part.req = req[t]
    <2>1. part.by = t /\ part.req = req[t]
      BY <1>1 DEF Sends
    <2> QED
      BY <1>1, <2>1, LastSent
  <1>3. PICK l \in Nat : l = Len(out[c])
    BY <1>2
  <1>4. PICK m \in Nat : m = Cardinality(Owed(c))
    BY FiniteOwed
  <1>5. pc \in [Conn -> Step \cup {"unborn"}]
    BY DEF TInv, IInv, StartedInOrder
  <1>6. Serving(c, t)
    BY <1>1 DEF Serving, Busy, Undamaged, StepFits, NeedsReply
  <1>7. /\ Cardinality(Owed(c))' = m
        /\ \A k, q : Answers(c, k, q)' <=> Answers(c, k, q)
    BY <1>4, AnswerStays
  <1>8. NoneWaits(c)' <=> NoneWaits(c)
    BY DEF NoneWaits, OwedAt
  <1>9. \A u \in Conn : u # t => (Serving(c, u)' <=> Serving(c, u))
    BY <1>1, <1>5 DEF Serving, Busy
  <1>10. PICK r : r = req[t]
    OBVIOUS
  <1>11. ASSUME part.half = IF (l + 1) % 2 = 1 THEN "head" ELSE "body",
                (l + 1) % 2 = 0 => part.by = out[c][l].by /\ l \in 1..l,
                Answers(c, l + 1, r)
         PROVE  Alternates(c)'
    <2>1. \A k \in 1..(l + 1) : k \in 1..l \/ k = l + 1
      OBVIOUS
    <2>2. ASSUME NEW k \in 1..(l + 1)
          PROVE  /\ out'[c][k].half = IF k % 2 = 1 THEN "head" ELSE "body"
                 /\ k % 2 = 0 => out'[c][k].by = out'[c][k - 1].by
                 /\ \A q : q = out'[c][k].req => Answers(c, k, q)'
      <3>1. CASE k = l + 1
        <4>1. out'[c][k] = part /\ k - 1 = l /\ part.req = r
          BY <1>2, <1>3, <1>10, <3>1
        <4>2. k % 2 = 0 => out'[c][k - 1] = out[c][l]
          BY <1>2, <1>3, <1>11, <3>1, <4>1
        <4> QED
          BY <1>7, <1>11, <3>1, <4>1, <4>2
      <3>2. CASE k \in 1..l
        <4>1. out'[c][k] = out[c][k]
          BY <1>2, <1>3, <3>2
        <4>2. k % 2 = 0 => k - 1 \in 1..l
          BY <3>2
        <4>3. k % 2 = 0 => out'[c][k - 1] = out[c][k - 1]
          BY <1>2, <1>3, <4>2
        <4>4. /\ out[c][k].half = IF k % 2 = 1 THEN "head" ELSE "body"
              /\ k % 2 = 0 => out[c][k].by = out[c][k - 1].by
              /\ Answers(c, k, out[c][k].req)
          BY <1>2, <1>3, <3>2 DEF Alternates
        <4> QED
          BY <1>7, <4>1, <4>3, <4>4
      <3> QED
        BY <2>1, <3>1, <3>2
    <2> QED
      BY <1>2, <1>3, <2>2 DEF Alternates
  <1>12. CASE pc[t] = "sendHead"
    <2>1. Served(c)
      BY <1>6, <1>12 DEF InTurn, Quiet, Waiting, HalfServed, NoneServes, OneServes
    <2>2. l + 2 = 2 * m /\ NoneWaits(c) /\ OneServes(c, t) /\ Due(c, r)
      BY <1>3, <1>4, <1>6, <1>10, <2>1 DEF Served, OneServes
    <2>3. part.half = "head" /\ pc'[t] = "sendBody"
      BY <1>1, <1>5, <1>12
    <2>4. (l + 1) % 2 = 1
      BY <2>2
    <2>5. Alternates(c)'
      <3>1. Answers(c, l + 1, r)
        BY <1>3, <2>2 DEF Due
      <3>2. (l + 1) % 2 # 0
        BY <2>4
      <3>3. part.half = IF (l + 1) % 2 = 1 THEN "head" ELSE "body"
        BY <2>3, <2>4
      <3> QED
        BY <1>11, <3>1, <3>2, <3>3
    <2>6. OneServes(c, t)'
      BY <1>6, <1>9, <2>2, <2>3 DEF OneServes, Serving, Busy
    <2>7. HalfServed(c)'
      <3>1. Len(out'[c]) + 1 = 2 * Cardinality(Owed(c)')
        BY <1>2, <1>3, <1>7, <2>2
      <3>2. out'[c][Len(out'[c])].by = t /\ out'[c][Len(out'[c])].req = req'[t]
        BY <1>2
      <3> QED
        BY <1>8, <2>2, <2>3, <2>6, <3>1, <3>2 DEF HalfServed
    <2> QED
      BY <2>5, <2>7 DEF InTurn
  <1>13. CASE pc[t] = "sendBody"
    <2>1. HalfServed(c)
      BY <1>6, <1>13 DEF InTurn, Quiet, Waiting, Served, NoneServes, OneServes
    <2>2. /\ l + 1 = 2 * m /\ NoneWaits(c) /\ OneServes(c, t)
          /\ out[c][l].by = t /\ out[c][l].req = r
      BY <1>3, <1>4, <1>6, <1>10, <2>1 DEF HalfServed, OneServes
    <2>3. part.half = "body" /\ pc'[t] = "loop"
      BY <1>1, <1>5, <1>13
    <2>4. (l + 1) % 2 = 0 /\ l \in 1..l /\ (l + 1) \div 2 = m /\ (l + 1 + 1) \div 2 = m
      BY <2>2
    <2>5. Answers(c, l, r)
      BY <1>2, <1>3, <2>2, <2>4 DEF Alternates
    <2>6. Answers(c, l + 1, r)
      BY <2>4, <2>5 DEF Answers
    <2>7. Alternates(c)'
      BY <1>2, <1>11, <2>2, <2>3, <2>4, <2>6
    <2>8. NoneServes(c)'
      BY <1>9, <2>2, <2>3 DEF OneServes, NoneServes, Serving, Busy
    <2>9. Quiet(c)'
      <3>1. Len(out'[c]) = 2 * Cardinality(Owed(c)')
        BY <1>2, <1>3, <1>7, <2>2
      <3> QED
        BY <1>8, <2>2, <2>8, <3>1 DEF Quiet
    <2> QED
      BY <2>7, <2>9 DEF InTurn
  <1> QED
    BY <1>1, <1>12, <1>13

\* An answer is not sent only if the client has left.
LEMMA SentUnlessGone ==
    ASSUME TInv, NEW t \in Conn, SendHead(t) \/ SendBody(t), out' = out
    PROVE  fd[t] \notin Conn \ gone
  <1>1. InHead(t) \in Nat /\ Id(t) \in Nat
    BY NumbersSent DEF TInv, TypedThreads
  <1>2. PICK c : c = fd[t]
    OBVIOUS
  <1>3. ASSUME NEW part, Sends(t, c, part) PROVE FALSE
    <2>1. Len(out'[c]) = Len(out[c]) + 1 /\ Len(out[c]) \in Nat
      BY <1>3, LastSent
    <2> QED
      BY <2>1
  <1>4. CASE SendHead(t)
    <2>1. SendTo(c, t, "reply", "head", InHead(t), "sendBody")
      BY <1>2, <1>4 DEF SendHead, ReplyTo
    <2> QED
      BY <1>1, <1>2, <1>3, <2>1, PartSent
  <1>5. CASE SendBody(t)
    <2>1. SendTo(c, t, "reply", "body", Id(t), "loop")
      BY <1>2, <1>5 DEF SendBody, ReplyTo
    <2> QED
      BY <1>1, <1>2, <1>3, <2>1, PartSent
  <1> QED
    BY <1>4, <1>5

\* A thread that neither receives nor sends an answer.
LEMMA WorksSteadily ==
    ASSUME TInv, Undamaged, NEW t \in Conn, newThreadHandler(t), fault = "none", fault' = "none",
           ~(RecvHead(t) \/ RecvBody(t) \/ SendHead(t) \/ SendBody(t)), NEW c \in Conn
    PROVE  Steady(c, t) /\ UNCHANGED inbox
  <1>1. pc \in [Conn -> Step \cup {"unborn"}] /\ StepFits(t)
    BY DEF TInv, IInv, StartedInOrder, Undamaged
  <1>2. ASSUME NEW what, Break(what) PROVE what = "none"
    BY <1>2 DEF Break
  <1>3. CASE ReadSlot(t) \/ RecvFails(t) \/ ReadsFreed(t)
    <2>1. pc[t] = "loop" /\ pc'[t] = "head" /\ UNCHANGED inbox
      BY <1>1, <1>2, <1>3 DEF ReadSlot, RecvFails, ReadsFreed, Goto
    <2> QED
      BY <2>1 DEF Steady, Serving, Busy
  <1>4. CASE HandleAppend(t)
    <2>1. /\ UNCHANGED <<fd, req, inbox>>
          /\ pc[t] \in Appending /\ pc'[t] \in Appending \cup {"sendHead"}
      BY <1>1, <1>2, <1>4
         DEF HandleAppend, LoadCount, StoreCount, Grow, Publish, Put, Number, locals, Goto, Appending
    <2> QED
      BY <2>1 DEF Steady, Serving, Busy, Appending
  <1>5. CASE Lookup(t) \/ Enter(t) \/ CollectRooms(t) \/ CollectUsers(t)
    <2>1. UNCHANGED <<fd, req, inbox>> /\ pc[t] \in {"lookup", "enter", "collect"}
      BY <1>5 DEF Lookup, Enter, CollectRooms, CollectUsers, locals
    <2>2. pc'[t] \in {"enter", "sendHead"}
      <3>1. CASE Lookup(t) \/ Enter(t) \/ CollectRooms(t)
        BY <1>1, <1>2, <3>1 DEF Lookup, Enter, CollectRooms, Goto
      <3>2. CASE CollectUsers(t)
        BY <1>1, <1>2, <3>2 DEF CollectUsers, Goto
      <3> QED
        BY <1>5, <3>1, <3>2
    <2> QED
      BY <2>1, <2>2 DEF Steady, Serving, Busy
  <1>6. CASE Find(t) \/ EachUser(t) \/ EventHead(t) \/ EventBody(t)
    <2>1. UNCHANGED <<fd, req, inbox>> /\ pc[t] \in {"find", "each", "eventHead", "eventBody"}
      BY <1>6 DEF Find, EachUser, EventHead, EventBody, locals
    <2>2. ~NeedsReply(req[t]) /\ ~NeedsReply(req'[t])
      BY <1>1, <2>1 DEF StepFits, NeedsReply
    <2> QED
      BY <2>1, <2>2 DEF Steady, Serving
  <1> QED
    BY <1>3, <1>4, <1>5, <1>6 DEF newThreadHandler

\* main() starts threads that have not been anywhere.
LEMMA StartsSteadily ==
    ASSUME TInv, Undamaged, MainStep(Accept) \/ MainStep(AcceptFails) \/ MainStep(Register),
           NEW c \in Conn, NEW u \in Conn
    PROVE  Steady(c, u) /\ UNCHANGED <<out, inbox, asked, gone>>
  <1>1. UNCHANGED <<out, inbox, asked, gone, fd, req>>
    BY DEF MainStep, locals, clients
  <1>2. CASE pc'[u] = pc[u]
    BY <1>1, <1>2 DEF Steady, Serving, Busy
  <1>3. CASE pc'[u] # pc[u]
    <2>1. Start
      BY <1>3 DEF MainStep, Accept, AcceptFails, Register, AddUser, PutUser, CopyRooms, GrowRooms
    <2>2. pc' = [pc EXCEPT ![accepted] = "loop"] /\ main = "start"
      BY <1>3, <2>1 DEF Start, TInv, IInv, SlotIsNewest
    <2>3. u = accepted /\ pc[u] = "unborn" /\ pc'[u] = "loop"
      BY <1>3, <2>2 DEF TInv, IInv, StartedInOrder, Undamaged, NewestWaits
    <2> QED
      BY <1>1, <2>3 DEF Steady, Serving, Busy
  <1> QED
    BY <1>1, <1>2, <1>3

\* Whoever gets an event is not calm any more.
LEMMA EventsGoElsewhere ==
    ASSUME TInv, NEW t \in Conn, SentEvent(t), NEW c \in Conn, Calm(c)'
    PROVE  out'[c] = out[c]
  <1>1. PICK d, part : Sends(t, d, part) /\ part.kind = "event"
    BY DEF SentEvent
  <1>2. d # c
    <2>1. SUFFICES ASSUME d = c PROVE FALSE
      OBVIOUS
    <2>2. PICK n \in Nat : n = Len(out[c]) + 1
      BY <1>1, <2>1, LastSent
    <2>3. n \in DOMAIN out'[c] /\ out'[c][n].kind = "event"
      BY <1>1, <2>1, <2>2, LastSent
    <2>4. n \in Parts(c, "event")'
      BY <2>3 DEF Parts
    <2> QED
      BY <2>4 DEF Calm
  <1> QED
    BY <1>1, <1>2, LastSent

LEMMA CalmBefore ==
    ASSUME TInv, [Next]_vars, NEW c \in Conn, Calm(c)'
    PROVE  Calm(c)
  BY HistoryGrows DEF Calm, Parts

\* A thread's step, as far as c is concerned.
LEMMA TurnRInv ==
    ASSUME TInv, Serves, fault = "none", Undamaged, [Next]_vars, NEW t \in Conn, newThreadHandler(t),
           NEW c \in Conn, Calm(c)', Alternates(c), c \notin gone => InTurn(c)
    PROVE  Alternates(c)' /\ (fault' = "none" /\ c \notin gone => InTurn(c)')
  <1>1. /\ UNCHANGED <<asked, gone>>
        /\ \A k, q : Answers(c, k, q) => Answers(c, k, q)'
    BY AnswerStays
  <1>2. ASSUME out'[c] = out[c] PROVE Alternates(c)'
    BY <1>1, <1>2, AlternatesStay
  <1>3. \A u \in Conn : u # t => Steady(c, u)
    BY OnlyItsOwn DEF Steady, Serving, Busy
  <1>4. ASSUME out'[c] = out[c], UNCHANGED inbox, Steady(c, t), c \notin gone PROVE InTurn(c)'
    <2>1. (NoneWaits(c) => NoneWaits(c)') /\ \A r \in Reqs : OneWaits(c, r) => OneWaits(c, r)'
      BY <1>4 DEF NoneWaits, OneWaits, OwedAt
    <2> QED
      BY <1>1, <1>3, <1>4, <2>1, InTurnStays
  <1>5. CASE SentReply(t) /\ UNCHANGED <<req, fd, inbox>>
    <2>1. CASE c = fd[t]
      <3>1. c \notin gone
        BY <1>5, <2>1 DEF SentReply, Sends
      <3> QED
        BY <1>5, <2>1, <3>1, SendsInTurn
    <2>2. CASE c # fd[t]
      <3>1. out'[c] = out[c]
        BY <1>5, <2>2, LastSent DEF SentReply
      <3>2. Steady(c, t)
        BY <1>5, <2>2 DEF Steady, Serving
      <3> QED
        BY <1>2, <1>4, <1>5, <3>1, <3>2
    <2> QED
      BY <2>1, <2>2
  <1>6. CASE SentEvent(t) /\ UNCHANGED <<req, fd, inbox>>
    <2>1. out'[c] = out[c]
      BY <1>6, EventsGoElsewhere
    <2>2. Steady(c, t)
      <3>1. pc[t] \in {"eventHead", "eventBody"}
        BY <1>6 DEF SentEvent
      <3>2. ~NeedsReply(req[t]) /\ ~NeedsReply(req'[t])
        BY <1>6, <3>1 DEF Undamaged, StepFits, NeedsReply
      <3> QED
        BY <3>2 DEF Steady, Serving
    <2> QED
      BY <1>2, <1>4, <1>6, <2>1, <2>2
  <1>7. CASE out' = out
    <2> SUFFICES ASSUME fault' = "none", c \notin gone PROVE InTurn(c)'
      BY <1>2, <1>7
    <2>1. CASE RecvHead(t) \/ RecvBody(t)
      BY <2>1, ReceivesInTurn
    <2>2. CASE SendHead(t) \/ SendBody(t)
      <3>1. fd[t] # c
        BY <1>7, <2>2, SentUnlessGone
      <3>2. UNCHANGED <<fd, req, inbox>>
        BY <2>2 DEF SendHead, SendBody, locals
      <3>3. Steady(c, t)
        BY <3>1, <3>2 DEF Steady, Serving
      <3> QED
        BY <1>4, <1>7, <3>2, <3>3
    <2>3. CASE ~(RecvHead(t) \/ RecvBody(t) \/ SendHead(t) \/ SendBody(t))
      BY <1>4, <1>7, <2>3, WorksSteadily
    <2> QED
      BY <2>1, <2>2, <2>3
  <1> QED
    BY <1>5, <1>6, <1>7, RepliesAndEvents

LEMMA NextRInv == TInv /\ Serves /\ DInv /\ RInv /\ [Next]_vars => RInv'
  <1> SUFFICES ASSUME TInv, Serves, DInv, RInv, [Next]_vars, NEW c \in Conn, Calm(c)'
               PROVE  Alternates(c)' /\ (fault' = "none" /\ c \notin gone' => InTurn(c)')
    BY DEF RInv
  <1>1. Alternates(c) /\ (fault = "none" /\ c \notin gone => InTurn(c))
    BY CalmBefore DEF RInv
  <1>2. gone \subseteq gone'
    BY HistoryGrows
  <1>3. ASSUME out'[c] = out[c], asked'[c] = asked[c], inbox'[c] = inbox[c], fault' = fault,
               \A u \in Conn : Steady(c, u)
        PROVE  Alternates(c)' /\ (fault' = "none" /\ c \notin gone' => InTurn(c)')
    <2>1. Alternates(c)'
      BY <1>1, <1>3, AlternatesStay, SameOwed
    <2>2. (NoneWaits(c) => NoneWaits(c)') /\ \A r \in Reqs : OneWaits(c, r) => OneWaits(c, r)'
      BY <1>3 DEF NoneWaits, OneWaits, OwedAt
    <2>3. InTurn(c) => InTurn(c)'
      BY <1>3, <2>2, InTurnStays
    <2> QED
      BY <1>1, <1>2, <1>3, <2>1, <2>3
  <1>4. ASSUME UNCHANGED <<pc, fd, req>> PROVE \A u \in Conn : Steady(c, u)
    BY <1>4 DEF Steady, Serving, Busy
  <1>5. CASE UNCHANGED vars
    BY <1>3, <1>4, <1>5 DEF vars, clients, locals
  <1>6. CASE fault = "none" /\ (MainStep(Accept) \/ MainStep(AcceptFails) \/ MainStep(Register))
    <2>1. Undamaged /\ UNCHANGED fault
      BY <1>6 DEF DInv, MainStep
    <2> QED
      BY <1>3, <1>6, <2>1, StartsSteadily
  <1>7. CASE fault = "none" /\ \E d \in Conn : Leave(d)
    BY <1>3, <1>4, <1>7 DEF Leave, locals
  <1>8. CASE fault = "none" /\ \E d \in Conn : Ask(d)
    <2>1. PICK d \in Conn : Ask(d)
      BY <1>8
    <2>2. CASE d = c
      <3>1. c \notin gone
        BY <2>1, <2>2 DEF Ask
      <3> QED
        BY <1>1, <1>8, <2>1, <2>2, <3>1, AsksInTurn
    <2>3. CASE d # c
      <3>1. /\ UNCHANGED <<pc, fd, req, out, fault>>
            /\ asked'[c] = asked[c] /\ inbox'[c] = inbox[c]
        BY <2>1, <2>3 DEF Ask, locals, TInv, TypedNetwork
      <3> QED
        BY <1>3, <1>4, <3>1
    <2> QED
      BY <2>2, <2>3
  <1>9. CASE fault = "none" /\ \E t \in Conn : newThreadHandler(t)
    <2>1. Undamaged
      BY <1>9 DEF DInv
    <2>2. UNCHANGED gone
      BY <1>9, AnswerStays
    <2> QED
      BY <1>1, <1>9, <2>1, <2>2, TurnRInv
  <1> QED
    BY <1>5, <1>6, <1>7, <1>8, <1>9 DEF Next

LEMMA InitRInv == Init => RInv
  <1> SUFFICES ASSUME Init, NEW c \in Conn PROVE Alternates(c) /\ InTurn(c)
    BY DEF RInv
  <1>1. out[c] = <<>> /\ inbox[c] = <<>> /\ asked[c] = <<>> /\ \A t \in Conn : pc[t] = "unborn"
    BY DEF Init
  <1>2. DOMAIN out[c] = {} /\ DOMAIN inbox[c] = {} /\ DOMAIN asked[c] = {} /\ Len(out[c]) = 0
    BY <1>1
  <1>3. Cardinality(Owed(c)) = 0
    BY <1>2, FS_EmptySet DEF Owed
  <1>4. Quiet(c)
    BY <1>1, <1>2, <1>3 DEF Quiet, NoneWaits, NoneServes, Serving, Busy
  <1> QED
    BY <1>2, <1>4 DEF Alternates, InTurn

LEMMA RepliesInvariant == Spec => [](TInv /\ Serves /\ DInv /\ RInv)
  <1>1. Init => RInv
    BY InitRInv
  <1>2. TInv /\ Serves /\ DInv /\ RInv /\ [Next]_vars => RInv'
    BY NextRInv
  <1> QED
    BY <1>1, <1>2, DamageInvariant, PTL DEF Spec

\* However many clients connect and whichever threads read their requests: as
\* long as a client has not been sent an event, it receives the answers to its
\* own requests, in their order, each a header and a body from one thread
\* (recvReqRpc and the handlers' sends; asked for one at a time, as client.c
\* does under its lock).
THEOREM RepliesInOrderHolds == Spec => []RepliesInOrder
  <1>1. RInv => RepliesInOrder
    <2> SUFFICES ASSUME RInv, NEW c \in Conn, Parts(c, "event") = {}
                 PROVE  /\ \A k \in DOMAIN out[c] :
                             /\ out[c][k].half = IF k % 2 = 1 THEN "head" ELSE "body"
                             /\ k % 2 = 0 => out[c][k].by = out[c][k - 1].by
                        /\ \A k \in DOMAIN out[c] : \E i \in Owed(c) :
                             /\ out[c][k].req = asked[c][i]
                             /\ Cardinality({j \in Owed(c) : j <= i}) = (k + 1) \div 2
      BY DEF RepliesInOrder
    <2>1. Alternates(c)
      BY DEF RInv, Calm
    <2> QED
      BY <2>1 DEF Alternates, Answers, Upto
  <1> QED
    BY <1>1, RepliesInvariant, PTL

\* Where a step goes wrong, the counts stay.
LEMMA BreaksLeaveCounts ==
    ASSUME NEW t \in Conn, newThreadHandler(t), fault' # fault
    PROVE  UNCHANGED num
  BY DEF newThreadHandler, ReadSlot, RecvHead, RecvBody, RecvFails, ReadsFreed, HandleAppend,
         LoadCount, StoreCount, Grow, Publish, Put, Number, Lookup, Enter, CollectRooms,
         CollectUsers, Find, EachUser, SendHead, SendBody, EventHead, EventBody, appended, Goto

LEMMA CountGrows ==
    ASSUME TInv, Serves, DInv, [Next]_vars, "rooms" \notin raced
    PROVE  num["rooms"] \in Nat /\ num'["rooms"] \in Nat /\ num["rooms"] <= num'["rooms"]
  <1>1. num["rooms"] \in Nat
    BY DEF TInv, TypedTables, Tables
  <1>2. CASE fault = "none" /\ fault' = "none"
    BY <1>2, RoomsGrow DEF DInv
  <1>3. CASE fault # "none" \/ fault' # "none"
    <2>1. UNCHANGED num
      <3>1. CASE UNCHANGED vars
        BY <3>1 DEF vars, appended
      <3>2. CASE \E t \in Conn : newThreadHandler(t) /\ fault = "none"
        BY <1>3, <3>2, BreaksLeaveCounts
      <3>3. CASE (\E c \in Conn : Ask(c) \/ Leave(c))
                 \/ MainStep(Accept) \/ MainStep(AcceptFails) \/ MainStep(Register)
        BY <3>3, TablesAreTheThreads
      <3> QED
        BY <3>1, <3>2, <3>3 DEF Next
    <2> QED
      BY <1>1, <2>1
  <1> QED
    BY <1>2, <1>3

\* What has been listed stays right.
LEMMA CountedStays ==
    ASSUME TInv, NEW c \in Conn, Alternates(c), Counted(c), num["rooms"] \in Nat,
           num'["rooms"] \in Nat, num["rooms"] <= num'["rooms"], NEW k \in DOMAIN out[c],
           NEW s, DOMAIN out[c] \subseteq DOMAIN s, \A i \in DOMAIN out[c] : s[i] = out[c][i],
           s[k].half = "body", s[k].req.rpc = "list_rooms"
    PROVE  /\ s[k].val \in Nat /\ s[k].val <= num'["rooms"]
           /\ s[k - 1].val = s[k].val % 256
  <1>1. DOMAIN out[c] = 1..Len(out[c]) /\ Len(out[c]) \in Nat
    BY LenProperties DEF TInv, TypedNetwork
  <1>2. s[k] = out[c][k]
    OBVIOUS
  <1>3. k % 2 # 1
    BY <1>2 DEF Alternates
  <1>4. k - 1 \in DOMAIN out[c]
    BY <1>1, <1>3
  <1>5. s[k - 1] = out[c][k - 1]
    BY <1>4
  <1>6. out[c][k].val \in Nat /\ out[c][k].val <= num["rooms"] /\ out[c][k - 1].val = out[c][k].val % 256
    BY <1>2 DEF Counted
  <1> QED
    BY <1>2, <1>5, <1>6

\* The body of a list is sent, as long as its header says.
LEMMA ListIsCounted ==
    ASSUME TInv, Serves, DInv, RInv, fault = "none", NEW t \in Conn, SentReply(t), CountsRooms(t),
           NEW c \in Conn, c = fd[t], Calm(c), Alternates(c), Counted(c), UNCHANGED <<num, reg, req>>
    PROVE  Counted(c)'
  <1>1. PICK part :
          /\ Sends(t, c, part)
          /\ \/ part.half = "head"
             \/ pc[t] = "sendBody" /\ part.half = "body" /\ part.val = Id(t)
    BY DEF SentReply
  <1>2. /\ DOMAIN out[c] = 1..Len(out[c]) /\ Len(out[c]) \in Nat
        /\ Len(out'[c]) = Len(out[c]) + 1 /\ DOMAIN out'[c] = 1..(Len(out[c]) + 1)
        /\ out'[c][Len(out[c]) + 1] = part
        /\ \A k \in 1..Len(out[c]) : out'[c][k] = out[c][k]
        /\ c \notin gone
    BY <1>1, LastSent
  <1>3. num["rooms"] \in Nat /\ num'["rooms"] = num["rooms"]
    BY DEF TInv, TypedTables, Tables
  <1>4. PICK l \in Nat : l = Len(out[c])
    BY <1>2
  <1>5. ASSUME NEW k \in 1..(l + 1), out'[c][k].half = "body", out'[c][k].req.rpc = "list_rooms"
        PROVE  /\ out'[c][k].val \in Nat /\ out'[c][k].val <= num'["rooms"]
               /\ out'[c][k - 1].val = out'[c][k].val % 256
    <2>1. CASE k \in 1..l
      <3>1. PICK s : s = out'[c]
        OBVIOUS
      <3>2. k \in DOMAIN out[c] /\ DOMAIN out[c] \subseteq DOMAIN s /\ \A i \in DOMAIN out[c] : s[i] = out[c][i]
        BY <1>2, <1>4, <2>1, <3>1
      <3> QED
        BY <1>3, <1>5, <3>1, <3>2, CountedStays
    <2>2. CASE k = l + 1
      <3>1. out'[c][k] = part /\ part.req = req[t]
        <4>1. part.req = req[t]
          BY <1>1 DEF Sends
        <4> QED
          BY <1>2, <1>4, <2>2, <4>1
      <3>2. pc[t] = "sendBody" /\ req[t].rpc = "list_rooms" /\ part.val = reg[t]
        BY <1>1, <1>5, <3>1 DEF Id
      <3>3. reg[t] = num["rooms"] /\ out[c][l].val = num["rooms"] % 256
        BY <1>2, <1>4, <3>2 DEF CountsRooms
      <3>4. l # 0
        <4>1. Serving(c, t) /\ InTurn(c)
          BY <1>2, <3>2 DEF RInv, Serving, Busy, NeedsReply
        <4>2. HalfServed(c)
          BY <3>2, <4>1 DEF InTurn, Quiet, Waiting, Served, NoneServes, OneServes
        <4>3. PICK m \in Nat : m = Cardinality(Owed(c))
          BY FiniteOwed
        <4>4. l + 1 = 2 * m
          BY <1>4, <4>2, <4>3 DEF HalfServed
        <4> QED
          BY <4>4
      <3>5. l \in 1..l /\ k - 1 = l
        BY <2>2, <3>4
      <3>6. out'[c][k - 1].val = num["rooms"] % 256
        BY <1>2, <1>4, <3>3, <3>5
      <3> QED
        BY <1>3, <3>1, <3>2, <3>3, <3>6
    <2> QED
      BY <2>1, <2>2
  <1> QED
    BY <1>2, <1>4, <1>5 DEF Counted

\* A thread takes the count, or sends it.
LEMMA CountsTurn ==
    ASSUME TInv, Serves, Undamaged, NEW t \in Conn, CountsRooms(t), fault = "none", fault' = "none",
           newThreadHandler(t), req'[t].rpc = "list_rooms", pc'[t] \in {"sendHead", "sendBody"}
    PROVE  /\ reg'[t] = num'["rooms"] /\ UNCHANGED <<num, fd, gone>>
           /\ \A c \in Conn \ gone : pc'[t] = "sendBody" /\ fd[t] = c =>
                out'[c][Len(out'[c])].val = num["rooms"] % 256
  <1>1. /\ pc \in [Conn -> Step \cup {"unborn"}] /\ StepFits(t) /\ reg \in [Conn -> Nat]
        /\ fd \in [Conn -> {NoFd} \cup Conn] /\ UNCHANGED gone
    BY DEF TInv, IInv, StartedInOrder, Undamaged, TypedThreads, newThreadHandler, clients
  <1>2. ASSUME NEW what, Break(what) PROVE what = "none"
    BY <1>2 DEF Break
  <1>3. CASE CollectRooms(t)
    <2>1. /\ reg' = [reg EXCEPT ![t] = num["rooms"]] /\ UNCHANGED <<num, fd>>
          /\ pc' = [pc EXCEPT ![t] = "sendHead"]
      BY <1>2, <1>3 DEF CollectRooms, Set, Goto, appended
    <2> QED
      BY <1>1, <2>1
  <1>4. CASE SendHead(t)
    <2>1. /\ pc[t] = "sendHead" /\ UNCHANGED <<num, fd, reg, req>>
          /\ SendTo(fd[t], t, "reply", "head", InHead(t), "sendBody")
      BY <1>4 DEF SendHead, ReplyTo, appended, locals
    <2>2. reg[t] = num["rooms"] /\ InHead(t) = num["rooms"] % 256
      BY <2>1 DEF CountsRooms, InHead
    <2>3. ASSUME NEW c \in Conn \ gone, fd[t] = c
          PROVE  out'[c][Len(out'[c])].val = num["rooms"] % 256
      <3>1. out' # out
        BY <1>4, <2>3, SentUnlessGone
      <3>2. InHead(t) \in Nat
        BY NumbersSent DEF TInv, TypedThreads
      <3>3. PICK part : Sends(t, c, part) /\ part.val = InHead(t)
        BY <2>1, <2>3, <3>1, <3>2, PartSent
      <3>4. Len(out'[c]) = Len(out[c]) + 1 /\ out'[c][Len(out[c]) + 1] = part
        BY <3>3, LastSent
      <3> QED
        BY <2>2, <3>3, <3>4
    <2> QED
      BY <1>1, <2>1, <2>2, <2>3
  <1>5. CASE ~(CollectRooms(t) \/ SendHead(t))
    <2>1. CASE ReadSlot(t) \/ RecvFails(t) \/ ReadsFreed(t)
      BY <1>1, <1>2, <2>1 DEF ReadSlot, RecvFails, ReadsFreed, Goto
    <2>2. CASE RecvHead(t) \/ RecvBody(t)
      <3>1. ASSUME NEW r, Dispatch(t, r) PROVE pc'[t] \notin {"sendHead", "sendBody"}
        BY <1>1, <1>2, <3>1 DEF Dispatch, Goto, FirstStep
      <3> QED
        BY <1>1, <1>2, <2>2, <3>1 DEF RecvHead, RecvBody, Goto
    <2>3. CASE HandleAppend(t)
      BY <1>1, <2>3 DEF HandleAppend, LoadCount, StoreCount, Grow, Publish, Put, Number, locals, StepFits
    <2>4. CASE Lookup(t) \/ Enter(t) \/ CollectUsers(t)
      <3>1. req'[t] = req[t] /\ req[t].rpc # "list_rooms"
        BY <1>1, <2>4 DEF Lookup, Enter, CollectUsers, StepFits, locals
      <3> QED
        BY <3>1
    <2>5. CASE SendBody(t)
      BY <1>1, <1>2, <2>5 DEF SendBody, SendTo, Goto
    <2>6. CASE Find(t) \/ EachUser(t) \/ EventHead(t) \/ EventBody(t)
      <3>1. req'[t] = req[t] /\ req[t].rpc # "list_rooms"
        BY <1>1, <2>6 DEF Find, EachUser, EventHead, EventBody, StepFits, locals
      <3> QED
        BY <3>1
    <2> QED
      BY <1>5, <2>1, <2>2, <2>3, <2>4, <2>5, <2>6 DEF newThreadHandler
  <1> QED
    BY <1>3, <1>4, <1>5

\* The turn of another thread.
LEMMA CountsStill ==
    ASSUME TInv, Serves, DInv, RInv, fault = "none", fault' = "none", "rooms" \notin raced, [Next]_vars,
           NEW t \in Conn, newThreadHandler(t), NEW u \in Conn, u # t, CountsRooms(u)
    PROVE  CountsRooms(u)'
  <1>1. /\ pc'[u] = pc[u] /\ fd'[u] = fd[u] /\ req'[u] = req[u] /\ reg'[u] = reg[u]
        /\ UNCHANGED gone /\ Undamaged
    BY OnlyItsOwn, AnswerStays DEF DInv
  <1> SUFFICES ASSUME req[u].rpc = "list_rooms", pc[u] \in {"sendHead", "sendBody"}
               PROVE  /\ num'["rooms"] = num["rooms"]
                      /\ \A c \in Conn \ gone : pc[u] = "sendBody" /\ fd[u] = c /\ Calm(c)' =>
                           out'[c] = out[c]
    BY <1>1, CalmBefore DEF CountsRooms
  <1>2. Uses(u, "rooms")
    BY DEF Uses, Working, Touches
  <1>3. ~Uses(t, "rooms")
    BY <1>1, <1>2 DEF Undamaged, Apart, Shared
  <1>4. num'["rooms"] = num["rooms"]
    <2>1. CASE HandleAppend(t)
      <3>1. AppendTurn(t, Tab(t))
        BY <2>1, AppendTurns
      <3>2. Uses(t, Tab(t))
        BY <1>1, <3>1, AppendsUses DEF AppendTurn, Undamaged
      <3>3. Tab(t) # "rooms"
        BY <1>3, <3>2
      <3> QED
        BY <2>1, <3>3, AppendTurns DEF Tables
    <2>2. CASE ~HandleAppend(t)
      BY <2>2, NothingAppended
    <2> QED
      BY <2>1, <2>2
  <1>5. ASSUME NEW c \in Conn \ gone, pc[u] = "sendBody", fd[u] = c, Calm(c)' PROVE out'[c] = out[c]
    <2>1. Serving(c, u) /\ InTurn(c)
      BY <1>5, CalmBefore DEF RInv, Serving, Busy, NeedsReply
    <2>2. ~Serving(c, t)
      BY <2>1 DEF InTurn, Quiet, Waiting, Served, HalfServed, NoneServes, OneServes
    <2>3. CASE SentReply(t)
      <3>1. PICK part : Sends(t, fd[t], part) /\ pc[t] \in {"sendHead", "sendBody"}
        BY <2>3 DEF SentReply
      <3>2. fd[t] # c
        BY <1>1, <2>2, <3>1 DEF Serving, Busy, NeedsReply, Undamaged, StepFits
      <3> QED
        BY <3>1, <3>2, LastSent
    <2>4. CASE SentEvent(t)
      BY <1>5, <2>4, EventsGoElsewhere
    <2> QED
      BY <2>3, <2>4, RepliesAndEvents
  <1> QED
    BY <1>4, <1>5

LEMMA NextLInv == TInv /\ Serves /\ DInv /\ RInv /\ LInv /\ [Next]_vars => LInv'
  <1> SUFFICES ASSUME TInv, Serves, DInv, RInv, LInv, [Next]_vars, "rooms" \notin raced'
               PROVE  /\ \A c \in Conn : Calm(c)' => Counted(c)'
                      /\ fault' = "none" => \A u \in Conn : CountsRooms(u)'
    BY DEF LInv
  <1>1. /\ "rooms" \notin raced /\ (fault' = "none" => fault = "none") /\ gone \subseteq gone'
        /\ \A c \in Conn : Calm(c)' => Calm(c) /\ Counted(c) /\ Alternates(c)
        /\ fault = "none" => \A u \in Conn : CountsRooms(u)
    BY HistoryGrows, CalmBefore DEF LInv, RInv
  <1>2. num["rooms"] \in Nat /\ num'["rooms"] \in Nat /\ num["rooms"] <= num'["rooms"]
    BY <1>1, CountGrows
  <1>3. ASSUME NEW c \in Conn, Calm(c)', out'[c] = out[c] PROVE Counted(c)'
    <2>1. PICK s : s = out'[c]
      OBVIOUS
    <2>2. DOMAIN out[c] = DOMAIN s /\ \A i \in DOMAIN out[c] : s[i] = out[c][i]
      BY <1>3, <2>1
    <2>3. ASSUME NEW k \in DOMAIN s, s[k].half = "body", s[k].req.rpc = "list_rooms"
          PROVE  /\ s[k].val \in Nat /\ s[k].val <= num'["rooms"] /\ s[k - 1].val = s[k].val % 256
      BY <1>1, <1>2, <1>3, <2>2, <2>3, CountedStays
    <2> QED
      BY <2>1, <2>3 DEF Counted
  <1>4. CASE ~(\E t \in Conn : newThreadHandler(t) /\ fault = "none")
    <2>1. /\ UNCHANGED <<num, table, fd, req, reg, sender, out>>
          /\ \A t \in Conn : old'[t] = old[t] /\ pc'[t] \in {pc[t], "loop"}
      BY <1>4, TablesAreTheThreads DEF Next
    <2>2. \A c \in Conn : Calm(c)' => Counted(c)'
      BY <1>3, <2>1
    <2>3. ASSUME fault' = "none", NEW u \in Conn PROVE CountsRooms(u)'
      BY <1>1, <2>1, <2>3 DEF CountsRooms, Calm, Parts
    <2> QED
      BY <2>2, <2>3
  <1>5. CASE \E t \in Conn : newThreadHandler(t) /\ fault = "none"
    <2>1. PICK t \in Conn : newThreadHandler(t) /\ fault = "none"
      BY <1>5
    <2>2. ASSUME NEW c \in Conn, Calm(c)' PROVE Counted(c)'
      <3>1. CASE out' = out
        BY <1>3, <2>2, <3>1
      <3>2. CASE SentReply(t) /\ UNCHANGED <<num, reg, req>>
        <4>1. CASE c = fd[t]
          BY <1>1, <2>1, <2>2, <3>2, <4>1, ListIsCounted
        <4>2. CASE c # fd[t]
          <5>1. out'[c] = out[c]
            BY <3>2, <4>2, LastSent DEF SentReply
          <5> QED
            BY <1>3, <2>2, <5>1
        <4> QED
          BY <4>1, <4>2
      <3>3. CASE SentEvent(t)
        BY <1>3, <2>2, <3>3, EventsGoElsewhere
      <3> QED
        BY <2>1, <3>1, <3>2, <3>3, RepliesAndEvents
    <2>3. ASSUME fault' = "none" PROVE CountsRooms(t)'
      <3>1. Undamaged /\ CountsRooms(t)
        BY <1>1, <2>1 DEF DInv
      <3> SUFFICES ASSUME req'[t].rpc = "list_rooms", pc'[t] \in {"sendHead", "sendBody"}
                   PROVE  /\ reg'[t] = num'["rooms"]
                          /\ \A c \in Conn \ gone' : pc'[t] = "sendBody" /\ fd'[t] = c =>
                               out'[c][Len(out'[c])].val = num'["rooms"] % 256
        BY DEF CountsRooms
      <3>2. /\ reg'[t] = num'["rooms"] /\ UNCHANGED <<num, fd, gone>>
            /\ \A c \in Conn \ gone : pc'[t] = "sendBody" /\ fd[t] = c =>
                 out'[c][Len(out'[c])].val = num["rooms"] % 256
        BY <2>1, <2>3, <3>1, CountsTurn
      <3> QED
        BY <3>2
    <2>4. ASSUME fault' = "none", NEW u \in Conn, u # t PROVE CountsRooms(u)'
      BY <1>1, <2>1, <2>4, CountsStill
    <2> QED
      BY <2>2, <2>3, <2>4
  <1> QED
    BY <1>4, <1>5

LEMMA InitLInv == Init => LInv
  <1> SUFFICES ASSUME Init PROVE LInv
    OBVIOUS
  <1>1. \A c \in Conn : DOMAIN out[c] = {}
    BY DEF Init
  <1>2. \A t \in Conn : pc[t] = "unborn"
    BY DEF Init
  <1> QED
    BY <1>1, <1>2 DEF LInv, Counted, CountsRooms

LEMMA RoomsInvariant == Spec => [](TInv /\ Serves /\ DInv /\ RInv /\ GInv /\ CInv /\ LInv)
  <1>1. Init => GInv /\ CInv /\ LInv
    BY InitGInv, InitCInv, InitLInv
  <1>2. TInv /\ Serves /\ DInv /\ RInv /\ GInv /\ CInv /\ LInv /\ [Next]_vars => GInv' /\ CInv' /\ LInv'
    BY NextGInv, NextCInv, NextLInv
  <1> QED
    BY <1>1, <1>2, RepliesInvariant, PTL DEF Spec

\* However many rooms are made, listed and joined at the same time: unless two
\* requests have been at work on the rooms at once, whoever is told of a room it
\* has created finds it under that id, with the name or the name and what the
\* server has read behind it, no two are told the same id, and a list's
\* header counts what its body lists (handleCreateRoom, lines 279-291, and
\* handleListRooms, lines 243-253); and in any case room 0 stays the general room.
THEOREM RoomsAsAnsweredHolds == Spec => []RoomsAsAnswered
  <1>1. CInv /\ TInv /\ "rooms" \notin raced => CreatedRoomsExist
    <2> SUFFICES ASSUME CInv, TInv, "rooms" \notin raced, fault = "none", num["rooms"] <= 65536
                 PROVE  /\ \A p \in Created : RoomIn(p)
                        /\ \A p, q \in Created : out[p[1]][p[2]].val = out[q[1]][q[2]].val => p = q
      BY DEF CreatedRoomsExist
    <2> QED
      BY DEF CInv, RoomsTold, IdAt
  <1>2. LInv /\ RInv /\ TInv /\ "rooms" \notin raced => RoomsAreCounted
    <2> SUFFICES ASSUME LInv, TInv, "rooms" \notin raced, NEW c \in Conn, Parts(c, "event") = {},
                        num["rooms"] < 256, NEW k \in DOMAIN out[c], out[c][k].half = "body",
                        out[c][k].req.rpc = "list_rooms"
                 PROVE  out[c][k - 1].val = out[c][k].val
      BY DEF RoomsAreCounted
    <2>1. PICK n : n = out[c][k].val
      OBVIOUS
    <2>2. n \in Nat /\ n <= num["rooms"] /\ out[c][k - 1].val = n % 256
      BY <2>1 DEF LInv, Calm, Counted
    <2>3. num["rooms"] \in Nat
      BY DEF TInv, TypedTables, Tables
    <2>4. n % 256 = n
      BY <2>2, <2>3
    <2> QED
      BY <2>1, <2>2, <2>4
  <1>3. GInv => (fault = "none" => table["rooms"][1] = General)
    BY DEF GInv, GeneralFirst
  <1>4. TInv /\ RInv /\ GInv /\ CInv /\ LInv => RoomsAsAnswered
    BY <1>1, <1>2, <1>3 DEF RoomsAsAnswered
  <1> QED
    BY <1>4, RoomsInvariant, PTL
=============================================================================
