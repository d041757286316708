-------------------------- MODULE ChatClientProofs --------------------------
(***************************************************************************)
(* Theorems about ChatClient, for any number of commands, events and       *)
(* rooms: the mutex keeps the two readers of the socket apart, and what    *)
(* sendReqRpc takes for its response is its response as long as no other   *)
(* user has sent a message; and events are shown in order, each at most    *)
(* once.                                                                   *)
(***************************************************************************)
EXTENDS ChatClient, SequenceTheorems, TLAPS

Held == {"send", "recvHead", "recvBody", "unlock"}

\* Where the two threads can be.
Places ==
    /\ main \in {"command", "lock", "return"} \cup Held
    /\ events \in {"none", "lock", "recv", "retry", "unlock", "peek"}
    /\ recvMutex \in {"free", "main", "events"}

LInv == Places /\ LockDiscipline

\* The response the server gives to a request.
ReplyTo(r) == [kind |-> "reply", id |-> r.id, rpc |-> r.rpc, val |-> Answer(r)]

OnlyMessages(s) == \A k \in DOMAIN s : s[k].rpc = "message"

\* What the threads have left to send when only the one that answers has any.
Left(parts) == [thread \in 0..MaxEvents |-> IF thread = 0 THEN parts ELSE <<>>]

\* The response to request is somewhere between the server and main(): not
\* asked for yet, half sent, or there; nothing else is.  When the server has
\* gone, what it had not sent is missing.
Expected ==
    LET H == HeaderOf(ReplyTo(request))
        B == BodyOf(ReplyTo(request))
    IN  \/ /\ wire = Left(<<>>) /\ stream = <<>> /\ server # <<>>
           /\ server[Len(server)] = request
           /\ \A k \in 1..Len(server) - 1 : server[k].rpc = "message"
        \/ server = <<>> /\ wire = Left(<<B>>) /\ stream = H
        \/ server = <<>> /\ wire = Left(<<>>) /\ stream = H \o B
        \/ closed /\ server = <<>> /\ wire = Left(<<>>) /\ stream \in {<<>>, H}

BodyExpected ==
    LET B == BodyOf(ReplyTo(request))
    IN  /\ server = <<>> /\ response = ReplyTo(request)
        /\ \/ wire = Left(<<B>>) /\ stream = <<>>
           \/ wire = Left(<<>>) /\ stream = B
           \/ closed /\ wire = Left(<<>>) /\ stream = <<>>

\* Nothing is on its way to the client, and nothing will be.
Silent == wire = Left(<<>>) /\ stream = <<>> /\ OnlyMessages(server)

\* What is on its way when no event has been sent.
Quiet ==
    /\ fault # "misread" /\ (fault \in {"uninitialised", "sigpipe"} => closed)
    /\ closed => server = <<>> /\ wire = Left(<<>>)
    /\ events # "peek" /\ buf.msg.kind # "event"
    /\ main = "recvHead" => request.rpc # "message" /\ Expected
    /\ main = "recvBody" => request.rpc # "message" /\ BodyExpected
    /\ main \notin {"recvHead", "recvBody"} => Silent
    /\ main \in {"unlock", "return"} /\ request.rpc # "message" => response = ReplyTo(request)

\* The inductive invariant: the requests are a sequence, and as long as no
\* event has been sent the rest is as above.
QInv == LInv /\ (\E S : server \in Seq(S)) /\ sent \in Nat /\ (sent = 0 => Quiet)

-----------------------------------------------------------------------------
(* The mutex.                                                                *)

LEMMA InitLInv == Init => LInv
  BY DEF Init, LInv, Places, Held, LockDiscipline

\* login is not typed.
LEMMA CommandIsNoLogin == Command => request'.rpc # "login"
  <1> SUFFICES ASSUME Command PROVE request'.rpc # "login"
    OBVIOUS
  <1>1. PICK c \in Commands, a \in Rooms \cup {General, 65534} :
          request' = [id |-> request.id + 1, rpc |-> c, arg |-> a]
    BY DEF Command
  <1>2. request'.rpc = c
    BY <1>1
  <1>3. c # "login"
    BY ClientAssumption
  <1> QED
    BY <1>2, <1>3

LEMMA MainLInv == LInv /\ MainThread => LInv'
  <1> SUFFICES ASSUME LInv, MainThread PROVE LInv'
    OBVIOUS
  <1> USE DEF LInv, Places, Held, LockDiscipline
  <1>1. CASE Command
    BY <1>1, CommandIsNoLogin DEF Command
  <1>2. CASE Lock
    BY <1>2 DEF Lock
  <1>3. CASE Send
    BY <1>3 DEF Send, NextIsRecv
  <1>4. CASE RecvHead
    BY <1>4 DEF RecvHead
  <1>5. CASE RecvBody
    BY <1>5 DEF RecvBody
  <1>6. CASE Unlock
    BY <1>6 DEF Unlock
  <1>7. CASE Return
    BY <1>7 DEF Return
  <1>8. CASE RecvFails
    BY <1>8 DEF RecvFails, control
  <1> QED
    BY <1>1, <1>2, <1>3, <1>4, <1>5, <1>6, <1>7, <1>8 DEF MainThread

LEMMA EventsLInv == LInv /\ handleEvents => LInv'
  BY DEF LInv, Places, Held, LockDiscipline, handleEvents, EventsLock, EventsRecv,
         EventsUnlock, EventsPeek

\* The server moves nothing on the client's side.
LEMMA ServerIsElsewhere == Server => UNCHANGED local
  BY DEF Server, Reply, Event, SendBody, Close

LEMMA RestLInv == LInv /\ (Server \/ UNCHANGED vars) => LInv'
  <1> SUFFICES ASSUME LInv, Server \/ UNCHANGED vars PROVE LInv'
    OBVIOUS
  <1>1. UNCHANGED <<main, events, recvMutex, request>>
    BY ServerIsElsewhere DEF local, vars, control
  <1> QED
    BY <1>1 DEF LInv, Places, Held, LockDiscipline

\* The mutex is held by exactly the thread that is between its lock and its
\* unlock (client.c lines 107-126, 239-243), whatever is typed and sent.
THEOREM LockDisciplineHolds == Spec => []LockDiscipline
  <1>1. LInv /\ [Next]_vars => LInv'
    BY MainLInv, EventsLInv, RestLInv DEF Next
  <1>2. LInv => LockDiscipline
    BY DEF LInv
  <1> QED
    BY InitLInv, <1>1, <1>2, PTL DEF Spec

-----------------------------------------------------------------------------
(* The two parts of a message.                                               *)

\* A response is a header and a body, whose lengths the client knows.
LEMMA ReplyParts ==
    ASSUME NEW r
    PROVE  LET m == ReplyTo(r)
               U == {Unit(m, k) : k \in Nat}
           IN  /\ HeaderOf(m) \in Seq(U) /\ Len(HeaderOf(m)) = HeaderSize
               /\ HeaderOf(m)[1].msg = m
               /\ BodyOf(m) \in Seq(U) /\ Len(BodyOf(m)) = BodySize(m)
               /\ BodySize(m) \in Nat \ {0}
  <1> DEFINE m == ReplyTo(r)
             U == {Unit(m, k) : k \in Nat}
  <1>1. BodySize(m) \in {1, 2}
    BY DEF BodySize, ReplyTo
  <1>2. HeaderOf(m) = [k \in 1..2 |-> Unit(m, k)]
    BY DEF HeaderOf, HeaderSize
  <1>3. \A k \in Nat : Unit(m, k) \in U
    OBVIOUS
  <1>4. HeaderOf(m) \in [1..2 -> U]
    BY <1>2, <1>3
  <1>5. HeaderOf(m)[1].msg = m
    BY <1>2 DEF Unit
  <1>6. BodyOf(m) = [k \in 1..BodySize(m) |-> Unit(m, 2 + k)]
    BY DEF BodyOf, HeaderSize
  <1>7. BodyOf(m) \in [1..BodySize(m) -> U]
    BY <1>1, <1>3, <1>6
  <1> HIDE DEF U, m
  <1>8. HeaderOf(m) \in Seq(U) /\ Len(HeaderOf(m)) = HeaderSize
    <2>1. HeaderOf(m) \in Seq(U)
      BY <1>4, SeqDef
    <2> QED
      BY <1>4, <2>1, LenProperties DEF HeaderSize
  <1>9. BodyOf(m) \in Seq(U) /\ Len(BodyOf(m)) = BodySize(m)
    BY <1>1, <1>7, SeqDef, LenProperties
  <1>10. BodySize(m) \in Nat \ {0}
    BY <1>1
  <1> QED
    BY <1>5, <1>8, <1>9, <1>10, Zenon DEF U, m

\* A sequence that is put together is taken apart again by length.
LEMMA ConcatCut ==
    ASSUME NEW S, NEW s \in Seq(S), NEW t \in Seq(S)
    PROVE  /\ SubSeq(s \o t, 1, Len(s)) = s
           /\ SubSeq(s \o t, Len(s) + 1, Len(s \o t)) = t
  <1> DEFINE st == s \o t
  <1>1. /\ st \in Seq(S) /\ Len(st) = Len(s) + Len(t)
        /\ \A k \in 1..Len(s) + Len(t) :
             st[k] = IF k <= Len(s) THEN s[k] ELSE t[k - Len(s)]
    BY ConcatProperties
  <1>2. Len(s) \in Nat /\ Len(t) \in Nat
    BY LenProperties
  <1> HIDE DEF st
  <1>3. \A k \in 1..Len(st) : st[k] \in S
    BY <1>1, ElementOfSeq
  <1>4. SubSeq(st, 1, Len(s)) = s
    <2> DEFINE front == SubSeq(st, 1, Len(s))
    <2>1. /\ front \in Seq(S) /\ Len(front) = IF 1 <= Len(s) THEN Len(s) - 1 + 1 ELSE 0
          /\ \A k \in 1..Len(s) - 1 + 1 : front[k] = st[1 + k - 1]
      <3>1. \A k \in 1..Len(s) : st[k] \in S
        BY <1>1, <1>2, <1>3
      <3> QED
        BY <1>2, <3>1, SubSeqProperties
    <2> HIDE DEF front
    <2>2. Len(front) = Len(s)
      BY <1>2, <2>1
    <2>3. \A k \in 1..Len(front) : front[k] = s[k]
      BY <1>1, <1>2, <2>1, <2>2
    <2>4. front = s
      BY <2>1, <2>2, <2>3, SeqEqual
    <2> QED
      BY <2>4 DEF front
  <1>5. SubSeq(st, Len(s) + 1, Len(st)) = t
    <2> DEFINE back == SubSeq(st, Len(s) + 1, Len(st))
    <2>1. /\ back \in Seq(S)
          /\ Len(back) = IF Len(s) + 1 <= Len(st) THEN Len(st) - (Len(s) + 1) + 1 ELSE 0
          /\ \A k \in 1..Len(st) - (Len(s) + 1) + 1 : back[k] = st[Len(s) + 1 + k - 1]
      <3>1. \A k \in Len(s) + 1..Len(st) : st[k] \in S
        BY <1>1, <1>2, <1>3
      <3>2. Len(st) \in Int /\ Len(s) + 1 \in Int
        BY <1>1, <1>2
      <3> QED
        BY <3>1, <3>2, SubSeqProperties
    <2> HIDE DEF back
    <2>2. Len(back) = Len(t)
      BY <1>1, <1>2, <2>1
    <2>3. ASSUME NEW k \in 1..Len(back) PROVE back[k] = t[k]
      <3>1. k \in 1..Len(t) /\ Len(s) + 1 + k - 1 = Len(s) + k
        BY <1>2, <2>2
      <3>2. back[k] = st[Len(s) + k]
        BY <1>1, <1>2, <2>1, <3>1
      <3>3. st[Len(s) + k] = t[Len(s) + k - Len(s)]
        BY SMTT(30), <1>1, <1>2, <3>1
      <3> QED
        BY <1>2, <3>1, <3>2, <3>3
    <2>4. back = t
      BY <2>1, <2>2, <2>3, SeqEqual
    <2> QED
      BY <2>4 DEF back
  <1> QED
    BY <1>4, <1>5 DEF st

\* The response as the stream has it, and what the two reads leave of it.
LEMMA ReplyReads ==
    ASSUME NEW r
    PROVE  LET m == ReplyTo(r)
               H == HeaderOf(m)
               B == BodyOf(m)
           IN  /\ <<>> \o H = H /\ <<>> \o B = B
               /\ SubSeq(H \o B, 1, HeaderSize) = H /\ (H \o B)[1].msg = m
               /\ SubSeq(H \o B, HeaderSize + 1, Len(H \o B)) = B
               /\ SubSeq(H, 1, HeaderSize) = H /\ H[1].msg = m
               /\ SubSeq(H, HeaderSize + 1, Len(H)) = <<>>
               /\ SubSeq(B, 1, BodySize(m)) = B
               /\ SubSeq(B, BodySize(m) + 1, Len(B)) = <<>>
  <1> DEFINE m == ReplyTo(r)
             H == HeaderOf(m)
             B == BodyOf(m)
             U == {Unit(m, k) : k \in Nat}
  <1>1. /\ H \in Seq(U) /\ Len(H) = HeaderSize /\ H[1].msg = m
        /\ B \in Seq(U) /\ Len(B) = BodySize(m) /\ BodySize(m) \in Nat
    BY ReplyParts
  <1> HIDE DEF m, H, B, U
  <1>2. <<>> \o H = H /\ <<>> \o B = B
    BY <1>1, ConcatEmptySeq
  <1>3. /\ SubSeq(H \o B, 1, HeaderSize) = H
        /\ SubSeq(H \o B, HeaderSize + 1, Len(H \o B)) = B
    BY <1>1, ConcatCut
  <1>4. (H \o B)[1] = H[1]
    <2>1. \A k \in 1..Len(H) + Len(B) :
            (H \o B)[k] = IF k <= Len(H) THEN H[k] ELSE B[k - Len(H)]
      BY <1>1, ConcatProperties
    <2>2. 1 \in 1..Len(H) + Len(B) /\ 1 <= Len(H)
      BY <1>1 DEF HeaderSize
    <2> QED
      BY <2>1, <2>2
  <1>5. SubSeq(H, 1, HeaderSize) = H
    BY <1>1, SubSeqFull
  <1>6. SubSeq(H, HeaderSize + 1, Len(H)) = <<>>
    <2>1. Len(H) \in Int /\ HeaderSize + 1 \in Int /\ Len(H) < HeaderSize + 1
      BY <1>1 DEF HeaderSize
    <2> QED
      BY <2>1, SubSeqEmpty
  <1>8. SubSeq(B, 1, BodySize(m)) = B
    BY <1>1, SubSeqFull
  <1>7. SubSeq(B, BodySize(m) + 1, Len(B)) = <<>>
    <2>1. Len(B) \in Int /\ BodySize(m) + 1 \in Int /\ Len(B) < BodySize(m) + 1
      BY <1>1
    <2> QED
      BY <2>1, SubSeqEmpty
  <1> QED
    BY <1>1, <1>2, <1>3, <1>4, <1>5, <1>6, <1>7, <1>8 DEF m, H, B

-----------------------------------------------------------------------------
(* The response.                                                             *)

\* What Left says of each thread, and how it changes.
LEMMA LeftProperties ==
    ASSUME NEW parts, NEW more
    PROVE  /\ Left(parts)[0] = parts
           /\ \A thread \in 0..MaxEvents : thread # 0 => Left(parts)[thread] = <<>>
           /\ [Left(parts) EXCEPT ![0] = more] = Left(more)
           /\ [thread \in 0..MaxEvents |-> <<>>] = Left(<<>>)
  <1>1. 0 \in 0..MaxEvents
    BY ClientAssumption
  <1> QED
    BY <1>1 DEF Left

\* The header of a response is sent.
LEMMA ReplySends ==
    ASSUME Reply, NEW r, r = Head(server), r.rpc # "message", wire = Left(<<>>)
    PROVE  /\ stream' = stream \o HeaderOf(ReplyTo(r))
           /\ wire' = Left(<<BodyOf(ReplyTo(r))>>)
  <1>1. PICK m : m = ReplyTo(r)
    OBVIOUS
  <1>2. SendHeader(0, m)
    BY <1>1 DEF Reply, ReplyTo
  <1>3. BodySends(m) = <<BodyOf(m)>>
    BY <1>1 DEF BodySends, ReplyTo
  <1>4. stream' = stream \o HeaderOf(m) /\ wire' = [wire EXCEPT ![0] = BodySends(m)]
    BY <1>2 DEF SendHeader, SendPart
  <1> QED
    BY <1>1, <1>3, <1>4, LeftProperties

\* The server takes a request.
LEMMA ReplyQuiet ==
    ASSUME QInv, sent = 0, Reply
    PROVE  Quiet'
  <1> DEFINE H == HeaderOf(ReplyTo(request))
             B == BodyOf(ReplyTo(request))
  <1>1. UNCHANGED <<main, events, request, response, buf, fault, closed>>
    BY DEF Reply, local, control
  <1>2. Quiet
    BY DEF QInv
  <1>3. H' = H /\ B' = B
    BY <1>1
  <1>4. <<>> \o H = H /\ <<>> \o B = B
    BY ReplyReads
  <1>5. PICK S : server \in Seq(S)
    BY DEF QInv
  <1>6. server # <<>> /\ server' = Tail(server)
    BY DEF Reply
  <1>7. Len(server) \in Nat \ {0} /\ DOMAIN server = 1..Len(server)
    BY <1>5, <1>6, EmptySeq, LenProperties
  <1>8. /\ server' \in Seq(S) /\ Len(server') = Len(server) - 1
        /\ \A k \in 1..Len(server) - 1 : server'[k] = server[k + 1]
    BY <1>5, <1>6, HeadTailProperties
  <1>9. DOMAIN server' = 1..Len(server) - 1
    BY <1>8, LenProperties
  <1>10. Head(server) = server[1]
    BY <1>5, <1>6
  <1>11. Head(server).rpc = "message" => UNCHANGED <<stream, wire>>
    BY DEF Reply, sends
  <1>12. main # "recvBody" /\ ~closed
    BY <1>2, <1>6 DEF Quiet, BodyExpected
  <1>13. CASE main = "recvHead"
    <2>1. /\ request.rpc # "message" /\ wire = Left(<<>>) /\ stream = <<>>
          /\ server[Len(server)] = request
          /\ \A k \in 1..Len(server) - 1 : server[k].rpc = "message"
      BY <1>2, <1>6, <1>13 DEF Quiet, Expected
    <2>2. CASE Len(server) = 1
      <3>1. Head(server) = request
        BY <1>10, <2>1, <2>2
      <3>2. wire' = Left(<<B>>) /\ stream' = H
        BY <1>4, <2>1, <3>1, ReplySends
      <3>3. server' = <<>>
        BY <1>8, <2>2, EmptySeq
      <3>4. Expected'
        BY <1>1, <3>2, <3>3 DEF Expected, Left
      <3> QED
        BY <1>1, <1>2, <1>12, <1>13, <2>1, <3>3, <3>4 DEF Quiet, Left
    <2>3. CASE Len(server) > 1
      <3>1. Head(server).rpc = "message"
        BY <1>7, <1>10, <2>1, <2>3
      <3>2. server' # <<>> /\ Len(server') = Len(server) - 1
        <4>1. Len(server') = Len(server) - 1 /\ Len(server') # 0
          BY <1>7, <1>8, <2>3
        <4>2. Len(<<>>) = 0
          OBVIOUS
        <4> QED
          BY <4>1, <4>2
      <3>3. server'[Len(server')] = request
        BY <1>7, <1>8, <2>1, <2>3, <3>2
      <3>4. \A k \in 1..Len(server') - 1 : server'[k].rpc = "message"
        BY <1>7, <1>8, <2>1, <2>3, <3>2
      <3>5. Expected'
        BY <1>1, <1>11, <2>1, <3>1, <3>2, <3>3, <3>4 DEF Expected, Left
      <3> QED
        BY <1>1, <1>2, <1>12, <1>13, <2>1, <3>5 DEF Quiet
    <2> QED
      BY <1>7, <2>2, <2>3
  <1>14. CASE main \notin {"recvHead", "recvBody"}
    <2>1. wire = Left(<<>>) /\ stream = <<>> /\ \A k \in 1..Len(server) : server[k].rpc = "message"
      BY <1>2, <1>7, <1>14 DEF Quiet, Silent, OnlyMessages
    <2>2. Head(server).rpc = "message"
      BY <1>7, <1>10, <2>1
    <2>3. \A k \in DOMAIN server' : server'[k].rpc = "message"
      BY <1>7, <1>8, <1>9, <2>1
    <2>4. Silent'
      BY <1>11, <2>1, <2>2, <2>3 DEF Silent, OnlyMessages, Left
    <2>5. (ReplyTo(request))' = ReplyTo(request)
      BY <1>1
    <2> QED
      BY <1>1, <1>2, <1>12, <1>14, <2>4, <2>5 DEF Quiet
  <1> QED
    BY <1>12, <1>13, <1>14

\* The thread that answers sends the second part of the response.
LEMMA BodyQuiet ==
    ASSUME QInv, sent = 0, NEW thread \in 0..MaxEvents, SendBody(thread)
    PROVE  Quiet'
  <1> DEFINE H == HeaderOf(ReplyTo(request))
             B == BodyOf(ReplyTo(request))
  <1>1. UNCHANGED <<main, events, request, response, buf, fault, closed, server>>
    BY DEF SendBody, local, control
  <1>2. Quiet
    BY DEF QInv
  <1>3. H' = H /\ B' = B
    BY <1>1
  <1>4. <<>> \o B = B /\ Head(<<B>>) = B /\ Tail(<<B>>) = <<>>
    BY ReplyReads
  <1>5. wire[thread] # <<>> /\ stream' = stream \o Head(wire[thread])
        /\ wire' = [wire EXCEPT ![thread] = Tail(wire[thread])]
    BY DEF SendBody, SendPart
  <1>6. wire # Left(<<>>)
    BY <1>5, LeftProperties
  <1>7. main \in {"recvHead", "recvBody"}
    BY <1>2, <1>6 DEF Quiet, Silent
  <1>8. /\ wire = Left(<<B>>) /\ server = <<>> /\ request.rpc # "message"
        /\ main = "recvHead" => stream = H
        /\ main = "recvBody" => response = ReplyTo(request) /\ stream = <<>>
    BY <1>2, <1>6, <1>7 DEF Quiet, Expected, BodyExpected
  <1>9. thread = 0 /\ wire[thread] = <<B>>
    BY <1>5, <1>8, LeftProperties
  <1>10. wire' = Left(<<>>) /\ stream' = stream \o B
    <2>1. PICK parts : parts = <<B>>
      OBVIOUS
    <2>2. Head(parts) = B /\ Tail(parts) = <<>> /\ wire = Left(parts) /\ wire[thread] = parts
      BY <1>4, <1>8, <1>9, <2>1
    <2>3. [Left(parts) EXCEPT ![0] = <<>>] = Left(<<>>)
      BY LeftProperties
    <2>4. stream' = stream \o Head(parts) /\ wire' = [Left(parts) EXCEPT ![0] = Tail(parts)]
      BY <1>5, <1>9, <2>2
    <2> HIDE DEF B
    <2> QED
      BY <2>2, <2>3, <2>4
  <1>11. CASE main = "recvHead"
    <2>1. Expected'
      BY <1>1, <1>8, <1>10, <1>11 DEF Expected, Left
    <2> QED
      BY <1>1, <1>2, <1>8, <1>10, <1>11, <2>1 DEF Quiet, Left
  <1>12. CASE main = "recvBody"
    <2>1. BodyExpected'
      BY <1>1, <1>4, <1>8, <1>10, <1>12 DEF BodyExpected, Left
    <2> QED
      BY <1>1, <1>2, <1>8, <1>10, <1>12, <2>1 DEF Quiet, Left
  <1> QED
    BY <1>7, <1>11, <1>12

\* The server goes.
LEMMA CloseQuiet ==
    ASSUME QInv, sent = 0, Close
    PROVE  Quiet'
  <1>1. /\ UNCHANGED <<main, events, request, response, buf, fault, stream>>
        /\ closed' /\ server' = <<>> /\ wire' = Left(<<>>)
    BY LeftProperties DEF Close, local, control
  <1>2. Quiet /\ DOMAIN <<>> = {}
    BY DEF QInv
  <1>3. (ReplyTo(request))' = ReplyTo(request)
    BY <1>1
  <1>4. main = "recvHead" => Expected'
    BY <1>1, <1>2 DEF Quiet, Expected, Left
  <1>5. main = "recvBody" => BodyExpected'
    BY <1>1, <1>2 DEF Quiet, BodyExpected, Left
  <1>6. main \notin {"recvHead", "recvBody"} => Silent'
    BY <1>1, <1>2 DEF Quiet, Silent, OnlyMessages, Left
  <1> QED
    BY <1>1, <1>2, <1>3, <1>4, <1>5, <1>6 DEF Quiet

\* A read of a header by main(): it is the response's.
LEMMA HeadQuiet ==
    ASSUME QInv, sent = 0, RecvHead
    PROVE  Quiet'
  <1> DEFINE m == ReplyTo(request)
             H == HeaderOf(m)
             B == BodyOf(m)
  <1>1. Quiet
    BY DEF QInv
  <1>2. /\ main = "recvHead" /\ Len(stream) >= HeaderSize
        /\ stream' = SubSeq(stream, HeaderSize + 1, Len(stream))
        /\ UNCHANGED <<events, buf, request, wire, server, closed>>
    BY DEF RecvHead, Rest
  <1>3. SubSeq(stream, 1, HeaderSize) = HeaderOf(stream[1].msg) =>
          response' = stream[1].msg /\ main' = "recvBody" /\ UNCHANGED fault
    BY DEF RecvHead, First
  <1>4. request.rpc # "message" /\ Expected
    BY <1>1, <1>2 DEF Quiet
  <1>5. stream # <<>>
    <2>1. Len(<<>>) = 0
      OBVIOUS
    <2> QED
      BY <1>2, <2>1 DEF HeaderSize
  <1>6. /\ server = <<>>
        /\ \/ wire = Left(<<B>>) /\ stream = H
           \/ wire = Left(<<>>) /\ stream = H \o B
           \/ closed /\ wire = Left(<<>>) /\ stream = H
    BY <1>4, <1>5 DEF Expected
  <1>7. /\ SubSeq(H \o B, 1, HeaderSize) = H /\ (H \o B)[1].msg = m
        /\ SubSeq(H \o B, HeaderSize + 1, Len(H \o B)) = B
        /\ SubSeq(H, 1, HeaderSize) = H /\ H[1].msg = m
        /\ SubSeq(H, HeaderSize + 1, Len(H)) = <<>>
    BY ReplyReads
  <1>8. SubSeq(stream, 1, HeaderSize) = H /\ stream[1].msg = m
    <2> HIDE DEF H, B, m
    <2> QED
      BY <1>6, <1>7
  <1>9. \/ wire = Left(<<B>>) /\ stream' = <<>>
        \/ wire = Left(<<>>) /\ stream' = B
        \/ closed /\ wire = Left(<<>>) /\ stream' = <<>>
    <2> HIDE DEF H, B, m
    <2> QED
      BY <1>2, <1>6, <1>7
  <1>10. response' = m /\ main' = "recvBody" /\ UNCHANGED fault
    BY <1>3, <1>8
  <1>11. m' = m /\ B' = B
    BY <1>2
  <1>12. BodyExpected'
    BY <1>2, <1>6, <1>9, <1>10, <1>11 DEF BodyExpected, Left
  <1> QED
    BY <1>1, <1>2, <1>4, <1>10, <1>12 DEF Quiet

\* A read of a body by main(): it is the response's.
LEMMA TailQuiet ==
    ASSUME QInv, sent = 0, RecvBody
    PROVE  Quiet'
  <1> DEFINE m == ReplyTo(request)
             B == BodyOf(m)
  <1>1. Quiet
    BY DEF QInv
  <1>2. /\ main = "recvBody" /\ main' = "unlock"
        /\ Len(stream) >= BodySize(response)
        /\ stream' = SubSeq(stream, BodySize(response) + 1, Len(stream))
        /\ SubSeq(stream, 1, BodySize(response)) = BodyOf(response) => UNCHANGED response
        /\ UNCHANGED <<events, buf, request, wire, server, closed, fault>>
    BY DEF RecvBody, Rest, First
  <1>3. /\ server = <<>> /\ response = m /\ request.rpc # "message"
        /\ \/ wire = Left(<<B>>) /\ stream = <<>>
           \/ wire = Left(<<>>) /\ stream = B
           \/ closed /\ wire = Left(<<>>) /\ stream = <<>>
    BY <1>1, <1>2 DEF Quiet, BodyExpected
  <1>4. /\ BodySize(m) \in Nat \ {0}
        /\ SubSeq(B, 1, BodySize(m)) = B /\ SubSeq(B, BodySize(m) + 1, Len(B)) = <<>>
    BY ReplyParts, ReplyReads
  <1>5. stream # <<>>
    <2>1. Len(<<>>) = 0
      OBVIOUS
    <2> QED
      BY <1>2, <1>3, <1>4, <2>1
  <1>6. wire = Left(<<>>) /\ stream = B
    BY <1>3, <1>5
  <1>7. stream' = <<>> /\ response' = m
    <2>1. SubSeq(stream, 1, BodySize(response)) = BodyOf(response)
      BY <1>3, <1>4, <1>6
    <2> HIDE DEF m, B
    <2> QED
      BY <1>2, <1>3, <1>4, <1>6, <2>1
  <1>8. DOMAIN <<>> = {} /\ m' = m
    BY <1>2
  <1>9. Silent'
    BY <1>2, <1>3, <1>6, <1>7, <1>8 DEF Silent, OnlyMessages, Left
  <1> QED
    BY <1>1, <1>2, <1>7, <1>8, <1>9 DEF Quiet

\* A request is sent; if it waits for no response, it stays silent.
LEMMA SendQuiet ==
    ASSUME QInv, sent = 0, Send
    PROVE  Quiet'
  <1>1. Quiet
    BY DEF QInv
  <1>2. /\ main = "send" /\ server' = IF closed THEN server ELSE Append(server, request)
        /\ \/ main' = (IF request.rpc = "message" THEN "unlock" ELSE "recvHead") /\ UNCHANGED fault
           \/ closed /\ fault' = "sigpipe" /\ UNCHANGED main
        /\ UNCHANGED <<events, buf, request, response, wire, stream, closed>>
    BY DEF Send, NextIsRecv, sends
  <1>3. wire = Left(<<>>) /\ stream = <<>> /\ OnlyMessages(server)
    BY <1>1, <1>2 DEF Quiet, Silent
  <1>4. PICK S : server \in Seq(S)
    BY DEF QInv
  <1>5. (ReplyTo(request))' = ReplyTo(request)
    BY <1>2
  <1>6. CASE closed
    <2>1. server' = <<>> /\ server = <<>>
      BY <1>1, <1>2, <1>6 DEF Quiet
    <2>2. Silent'
      BY <1>2, <1>3, <2>1 DEF Silent, OnlyMessages, Left
    <2>3. Expected'
      BY <1>2, <1>3, <1>6, <2>1 DEF Expected, Left
    <2> QED
      BY <1>1, <1>2, <1>5, <1>6, <2>1, <2>2, <2>3 DEF Quiet
  <1>7. CASE ~closed
    <2>1. /\ server' = Append(server, request) /\ UNCHANGED fault
          /\ main' = (IF request.rpc = "message" THEN "unlock" ELSE "recvHead")
      BY <1>2, <1>7
    <2>2. /\ Len(server) \in Nat /\ DOMAIN server = 1..Len(server)
          /\ Len(server') = Len(server) + 1
          /\ DOMAIN server' = 1..Len(server) + 1
          /\ server'[Len(server) + 1] = request
          /\ \A k \in 1..Len(server) : server'[k] = server[k]
      <3> DEFINE R == S \cup {request}
      <3>1. server \in Seq(R)
        BY <1>4, SeqMonotonic
      <3>2. request \in R
        OBVIOUS
      <3> HIDE DEF R
      <3> QED
        BY <2>1, <3>1, <3>2, AppendProperties, LenProperties
    <2>3. CASE request.rpc = "message"
      <3>1. OnlyMessages(server')
        BY <1>3, <2>2, <2>3 DEF OnlyMessages
      <3>2. Silent'
        BY <1>2, <1>3, <3>1 DEF Silent, OnlyMessages, Left
      <3> QED
        BY <1>1, <1>2, <1>7, <2>1, <2>3, <3>2 DEF Quiet
    <2>4. CASE request.rpc # "message"
      <3>1. server' # <<>>
        <4>1. Len(<<>>) = 0
          OBVIOUS
        <4> QED
          BY <2>2, <4>1
      <3>2. /\ server'[Len(server')] = request'
            /\ \A k \in 1..Len(server') - 1 : server'[k].rpc = "message"
        BY <1>2, <1>3, <2>2 DEF OnlyMessages
      <3>3. Expected'
        BY <1>2, <1>3, <3>1, <3>2 DEF Expected, Left
      <3> QED
        BY <1>1, <1>2, <1>7, <2>1, <2>4, <3>3 DEF Quiet
    <2> QED
      BY <2>3, <2>4
  <1> QED
    BY <1>6, <1>7

\* A step of main().
LEMMA MainQuiet ==
    ASSUME QInv, sent = 0, MainThread
    PROVE  Quiet'
  <1>1. Quiet
    BY DEF QInv
  <1>2. CASE Command
    <2>1. Silent /\ UNCHANGED <<events, buf, network>> /\ main' \in {"command", "lock"}
      BY <1>1, <1>2 DEF Command, Quiet
    <2>2. fault' \in {"segv", fault}
      BY <1>2 DEF Command
    <2>3. Silent' /\ UNCHANGED <<closed, server, wire>>
      BY <2>1 DEF Silent, OnlyMessages, Left, network, sends
    <2> QED
      BY <1>1, <2>1, <2>2, <2>3 DEF Quiet, Left
  <1>3. CASE Lock
    <2>1. /\ main = "lock" /\ main' = "send"
          /\ UNCHANGED <<events, buf, network, fault>>
      BY <1>3 DEF Lock
    <2>2. Silent' /\ UNCHANGED <<closed, server, wire>>
      BY <1>1, <2>1 DEF Quiet, Silent, OnlyMessages, Left, network, sends
    <2> QED
      BY <1>1, <2>1, <2>2 DEF Quiet, Left
  <1>4. CASE RecvFails
    <2>1. /\ closed /\ stream' = <<>> /\ fault' = "uninitialised"
          /\ main \in {"recvHead", "recvBody"}
          /\ UNCHANGED <<main, events, buf, request, response, wire, server, closed>>
      BY <1>4 DEF RecvFails, control
    <2>2. server = <<>> /\ wire = Left(<<>>)
      BY <1>1, <2>1 DEF Quiet
    <2>3. Expected'
      BY <2>1, <2>2 DEF Expected, Left
    <2>4. (ReplyTo(request))' = ReplyTo(request)
      BY <2>1
    <2>5. main = "recvBody" => BodyExpected'
      BY <1>1, <2>1, <2>2, <2>4 DEF Quiet, BodyExpected, Left
    <2> QED
      BY <1>1, <2>1, <2>3, <2>5 DEF Quiet
  <1>5. CASE Unlock
    <2>1. /\ main = "unlock" /\ main' = "return"
          /\ UNCHANGED <<events, request, response, buf, network, fault>>
      BY <1>5 DEF Unlock
    <2>2. Silent' /\ UNCHANGED <<closed, server, wire>> /\ (ReplyTo(request))' = ReplyTo(request)
      BY <1>1, <2>1 DEF Quiet, Silent, OnlyMessages, Left, network, sends
    <2> QED
      BY <1>1, <2>1, <2>2 DEF Quiet, Left
  <1>6. CASE Return
    <2>1. /\ main = "return" /\ main' = "command" /\ events' \in {"lock", events}
          /\ UNCHANGED <<request, buf, network, fault>>
      BY <1>6 DEF Return
    <2>2. Silent' /\ UNCHANGED <<closed, server, wire>>
      BY <1>1, <2>1 DEF Quiet, Silent, OnlyMessages, Left, network, sends
    <2> QED
      BY <1>1, <2>1, <2>2 DEF Quiet, Left
  <1> QED
    BY <1>2, <1>3, <1>4, <1>5, <1>6, SendQuiet, HeadQuiet, TailQuiet DEF MainThread

\* A step of handleEvents: with the mutex it finds nothing to read.
LEMMA EventsQuiet ==
    ASSUME QInv, sent = 0, handleEvents
    PROVE  Quiet'
  <1>1. Quiet /\ LInv
    BY DEF QInv
  <1>2. UNCHANGED <<main, request, response, server, wire, closed, fault>>
    BY DEF handleEvents, EventsLock, EventsRecv, EventsUnlock, EventsPeek, network, sends
  <1>3. events # "peek" /\ buf.msg.kind # "event"
    BY <1>1 DEF Quiet
  <1>4. UNCHANGED <<stream, buf>> /\ events' # "peek"
    <2>1. CASE EventsLock
      BY <1>3, <2>1 DEF EventsLock, network, sends
    <2>2. CASE EventsUnlock
      BY <1>3, <2>2 DEF EventsUnlock, network, sends
    <2>3. CASE EventsRecv
      <3>1. events = "recv"
        BY <2>3 DEF EventsRecv
      <3>2. stream = <<>>
        BY <1>1, <3>1 DEF LInv, LockDiscipline, Quiet, Silent
      <3>3. Len(<<>>) = 0 /\ SubSeq(<<>>, 1, 0) = <<>>
        OBVIOUS
      <3>4. /\ UNCHANGED buf
            /\ stream' = SubSeq(stream, 0 + 1, Len(stream))
            /\ events' = "retry"
        BY <2>3, <3>2, <3>3 DEF EventsRecv, Rest, Taken, HeaderSize
      <3> QED
        BY <3>2, <3>3, <3>4
    <2> QED
      BY <1>3, <2>1, <2>2, <2>3 DEF handleEvents, EventsPeek
  <1>5. (ReplyTo(request))' = ReplyTo(request)
    BY <1>2
  <1>6. (Expected => Expected') /\ (BodyExpected => BodyExpected') /\ (Silent => Silent')
    BY <1>2, <1>4 DEF Expected, BodyExpected, Silent, OnlyMessages, Left
  <1> QED
    BY <1>1, <1>2, <1>4, <1>5, <1>6 DEF Quiet

\* The requests stay a sequence, and events are not taken back.
LEMMA ServerStays ==
    ASSUME QInv, Next
    PROVE  (\E S : server' \in Seq(S)) /\ sent' \in Nat /\ (sent' = 0 => sent = 0 /\ ~Event)
  <1>1. sent \in Nat
    BY DEF QInv
  <1>2. PICK S : server \in Seq(S)
    BY DEF QInv
  <1>3. Event => sent' = sent + 1
    BY DEF Event
  <1>4. CASE MainThread
    <2>1. UNCHANGED sent
      BY <1>4 DEF MainThread, Command, Lock, Send, RecvHead, RecvBody, RecvFails, Unlock,
                  Return, network
    <2>2. server' \in {server, Append(server, request)}
      BY <1>4 DEF MainThread, Command, Lock, Send, RecvHead, RecvBody, RecvFails, Unlock,
                  Return, network
    <2>3. server \in Seq(S \cup {request}) /\ request \in S \cup {request}
      BY <1>2, SeqMonotonic
    <2>4. Append(server, request) \in Seq(S \cup {request})
      BY <2>3, AppendProperties
    <2>5. ~Event
      BY <1>1, <1>3, <2>1
    <2> QED
      BY <1>1, <2>1, <2>2, <2>3, <2>4, <2>5
  <1>5. CASE handleEvents \/ (\E thread \in 0..MaxEvents : SendBody(thread)) \/ Close
    <2>1. server' \in {server, <<>>} /\ UNCHANGED sent
      BY <1>5 DEF handleEvents, EventsLock, EventsRecv, EventsUnlock, EventsPeek, SendBody, Close,
                  network
    <2>2. ~Event /\ <<>> \in Seq(S)
      BY <1>1, <1>3, <2>1
    <2> QED
      BY <1>1, <1>2, <2>1, <2>2
  <1>6. CASE Reply
    <2>1. server # <<>> /\ server' = Tail(server) /\ UNCHANGED sent
      BY <1>6 DEF Reply
    <2>2. server' \in Seq(S)
      BY <1>2, <2>1, HeadTailProperties
    <2>3. ~Event
      BY <1>1, <1>3, <2>1
    <2> QED
      BY <1>1, <2>1, <2>2, <2>3
  <1>7. CASE Event
    <2>1. UNCHANGED server /\ sent' = sent + 1
      BY <1>7 DEF Event
    <2> QED
      BY <1>1, <1>2, <2>1
  <1> QED
    BY <1>4, <1>5, <1>6, <1>7 DEF Next, Server

LEMMA InitQInv == Init => QInv
  <1> SUFFICES ASSUME Init PROVE QInv
    OBVIOUS
  <1>1. LInv
    BY InitLInv
  <1>2. server \in Seq({}) /\ DOMAIN <<>> = {}
    BY DEF Init
  <1>3. buf.msg.kind # "event"
    BY DEF Init, Unit, Nothing
  <1>4. wire = Left(<<>>)
    BY LeftProperties DEF Init
  <1>5. Quiet
    BY <1>2, <1>3, <1>4 DEF Init, Quiet, Silent, OnlyMessages
  <1> QED
    BY <1>1, <1>2, <1>5 DEF QInv, Init

LEMMA NextQInv == QInv /\ [Next]_vars => QInv'
  <1> SUFFICES ASSUME QInv, [Next]_vars PROVE QInv'
    OBVIOUS
  <1>1. LInv'
    BY MainLInv, EventsLInv, RestLInv DEF Next, QInv
  <1>2. CASE Next
    <2>1. (\E S : server' \in Seq(S)) /\ sent' \in Nat /\ (sent' = 0 => sent = 0 /\ ~Event)
      BY <1>2, ServerStays
    <2>2. ASSUME sent' = 0 PROVE Quiet'
      BY <1>2, <2>1, <2>2, MainQuiet, EventsQuiet, ReplyQuiet, BodyQuiet, CloseQuiet
         DEF Next, Server
    <2> QED
      BY <1>1, <2>1, <2>2 DEF QInv
  <1>3. CASE UNCHANGED vars
    <2>1. /\ UNCHANGED <<main, events, request, response, buf, server, wire, stream, sent>>
          /\ UNCHANGED <<closed, fault>>
      BY <1>3 DEF vars, control, network, sends
    <2>2. (ReplyTo(request))' = ReplyTo(request)
      BY <2>1
    <2>3. (Expected => Expected') /\ (BodyExpected => BodyExpected') /\ (Silent => Silent')
      BY <2>1, <2>2 DEF Expected, BodyExpected, Silent, OnlyMessages, Left
    <2>4. Quiet => Quiet'
      BY <2>1, <2>2, <2>3 DEF Quiet
    <2> QED
      BY <1>1, <2>1, <2>4 DEF QInv
  <1> QED
    BY <1>2, <1>3

\* As long as no other user has sent a message, what sendReqRpc takes for the
\* response is the response to what it has sent, with the value the server has
\* given it, and its two reads are never out of step with the stream (client.c
\* lines 107-126); it is left with bytes no one has written, or killed by
\* SIGPIPE, only when the server has gone.
THEOREM ResponseIsReplyWithoutEventsHolds == Spec => []ResponseIsReplyWithoutEvents
  <1>1. QInv => ResponseIsReplyWithoutEvents
    <2> SUFFICES ASSUME QInv, sent = 0
                 PROVE  /\ ResponseIsReply
                        /\ main = "return" /\ request.rpc # "message" =>
                             response.val = Answer(request)
                        /\ fault \in {"uninitialised", "sigpipe"} => closed
      BY DEF ResponseIsReplyWithoutEvents
    <2>1. Quiet
      BY DEF QInv
    <2>2. /\ ReplyTo(request).kind = "reply" /\ ReplyTo(request).id = request.id
          /\ ReplyTo(request).val = Answer(request)
      BY DEF ReplyTo
    <2> QED
      BY <2>1, <2>2 DEF Quiet, ResponseIsReply
  <1> QED
    BY InitQInv, NextQInv, <1>1, PTL DEF Spec

-----------------------------------------------------------------------------
(* The types, and the order of events.                                       *)

\* What a number in a message can be.  Before login returns, it has been said
\* by login or by an event.
LoginValues == {0, 1, Garbage}
Values == LoginValues \cup Rooms \cup {General, RoomNotFound}
Known == IF events = "none" THEN LoginValues ELSE Values

Typable == {"hello", "join", "list", "message"}
Calls == Typable \cup {"login", Nothing.rpc}
Kinds == {"none", "reply", "event"}
Requests == [id : Nat, rpc : Calls, arg : Nat]
Messages(V) == [kind : Kinds, id : Nat, rpc : Calls, val : V]
Units(V) == [msg : Messages(V), at : Nat \ {0}]
Parts(V) == {p \in Seq(Units(V)) : \A k \in DOMAIN p : p[k].at > HeaderSize}

Faults == {"none", "segv", "sigpipe", "misread", "uninitialised"}

Typed ==
    /\ request \in Requests /\ request.id \in 1..MaxCommands + 1
    /\ response \in Messages(Known)
    /\ buf \in Units(Values)
    /\ sessionId \in LoginValues
    /\ currentRoom \in Rooms \cup {General, 1, Garbage}
    /\ stream \in Seq(Units(Known))
    /\ wire \in [0..MaxEvents -> Seq(Parts(Known))]
    /\ sending \in {Nobody} \cup 0..MaxEvents /\ cuts \in 0..MaxCuts
    /\ server \in Seq(Requests)
    /\ events = "none" => \A k \in DOMAIN server : server[k].rpc = "login"
    /\ sent \in 0..MaxEvents /\ closed \in BOOLEAN
    /\ shown \in Seq([id : Nat, whole : BOOLEAN])
    /\ fault \in Faults

\* The unit an event is recognised by, where such units are in the stream (what
\* the server's threads have left to send are bodies, which have none), and when
\* handleEvents has one that it has not shown.
IsEvent(u) == u.msg.kind = "event" /\ u.at = 1
InStream == {k \in DOMAIN stream : IsEvent(stream[k])}
InBuf == events \in {"unlock", "peek"} /\ IsEvent(buf)

\* The events on their way are ones that were sent, in the order in which their
\* headers were: those shown, the one in the buffer, those in the stream.
StreamLined ==
    /\ \A k \in InStream : stream[k].msg.id \in 1..sent
    /\ \A j, k \in InStream : j < k => stream[j].msg.id < stream[k].msg.id
ShownLined ==
    /\ \A k \in DOMAIN shown : shown[k].id \in 1..sent
    /\ \A j, k \in DOMAIN shown : j < k => shown[j].id < shown[k].id
    /\ \A j \in DOMAIN shown, k \in InStream : shown[j].id < stream[k].msg.id
BufLined ==
    /\ events = "peek" => InBuf
    /\ InBuf =>
         /\ buf.msg.id \in 1..sent
         /\ \A j \in DOMAIN shown : shown[j].id < buf.msg.id
         /\ \A k \in InStream : buf.msg.id < stream[k].msg.id
Lined == StreamLined /\ ShownLined /\ BufLined

\* The inductive invariant.
OInv == LInv /\ Typed /\ Lined

\* A message in which no number is unheard of stays one when more are heard of.
LEMMA Wider ==
    ASSUME NEW V, NEW W, V \subseteq W
    PROVE  /\ Messages(V) \subseteq Messages(W)
           /\ Seq(Units(V)) \subseteq Seq(Units(W))
           /\ Seq(Parts(V)) \subseteq Seq(Parts(W))
  <1>1. Messages(V) \subseteq Messages(W)
    BY DEF Messages
  <1>2. Units(V) \subseteq Units(W)
    BY <1>1 DEF Units
  <1>3. Seq(Units(V)) \subseteq Seq(Units(W))
    BY <1>2, SeqMonotonic
  <1>4. Parts(V) \subseteq Parts(W)
    BY <1>3 DEF Parts
  <1> QED
    BY <1>1, <1>3, <1>4, SeqMonotonic

\* A message as it is sent: only its header's first unit tells of an event.
LEMMA MessageSent ==
    ASSUME NEW V, NEW m \in Messages(V)
    PROVE  /\ HeaderOf(m) \in Seq(Units(V)) /\ Len(HeaderOf(m)) = 2
           /\ HeaderOf(m)[1] = Unit(m, 1) /\ HeaderOf(m)[2] = Unit(m, 2)
           /\ BodySends(m) \in Seq(Parts(V))
  <1>1. BodySize(m) \in 1..3
    BY DEF BodySize
  <1>2. \A k \in Nat \ {0} : Unit(m, k) \in Units(V) /\ Unit(m, k).at = k
    BY DEF Unit, Units
  <1>3. HeaderOf(m) = [k \in 1..2 |-> Unit(m, k)]
    BY DEF HeaderOf, HeaderSize
  <1>4. HeaderOf(m) \in [1..2 -> Units(V)]
    BY <1>2, <1>3
  <1>5. HeaderOf(m) \in Seq(Units(V)) /\ Len(HeaderOf(m)) = 2
    <2>1. HeaderOf(m) \in Seq(Units(V))
      BY <1>4, SeqDef
    <2> QED
      BY <1>4, <2>1, LenProperties
  <1>6. PICK n : n = BodySize(m)
    OBVIOUS
  <1>7. BodyOf(m) = [k \in 1..n |-> Unit(m, 2 + k)] /\ n \in Nat
    BY <1>1, <1>6 DEF BodyOf, HeaderSize
  <1>8. \A k \in 1..n : /\ BodyOf(m)[k] \in Units(V)
                        /\ BodyOf(m)[k].at > HeaderSize
    <2>1. \A k \in 1..n : 2 + k \in Nat \ {0} /\ 2 + k > 2
      BY <1>7
    <2> QED
      BY <1>2, <1>7, <2>1 DEF HeaderSize
  <1>9. BodyOf(m) \in Parts(V)
    <2>1. BodyOf(m) \in [1..n -> Units(V)]
      BY <1>7, <1>8
    <2>2. BodyOf(m) \in Seq(Units(V)) /\ DOMAIN BodyOf(m) = 1..n
      BY <1>7, <2>1, SeqDef
    <2> QED
      BY <1>8, <2>2 DEF Parts
  <1>10. ASSUME m.kind = "event" PROVE BodySends(m) \in Seq(Parts(V))
    <2>1. BodySends(m) = [k \in 1..n |-> <<BodyOf(m)[k]>>]
      BY <1>6, <1>10 DEF BodySends
    <2>2. ASSUME NEW k \in 1..n PROVE <<BodyOf(m)[k]>> \in Parts(V)
      <3>1. BodyOf(m)[k] \in Units(V) /\ BodyOf(m)[k].at > HeaderSize
        BY <1>8
      <3>2. \A u \in Units(V) : <<u>> \in Seq(Units(V)) /\ DOMAIN <<u>> = {1} /\ <<u>>[1] = u
        OBVIOUS
      <3> QED
        BY <3>1, <3>2 DEF Parts
    <2>3. BodySends(m) \in [1..n -> Parts(V)]
      BY <2>1, <2>2
    <2>4. n \in Nat
      BY <1>7
    <2>5. [1..n -> Parts(V)] \subseteq Seq(Parts(V))
      BY <2>4, SeqDef
    <2> QED
      BY <2>3, <2>5
  <1>11. ASSUME m.kind # "event" PROVE BodySends(m) \in Seq(Parts(V))
    <2>1. BodySends(m) = <<BodyOf(m)>>
      BY <1>11 DEF BodySends
    <2>2. \A P : \A p \in P : <<p>> \in Seq(P)
      OBVIOUS
    <2> QED
      BY <1>9, <2>1, <2>2
  <1> QED
    BY <1>3, <1>5, <1>10, <1>11

\* What reading n units leaves.
LEMMA DropRead ==
    ASSUME NEW U, NEW s \in Seq(U), NEW n \in 0..Len(s),
           NEW t, t = SubSeq(s, n + 1, Len(s))
    PROVE  /\ t \in Seq(U) /\ DOMAIN t = 1..Len(s) - n
           /\ \A k \in 1..Len(s) - n : t[k] = s[k + n] /\ k + n \in DOMAIN s
  <1>0. Len(s) \in Nat /\ n \in Nat /\ n <= Len(s)
    BY LenProperties
  <1>1. Len(s) \in Nat /\ DOMAIN s = 1..Len(s) /\ n \in Nat /\ n <= Len(s)
    BY <1>0, LenProperties
  <1>2. \A k \in n + 1..Len(s) : s[k] \in U
    BY <1>1, ElementOfSeq
  <1>3. /\ t \in Seq(U)
        /\ Len(t) = IF n + 1 <= Len(s) THEN Len(s) - (n + 1) + 1 ELSE 0
        /\ \A k \in 1..Len(s) - (n + 1) + 1 : t[k] = s[n + 1 + k - 1]
    <2>1. n + 1 \in Int /\ Len(s) \in Int
      BY <1>1
    <2> QED
      BY <1>2, <2>1, SubSeqProperties
  <1>4. Len(t) = Len(s) - n
    BY <1>0, <1>3
  <1>5. DOMAIN t = 1..Len(s) - n
    BY <1>3, <1>4, LenProperties
  <1>6. \A k \in 1..Len(s) - n : k + n \in DOMAIN s /\ n + 1 + k - 1 = k + n
    BY <1>1
  <1>7. \A k \in 1..Len(s) - n : t[k] = s[k + n]
    BY <1>1, <1>3, <1>6
  <1> QED
    BY <1>3, <1>5, <1>6, <1>7

-----------------------------------------------------------------------------
(* The order of events, for what the steps do to the sequences.              *)

\* Nothing moves, and handleEvents has no other event than before.
LEMMA LinedStays ==
    ASSUME Lined, UNCHANGED <<buf, stream, sent, shown>>,
           InBuf' => InBuf, events' = "peek" => InBuf'
    PROVE  Lined'
  <1>1. InStream' = InStream
    BY DEF InStream
  <1>2. StreamLined' /\ ShownLined'
    BY <1>1 DEF Lined, StreamLined, ShownLined
  <1>3. BufLined'
    BY <1>1 DEF Lined, BufLined
  <1> QED
    BY <1>2, <1>3 DEF Lined

\* n units are read.
LEMMA LinedRead ==
    ASSUME Typed, Lined, NEW n \in 0..Len(stream),
           stream' = SubSeq(stream, n + 1, Len(stream)), UNCHANGED <<sent, shown>>
    PROVE  /\ StreamLined' /\ ShownLined'
           /\ \A k \in InStream' : k \in Nat /\ k + n \in InStream /\ stream'[k] = stream[k + n]
  <1>1. stream \in Seq(Units(Known))
    BY DEF Typed
  <1>2. /\ DOMAIN stream' = 1..Len(stream) - n
        /\ \A k \in 1..Len(stream) - n : stream'[k] = stream[k + n] /\ k + n \in DOMAIN stream
    BY <1>1, DropRead
  <1>3. n \in Nat
    BY LenProperties
  <1>4. \A k \in InStream' : k \in Nat /\ k + n \in InStream /\ stream'[k] = stream[k + n]
    BY <1>2 DEF InStream
  <1>6. \A j, k \in InStream' : j < k => j + n < k + n
    BY <1>3, <1>4
  <1>7. StreamLined'
    <2>1. \A k \in InStream' : stream'[k].msg.id \in 1..sent'
      BY <1>4 DEF Lined, StreamLined
    <2>2. \A j, k \in InStream' : j < k => stream'[j].msg.id < stream'[k].msg.id
      BY <1>4, <1>6 DEF Lined, StreamLined
    <2> QED
      BY <2>1, <2>2 DEF StreamLined
  <1>9. ShownLined'
    BY <1>4 DEF Lined, ShownLined
  <1> QED
    BY <1>4, <1>7, <1>9

LEMMA LinedReadByMain ==
    ASSUME Typed, Lined, NEW n \in 0..Len(stream),
           stream' = SubSeq(stream, n + 1, Len(stream)),
           UNCHANGED <<sent, shown, events, buf>>
    PROVE  Lined'
  <1>1. /\ StreamLined' /\ ShownLined'
        /\ \A k \in InStream' : k + n \in InStream /\ stream'[k] = stream[k + n]
    BY LinedRead
  <1>2. InBuf' = InBuf
    BY DEF InBuf
  <1>3. BufLined'
    BY <1>1, <1>2 DEF Lined, BufLined
  <1> QED
    BY <1>1, <1>3 DEF Lined

\* handleEvents has read n units, the first of them to buf.
LEMMA LinedReadByEvents ==
    ASSUME Typed, Lined, NEW n \in 0..Len(stream),
           stream' = SubSeq(stream, n + 1, Len(stream)), UNCHANGED <<sent, shown>>,
           events' = IF n = 0 THEN "retry" ELSE "unlock",
           n # 0 => buf' = stream[1]
    PROVE  Lined'
  <1>1. /\ StreamLined' /\ ShownLined'
        /\ \A k \in InStream' : k \in Nat /\ k + n \in InStream /\ stream'[k] = stream[k + n]
    BY LinedRead
  <1>3. stream \in Seq(Units(Known))
    BY DEF Typed
  <1>4. DOMAIN stream = 1..Len(stream) /\ Len(stream) \in Nat
    BY <1>3, LenProperties
  <1>5. ASSUME InBuf' PROVE 1 \in InStream /\ n \in Nat \ {0} /\ buf' = stream[1]
    <2>1. n # 0
      BY <1>5 DEF InBuf
    <2>2. n \in Nat \ {0} /\ 1 \in DOMAIN stream
      BY <1>4, <2>1
    <2> QED
      BY <1>5, <2>1, <2>2 DEF InBuf, InStream
  <1>6. ASSUME InBuf', NEW k \in InStream' PROVE buf'.msg.id < stream'[k].msg.id
    <2>1. 1 < k + n
      <3>1. k \in DOMAIN stream'
        BY DEF InStream
      <3>2. DOMAIN stream' = 1..Len(stream) - n
        BY <1>3, DropRead
      <3> QED
        BY <1>4, <1>5, <1>6, <3>1, <3>2
    <2> QED
      BY <1>1, <1>5, <1>6, <2>1 DEF Lined, StreamLined
  <1>7. BufLined'
    <2>1. events' # "peek"
      OBVIOUS
    <2> QED
      BY <1>5, <1>6, <2>1 DEF Lined, StreamLined, ShownLined, BufLined
  <1> QED
    BY <1>1, <1>7 DEF Lined

\* A send arrives: if there is a header of an event in it, of a new one.
LEMMA LinedSent ==
    ASSUME Typed, Lined, NEW part \in Seq(Units(Known)),
           stream' = stream \o part, UNCHANGED <<shown, buf, events>>,
           sent' \in {sent, sent + 1},
           \A k \in 1..Len(part) :
             IsEvent(part[k]) => k = 1 /\ sent' = sent + 1 /\ part[k].msg.id = sent'
    PROVE  Lined'
  <1>1. stream \in Seq(Units(Known))
    BY DEF Typed
  <1>2. Len(stream) \in Nat /\ DOMAIN stream = 1..Len(stream) /\ Len(part) \in Nat
    BY <1>1, LenProperties
  <1>3. /\ stream' \in Seq(Units(Known)) /\ Len(stream') = Len(stream) + Len(part)
        /\ \A k \in 1..Len(stream) + Len(part) :
             stream'[k] = IF k <= Len(stream) THEN stream[k] ELSE part[k - Len(stream)]
    BY <1>1, ConcatProperties
  <1>4. DOMAIN stream' = 1..Len(stream) + Len(part)
    BY <1>3, LenProperties
  <1>5. \A k \in InStream' :
            \/ k \in InStream /\ stream'[k] = stream[k]
            \/ k = Len(stream) + 1 /\ sent' = sent + 1 /\ stream'[k].msg.id = sent'
    <2> SUFFICES ASSUME NEW k \in InStream'
                 PROVE  \/ k \in InStream /\ stream'[k] = stream[k]
                        \/ k = Len(stream) + 1 /\ sent' = sent + 1 /\ stream'[k].msg.id = sent'
      OBVIOUS
    <2>1. k \in 1..Len(stream) + Len(part) /\ IsEvent(stream'[k])
      BY <1>4 DEF InStream
    <2>2. CASE k <= Len(stream)
      BY <1>2, <1>3, <2>1, <2>2 DEF InStream
    <2>3. CASE ~(k <= Len(stream))
      <3>1. stream'[k] = part[k - Len(stream)] /\ k - Len(stream) \in 1..Len(part)
        BY <1>2, <1>3, <2>1, <2>3
      <3>2. k - Len(stream) = 1 /\ sent' = sent + 1 /\ stream'[k].msg.id = sent'
        BY <2>1, <3>1
      <3> QED
        BY <1>2, <2>1, <3>2
    <2> QED
      BY <2>2, <2>3
  <1>6. InBuf' = InBuf
    BY DEF InBuf
  <1>7. /\ sent \in Nat /\ sent' \in Nat
        /\ \A i \in 1..sent : i \in 1..sent' /\ i < sent + 1
    BY DEF Typed
  <1>8. StreamLined'
    <2>1. ASSUME NEW k \in InStream' PROVE stream'[k].msg.id \in 1..sent'
      <3>1. CASE k \in InStream /\ stream'[k] = stream[k]
        <4>1. stream[k].msg.id \in 1..sent
          BY <3>1 DEF Lined, StreamLined
        <4> QED
          BY <1>7, <3>1, <4>1
      <3>2. CASE sent' = sent + 1 /\ stream'[k].msg.id = sent'
        <4>1. sent' \in 1..sent'
          BY <1>7, <3>2
        <4> QED
          BY <3>2, <4>1
      <3> QED
        BY <1>5, <3>1, <3>2
    <2>2. ASSUME NEW j \in InStream', NEW k \in InStream', j < k
          PROVE  stream'[j].msg.id < stream'[k].msg.id
      <3>1. \A i \in InStream : i < Len(stream) + 1 /\ ~(Len(stream) + 1 < i)
        BY <1>2 DEF InStream
      <3>2. j \in InStream /\ stream'[j] = stream[j]
        <4>1. k \in InStream \/ k = Len(stream) + 1
          BY <1>5
        <4>2. j # Len(stream) + 1
          BY <1>2, <2>2, <3>1, <4>1
        <4> QED
          BY <1>5, <4>2
      <3>3. stream[j].msg.id \in 1..sent
        BY <3>2 DEF Lined, StreamLined
      <3> QED
        BY <1>5, <1>7, <2>2, <3>2, <3>3 DEF Lined, StreamLined
    <2> QED
      BY <2>1, <2>2 DEF StreamLined
  <1>9. ShownLined'
    BY <1>5, <1>7 DEF Lined, ShownLined
  <1>10. BufLined'
    BY <1>5, <1>6, <1>7 DEF Lined, BufLined
  <1> QED
    BY <1>8, <1>9, <1>10 DEF Lined

\* A thread's send, as far as the types go.
LEMMA PartSent ==
    ASSUME Typed, NEW thread \in 0..MaxEvents, NEW part \in Seq(Units(Known)),
           NEW left \in Seq(Parts(Known)), SendPart(thread, part, left)
    PROVE  /\ stream' \in Seq(Units(Known))
           /\ wire' \in [0..MaxEvents -> Seq(Parts(Known))]
           /\ sending' \in {Nobody} \cup 0..MaxEvents /\ cuts' \in 0..MaxCuts
  <1>1. stream' \in Seq(Units(Known))
    <2>1. stream \in Seq(Units(Known)) /\ stream' = stream \o part
      BY DEF Typed, SendPart
    <2> QED
      BY <2>1, ConcatProperties
  <1>2. wire' \in [0..MaxEvents -> Seq(Parts(Known))]
    BY DEF Typed, SendPart
  <1>3. sending' \in {Nobody} \cup 0..MaxEvents
    BY DEF SendPart
  <1>4. cuts' \in 0..MaxCuts
    BY ClientAssumption DEF Typed, SendPart
  <1> QED
    BY <1>1, <1>2, <1>3, <1>4

\* An event is shown.
LEMMA LinedShown ==
    ASSUME Typed, Lined, EventsPeek
    PROVE  Lined' /\ shown' \in Seq([id : Nat, whole : BOOLEAN])
  <1>1. /\ events = "peek" /\ events' = "lock"
        /\ UNCHANGED <<stream, sent, buf>>
    BY DEF EventsPeek, network, sends
  <1>2. PICK e : /\ shown' = Append(shown, e)
                 /\ e = [id |-> buf.msg.id,
                         whole |-> First(BodySize(buf.msg)) = BodyOf(buf.msg)]
    BY DEF EventsPeek
  <1>3. e.id = buf.msg.id /\ e.whole \in BOOLEAN
    BY <1>2
  <1>4. buf.msg.id \in Nat
    <2>2. buf \in Units(Values)
      BY DEF Typed
    <2> QED
      BY <2>2 DEF Units, Messages
  <1>5. e \in [id : Nat, whole : BOOLEAN]
    BY <1>2, <1>3, <1>4
  <1>6. shown \in Seq([id : Nat, whole : BOOLEAN])
    BY DEF Typed
  <1>7. /\ Len(shown) \in Nat /\ DOMAIN shown = 1..Len(shown)
        /\ shown' \in Seq([id : Nat, whole : BOOLEAN])
        /\ DOMAIN shown' = 1..Len(shown) + 1
        /\ shown'[Len(shown) + 1] = e
        /\ \A k \in 1..Len(shown) : shown'[k] = shown[k]
    BY <1>2, <1>5, <1>6, AppendProperties, LenProperties
  <1>8. \A k \in DOMAIN shown' : \/ k \in DOMAIN shown /\ shown'[k] = shown[k]
                                 \/ k = Len(shown) + 1 /\ shown'[k] = e
    BY <1>7
  <1>9. /\ InBuf /\ e.id \in 1..sent
        /\ \A j \in DOMAIN shown : shown[j].id < e.id
        /\ \A k \in InStream : e.id < stream[k].msg.id
    BY <1>1, <1>3 DEF Lined, BufLined
  <1>10. InStream' = InStream /\ ~InBuf'
    BY <1>1 DEF InStream, InBuf
  <1>11. StreamLined'
    BY <1>1, <1>10 DEF Lined, StreamLined
  <1>12. ShownLined'
    <2>1. ASSUME NEW j \in DOMAIN shown', NEW k \in DOMAIN shown', j < k
          PROVE  shown'[j].id < shown'[k].id
      <3>1. j \in DOMAIN shown /\ shown'[j] = shown[j]
        BY <1>7, <1>8, <2>1
      <3> QED
        BY <1>8, <1>9, <2>1, <3>1 DEF Lined, ShownLined
    <2>2. \A k \in DOMAIN shown' : shown'[k].id \in 1..sent'
      BY <1>1, <1>8, <1>9 DEF Lined, ShownLined
    <2>3. \A j \in DOMAIN shown', k \in InStream' : shown'[j].id < stream'[k].msg.id
      BY <1>1, <1>8, <1>9, <1>10 DEF Lined, ShownLined
    <2> QED
      BY <2>1, <2>2, <2>3 DEF ShownLined
  <1>13. BufLined'
    BY <1>1, <1>10 DEF BufLined
  <1> QED
    BY <1>7, <1>11, <1>12, <1>13 DEF Lined

-----------------------------------------------------------------------------
(* Every step keeps the types and the order.                                 *)

\* What a step that leaves the network and handleEvents alone has to show.
LEMMA OnlyMainMoves ==
    ASSUME Typed, UNCHANGED <<events, buf, network, shown>>,
           request' \in Requests, request'.id \in 1..MaxCommands + 1,
           response' \in Messages(Known), sessionId' \in LoginValues,
           currentRoom' \in Rooms \cup {General, 1, Garbage},
           fault' \in Faults
    PROVE  Typed'
  BY DEF Typed, Known, network, sends

\* An event is no one's call.
LEMMA NoCall == "" \in Calls
  <1>1. Nothing.rpc = ""
    BY DEF Nothing
  <1>2. Nothing.rpc \in Calls
    BY DEF Calls
  <1> QED
    BY <1>1, <1>2

\* What a message is made of.
LEMMA MessageMade ==
    ASSUME NEW V, NEW k \in Kinds, NEW i \in Nat, NEW r \in Calls, NEW v \in V
    PROVE  LET m == [kind |-> k, id |-> i, rpc |-> r, val |-> v]
           IN  m \in Messages(V) /\ m.kind = k /\ m.id = i
  BY DEF Messages

LEMMA InitOInv == Init => OInv
  <1> SUFFICES ASSUME Init PROVE OInv
    OBVIOUS
  <1>1. LInv
    BY InitLInv
  <1>2. Nothing \in Messages(LoginValues) /\ Nothing.kind = "none"
    <2>1. 0 \in LoginValues /\ 0 \in Nat /\ "none" \in Kinds /\ "" \in Calls
      BY NoCall DEF LoginValues, Kinds
    <2> QED
      BY <2>1, MessageMade DEF Nothing
  <1>3. Known = LoginValues /\ LoginValues \subseteq Values
    BY DEF Init, Known, Values
  <1>4. buf \in Units(Values) /\ buf.msg.kind = "none"
    <2>1. buf = Unit(Nothing, 1)
      BY DEF Init
    <2>2. Nothing \in Messages(Values)
      BY <1>2, <1>3, Wider
    <2> QED
      BY <1>2, <2>1, <2>2 DEF Unit, Units
  <1>5. DOMAIN <<>> = {}
    OBVIOUS
  <1>6. Typed
    <2>1. request \in Requests /\ request.id \in 1..MaxCommands + 1
      <3>1. request = [id |-> 1, rpc |-> "login", arg |-> 0]
        BY DEF Init
      <3>2. 1 \in 1..MaxCommands + 1
        BY ClientAssumption
      <3> QED
        BY <3>1, <3>2 DEF Requests, Calls
    <2>2. sent \in 0..MaxEvents
      BY ClientAssumption DEF Init
    <2>3. sessionId \in LoginValues /\ currentRoom \in Rooms \cup {General, 1, Garbage}
      BY DEF Init, LoginValues
    <2>4. wire \in [0..MaxEvents -> Seq(Parts(Known))]
      BY DEF Init
    <2>5. sending \in {Nobody} \cup 0..MaxEvents /\ cuts \in 0..MaxCuts /\ fault \in Faults
      BY ClientAssumption DEF Init, Faults
    <2>8. response \in Messages(Known)
      BY <1>2, <1>3 DEF Init
    <2>6. stream = <<>> /\ server = <<>>
      BY DEF Init
    <2>9. stream \in Seq(Units(Known)) /\ server \in Seq(Requests)
      BY <2>6
    <2>10. \A k \in DOMAIN server : server[k].rpc = "login"
      BY <1>5, <2>6
    <2>7. closed = FALSE /\ shown = <<>>
      BY DEF Init
    <2>11. closed \in BOOLEAN /\ shown \in Seq([id : Nat, whole : BOOLEAN])
      <3>1. shown \in Seq([id : Nat, whole : BOOLEAN])
        BY <2>7
      <3>2. closed \in BOOLEAN
        BY <2>7, Zenon
      <3> QED
        BY <3>1, <3>2
    <2> QED
      BY <1>4, <2>1, <2>2, <2>3, <2>4, <2>5, <2>8, <2>9, <2>10, <2>11 DEF Typed
  <1>7. Lined
    <2>1. InStream = {} /\ DOMAIN shown = {} /\ ~InBuf
      BY <1>4, <1>5 DEF Init, InStream, InBuf, IsEvent
    <2> QED
      BY <2>1 DEF Init, Lined, StreamLined, ShownLined, BufLined
  <1> QED
    BY <1>1, <1>6, <1>7 DEF OInv

LEMMA MainOInv ==
    ASSUME OInv, MainThread
    PROVE  Typed' /\ Lined'
  <1>1. LInv /\ Typed /\ Lined
    BY DEF OInv
  <1>2. Len(stream) \in Nat
    BY <1>1, LenProperties DEF Typed
  <1>3. CASE Command
    <2>1. UNCHANGED <<events, recvMutex, response, buf, sessionId, currentRoom, network, shown>>
      BY <1>3 DEF Command
    <2>2. PICK c \in Commands, a \in Rooms \cup {General, 65534} :
            /\ request' = [id |-> request.id + 1, rpc |-> c, arg |-> a]
            /\ fault' \in {"segv", fault}
      BY <1>3 DEF Command
    <2>3. request.id <= MaxCommands
      BY <1>3 DEF Command
    <2>4. request.id + 1 \in 1..MaxCommands + 1 /\ request.id + 1 \in Nat
      BY <1>1, <2>3, ClientAssumption DEF Typed
    <2>5. a \in Nat /\ c \in Calls
      <3>1. \A room \in Rooms : room \in Nat
        BY ClientAssumption
      <3>2. Commands \subseteq {"hello", "join", "list", "message"}
        BY ClientAssumption
      <3>3. a \in Nat
        BY <3>1 DEF General
      <3>4. c \in Typable
        BY <3>2 DEF Typable
      <3>5. c \in Calls
        BY <3>4 DEF Calls
      <3> QED
        BY <3>3, <3>5
    <2>6. request' \in Requests /\ request'.id \in 1..MaxCommands + 1
      BY <2>2, <2>4, <2>5 DEF Requests
    <2>7. Typed'
      BY <1>1, <2>1, <2>2, <2>6, OnlyMainMoves DEF Typed, Faults
    <2>8. Lined'
      BY <1>1, <2>1, LinedStays DEF InBuf, Lined, BufLined, network, sends
    <2> QED
      BY <2>7, <2>8
  <1>4. CASE Lock \/ Unlock
    <2>1. UNCHANGED <<events, request, response, buf, sessionId, currentRoom, network, shown, fault>>
      BY <1>4 DEF Lock, Unlock
    <2>2. Typed'
      BY <1>1, <2>1, OnlyMainMoves DEF Typed
    <2>3. Lined'
      BY <1>1, <2>1, LinedStays DEF InBuf, Lined, BufLined, network, sends
    <2> QED
      BY <2>2, <2>3
  <1>5. CASE Send
    <2>1. /\ main = "send" /\ server' \in {server, Append(server, request)}
          /\ fault' \in {fault, "sigpipe"}
          /\ UNCHANGED <<events, request, response, buf, sessionId, currentRoom>>
          /\ UNCHANGED <<sends, sent, closed, shown>>
      BY <1>5 DEF Send
    <2>2. events = "none" => request.rpc = "login"
      BY <1>1, <2>1 DEF LInv, LockDiscipline
    <2>3. server \in Seq(Requests) /\ request \in Requests
      BY <1>1 DEF Typed
    <2>4. /\ server' \in Seq(Requests)
          /\ events' = "none" => \A k \in DOMAIN server' : server'[k].rpc = "login"
      <3>1. CASE server' = server
        BY <1>1, <2>1, <3>1 DEF Typed
      <3>2. CASE server' = Append(server, request)
        <4>1. /\ Len(server) \in Nat /\ DOMAIN server = 1..Len(server)
              /\ server' \in Seq(Requests)
              /\ DOMAIN server' = 1..Len(server) + 1
              /\ server'[Len(server) + 1] = request
              /\ \A k \in 1..Len(server) : server'[k] = server[k]
          BY <2>3, <3>2, AppendProperties, LenProperties
        <4> QED
          BY SMTT(30), <1>1, <2>1, <2>2, <4>1 DEF Typed
      <3> QED
        BY <2>1, <3>1, <3>2
    <2>5. Typed'
      BY <1>1, <2>1, <2>4 DEF Typed, Known, sends, Faults
    <2>6. Lined'
      BY <1>1, <2>1, LinedStays DEF InBuf, Lined, BufLined, sends
    <2> QED
      BY <2>5, <2>6
  <1>6. CASE RecvHead
    <2>1. /\ Len(stream) >= 2
          /\ stream' = SubSeq(stream, 2 + 1, Len(stream))
          /\ response' \in {response, stream[1].msg}
          /\ fault' \in {fault, "misread"}
          /\ UNCHANGED <<events, recvMutex, request, buf, sessionId, currentRoom>>
          /\ UNCHANGED <<server, wire, sending, cuts, sent, closed, shown>>
      BY <1>6 DEF RecvHead, Rest, HeaderSize
    <2>2. 2 \in 0..Len(stream) /\ 1 \in 1..Len(stream)
      BY <1>2, <2>1
    <2>3. stream \in Seq(Units(Known))
      BY <1>1 DEF Typed
    <2>4. stream' \in Seq(Units(Known))
      BY <2>1, <2>2, <2>3, DropRead
    <2>5. stream[1] \in Units(Known)
      BY <2>2, <2>3, ElementOfSeq
    <2>6. response' \in Messages(Known)
      BY <1>1, <2>1, <2>5 DEF Typed, Units
    <2>7. Typed'
      BY <1>1, <2>1, <2>4, <2>6 DEF Typed, Known, Faults
    <2>8. Lined'
      BY <1>1, <2>1, <2>2, LinedReadByMain
    <2> QED
      BY <2>7, <2>8
  <1>7. CASE RecvBody
    <2>1. PICK n : n = BodySize(response)
      OBVIOUS
    <2>2. /\ Len(stream) >= n /\ n \in 1..3
          /\ stream' = SubSeq(stream, n + 1, Len(stream))
          /\ response' \in {response, [response EXCEPT !.val = Garbage]}
          /\ UNCHANGED <<events, recvMutex, request, buf, sessionId, currentRoom>>
          /\ UNCHANGED <<server, wire, sending, cuts, sent, closed, shown, fault>>
      BY <1>7, <2>1 DEF RecvBody, Rest, BodySize
    <2>3. n \in 0..Len(stream)
      BY <1>2, <2>2
    <2>4. stream \in Seq(Units(Known))
      BY <1>1 DEF Typed
    <2>5. stream' \in Seq(Units(Known))
      BY <2>2, <2>3, <2>4, DropRead
    <2>8. response' \in Messages(Known)
      <3>1. response \in Messages(Known) /\ Garbage \in Known
        BY <1>1 DEF Typed, Known, Values, LoginValues
      <3> QED
        BY <2>2, <3>1 DEF Messages
    <2>6. Typed'
      BY <1>1, <2>2, <2>5, <2>8 DEF Typed, Known
    <2>7. Lined'
      BY <1>1, <2>2, <2>3, LinedReadByMain
    <2> QED
      BY <2>6, <2>7
  <1>8. CASE Return
    <2>1. /\ main = "return" /\ events' = IF request.rpc = "login" THEN "lock" ELSE events
          /\ sessionId' \in {sessionId, response.val}
          /\ sessionId' # sessionId => request.rpc = "login"
          /\ \/ UNCHANGED currentRoom
             \/ /\ request.rpc = "join" /\ response.val # RoomNotFound
                /\ currentRoom' = response.val
          /\ response' = Nothing
          /\ UNCHANGED <<recvMutex, request, buf, network, shown, fault>>
      BY <1>8 DEF Return, Joined
    <2>2. events = "none" <=> request.rpc = "login"
      BY <1>1, <2>1 DEF LInv, LockDiscipline
    <2>3. Known \subseteq Known'
      BY <2>1, <2>2 DEF Known, Values
    <2>4. response.val \in Known
      BY <1>1 DEF Typed, Messages
    <2>5. sessionId' \in LoginValues
      BY <1>1, <2>1, <2>2, <2>4 DEF Known, Typed
    <2>6. currentRoom' \in Rooms \cup {General, 1, Garbage}
      BY <1>1, <2>1, <2>4 DEF Known, Typed, Values, LoginValues, General
    <2>7. stream' \in Seq(Units(Known')) /\ wire' \in [0..MaxEvents -> Seq(Parts(Known'))]
      <3>1. /\ Seq(Units(Known)) \subseteq Seq(Units(Known'))
            /\ Seq(Parts(Known)) \subseteq Seq(Parts(Known'))
        BY <2>3, Wider
      <3>2. stream' = stream /\ wire' = wire
        BY <2>1 DEF network, sends
      <3> QED
        BY <1>1, <3>1, <3>2 DEF Typed
    <2>8. events' # "none"
      BY <2>1, <2>2
    <2>9. response' \in Messages(Known')
      <3>1. 0 \in Known' /\ "none" \in Kinds /\ "" \in Calls
        BY NoCall DEF Known, Values, LoginValues, Kinds
      <3> QED
        BY <2>1, <3>1, MessageMade DEF Nothing
    <2>10. Typed'
      BY <1>1, <2>1, <2>5, <2>6, <2>7, <2>8, <2>9 DEF Typed, network, sends
    <2>11. Lined'
      <3>1. (InBuf' => InBuf) /\ (events' = "peek" => InBuf')
        BY <1>1, <2>1 DEF InBuf, Lined, BufLined
      <3> QED
        BY <1>1, <2>1, <3>1, LinedStays DEF network, sends
    <2> QED
      BY <2>10, <2>11
  <1>9. CASE RecvFails
    <2>1. /\ stream' = <<>> /\ fault' = "uninitialised"
          /\ UNCHANGED <<events, request, response, buf, sessionId, currentRoom>>
          /\ UNCHANGED <<server, wire, sending, cuts, sent, closed, shown>>
      BY <1>9 DEF RecvFails, control
    <2>2. stream' = SubSeq(stream, Len(stream) + 1, Len(stream)) /\ Len(stream) \in 0..Len(stream)
      <3>1. Len(stream) \in Int /\ Len(stream) + 1 \in Int /\ Len(stream) < Len(stream) + 1
        BY <1>2
      <3> QED
        BY <1>2, <2>1, <3>1, SubSeqEmpty
    <2>3. Typed'
      BY <1>1, <2>1 DEF Typed, Known, Faults
    <2>4. Lined'
      BY <1>1, <2>1, <2>2, LinedReadByMain
    <2> QED
      BY <2>3, <2>4
  <1> QED
    BY <1>3, <1>4, <1>5, <1>6, <1>7, <1>8, <1>9 DEF MainThread

LEMMA EventsOInv ==
    ASSUME OInv, handleEvents
    PROVE  Typed' /\ Lined'
  <1>1. LInv /\ Typed /\ Lined
    BY DEF OInv
  <1>2. events # "none" /\ events' # "none"
    BY DEF handleEvents, EventsLock, EventsRecv, EventsUnlock, EventsPeek
  <1>3. Known' = Known /\ Known = Values
    BY <1>2 DEF Known
  <1>4. /\ UNCHANGED <<main, request, response, sessionId, currentRoom>>
        /\ UNCHANGED <<server, wire, sending, cuts, sent, closed, fault>>
    BY DEF handleEvents, EventsLock, EventsRecv, EventsUnlock, EventsPeek, network, sends
  <1>5. CASE EventsLock \/ EventsUnlock
    <2>1. UNCHANGED <<buf, stream, shown>>
      BY <1>5 DEF EventsLock, EventsUnlock, network, sends
    <2>2. Typed'
      BY <1>1, <1>2, <1>3, <1>4, <2>1 DEF Typed
    <2>3. (InBuf' => InBuf) /\ (events' = "peek" => InBuf')
      BY <1>5, <2>1 DEF EventsLock, EventsUnlock, InBuf, IsEvent
    <2> QED
      BY <1>1, <1>4, <2>1, <2>2, <2>3, LinedStays
  <1>6. CASE EventsRecv
    <2>1. PICK n : n = IF Len(stream) < HeaderSize THEN Len(stream) ELSE HeaderSize
      OBVIOUS
    <2>2. /\ buf' = IF n = 0 THEN buf ELSE stream[1]
          /\ stream' = SubSeq(stream, n + 1, Len(stream))
          /\ events' = IF n = 0 THEN "retry" ELSE "unlock"
          /\ UNCHANGED shown
      BY <1>6, <2>1 DEF EventsRecv, Rest, Taken
    <2>3. stream \in Seq(Units(Values))
      BY <1>1, <1>3 DEF Typed
    <2>4. Len(stream) \in Nat
      BY <2>3, LenProperties
    <2>5. n \in 0..Len(stream) /\ n \in Nat
      BY <2>1, <2>4 DEF HeaderSize
    <2>6. stream' \in Seq(Units(Values))
      BY <2>2, <2>3, <2>5, DropRead
    <2>7. n # 0 => stream[1] \in Units(Values)
      <3>1. n # 0 => 1 \in 1..Len(stream)
        BY <2>4, <2>5
      <3> QED
        BY <2>3, <3>1, ElementOfSeq
    <2>8. buf' \in Units(Values)
      BY <1>1, <2>2, <2>7 DEF Typed
    <2>9. Typed'
      BY <1>1, <1>2, <1>3, <1>4, <2>2, <2>6, <2>8 DEF Typed
    <2>10. n # 0 => buf' = stream[1]
      BY <2>2
    <2>11. Lined'
      BY <1>1, <1>4, <2>2, <2>5, <2>10, LinedReadByEvents
    <2> QED
      BY <2>9, <2>11
  <1>7. CASE EventsPeek
    <2>1. UNCHANGED <<buf, stream>>
      BY <1>7 DEF EventsPeek, network, sends
    <2>2. Lined' /\ shown' \in Seq([id : Nat, whole : BOOLEAN])
      BY <1>1, <1>7, LinedShown
    <2>3. Typed'
      BY <1>1, <1>2, <1>3, <1>4, <2>1, <2>2 DEF Typed
    <2> QED
      BY <2>2, <2>3
  <1> QED
    BY <1>5, <1>6, <1>7 DEF handleEvents

\* A message begins: its header is sent.
LEMMA HeaderOInv ==
    ASSUME OInv, NEW thread \in 0..MaxEvents, NEW m \in Messages(Known),
           SendHeader(thread, m), UNCHANGED local, UNCHANGED closed,
           server' \in Seq(Requests),
           events' = "none" => \A k \in DOMAIN server' : server'[k].rpc = "login",
           sent' \in 0..MaxEvents,
           \/ UNCHANGED sent /\ m.kind # "event"
           \/ sent' = sent + 1 /\ m.id = sent'
    PROVE  Typed' /\ Lined'
  <1>1. Typed /\ Lined
    BY DEF OInv
  <1>2. /\ UNCHANGED <<events, request, response, buf, sessionId, currentRoom, shown, fault>>
        /\ Known' = Known
    BY DEF local, control, Known
  <1>3. /\ HeaderOf(m) \in Seq(Units(Known)) /\ Len(HeaderOf(m)) = 2
        /\ HeaderOf(m)[1] = Unit(m, 1) /\ HeaderOf(m)[2] = Unit(m, 2)
        /\ BodySends(m) \in Seq(Parts(Known))
    BY MessageSent
  <1>4. SendPart(thread, HeaderOf(m), BodySends(m)) /\ stream' = stream \o HeaderOf(m)
    BY DEF SendHeader, SendPart
  <1>5. Typed'
    <2>1. /\ stream' \in Seq(Units(Known))
          /\ wire' \in [0..MaxEvents -> Seq(Parts(Known))]
          /\ sending' \in {Nobody} \cup 0..MaxEvents /\ cuts' \in 0..MaxCuts
      BY <1>1, <1>3, <1>4, PartSent
    <2> QED
      BY <1>1, <1>2, <2>1 DEF Typed
  <1>6. \A k \in 1..Len(HeaderOf(m)) : IsEvent(HeaderOf(m)[k]) =>
            k = 1 /\ sent' = sent + 1 /\ HeaderOf(m)[k].msg.id = sent'
    <2>1. \A k \in 1..2 : k = 1 \/ k = 2
      OBVIOUS
    <2>2. ~IsEvent(Unit(m, 2)) /\ (IsEvent(Unit(m, 1)) => m.kind = "event") /\ Unit(m, 1).msg = m
      BY DEF IsEvent, Unit
    <2> QED
      BY <1>3, <2>1, <2>2
  <1>7. Lined'
    BY <1>1, <1>2, <1>3, <1>4, <1>6, LinedSent
  <1> QED
    BY <1>5, <1>7

LEMMA ServerOInv ==
    ASSUME OInv, Server
    PROVE  Typed' /\ Lined'
  <1>1. LInv /\ Typed /\ Lined
    BY DEF OInv
  <1>2. UNCHANGED local
    BY ServerIsElsewhere
  <1>3. /\ UNCHANGED <<events, request, response, buf, sessionId, currentRoom, shown, fault>>
        /\ Known' = Known
    BY <1>2 DEF local, control, Known
  <1>4. CASE Reply
    <2>1. server # <<>> /\ server' = Tail(server) /\ UNCHANGED <<sent, closed>>
      BY <1>4 DEF Reply
    <2>2. server \in Seq(Requests)
      BY <1>1 DEF Typed
    <2>3. Len(server) \in Nat \ {0} /\ DOMAIN server = 1..Len(server)
      BY <2>1, <2>2, EmptySeq, LenProperties
    <2>4. /\ server' \in Seq(Requests) /\ Len(server') = Len(server) - 1
          /\ \A k \in 1..Len(server) - 1 : server'[k] = server[k + 1]
          /\ Head(server) = server[1]
      BY <2>1, <2>2, HeadTailProperties
    <2>5. DOMAIN server' = 1..Len(server) - 1
      BY <2>4, LenProperties
    <2>6. PICK r : r = server[1]
      OBVIOUS
    <2>7. r \in Requests /\ (events = "none" => r.rpc = "login")
      <3>1. r \in Requests
        BY <2>2, <2>3, <2>6, ElementOfSeq
      <3>2. events = "none" => \A k \in DOMAIN server : server[k].rpc = "login"
        BY <1>1 DEF Typed
      <3> QED
        BY <2>3, <2>6, <3>1, <3>2
    <2>8. PICK m : m = [kind |-> "reply", id |-> r.id, rpc |-> r.rpc, val |-> Answer(r)]
      OBVIOUS
    <2>9. /\ r.rpc = "message" => UNCHANGED sends
          /\ r.rpc # "message" => SendHeader(0, m)
      BY <1>4, <2>4, <2>6, <2>8 DEF Reply
    <2>10. events' = "none" => \A k \in DOMAIN server' : server'[k].rpc = "login"
      <3>1. \A k \in 1..Len(server) - 1 : k + 1 \in DOMAIN server
        BY <2>3
      <3> QED
        BY <1>1, <1>3, <2>4, <2>5, <3>1 DEF Typed
    <2>11. CASE r.rpc = "message"
      <3>1. Typed'
        BY <1>1, <1>3, <2>1, <2>4, <2>9, <2>10, <2>11 DEF Typed, sends
      <3>2. Lined'
        BY <1>1, <1>3, <2>1, <2>9, <2>11, LinedStays DEF InBuf, Lined, BufLined, sends
      <3> QED
        BY <3>1, <3>2
    <2>12. CASE r.rpc # "message"
      <3>1. Answer(r) \in Known
        BY <2>7 DEF Answer, Known, LoginValues, Values
      <3>2. m \in Messages(Known) /\ m.kind # "event"
        <4>1. "reply" \in Kinds /\ r.id \in Nat /\ r.rpc \in Calls
          BY <2>7 DEF Requests, Kinds
        <4> QED
          BY <2>8, <3>1, <4>1, MessageMade
      <3>3. 0 \in 0..MaxEvents /\ sent' \in 0..MaxEvents
        BY <1>1, <2>1, ClientAssumption DEF Typed
      <3> QED
        BY <1>2, <2>1, <2>4, <2>9, <2>10, <2>12, <3>2, <3>3, HeaderOInv
    <2> QED
      BY <2>11, <2>12
  <1>5. CASE Event
    <2>1. PICK m : m = [kind |-> "event", id |-> sent', rpc |-> "", val |-> Garbage]
      OBVIOUS
    <2>2. /\ sent < MaxEvents /\ sent' = sent + 1 /\ UNCHANGED <<server, closed>>
          /\ SendHeader(sent', m)
      BY <1>5, <2>1 DEF Event
    <2>3. sent' \in 0..MaxEvents /\ sent' \in Nat
      BY <1>1, <2>2, ClientAssumption DEF Typed
    <2>4. m \in Messages(Known) /\ m.id = sent'
      <3>1. "event" \in Kinds /\ "" \in Calls /\ Garbage \in Known
        BY NoCall DEF Kinds, Known, Values, LoginValues
      <3> QED
        BY <2>1, <2>3, <3>1, MessageMade
    <2>5. /\ server' \in Seq(Requests)
          /\ events' = "none" => \A k \in DOMAIN server' : server'[k].rpc = "login"
      BY <1>1, <1>3, <2>2 DEF Typed
    <2> QED
      BY <1>2, <2>2, <2>3, <2>4, <2>5, HeaderOInv
  <1>6. ASSUME NEW thread \in 0..MaxEvents, SendBody(thread)
        PROVE  Typed' /\ Lined'
    <2>1. /\ wire[thread] # <<>> /\ UNCHANGED <<server, sent, closed>>
          /\ SendPart(thread, Head(wire[thread]), Tail(wire[thread]))
      BY <1>6 DEF SendBody
    <2>2. wire[thread] \in Seq(Parts(Known))
      BY <1>1 DEF Typed
    <2>3. PICK part : part = Head(wire[thread])
      OBVIOUS
    <2>4. part \in Parts(Known) /\ Tail(wire[thread]) \in Seq(Parts(Known))
      BY <2>1, <2>2, <2>3, HeadTailProperties
    <2>5. part \in Seq(Units(Known)) /\ \A k \in 1..Len(part) : ~IsEvent(part[k])
      <3>1. part \in Seq(Units(Known)) /\ \A k \in DOMAIN part : part[k].at > HeaderSize
        BY <2>4 DEF Parts
      <3>2. DOMAIN part = 1..Len(part)
        BY <3>1, LenProperties
      <3> QED
        BY <3>1, <3>2 DEF IsEvent, HeaderSize
    <2>6. /\ stream' \in Seq(Units(Known))
          /\ wire' \in [0..MaxEvents -> Seq(Parts(Known))]
          /\ sending' \in {Nobody} \cup 0..MaxEvents /\ cuts' \in 0..MaxCuts
      BY <1>1, <2>1, <2>3, <2>4, <2>5, PartSent
    <2>7. Typed'
      BY <1>1, <1>3, <2>1, <2>6 DEF Typed
    <2>8. stream' = stream \o part
      BY <2>1, <2>3 DEF SendPart
    <2>9. Lined'
      BY <1>1, <1>3, <2>1, <2>5, <2>8, LinedSent
    <2> QED
      BY <2>7, <2>9
  <1>7. CASE Close
    <2>1. /\ closed' /\ closed' \in BOOLEAN /\ server' = <<>> /\ sending' = Nobody
          /\ wire' = [thread \in 0..MaxEvents |-> <<>>]
          /\ UNCHANGED <<stream, cuts, sent>>
      BY <1>7 DEF Close
    <2>2. DOMAIN <<>> = {}
      OBVIOUS
    <2>3. Typed'
      BY <1>1, <1>3, <2>1, <2>2 DEF Typed
    <2>4. Lined'
      BY <1>1, <1>3, <2>1, LinedStays DEF InBuf, Lined, BufLined
    <2> QED
      BY <2>3, <2>4
  <1> QED
    BY <1>4, <1>5, <1>6, <1>7 DEF Server

LEMMA NextOInv == OInv /\ [Next]_vars => OInv'
  <1> SUFFICES ASSUME OInv, [Next]_vars PROVE OInv'
    OBVIOUS
  <1>1. LInv'
    BY MainLInv, EventsLInv, RestLInv DEF Next, OInv
  <1>2. CASE Next
    BY <1>1, <1>2, MainOInv, EventsOInv, ServerOInv DEF Next, OInv
  <1>3. CASE UNCHANGED vars
    <2>1. /\ UNCHANGED <<events, request, response, buf, sessionId, currentRoom>>
          /\ UNCHANGED <<network, shown, fault>>
      BY <1>3 DEF vars, control
    <2>2. Typed'
      BY <2>1, OnlyMainMoves DEF OInv, Typed
    <2>3. Lined'
      BY <2>1, LinedStays DEF InBuf, Lined, BufLined, network, sends, OInv
    <2> QED
      BY <1>1, <2>2, <2>3 DEF OInv
  <1> QED
    BY <1>2, <1>3

\* The types of the client, whatever is typed and sent; a number that is not a
\* response's can be taken for the session and for the room.
THEOREM TypeCorrect == Spec => []TypeOK
  <1>1. OInv => TypeOK
    BY DEF OInv, LInv, Places, Held, Typed, LoginValues, Faults, Lined, ShownLined, TypeOK
  <1> QED
    BY InitOInv, NextOInv, <1>1, PTL DEF Spec

\* handleEvents shows an event at most once and the events in the order in which
\* their headers were sent (client.c lines 239-279), whatever threads of the
\* server send between the parts of an event: it takes each header from the
\* stream before it peeks at the body, and main() can only take some away.
THEOREM EventsShownInOrderHolds == Spec => []EventsShownInOrder
  <1>1. OInv => EventsShownInOrder
    BY DEF OInv, Lined, ShownLined, EventsShownInOrder
  <1> QED
    BY InitOInv, NextOInv, <1>1, PTL DEF Spec
=============================================================================
