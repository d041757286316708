-------------------------- MODULE CopyFilesProofs --------------------------
(***************************************************************************)
(* Theorems about CopyFiles, for any number of files and of blocks: the    *)
(* polling loops of copyFiles end only when the kernel is done.            *)
(***************************************************************************)
EXTENDS CopyFiles, TLAPS

IsIdle(f) == aio[f].state = Idle

\* What a phase may rely on.  In a pass of a polling loop that has found
\* nothing in progress so far, the requests it has looked at are over; they stay
\* over, since only copyFiles starts new ones and it is polling.
PhaseInv ==
    /\ pc \in {"read", "write"} => \A f \in File : IsIdle(f)
    /\ pc \in {"pollRead", "pollWrite"} /\ open = 0 => \A f \in 1..(i - 1) : IsIdle(f)
    /\ pc = "aioWrite" => \A f \in i..Files : IsIdle(f)
    /\ pc \in {"release", "return"} => \A f \in File : IsIdle(f)
    /\ released => pc = "return"

\* A pass looks at i - 1 files before the i-th, and starts from zero.
PassInv ==
    /\ open < i
    /\ pc \notin {"pollRead", "pollWrite", "spoilt"} => open = 0

IInv == TypeOK /\ PhaseInv /\ PassInv

-----------------------------------------------------------------------------
LEMMA InitIInv == Init => IInv
  <1> SUFFICES ASSUME Init PROVE IInv
    OBVIOUS
  <1> USE CopyAssumption DEF Init, File, Block, Content, Empty, Idle
  <1>1. 1 \in File /\ 1 \in Block
    OBVIOUS
  <1>2. pc \in Phase /\ i \in File /\ block \in Block /\ allocated \subseteq Block
    BY <1>1 DEF Phase
  <1>3. memory \in [Block -> Content]
    OBVIOUS
  <1>4. output \in [{"sync", "async"} -> [File -> Output]]
    BY DEF Output
  <1>5. aio \in [File -> Request]
    BY <1>1 DEF Request
  <1>6. open \in 0..Files /\ released \in BOOLEAN
    BY 0 \in 0..Files
  <1>9. short \in [{"sync", "async"} -> SUBSET File]
    OBVIOUS
  <1>7. TypeOK
    BY <1>2, <1>3, <1>4, <1>5, <1>6, <1>9 DEF TypeOK
  <1>8. PhaseInv /\ PassInv
    BY DEF PhaseInv, PassInv, IsIdle
  <1> QED
    BY <1>7, <1>8 DEF IInv

\* What the kernel has cut short is remembered by file.
LEMMA TransferType ==
    ASSUME TypeOK, NEW mode \in {"sync", "async"}, NEW f \in File, NEW all,
           Transfer(mode, f, all)
    PROVE  short' \in [{"sync", "async"} -> SUBSET File]
  BY DEF Transfer, TypeOK

LEMMA WriteType ==
    ASSUME TypeOK, NEW mode \in {"sync", "async"}, NEW f \in File, NEW c \in Content,
           output' = [output EXCEPT ![mode][f].front = c]
    PROVE  output' \in [{"sync", "async"} -> [File -> Output]]
  <1>1. output[mode] \in [File -> Output] /\ output[mode][f] \in Output
    BY DEF TypeOK
  <1>2. [output[mode][f] EXCEPT !.front = c] \in Output
    BY <1>1 DEF Output
  <1>3. [output[mode] EXCEPT ![f] = [output[mode][f] EXCEPT !.front = c]] \in [File -> Output]
    BY <1>1, <1>2
  <1>4. output' = [output EXCEPT ![mode] =
                     [output[mode] EXCEPT ![f] = [output[mode][f] EXCEPT !.front = c]]]
    BY <1>1 DEF TypeOK
  <1> QED
    BY <1>3, <1>4 DEF TypeOK

\* The kernel only ever ends requests, if it does not end what is determined.
LEMMA CompleteIInv == ASSUME IInv, NEW f \in File, Complete(f) PROVE IInv'
  <1> USE DEF IInv
  <1>1. /\ aio' = [aio EXCEPT ![f].state = Idle]
        /\ UNCHANGED <<i, block, allocated, open, released>>
    BY DEF Complete
  <1>2. aio[f].buf \in Block /\ f \in Content
    BY DEF TypeOK, Content, Request
  <1> PICK all \in BOOLEAN : /\ EndRead(f, all) \/ EndWrite(f, all)
                             /\ Transfer("async", f, all)
                             /\ pc' \in Outcome(f, all)
    BY DEF Complete
  <1>0. pc' \in {pc, "spoilt"}
    BY DEF Outcome
  <1>3. memory' \in [Block -> Content]
    BY <1>2 DEF TypeOK, EndRead, EndWrite, Content
  <1>4. output' \in [{"sync", "async"} -> [File -> Output]]
    <2>1. CASE EndRead(f, all)
      BY <2>1 DEF EndRead, TypeOK
    <2>2. CASE EndWrite(f, all)
      <3>1. (IF all THEN memory[aio[f].buf] ELSE Empty) \in Content
        BY <1>2 DEF TypeOK, Content
      <3> QED
        BY <2>2, <3>1, WriteType DEF EndWrite
    <2> QED
      BY <2>1, <2>2
  <1>9. short' \in [{"sync", "async"} -> SUBSET File]
    BY TransferType
  <1>5. aio' \in [File -> Request]
    BY <1>1 DEF TypeOK, Request
  <1>6. TypeOK'
    BY <1>0, <1>1, <1>3, <1>4, <1>5, <1>9 DEF TypeOK, Phase
  <1>7. \A g \in File : IsIdle(g) => IsIdle(g)'
    BY <1>1 DEF TypeOK, IsIdle, Request
  <1>8. ~released
    <2>1. ~IsIdle(f)
      BY DEF EndRead, EndWrite, IsIdle, Idle
    <2> QED
      BY <2>1 DEF PhaseInv
  <1>10. PhaseInv'
    BY <1>0, <1>1, <1>7, <1>8, CopyAssumption DEF PhaseInv, TypeOK, File
  <1> QED
    BY <1>0, <1>1, <1>6, <1>10 DEF PassInv

\* The synchronous copy, and the failures, start no request.
LEMMA SyncIInv == ASSUME IInv, Read \/ Write \/ Fail PROVE IInv'
  <1> USE CopyAssumption DEF IInv, File
  <1>1. CASE Read
    <2>1. PICK b \in Block \ allocated :
            /\ block' = b /\ allocated' = allocated \cup {b}
            /\ \E all \in BOOLEAN :
                 /\ memory' = [memory EXCEPT ![b] = IF all THEN ContentOf(i) ELSE Empty]
                 /\ Transfer("sync", i, all)
      BY <1>1 DEF Read
    <2>2. memory' \in [Block -> Content] /\ i \in File
      BY <2>1 DEF TypeOK, ContentOf, Content
    <2>3. short' \in [{"sync", "async"} -> SUBSET File]
      BY <2>1, <2>2, TransferType
    <2>4. pc = "read" /\ pc' = "write" /\ UNCHANGED <<i, output, aio, open, released>>
      BY <1>1 DEF Read
    <2>5. TypeOK'
      BY <2>1, <2>2, <2>3, <2>4 DEF TypeOK, Phase
    <2>6. PhaseInv' /\ PassInv'
      BY <2>4 DEF PhaseInv, PassInv, TypeOK, IsIdle
    <2> QED
      BY <2>5, <2>6
  <1>2. CASE Write
    <2>3. PICK all \in BOOLEAN :
            /\ output' = [output EXCEPT !["sync"][i].front = IF all THEN memory[block] ELSE Empty]
            /\ Transfer("sync", i, all)
      BY <1>2 DEF Write
    <2>4. memory[block] \in Content /\ Empty \in Content /\ i \in File
      BY DEF TypeOK, Content
    <2>0. output' \in [{"sync", "async"} -> [File -> Output]]
      BY <2>3, <2>4, WriteType
    <2>5. short' \in [{"sync", "async"} -> SUBSET File]
      BY <2>3, <2>4, TransferType
    <2>1. TypeOK'
      BY <1>2, <2>0, <2>5 DEF Write, IsLast, TypeOK, Phase
    <2>2. PhaseInv' /\ PassInv'
      BY <1>2 DEF Write, IsLast, TypeOK, PhaseInv, PassInv, IsIdle
    <2> QED
      BY <2>1, <2>2
  <1>3. CASE Fail
    BY <1>3 DEF Fail, TypeOK, Phase, PhaseInv, PassInv, IsIdle
  <1> QED
    BY <1>1, <1>2, <1>3

\* Starting the reads, freeing their buffers, starting the writes and freeing
\* the requests.
LEMMA AsyncIInv == ASSUME IInv, AioRead \/ AioFree \/ AioWrite \/ Release PROVE IInv'
  <1> USE CopyAssumption DEF IInv, File
  <1>1. CASE AioRead
    <2>0. PICK b \in Block \ allocated, at \in {Elsewhere} \cup Block :
            /\ block' = b /\ allocated' = allocated \cup ({b, at} \ {Elsewhere})
            /\ memory' = [m \in Block |-> IF m = at THEN Empty ELSE memory[m]]
            /\ aio' = [aio EXCEPT ![i] = [state |-> "reading", buf |-> b, at |-> at]]
      BY <1>1 DEF AioRead
    <2>3. /\ pc = "aioRead" /\ pc' = "aioFree"
          /\ UNCHANGED <<i, output, open, released, short>>
      BY <1>1 DEF AioRead
    <2>4. aio' \in [File -> Request]
      BY <2>0 DEF TypeOK, Request
    <2>5. memory' \in [Block -> Content]
      BY <2>0 DEF TypeOK, Content
    <2>1. TypeOK'
      BY <2>0, <2>3, <2>4, <2>5 DEF TypeOK, Phase
    <2>2. PhaseInv' /\ PassInv'
      BY <2>3 DEF TypeOK, PhaseInv, PassInv
    <2> QED
      BY <2>1, <2>2
  <1>2. CASE AioFree
    <2>1. TypeOK'
      BY <1>2 DEF AioFree, IsLast, TypeOK, Phase, Content
    <2>2. /\ pc = "aioFree" /\ pc' \in {"aioRead", "pollRead"}
          /\ pc' = "pollRead" => i' = 1
          /\ UNCHANGED <<aio, open, released>>
      BY <1>2 DEF AioFree
    <2>3. PhaseInv'
      BY <2>2 DEF PhaseInv, TypeOK, IsIdle
    <2>4. PassInv'
      BY <1>2 DEF AioFree, IsLast, TypeOK, PassInv
    <2> QED
      BY <2>1, <2>3, <2>4
  <1>3. CASE AioWrite
    <2>1. aio' \in [File -> Request]
      <3>1. aio' = [aio EXCEPT ![i].state = "writing"]
        BY <1>3 DEF AioWrite
      <3> QED
        BY <3>1 DEF TypeOK, Request
    <2>2. /\ pc = "aioWrite" /\ UNCHANGED <<open, released>>
          /\ \/ i = Files /\ i' = 1 /\ pc' = "pollWrite"
             \/ i < Files /\ i' = i + 1 /\ pc' = pc
      BY <1>3 DEF AioWrite, IsLast, TypeOK
    <2>3. TypeOK'
      BY <1>3, <2>1, <2>2 DEF AioWrite, TypeOK, Phase
    <2>4. \A f \in File : f # i => aio'[f] = aio[f]
      BY <1>3 DEF AioWrite, TypeOK
    <2>7. i \in File /\ ~released
      BY <2>2 DEF TypeOK, PhaseInv
    <2>8. pc' = "aioWrite" => \A f \in i'..Files : IsIdle(f)'
      BY <2>2, <2>4, <2>7 DEF PhaseInv, IsIdle
    <2>5. PhaseInv'
      BY <2>2, <2>7, <2>8 DEF PhaseInv
    <2>6. PassInv'
      BY <2>2 DEF PassInv, TypeOK
    <2> QED
      BY <2>3, <2>5, <2>6
  <1>4. CASE Release
    BY <1>4 DEF Release, TypeOK, Phase, PhaseInv, PassInv, IsIdle
  <1> QED
    BY <1>1, <1>2, <1>3, <1>4

\* One step of a polling pass: the last one that counts nothing has seen every
\* request over.
LEMMA PollIInv ==
    ASSUME IInv, Poll("pollRead", "aioWrite") \/ Poll("pollWrite", "release")
    PROVE  IInv'
  <1> USE CopyAssumption DEF IInv, File
  <1> DEFINE n == open + IF aio[i].state = Idle THEN 0 ELSE 1
  <1>1. /\ pc \in {"pollRead", "pollWrite"}
        /\ UNCHANGED <<block, allocated, memory, output, aio, released, short>>
        /\ ~released
    BY DEF Poll, PhaseInv
  <1>2. n \in Nat /\ n <= i /\ (n = 0 <=> open = 0 /\ IsIdle(i))
    BY DEF TypeOK, PassInv, IsIdle
  <1>3. \/ /\ i < Files /\ i' = i + 1 /\ open' = n /\ pc' = pc
        \/ /\ i = Files /\ i' = 1 /\ open' = 0
           /\ \/ n = 0 /\ pc' \in {"aioWrite", "release"}
              \/ n # 0 /\ pc' = pc
    BY DEF Poll, IsLast, AllDone, Restart, TypeOK
  <1>4. TypeOK'
    BY <1>1, <1>2, <1>3 DEF TypeOK, Phase
  <1>5. PassInv'
    BY <1>1, <1>2, <1>3 DEF PassInv, TypeOK
  <1>6. n = 0 => \A f \in 1..i : IsIdle(f)
    BY <1>1, <1>2 DEF PhaseInv, TypeOK
  <1>7. PhaseInv'
    BY <1>1, <1>2, <1>3, <1>6 DEF PhaseInv, TypeOK, IsIdle
  <1> QED
    BY <1>4, <1>5, <1>7

\* The invariant holds of every reachable state.
THEOREM Invariance == Spec => []IInv
  <1>1. IInv /\ [Next]_vars => IInv'
    <2> SUFFICES ASSUME IInv, [Next]_vars PROVE IInv'
      OBVIOUS
    <2>1. CASE UNCHANGED vars
      BY <2>1 DEF vars, IInv, TypeOK, PhaseInv, PassInv, IsIdle
    <2> QED
      BY <2>1, CompleteIInv, SyncIInv, AsyncIInv, PollIInv DEF Next, copyFiles
  <1> QED
    BY InitIInv, <1>1, PTL DEF Spec

\* The state of copyFiles keeps to its types, and its loops to their bounds.
THEOREM TypeCorrect == Spec => []TypeOK
  <1>1. IInv => TypeOK
    BY DEF IInv
  <1> QED
    BY Invariance, <1>1, PTL

\* For any number of files, no aiocb is reused for a write (lines 77-81) or
\* freed (lines 98-100) while the kernel may still work on it, unless a read has
\* overwritten an aiocb or malloc's own data in a block that was freed too early.
THEOREM RequestsAreOverHolds == Spec => []RequestsAreOver
  <1>1. IInv => RequestsAreOver
    BY DEF IInv, PhaseInv, RequestsAreOver, IsIdle
  <1> QED
    BY Invariance, <1>1, PTL

-----------------------------------------------------------------------------
(* Synchronous copies.  The block of the file that is being copied is nobody   *)
(* else's: the kernel works on no request yet.                                 *)

Arrived(f) == output["sync"][f].front = f \/ f \in short["sync"]

SyncInv ==
    /\ \A f \in File : output["sync"][f].tail = (f \in Older)
    /\ pc = "write" => memory[block] = i \/ i \in short["sync"]
    /\ pc \in {"read", "write"} => \A f \in 1..(i - 1) : Arrived(f)
    /\ pc \notin {"read", "write", "exit"} => \A f \in File : Arrived(f)

\* What has arrived stays: outputs are written once, and short only grows.
LEMMA ReadSyncInv == ASSUME IInv, SyncInv, Read PROVE SyncInv'
  <1> USE CopyAssumption DEF IInv, File
  <1>1. PICK b \in Block \ allocated, all \in BOOLEAN :
          /\ block' = b
          /\ memory' = [memory EXCEPT ![b] = IF all THEN i ELSE Empty]
          /\ short' = IF all THEN short ELSE [short EXCEPT !["sync"] = @ \cup {i}]
    BY DEF Read, Transfer, ContentOf
  <1>2. pc = "read" /\ pc' = "write" /\ UNCHANGED <<i, output>>
    BY DEF Read
  <1>3. i \in File /\ memory \in [Block -> Content] /\ short \in [{"sync", "async"} -> SUBSET File]
    BY DEF TypeOK
  <1>4. memory'[block'] = i \/ i \in short'["sync"]
    BY <1>1, <1>3
  <1>5. short["sync"] \subseteq short'["sync"]
    BY <1>1, <1>3
  <1>6. \A f \in 1..(i - 1) : Arrived(f)'
    BY <1>2, <1>5 DEF SyncInv, Arrived
  <1> QED
    BY <1>2, <1>4, <1>6 DEF SyncInv

LEMMA WriteSyncInv == ASSUME IInv, SyncInv, Write PROVE SyncInv'
  <1> USE CopyAssumption DEF IInv, File
  <1>1. PICK all \in BOOLEAN :
          /\ output' = [output EXCEPT !["sync"][i].front = IF all THEN memory[block] ELSE Empty]
          /\ short' = IF all THEN short ELSE [short EXCEPT !["sync"] = @ \cup {i}]
    BY DEF Write, Transfer
  <1>2. /\ pc = "write"
        /\ \/ i = Files /\ pc' = "aioRead"
           \/ i < Files /\ pc' = "read" /\ i' = i + 1
    BY DEF Write, IsLast, TypeOK
  <1>3. /\ i \in File /\ short \in [{"sync", "async"} -> SUBSET File]
        /\ output["sync"] \in [File -> Output]
    BY DEF TypeOK
  <1>4. short["sync"] \subseteq short'["sync"]
    BY <1>1, <1>3
  <1>5. /\ output'["sync"][i].front = IF all THEN memory[block] ELSE Empty
        /\ output'["sync"][i].tail = output["sync"][i].tail
        /\ \A f \in File : f # i => output'["sync"][f] = output["sync"][f]
    <2>1. output'["sync"] = [output["sync"] EXCEPT ![i].front = IF all THEN memory[block] ELSE Empty]
      BY <1>1 DEF TypeOK
    <2> QED
      BY <2>1, <1>3 DEF Output
  <1>6. output'["sync"][i].front = i \/ i \in short'["sync"]
    <2>1. \/ output'["sync"][i].front = memory[block]
          \/ short' = [short EXCEPT !["sync"] = @ \cup {i}]
      BY <1>1, <1>5
    <2>2. memory[block] = i \/ i \in short["sync"]
      BY <1>2 DEF SyncInv
    <2>3. short' = [short EXCEPT !["sync"] = @ \cup {i}] => i \in short'["sync"]
      BY <1>3
    <2> QED
      BY <2>1, <2>2, <2>3, <1>4
  <1>7. \A f \in 1..(i - 1) : Arrived(f)'
    <2> SUFFICES ASSUME NEW f \in 1..(i - 1) PROVE Arrived(f)'
      OBVIOUS
    <2>1. f \in File /\ f # i
      BY <1>3
    <2>2. output'["sync"][f] = output["sync"][f]
      BY <2>1, <1>3, <1>5
    <2> QED
      BY <2>2, <1>2, <1>4 DEF SyncInv, Arrived
  <1>8. \A f \in 1..i : Arrived(f)'
    <2> SUFFICES ASSUME NEW f \in 1..i PROVE Arrived(f)'
      OBVIOUS
    <2>1. CASE f = i
      BY <2>1, <1>6 DEF Arrived
    <2>2. CASE f # i
      <3>1. f \in 1..(i - 1)
        BY <2>2, <1>3
      <3> QED
        BY <3>1, <1>7
    <2> QED
      BY <2>1, <2>2
  <1>9. \A f \in File : output'["sync"][f].tail = (f \in Older)
    BY <1>5 DEF SyncInv
  <1> QED
    BY <1>2, <1>3, <1>8, <1>9 DEF SyncInv

LEMMA CompleteSyncInv ==
    ASSUME IInv, SyncInv, NEW f \in File, Complete(f) PROVE SyncInv'
  <1> USE DEF IInv
  <1>1. /\ UNCHANGED i /\ pc \notin {"read", "write", "exit"}
        /\ pc' \in {pc, "spoilt"}
    BY DEF Complete, Outcome, EndRead, EndWrite, PhaseInv, IsIdle, Idle
  <1>2. PICK all \in BOOLEAN : (EndRead(f, all) \/ EndWrite(f, all)) /\ Transfer("async", f, all)
    BY DEF Complete
  <1>3. output'["sync"] = output["sync"]
    BY <1>2 DEF EndRead, EndWrite, TypeOK
  <1>4. short'["sync"] = short["sync"]
    BY <1>2 DEF Transfer, TypeOK
  <1> QED
    BY <1>1, <1>3, <1>4 DEF SyncInv, Arrived

\* For any number of files and whatever blocks malloc reuses, a file that was
\* read and written in full by copyFiles(async = false) has arrived (lines
\* 15-39), at the front of an output that was longer.
THEOREM SyncCopiesHolds == Spec => []SyncCopies
  <1>1. Init => SyncInv
    BY CopyAssumption DEF Init, SyncInv, Arrived
  <1>2. IInv /\ SyncInv /\ [Next]_vars => SyncInv'
    <2> SUFFICES ASSUME IInv, SyncInv, [Next]_vars PROVE SyncInv'
      OBVIOUS
    <2>1. CASE UNCHANGED vars
      BY <2>1 DEF vars, SyncInv, Arrived
    <2>2. CASE Fail
      BY <2>2 DEF Fail, SyncInv
    <2>3. CASE /\ pc \notin {"read", "write", "exit"}
               /\ pc' \notin {"read", "write"}
               /\ UNCHANGED <<output, short>>
      BY <2>3 DEF SyncInv, Arrived
    <2>4. CASE AioRead \/ AioFree \/ AioWrite \/ Release
      <3>1. /\ pc \notin {"read", "write", "exit"} /\ pc' \notin {"read", "write"}
            /\ UNCHANGED <<output, short>>
        BY <2>4 DEF AioRead, AioFree, AioWrite, Release
      <3> QED
        BY <2>3, <3>1
    <2>5. CASE Poll("pollRead", "aioWrite") \/ Poll("pollWrite", "release")
      <3>1. /\ pc \notin {"read", "write", "exit"} /\ pc' \notin {"read", "write"}
            /\ UNCHANGED <<output, short>>
        BY <2>5 DEF Poll
      <3> QED
        BY <2>3, <3>1
    <2> QED
      BY <2>1, <2>2, <2>4, <2>5, ReadSyncInv, WriteSyncInv, CompleteSyncInv DEF Next, copyFiles
  <1>3. IInv /\ SyncInv => SyncCopies
    <2> SUFFICES ASSUME IInv, SyncInv, pc \notin {"read", "write", "exit"},
                        NEW f \in File \ short["sync"]
                 PROVE  output["sync"][f] = [front |-> f, tail |-> f \in Older]
      BY DEF SyncCopies
    <2>1. output["sync"][f] \in Output
      BY DEF IInv, TypeOK
    <2>2. output["sync"][f].front = f /\ output["sync"][f].tail = (f \in Older)
      BY DEF SyncInv, Arrived
    <2> QED
      BY <2>1, <2>2 DEF Output
  <1> QED
    BY Invariance, <1>1, <1>2, <1>3, PTL DEF Spec
=============================================================================
