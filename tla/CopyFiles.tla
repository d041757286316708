----------------------------- MODULE CopyFiles -----------------------------
(***************************************************************************)
(* assignments/5: main() copies every input twice, first with              *)
(* copyFiles(async = false), then with copyFiles(async = true), which      *)
(* leaves the reads and the writes to the kernel and polls for their end.  *)
(* Memory is a set of blocks that malloc gives out and free takes back.    *)
(* When the kernel writes to memory malloc has given to something else, the*)
(* process is `spoilt': the program does not determine what it does next.  *)
(* The kernel may read or write less than it was asked for, and a request  *)
(* it has accepted may fail; the code looks for neither.                   *)
(***************************************************************************)
EXTENDS Integers

CONSTANTS Files,    \* number of input files; contents are told apart by number
          Blocks,   \* what malloc can return for a file-sized buffer (bound)
          Older     \* files with outputs that exist and are longer

ASSUME CopyAssumption == Files \in Nat \ {0} /\ Blocks \in Nat \ {0} /\ Older \subseteq 1..Files

File == 1..Files
Block == 1..Blocks
Elsewhere == 0       \* the place of an aiocb that is in none of the blocks
Empty == 0           \* no file's content: a new output, an unused block, and
                     \* what has been read or written in part only
Content == File \cup {Empty}
Idle == "idle"

VARIABLES pc,        \* what copyFiles does next
          i,         \* its loop index
          block,     \* its local buf
          allocated, \* blocks that are not free
          memory,    \* content of the blocks
          output,    \* the outputs of both calls: what has been written, and
                     \* whether the rest of something longer is behind it
          aio,       \* the aiocb of each file: its request, its buffer and
                     \* the block it lies in itself
          open,      \* in a pass of a polling loop: requests found in progress
          released,  \* have the aiocbs been freed?
          short      \* history: files read or written in part, or not at all

vars == <<pc, i, block, allocated, memory, output, aio, open, released, short>>

Phase == {"read", "write", "aioRead", "aioFree", "pollRead",
          "aioWrite", "pollWrite", "release", "return", "exit", "spoilt"}
Output == [front : Content, tail : BOOLEAN]
Request == [state : {Idle, "reading", "writing"}, buf : Block, at : {Elsewhere} \cup Block]

TypeOK ==
    /\ pc \in Phase /\ i \in File /\ block \in Block
    /\ allocated \subseteq Block
    /\ memory \in [Block -> Content]
    /\ output \in [{"sync", "async"} -> [File -> Output]]
    /\ aio \in [File -> Request]
    /\ open \in 0..Files /\ released \in BOOLEAN
    /\ short \in [{"sync", "async"} -> SUBSET File]

Init ==
    /\ pc = "read" /\ i = 1 /\ block = 1
    /\ allocated = {} /\ memory = [b \in Block |-> Empty]
    /\ output = [mode \in {"sync", "async"} |->
                   [f \in File |-> [front |-> Empty, tail |-> f \in Older]]]
    /\ aio = [f \in File |-> [state |-> Idle, buf |-> 1, at |-> Elsewhere]]
    /\ open = 0 /\ released = FALSE
    /\ short = [mode \in {"sync", "async"} |-> {}]

\* A bug: the loops run one file too far.
IsPastLast(k) == k > Files

\* The end of the loops over the files.
IsLast(k) == k = Files

\* Any call that fails ends the process.
Fail ==
    /\ pc \in {"read", "write", "aioRead", "aioWrite"}
    /\ pc' = "exit"
    /\ UNCHANGED <<i, block, allocated, memory, output, aio, open, released, short>>

-----------------------------------------------------------------------------
(* copyFiles(async = false): malloc, seek, read, write, free.                *)

\* A bug: the first input is read every time.
ContentOfFirst(k) == 1

ContentOf(k) == k

\* Whether file f is transferred as a whole is for the kernel to say.
Transfer(mode, f, all) ==
    short' = IF all THEN short ELSE [short EXCEPT ![mode] = @ \cup {f}]

Read ==
    /\ pc = "read"
    /\ \E b \in Block \ allocated :
         /\ block' = b
         /\ allocated' = allocated \cup {b}
         /\ \E all \in BOOLEAN :
              /\ memory' = [memory EXCEPT ![b] = IF all THEN ContentOf(i) ELSE Empty]
              /\ Transfer("sync", i, all)
    /\ pc' = "write"
    /\ UNCHANGED <<i, output, aio, open, released>>

Write ==
    /\ pc = "write"
    /\ \E all \in BOOLEAN :
         /\ output' = [output EXCEPT !["sync"][i].front = IF all THEN memory[block] ELSE Empty]
         /\ Transfer("sync", i, all)
    /\ allocated' = allocated \ {block}
    /\ IF IsLast(i) THEN pc' = "aioRead" /\ i' = 1 ELSE pc' = "read" /\ i' = i + 1
    /\ UNCHANGED <<block, memory, aio, open, released>>

-----------------------------------------------------------------------------
(* copyFiles(async = true).                                                  *)

\* The buffer and the aiocb are allocated, which may lie in a block that an
\* earlier file's read is still to fill.
AioRead ==
    /\ pc = "aioRead"
    /\ \E b \in Block \ allocated : \E at \in {Elsewhere} \cup (Block \ (allocated \cup {b})) :
         /\ block' = b
         /\ allocated' = allocated \cup ({b, at} \ {Elsewhere})
         /\ memory' = [m \in Block |-> IF m = at THEN Empty ELSE memory[m]]
         /\ aio' = [aio EXCEPT ![i] = [state |-> "reading", buf |-> b, at |-> at]]
    /\ pc' = "aioFree"
    /\ UNCHANGED <<i, output, open, released, short>>

\* free(buf), with the read on its way: the allocator may write into the block,
\* and give it to the next file.
AioFree ==
    /\ pc = "aioFree"
    /\ allocated' = allocated \ {block}
    /\ \E left \in {memory[block], Empty} : memory' = [memory EXCEPT ![block] = left]
    /\ IF IsLast(i) THEN pc' = "pollRead" /\ i' = 1 ELSE pc' = "aioRead" /\ i' = i + 1
    /\ UNCHANGED <<block, output, aio, open, released, short>>

AioWrite ==
    /\ pc = "aioWrite"
    /\ aio' = [aio EXCEPT ![i].state = "writing"]
    /\ IF IsLast(i) THEN pc' = "pollWrite" /\ i' = 1 ELSE i' = i + 1 /\ UNCHANGED pc
    /\ UNCHANGED <<block, allocated, memory, output, open, released, short>>

\* A bug: the loop ends as soon as one request has completed.
AllDoneButSome(n) == n < Files

\* while (openReqs > 0)
AllDone(n) == n = 0

\* A bug: currentReqs is not reset from one pass to the next.
RestartFrom(n) == IF n > Files THEN Files ELSE n

Restart(n) == 0

\* One aio_error of a polling loop; a pass that has found none in progress is
\* the last.
Poll(phase, next) ==
    /\ pc = phase
    /\ LET n == open + IF aio[i].state = Idle THEN 0 ELSE 1
       IN  IF ~IsLast(i) THEN i' = i + 1 /\ open' = n /\ UNCHANGED pc
           ELSE /\ i' = 1 /\ open' = Restart(n)
                /\ IF AllDone(n) THEN pc' = next ELSE UNCHANGED pc
    /\ UNCHANGED <<block, allocated, memory, output, aio, released, short>>

Release ==
    /\ pc = "release"
    /\ released' = TRUE
    /\ allocated' = allocated \ {aio[f].at : f \in File}
    /\ pc' = "return"
    /\ UNCHANGED <<i, block, memory, output, aio, open, short>>

copyFiles ==
    \/ Read \/ Write
    \/ AioRead \/ AioFree \/ Poll("pollRead", "aioWrite")
    \/ AioWrite \/ Poll("pollWrite", "release") \/ Release

\* The kernel has done with a request: aio_error is no more EINPROGRESS,
\* whether all of it, a part, or nothing was transferred.
EndRead(f, all) ==
    /\ aio[f].state = "reading"
    /\ memory' = [memory EXCEPT ![aio[f].buf] = IF all THEN f ELSE Empty]
    /\ UNCHANGED output

EndWrite(f, all) ==
    /\ aio[f].state = "writing"
    /\ output' = [output EXCEPT !["async"][f].front = IF all THEN memory[aio[f].buf] ELSE Empty]
    /\ UNCHANGED memory

\* A read that ends in a freed block overwrites what malloc keeps there, or an
\* aiocb: its status is then what happens to be in the file.
Outcome(f, all) ==
    LET b == aio[f].buf
    IN  CASE aio[f].state = "reading" /\ b \in {aio[g].at : g \in File} ->
                IF all THEN {"spoilt"} ELSE {pc, "spoilt"}
          [] aio[f].state = "reading" /\ b \notin allocated -> {pc, "spoilt"}
          [] OTHER -> {pc}

Complete(f) ==
    /\ pc \notin {"exit", "spoilt"}
    /\ \E all \in BOOLEAN :
         /\ EndRead(f, all) \/ EndWrite(f, all)
         /\ Transfer("async", f, all)
         /\ pc' \in Outcome(f, all)
    /\ aio' = [aio EXCEPT ![f].state = Idle]
    /\ UNCHANGED <<i, block, allocated, open, released>>

Next == copyFiles \/ Fail \/ \E f \in File : Complete(f)

Fairness == WF_vars(copyFiles) /\ \A f \in File : WF_vars(Complete(f))

Spec == Init /\ [][Next]_vars /\ Fairness

-----------------------------------------------------------------------------
\* No aiocb is used for a write, or freed, while the kernel still works on it:
\* one pass that finds nothing in progress is enough, although the requests
\* complete while the pass is under way (lines 65-74 and 86-95); it takes a read
\* into a freed block (line 62) to make the program believe otherwise.
RequestsAreOver ==
    /\ pc = "aioWrite" => \A f \in i..Files : aio[f].state = Idle
    /\ released => \A f \in File : aio[f].state = Idle

\* Files that are copied one after the other arrive as they were, unless the
\* kernel has read or written less than it was asked for: neither what an
\* earlier file has left in the buffer nor a short read of another file matters.
\* Behind a file remains what a longer output had there: main() opens the outputs
\* without O_TRUNC (main.c line 20).
SyncCopies ==
    pc \notin {"read", "write", "exit"} =>
        \A f \in File \ short["sync"] :
            output["sync"][f] = [front |-> f, tail |-> f \in Older]

\* copyFiles returns, or a call that failed has ended the process, or the read
\* into a freed block has spoilt it (the polling loop may then go on for ever).
Returns == <>(pc \in {"return", "exit", "spoilt"})

\* "read the entire file's contents into memory and then write them into the
\* corresponding file" (assign5.h line 26), with asynchronous calls too.
AsyncCopies ==
    pc = "return" => \A f \in File \ short["async"] : output["async"][f].front = f
=============================================================================
