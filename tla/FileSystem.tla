----------------------------- MODULE FileSystem -----------------------------
(***************************************************************************)
(* assignments/3/assign3.c: an inode table behind FUSE, whose loop runs    *)
(* handlers in threads (fuse.c).  A handler that creates is one step per   *)
(* access of the tables, write is three, the others are one step.  The     *)
(* kernel is external: it only asks about inodes it has been told of, and  *)
(* runs creations and listings of one directory, and what is done to one   *)
(* page of a file, in turn; a lookup may overlap anything, for the names   *)
(* it knows are looked up again without the lock of their directory.  The  *)
(* build has the address sanitizer: the first bad access ends the program, *)
(* and `fault' says what it was.  Of a file's text only the length counts. *)
(***************************************************************************)
EXTENDS Integers, Sequences, FiniteSetsExt

CONSTANTS Workers,       \* threads of the loop; 1 with -s
          MaxWork,       \* creations, writes and listings, together (bound)
          Page,          \* bytes in a page; a write is at most one
          Buffer,        \* bytes of the buffer a write is received in
          Fits           \* entries that a buffer of readdir holds

ASSUME FileSystemAssumption ==
    /\ Workers \in Nat \ {0} /\ MaxWork \in Nat
    /\ Page \in Nat \ {0} /\ Fits \in Nat \ {0} /\ Buffer \in Nat

Worker == 1..Workers
Ino == 1..(4 + MaxWork)
NewName == {"new"}
Unset == "unset"       \* memory nobody has written
NULL == -1
Dot == 0               \* "." and ".." in listings
DotDot == -1

VARIABLES file_count, file_stats, data,
          moving,      \* the tables whose block realloc has freed already
          req, pc,     \* the request of each worker, and where it is
          local,       \* a value its thread has read
          known,       \* what the kernel has been told: inodes and whether they are directories
          large,       \* history: files that have grown beyond a page
          listing,     \* a process that lists a directory
          overlaps,    \* history: what has run at once
          work,        \* how many creations, writes and listings there have been
          mounted, fault

tables == <<file_count, file_stats, data, moving>>
kernel == <<known, large, listing, overlaps, work, mounted>>
vars == <<tables, req, pc, local, kernel, fault>>

NoName == "none"
\* text: the bytes that a write gives up to the first NUL, which strdup copies.
Ask(op, ino, name, off, text) ==
    [op |-> op, ino |-> ino, name |-> name, off |-> off, text |-> text]
Idle == Ask("idle", 0, NoName, 0, 0)
Creates(r) == r.op \in {"mkdir", "mknod"}
OnDir(r) == Creates(r) \/ r.op \in {"lookup", "readdir"}
OnFile(r) == r.op \in {"read", "write"}

\* fileData, a string of so many bytes, and fileDataLen.
Text(bytes, len) == [bytes |-> bytes, len |-> len]
UnsetBytes == -2       \* freed, or never written
UnsetText == Text(UnsetBytes, 0)
NoText == Text(NULL, 0)

Kind(r) == IF r.op = "mkdir" THEN "dir" ELSE "file"

Entry(name, parent, kind, children, text) ==
    [name |-> name, parent |-> parent, kind |-> kind, children |-> children, text |-> text]
UnsetEntry == Entry(Unset, 0, Unset, <<>>, UnsetText)

\* assign3_init; the kernel has looked its tree up.
Init ==
    /\ file_count = 4
    /\ file_stats = <<"dir", "dir", "file", "file">>   \* st_mode
    /\ data = << Entry("tmp", 0, "dir", <<2>>, NoText),
                 Entry("assignment", 1, "dir", <<3, 4>>, NoText),
                 Entry("username", 2, "file", <<>>, Text(1, 1)),
                 Entry("features", 2, "file", <<>>, Text(Page, Page)) >>
    /\ moving = {}
    /\ req = [w \in Worker |-> Idle] /\ pc = [w \in Worker |-> "idle"]
    /\ local = [w \in Worker |-> 0]
    /\ known = {[ino |-> i, kind |-> file_stats[i]] : i \in 1..4} /\ large = {}
    /\ listing = [dir |-> 0, off |-> 0, seen |-> <<>>, grew |-> FALSE, parts |-> FALSE,
                   ended |-> FALSE]
    /\ overlaps = {} /\ work = 0
    /\ mounted = TRUE /\ fault = "none"

\* A step of a handler: what is wrong with its accesses ends the program.
Unless(bad, Step) ==
    IF bad = "none" THEN Step /\ UNCHANGED fault
    ELSE fault' = bad /\ UNCHANGED <<tables, req, pc, local, kernel>>
Goto(w, where) == pc' = [pc EXCEPT ![w] = where] /\ UNCHANGED req
Done(w) ==
    /\ pc' = [pc EXCEPT ![w] = "idle"] /\ req' = [req EXCEPT ![w] = Idle]
    /\ local' = [local EXCEPT ![w] = 0]

Bad(table, len, i) ==
    IF table \in moving THEN "freed" ELSE IF i > len THEN "overflow" ELSE "none"
BadStat(i) == Bad("stats", Len(file_stats), i)
BadData(i) ==
    LET bad == Bad("data", Len(data), i)
    IN  IF bad = "none" /\ data[i].name = Unset THEN "unset" ELSE bad

-----------------------------------------------------------------------------
\* The kernel's requests.
DirKnown == {k.ino : k \in {k \in known : k.kind = "dir"}}
FileKnown == {k.ino : k \in {k \in known : k.kind = "file"}}
NameOf(i) == IF i <= Len(data) THEN data[i].name ELSE Unset
ChildrenOf(i) == IF i <= Len(data) THEN data[i].children ELSE <<>>
ChildNames(i) == {NameOf(ChildrenOf(i)[k]) : k \in DOMAIN ChildrenOf(i)}

\* Files whose second page the kernel may read: those that have grown to it, and
\* those that mknod made, whose st_size is what realloc left there.
Long == large \cup {f \in FileKnown : f > 4}

\* A new file has a name its directory does not have: the kernel has looked.
Create(op) == {Ask(op, d, n, 0, 0) : d \in DirKnown, n \in NewName}
Request ==
    {r \in Create("mkdir") \cup Create("mknod") :
        work < MaxWork /\ r.name \notin ChildNames(r.ino)}
    \cup {Ask("lookup", d, n, 0, 0) :
            d \in DirKnown, n \in NewName \cup {"assignment", "username", "features"}}
    \cup {Ask("readdir", d, NoName, listing.off, 0) :
            d \in {d \in {listing.dir} : d # 0 /\ ~listing.ended /\ Len(listing.seen) <= Fits}}
    \cup {Ask("read", f, NoName, 0, 0) : f \in FileKnown}
    \cup {Ask("read", f, NoName, Page, 0) : f \in Long}
    \cup {Ask("write", f, NoName, o, n) :
            f \in {f \in FileKnown : work < MaxWork}, o \in {0, Page}, n \in 0..Buffer}
    \cup {Ask("getattr", k.ino, NoName, 0, 0) : k \in known}

\* The kernel's locks of directories and pages.
Locks(r) == Creates(r) \/ r.op = "readdir"
InTurn(r, s) == r.ino = s.ino /\ ((Locks(r) /\ Locks(s)) \/ (OnFile(r) /\ OnFile(s) /\ r.off = s.off))

\* What is at work at once, as far as it matters.
Overlap(r, s) ==
    IF Creates(r) /\ Creates(s) THEN {"creations"}
    ELSE IF Creates(r) # Creates(s) THEN {"creation"}
    ELSE IF r.ino = s.ino /\ "write" \in {r.op, s.op} THEN {"file"} ELSE {}

First(r) == IF Creates(r) THEN "load" ELSE r.op

Receive(w) ==
    /\ pc[w] = "idle"
    /\ \E r \in Request :
         LET others == {req[v] : v \in {v \in Worker : pc[v] # "idle"}}
         IN  /\ \A s \in others : ~InTurn(r, s)
             /\ overlaps' = overlaps \cup UNION {Overlap(r, s) : s \in others}
             /\ req' = [req EXCEPT ![w] = r]
             /\ pc' = [pc EXCEPT ![w] = First(r)]
             /\ work' = work + (IF Creates(r) \/ r.op = "write" THEN 1 ELSE 0)
             /\ listing' = [listing EXCEPT !.grew = @ \/ (Creates(r) /\ r.ino = listing.dir)]
    /\ UNCHANGED <<tables, local, known, large, mounted, fault>>

\* A process opens a directory that it is going to list.
OpenDir ==
    /\ listing.dir = 0 /\ work < MaxWork /\ work' = work + 1
    /\ \E d \in DirKnown :
         listing' = [listing EXCEPT !.dir = d,
                       !.grew = \E v \in Worker : Creates(req[v]) /\ req[v].ino = d]
    /\ UNCHANGED <<tables, req, pc, local, known, large, overlaps, mounted, fault>>

-----------------------------------------------------------------------------
\* assign3_mkdir and assign3_mknod, from file_count++ to the reply.
LoadCount(w) ==
    /\ pc[w] = "load" /\ Goto(w, "store")
    /\ local' = [local EXCEPT ![w] = file_count]
    /\ UNCHANGED <<tables, kernel, fault>>

\* A bug: both the inodes and the entries are counted.
CountedTwice(n) == n + 2
Counted(n) == n + 1

StoreCount(w) ==
    /\ pc[w] = "store" /\ Goto(w, "growStats")
    /\ file_count' = Counted(local[w])
    /\ UNCHANGED <<file_stats, data, moving, local, kernel, fault>>

\* A bug: the blocks get room for file_count entries, of which entry 0 is one.
RoomForLess == file_count - 1

\* The last entry that realloc makes room for.
Room == file_count

\* realloc of a table: the old block is freed, and then the new one is stored.
Grow(w, where, table, then) ==
    pc[w] = where /\ Unless(IF table \in moving THEN "freed" ELSE "none",
        /\ moving' = moving \cup {table}
        /\ local' = [local EXCEPT ![w] = Room]
        /\ Goto(w, then)
        /\ UNCHANGED <<file_count, file_stats, data, kernel>>)

Resized(table, n, unset) == [i \in 1..n |-> IF i <= Len(table) THEN table[i] ELSE unset]

PublishStats(w) ==
    /\ pc[w] = "publishStats" /\ Goto(w, "setStat")
    /\ file_stats' = Resized(file_stats, local[w], Unset)
    /\ moving' = moving \ {"stats"}
    /\ UNCHANGED <<file_count, data, local, kernel, fault>>

SetStat(w) ==
    pc[w] = "setStat" /\ Unless(BadStat(file_count),
        /\ file_stats' = [file_stats EXCEPT ![file_count] = Kind(req[w])]
        /\ Goto(w, "growChildren")
        /\ UNCHANGED <<file_count, data, moving, local, kernel>>)

\* realloc of the parent's children: until AddChild they cannot be read.
GrowChildren(w) ==
    pc[w] = "growChildren" /\ Unless(BadData(req[w].ino),
        Goto(w, "addChild") /\ UNCHANGED <<tables, local, kernel>>)

BadList(d) ==
    IF \E v \in Worker : pc[v] = "addChild" /\ req[v].ino = d THEN "freed" ELSE "none"

\* A bug: inodes are counted from 0.
ChildBefore == file_count - 1
Child == file_count

AddChild(w) ==
    pc[w] = "addChild" /\ Unless(BadData(req[w].ino),
        /\ data' = [data EXCEPT ![req[w].ino].children = Append(@, Child)]
        /\ Goto(w, "growData")
        /\ UNCHANGED <<file_count, file_stats, moving, local, kernel>>)

PublishData(w) ==
    /\ pc[w] = "publishData" /\ Goto(w, "setData")
    /\ data' = Resized(data, local[w], UnsetEntry)
    /\ moving' = moving \ {"data"}
    /\ UNCHANGED <<file_count, file_stats, local, kernel, fault>>

\* mkdir leaves fileData as it finds it.
SetData(w) ==
    pc[w] = "setData" /\ Unless(Bad("data", Len(data), file_count),
        /\ data' = [data EXCEPT ![file_count] =
                      Entry(req[w].name, req[w].ino, Kind(req[w]), <<>>,
                            IF req[w].op = "mkdir" THEN @.text ELSE NoText)]
        /\ Goto(w, "reply")
        /\ UNCHANGED <<file_count, file_stats, moving, local, kernel>>)

\* fuse_reply_entry tells the kernel of an inode; it wants a known type.
Tell(i) ==
    /\ known' = IF file_stats[i] = Unset THEN known
                ELSE known \cup {[ino |-> i, kind |-> file_stats[i]]}
    /\ UNCHANGED <<large, listing, overlaps, work, mounted>>

Reply(w) ==
    pc[w] = "reply" /\ Unless(BadStat(file_count),
        Tell(file_count) /\ Done(w) /\ UNCHANGED tables)

-----------------------------------------------------------------------------
\* The first of several accesses that is bad.
FirstBad(bads) ==
    LET bad == {k \in DOMAIN bads : bads[k] # "none"}
    IN  IF bad = {} THEN "none" ELSE bads[Min(bad)]

BadChildren(i) == [k \in DOMAIN ChildrenOf(i) |-> BadData(ChildrenOf(i)[k])]

\* The children are compared up to the one that has the name.
Lookup(w) ==
    LET parent == req[w].ino
        cs == ChildrenOf(parent)
        found == {k \in DOMAIN cs : NameOf(cs[k]) = req[w].name}
        first == Min(found)
        seen == SubSeq(BadChildren(parent), 1, IF found = {} THEN Len(cs) ELSE first)
        bad == FirstBad(<<BadData(parent), BadList(parent)>> \o seen)
    IN  /\ pc[w] = "lookup"
        /\ \/ found = {} /\ Unless(bad, Done(w) /\ UNCHANGED <<tables, kernel>>)
           \/ found # {} /\ Unless(FirstBad(<<bad, BadStat(cs[first])>>),
                              Tell(cs[first]) /\ Done(w) /\ UNCHANGED tables)

Getattr(w) ==
    pc[w] = "getattr" /\ Unless(IF req[w].ino > file_count THEN "none" ELSE BadStat(req[w].ino),
        Done(w) /\ UNCHANGED <<tables, kernel>>)

\* A bug: a listing ends one offset later.
EndsLater(off, n) == off > n + 2

\* The offset is beyond the entries.
Ends(off, n) == off > n + 1

\* The entries of one answer: the children are all given whatever the offset is.
Answered(ino, off) ==
    (IF off < 1 THEN <<Dot>> ELSE <<>>) \o (IF off < 2 THEN <<DotDot>> ELSE <<>>) \o ChildrenOf(ino)

\* The caller takes some of the entries, and goes on at the offset of the last one
\* it took: each answer numbers its entries from 1.  An entry that does not fit
\* makes len pass the end of buf.
Readdir(w) ==
    LET ino == req[w].ino
        entries == Answered(ino, req[w].off)
        bad == <<BadData(ino)>> \o BadChildren(ino)
                 \o [k \in DOMAIN ChildrenOf(ino) |-> BadStat(ChildrenOf(ino)[k])]
                 \o <<BadStat(ino), IF Len(entries) > Fits THEN "stack" ELSE "none">>
    IN  /\ pc[w] = "readdir"
        /\ IF Ends(req[w].off, Len(ChildrenOf(ino)))
           THEN Unless(BadData(ino), listing' = [listing EXCEPT !.ended = TRUE] /\ Done(w)
                  /\ UNCHANGED <<tables, known, large, overlaps, work, mounted>>)
           ELSE Unless(FirstBad(bad),
                  /\ \E n \in 1..Len(entries) :
                       listing' = [listing EXCEPT !.off = n, !.seen = @ \o SubSeq(entries, 1, n),
                                     !.parts = @ \/ n < Len(entries)]
                  /\ Done(w) /\ UNCHANGED <<tables, known, large, overlaps, work, mounted>>)

\* printf reads from off to the terminator, and the reply is len - off bytes, an
\* unsigned difference, or a page.
Sent(text, off) ==
    IF off > text.len \/ text.len - off > Page THEN Page ELSE text.len - off
Within(text, off) == off <= text.bytes /\ off + Sent(text, off) <= text.bytes + 1

BadText(e, off) ==
    IF e.kind = "dir" \/ e.text.len = 0 THEN "none"
    ELSE IF e.text.bytes = UnsetBytes THEN "freed"
    ELSE IF Within(e.text, off) THEN "none" ELSE "overread"

Read(w) ==
    LET bad == BadData(req[w].ino)
    IN  pc[w] = "read" /\ Unless(IF bad # "none" THEN bad ELSE BadText(data[req[w].ino], req[w].off),
            Done(w) /\ UNCHANGED <<tables, kernel>>)

\* write frees the text, copies what it is given, and then stores its length.
FreeText(w) ==
    LET ino == req[w].ino
        bad == BadData(ino)
    IN  pc[w] = "write" /\ Unless(IF bad = "none" /\ data[ino].text.bytes = UnsetBytes
                                  THEN "freed" ELSE bad,
            /\ data' = [data EXCEPT ![ino].text.bytes = UnsetBytes]
            /\ Goto(w, "copy")
            /\ UNCHANGED <<file_count, file_stats, moving, local, kernel>>)

CopyText(w) ==
    pc[w] = "copy" /\ Unless(BadData(req[w].ino),
        /\ data' = [data EXCEPT ![req[w].ino].text.bytes = req[w].text]
        /\ Goto(w, "length")
        /\ UNCHANGED <<file_count, file_stats, moving, local, kernel>>)

StoreLength(w) ==
    LET ino == req[w].ino
    IN  pc[w] = "length" /\ Unless(FirstBad(<<BadData(ino), BadStat(ino)>>),
            /\ data' = [data EXCEPT ![ino].text.len = req[w].text + 1]
            /\ large' = IF req[w].off > 0 THEN large \cup {ino} ELSE large
            /\ Done(w)
            /\ UNCHANGED <<file_count, file_stats, moving, known, listing, overlaps, work, mounted>>)

\* assign3_destroy, after the loop: every field of every entry is freed.
Destroy ==
    /\ \A w \in Worker : pc[w] = "idle"
    /\ Unless(FirstBad([i \in 1..file_count |->
                 IF BadData(i) # "none" THEN BadData(i)
                 ELSE IF data[i].text.bytes = UnsetBytes THEN "unset" ELSE "none"]),
           mounted' = FALSE
           /\ UNCHANGED <<tables, req, pc, local, known, large, listing, overlaps, work>>)

creation(w) ==
    \/ LoadCount(w) \/ StoreCount(w)
    \/ Grow(w, "growStats", "stats", "publishStats") \/ PublishStats(w) \/ SetStat(w)
    \/ GrowChildren(w) \/ AddChild(w)
    \/ Grow(w, "growData", "data", "publishData") \/ PublishData(w) \/ SetData(w)
    \/ Reply(w)

Next ==
    /\ mounted /\ fault = "none"
    /\ \/ \E w \in Worker : \/ Receive(w) \/ creation(w)
                            \/ Lookup(w) \/ Getattr(w) \/ Readdir(w)
                            \/ Read(w) \/ FreeText(w) \/ CopyText(w) \/ StoreLength(w)
       \/ OpenDir \/ Destroy

Spec == Init /\ [][Next]_vars

-----------------------------------------------------------------------------
\* The types.
TypeOK ==
    /\ file_count \in Ino
    /\ \A i \in DOMAIN file_stats : file_stats[i] \in {"dir", "file", Unset}
    /\ \A i \in DOMAIN data : data[i].children \in Seq(Ino)
    /\ moving \subseteq {"stats", "data"}
    /\ known \subseteq [ino : Ino, kind : {"dir", "file"}] /\ large \subseteq Ino
    /\ Len(file_stats) <= 4 + MaxWork /\ Len(data) <= 4 + MaxWork

Creating == \E w \in Worker : Creates(req[w])

\* As long as no two creations have overlapped and none is under way, the tables
\* are a tree: every inode but the root is a child of its parent, once, and of
\* nothing else, with a name its siblings do not have, and its attributes say
\* what it is.
TreeUnlessRaced ==
    ("creations" \notin overlaps /\ ~Creating) =>
        /\ Len(data) = file_count /\ Len(file_stats) = file_count
        /\ \A i \in 1..file_count :
             /\ file_stats[i] = data[i].kind
             /\ Cardinality(ChildNames(i)) = Len(data[i].children)
             /\ \A k \in DOMAIN data[i].children :
                  data[i].children[k] \in 2..file_count /\ data[data[i].children[k]].parent = i
        /\ \A i \in 2..file_count : \E k \in DOMAIN data[data[i].parent].children :
             data[data[i].parent].children[k] = i

\* Freed memory and memory beyond a table are only met when requests overlap, one
\* of which creates or writes; what was never written only when one of them
\* creates, or when destroy frees the text of a directory that was made; only a
\* read leaves a text, which goes beyond the first page of a file that may be
\* longer or overlaps a write or two creations; and readdir leaves its buffer only
\* in a large directory.
FaultsExplained ==
    /\ fault \in {"freed", "overflow"} => overlaps # {}
    /\ fault = "unset" => \/ overlaps \cap {"creation", "creations"} # {}
                          \/ \E i \in 5..file_count : data[i].kind = "dir"
    /\ fault = "overread" => \E w \in Worker :
         /\ req[w].op = "read"
         /\ \/ req[w].off > 0 /\ req[w].ino \in Long
            \/ overlaps \cap {"file", "creations"} # {}
    /\ fault = "stack" => \E i \in DOMAIN data : Len(data[i].children) + 2 > Fits

\* A process that lists a directory to its end has seen its entries, each of them
\* once and in order, but for those that have been made since, whatever was made
\* meanwhile: the end only comes after one answer that it took as a whole.  If it
\* takes answers as a whole, and nothing is made in the directory, it never sees
\* an entry twice.
ListingExact ==
    (listing.dir # 0 /\ "creations" \notin overlaps) =>
        LET all == <<Dot, DotDot>> \o data[listing.dir].children
        IN  /\ listing.ended =>
                 /\ ~listing.parts
                 /\ Len(listing.seen) <= Len(all)
                 /\ listing.seen = SubSeq(all, 1, Len(listing.seen))
                 /\ ~listing.grew => listing.seen = all
            /\ ~listing.grew /\ ~listing.parts => listing.seen \in {<<>>, all}
=============================================================================
