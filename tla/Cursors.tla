------------------------------ MODULE Cursors ------------------------------
(***************************************************************************)
(* Data read ahead: getchar's static buffer over descriptor 0, which read  *)
(* and fgetc do not know, and the buffer of each DIR over the directory    *)
(* its descriptor is open on.  The kernel delivers what it has in pieces   *)
(* of its choosing, nothing at the end, and errors at any time.            *)
(***************************************************************************)
EXTENDS Integers, Sequences, FiniteSets, Functions

CONSTANTS
  Input,         \* the bytes that arrive on descriptor 0
  IN_BUF_SIZE,   \* of getchar
  Dir,           \* the DIRs a program may open
  Directory,     \* the entries of the one directory
  DirBuf,        \* entries that fit into a DIR's buf
  MaxOpens,      \* bound: calls of opendir
  MaxFailures,   \* bound: reads that fail
  NoEntry

ASSUME SizesAssumption == IN_BUF_SIZE \in Nat \ {0} /\ DirBuf \in Nat \ {0}

(* What arrives is told apart byte by byte, and entry by entry.            *)
AllDiffer(s) == s \in Seq(Range(s)) /\ \A i, j \in DOMAIN s : s[i] = s[j] => i = j
ASSUME DataAssumption == AllDiffer(Input) /\ AllDiffer(Directory) /\ IsFiniteSet(Dir)

VARIABLES
  ahead,         \* bytes the kernel has not delivered
  in_buf, in_ptr,          \* getchar's; in_len is Len(in_buf)
  byGetchar, byRead,       \* bytes delivered to callers of each
  dirs,          \* DIR -> fd position shared through fd, buf, buf_pos; or closed
  position,      \* open description -> entries the kernel has delivered
  de,            \* readdir's static struct dirent
  entries,       \* DIR -> the entries readdir returned
  failures

inputVars == <<ahead, in_buf, in_ptr, byGetchar, byRead>>
dirVars == <<dirs, position, de, entries>>
cursorVars == <<inputVars, dirVars, failures>>

Closed == [open |-> FALSE, desc |-> 0, buf |-> <<>>, pos |-> 0]
Drop(s, n) == SubSeq(s, n + 1, Len(s))

(* The kernel delivers at least one and at most as much as there is.       *)
Pieces(room, left) == {n \in 1..room : n <= left}

CursorsInit ==
  /\ ahead = Input /\ in_buf = <<>> /\ in_ptr = 0 /\ byGetchar = <<>> /\ byRead = <<>>
  /\ dirs = [d \in Dir |-> Closed] /\ position = <<>> /\ de = NoEntry
  /\ entries = [d \in Dir |-> <<>>]
  /\ failures = 0

(* One behaviour reads either descriptor 0 or directories.                 *)
NoDirs == position = <<>>
NoInput == ahead = Input

-----------------------------------------------------------------------------
(* getchar: the next byte of the buffer, refilled when it is used up; EOF  *)
(* for nothing and for an error alike, with the buffer as it was.          *)
Getchar ==
  /\ in_ptr < Len(in_buf) /\ NoDirs
  /\ byGetchar' = Append(byGetchar, in_buf[in_ptr + 1])
  /\ in_ptr' = in_ptr + 1
  /\ UNCHANGED <<ahead, in_buf, byRead, dirVars, failures>>

(* Mutant of GetcharRefills. *)
GetcharRefillsEarly ==
  /\ in_ptr >= Len(in_buf) - 1 /\ NoDirs
  /\ \E n \in Pieces(IN_BUF_SIZE, Len(ahead)) :
       /\ in_buf' = SubSeq(ahead, 1, n) /\ ahead' = Drop(ahead, n)
       /\ byGetchar' = Append(byGetchar, in_buf'[1]) /\ in_ptr' = 1
  /\ UNCHANGED <<byRead, dirVars, failures>>

GetcharRefills ==
  /\ in_ptr >= Len(in_buf) /\ NoDirs
  /\ \E n \in Pieces(IN_BUF_SIZE, Len(ahead)) :
       /\ in_buf' = SubSeq(ahead, 1, n) /\ ahead' = Drop(ahead, n)
       /\ byGetchar' = Append(byGetchar, in_buf'[1]) /\ in_ptr' = 1
  /\ UNCHANGED <<byRead, dirVars, failures>>

GetcharFails ==
  /\ in_ptr >= Len(in_buf) /\ NoDirs /\ failures < MaxFailures
  /\ failures' = failures + 1
  /\ UNCHANGED <<inputVars, dirVars>>

(* read(0, buf, n), and fgetc(stdin), which reads one byte.                *)
Read(count) ==
  /\ NoDirs
  /\ \E n \in Pieces(count, Len(ahead)) :
       byRead' = byRead \o SubSeq(ahead, 1, n) /\ ahead' = Drop(ahead, n)
  /\ UNCHANGED <<in_buf, in_ptr, byGetchar, dirVars, failures>>

-----------------------------------------------------------------------------
(* opendir opens the directory anew; fdopendir takes a descriptor, here a  *)
(* duplicate of another DIR's, with which it shares the kernel's position. *)
Opened(d, desc) ==
  dirs' = [dirs EXCEPT ![d] = [open |-> TRUE, desc |-> desc, buf |-> <<>>, pos |-> 0]]

OpenDir(d) ==
  /\ NoInput /\ ~dirs[d].open /\ entries[d] = <<>> /\ Len(position) < MaxOpens
  /\ position' = Append(position, 0) /\ Opened(d, Len(position) + 1)
  /\ UNCHANGED <<de, entries, inputVars, failures>>

FdOpenDir(d, other) ==
  /\ ~dirs[d].open /\ entries[d] = <<>> /\ dirs[other].open
  /\ Opened(d, dirs[other].desc)
  /\ UNCHANGED <<position, de, entries, inputVars, failures>>

(* malloc fails after open: opendir closes the descriptor again.           *)
OpenDirFails ==
  /\ NoInput /\ failures < MaxFailures /\ failures' = failures + 1
  /\ UNCHANGED <<inputVars, dirVars>>

Deliver(d, buf, pos) ==
  /\ dirs' = [dirs EXCEPT ![d] = [open |-> TRUE, desc |-> dirs[d].desc, buf |-> buf, pos |-> pos]]
  /\ de' = buf[pos]
  /\ entries' = [entries EXCEPT ![d] = Append(@, buf[pos])]

(* readdir: the next entry of the buffer is copied into the static de.     *)
ReadDir(d) ==
  /\ dirs[d].open /\ dirs[d].pos < Len(dirs[d].buf)
  /\ Deliver(d, dirs[d].buf, dirs[d].pos + 1)
  /\ UNCHANGED <<position, inputVars, failures>>

ReadDirRefills(d) ==
  /\ dirs[d].open /\ dirs[d].pos >= Len(dirs[d].buf)
  /\ LET at == position[dirs[d].desc]
     IN \E n \in Pieces(DirBuf, Len(Directory) - at) :
          /\ Deliver(d, SubSeq(Directory, at + 1, at + n), 1)
          /\ position' = [position EXCEPT ![dirs[d].desc] = at + n]
  /\ UNCHANGED <<inputVars, failures>>

(* getdents64 fails: NULL, as at the end, and the position stays.          *)
ReadDirFails(d) ==
  /\ dirs[d].open /\ dirs[d].pos >= Len(dirs[d].buf) /\ failures < MaxFailures
  /\ failures' = failures + 1
  /\ UNCHANGED <<inputVars, dirVars>>

CloseDir(d) ==
  /\ dirs[d].open
  /\ dirs' = [dirs EXCEPT ![d] = Closed]
  /\ UNCHANGED <<position, de, entries, inputVars, failures>>

CursorsNext ==
  \/ Getchar \/ GetcharRefills \/ GetcharFails
  \/ \E n \in 1..2 : Read(n)
  \/ \E d \in Dir : OpenDir(d) \/ ReadDir(d) \/ ReadDirRefills(d) \/ ReadDirFails(d) \/ CloseDir(d)
  \/ \E d, other \in Dir : FdOpenDir(d, other)
  \/ OpenDirFails

CursorsSpec == CursorsInit /\ [][CursorsNext]_cursorVars

-----------------------------------------------------------------------------
(* Of a t whose elements differ.                                           *)
IsSubSeqOf(s, t) ==
  /\ Range(s) \subseteq Range(t)
  /\ \A i, j \in DOMAIN s, a, b \in DOMAIN t : (i < j /\ s[i] = t[a] /\ s[j] = t[b]) => a < b

(* Every byte of the input reaches exactly one caller, or is ahead, or in  *)
(* getchar's buffer; each of the two ways to read sees its own bytes in    *)
(* order; and a byte is overtaken only while it waits in getchar's buffer, *)
(* by what read and fgetc take from the kernel.                            *)
EachByteOnce ==
  LET waiting == Drop(in_buf, in_ptr)
      parts == <<byGetchar, byRead, waiting, ahead>>
  IN /\ \A p, q \in 1..4 : p # q => Range(parts[p]) \cap Range(parts[q]) = {}
     /\ UNION {Range(parts[p]) : p \in 1..4} = Range(Input)
     /\ \A p \in 1..4 : IsSubSeqOf(parts[p], Input)
     /\ byRead = <<>> => byGetchar \o waiting \o ahead = Input

(* readdir gives each DIR entries of the directory in their order and none *)
(* twice, also when getdents64 fails in between; DIRs over one descriptor  *)
(* share the entries out, and as long as none is closed they lose none.    *)
EachEntryOnce ==
  /\ \A d \in Dir :
       /\ IsSubSeqOf(entries[d], Directory)
       /\ dirs[d].open =>
            /\ IsSubSeqOf(entries[d] \o Drop(dirs[d].buf, dirs[d].pos), Directory)
            /\ Range(entries[d]) \subseteq Range(SubSeq(Directory, 1, position[dirs[d].desc]))
  /\ \A d, other \in Dir :
       (d # other /\ dirs[d].open /\ dirs[other].open /\ dirs[d].desc = dirs[other].desc) =>
         Range(entries[d]) \cap Range(entries[other]) = {}
  /\ \A p \in DOMAIN position :
       LET readers == {d \in Dir : dirs[d].open /\ dirs[d].desc = p}
           known == UNION {Range(entries[d]) \cup Range(Drop(dirs[d].buf, dirs[d].pos)) : d \in readers}
       IN Cardinality(readers) = Cardinality(Dir) => known = Range(SubSeq(Directory, 1, position[p]))

(* Standard input and directories are delivered once and in order.         *)
CursorsDeliverOnce == EachByteOnce /\ EachEntryOnce
=============================================================================
