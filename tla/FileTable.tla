----------------------------- MODULE FileTable -----------------------------
(***************************************************************************)
(* The FILE streams of file.c: a table of slots, each holding a kernel     *)
(* descriptor, an end-of-file and an error flag and a few pushed back      *)
(* bytes, over the kernel's descriptors and the files behind them.         *)
(*                                                                         *)
(* The program is the environment: it calls any function at any time on    *)
(* the streams it was given and has not closed, opens and closes           *)
(* descriptors of its own, and hands these to fdopen.  The library is not  *)
(* concurrent (flockfile does nothing), so a call is one step.             *)
(***************************************************************************)
EXTENDS Integers, Sequences, SequencesExt

CONSTANTS
  SlotCount,        \* size of file_table
  UNGETC_BUF_SIZE,
  Fd,               \* the descriptors the kernel may hand out
  ModeUsed,         \* the mode strings the program passes to fopen and freopen
  File, NoFile,     \* paths, and the mark of a closed descriptor
  Byte,
  Newline, Nul,     \* the bytes '\n' and 0
  DeviceSize        \* bound: no file grows, and no position lies, beyond it

ASSUME SlotAssumption == SlotCount \in Nat \ {0}
ASSUME UngetcAssumption == UNGETC_BUF_SIZE \in Nat
ASSUME FdAssumption == {-1, 0} \cap Fd = {}
ASSUME FileAssumption == NoFile \notin File
ASSUME ByteAssumption == {Newline, Nul} \subseteq Byte
ASSUME DeviceAssumption == DeviceSize \in Nat

Slot == 0..SlotCount - 1
NoFd == -1

(* The modes fopen accepts, and what their flags ask of the kernel.        *)
Mode == {"r", "w", "a", "r+", "w+", "a+"}
Creates(m) == m \notin {"r", "r+"}
Truncates(m) == m \in {"w", "w+"}
Appends(m) == m \in {"a", "a+"}
Readable(m) == m \in {"r", "r+", "w+", "a+"}
Writable(m) == m # "r"

FileImpl == [fd : Fd \cup {NoFd, 0}, error : {0, 1}, eof : {0, 1}, ungetc : Seq(Byte)]
Description == [file : File \cup {NoFile}, mode : Mode, pos : Nat]

VARIABLES
  initialized,  \* file_table_initialized
  table,        \* file_table
  desc,         \* the kernel's open file descriptions, one per descriptor
  exists,       \* the files that exist
  data,         \* their bytes
  held,         \* the streams the program was given and has not closed
  raw           \* the descriptors the program opened itself and still owns

vars == <<initialized, table, desc, exists, data, held, raw>>

TypeOK ==
  /\ initialized \in BOOLEAN
  /\ table \in [Slot -> FileImpl]
  /\ \A s \in Slot : Len(table[s].ungetc) <= UNGETC_BUF_SIZE
  /\ desc \in [Fd -> Description]
  /\ exists \subseteq File
  /\ data \in [File -> Seq(Byte)]
  /\ held \subseteq Slot
  /\ raw \subseteq Fd

Closed == [file |-> NoFile, mode |-> "r", pos |-> 0]
IsOpen(fd) == fd \in Fd /\ desc[fd].file # NoFile

(* A static array starts as zeros, so descriptor 0 is in every slot until  *)
(* init_file_table, at the first fopen or fdopen, makes them all free.     *)
BssSlot == [fd |-> 0, error |-> 0, eof |-> 0, ungetc |-> <<>>]

InitTable(tab) ==
  IF initialized THEN tab
  ELSE [s \in Slot |-> [tab[s] EXCEPT !.fd = NoFd, !.ungetc = <<>>]]

Init ==
  /\ initialized = FALSE
  /\ table = [s \in Slot |-> BssSlot]
  /\ desc = [fd \in Fd |-> Closed]
  /\ exists = {}
  /\ data = [f \in File |-> <<>>]
  /\ held = {}
  /\ raw = {}

-----------------------------------------------------------------------------
(* The bytes a stream will deliver: what was pushed back, last first, then *)
(* its file from the kernel's position on.                                 *)
FileAhead(s) ==
  LET fd == table[s].fd
  IN IF IsOpen(fd) /\ Readable(desc[fd].mode)
       THEN SubSeq(data[desc[fd].file], desc[fd].pos + 1, Len(data[desc[fd].file]))
       ELSE <<>>
Ahead(s) == Reverse(table[s].ungetc) \o FileAhead(s)

(* What ftell(s) returns: the kernel's position less the pushed back bytes. *)
Tell(s) == desc[table[s].fd].pos - Len(table[s].ungetc)

Smaller(m, n) == IF m < n THEN m ELSE n
Larger(m, n) == IF m < n THEN n ELSE m

(* The effect of n calls of fgetc, or of fewer when one of them meets the  *)
(* end: pushed back bytes go first, and only a failed read sets eof.  A    *)
(* read error (a stream that is not readable) is an end as well.           *)
FromPushback(s, n) == Smaller(n, Len(table[s].ungetc))
FromFile(s, n) == Smaller(n - FromPushback(s, n), Len(FileAhead(s)))
UngetcAfter(s, n) == SubSeq(table[s].ungetc, 1, Len(table[s].ungetc) - FromPushback(s, n))
PosAfter(s, n) == desc[table[s].fd].pos + FromFile(s, n)
EofAfter(s, n) == IF FromPushback(s, n) + FromFile(s, n) < n THEN 1 ELSE table[s].eof

(* Mutant of Fgetc: the pushback buffer is read from its start.            *)
FgetcFirstPushed(d, st) ==
  IF st.ungetc # <<>> THEN [st EXCEPT !.ungetc = Tail(@), !.got = Append(@, Head(st.ungetc))]
  ELSE IF Readable(d.mode) /\ st.pos < Len(data[d.file])
    THEN [st EXCEPT !.pos = @ + 1, !.got = Append(@, data[d.file][st.pos + 1])]
    ELSE [st EXCEPT !.eof = 1, !.stop = TRUE]

(* The loop of fread and fgets over fgetc, one byte at a time.             *)
Fgetc(d, st) ==
  IF st.ungetc # <<>> THEN [st EXCEPT !.ungetc = Front(@), !.got = Append(@, Last(st.ungetc))]
  ELSE IF Readable(d.mode) /\ st.pos < Len(data[d.file])
    THEN [st EXCEPT !.pos = @ + 1, !.got = Append(@, data[d.file][st.pos + 1])]
    ELSE [st EXCEPT !.eof = 1, !.stop = TRUE]

ReadLoop(s, n) ==
  LET d == desc[table[s].fd]
      Step(st) == IF st.stop THEN st ELSE Fgetc(d, st)
      after[i \in 0..n] ==
        IF i = 0 THEN [ungetc |-> table[s].ungetc, pos |-> d.pos, eof |-> table[s].eof,
                       got |-> <<>>, stop |-> FALSE]
        ELSE Step(after[i - 1])
  IN after[n]

Read(s, n) ==
  /\ s \in held
  /\ table' = [table EXCEPT ![s] = [@ EXCEPT !.ungetc = UngetcAfter(s, n), !.eof = EofAfter(s, n)]]
  /\ desc' = [desc EXCEPT ![table[s].fd].pos = PosAfter(s, n)]
  /\ UNCHANGED <<initialized, exists, data, held, raw>>

(* fread(ptr, size, nmemb, s) with n = size * nmemb: a short item at the   *)
(* end is consumed although the count returned leaves it out.  fgetc is    *)
(* the case n = 1.                                                         *)
Fread(s, n) == n > 0 /\ Read(s, n)

(* fgets(buf, size, s): size - 1 bytes, or fewer if the last is a newline. *)
IsLineLength(s, size, n) ==
  /\ \A i \in 1..n - 1 : i <= Len(Ahead(s)) => Ahead(s)[i] # Newline
  /\ \/ n = size - 1
     \/ n \in 1..Len(Ahead(s)) /\ Ahead(s)[n] = Newline
Fgets(s, size) == \E n \in 0..size - 1 : IsLineLength(s, size, n) /\ Read(s, n)

(* Mutants of Ungetc: the buffer's bound is one late; the byte is stored   *)
(* below the others; all streams share one buffer.                         *)
UngetcBeyondBuffer(s, c) ==
  /\ s \in held
  /\ Len(table[s].ungetc) <= UNGETC_BUF_SIZE
  /\ table' = [table EXCEPT ![s] = [@ EXCEPT !.ungetc = Append(table[s].ungetc, c), !.eof = 0]]
  /\ UNCHANGED <<initialized, desc, exists, data, held, raw>>
UngetcBelow(s, c) ==
  /\ s \in held
  /\ Len(table[s].ungetc) < UNGETC_BUF_SIZE
  /\ table' = [table EXCEPT ![s] = [@ EXCEPT !.ungetc = <<c>> \o table[s].ungetc, !.eof = 0]]
  /\ UNCHANGED <<initialized, desc, exists, data, held, raw>>
UngetcShared(s, c) ==
  /\ s \in held
  /\ Len(table[s].ungetc) < UNGETC_BUF_SIZE
  /\ table' = [t \in Slot |-> [table[t] EXCEPT !.ungetc = Append(table[s].ungetc, c), !.eof = 0]]
  /\ UNCHANGED <<initialized, desc, exists, data, held, raw>>

(* ungetc(c, s); with a full pushback buffer it does nothing.              *)
Ungetc(s, c) ==
  /\ s \in held
  /\ Len(table[s].ungetc) < UNGETC_BUF_SIZE
  /\ table' = [table EXCEPT ![s] = [@ EXCEPT !.ungetc = Append(table[s].ungetc, c), !.eof = 0]]
  /\ UNCHANGED <<initialized, desc, exists, data, held, raw>>

-----------------------------------------------------------------------------
(* write(fd, text, len) of the kernel: base is where the bytes go, and     *)
(* what does not fit on the device is not written.                         *)
Overwrite(old, base, text, n) ==
  [i \in 1..Larger(Len(old), base + n) |->
     IF i \in base + 1..base + n THEN text[i - base]
     ELSE IF i <= Len(old) THEN old[i] ELSE Nul]

(* fwrite(ptr, size, nmemb, s): one write, short or not, at the kernel's   *)
(* position; the pushed back bytes stay.  A failed one sets error.         *)
Fwrite(s, text) ==
  LET fd == table[s].fd
      d == desc[fd]
      base == IF Appends(d.mode) THEN Len(data[d.file]) ELSE d.pos
      n == Smaller(Len(text), DeviceSize - base)
  IN /\ s \in held
     /\ \/ /\ Writable(d.mode) /\ n > 0
           /\ data' = [data EXCEPT ![d.file] = Overwrite(@, base, text, n)]
           /\ desc' = [desc EXCEPT ![fd].pos = base + n]
           /\ UNCHANGED table
        \/ /\ ~Writable(d.mode) \/ n <= 0
           /\ table' = [table EXCEPT ![s] = [@ EXCEPT !.error = 1]]
           /\ UNCHANGED <<data, desc>>
     /\ UNCHANGED <<initialized, exists, held, raw>>

(* Where lseek counts from.  SEEK_CUR is the kernel's position: pushed     *)
(* back bytes are not subtracted.                                          *)
SeekBase(s, whence) ==
  LET d == desc[table[s].fd]
  IN CASE whence = "SEEK_SET" -> 0
       [] whence = "SEEK_CUR" -> d.pos
       [] whence = "SEEK_END" -> Len(data[d.file])

(* fseek: the pushed back bytes are dropped before lseek is tried.         *)
Fseek(s, offset, whence) ==
  LET pos == SeekBase(s, whence) + offset
  IN /\ s \in held
     /\ pos <= DeviceSize
     /\ \/ /\ pos >= 0
           /\ table' = [table EXCEPT ![s] = [@ EXCEPT !.ungetc = <<>>, !.eof = 0]]
           /\ desc' = [desc EXCEPT ![table[s].fd].pos = pos]
        \/ /\ pos < 0
           /\ table' = [table EXCEPT ![s] = [@ EXCEPT !.ungetc = <<>>, !.error = 1]]
           /\ UNCHANGED desc
     /\ UNCHANGED <<initialized, exists, data, held, raw>>
-----------------------------------------------------------------------------
(* openat: it fails at any time, and always when the file is missing and   *)
(* not to be created.                                                      *)
CanOpen(f, m) == Creates(m) \/ f \in exists

(* What a successful openat does to the files, whatever becomes of the     *)
(* descriptor afterwards.                                                  *)
OpenFile(f, m) ==
  /\ CanOpen(f, m)
  /\ exists' = exists \cup {f}
  /\ data' = IF Truncates(m) THEN [data EXCEPT ![f] = <<>>] ELSE data

Opened(f, m) == [file |-> f, mode |-> m, pos |-> 0]

IsFirstFree(tab, s) ==
  /\ tab[s].fd = NoFd
  /\ \A r \in Slot : r < s => tab[r].fd # NoFd
NoneFree(tab) == \A s \in Slot : tab[s].fd # NoFd

Occupied(fd) == [fd |-> fd, error |-> 0, eof |-> 0, ungetc |-> <<>>]

(* Mutant of FopenFrom: with no free slot the new descriptor stays open.   *)
FopenLeaksFrom(tab, ds, streams, f, m) ==
  \E fd \in Fd :
    /\ m \in Mode
    /\ ds[fd] = Closed
    /\ OpenFile(f, m)
    /\ initialized' = TRUE
    /\ desc' = [ds EXCEPT ![fd] = Opened(f, m)]
    /\ \/ \E s \in Slot :
            /\ IsFirstFree(InitTable(tab), s)
            /\ table' = [InitTable(tab) EXCEPT ![s] = Occupied(fd)]
            /\ held' = streams \cup {s}
       \/ /\ NoneFree(InitTable(tab))
          /\ table' = InitTable(tab) /\ held' = streams

(* fopen(f, m), from a table, descriptions and streams that freopen has    *)
(* already changed: a bad mode or a failed open; the first free slot; or   *)
(* no slot, and the descriptor is closed again (the file stays truncated). *)
FopenFrom(tab, ds, streams, f, m) ==
  \/ /\ table' = tab /\ desc' = ds /\ held' = streams
     /\ UNCHANGED <<initialized, exists, data>>
  \/ \E fd \in Fd :
     /\ m \in Mode
     /\ ds[fd] = Closed
     /\ OpenFile(f, m)
     /\ initialized' = TRUE
     /\ \/ \E s \in Slot :
             /\ IsFirstFree(InitTable(tab), s)
             /\ table' = [InitTable(tab) EXCEPT ![s] = Occupied(fd)]
             /\ desc' = [ds EXCEPT ![fd] = Opened(f, m)]
             /\ held' = streams \cup {s}
        \/ /\ NoneFree(InitTable(tab))
           /\ table' = InitTable(tab) /\ desc' = ds /\ held' = streams

Fopen(f, m) == FopenFrom(table, desc, held, f, m) /\ UNCHANGED raw

(* fclose(s): the descriptor is closed, the slot is free; the flags stay.  *)
ClosedTable(s) == [table EXCEPT ![s] = [@ EXCEPT !.fd = NoFd, !.ungetc = <<>>]]
ClosedDesc(s) == [desc EXCEPT ![table[s].fd] = Closed]

Fclose(s) ==
  /\ s \in held
  /\ table' = ClosedTable(s)
  /\ desc' = ClosedDesc(s)
  /\ held' = held \ {s}
  /\ UNCHANGED <<initialized, exists, data, raw>>

(* freopen(f, m, s): fclose, then fopen, which need not reuse the slot.    *)
Freopen(f, m, s) ==
  /\ s \in held
  /\ FopenFrom(ClosedTable(s), ClosedDesc(s), held \ {s}, f, m)
  /\ UNCHANGED raw

(* fdopen(fd, mode) on a descriptor of the program's own.                  *)
Fdopen(fd) ==
  /\ fd \in raw
  /\ initialized' = TRUE
  /\ \/ \E s \in Slot :
          /\ IsFirstFree(InitTable(table), s)
          /\ table' = [InitTable(table) EXCEPT ![s] = Occupied(fd)]
          /\ held' = held \cup {s}
          /\ raw' = raw \ {fd}
     \/ /\ NoneFree(InitTable(table))
        /\ table' = InitTable(table)
        /\ UNCHANGED <<held, raw>>
  /\ UNCHANGED <<desc, exists, data>>

(* The program's own open(2) and close(2).                                 *)
OpenRaw(f, m) ==
  /\ OpenFile(f, m)
  /\ \E fd \in Fd :
       /\ ~IsOpen(fd)
       /\ desc' = [desc EXCEPT ![fd] = Opened(f, m)]
       /\ raw' = raw \cup {fd}
  /\ UNCHANGED <<initialized, table, held>>

CloseRaw(fd) ==
  /\ fd \in raw
  /\ desc' = [desc EXCEPT ![fd] = Closed]
  /\ raw' = raw \ {fd}
  /\ UNCHANGED <<initialized, table, exists, data, held>>

-----------------------------------------------------------------------------
StreamCall(s) ==
  \/ \E n \in 1..UNGETC_BUF_SIZE + 1 : Fread(s, n)
  \/ \E size \in 1..DeviceSize + 1 : Fgets(s, size)
  \/ \E c \in Byte : Ungetc(s, c)
  \/ \E c \in Byte, n \in 1..2 : Fwrite(s, [i \in 1..n |-> c])
  \/ \E offset \in -1..1, whence \in {"SEEK_SET", "SEEK_CUR", "SEEK_END"} :
       Fseek(s, offset, whence)
  \/ Fclose(s)
  \/ \E f \in File, m \in ModeUsed : Freopen(f, m, s)

Next ==
  \/ \E s \in Slot : StreamCall(s)
  \/ \E f \in File, m \in ModeUsed : Fopen(f, m)
  \/ \E fd \in Fd : Fdopen(fd)
  \/ \E f \in File, m \in ModeUsed \cap Mode : OpenRaw(f, m)
  \/ \E fd \in Fd : CloseRaw(fd)

Spec == Init /\ [][Next]_vars

-----------------------------------------------------------------------------
(* Every open descriptor has exactly one owner: the program (opened and    *)
(* not yet given away) or one occupied slot, whose stream the program      *)
(* holds.  So no path through fopen, fdopen, freopen and fclose, the full  *)
(* table included, leaks a descriptor, closes it twice, or gives the       *)
(* program a stream that another part of it is still using.                *)
SlotsOfHeldStreams ==
  \A s \in Slot : s \in held <=> initialized /\ table[s].fd # NoFd
NoSharedDescriptor ==
  \A s, t \in held : table[s].fd = table[t].fd => s = t
RawIsNotStream == \A s \in held : table[s].fd \notin raw
HeldStreamsAreOpen == \A s \in held : IsOpen(table[s].fd)
OpenIffOwned ==
  \A fd \in Fd : IsOpen(fd) <=> fd \in raw \cup {table[s].fd : s \in held}
DescriptorOwnership ==
  /\ SlotsOfHeldStreams
  /\ NoSharedDescriptor
  /\ RawIsNotStream
  /\ HeldStreamsAreOpen
  /\ OpenIffOwned

(* The end-of-file flag and the pushback buffer agree: a stream that is at *)
(* its end has nothing pushed back, in a slot that was closed too, so that *)
(* the next read cannot both deliver a byte and have reported the end.     *)
EofMeansNoPushback ==
  \A s \in Slot : table[s].eof = 1 => table[s].ungetc = <<>>

(* The byte at a time loops of fread and fgets deliver the bytes ahead of  *)
(* the stream, pushed back ones first and last in first out, and leave the *)
(* position, the pushback buffer and the flag that Read gives them.        *)
ReadsDeliverWhatIsAhead ==
  \A s \in held, n \in 0..UNGETC_BUF_SIZE + DeviceSize :
    LET l == ReadLoop(s, n)
    IN /\ l.got = SubSeq(Ahead(s), 1, Smaller(n, Len(Ahead(s))))
       /\ <<l.ungetc, l.pos, l.eof>> 
            = <<UngetcAfter(s, n), PosAfter(s, n), EofAfter(s, n)>>

(* The idiom at = ftell(s) ... fseek(s, at, SEEK_SET): if only bytes that   *)
(* were read have been pushed back, the offset ftell returns is the place  *)
(* in the file of the next byte the stream delivers.                       *)
OnlyReadBytesPushedBack(s) ==
  LET d == desc[table[s].fd]
      u == table[s].ungetc
  IN /\ Readable(d.mode)
     /\ Len(u) <= d.pos /\ d.pos <= Len(data[d.file])
     /\ \A i \in 1..Len(u) : u[i] = data[d.file][d.pos - i + 1]
TellNamesWhatIsAhead ==
  \A s \in held :
    OnlyReadBytesPushedBack(s) =>
      LET bytes == data[desc[table[s].fd].file]
      IN Ahead(s) = SubSeq(bytes, Tell(s) + 1, Len(bytes))

(* A stream delivers the bytes ahead of it, which it can name, and has no  *)
(* byte ahead that it has reported the end before.                         *)
StreamsDeliverWhatIsAhead ==
  EofMeansNoPushback /\ ReadsDeliverWhatIsAhead /\ TellNamesWhatIsAhead

(* The byte given to ungetc is the next one its stream delivers, and is    *)
(* delivered before everything that was ahead.                             *)
PushedBackByteIsNext ==
  [][\A s \in held, c \in Byte : Ungetc(s, c) => Ahead(s)' = <<c>> \o Ahead(s)]_vars

(* Streams do not disturb each other: a call that changes what one stream  *)
(* has ahead (and no file) leaves every other stream the program holds     *)
(* alone: opening, reopening, reading, pushing back, seeking and closing,  *)
(* when two streams are open on the same file as well.                     *)
StreamsAreIndependent ==
  [][data' = data =>
       \A t \in held \cap held' :
         Ahead(t)' # Ahead(t) =>
           \A u \in held \ {t} :
             /\ u \in held'
             /\ table'[u] = table[u]
             /\ desc'[table[u].fd] = desc[table[u].fd]]_vars
=============================================================================
