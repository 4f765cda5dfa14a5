----------------------------- MODULE MCLibrary ------------------------------
(***************************************************************************)
(* The parts of the library and the loader that share no state, side by    *)
(* side: a behaviour is one of one part, chosen at the start.  File        *)
(* streams are here with the instance of one stream and few bytes; the one *)
(* with several streams has a run of its own.                              *)
(***************************************************************************)
EXTENDS MCImage, StartupStack, MCSearch, MCBinding, MCOptions, MCStrings, MCFormat,
        Calendar, Cursors, Syscalls, Frame, MCFloats, Jumps, Atomics

-----------------------------------------------------------------------------
(* The instances of the parts that have no module of constants.            *)

(* StartupStack: every command line of up to three words after ld.so.      *)
CommandWords ==
  {"--list", "--preload=p", "--library-path", "--", "--help", "-x", "-", "prog"}
CommandLines == {<<"ld.so">> \o words : words \in BoundedSeq(CommandWords, 3)}

(* Calendar: the first and last seconds around the ends of February and of *)
(* the year, in years that leap, that do not, and at the ends of centuries. *)
DaysFrom(year, month, mday) == DayNumber(year, month, mday) - Epoch
EdgeDays ==
  UNION {{DaysFrom(y, 1, 1) - 1, DaysFrom(y, 1, 1), DaysFrom(y, 2, 28), DaysFrom(y, 2, 28) + 1,
          DaysFrom(y, 2, 28) + 2, DaysFrom(y, 12, 30), DaysFrom(y, 12, 31)} :
           y \in {1970, 1972, 1999, 2000, 2001, 2100}}
EdgeTimes == {d * Day + s : d \in EdgeDays, s \in {0, Day - 1}} \cup {-1 - Day}

(* Cursors and Syscalls.                                                   *)
FiveBytes == <<1, 2, 3, 4, 5>>
FourEntries == <<1, 2, 3, 4>>
UptimeBytes == <<10, 4, 2, 11, 5>>

(* Frame: slots of three units, the third of its group, half of whose      *)
(* blocks need more than Limit units of offset.                            *)
FrameSizes == {0, 13, 28, 44}

(* Jumps: calls two deep, from setjmp's own function and from one it calls. *)
Arches == {"x86_64", "x86", "aarch64"}
OnlyX86_64 == {"x86_64"}

-----------------------------------------------------------------------------
CONSTANTS
  Parts,         \* the parts whose behaviours are checked
  SlotCount, UNGETC_BUF_SIZE, FileFd, ModeUsed, File, FileNone, FileByte, Newline, Nul, DeviceSize

VARIABLES
  part,
  fileInitialized, fileTable, fileDesc, fileExists, fileData, fileHeld, fileRaw

fileVars == <<fileInitialized, fileTable, fileDesc, fileExists, fileData, fileHeld, fileRaw>>

Files == INSTANCE FileTable
           WITH Fd <- FileFd, NoFile <- FileNone, Byte <- FileByte,
                initialized <- fileInitialized, table <- fileTable, desc <- fileDesc,
                exists <- fileExists, data <- fileData, held <- fileHeld, raw <- fileRaw

LibraryInit ==
  /\ part \in Parts
  /\ ImageInit /\ StackInit /\ SearchInit /\ BindingInit /\ OptionsInit /\ StringsInit /\ FormatInit
  /\ CalendarInit /\ CursorsInit /\ SyscallsInit /\ FrameInit
  /\ FloatsInit /\ JumpsInit /\ AtomicsInit
  /\ part # "jumps" => arch = CHOOSE a \in Arch : TRUE
  /\ Files!Init

linkerVars == <<imageVars, stackVars, searchVars, bindingVars>>
textVars == <<optionVars, stringVars, formatVars, calendarVars>>
systemVars == <<cursorVars, sysVars>>
machineVars == <<mathVars, jumpVars, atomicVars>>

LinkerNext ==
  \/ part = "image" /\ ImageNext /\ UNCHANGED <<stackVars, searchVars, bindingVars>>
  \/ part = "stack" /\ StackNext /\ UNCHANGED <<imageVars, searchVars, bindingVars>>
  \/ part = "search" /\ SearchNext /\ UNCHANGED <<imageVars, stackVars, bindingVars>>
  \/ part = "binding" /\ BindingNext /\ UNCHANGED <<imageVars, stackVars, searchVars>>

TextNext ==
  \/ part = "options" /\ OptionsNext /\ UNCHANGED <<stringVars, formatVars, calendarVars>>
  \/ part = "strings" /\ StringsNext /\ UNCHANGED <<optionVars, formatVars, calendarVars>>
  \/ part = "format" /\ FormatNext /\ UNCHANGED <<optionVars, stringVars, calendarVars>>
  \/ part = "calendar" /\ CalendarNext /\ UNCHANGED <<optionVars, stringVars, formatVars>>

SystemNext ==
  \/ part = "cursors" /\ CursorsNext /\ UNCHANGED sysVars
  \/ part = "syscalls" /\ SyscallsNext /\ UNCHANGED cursorVars

MachineNext ==
  \/ part = "floats" /\ FloatsNext /\ UNCHANGED <<jumpVars, atomicVars>>
  \/ part = "jumps" /\ JumpsNext /\ UNCHANGED <<mathVars, atomicVars>>
  \/ part = "atomics" /\ AtomicsNext /\ UNCHANGED <<mathVars, jumpVars>>

LibraryNext ==
  /\ \/ LinkerNext /\ UNCHANGED <<textVars, systemVars, frameVars, fileVars, machineVars>>
     \/ TextNext /\ UNCHANGED <<linkerVars, systemVars, frameVars, fileVars, machineVars>>
     \/ SystemNext /\ UNCHANGED <<linkerVars, textVars, frameVars, fileVars, machineVars>>
     \/ /\ part = "frame" /\ FrameNext
        /\ UNCHANGED <<linkerVars, textVars, systemVars, fileVars, machineVars>>
     \/ /\ part = "files" /\ Files!Next
        /\ UNCHANGED <<linkerVars, textVars, systemVars, frameVars, machineVars>>
     \/ /\ MachineNext
        /\ UNCHANGED <<linkerVars, textVars, systemVars, frameVars, fileVars>>
  /\ UNCHANGED part

LibrarySpec ==
  LibraryInit
  /\ [][LibraryNext]_<<part, linkerVars, textVars, systemVars, frameVars, fileVars, machineVars>>

-----------------------------------------------------------------------------
(* The bytes ahead of a stream are what its reads deliver, what its        *)
(* position names and what its end flag denies: FileTable's property.      *)
StreamsDeliverWhatIsAhead == Files!StreamsDeliverWhatIsAhead

(* A byte pushed back is the next one read: FileTable's action property.   *)
PushedBackByteIsNext == Files!PushedBackByteIsNext
=============================================================================
