------------------------------ MODULE Syscalls ------------------------------
(***************************************************************************)
(* The wrappers around system calls: what they tell their caller when the  *)
(* kernel refuses, the descriptors they hand out and take back, and        *)
(* uptime, the one function that makes several calls.  The kernel answers  *)
(* with a value or with -code.                                             *)
(***************************************************************************)
EXTENDS Integers, Sequences, SequencesExt, FiniteSetsExt

CONSTANTS
  MaxFd,         \* descriptors are 0..MaxFd - 1
  IsRoot,        \* may the process open any file for writing
  Code,          \* the codes with which the kernel refuses a call at will
  MaxCalls,      \* bound: calls in a behaviour
  UptimeText,    \* the contents of /proc/uptime: digits 0..9, others above
  ULONG_MAX

ASSUME SyscallsAssumption ==
  /\ MaxFd \in Nat /\ IsRoot \in BOOLEAN /\ Code \subseteq Nat \ {0}
  /\ UptimeText \in Seq(Nat)

EBADF == 9   EACCES == 13   EFAULT == 14   EINVAL == 22   EMFILE == 24   ERANGE == 34   ENOSYS == 38

VARIABLES
  fds,           \* the kernel's table: Fd -> [desc, mode], desc 0 when closed
  errno,
  lastCall,      \* the last call: how it was answered, what the kernel said (0 when
                 \* it was not asked), what the caller got, and the errno before
  uptime,        \* [at, fd, n, saved]: where uptime is, and its locals
  calls

sysVars == <<fds, errno, lastCall, uptime, calls>>

Fd == 0..MaxFd - 1
NoDesc == [desc |-> 0, mode |-> 0]
Free == {f \in Fd : fds[f].desc = 0}
Fresh == Max({fds[f].desc : f \in Fd} \cup {0}) + 1
NULL == 0

-----------------------------------------------------------------------------
(* How a wrapper answers.  refuses: the arguments it turns down before the *)
(* kernel is asked, with the errno in code.  fails, the kernel's refusal:  *)
(*   "errno"  -1, the code in errno         "raw"   -code, errno as it was *)
(*   "range"  NULL with ERANGE              "null"  NULL, errno as it was  *)
(* yields: "zero" or the kernel's "value".                                 *)
Guarded(refuses, code, yields) ==
  [refuses |-> refuses, code |-> code, fails |-> "errno", yields |-> yields]
NotNull(code, yields) == Guarded({"null"}, code, yields)
Told(yields) == Guarded({}, 0, yields)
Raw == [Told("value") EXCEPT !.fails = "raw"]

FileWrappers ==
  [read |-> Told("value"), write |-> Told("value"), lseek |-> Told("value"),
   getpid |-> Raw, getppid |-> Raw]
ProcessWrappers ==
  [getpgrp |-> Told("value"), getpgid |-> Told("value"), setpgid |-> Told("zero"),
   setsid |-> Told("value"), getsid |-> Told("value")]
IdentityWrappers ==
  [getuid |-> Raw, geteuid |-> Raw, getgid |-> Raw, getegid |-> Raw,
   setuid |-> Told("zero"), setgid |-> Told("zero"),
   setreuid |-> Told("zero"), setregid |-> Told("zero")]
StatWrappers ==
  [stat |-> NotNull(EINVAL, "zero"), fstat |-> NotNull(EINVAL, "zero"),
   lstat |-> NotNull(EINVAL, "zero"), access |-> NotNull(EINVAL, "zero"),
   chmod |-> NotNull(EINVAL, "zero"), fchmod |-> Told("zero"), mkdir |-> NotNull(EINVAL, "zero"),
   rmdir |-> NotNull(EINVAL, "zero"), unlink |-> NotNull(EINVAL, "zero")]
TerminalWrappers ==
  [tcgetattr |-> NotNull(EINVAL, "zero"), tcsetattr |-> Guarded({"null", "action"}, EINVAL, "zero"),
   tcflush |-> Told("zero"), tcflow |-> Told("zero"), tcsendbreak |-> Told("zero"),
   tcdrain |-> Told("zero")]
TimeWrappers ==
  [gettimeofday |-> NotNull(EINVAL, "zero"), settimeofday |-> Told("zero"),
   clock_gettime |-> NotNull(EFAULT, "zero"), clock_getres |-> Told("zero"),
   nanosleep |-> Told("zero")]
PollWrappers == [poll |-> NotNull(EFAULT, "value"), ppoll |-> NotNull(EFAULT, "value")]
SelectWrappers ==
  [select |-> Guarded({"nfds"}, EINVAL, "value"), pselect |-> Guarded({"nfds"}, EINVAL, "value")]
ControlWrappers == [fcntl |-> Told("value")]
IoctlWrapper == [ioctl |-> Told("value")]
UnameWrapper == [uname |-> NotNull(EFAULT, "zero")]
ForkWrapper == [fork |-> Raw]
WaitWrapper == [waitpid |-> Raw]
ExecWrapper == [execve |-> Raw]
DirectoryWrapper == [chdir |-> Raw]
CwdWrapper == [getcwd |-> [Told("value") EXCEPT !.fails = "range"]]
MapWrapper == [mmap |-> [Told("value") EXCEPT !.fails = "null"]]
MemoryWrappers == [munmap |-> Raw, mprotect |-> Raw, madvise |-> Raw, mremap |-> Raw]
RaiseWrapper == [raise |-> Raw]
RemoveWrapper == [remove |-> Raw]
PipeWrapper == NotNull(EFAULT, "zero")

WrapperTables ==
  {FileWrappers, ProcessWrappers, IdentityWrappers, StatWrappers, TerminalWrappers, TimeWrappers,
   PollWrappers, SelectWrappers, ControlWrappers, IoctlWrapper, UnameWrapper, ForkWrapper,
   WaitWrapper, ExecWrapper, DirectoryWrapper, CwdWrapper, MapWrapper, MemoryWrappers,
   RaiseWrapper, RemoveWrapper}
Wrappers ==
  [w \in UNION {DOMAIN table : table \in WrapperTables} |->
     (CHOOSE table \in WrapperTables : w \in DOMAIN table)[w]]

(* Functions that never ask the kernel: their answer and errno.            *)
(* system(NULL) asks whether there is a shell, and is told that there is.  *)
Stub(result, code) == [result |-> result, code |-> code]
LockStub == [flock |-> Stub(-1, ENOSYS)]
SystemStubs == [system |-> Stub(-1, ENOSYS), rename |-> Stub(-1, ENOSYS), mkstemp |-> Stub(-1, ENOSYS)]
ShellQuery == [system |-> Stub(1, 0)]
SignalStubs == [sigprocmask |-> Stub(0, 0), sigaction |-> Stub(0, 0)]
LoadingStubs == [dlopen |-> Stub(NULL, 0), dlsym |-> Stub(NULL, 0), dlclose |-> Stub(-1, 0)]
Stubs == <<LockStub, SystemStubs, ShellQuery, SignalStubs, LoadingStubs>>

-----------------------------------------------------------------------------
Idle == [at |-> "idle", fd |-> 0, n |-> 0, saved |-> 0]

SyscallsInit ==
  /\ fds = [f \in Fd |-> NoDesc] /\ errno = 0
  /\ lastCall = [name |-> "none", how |-> "none", answer |-> 0, result |-> 0, before |-> 0]
  /\ uptime = Idle /\ calls = 0

Reports(name, how, answer, result) ==
  lastCall' = [name |-> name, how |-> how, answer |-> answer, result |-> result, before |-> errno]

(* Mutant of Answered. *)
AnsweredWithNegativeErrno(name, w, r) ==
  /\ uptime.at = "idle" /\ calls < MaxCalls /\ calls' = calls + 1
  /\ LET result == IF r >= 0 THEN IF w.yields = "zero" THEN 0 ELSE r
                   ELSE CASE w.fails = "errno" -> -1 [] w.fails = "raw" -> r [] OTHER -> NULL
     IN Reports(name, "asked", r, result)
  /\ errno' = IF r >= 0 THEN errno
              ELSE CASE w.fails = "errno" -> r [] w.fails = "range" -> ERANGE [] OTHER -> errno
  /\ UNCHANGED uptime

(* One call of the wrapper w whose kernel call answered r.                 *)
Answered(name, w, r) ==
  /\ uptime.at = "idle" /\ calls < MaxCalls /\ calls' = calls + 1
  /\ LET result == IF r >= 0 THEN IF w.yields = "zero" THEN 0 ELSE r
                   ELSE CASE w.fails = "errno" -> -1 [] w.fails = "raw" -> r [] OTHER -> NULL
     IN Reports(name, "asked", r, result)
  /\ errno' = IF r >= 0 THEN errno
              ELSE CASE w.fails = "errno" -> -r [] w.fails = "range" -> ERANGE [] OTHER -> errno
  /\ UNCHANGED uptime

Call(name) ==
  /\ \E r \in {1} \cup {-c : c \in Code} : Answered(name, Wrappers[name], r)
  /\ UNCHANGED fds

(* An argument is refused before the kernel sees it: NULL, nfds below 0 or *)
(* above FD_SETSIZE, an unknown action; NULL for poll, with descriptors.   *)
Refused(name, w) ==
  /\ w.refuses # {} /\ uptime.at = "idle" /\ calls < MaxCalls /\ calls' = calls + 1
  /\ \E argument \in w.refuses : Reports(name, argument, 0, -1)
  /\ errno' = w.code
  /\ UNCHANGED <<fds, uptime>>

CallStub(stubs, name) ==
  /\ uptime.at = "idle" /\ calls < MaxCalls /\ calls' = calls + 1
  /\ Reports(name, "stub", 0, stubs[name].result)
  /\ errno' = IF stubs[name].code = 0 THEN errno ELSE stubs[name].code
  /\ UNCHANGED <<fds, uptime>>

(* The kernel's answers about descriptors, and its table after them.       *)
LowestFree == IF Free = {} THEN -EMFILE ELSE Min(Free)
Put(f, d) == [fds EXCEPT ![f] = d]

Open(mode) ==
  LET r == LowestFree
  IN /\ Answered("open", Told("value"), r)
     /\ fds' = IF r < 0 THEN fds ELSE Put(r, [desc |-> Fresh, mode |-> mode])

Close(f) ==
  LET r == IF fds[f].desc = 0 THEN -EBADF ELSE 0
  IN /\ Answered("close", Told("zero"), r)
     /\ fds' = IF r < 0 THEN fds ELSE Put(f, NoDesc)

Dup(old) ==
  LET r == IF fds[old].desc = 0 THEN -EBADF ELSE LowestFree
  IN /\ Answered("dup", Told("value"), r)
     /\ fds' = IF r < 0 THEN fds ELSE Put(r, fds[old])

(* dup2 asks the kernel for dup3 with no flags, which refuses equal        *)
(* descriptors.                                                            *)
Dup2(old, new) ==
  LET r == IF old = new THEN -EINVAL ELSE IF fds[old].desc = 0 THEN -EBADF ELSE new
  IN /\ Answered("dup2", Told("value"), r)
     /\ fds' = IF r < 0 THEN fds ELSE Put(new, fds[old])

Pipe ==
  LET r == IF Cardinality(Free) < 2 THEN -EMFILE ELSE 0
      first == Min(Free)
      second == Min(Free \ {first})
  IN /\ Answered("pipe", PipeWrapper, r)
     /\ fds' = IF r < 0 THEN fds
               ELSE [fds EXCEPT ![first] = [desc |-> Fresh, mode |-> 0],
                                ![second] = [desc |-> Fresh + 1, mode |-> 1]]

-----------------------------------------------------------------------------
(* uptime: O_RDONLY | FD_CLOEXEC are the flags of open, the second the     *)
(* descriptor flag, whose value is that of O_WRONLY.                       *)
O_RDONLY == 0   O_WRONLY == 1   FD_CLOEXEC == 1
UptimeFlags == O_RDONLY + FD_CLOEXEC

UptimeOpens ==
  /\ uptime.at = "idle" /\ calls < MaxCalls /\ calls' = calls + 1
  /\ LET mode == UptimeFlags
         r == IF mode # O_RDONLY /\ ~IsRoot THEN -EACCES ELSE LowestFree
     IN IF r < 0
        THEN /\ errno' = -r
             /\ Reports("uptime", "asked", r, 0)
             /\ UNCHANGED <<fds, uptime>>
        ELSE /\ fds' = Put(r, [desc |-> Fresh, mode |-> mode])
             /\ uptime' = [at |-> "read", fd |-> r, n |-> 0, saved |-> 0]
             /\ UNCHANGED <<errno, lastCall>>

UptimeReads ==
  /\ uptime.at = "read"
  /\ \E r \in {-c : c \in Code} \cup
              {IF fds[uptime.fd].mode = O_WRONLY THEN -EBADF ELSE Len(UptimeText)} :
       /\ errno' = IF r < 0 THEN -r ELSE errno
       /\ uptime' = [uptime EXCEPT !.at = "close", !.n = r, !.saved = errno']
  /\ UNCHANGED <<fds, lastCall, calls>>

(* The digits after the blanks, up to the first other character; a number  *)
(* that would not fit becomes ULONG_MAX.                                   *)
Seconds(text) ==
  LET at == Min({k \in 1..Len(text) + 1 : k > Len(text) \/ text[k] # 10})
      end == Min({k \in at..Len(text) + 1 : k > Len(text) \/ text[k] > 9})
  IN FoldLeft(LAMBDA a, d : IF a = ULONG_MAX \/ a > (ULONG_MAX - d) \div 10 THEN ULONG_MAX
                            ELSE a * 10 + d,
              0, SubSeq(text, at, end - 1))

(* Mutant of UptimeCloses. *)
UptimeReturnsBeforeClosing ==
  /\ uptime.at = "close"
  /\ fds' = IF uptime.n <= 0 THEN fds ELSE Put(uptime.fd, NoDesc)
  /\ errno' = uptime.saved
  /\ Reports("uptime", "asked", IF uptime.n <= 0 THEN uptime.n ELSE 0,
             IF uptime.n <= 0 THEN 0 ELSE Seconds(UptimeText))
  /\ uptime' = Idle
  /\ UNCHANGED calls

UptimeCloses ==
  /\ uptime.at = "close"
  /\ fds' = Put(uptime.fd, NoDesc)
  /\ \E c \in {0} \cup Code :
       errno' = IF uptime.n <= 0 THEN uptime.saved ELSE IF c = 0 THEN errno ELSE c
  /\ Reports("uptime", "asked", IF uptime.n <= 0 THEN uptime.n ELSE 0,
             IF uptime.n <= 0 THEN 0 ELSE Seconds(UptimeText))
  /\ uptime' = Idle
  /\ UNCHANGED calls

SyscallsNext ==
  \/ \E name \in DOMAIN Wrappers : Call(name) \/ Refused(name, Wrappers[name])
  \/ \E stubs \in Range(Stubs) : \E name \in DOMAIN stubs : CallStub(stubs, name)
  \/ \E mode \in {0, 1} : Open(mode)
  \/ \E f \in Fd : Close(f) \/ Dup(f)
  \/ \E old, new \in Fd : Dup2(old, new)
  \/ Pipe \/ Refused("pipe", PipeWrapper)
  \/ UptimeOpens \/ UptimeReads \/ UptimeCloses

SyscallsSpec == SyscallsInit /\ [][SyscallsNext]_sysVars

-----------------------------------------------------------------------------
RawNames == {w \in DOMAIN Wrappers : Wrappers[w].fails = "raw"}

SaysFault == {"clock_gettime", "poll", "ppoll", "uname", "pipe"}
SaysNothing == {"sigprocmask", "sigaction", "dlopen", "dlsym", "dlclose"}

(* A refusal always shows in the result.  The functions in the list return *)
(* the code itself and leave errno alone, mmap returns NULL and leaves it  *)
(* alone, getcwd always says ERANGE; after every other call errno is the   *)
(* kernel's code.  A call that succeeds leaves errno as it was.  A call    *)
(* whose argument the library turns down says so with -1 and EINVAL, a few *)
(* with EFAULT; and what the library does not offer fails with ENOSYS,     *)
(* save the signal and loading functions, which say nothing in errno, and  *)
(* system(NULL), which claims a shell.                                     *)
FailuresAreTold ==
  /\ lastCall.answer < 0 =>
       /\ \/ lastCall.result \in {-1, lastCall.answer}
          \/ lastCall.result = NULL /\ lastCall.name \in {"getcwd", "mmap", "uptime"}
       /\ (lastCall.name \in RawNames => lastCall.result = lastCall.answer)
       /\ (uptime.at = "idle" =>
             errno = IF lastCall.name \in RawNames \cup {"mmap"} THEN lastCall.before
                     ELSE IF lastCall.name = "getcwd" THEN ERANGE ELSE -lastCall.answer)
  /\ (lastCall.answer > 0 /\ uptime.at = "idle") => errno = lastCall.before
  /\ lastCall.how \in {"null", "nfds", "action"} =>
       /\ lastCall.result = -1
       /\ uptime.at = "idle" => errno = IF lastCall.name \in SaysFault THEN EFAULT ELSE EINVAL
  /\ lastCall.how = "stub" =>
       IF lastCall.name \in SaysNothing \/ (lastCall.name = "system" /\ lastCall.result = 1)
       THEN uptime.at = "idle" => errno = lastCall.before
       ELSE lastCall.result = -1 /\ (uptime.at = "idle" => errno = ENOSYS)

(* A descriptor changes hands only as the call promises: a call that fails *)
(* changes none; dup and dup2 give the old description and change only the *)
(* new descriptor; and whatever fails in it, uptime leaves the table as it *)
(* found it.                                                               *)
DescriptorsChangeAsPromised ==
  [][/\ (lastCall' # lastCall /\ lastCall'.answer < 0 /\ lastCall'.name # "uptime") => fds' = fds
     /\ (lastCall' # lastCall /\ lastCall'.name \in {"dup", "dup2"} /\ lastCall'.answer >= 0) =>
          /\ \E old \in Fd : fds[old].desc # 0 /\ fds'[lastCall'.result] = fds[old]
          /\ \A f \in Fd \ {lastCall'.result} : fds'[f] = fds[f]
     /\ (uptime.at = "close") => \A f \in Fd \ {uptime.fd} : fds'[f] = fds[f]
     /\ (uptime.at # "idle" /\ uptime'.at = "idle") => uptime.fd \in Free']_sysVars
=============================================================================
