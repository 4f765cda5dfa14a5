------------------------------- MODULE Stdio -------------------------------
(***************************************************************************)
(* The output half of stdio and the life of the processes that use it.     *)
(*                                                                         *)
(* Every process owns one stdout_buf, which fputc fills and flush empties  *)
(* to descriptor 1.  The string functions (fputs, printf, fprintf, puts)   *)
(* write straight to a descriptor and never look at the buffer.  fork      *)
(* copies the buffer, exit flushes it, the return of main, abort and       *)
(* execve do not.  A step ends at every system call, so the system calls   *)
(* of a parent and of its children interleave.                             *)
(*                                                                         *)
(* A byte is a token that is never put twice, so that the properties can   *)
(* follow each one from the call that accepted it to the descriptors.      *)
(***************************************************************************)
EXTENDS Integers, Sequences, FiniteSets, SequencesExt

CONSTANTS
  Proc,        \* process identifiers
  Root,        \* the process started by the kernel
  BUF_SIZE,    \* capacity of stdout_buf
  PRINTF_BUF,  \* capacity of the array that printf and fprintf format into
  MaxToken,    \* bound: bytes the programs put, all processes together
  MaxFault     \* bound: writes that fail or are cut short

ASSUME RootAssumption == Root \in Proc
ASSUME BufAssumption == BUF_SIZE \in Nat \ {0} /\ PRINTF_BUF \in Nat \ {0}
ASSUME BoundAssumption == MaxToken \in Nat /\ MaxFault \in Nat

STDOUT_FILENO == 1
STDERR_FILENO == 2
FileFd == 3                       \* the descriptor of any stream fopen made
Fd == {STDOUT_FILENO, STDERR_FILENO, FileFd}

(* A byte: its number in the order of the calls, whether it is '\n', and   *)
(* the descriptor of the stream it was put to.                             *)
Token == [id : 1..MaxToken, nl : BOOLEAN, fd : Fd]
NoToken == [id |-> 0, nl |-> FALSE, fd |-> STDOUT_FILENO]

(* A byte on a descriptor: the token, the process whose write carried it,  *)
(* and whether it came out of stdout_buf.                                  *)
Shown == [tok : Token, by : Proc, buffered : BOOLEAN]

Running == {"init", "main", "fini"}
Ended == {"exit", "return", "abort", "exec"}
Life == {"unborn"} \cup Running \cup Ended

VARIABLES
  life,       \* where each process is in __libc_start_main, or how it ended
  at,         \* the call a process is inside of, between two system calls
  held,       \* the argument of that call
  buf,        \* stdout_buf[0 .. buf_idx - 1]
  errno,      \* the process's errno: 0, -1 (set by flush) or "EIO"
  out,        \* what each descriptor has received, in order
  token,      \* the next token's number
  faults,     \* writes that failed or were cut short so far
  accepted,   \* history: the bytes the lineage of a process put into its buffer
  inherited,  \* history: the buffer a process was born with
  lost        \* history: the bytes flush dropped in each process

vars == <<life, at, held, buf, errno, out, token, faults, accepted,
          inherited, lost>>
history == <<accepted, inherited, lost>>

TypeOK ==
  /\ life \in [Proc -> Life]
  /\ at \in [Proc -> {"user", "store", "newline", "puts", "exit"}]
  /\ held \in [Proc -> Token \cup {NoToken}]
  /\ buf \in [Proc -> Seq(Token)]
  /\ \A p \in Proc : Len(buf[p]) <= BUF_SIZE   \* the index fputc stores at
  /\ errno \in [Proc -> {"0", "-1", "EIO"}]
  /\ out \in [Fd -> Seq(Shown)]
  /\ token \in 1..MaxToken + 1
  /\ faults \in 0..MaxFault
  /\ accepted \in [Proc -> Seq(Token)]
  /\ inherited \in [Proc -> Seq(Token)]
  /\ lost \in [Proc -> SUBSET Token]

Init ==
  /\ life = [p \in Proc |-> IF p = Root THEN "init" ELSE "unborn"]
  /\ at = [p \in Proc |-> "user"]
  /\ held = [p \in Proc |-> NoToken]
  /\ buf = [p \in Proc |-> <<>>]
  /\ errno = [p \in Proc |-> "0"]
  /\ out = [fd \in Fd |-> <<>>]
  /\ token = 1
  /\ faults = 0
  /\ accepted = [p \in Proc |-> <<>>]
  /\ inherited = [p \in Proc |-> <<>>]
  /\ lost = [p \in Proc |-> {}]

-----------------------------------------------------------------------------
(***************************************************************************)
(* The kernel's write: all n bytes, or, as long as faults are left, fewer  *)
(* or an error (-1).                                                       *)
(***************************************************************************)
WriteResults(n) == IF faults < MaxFault THEN -1..n ELSE {n}

(* pal_write(fd, toks): k of the bytes reach the descriptor.               *)
PalWrite(p, fd, toks, buffered, k) ==
  /\ k \in WriteResults(Len(toks))
  /\ out' = [out EXCEPT ![fd] =
               @ \o [i \in 1..(IF k < 0 THEN 0 ELSE k) |->
                       [tok |-> toks[i], by |-> p, buffered |-> buffered]]]
  /\ faults' = IF k = Len(toks) THEN faults ELSE faults + 1

(* n new bytes for the stream of descriptor fd.                            *)
NewBytes(n, fd) == [i \in 1..n |-> [id |-> token + i - 1, nl |-> FALSE, fd |-> fd]]

(* The program's own code is main: _init and _fini (crti.S, crtn.S) hold   *)
(* none of it.                                                             *)
InUserCode(p) == life[p] = "main" /\ at[p] = "user"

(* Mutant of Flush: the buffer index is not reset.                         *)
FlushKeepsBuffer(p) ==
  \E k \in WriteResults(Len(buf[p])) :
    /\ PalWrite(p, STDOUT_FILENO, buf[p], TRUE, k)
    /\ UNCHANGED <<buf, errno, lost>>

(* Mutant of Flush: after a short write the whole buffer is kept for a     *)
(* later flush, the part that was written as well.                         *)
FlushAllAgainLater(p) ==
  \E k \in WriteResults(Len(buf[p])) :
    /\ PalWrite(p, STDOUT_FILENO, buf[p], TRUE, k)
    /\ buf' = [buf EXCEPT ![p] = IF k = Len(@) THEN <<>> ELSE @]
    /\ UNCHANGED <<errno, lost>>

(* flush(): one write of the whole buffer; a short write is not retried,   *)
(* an error only sets errno, and the buffer is emptied whatever happened.  *)
Flush(p) ==
  \/ /\ buf[p] = <<>>
     /\ UNCHANGED <<buf, errno, out, faults, lost>>
  \/ /\ buf[p] # <<>>
     /\ \E k \in WriteResults(Len(buf[p])) :
          /\ PalWrite(p, STDOUT_FILENO, buf[p], TRUE, k)
          /\ errno' = IF k < 0 THEN [errno EXCEPT ![p] = "-1"] ELSE errno
          /\ lost' = [lost EXCEPT ![p] =
                        @ \cup {buf[p][i] : i \in (IF k < 0 THEN 1 ELSE k + 1)..Len(buf[p])}]
     /\ buf' = [buf EXCEPT ![p] = <<>>]

(* stdout_buf[buf_idx++] = c, and on '\n' the second flush of fputc.       *)
Store(p, tok) ==
  /\ buf' = [buf EXCEPT ![p] = Append(@, tok)]
  /\ accepted' = [accepted EXCEPT ![p] = Append(@, tok)]
  /\ at' = [at EXCEPT ![p] = IF tok.nl THEN "newline" ELSE "user"]

(* Mutant of BufferFull: the test is one byte late.                        *)
BufferFullLate(p) == Len(buf[p]) > BUF_SIZE

(* The test that comes before a byte is stored.                            *)
BufferFull(p) == Len(buf[p]) >= BUF_SIZE

(* fputc(c, stderr): one write, no buffer.                                 *)
FputcStderr(p) ==
  /\ InUserCode(p)
  /\ token <= MaxToken
  /\ \E k \in WriteResults(1) :
       PalWrite(p, STDERR_FILENO,
                NewBytes(1, STDERR_FILENO), FALSE, k)
  /\ token' = token + 1
  /\ UNCHANGED <<life, at, held, buf, errno, history>>

(* fputc(c, stream) for every other stream, up to the first system call:   *)
(* a full buffer is flushed before the byte is stored.                     *)
Fputc(p, fd, nl) ==
  LET tok == [id |-> token, nl |-> nl, fd |-> fd]
  IN /\ InUserCode(p)
     /\ token <= MaxToken
     /\ token' = token + 1
     /\ \/ /\ BufferFull(p)
           /\ Flush(p)
           /\ at' = [at EXCEPT ![p] = "store"]
           /\ held' = [held EXCEPT ![p] = tok]
           /\ UNCHANGED accepted
        \/ /\ ~BufferFull(p)
           /\ Store(p, tok)
           /\ UNCHANGED <<held, errno, out, faults, lost>>
     /\ UNCHANGED <<life, inherited>>

(* fputc after the flush of a full buffer.                                 *)
FputcStore(p) ==
  /\ at[p] = "store"
  /\ Store(p, held[p])
  /\ held' = [held EXCEPT ![p] = NoToken]
  /\ UNCHANGED <<life, errno, out, token, faults, inherited, lost>>

(* The line buffering of fputc: the flush after a '\n'.                    *)
FputcNewline(p) ==
  /\ at[p] = "newline"
  /\ Flush(p)
  /\ at' = [at EXCEPT ![p] = "user"]
  /\ UNCHANGED <<life, held, token, accepted, inherited>>

(* fputs(s, stream): a write to the stream's own descriptor.               *)
Fputs(p, fd, n) ==
  /\ InUserCode(p)
  /\ token + n <= MaxToken + 1
  /\ n > 0
  /\ \E k \in WriteResults(n) : PalWrite(p, fd, NewBytes(n, fd), FALSE, k)
  /\ token' = token + n
  /\ UNCHANGED <<life, at, held, buf, errno, history>>

(* printf and fprintf: the text is cut to the formatting array, less its   *)
(* NUL, and written in one call.                                           *)
Printf(p, fd, n) ==
  LET kept == IF n < PRINTF_BUF THEN n ELSE PRINTF_BUF - 1
  IN /\ InUserCode(p)
     /\ n > 0
     /\ token + n <= MaxToken + 1
     /\ \E k \in WriteResults(kept) : PalWrite(p, fd, NewBytes(kept, fd), FALSE, k)
     /\ token' = token + n
     /\ UNCHANGED <<life, at, held, buf, errno, history>>

(* puts(s): the text with one write, the '\n' with a second one.           *)
Puts(p) ==
  /\ InUserCode(p)
  /\ token < MaxToken
  /\ \E k \in WriteResults(1) :
       /\ PalWrite(p, STDOUT_FILENO, NewBytes(1, STDOUT_FILENO), FALSE, k)
       /\ errno' = IF k < 0 THEN [errno EXCEPT ![p] = "EIO"] ELSE errno
  /\ token' = token + 2
  /\ at' = [at EXCEPT ![p] = "puts"]
  /\ held' = [held EXCEPT ![p] = [id |-> token + 1, nl |-> TRUE, fd |-> STDOUT_FILENO]]
  /\ UNCHANGED <<life, buf, history>>

PutsNewline(p) ==
  /\ at[p] = "puts"
  /\ \E k \in WriteResults(1) :
       /\ PalWrite(p, STDOUT_FILENO, <<held[p]>>, FALSE, k)
       /\ errno' = IF k < 0 THEN [errno EXCEPT ![p] = "EIO"] ELSE errno
  /\ at' = [at EXCEPT ![p] = "user"]
  /\ held' = [held EXCEPT ![p] = NoToken]
  /\ UNCHANGED <<life, buf, token, history>>

(* fflush(stdout) and fflush(NULL); for any other stream fflush does       *)
(* nothing, also for one whose bytes sit in stdout_buf.                    *)
Fflush(p) ==
  /\ InUserCode(p)
  /\ Flush(p)
  /\ UNCHANGED <<life, at, held, token, accepted, inherited>>

-----------------------------------------------------------------------------
(* Mutant of Exit: exit does not flush.                                    *)
ExitWithoutFlush(p) ==
  /\ InUserCode(p)
  /\ at' = [at EXCEPT ![p] = "exit"]
  /\ UNCHANGED <<life, held, buf, errno, out, token, faults, history>>

(* exit(code): flush, then pal_exit.  Neither _fini nor main's caller runs. *)
Exit(p) ==
  /\ InUserCode(p)
  /\ Flush(p)
  /\ at' = [at EXCEPT ![p] = "exit"]
  /\ UNCHANGED <<life, held, token, accepted, inherited>>

PalExit(p) ==
  /\ at[p] = "exit"
  /\ life' = [life EXCEPT ![p] = "exit"]
  /\ at' = [at EXCEPT ![p] = "user"]
  /\ UNCHANGED <<held, buf, errno, out, token, faults, history>>

(* __libc_start_main: init_func, main_ptr, fini_func, pal_exit(result).    *)
Return(p) ==
  /\ life[p] \in Running
  /\ at[p] = "user"
  /\ life' = [life EXCEPT ![p] = CASE @ = "init" -> "main"
                                   [] @ = "main" -> "fini"
                                   [] @ = "fini" -> "return"]
  /\ UNCHANGED <<at, held, buf, errno, out, token, faults, history>>

(* abort(): the first raise ends the process, because sigaction and signal *)
(* never install a handler; nothing is flushed.                            *)
Abort(p) ==
  /\ InUserCode(p)
  /\ life' = [life EXCEPT ![p] = "abort"]
  /\ UNCHANGED <<at, held, buf, errno, out, token, faults, history>>

(* fork(): the child is in the same place with a copy of the memory.       *)
Fork(p, q) ==
  /\ InUserCode(p)
  /\ life[q] = "unborn"
  /\ life' = [life EXCEPT ![q] = life[p]]
  /\ buf' = [buf EXCEPT ![q] = buf[p]]
  /\ errno' = [errno EXCEPT ![q] = errno[p]]
  /\ accepted' = [accepted EXCEPT ![q] = accepted[p]]
  /\ inherited' = [inherited EXCEPT ![q] = buf[p]]
  /\ lost' = [lost EXCEPT ![q] = lost[p]]
  /\ UNCHANGED <<at, held, out, token, faults>>

(* execve(): on success the image, and stdout_buf with it, is gone.  When  *)
(* it fails nothing changes (not even errno) and the caller goes on.       *)
Execve(p) ==
  /\ InUserCode(p)
  /\ life' = [life EXCEPT ![p] = "exec"]
  /\ UNCHANGED <<at, held, buf, errno, out, token, faults, history>>

-----------------------------------------------------------------------------
ProcStep(p) ==
  \/ FputcStderr(p)
  \/ \E fd \in {STDOUT_FILENO, FileFd}, nl \in BOOLEAN : Fputc(p, fd, nl)
  \/ FputcStore(p)
  \/ FputcNewline(p)
  \/ \E fd \in {STDOUT_FILENO, FileFd}, n \in 1..2 : Fputs(p, fd, n)
  \/ \E fd \in {STDOUT_FILENO, STDERR_FILENO}, n \in 1..2 : Printf(p, fd, n)
  \/ Puts(p)
  \/ PutsNewline(p)
  \/ Fflush(p)
  \/ Exit(p)
  \/ PalExit(p)
  \/ Return(p)
  \/ Abort(p)
  \/ Execve(p)
  \/ \E q \in Proc : Fork(p, q)

Next == \E p \in Proc : ProcStep(p)

Spec == Init /\ [][Next]_vars

-----------------------------------------------------------------------------
ShownIds(fd) == {out[fd][i].tok.id : i \in DOMAIN out[fd]}
Ids(s) == {s[i].id : i \in DOMAIN s}

(* What a process's own flushes put on descriptor 1 are its buffered bytes *)
(* in the order fputc accepted them, none of them twice, across full       *)
(* buffers, newlines, explicit flushes and exit (putchar.c).               *)
BufferedOrderKept ==
  \A i, j \in DOMAIN out[STDOUT_FILENO] :
    LET x == out[STDOUT_FILENO][i]
        y == out[STDOUT_FILENO][j]
    IN i < j /\ x.buffered /\ y.buffered /\ x.by = y.by => x.tok.id < y.tok.id

(* A byte appears twice on descriptor 1 only because a fork copied it while *)
(* it was buffered: the two writers differ and one of them was born with it *)
(* in its buffer.                                                          *)
DuplicatesComeFromFork ==
  \A i, j \in DOMAIN out[STDOUT_FILENO] :
    LET x == out[STDOUT_FILENO][i]
        y == out[STDOUT_FILENO][j]
    IN i # j /\ x.tok.id = y.tok.id =>
         /\ x.by # y.by
         /\ x.tok.id \in Ids(inherited[x.by]) \cup Ids(inherited[y.by])

(* A byte that fputc accepted is not forgotten while its process runs, nor *)
(* by exit ("Ensure all buffered output hits the screen"): it is still in  *)
(* the buffer, or on descriptor 1, or a write failed under it.             *)
NothingForgotten ==
  \A p \in Proc :
    life[p] \in Running \cup {"exit"} =>
      /\ \A tok \in Range(accepted[p]) :
           \/ tok \in Range(buf[p]) \cup lost[p]
           \/ tok.id \in ShownIds(STDOUT_FILENO)
      /\ life[p] = "exit" => buf[p] = <<>>

(* What test_input relies on: a program that ends, by exit or by returning *)
(* from main, has shown what it put with putchar.  __libc_start_main calls *)
(* pal_exit and not exit, so a return leaves the buffer unwritten.         *)
EndedProgramsHaveShownTheirOutput ==
  \A p \in Proc :
    life[p] \in {"exit", "return"} =>
      \A tok \in Range(accepted[p]) :
        tok.id \in ShownIds(STDOUT_FILENO) \/ tok \in lost[p]
=============================================================================
