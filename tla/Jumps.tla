------------------------------- MODULE Jumps -------------------------------
(***************************************************************************)
(* setjmp and longjmp of the three architectures, under a program whose    *)
(* functions keep a frame pointer: on entry a function saves the registers *)
(* the ABI has it keep, and on return it restores them from the frame.    *)
(* The stack is an array of words that grows towards 0.  The code of the   *)
(* program is a number, the depth of the function that runs.               *)
(***************************************************************************)
EXTENDS Integers, Sequences

CONSTANTS
  Arch,              \* the architectures: "x86_64", "x86", "aarch64"
  MaxDepth,          \* bound: the depth of calls
  Worked,            \* bound: the values the program gives its registers
  ReturnValue        \* second arguments of longjmp

ASSUME DepthAssumption == MaxDepth \in Nat
ASSUME ArchAssumption == Arch \subseteq {"x86_64", "x86", "aarch64"}

VARIABLES
  arch,
  reg,               \* the registers that functions keep, by name
  sp, pc,            \* the stack pointer, a word's number; the function that runs
  stackWord,         \* the stack
  env,               \* the words of the jmp_buf, by number; <<>> before setjmp
  result,            \* what setjmp returned in the last step, or NoResult
  first              \* what was so when setjmp returned 0
jumpVars == <<arch, reg, sp, pc, stackWord, env, result, first>>

NoResult == -1
Junk == -2
TopWord == 4 * (MaxDepth + 2)
StackPlace == 0..TopWord

-----------------------------------------------------------------------------
(* The registers by the word of the buffer they are stored to and loaded   *)
(* from.                                                                   *)
StoredX86_64 == <<"rbx", "rbp", "r12", "r13", "r14", "r15">>
StoredX86 == <<"ebx", "ebp", "esi", "edi">>
StoredAarch64 ==
  <<"x19", "x20", "x21", "x22", "x23", "x24", "x25", "x26", "x27", "x28", "x29">>
StoredFloat == <<"d8", "d9", "d10", "d11", "d12", "d13", "d14", "d15">>
LoadedX86_64 == <<"rbx", "rbp", "r12", "r13", "r14", "r15">>
LoadedX86 == <<"ebx", "ebp", "esi", "edi">>
LoadedAarch64 ==
  <<"x19", "x20", "x21", "x22", "x23", "x24", "x25", "x26", "x27", "x28", "x29">>
LoadedFloat == <<"d8", "d9", "d10", "d11", "d12", "d13", "d14", "d15">>

BufferWords == [x86_64 |-> 14, x86 |-> 32, aarch64 |-> 27]
FramePointer == [x86_64 |-> "rbp", x86 |-> "ebp", aarch64 |-> "x29"][arch]
Names(list) == {list[i] : i \in DOMAIN list}

(* "flags" is what arithmetic leaves alone, the direction flag above all:  *)
(* the rest of that register is the compiler's between two instructions.   *)
Registers(a) ==
  CASE a = "x86_64" -> Names(StoredX86_64) \cup {"flags"}
    [] a = "x86" -> Names(StoredX86) \cup {"flags"}
    [] a = "aarch64" -> Names(StoredAarch64) \cup Names(StoredFloat)

(* The buffer when the words from `at` on are those of the registers.      *)
StoredAt(buffer, at, list) ==
  [w \in DOMAIN buffer |-> IF w - at + 1 \in DOMAIN list THEN reg[list[w - at + 1]] ELSE buffer[w]]
LoadedFrom(r, at, list) ==
  [name \in DOMAIN r |->
     IF name \in Names(list)
       THEN env[at - 1 + CHOOSE i \in DOMAIN list : list[i] = name] ELSE r[name]]
Junked == [w \in 0..BufferWords[arch] - 1 |-> Junk]

-----------------------------------------------------------------------------
JumpsInit ==
  /\ arch \in Arch
  /\ reg = [name \in Registers(arch) |-> <<name, 0>>]
  /\ sp = TopWord /\ pc = 0
  /\ stackWord = [w \in StackPlace |-> Junk]
  /\ env = <<>> /\ result = NoResult /\ first = <<>>

(* The program calls a function, which saves its caller's registers with   *)
(* the return address, and takes one word for itself.                      *)
EnterFunction ==
  /\ pc < MaxDepth /\ sp > 4
  /\ stackWord' = [stackWord EXCEPT ![sp - 1] = pc, ![sp - 2] = reg]
  /\ reg' = [reg EXCEPT ![FramePointer] = sp - 2]
  /\ sp' = sp - 3 /\ pc' = pc + 1
  /\ result' = NoResult
  /\ UNCHANGED <<arch, env, first>>

(* ... uses the registers                                                  *)
UseRegisters(v) ==
  /\ pc > 0
  /\ reg' = [name \in DOMAIN reg |-> IF name = FramePointer THEN reg[name] ELSE <<name, v>>]
  /\ result' = NoResult
  /\ UNCHANGED <<arch, sp, pc, stackWord, env, first>>

(* ... and returns, which ends the life of what setjmp saved in it.        *)
LeaveFunction ==
  /\ pc > 0
  /\ LET frame == reg[FramePointer] IN
     /\ reg' = stackWord[frame]
     /\ pc' = stackWord[frame + 1]
     /\ sp' = frame + 2
  /\ IF env # <<>> /\ first.pc = pc THEN env' = <<>> /\ first' = <<>> ELSE UNCHANGED <<env, first>>
  /\ result' = NoResult
  /\ UNCHANGED <<arch, stackWord>>

-----------------------------------------------------------------------------
(* _setjmp.  The call pushes the return address on x86 and x86_64, where   *)
(* the flags go over the stack as well; on aarch64 it is in x30.           *)
SetjmpX86_64 ==
  LET entry == sp - 1
      kept == StoredAt(Junked, 0, StoredX86_64)
  IN /\ env' = [kept EXCEPT ![6] = entry, ![7] = pc, ![8] = reg["flags"]]
     /\ stackWord' = [stackWord EXCEPT ![entry] = pc, ![entry - 1] = reg["flags"]]

(* Mutant of SetjmpX86: the stack pointer as it is at entry. *)
SetjmpX86AtEntry ==
  LET entry == sp - 1
      kept == StoredAt(Junked, 0, StoredX86)
  IN /\ env' = [kept EXCEPT ![4] = entry, ![5] = pc, ![6] = reg["flags"]]
     /\ stackWord' = [stackWord EXCEPT ![entry] = pc, ![entry - 1] = reg["flags"]]

SetjmpX86 ==
  LET entry == sp - 1
      kept == StoredAt(Junked, 0, StoredX86)
  IN /\ env' = [kept EXCEPT ![4] = entry + 1, ![5] = pc, ![6] = reg["flags"]]
     /\ stackWord' = [stackWord EXCEPT ![entry] = pc, ![entry - 1] = reg["flags"]]

SetjmpAarch64 ==
  LET kept == StoredAt(StoredAt(Junked, 0, StoredAarch64), 14, StoredFloat)
  IN /\ env' = [kept EXCEPT ![11] = pc, ![12] = sp]
     /\ UNCHANGED stackWord

Setjmp ==
  /\ pc > 0 /\ sp > 2
  /\ env = <<>>                 \* bound: set again when its function has returned
  /\ CASE arch = "x86_64" -> SetjmpX86_64
       [] arch = "x86" -> SetjmpX86
       [] arch = "aarch64" -> SetjmpAarch64
  /\ result' = 0
  /\ first' = [reg |-> reg, sp |-> sp, pc |-> pc, words |-> [w \in sp..TopWord |-> stackWord[w]]]
  /\ UNCHANGED <<arch, reg, sp, pc>>

(* _longjmp, called deeper than setjmp or where it was called.  The flags, *)
(* and then the saved address, are pushed at the restored stack pointer on *)
(* x86_64; on x86 the flags are pushed before it is restored.              *)
LongjmpX86_64 ==
  LET restored == env[6] IN
  /\ reg' = [LoadedFrom(reg, 0, LoadedX86_64) EXCEPT !["flags"] = env[8]]
  /\ stackWord' = [stackWord EXCEPT ![restored - 1] = env[7]]
  /\ sp' = restored /\ pc' = env[7]

LongjmpX86 ==
  LET entry == sp - 1  restored == env[4] IN
  /\ reg' = [LoadedFrom(reg, 0, LoadedX86) EXCEPT !["flags"] = env[6]]
  /\ stackWord' = [stackWord EXCEPT ![entry - 1] = env[6], ![restored - 1] = env[5]]
  /\ sp' = restored /\ pc' = env[5]

LongjmpAarch64 ==
  /\ reg' = LoadedFrom(LoadedFrom(reg, 0, LoadedAarch64), 14, LoadedFloat)
  /\ sp' = env[12] /\ pc' = env[11]
  /\ UNCHANGED stackWord

(* aarch64/setjmp.S:98 tests val, an int, as a word of 64 bits.  That is   *)
(* the same when the caller has extended it, which the ABI does not ask:   *)
(* an assumption about the compilers, as are the frames.                   *)
Longjmp(val) ==
  /\ env # <<>> /\ sp > 2
  /\ CASE arch = "x86_64" -> LongjmpX86_64
       [] arch = "x86" -> LongjmpX86
       [] arch = "aarch64" -> LongjmpAarch64
  /\ result' = IF val = 0 THEN 1 ELSE val
  /\ UNCHANGED <<arch, env, first>>

JumpsNext ==
  \/ EnterFunction \/ LeaveFunction \/ Setjmp
  \/ \E v \in Worked : UseRegisters(v)
  \/ \E val \in ReturnValue : Longjmp(val)

JumpsSpec == JumpsInit /\ [][JumpsNext]_jumpVars

-----------------------------------------------------------------------------
(* longjmp comes back to where setjmp returned, with a result that is not  *)
(* setjmp's own, with every register the caller counts on, and with the    *)
(* stack of the functions still active as it was; the stack pointer is     *)
(* setjmp's on x86 and aarch64.  From then on, and always, a function      *)
(* finds its caller and its caller's registers in its frame.               *)
ContextIsRestored ==
  /\ result \notin {NoResult, 0} =>
       /\ pc = first.pc /\ reg = first.reg
       /\ arch # "x86_64" => sp = first.sp
       /\ \A w \in first.sp..TopWord : stackWord[w] = first.words[w]
  /\ pc > 0 =>
       /\ reg[FramePointer] \in sp..TopWord - 2
       /\ stackWord[reg[FramePointer] + 1] = pc - 1
       /\ DOMAIN stackWord[reg[FramePointer]] = DOMAIN reg

(* "Restore stack pointer" (x86_64/setjmp.S:53): it is the one setjmp's    *)
(* caller had when setjmp returned.                                        *)
StackPointerIsRestored == result \notin {NoResult, 0} => sp = first.sp
=============================================================================
