---------------------------- MODULE StartupStack ----------------------------
(***************************************************************************)
(* The initial stack on its way through dynlink.c: the kernel builds it    *)
(* (argc, argv, environment, auxiliary vector), parse_initial_stack reads  *)
(* it, a loader started from the command line parses its own options and   *)
(* rewrites the stack for the program, and the start code of the program   *)
(* (crt1.c, __libc_start_main.c) reads it again.                           *)
(*                                                                         *)
(* The stack is an array of words.  A word is a number: 0 is NULL and      *)
(* AT_NULL, ARG + k points to argument k of the command line, ENV + k to   *)
(* environment string k; the other pointers and counts are constants.      *)
(***************************************************************************)
EXTENDS Integers, Sequences

CONSTANTS
  CommandLine,    \* argument vectors, sequences of strings
  EnvironmentSize \* the numbers of environment strings

ASSUME StackAssumption == CommandLine \subseteq Seq(STRING) /\ EnvironmentSize \subseteq Nat

ARG == 1000
ENV == 2000

AT_NULL == 0
AT_PHDR == 3
AT_PHENT == 4
AT_PHNUM == 5
AT_BASE == 7
AT_ENTRY == 9
AT_SECURE == 23
AT_EXECFN == 31
Tags == <<AT_SECURE, AT_PHDR, AT_PHENT, AT_PHNUM, AT_BASE, AT_ENTRY, AT_EXECFN>>

(* The auxiliary values of an object started by the kernel or the loader.  *)
ObjectTag == {AT_PHDR, AT_PHNUM, AT_ENTRY}
OfLoader == [tag \in ObjectTag |-> 3000 + tag]
OfProgram == [tag \in ObjectTag |-> 4000 + tag]
LoaderBase == 3000
PhentSize == 56
Given(interp, tag) ==
  CASE tag \in ObjectTag -> IF interp THEN OfProgram[tag] ELSE OfLoader[tag]
    [] tag = AT_BASE -> IF interp THEN LoaderBase ELSE 0
    [] tag = AT_PHENT -> PhentSize
    [] tag = AT_EXECFN -> ARG
    [] tag = AT_SECURE -> 0

VARIABLES
  step,          \* what is done next
  argument,      \* the strings of the command line
  environment,   \* pointers to the environment strings
  asInterpreter, \* started by the kernel as PT_INTERP of a program
  stack,         \* the words from the initial stack pointer on
  globals,       \* g_envp (an index of stack), g_loader_base, g_main_entry
  cli,           \* cli_parse: i, target_index, list_mode, verify_mode
  entered,       \* the address jumped to
  observed           \* argv and environ of the program, as its start code finds them

stackVars == <<step, argument, environment, asInterpreter, stack, globals, cli, entered, observed>>

Argc == Len(argument)
Auxv(interp) ==
  [k \in 1..14 |-> IF k % 2 = 1 THEN Tags[(k + 1) \div 2] ELSE Given(interp, Tags[k \div 2])]
Words(args, env, interp) ==
  <<Len(args)>> \o [k \in 1..Len(args) |-> ARG + k - 1] \o <<0>> \o env \o <<0>>
  \o Auxv(interp) \o <<AT_NULL, 0>>

At(i) == stack[i + 1]
TextAt(p) == argument[p - ARG + 1]

StackInit ==
  /\ step = "idle" /\ argument = <<>> /\ environment = <<>> /\ asInterpreter = FALSE
  /\ stack = <<>> /\ entered = 0
  /\ globals = [envp |-> 0, base |-> 0, entry |-> 0]
  /\ cli = [i |-> 1, target |-> -1, list |-> FALSE, verify |-> FALSE]
  /\ observed = [argv |-> <<>>, env |-> <<>>]

(* The kernel starts the loader by itself or for a program.                *)
Execve(args, n, interp) ==
  /\ step = "idle"
  /\ argument' = args /\ asInterpreter' = interp
  /\ environment' = [k \in 1..n |-> ENV + k]
  /\ stack' = Words(args, environment', interp)
  /\ step' = "parse"
  /\ UNCHANGED <<globals, cli, entered, observed>>

EndOfList(from) == CHOOSE i \in from..Len(stack) : At(i) = 0 /\ \A j \in from..i - 1 : At(j) # 0

ParseInitialStack ==
  /\ step = "parse"
  /\ LET envp == At(0) + 2
         aux == EndOfList(envp) + 1
         value(tag) == LET i == CHOOSE i \in 0..Len(Tags) - 1 : At(aux + 2 * i) = tag
                       IN At(aux + 2 * i + 1)
     IN /\ globals' = [envp |-> envp, base |-> value(AT_BASE), entry |-> value(AT_ENTRY)]
        /\ step' = IF value(AT_BASE) # 0 THEN "jump" ELSE "options"
        /\ cli' = IF value(AT_BASE) # 0 THEN [cli EXCEPT !.target = 0] ELSE cli
  /\ UNCHANGED <<argument, environment, asInterpreter, stack, entered, observed>>

-----------------------------------------------------------------------------
(* cli_parse, one turn of its loop per action.                             *)
EndOfOptions == {"--"}
Leaves == {"--help", "-h", "--version"}
Lists == {"--list", "--ldd", "-v", "--verbose"}
TakesNext == {"--library-path", "-L", "--preload"}
Alone == {"--verify", "--library-path=p", "--preload=p", "--inhibit-cache", "--inhibit-rpath"}
IsUnknown(a) == a \in {"-x", "--x"}
IsOption(a) == a \in EndOfOptions \cup Leaves \cup Lists \cup TakesNext \cup Alone \/ IsUnknown(a)

Word == argument[cli.i + 1]
Here == step = "options" /\ cli.i < Argc
KeepStack == UNCHANGED <<argument, environment, asInterpreter, stack, globals, entered, observed>>

ParseOption ==
  /\ Here /\ Word \in Lists \cup Alone
  /\ cli' = [cli EXCEPT !.i = @ + 1, !.list = @ \/ Word \in Lists, !.verify = @ \/ Word = "--verify"]
  /\ step' = step /\ KeepStack

ParseOptionWithArgument ==
  /\ Here /\ Word \in TakesNext
  /\ IF cli.i + 1 >= Argc
     THEN step' = "exit" /\ cli' = cli
     ELSE cli' = [cli EXCEPT !.i = @ + 2] /\ step' = step
  /\ KeepStack

ParseLeaves ==
  /\ Here /\ (Word \in Leaves \/ IsUnknown(Word))
  /\ step' = "exit" /\ UNCHANGED cli /\ KeepStack

ParseTarget ==
  /\ Here /\ (Word \in EndOfOptions \/ ~IsOption(Word))
  /\ LET t == IF Word \in EndOfOptions THEN cli.i + 1 ELSE cli.i IN
       /\ cli' = [cli EXCEPT !.target = IF t < Argc THEN t ELSE -1]
       /\ step' = IF t < Argc THEN "load" ELSE "exit"
  /\ KeepStack

NoTarget ==
  /\ step = "options" /\ cli.i >= Argc
  /\ step' = "exit" /\ UNCHANGED cli /\ KeepStack

(* Loading the program fails, or ends with a listing, or leads to it.      *)
LoadProgram ==
  /\ step = "load"
  /\ \/ step' = "exit"
     \/ ~cli.verify /\ ~cli.list /\ step' = "shift"
  /\ UNCHANGED cli /\ KeepStack

-----------------------------------------------------------------------------
(* Mutant of ShiftArgv. *)
ShiftArgvWithoutNull ==
  /\ step = "shift"
  /\ LET n == Argc - cli.target IN
       stack' = [k \in DOMAIN stack |->
                   IF k = 1 THEN n ELSE IF k - 1 <= n THEN At(k - 1 + cli.target) ELSE At(k - 1)]
  /\ step' = "auxv"
  /\ UNCHANGED <<argument, environment, asInterpreter, globals, cli, entered, observed>>

(* argv is moved down in place; the environment stays where it is.         *)
ShiftArgv ==
  /\ step = "shift"
  /\ LET n == Argc - cli.target IN
       stack' = [k \in DOMAIN stack |->
                   LET i == k - 1 IN
                     IF i = 0 THEN n
                     ELSE IF i <= n THEN At(i + cli.target)
                     ELSE IF i = n + 1 THEN 0
                     ELSE At(i)]
  /\ step' = "auxv"
  /\ UNCHANGED <<argument, environment, asInterpreter, globals, cli, entered, observed>>

(* set_exec_auxv looks for the vector one word after g_envp.               *)
Patched(tag, old) ==
  CASE tag \in ObjectTag -> OfProgram[tag]
    [] tag = AT_PHENT -> PhentSize
    [] tag = AT_BASE -> globals.base
    [] tag = AT_EXECFN -> At(1)
    [] OTHER -> old

SetExecAuxv ==
  /\ step = "auxv"
  /\ LET aux == globals.envp + 1
         last == CHOOSE i \in 0..Len(stack) :
                   At(aux + 2 * i) = AT_NULL /\ \A j \in 0..i - 1 : At(aux + 2 * j) # AT_NULL
         isValue(i) == i > aux /\ i < aux + 2 * last /\ (i - aux) % 2 = 1
     IN stack' = [k \in DOMAIN stack |->
                    IF isValue(k - 1) THEN Patched(At(k - 2), At(k - 1)) ELSE At(k - 1)]
  /\ step' = "jump"
  /\ UNCHANGED <<argument, environment, asInterpreter, globals, cli, entered, observed>>

JumpToEntry ==
  /\ step = "jump"
  /\ entered' = IF globals.base # 0 THEN globals.entry ELSE OfProgram[AT_ENTRY]
  /\ step' = "start"
  /\ UNCHANGED <<argument, environment, asInterpreter, stack, globals, cli, observed>>

(* _start_c and __libc_start_main: environ is what follows argv's NULL.    *)
StartProgram ==
  /\ step = "start"
  /\ LET envp == At(0) + 2 IN
       observed' = [argv |-> [k \in 1..At(0) |-> At(k)],
                env |-> [k \in 1..EndOfList(envp) - envp |-> At(envp + k - 1)]]
  /\ step' = "main"
  /\ UNCHANGED <<argument, environment, asInterpreter, stack, globals, cli, entered>>

StackNext ==
  \/ \E args \in CommandLine, n \in EnvironmentSize, interp \in BOOLEAN : Execve(args, n, interp)
  \/ ParseInitialStack
  \/ ParseOption \/ ParseOptionWithArgument \/ ParseLeaves \/ ParseTarget \/ NoTarget
  \/ LoadProgram \/ ShiftArgv \/ SetExecAuxv \/ JumpToEntry \/ StartProgram

StackSpec == StackInit /\ [][StackNext]_stackVars

-----------------------------------------------------------------------------
(* main starts with its own arguments: the command line from the program's *)
(* name on, which is the first word that is neither an option nor taken by *)
(* one, and a NULL behind them.                                            *)
ProgramArguments ==
  step = "main" =>
    /\ [k \in DOMAIN observed.argv |-> TextAt(observed.argv[k])] = SubSeq(argument, cli.target + 1, Argc)
    /\ At(Len(observed.argv) + 1) = 0
    /\ asInterpreter \/ \A k \in 2..cli.target :
         \/ IsOption(argument[k])
         \/ argument[k - 1] \in TakesNext
    /\ entered = OfProgram[AT_ENTRY]

(* The strings of the environment stay where the kernel put them, and the  *)
(* auxiliary vector behind them describes the program: to an interpreter   *)
(* the kernel gives it so; from the command line the loader patches it in  *)
(* place, which it misses when the number of strings is odd because it     *)
(* does not start from their end.                                          *)
AuxiliaryVector ==
  step = "main" =>
    LET env == Argc + 2
        aux == env + Len(environment) + 1
        isPatched == ~asInterpreter /\ Len(environment) % 2 = 0
    IN /\ \A k \in DOMAIN environment : At(env + k - 1) = environment[k]
       /\ At(aux - 1) = 0
       /\ \A k \in DOMAIN Tags :
            /\ At(aux + 2 * k - 2) = Tags[k]
            /\ At(aux + 2 * k - 1) =
                 IF ~isPatched THEN Given(asInterpreter, Tags[k])
                 ELSE IF Tags[k] \in ObjectTag THEN OfProgram[Tags[k]]
                 ELSE IF Tags[k] = AT_EXECFN THEN observed.argv[1]
                 ELSE Given(FALSE, Tags[k])

(* A program started by the kernel finds the environment the kernel gave   *)
(* it.  One started from the command line does not: its start code reads   *)
(* the words that moving argv left behind, one per word before its name    *)
(* but one, and never a word that is not a pointer to a string.            *)
EnvironSeen ==
  step = "main" =>
    observed.env = IF asInterpreter THEN environment
               ELSE [k \in 1..cli.target - 1 |-> ARG + Argc - cli.target + k]

(* What reaches main: its arguments, the auxiliary vector and environ.     *)
ProgramSeesItsStart == ProgramArguments /\ AuxiliaryVector /\ EnvironSeen
=============================================================================
