------------------------------- MODULE Image -------------------------------
(***************************************************************************)
(* The memory of one object of dynlink.c: how load_object_file lays the    *)
(* segments of a file into the address space, how the program the kernel   *)
(* has mapped already is found (load_main_from_stack), and the protection  *)
(* of both while they are relocated and afterwards.                        *)
(*                                                                         *)
(* A byte of memory is UNMAPPED, of somebody else (OTHERS), zero, or the   *)
(* byte of the file at offset k, which is k + 1.  A file is a record:      *)
(*   sound  what validate_ehdr and the PT_TLS test ask of its headers      *)
(*   type   "DYN" or "EXEC"                                                *)
(*   load   its PT_LOAD headers                                            *)
(*   relro  the vaddr and memsz of PT_GNU_RELRO, memsz 0 without one       *)
(*   phdr   the vaddr of the program headers, named: by a PT_PHDR          *)
(***************************************************************************)
EXTENDS Integers, Sequences, FiniteSetsExt

CONSTANTS
  Page,         \* g_page
  Top,          \* bound: the addresses are 0..Top - 1
  Taken,        \* the addresses others have mapped, whole pages
  Library,      \* the files given to load_by_fd
  Program       \* the files the kernel runs with this loader as interpreter

ASSUME PageAssumption == Page \in Nat \ {0} /\ Top \in Nat /\ Taken \subseteq 0..Top - 1

Address == 0..Top - 1
UNMAPPED == -1
OTHERS == -2
NoFile == [sound |-> FALSE]

AlignDown(a) == a - (a % Page)
AlignUp(a) == AlignDown(a + Page - 1)

VARIABLES
  phase,        \* what has been done with the object
  byKernel,     \* the kernel has mapped it: load_main_from_stack, not load_object_file
  file,
  nextLoad,         \* the index of the PT_LOAD header mapped next
  loadBase,         \* o->base
  bias,         \* where the kernel put the main program
  contents, prot     \* contents and protection of every address

imageVars == <<phase, byKernel, file, nextLoad, loadBase, bias, contents, prot>>

Load == DOMAIN file.load

(* Pages, addresses of memory, and bytes of the file of one PT_LOAD.       *)
Pages(b, p) == AlignDown(b + p.vaddr)..AlignUp(b + p.vaddr + p.memsz) - 1
ByteOf(p, k) == IF k < p.filesz THEN p.offset + k + 1 ELSE 0

ImageTypeOK ==
  /\ phase \in {"idle", "opened", "mapping", "mapped", "given", "relocating", "sealed", "refused"}
  /\ byKernel \in BOOLEAN
  /\ file \in Library \cup Program \cup {NoFile}
  /\ nextLoad \in Nat /\ loadBase \in Int /\ bias \in Int
  /\ contents \in [Address -> {UNMAPPED, OTHERS} \cup Nat]
  /\ prot \in [Address -> SUBSET {"R", "W", "X"}]

ImageInit ==
  /\ phase = "idle" /\ byKernel = FALSE /\ file = NoFile
  /\ nextLoad = 1 /\ loadBase = 0 /\ bias = 0
  /\ contents = [a \in Address |-> IF a \in Taken THEN OTHERS ELSE UNMAPPED]
  /\ prot = [a \in Address |-> {}]

OpenLibrary(f) ==
  /\ phase = "idle"
  /\ file' = f /\ phase' = "opened"
  /\ UNCHANGED <<byKernel, nextLoad, loadBase, bias, contents, prot>>

MinVaddr == Min({AlignDown(file.load[i].vaddr) : i \in Load})
MaxVaddr == Max({AlignUp(file.load[i].vaddr + file.load[i].memsz) : i \in Load})

IsLoadable ==
  /\ file.sound
  /\ Load # {}
  /\ \A i \in Load : LET p == file.load[i] IN
       /\ p.filesz <= p.memsz
       /\ p.offset % Page = p.vaddr % Page
  /\ MaxVaddr > MinVaddr

(* The whole span is reserved first: where the kernel likes for ET_DYN, at *)
(* its own addresses for ET_EXEC, which others may have taken.             *)
Bases ==
  {b \in IF file.type = "EXEC" THEN {0} ELSE {AlignDown(a) - MinVaddr : a \in Address} :
     \A a \in b + MinVaddr..b + MaxVaddr - 1 : a \in Address /\ contents[a] = UNMAPPED}

Reserve ==
  /\ phase = "opened" /\ IsLoadable
  /\ \E b \in Bases :
       /\ loadBase' = b
       /\ contents' = [a \in Address |-> IF a \in b + MinVaddr..b + MaxVaddr - 1 THEN 0 ELSE contents[a]]
  /\ phase' = "mapping"
  /\ UNCHANGED <<byKernel, file, nextLoad, bias, prot>>

Refuse ==
  /\ phase = "opened" /\ (IsLoadable => Bases = {})
  /\ phase' = "refused"
  /\ UNCHANGED <<byKernel, file, nextLoad, loadBase, bias, contents, prot>>

(* One turn of the loop over the PT_LOAD headers: the pages of the file,   *)
(* the tail of the last one cleared, and anonymous pages for the rest.     *)
(* The anonymous pages start at the page end of the file OFFSET.           *)
AnonymousStart(p) == loadBase + AlignUp(p.offset + p.filesz)

MapSegment ==
  /\ phase = "mapping" /\ nextLoad \in Load
  /\ LET p == file.load[nextLoad]
         where == loadBase + AlignDown(p.vaddr)
         low == AlignDown(p.offset)
         mapped == where..where + AlignUp(p.offset + p.filesz) - low - 1
         bss == loadBase + p.vaddr + p.filesz
         hasBss == p.filesz < p.memsz
         tail == IF hasBss THEN bss..AlignUp(bss) - 1 ELSE {}
         anonymous == IF hasBss THEN AnonymousStart(p)..loadBase + AlignUp(p.vaddr + p.memsz) - 1
                      ELSE {}
     IN /\ contents' = [a \in Address |-> IF a \in tail \cup anonymous THEN 0
                                     ELSE IF a \in mapped THEN low + (a - where) + 1
                                     ELSE contents[a]]
        /\ prot' = [a \in Address |-> IF a \in mapped \cup anonymous THEN p.flags \cup {"W"}
                                      ELSE prot[a]]
  /\ nextLoad' = nextLoad + 1
  /\ phase' = IF nextLoad = Len(file.load) THEN "mapped" ELSE phase
  /\ UNCHANGED <<byKernel, file, loadBase, bias>>

(* set_protections, header by header: of two that share a page the later   *)
(* one wins.  mprotect fails on a page nobody has mapped.                  *)
Covering(b, a) == {i \in Load : file.load[i].memsz > 0 /\ a \in Pages(b, file.load[i])}
Protected(b, more) ==
  [a \in Address |-> LET over == Covering(b, a)
                     IN IF over = {} THEN prot[a] ELSE file.load[Max(over)].flags \cup more]
CanProtect(b) ==
  \A i \in Load : \A a \in Pages(b, file.load[i]) : a \in Address /\ contents[a] # UNMAPPED

(* load_by_fd after load_object_file: everything may be written until the  *)
(* relocations are done.                                                   *)
MakeWritable ==
  /\ phase = "mapped"
  /\ prot' = Protected(loadBase, {"W"})
  /\ phase' = "relocating"
  /\ UNCHANGED <<byKernel, file, nextLoad, loadBase, bias, contents>>

(* The kernel maps a program and its interpreter: an image of each segment *)
(* at its bias, and AT_PHDR.                                               *)
Exec(f, b) ==
  /\ phase = "idle" /\ f.sound
  /\ f.type = "EXEC" => b = 0
  /\ byKernel' = TRUE /\ file' = f /\ bias' = b
  /\ LET covering(a) == {i \in DOMAIN f.load : a \in Pages(b, f.load[i])}
         lowest(a) == AlignDown(f.load[Max(covering(a))].vaddr)
         byte(a) == LET p == f.load[Max(covering(a))]
                        k == a - b - p.vaddr
                    IN IF k < p.filesz THEN p.offset + k + 1 ELSE 0
     IN /\ \A i \in DOMAIN f.load : Pages(b, f.load[i]) \subseteq Address \ Taken
        /\ contents' = [a \in Address |-> IF covering(a) = {} THEN contents[a] ELSE byte(a)]
        /\ prot' = [a \in Address |-> IF covering(a) = {} THEN {} ELSE f.load[Max(covering(a))].flags]
  /\ phase' = "given"
  /\ UNCHANGED <<nextLoad, loadBase>>

AtPhdr == bias + file.phdr.vaddr

(* The bias is read off PT_PHDR; when that gives nothing, or zero, off the *)
(* first segment that holds the table at its own addresses.                *)
LoadBias ==
  LET named == IF file.phdr.named THEN AtPhdr - file.phdr.vaddr ELSE 0
      holding == {i \in Load : LET p == file.load[i] IN AtPhdr \in p.vaddr..p.vaddr + p.memsz - 1}
  IN IF named # 0 THEN named
     ELSE IF holding # {} THEN AtPhdr - file.load[Min(holding)].vaddr
     ELSE 0

LoadMain ==
  /\ phase = "given"
  /\ loadBase' = LoadBias
  /\ IF CanProtect(LoadBias)
     THEN prot' = Protected(LoadBias, {"W"}) /\ phase' = "relocating"
     ELSE prot' = prot /\ phase' = "refused"
  /\ UNCHANGED <<byKernel, file, nextLoad, bias, contents>>

RelroStart == loadBase + AlignDown(file.relro.vaddr)
Relro == RelroStart..RelroStart + AlignUp(file.relro.memsz) - 1

(* Mutant of Seal. *)
SealRelroFirst ==
  /\ phase = "relocating"
  /\ prot' = Protected(loadBase, {})
  /\ phase' = "sealed"
  /\ UNCHANGED <<byKernel, file, nextLoad, loadBase, bias, contents>>

(* finish_protections: the protections of the headers, then RELRO.         *)
Seal ==
  /\ phase = "relocating"
  /\ prot' = [a \in Address |-> IF file.relro.memsz > 0 /\ a \in Relro THEN {"R"}
                                ELSE Protected(loadBase, {})[a]]
  /\ phase' = "sealed"
  /\ UNCHANGED <<byKernel, file, nextLoad, loadBase, bias, contents>>

ImageNext ==
  \/ \E f \in Library : OpenLibrary(f)
  \/ Reserve \/ Refuse \/ MapSegment \/ MakeWritable
  \/ \E f \in Program, b \in Address : AlignDown(b) = b /\ Exec(f, b)
  \/ LoadMain \/ Seal

ImageSpec == ImageInit /\ [][ImageNext]_imageVars

-----------------------------------------------------------------------------
(* When the object can be relocated, every address of each of its          *)
(* segments, counted from the base the loader relocates with, holds the    *)
(* byte of the file or the zero that its header promises, and what others  *)
(* had mapped is as it was.                                                *)
SegmentsHoldTheirFile ==
  phase \in {"relocating", "sealed"} =>
    /\ \A i \in Load : LET p == file.load[i] IN
         \A k \in 0..p.memsz - 1 : contents[loadBase + p.vaddr + k] = ByteOf(p, k)
    /\ \A a \in Taken : contents[a] = OTHERS

(* Relocation may write every address of the object.  Afterwards an        *)
(* address allows what its header says, except that the RELRO part of its  *)
(* segment is read-only: not a byte less, so that no relocated pointer     *)
(* stays writable, and not a byte more, so that no variable faults.        *)
ProtectionsFollowTheHeaders ==
  \A i \in IF phase \in {"relocating", "sealed"} THEN Load ELSE {} :
    LET p == file.load[i]
        r == file.relro
    IN \A k \in p.vaddr..p.vaddr + p.memsz - 1 :
         prot[loadBase + k] = IF phase = "relocating" THEN p.flags \cup {"W"}
                          ELSE IF k \in r.vaddr..r.vaddr + r.memsz - 1 THEN {"R"}
                          ELSE p.flags

(* Where the code goes astray.  load_object_file puts the zero pages after *)
(* the page end of the file offset, not of the address, so a file in which *)
(* the two ends differ gets them wrong.  load_main_from_stack takes a bias *)
(* of zero (every ET_EXEC program) and a table that no PT_PHDR names for   *)
(* no bias found, and what the segments then give may be another address.  *)
ZeroesHaveTheirPlace(f) ==
  \A i \in DOMAIN f.load : LET p == f.load[i] IN
    p.filesz < p.memsz => AlignUp(p.offset + p.filesz) = AlignUp(p.vaddr + p.filesz)
IsAstray ==
  IF byKernel THEN loadBase # bias /\ (bias = 0 \/ ~file.phdr.named)
  ELSE ~ZeroesHaveTheirPlace(file)

(* An object that is ready to be relocated is its file at its addresses,   *)
(* protected as its headers say, save in the two cases of IsAstray.        *)
ImageIsAsLinked ==
  phase \in {"relocating", "sealed"} =>
    IsAstray \/ (SegmentsHoldTheirFile /\ ProtectionsFollowTheHeaders)

-----------------------------------------------------------------------------
(* What the linker and the system promise: a segment has at least the      *)
(* bytes the file has of it, at the same place of a page in both.          *)
IsSegment(p) ==
  /\ p \in [offset : Nat, vaddr : Nat, filesz : Nat, memsz : Nat, flags : SUBSET {"R", "W", "X"}]
  /\ p.filesz <= p.memsz /\ p.offset % Page = p.vaddr % Page

(* Segments have pages of their own, and RELRO, if any, starts with one    *)
(* and ends with a page.                                                   *)
IsLinked(f) ==
  /\ f.load \in Seq([offset : Nat, vaddr : Nat, filesz : Nat, memsz : Nat, flags : SUBSET {"R", "W", "X"}])
  /\ \A i \in DOMAIN f.load : IsSegment(f.load[i])
  /\ \A i, j \in DOMAIN f.load : i # j => Pages(0, f.load[i]) \cap Pages(0, f.load[j]) = {}
  /\ f.relro \in [vaddr : Nat, memsz : Nat]
  /\ f.relro.memsz > 0 => /\ \E i \in DOMAIN f.load : f.load[i].vaddr = f.relro.vaddr
                          /\ (f.relro.vaddr + f.relro.memsz) % Page = 0

(* A library load_object_file refuses for its headers.                     *)
IsRefused(f) ==
  \/ ~f.sound
  \/ \E i \in DOMAIN f.load : \/ ~(f.load[i].filesz <= f.load[i].memsz)
                             \/ f.load[i].offset % Page # f.load[i].vaddr % Page
LinkedLibrary(f) == IsRefused(f) \/ IsLinked(f)
LinkedProgram(f) == IsLinked(f) /\ f.phdr.vaddr \in Nat

(* What load_by_fd is given, and the programs the kernel runs.             *)
FilesAreLinked == (\A f \in Library : LinkedLibrary(f)) /\ (\A f \in Program : LinkedProgram(f))
=============================================================================
