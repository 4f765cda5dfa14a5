------------------------------ MODULE MCImage ------------------------------
(***************************************************************************)
(* Objects of two segments, with pages of two bytes: text at the start of  *)
(* the file, data on pages of its own.                                     *)
(***************************************************************************)
EXTENDS Image

TextSegment(at, size) == [offset |-> 0, vaddr |-> at, filesz |-> size, memsz |-> size, flags |-> {"R", "X"}]
DataSegment(offset, at, size, bss) ==
  [offset |-> offset, vaddr |-> at, filesz |-> size, memsz |-> size + bss, flags |-> {"R", "W"}]
ImageFile(type, start, text, data, relro, named) ==
  [sound |-> TRUE, type |-> type, load |-> <<TextSegment(start, text), data>>,
   relro |-> [vaddr |-> data.vaddr, memsz |-> relro], phdr |-> [vaddr |-> start + 1, named |-> named]]

(* The linker ends RELRO at the end of a page.                             *)
RelroSizes(data) == {0} \cup {n \in 1..data.memsz : (data.vaddr + n) % 2 = 0}

(* Files whose pages lie at their addresses, with and without zeroed bytes. *)
Flat ==
  LET shape == {DataSegment(v, v, n, bss) : v \in {4, 5}, n \in 0..3, bss \in 0..3}
  IN UNION {{ImageFile(type, 0, 2, d, r, TRUE) : r \in RelroSizes(d), type \in {"DYN", "EXEC"}} : d \in shape}

(* Files load_object_file refuses.                                         *)
Malformed ==
  {[ImageFile("DYN", 0, 2, DataSegment(4, 5, 1, 1), 0, TRUE) EXCEPT !.sound = sound] : sound \in BOOLEAN}
  \cup {ImageFile("DYN", 0, 2, DataSegment(4, 4, 2, -1), 0, TRUE)}

(* Files whose pages lie elsewhere: linked at page 2, or without gaps in   *)
(* the file, where each segment starts on the next page of memory.         *)
Shifted(bss) ==
  {ImageFile(type, 4, 1, DataSegment(4, 8, n, bss), 0, TRUE) : n \in {1, 2}, type \in {"DYN", "EXEC"}}
  \cup {ImageFile("DYN", 0, 3, DataSegment(3, 5, n, bss), 1, TRUE) : n \in {1, 2}}

Libraries == Flat \cup Shifted(0) \cup Shifted(1) \cup Malformed
ShiftedWithBss == Shifted(1)

(* Programs of every kind the kernel runs: placed by it or at an address   *)
(* of their own, with a PT_PHDR and without.                               *)
Programs ==
  LET shape == {f \in Flat : f.type = "DYN"} \cup Shifted(0) \cup Shifted(1)
  IN shape \cup {[f EXCEPT !.phdr.named = FALSE] : f \in shape}

(* The files of the run that must pass are what FilesAreLinked asks for.   *)
ASSUME FilesAssumption == FilesAreLinked
=============================================================================
