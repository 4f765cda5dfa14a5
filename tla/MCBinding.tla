----------------------------- MODULE MCBinding -----------------------------
(* Chains of up to three objects that define, hide, weaken or lack the     *)
(* name f; every relocation type; bitmaps of packed relocations.           *)
EXTENDS Binding

(* The static linker packs the offsets of the words to be rebased: an even *)
(* entry names one, an odd entry has a bit for each of the BITS - 1 words  *)
(* that follow those named so far.                                         *)
RelrWords(offsets) ==
  LET span == (BITS - 1) * 2
      bitsAt(where, rest) ==
        1 + 2 * MapThenSumSet(LAMBDA b : 2^b, {b \in 0..BITS - 2 : where + 2 * b \in rest})
      Rest[where \in 0..WORD] ==
        LET rest == {x \in offsets : x >= where}
            near == {x \in rest : x < where + span}
        IN IF rest = {} THEN <<>>
           ELSE IF where > 0 /\ near # {} THEN <<bitsAt(where, rest)>> \o Rest[where + span]
           ELSE <<Min(rest)>> \o Rest[Min(rest) + 2]
  IN Rest[0]

Sym(n, bind, vis, shndx, value) ==
  [name |-> n, bind |-> bind, vis |-> vis, shndx |-> shndx, value |-> value, size |-> 2,
   ifunc |-> FALSE]
Decoys ==
  <<Sym("h", "GLOBAL", "DEFAULT", "SECTION", 8), Sym("g", "WEAK", "PROTECTED", "SECTION", 6)>>
Symbols(x) ==
  CASE x = "none" -> Decoys
    [] x = "undefined" -> <<Sym("f", "GLOBAL", "DEFAULT", "UNDEF", 0)>> \o Decoys
    [] x = "weak reference" -> <<Sym("f", "WEAK", "DEFAULT", "UNDEF", 0)>> \o Decoys
    [] x = "local" -> <<Sym("f", "LOCAL", "DEFAULT", "SECTION", 4)>> \o Decoys
    [] x = "global" -> Decoys \o <<Sym("f", "GLOBAL", "DEFAULT", "SECTION", 4)>>
    [] x = "weak" -> Decoys \o <<Sym("f", "WEAK", "DEFAULT", "SECTION", 4)>>
    [] x = "hidden" -> Decoys \o <<Sym("f", "GLOBAL", "HIDDEN", "SECTION", 4)>>
    [] x = "absolute" -> Decoys \o <<Sym("f", "GLOBAL", "DEFAULT", "ABS", 40)>>
    [] x = "ifunc" -> Decoys \o <<[Sym("f", "GLOBAL", "DEFAULT", "SECTION", 4) EXCEPT !.ifunc = TRUE]>>
FIndex(x) == IF x \in {"undefined", "weak reference", "local"} THEN 1 ELSE 3
Rela(type, sym, offset, addend) ==
  [type |-> type, sym |-> sym, offset |-> offset, addend |-> addend]
TableOf(hash, sym) == IF hash = "gnu" THEN GnuTable(sym) ELSE SysvTable(sym)
Obj(x, base, hash) ==
  [base |-> base, size |-> 16, sym |-> Symbols(x), hash |-> hash, table |-> TableOf(hash, Symbols(x)),
   symbolic |-> FALSE, got |-> 12, rela |-> <<Rela("RELATIVE", 0, 10, 6)>>, jmprel |-> <<>>,
   relacount |-> 1, packed |-> {}, relr |-> <<>>]
WithSlot(x, base, hash) ==
  IF x = "none" THEN Obj(x, base, hash)
  ELSE [Obj(x, base, hash) EXCEPT !.rela = Append(@, Rela("GLOB_DAT", FIndex(x), 12, 0))]

Bindings ==
  {<<WithSlot(x, 32, "gnu"), [WithSlot(y, 48, hash) EXCEPT !.symbolic = b],
     WithSlot(z, 160, "gnu")>> :
     x \in {"undefined", "weak reference", "global", "weak", "hidden", "local"},
     y \in {"none", "undefined", "global", "weak", "hidden", "absolute", "ifunc"},
     z \in {"none", "global", "weak", "hidden"},
     hash \in {"gnu", "sysv", "none"}, b \in BOOLEAN}
Types == Applied \cup {"COPY", "IRELATIVE", "TPOFF64", "RELATIVE", "NONE"}
FieldImages ==
  {<<[Obj(x, 32, "gnu") EXCEPT !.rela = @ \o <<Rela(type, FIndex(x), 14, addend)>>,
                               !.jmprel = slots, !.relacount = n],
     [Obj("global", base, "sysv") EXCEPT !.packed = packed, !.relr = RelrWords(packed)]>> :
     x \in {"undefined", "global"}, type \in Types, addend \in {-2, 0, 4}, n \in {1, 2},
     slots \in {<<>>, <<Rela("JUMP_SLOT", FIndex("undefined"), 12, 0)>>,
                <<Rela("JUMP_SLOT", FIndex("global"), 12, 0)>>},
     base \in {48, 160}, packed \in {{}, {4}}}
PackedImages ==
  {<<[Obj("none", 32, "gnu") EXCEPT !.rela = <<>>, !.relacount = 0, !.size = 32,
                              !.packed = s, !.relr = RelrWords(s)]>> :
     s \in SUBSET {0, 2, 4, 6, 8, 10, 12, 14, 20, 30}}
ProcessImages == Bindings \cup FieldImages \cup PackedImages
HashOf == [f |-> 5, g |-> 5, h |-> 4]
ResolverOf == [a \in 0..255 |-> (a + 1) % 256]

(* The static linker made every object (the hypothesis of SymbolsAreBound).*)
ASSUME BuiltAssumption == ProcessesAreBuilt
=============================================================================
