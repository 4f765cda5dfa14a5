------------------------------ MODULE Binding ------------------------------
(***************************************************************************)
(* Symbols and relocations of dynlink.c: the search of a name in the hash  *)
(* table of one object and through all objects, the relocation entries of  *)
(* each object in the order relocate_object applies them, and the packed   *)
(* relative relocations of DT_RELR.                                        *)
(*                                                                         *)
(* Widths are scaled: an address has BITS * 2 bits, a word takes two       *)
(* addresses, HALF, QUARTER and EIGHTH are the ranges of 32, 16 and 8 bit  *)
(* fields.  fields holds the field or word that starts at an address.      *)
(* An object is a record:                                                  *)
(*   base, size    where it lies                                           *)
(*   sym           .dynsym without its null entry: name, bind, vis, shndx, *)
(*                 value, size, ifunc                                      *)
(*   hash, table   "gnu", "sysv" or "none", and the hash table it has      *)
(*   symbolic      DT_SYMBOLIC or DF_SYMBOLIC                              *)
(*   got           DT_PLTGOT                                               *)
(*   rela, jmprel  relocations: type, sym, offset, addend                  *)
(*   relacount     DT_RELACOUNT                                            *)
(*   packed, relr  offsets of words to be rebased, and DT_RELR for them    *)
(***************************************************************************)
EXTENDS Integers, Sequences, FiniteSetsExt, TLC

CONSTANTS
  Processes,    \* sequences of loaded objects, the main program first
  Name, Hash,   \* names and the 4 bit hash of each, for gnu_hash and elf_hash
  Resolver      \* what the resolver of an IFUNC at an address returns

BITS == 4
WORD == 256
HALF == 64
QUARTER == 16
EIGHTH == 4

Signed(v) == LET u == v % WORD IN IF u < WORD \div 2 THEN u ELSE u - WORD

VARIABLES
  objects,      \* g_objects
  fields,
  done,         \* relocations applied, per object: rela, then jmprel, then relr
  relocated,    \* the objects that are relocated
  status        \* "idle", "relocating", "ready" or "dead"

bindingVars == <<objects, fields, done, relocated, status>>

-----------------------------------------------------------------------------
NBUCKETS == 2   \* of every hash table, and the shift of its second filter bit
SHIFT == 1

Defines(s, n) == s.name = n /\ s.shndx # "UNDEF" /\ s.bind # "LOCAL"

BloomBits(n) == {Hash[n] % BITS, (Hash[n] \div 2^SHIFT) % BITS}

(* lookup_one: the index of the symbol, 0 when there is none.              *)
LookupGnu(o, n) ==
  LET h == Hash[n]
      first == o.table.buckets[h % NBUCKETS]
      ends == {i \in DOMAIN o.table.chains : i >= first /\ o.table.chains[i] % 2 = 1}
      hits == {i \in first..Min(ends) :
                 o.table.chains[i] \div 2 = h \div 2 /\ Defines(o.sym[i], n)}
  IN IF ~(BloomBits(n) \subseteq o.table.bloom) THEN 0
     ELSE IF first < o.table.symoffset \/ hits = {} THEN 0
     ELSE Min(hits)

LookupSysv(o, n) ==
  LET Walk[i \in 0..Len(o.sym)] ==
        IF i = 0 \/ Defines(o.sym[i], n) THEN i ELSE Walk[o.table.chains[i]]
  IN Walk[o.table.buckets[Hash[n] % NBUCKETS]]

LookupOne(o, n) ==
  CASE o.hash = "gnu" -> LookupGnu(o, n)
    [] o.hash = "sysv" -> LookupSysv(o, n)
    [] o.hash = "none" -> 0

IsPrivate(s) == s.vis \in {"HIDDEN", "INTERNAL"}

(* Mutant of Best. *)
BestIgnoresWeakness(at, req) ==
  LET visible == {k \in DOMAIN at : at[k] # 0 /\ ~IsPrivate(objects[k].sym[at[k]])}
      best == IF req \in visible THEN req ELSE Min(visible)
  IN IF visible = {} THEN <<0, 0>> ELSE <<best, at[best]>>

(* lookup_global: <<object, symbol>>, or <<0, 0>>, by what each object's   *)
(* table says of the name; the requester is asked first.                   *)
Best(at, req) ==
  LET visible == {k \in DOMAIN at : at[k] # 0 /\ ~IsPrivate(objects[k].sym[at[k]])}
      strong == {k \in visible : objects[k].sym[at[k]].bind # "WEAK"}
      among == {k \in visible : k \in strong \/ strong = {}}
      best == IF req \in among THEN req ELSE Min(among)
  IN IF among = {} THEN <<0, 0>> ELSE <<best, at[best]>>

LookupGlobal(n, req, skip) ==
  LET at == [k \in DOMAIN objects |-> LookupOne(objects[k], n)]
      searched == {k \in DOMAIN objects : k # req \/ ~skip}
  IN IF objects[req].symbolic /\ at[req] # 0 THEN <<req, at[req]>>
     ELSE Best([k \in searched |-> at[k]], req)

SymbolAddr(k, i) ==
  LET s == objects[k].sym[i]
      a == IF s.shndx = "ABS" THEN s.value ELSE objects[k].base + s.value
  IN IF s.ifunc THEN Resolver[a] ELSE a

(* resolve_reloc_symbol; -1 stands for the exit with an unresolved symbol. *)
AddressOf(def, s) ==
  IF def # <<0, 0>> THEN SymbolAddr(def[1], def[2]) ELSE IF s.bind = "WEAK" THEN 0 ELSE -1
Resolve(k, i) ==
  LET s == objects[k].sym[i]
  IN IF s.shndx # "UNDEF" /\ (IsPrivate(s) \/ s.bind = "LOCAL") THEN SymbolAddr(k, i)
     ELSE AddressOf(LookupGlobal(s.name, k, FALSE), s)

-----------------------------------------------------------------------------
Entries(o) == o.rela \o o.jmprel
P(o, r) == o.base + r.offset

(* got_slot_for_sym: the first GLOB_DAT or JUMP_SLOT of a symbol, or 0.    *)
GotSlot(o, i) ==
  LET slots == {e \in DOMAIN Entries(o) :
                  /\ Entries(o)[e].sym = i
                  /\ \/ Entries(o)[e].type = "JUMP_SLOT"
                     \/ Entries(o)[e].type = "GLOB_DAT" /\ e <= Len(o.rela)}
  IN IF slots = {} THEN 0 ELSE P(o, Entries(o)[Min(slots)])

ViaGot == {"GOTPCREL", "GOTPCRELX", "REX_GOTPCRELX"}
PcRelative == {"PC32", "PLT32", "PC16", "PC8"}
Slots == {"GLOB_DAT", "JUMP_SLOT"}
SizeTypes == {"SIZE32", "SIZE64"}
Applied == ViaGot \cup PcRelative \cup Slots \cup SizeTypes
           \cup {"64", "32", "32S", "16", "8", "GOT32", "GOTOFF64", "GOTPC32"}

(* What apply_one_rela computes, and how much of it the field keeps.       *)
Full(o, r, S) ==
  LET slot == GotSlot(o, r.sym)
      G == IF slot = 0 THEN S ELSE slot
      got == IF o.jmprel # <<>> THEN o.base + o.got ELSE o.base
  IN CASE r.type \in Slots -> S
       [] r.type \in PcRelative -> S + r.addend - P(o, r)
       [] r.type \in ViaGot -> G + r.addend - P(o, r)
       [] r.type = "GOT32" -> G + r.addend
       [] r.type = "GOTOFF64" -> S + r.addend - o.base
       [] r.type = "GOTPC32" -> got + r.addend - P(o, r)
       [] r.type \in SizeTypes -> S + r.addend + o.sym[r.sym].size
       [] OTHER -> S + r.addend

Width(type) ==
  CASE type \in {"16", "PC16"} -> QUARTER
    [] type \in {"8", "PC8"} -> EIGHTH
    [] type \in Slots \cup {"64", "GOTOFF64", "SIZE64"} -> WORD
    [] OTHER -> HALF

Fits(type, v) ==
  CASE type \in ViaGot \cup {"PC32", "PLT32", "32S", "GOTPC32"} ->
         Signed(v) \in -(HALF \div 2)..HALF \div 2 - 1
    [] type \in {"32", "SIZE32"} -> v % WORD < HALF
    [] OTHER -> TRUE

-----------------------------------------------------------------------------
BindingInit ==
  /\ objects = <<>> /\ fields = <<>>
  /\ done = <<>> /\ relocated = {} /\ status = "idle"

(* The objects are mapped; the word of the file at offset k is k.          *)
LoadObjects ==
  /\ status = "idle" /\ objects' \in Processes
  /\ fields' = [a \in UNION {o.base..o.base + o.size - 1 : o \in {objects'[k] : k \in DOMAIN objects'}} |->
               LET k == CHOOSE k \in DOMAIN objects' :
                          a \in objects'[k].base..objects'[k].base + objects'[k].size - 1
               IN a - objects'[k].base]
  /\ done' = [k \in DOMAIN objects' |-> 0]
  /\ status' = "relocating"
  /\ UNCHANGED relocated

Current == Min(DOMAIN objects \ relocated)
Object == objects[Current]
HasEntry == status = "relocating" /\ done[Current] < Len(Entries(Object))
Entry == Entries(Object)[done[Current] + 1]

Write(f) == fields' = [a \in DOMAIN fields |-> IF a \in DOMAIN f THEN f[a] ELSE fields[a]]
Applied1 == done' = [done EXCEPT ![Current] = @ + 1] /\ UNCHANGED <<objects, relocated, status>>
Die == status' = "dead" /\ UNCHANGED <<objects, fields, done, relocated>>

(* The prefix DT_RELACOUNT announces must be RELATIVE.                     *)
PrefixBroken == done[Current] < Object.relacount /\ Entry.type # "RELATIVE"

ApplyNone ==
  /\ HasEntry /\ ~PrefixBroken /\ Entry.type = "NONE"
  /\ Applied1 /\ UNCHANGED fields

ApplyRelative ==
  /\ HasEntry /\ Entry.type = "RELATIVE"
  /\ Write(P(Object, Entry) :> ((Object.base + Entry.addend) % WORD))
  /\ Applied1

ApplyIrelative ==
  /\ HasEntry /\ ~PrefixBroken /\ Entry.type = "IRELATIVE"
  /\ Write(P(Object, Entry) :> Resolver[(Object.base + Entry.addend) % WORD])
  /\ Applied1

(* The bytes of the symbol's definition elsewhere, as they are now.        *)
Copied(at, s, def) ==
  LET n == Min({s.size, objects[def[1]].sym[def[2]].size})
      origin == SymbolAddr(def[1], def[2])
  IN [a \in at..at + n - 1 |-> fields[origin + a - at]]

CopyFrom(o, r, def) ==
  IF def = <<0, 0>> THEN Die
  ELSE Write(Copied(P(o, r), o.sym[r.sym], def)) /\ Applied1

ApplyCopy ==
  /\ HasEntry /\ ~PrefixBroken /\ Entry.type = "COPY"
  /\ CopyFrom(Object, Entry, LookupGlobal(Object.sym[Entry.sym].name, Current, TRUE))

Store(o, r, S, v) ==
  IF S = -1 \/ ~Fits(r.type, v) THEN Die
  ELSE Write(P(o, r) :> (v % Width(r.type))) /\ Applied1

ApplySymbol(o, r, S) == Store(o, r, S, Full(o, r, S))

ApplySymbolic ==
  /\ HasEntry /\ ~PrefixBroken /\ Entry.type \in Applied
  /\ ApplySymbol(Object, Entry, Resolve(Current, Entry.sym))

RefuseEntry ==
  /\ HasEntry
  /\ PrefixBroken \/ Entry.type \notin Applied \cup {"NONE", "RELATIVE", "IRELATIVE", "COPY"}
  /\ Die

(* apply_relr: an odd entry moves on by BITS - 1 words.                    *)
Rebase(o) ==
  LET relr == o.relr
      where[i \in 0..Len(relr)] ==
        IF i = 0 THEN 0
        ELSE IF relr[i] % 2 = 0 THEN o.base + relr[i] + 2
        ELSE where[i - 1] + (BITS - 1) * 2
      words(i) ==
        IF relr[i] % 2 = 0 THEN {o.base + relr[i]}
        ELSE {where[i - 1] + 2 * b : b \in {c \in 0..BITS - 2 : (relr[i] \div 2^(c + 1)) % 2 = 1}}
      times == [a \in DOMAIN fields |-> Cardinality({i \in DOMAIN relr : a \in words(i)})]
  IN [a \in DOMAIN fields |-> (fields[a] + times[a] * o.base) % WORD]

FinishObject ==
  /\ status = "relocating" /\ done[Current] = Len(Entries(Object))
  /\ fields' = Rebase(Object)
  /\ relocated' = relocated \cup {Current}
  /\ status' = IF relocated' = DOMAIN objects THEN "ready" ELSE status
  /\ UNCHANGED <<objects, done>>

BindingNext ==
  \/ LoadObjects
  \/ ApplyNone \/ ApplyRelative \/ ApplyIrelative \/ ApplyCopy \/ ApplySymbolic \/ RefuseEntry
  \/ FinishObject

BindingSpec == BindingInit /\ [][BindingNext]_bindingVars

-----------------------------------------------------------------------------
(* The tables the static linker writes.  For DT_GNU_HASH the symbols are   *)
(* sorted by bucket, those that are not looked up first; a chain word has  *)
(* its low bit set at the end of a bucket.  For DT_HASH a chain goes from  *)
(* symbol to symbol of a bucket.                                           *)
IsHashed(s) == s.shndx # "UNDEF" /\ s.bind # "LOCAL"
Hashed(sym) == {i \in DOMAIN sym : IsHashed(sym[i])}
Bucket(n) == Hash[n] % NBUCKETS
InBucket(sym, b) == {i \in Hashed(sym) : Bucket(sym[i].name) = b}
SortedByBucket(sym) ==
  \A i, j \in DOMAIN sym : i < j /\ IsHashed(sym[i]) =>
    IsHashed(sym[j]) /\ Bucket(sym[i].name) <= Bucket(sym[j].name)
ChainWord(sym, i) ==
  (Hash[sym[i].name] \div 2) * 2 + (IF i = Max(InBucket(sym, Bucket(sym[i].name))) THEN 1 ELSE 0)
GnuTable(sym) ==
  [symoffset |-> IF Hashed(sym) = {} THEN Len(sym) + 1 ELSE Min(Hashed(sym)),
   bloom |-> UNION {BloomBits(sym[i].name) : i \in Hashed(sym)},
   buckets |-> [b \in 0..NBUCKETS - 1 |-> IF InBucket(sym, b) = {} THEN 0 ELSE Min(InBucket(sym, b))],
   chains |-> [i \in Hashed(sym) |-> ChainWord(sym, i)]]
EarlierInBucket(sym, i) == {j \in InBucket(sym, Bucket(sym[i].name)) : j < i}
SysvTable(sym) ==
  [buckets |-> [b \in 0..NBUCKETS - 1 |-> IF InBucket(sym, b) = {} THEN 0 ELSE Max(InBucket(sym, b))],
   chains |-> [i \in DOMAIN sym |-> IF EarlierInBucket(sym, i) = {} THEN 0 ELSE Max(EarlierInBucket(sym, i))]]

(* An object the static linker made, which defines a name only once.       *)
IsBuilt(o) ==
  /\ o.sym \in Seq({o.sym[i] : i \in DOMAIN o.sym})
  /\ \A i \in DOMAIN o.sym : o.sym[i].name \in Name
  /\ \A i, j \in Hashed(o.sym) : o.sym[i].name = o.sym[j].name => i = j
  /\ \/ o.hash = "gnu" /\ SortedByBucket(o.sym) /\ o.table = GnuTable(o.sym)
     \/ o.hash = "sysv" /\ o.table = SysvTable(o.sym)
     \/ o.hash = "none"
ProcessesAreBuilt ==
  /\ Hash \in [Name -> Nat]
  /\ \A process \in Processes : /\ process \in Seq({process[k] : k \in DOMAIN process})
                                 /\ \A k \in DOMAIN process : IsBuilt(process[k])

-----------------------------------------------------------------------------
(* Whatever the shape of its hash table, an object that has one is found   *)
(* to define exactly the names its symbol table defines.                   *)
TablesAgreeWithSymbols ==
  \A k \in DOMAIN objects, n \in Name :
    LET o == objects[k]
        defined == {i \in DOMAIN o.sym : Defines(o.sym[i], n)}
    IN o.hash # "none" => LookupOne(o, n) = IF defined = {} THEN 0 ELSE Min(defined)

(* The definition a reference means: the object's own if it is private to  *)
(* it; else, among the visible ones, a strong one before a weak one, its   *)
(* own before another's, an earlier object's before a later one's.         *)
Definitions(n) ==
  {d \in UNION {{<<j, e>> : e \in DOMAIN objects[j].sym} : j \in DOMAIN objects} :
     Defines(objects[d[1]].sym[d[2]], n) /\ objects[d[1]].hash # "none"}
Precedence(k, d) ==
  (IF objects[d[1]].sym[d[2]].bind = "WEAK" THEN Len(objects) + 1 ELSE 0) + (IF d[1] = k THEN 0 ELSE d[1])
Candidates(k, i) ==
  LET s == objects[k].sym[i]
      mine == {d \in Definitions(s.name) : d[1] = k}
  IN IF s.shndx # "UNDEF" /\ (IsPrivate(s) \/ s.bind = "LOCAL") THEN {<<k, i>>}
     ELSE IF objects[k].symbolic /\ mine # {} THEN mine
     ELSE {d \in Definitions(s.name) : ~IsPrivate(objects[d[1]].sym[d[2]])}
Meant(k, i) ==
  LET among == Candidates(k, i)
      d == CHOOSE d \in among : \A c \in among : Precedence(k, d) <= Precedence(k, c)
  IN IF among = {} THEN 0 ELSE SymbolAddr(d[1], d[2])

(* Every reference is bound to what it means, by the search of one object  *)
(* after the other; without a definition only a weak one is let through.   *)
ReferencesAreBound ==
  \A k \in DOMAIN objects : \A i \in DOMAIN objects[k].sym :
    Resolve(k, i) = IF Candidates(k, i) = {} /\ objects[k].sym[i].bind # "WEAK" THEN -1 ELSE Meant(k, i)

(* The processor extends a field it reads.                                 *)
Extended(v, width) == IF v < width \div 2 THEN v ELSE v - width

(* When the program is ready, what an instruction or a pointer obtains     *)
(* through a relocated field is the address its symbol means: the sum with *)
(* the addend, the target of a displacement, the slot of the GOT that      *)
(* holds it, the base of the object.  COPY obtains the bytes in the        *)
(* library's file, relocated there or not.  Words no relocation names are  *)
(* those of the file.                                                      *)
RelocatedAsLinked ==
  status = "ready" => \A k \in DOMAIN objects :
    LET o == objects[k]
        es == {Entries(o)[e] : e \in DOMAIN Entries(o)}
        field(r) == fields[P(o, r)]
        means(r) == Meant(k, r.sym)
    IN /\ \A r \in es :
            CASE r.type = "RELATIVE" -> field(r) = o.base + r.addend
              [] r.type \in Slots -> field(r) = means(r)
              [] r.type = "64" -> field(r) = (means(r) + r.addend) % WORD
              [] r.type = "32" -> field(r) = means(r) + r.addend
              [] r.type = "32S" -> Extended(field(r), HALF) % WORD = (means(r) + r.addend) % WORD
              [] r.type \in {"PC32", "PLT32"} ->
                   P(o, r) + Extended(field(r), HALF) = means(r) + r.addend
              [] r.type \in ViaGot ->
                   GotSlot(o, r.sym) # 0 =>
                     fields[P(o, r) + Extended(field(r), HALF) - r.addend] = means(r)
              [] r.type = "COPY" ->
                   LET d == LookupGlobal(o.sym[r.sym].name, k, TRUE)
                   IN field(r) = objects[d[1]].sym[d[2]].value
              [] OTHER -> TRUE
       /\ \A a \in o.base..o.base + o.size - 1 :
            (\A r \in {e \in es : e.type # "NONE"} : a \notin P(o, r)..P(o, r) + (IF r.type = "COPY" THEN o.sym[r.sym].size - 1 ELSE 0)) =>
              fields[a] = IF a - o.base \in o.packed THEN a ELSE a - o.base

(* Names are found by way of the tables, and fields hold what they mean.   *)
BoundAsLinked == TablesAgreeWithSymbols /\ ReferencesAreBound /\ RelocatedAsLinked
=============================================================================
