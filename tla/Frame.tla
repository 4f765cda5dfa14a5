------------------------------- MODULE Frame -------------------------------
(***************************************************************************)
(* One slot of a mallocng group, byte by byte: where malloc, realloc and   *)
(* aligned_alloc put a block in it, and what free, realloc and             *)
(* malloc_usable_size read back from the bytes around the block, which lie *)
(* between bytes the program writes.                                       *)
(* Bytes are numbered from the start of the slot: -8..-1 are before it,    *)
(* and `end` is where the bytes of the next slot's header begin.           *)
(***************************************************************************)
EXTENDS Integers

CONSTANTS
  UNIT,          \* 16 in the code
  Stride,        \* bytes in the slot, a multiple of UNIT
  Index,         \* its number in the group
  Storage,       \* address of the group's storage, a multiple of UNIT
  Limit,         \* 0xffff: offsets above it need 32 bits
  Size,          \* sizes the program asks for
  Align          \* alignments it asks for

(* A group of several slots has less than 65536 units; a slot of its own   *)
(* is as large as a request, whose slack 32 bits hold.  An alignment is a  *)
(* power of two.                                                           *)
ASSUME SlotAssumption ==
  /\ UNIT = 16 /\ Stride \in Nat \ {0} /\ Stride % UNIT = 0 /\ Stride \div 65536 < 65536
  /\ Index \in 0..31 /\ (Index > 0 => Stride * (Index + 1) <= 65536 * UNIT)
  /\ Storage \in Nat /\ Storage % UNIT = 0 /\ Limit \in Nat /\ Limit < 65536
  /\ Size \subseteq Nat /\ Align \subseteq Nat
  /\ \A align \in Align : align >= UNIT => align % UNIT = 0

VARIABLES
  bytes,          \* the slot's bytes and those of its header
  block,         \* where the program's block is, Free if there is none
  asked           \* how many bytes it asked for
frameVars == <<bytes, block, asked>>

IB == 4
NoBlock == -1
end == Stride - IB
Start == Stride * Index                  \* the slot's place in storage
Bytes == -8..(end + IB - 1)

-----------------------------------------------------------------------------
(* Little-endian fields.                                                   *)
Digit(n, weight) == (n \div weight) % 256
Store16(b, at, n) == [b EXCEPT ![at] = Digit(n, 1), ![at + 1] = Digit(n, 256)]
Store32(b, at, n) == Store16(Store16(b, at, n), at + 2, n \div 65536)
Field16(b, at) == b[at] + 256 * b[at + 1]
Field32(b, at) == Field16(b, at) + 65536 * Field16(b, at + 2)
SetByte(b, at, n) == [b EXCEPT ![at] = n]

(* p[-3]: the slot's index, and in its top bits the bytes reserved, 5 for  *)
(* a number kept at the end.                                               *)
Tag(index, reserved) == (index + 32 * reserved) % 256
SlotIndex(b, p) == b[p - 3] % 32

set_size(b, p, n) ==
  LET reserved == end - p - n
      ended == IF reserved = 0 THEN b ELSE SetByte(b, end - reserved, 0)
      long == SetByte(Store32(ended, end - 4, reserved), end - 5, 0)
  IN IF reserved >= 5
       THEN SetByte(long, p - 3, Tag(SlotIndex(long, p), 5))
       ELSE SetByte(ended, p - 3, Tag(SlotIndex(ended, p), reserved))

(* The offset enframe gives the block in its slot: one more than the last  *)
(* time, or the context's counter in a slot never used; brought into the   *)
(* slack by the smallest mask that covers it, then by wrapping.            *)
Masks == {0, 1, 3, 7, 15, 31, 63, 127, 255}
Mask(slack) ==
  CHOOSE mask \in Masks : mask >= slack /\ \A other \in Masks : other >= slack => other >= mask
(* Mutant of Wrapped. *)
WrappedByMaskAlone(next, slack) ==
  IF next <= slack THEN next ELSE next % (Mask(slack) + 1)

Wrapped(next, slack) ==
  LET low == next % (Mask(slack) + 1)
  IN IF next <= slack THEN next
     ELSE IF low > slack THEN low - (slack + 1) ELSE low

Cycled(b, ctr) == (IF b[-3] # 0 THEN Field16(b, -2) + 1 ELSE ctr) % 256
Offset(b, n, ctr) == Wrapped(Cycled(b, ctr), (end - n) \div UNIT)

(* An offset leaves a header of its own at the slot's start; the block's   *)
(* says where the group is and which slot this is.                         *)
Framed(b, n, off) ==
  LET p == UNIT * off
      led == IF off = 0 THEN b ELSE SetByte(SetByte(Store16(b, -2, off), -3, Tag(0, 7)), p - 4, 0)
      named == SetByte(Store16(led, p - 2, (Start + p) \div UNIT), p - 3, Index)
  IN set_size(named, p, n)

-----------------------------------------------------------------------------
(* A slot of a new group has zeros for its header; so has the next one,    *)
(* or the bytes after the last.                                            *)
FrameInit ==
  /\ bytes = [i \in Bytes |-> 0]
  /\ block = NoBlock /\ asked = 0

Enframe(n, ctr) ==
  /\ block = NoBlock /\ n <= end
  /\ LET off == Offset(bytes, n, ctr)
     IN /\ block' = UNIT * off
        /\ bytes' = Framed(bytes, n, off)
  /\ asked' = n

(* aligned_alloc in a slot malloc chose for the length and the alignment's *)
(* worst case: the block moves up to the boundary and keeps a header of    *)
(* its own, 32 bits of offset where 16 do not do; the start of the slot    *)
(* remembers the distance.                                                 *)
AlignedAlloc(align, n, ctr) ==
  LET need == n + align - UNIT
      off == Offset(bytes, need, ctr)
      p == UNIT * off
      adj == (0 - (Storage + Start + p)) % align
      q == p + adj
      offset == (Start + q) \div UNIT
      placed == Framed(bytes, need, off)
      near == SetByte(Store16(placed, q - 2, offset), q - 4, 0)
      far == SetByte(Store32(Store16(placed, q - 2, 0), q - 8, offset), q - 4, 1)
      sized == set_size(SetByte(IF offset <= Limit THEN near ELSE far, q - 3, Index), q, n)
  IN /\ block = NoBlock /\ align >= UNIT /\ need <= end
     /\ block' = q /\ asked' = n
     /\ bytes' = IF adj = 0 THEN set_size(placed, p, n)
                ELSE SetByte(Store16(sized, -2, q \div UNIT), -3, Tag(0, 7))

(* The program writes its bytes, and no other.                             *)
ProgramWrites ==
  /\ block # NoBlock
  /\ bytes' = [i \in Bytes |-> IF i \in block..(block + asked - 1) THEN 255 ELSE bytes[i]]
  /\ UNCHANGED <<block, asked>>

(* realloc in place.                                                       *)
Resize(n) ==
  /\ block # NoBlock /\ n <= end - block
  /\ bytes' = set_size(bytes, block, n)
  /\ asked' = n
  /\ UNCHANGED block

(* free spoils the block's header.  An overaligned block with 32 bits of   *)
(* offset is in a slot of its own, which goes with the group.              *)
FreeBlock ==
  /\ block # NoBlock
  /\ bytes' = IF bytes[block - 4] # 0 THEN [i \in Bytes |-> 0]
             ELSE Store16(SetByte(bytes, block - 3, 255), block - 2, 0)
  /\ block' = NoBlock /\ asked' = 0

FrameNext ==
  \/ \E n \in Size, ctr \in {0, 3, 255} : Enframe(n, ctr)
  \/ \E align \in Align, n \in Size, ctr \in {0, 3} : AlignedAlloc(align, n, ctr)
  \/ ProgramWrites
  \/ \E n \in Size : Resize(n)
  \/ FreeBlock

FrameSpec == FrameInit /\ [][FrameNext]_frameVars

-----------------------------------------------------------------------------
(* What get_meta and get_nominal_size make of the bytes.                   *)
OffsetRead(b, p) == IF b[p - 4] # 0 THEN Field32(b, p - 8) ELSE Field16(b, p - 2)
ReservedRead(b, p) == IF b[p - 3] \div 32 >= 5 THEN Field32(b, end - 4) ELSE b[p - 3] \div 32
get_nominal_size(b, p) == end - ReservedRead(b, p) - p

(* The assertions of the two.                                              *)
IsFramed(b, p) ==
  /\ p % UNIT = 0
  /\ b[p - 4] # 0 => Field16(b, p - 2) = 0 /\ Field32(b, p - 8) > Limit
  /\ \/ b[p - 3] \div 32 < 5
     \/ b[p - 3] \div 32 = 5 /\ Field32(b, end - 4) >= 5 /\ b[end - 5] = 0
  /\ ReservedRead(b, p) <= end - p
  /\ b[end - ReservedRead(b, p)] = 0 /\ b[end] = 0

(* Whatever the program wrote into its block, the bytes around it still    *)
(* lead to the group and the slot, and give the size that was asked for,   *)
(* so that free and realloc never trap on a block malloc returned.         *)
BlocksReadBack ==
  block # NoBlock =>
    /\ IsFramed(bytes, block)
    /\ UNIT * OffsetRead(bytes, block) = Start + block
    /\ SlotIndex(bytes, block) = Index
    /\ get_nominal_size(bytes, block) = asked

(* A block and the bytes around it stay in its slot, and a free slot is    *)
(* fit to be framed again (enframe's assertion).                           *)
BlocksStayInTheirSlot ==
  /\ block # NoBlock => block >= 0 /\ block + asked <= end
  /\ block = NoBlock => bytes[-4] = 0 /\ bytes[end] = 0

(* A block lies in its slot and is known from its bytes.                   *)
BlocksAreFramed == BlocksStayInTheirSlot /\ BlocksReadBack
=============================================================================
