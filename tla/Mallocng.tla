------------------------------ MODULE Mallocng ------------------------------
(***************************************************************************)
(* The allocator, stdlib/mallocng: groups of equal slots, one circular     *)
(* list of groups for each size class, groups that live in slots of larger *)
(* groups, and the counters that keep groups from being mapped and         *)
(* unmapped in turns.                                                      *)
(*                                                                         *)
(* A mask of slots is a set of slot numbers.  alloc_slot and alloc_group   *)
(* call each other for larger and larger classes, nontrivial_free and      *)
(* free_group for the slots around the freed one: the calls in progress    *)
(* are the variables stack and freeing, and an action is the code from one *)
(* such call to the next.  The library starts no thread (MT is 0).         *)
(***************************************************************************)
EXTENDS SizeClasses, FiniteSets

CONSTANTS
  Request,       \* the sizes the program asks for
  MaxBlock,      \* bound: the blocks the program holds
  MaxGroup,      \* the groups that alloc_meta gets memory for
  SEQ_MAX,       \* 255 in step_seq
  SOON,          \* 10 in account_bounce
  BOUNCING,      \* 100 in account_bounce and is_bouncing
  BOUNCE_START   \* 150 in account_bounce

ASSUME RequestAssumption == Request \subseteq Nat \ {0}
ASSUME BoundAssumption == MaxGroup \in Nat /\ MaxBlock \in Nat
ASSUME CounterAssumption ==
  /\ SEQ_MAX \in Nat \ {0} /\ SOON \in Nat
  /\ BOUNCING \in Nat \ {0} /\ BOUNCE_START \in Nat /\ BOUNCE_START >= BOUNCING

Group == 1..MaxGroup
LARGE == 63                   \* the class of allocations with pages of their own
SLOTS == 0..31
Counter == 0..31              \* the classes 7 to 38 have a bounce counter
Mapped == <<>>                \* the place of a group that has pages of its own
NoSlot == <<>>
NoReturn == -2

VARIABLES
  group,     \* struct meta and struct group of the groups in use
  ring,      \* ctx.active: the list of each class, from its head
  usage,     \* ctx.usage_by_class
  seq, unmapSeq, bounces,
  held,      \* the program's blocks: the size asked for, by slot
  count,     \* how many blocks the program was given and holds
  stack,     \* the calls of alloc_slot in progress, the first by malloc
  ret,       \* what the last of them to return returned
  moving,    \* realloc's old block
  freeing,   \* the slot that nontrivial_free is called for
  died       \* how the process ended

counters == <<seq, unmapSeq, bounces>>
calls == <<stack, ret, moving, freeing>>
blocks == <<held, count>>
vars == <<group, ring, usage, counters, blocks, calls, died>>

InUse == DOMAIN group
Slot == InUse \X SLOTS

TypeOK ==
  /\ InUse \subseteq Group
  /\ \A g \in InUse :
       /\ group[g] \in [sc : Class \cup {LARGE}, last : SLOTS, active : SLOTS, pages : Nat,
                        avail : SUBSET SLOTS, freed : SUBSET SLOTS, place : {Mapped} \cup Slot,
                        mem : [root : Group, lo : Nat]]
       /\ group[g].avail \cup group[g].freed \subseteq 0..group[g].last
       /\ group[g].active <= group[g].last
       /\ group[g].place = Mapped <=> group[g].pages # 0
  /\ ring \in [Class -> Seq(InUse)]
  /\ usage \in [Class -> Nat]
  /\ seq \in 0..SEQ_MAX /\ unmapSeq \in [Counter -> 0..SEQ_MAX]
  /\ bounces \in [Counter -> 0..BOUNCE_START]
  /\ DOMAIN held \subseteq Slot /\ \A b \in DOMAIN held : held[b] \in Nat
  /\ count \in 0..MaxBlock
  /\ stack \in Seq([sc : Class, req : Nat, meta : {0} \cup Group, cnt : 0..32])
  /\ ret \in -2..31
  /\ moving \in {NoSlot} \cup DOMAIN held
  /\ freeing \in {NoSlot} \cup Slot
  /\ died \in {"no", "trap", "fault"}

Init ==
  /\ group = <<>>
  /\ ring = [sc \in Class |-> <<>>]
  /\ usage = [sc \in Class |-> 0]
  /\ seq = 0 /\ unmapSeq = [i \in Counter |-> 0] /\ bounces = [i \in Counter |-> 0]
  /\ held = <<>> /\ count = 0
  /\ stack = <<>> /\ ret = NoReturn /\ moving = NoSlot /\ freeing = NoSlot
  /\ died = "no"

-----------------------------------------------------------------------------
With(f, x, v) == [y \in DOMAIN f \cup {x} |-> IF y = x THEN v ELSE f[y]]
Without(f, x) == [y \in DOMAIN f \ {x} |-> f[y]]

(* The lists.  queue puts a group at the end; when the head leaves the     *)
(* next group is the head.                                                 *)
Queued(list, g) == Append(list, g)
Dequeued(list, g) ==
  LET at == CHOOSE i \in DOMAIN list : list[i] = g
  IN [i \in 1..Len(list) - 1 |-> IF i < at THEN list[i] ELSE list[i + 1]]
Turned(list) == Append(Tail(list), Head(list))
Members(list) == {list[i] : i \in DOMAIN list}
IsListed(g) == group[g].sc \in Class /\ g \in Members(ring[group[g].sc])
IsHead(g) == IsListed(g) /\ Head(ring[group[g].sc]) = g

Slots(r) == 0..r.last
Clear(r) == r.avail \cup r.freed
HasOwnPages(r) == r.last = 0 /\ r.pages # 0
Stride(r) == IF HasOwnPages(r) THEN r.pages * PAGESIZE - UNIT ELSE Size(r.sc)

ActivatedKeepsFreed(r) == [r EXCEPT !.avail = r.freed \cap 0..r.active]   \* mutant of Activated

(* activate_group: the freed slots that are active become available.       *)
Activated(r) == [r EXCEPT !.avail = r.freed \cap 0..r.active, !.freed = @ \ 0..r.active]

(* The counters: seq numbers the mappings made and undone, unmapSeq is the *)
(* number of a class's last unmapping, bounces counts mappings soon after. *)
Counted(sc) == sc - 7 \in Counter
IsBouncing(sc) == Counted(sc) /\ bounces[sc - 7] >= BOUNCING
Decayed(sc) ==
  IF Counted(sc) /\ bounces[sc - 7] # 0 THEN [bounces EXCEPT ![sc - 7] = @ - 1] ELSE bounces
Accounted(sc) ==
  IF Counted(sc) /\ unmapSeq[sc - 7] # 0 /\ seq - unmapSeq[sc - 7] < SOON
    THEN [bounces EXCEPT ![sc - 7] = IF @ + 1 < BOUNCING THEN @ + 1 ELSE BOUNCE_START]
    ELSE bounces
NextSeq == IF seq = SEQ_MAX THEN 1 ELSE seq + 1
Stepped == IF seq = SEQ_MAX THEN [i \in Counter |-> 0] ELSE unmapSeq
Recorded(sc) == IF Counted(sc) THEN [Stepped EXCEPT ![sc - 7] = NextSeq] ELSE Stepped

(* Where the slots of a group begin: in its own pages, or in the slot      *)
(* that holds the group.                                                   *)
OwnPages(g) == [root |-> g, lo |-> UNIT]
Within(r, i) == [root |-> r.mem.root, lo |-> r.mem.lo + i * Stride(r) + UNIT]

(* alloc_meta, until there is no memory for more.  Which free one it takes *)
(* makes no difference.                                                    *)
Spare == Group \ (InUse \cup {stack[i].meta : i \in DOMAIN stack})
NewMeta == FirstOf(Spare)

Running == died = "no"
NoCall == stack = <<>> /\ ret = NoReturn /\ moving = NoSlot /\ freeing = NoSlot
Idle == Running /\ NoCall

Trap == died' = "trap" /\ UNCHANGED <<group, ring, usage, counters, blocks, calls>>

(* mmap reports failure as 0, mremap as -ENOMEM, and malloc and realloc    *)
(* look for MAP_FAILED, -1: they write to the addresses they were given.   *)
Fault == died' = "fault" /\ UNCHANGED <<group, ring, usage, counters, blocks, calls>>

-----------------------------------------------------------------------------
(* The class malloc takes for a request: a coarser one until there is a    *)
(* group of the request's own.                                             *)
ClassFor(n) ==
  LET sc == SizeToClass(n)
      full == ring[sc + 1] = <<>> \/ Clear(group[Head(ring[sc + 1])]) = {}
      coarse == usage[sc + 1] + (IF full THEN 3 ELSE 0)
  IN IF /\ sc \in 4..31 /\ sc # 6 /\ IsEven(sc)
        /\ ring[sc] = <<>> /\ usage[sc] = 0 /\ coarse <= 12
       THEN sc + 1 ELSE sc

Given(b, n) == held' = With(held, b, n) /\ count' = count + 1

(* A request with a mapping of its own.  realloc's old block is old.       *)
AllocLarge(n, old) ==
  /\ n >= MMAP_THRESHOLD
  /\ seq' = NextSeq /\ unmapSeq' = Stepped
  /\ IF Spare = {}
       THEN moving' = NoSlot /\ UNCHANGED <<group, blocks>>
       ELSE /\ group' = With(group, NewMeta,
                 [sc |-> LARGE, last |-> 0, active |-> 0, pages |-> Pages(n + IB + UNIT),
                  avail |-> {}, freed |-> {}, place |-> Mapped, mem |-> OwnPages(NewMeta)])
            /\ Given(<<NewMeta, 0>>, n)
            /\ moving' = old
  /\ UNCHANGED <<ring, usage, bounces, stack, ret, freeing, died>>

AllocLargeFails(n) == n >= MMAP_THRESHOLD /\ Spare # {} /\ Fault

AllocSmall(n, old) ==
  /\ n < MMAP_THRESHOLD
  /\ stack' = <<[sc |-> ClassFor(n), req |-> n, meta |-> 0, cnt |-> 0]>>
  /\ moving' = old
  /\ UNCHANGED <<group, ring, usage, counters, blocks, ret, freeing, died>>

Alloc(n, old) ==
  count < MaxBlock /\ (AllocLarge(n, old) \/ AllocLargeFails(n) \/ AllocSmall(n, old))

(* malloc, and realloc without an old block.                               *)
Malloc == Idle /\ \E n \in Request : Alloc(n, NoSlot)

-----------------------------------------------------------------------------
(* alloc_slot and alloc_group for the last call of the stack; the first is *)
(* malloc's own.  ret is what the last one returns to the one before.      *)
Frame == stack[Len(stack)]
Below == SubSeq(stack, 1, Len(stack) - 1)
Caller == stack[Len(stack) - 1]
Working == Running /\ stack # <<>> /\ ret = NoReturn
List == ring[Frame.sc]
First == group[Head(List)]

TakenAgain(r) == r                       \* mutant of Taken: the slot stays available
Taken(r) == [r EXCEPT !.avail = @ \ {FirstOf(@)}]

(* The first available slot of the first group is taken.                   *)
Take ==
  /\ Working /\ List # <<>> /\ First.avail # {}
  /\ group' = [group EXCEPT ![Head(List)] = Taken(@)]
  /\ ret' = FirstOf(First.avail)
  /\ UNCHANGED <<ring, usage, counters, blocks, stack, moving, freeing, died>>

IsExhausted(r) == r.freed = {}
IsInactive(r) == r.freed \cap 0..r.active = {}

Skipped(list) == IF IsExhausted(group[Head(list)]) THEN Tail(list) ELSE Turned(list)

(* A group that is all free is passed over, and then one whose freed slots *)
(* are not active yet.                                                     *)
Passed(list) ==
  LET heads(l) == group[Head(l)]
      used == IF heads(list).freed = Slots(heads(list)) THEN Turned(list) ELSE list
  IN IF IsInactive(heads(used)) THEN Turned(used) ELSE used

(* An only group gets more active slots.                                   *)
Extended(r) == [r EXCEPT !.active = MoreActive(r.sc, @, r.last + 1) - 1]

(* try_avail without an available slot: the head leaves the list if it has *)
(* no freed slot either, and the freed slots of another head become        *)
(* available.                                                              *)
Refill ==
  /\ Working /\ List # <<>> /\ First.avail = {}
  /\ LET rest == Skipped(List)
         list == IF rest = <<>> THEN rest ELSE Passed(rest)
         head == group[Head(list)]
         r == IF Len(list) = 1 /\ IsInactive(head) THEN Extended(head) ELSE head
     IN IF list = <<>>
          THEN /\ ring' = [ring EXCEPT ![Frame.sc] = list]
               /\ UNCHANGED <<group, usage, counters, blocks, calls, died>>
        ELSE IF r.avail = {} /\ Activated(r).avail # {}
          THEN /\ ring' = [ring EXCEPT ![Frame.sc] = list]
               /\ group' = [group EXCEPT ![Head(list)] = Activated(r)]
               /\ bounces' = Decayed(Frame.sc)
               /\ UNCHANGED <<usage, seq, unmapSeq, blocks, calls, died>>
        ELSE Trap

(* A call returns slot 0 of a new group of cnt slots.                      *)
Formed(g, sc, cnt, active, pages, place, mem) ==
  /\ group' = With(group, g, [sc |-> sc, last |-> cnt - 1, active |-> active, pages |-> pages,
                              avail |-> 1..active, freed |-> active + 1..cnt - 1,
                              place |-> place, mem |-> mem])
  /\ ring' = [ring EXCEPT ![sc] = Queued(@, g)]
  /\ usage' = [usage EXCEPT ![sc] = @ + cnt]
  /\ ret' = 0

(* alloc_group, when the list is empty.                                    *)
Wanting == Working /\ List = <<>>
Count == UsualCount(Frame.sc, TableCount(Frame.sc, usage[Frame.sc]))

NoMeta ==
  /\ Wanting /\ Spare = {} /\ ret' = -1
  /\ UNCHANGED <<group, ring, usage, counters, blocks, stack, moving, freeing, died>>

MapGroup ==
  /\ Wanting /\ Spare # {} /\ IsMapped(Frame.sc, Count)
  /\ LET sc == Frame.sc
         nosmall == IsBouncing(sc)
         coarse == usage[sc] + (IF IsEven(sc) /\ sc < 32 THEN usage[sc + 1] ELSE 0)
         cnt == ReducedCount(sc, Count, coarse, nosmall)
         shape == MappedShape(sc, cnt, Frame.req, coarse, nosmall)
     IN /\ Formed(NewMeta, sc, shape.cnt, FirstActive(sc, shape.cnt), shape.pages,
                  Mapped, OwnPages(NewMeta))
        /\ bounces' = Accounted(sc) /\ seq' = NextSeq /\ unmapSeq' = Stepped
        /\ UNCHANGED <<blocks, stack, moving, freeing, died>>

MapGroupFails == Wanting /\ Spare # {} /\ IsMapped(Frame.sc, Count) /\ Fault

(* A slot for the group is allocated first.                                *)
NestGroup ==
  /\ Wanting /\ Spare # {} /\ ~IsMapped(Frame.sc, Count)
  /\ LET req == NestedRequest(Frame.sc, Count)
     IN stack' = Append(Append(Below, [Frame EXCEPT !.meta = NewMeta, !.cnt = Count]),
                        [sc |-> SizeToClass(req), req |-> req, meta |-> 0, cnt |-> 0])
  /\ UNCHANGED <<group, ring, usage, counters, blocks, ret, moving, freeing, died>>

Returned == Running /\ Len(stack) > 1 /\ ret # NoReturn /\ stack' = Below

FormNested ==
  /\ Returned /\ ret # -1
  /\ Formed(Caller.meta, Caller.sc, Caller.cnt, Caller.cnt - 1, 0,
            <<Head(List), ret>>, Within(First, ret))
  /\ UNCHANGED <<counters, blocks, moving, freeing, died>>

FailNested ==
  /\ Returned /\ ret = -1
  /\ UNCHANGED <<group, ring, usage, counters, blocks, ret, moving, freeing, died>>

(* The end of malloc.  realloc's old block is freed next if it succeeded.  *)
Finish ==
  /\ Running /\ Len(stack) = 1 /\ ret # NoReturn
  /\ stack' = <<>> /\ ret' = NoReturn
  /\ IF ret = -1
       THEN moving' = NoSlot /\ UNCHANGED blocks
       ELSE /\ Given(<<Head(List), ret>>, Frame.req)
            /\ UNCHANGED moving
  /\ UNCHANGED <<group, ring, usage, counters, freeing, died>>

-----------------------------------------------------------------------------
(* free.  A slot that is neither the first nor the last free one of its    *)
(* group is only marked.                                                   *)
Release(b) ==
  LET g == b[1]
      i == b[2]
  IN IF i \in Clear(group[g]) THEN Trap
     ELSE /\ held' = Without(held, b) /\ count' = count - 1 /\ moving' = NoSlot
          /\ IF group[g].freed # {} /\ Clear(group[g]) \cup {i} # Slots(group[g])
               THEN group' = [group EXCEPT ![g].freed = @ \cup {i}] /\ UNCHANGED freeing
               ELSE freeing' = <<g, i>> /\ UNCHANGED group
          /\ UNCHANGED <<ring, usage, counters, stack, ret, died>>

Free == Idle /\ \E b \in DOMAIN held : Release(b)

OkayToFreeUnlessAlone(g) ==        \* mutant of OkayToFree: the last of any class stays
  LET r == group[g] IN r.sc # LARGE => Stride(r) < Size(r.sc) \/ ring[r.sc] # <<g>>

(* okay_to_free: the last group of a bouncing class stays.                 *)
OkayToFree(g) ==
  LET r == group[g]
      cnt == r.last + 1
  IN r.sc # LARGE => \/ Stride(r) < Size(r.sc)
                     \/ r.place # Mapped
                     \/ ring[r.sc] # <<g>>
                     \/ ~IsBouncing(r.sc)
                     \/ 9 * cnt <= usage[r.sc] /\ cnt < 20

IsLast == Clear(group[freeing[1]]) \cup {freeing[2]} = Slots(group[freeing[1]])
Collapses == IsLast /\ OkayToFree(freeing[1])

(* nontrivial_free and free_group, for the last used slot of a group: the  *)
(* group leaves its list and its memory is given back, to the kernel or to *)
(* the group it lies in.                                                   *)
FreeGroup ==
  /\ Running /\ freeing # NoSlot /\ Collapses
  /\ LET g == freeing[1]
         r == group[g]
         list == Dequeued(ring[r.sc], g)
         promotes == IsHead(g) /\ list # <<>>
         promoted == group[Head(list)]
         other == IF promotes THEN With(group, Head(list), Activated(promoted)) ELSE group
     IN IF promotes /\ promoted.avail # {} THEN Trap
        ELSE /\ group' = Without(other, g)
             /\ ring' = IF IsListed(g) THEN [ring EXCEPT ![r.sc] = list] ELSE ring
             /\ usage' = IF r.sc = LARGE THEN usage ELSE [usage EXCEPT ![r.sc] = @ - (r.last + 1)]
             /\ freeing' = r.place
             /\ IF r.place = Mapped
                  THEN seq' = NextSeq /\ unmapSeq' = Recorded(r.sc)
                  ELSE UNCHANGED <<seq, unmapSeq>>
             /\ UNCHANGED <<bounces, blocks, stack, ret, moving, died>>

FreeSlotUnlisted ==                 \* mutant of FreeSlot: the group is not queued
  /\ Running /\ freeing # NoSlot /\ ~Collapses
  /\ group' = [group EXCEPT ![freeing[1]].freed = @ \cup {freeing[2]}]
  /\ freeing' = NoSlot
  /\ UNCHANGED <<ring, usage, counters, blocks, stack, ret, moving, died>>

FreeSlotQueuesHead ==               \* mutant of FreeSlot: the head is queued again
  LET g == freeing[1] IN
  /\ Running /\ freeing # NoSlot /\ ~Collapses
  /\ IF Clear(group[g]) = {} /\ IsListed(g)
       THEN Trap
       ELSE /\ ring' = IF Clear(group[g]) = {}
                         THEN [ring EXCEPT ![group[g].sc] = Queued(@, g)] ELSE ring
            /\ group' = [group EXCEPT ![g].freed = @ \cup {freeing[2]}]
            /\ freeing' = NoSlot
            /\ UNCHANGED <<usage, counters, blocks, stack, ret, moving, died>>

(* nontrivial_free otherwise: a group's first free slot puts it on its     *)
(* list, unless it is the head there still.                                *)
FreeSlot ==
  LET g == freeing[1]
      isFirst == Clear(group[g]) = {}
  IN
  /\ Running /\ freeing # NoSlot /\ ~Collapses
  /\ IF isFirst /\ (group[g].sc = LARGE \/ (IsListed(g) /\ ~IsHead(g)))
       THEN Trap
       ELSE /\ ring' = IF isFirst /\ ~IsHead(g)
                         THEN [ring EXCEPT ![group[g].sc] = Queued(@, g)] ELSE ring
            /\ group' = [group EXCEPT ![g].freed = @ \cup {freeing[2]}]
            /\ freeing' = NoSlot
            /\ UNCHANGED <<usage, counters, blocks, stack, ret, moving, died>>

-----------------------------------------------------------------------------
(* realloc.  Where in its slot a block begins is not modelled: a larger    *)
(* size that fits the slot may fit behind that place or not.               *)
FitsInPlace(b, n) ==
  LET r == group[b[1]]
  IN n <= Stride(r) - IB /\ n < MMAP_THRESHOLD /\ SizeToClass(n) + 1 >= r.sc

ResizeInPlace ==
  /\ Idle
  /\ \E b \in DOMAIN held, n \in Request :
       FitsInPlace(b, n) /\ held' = [held EXCEPT ![b] = n]
  /\ UNCHANGED <<group, ring, usage, counters, count, calls, died>>

RemapForgetsHeader ==               \* mutant of Remap: pages for the size alone
  /\ Idle
  /\ \E b \in DOMAIN held, n \in Request :
       LET g == b[1] IN
       /\ group[g].sc = LARGE /\ n >= MMAP_THRESHOLD
       /\ group' = [group EXCEPT ![g].pages = Pages(n)]
       /\ held' = [held EXCEPT ![b] = n]
       /\ UNCHANGED <<ring, usage, counters, count, calls, died>>

Remap ==
  /\ Idle
  /\ \E b \in DOMAIN held, n \in Request :
       LET g == b[1] IN
       /\ group[g].sc = LARGE /\ n >= MMAP_THRESHOLD
       /\ \/ /\ group' = [group EXCEPT ![g].pages = Pages(n + UNIT + IB)]
             /\ held' = [held EXCEPT ![b] = n]
             /\ UNCHANGED <<ring, usage, counters, count, calls, died>>
          \/ group[g].pages # Pages(n + UNIT + IB) /\ Fault

Move ==
  /\ Idle
  /\ \E b \in DOMAIN held, n \in Request :
       /\ ~(FitsInPlace(b, n) /\ n <= held[b])
       /\ ~(group[b[1]].sc = LARGE /\ n >= MMAP_THRESHOLD)
       /\ Alloc(n, b)

FreeMoved == Running /\ stack = <<>> /\ ret = NoReturn /\ moving # NoSlot /\ Release(moving)

-----------------------------------------------------------------------------
InCall ==
  \/ Take \/ Refill \/ NoMeta \/ MapGroup \/ MapGroupFails \/ NestGroup
  \/ FormNested \/ FailNested \/ Finish
  \/ FreeMoved \/ FreeGroup \/ FreeSlot

Next == Malloc \/ Free \/ ResizeInPlace \/ Remap \/ Move \/ InCall

Spec == Init /\ [][Next]_vars

-----------------------------------------------------------------------------
(* None of the library's assertions fails: no group is queued twice or     *)
(* activated while it has available slots, the group that try_avail ends   *)
(* at has a slot to give, no large group is treated as one of a class.     *)
NeverTraps == died # "trap"

(* The accounts of the masks: each slot of each group is available, freed, *)
(* the program's, another group's or in the hands of a call in progress,   *)
(* and only one of these.                                                  *)
Uses(g, i) ==
       {<<"available", 0>> : n \in group[g].avail \cap {i}}
  \cup {<<"freed", 0>> : n \in group[g].freed \cap {i}}
  \cup {<<"block", b>> : b \in DOMAIN held \cap {<<g, i>>}}
  \cup {<<"group", h>> : h \in {k \in InUse : group[k].place = <<g, i>>}}
  \cup {<<"returned", 0>> : n \in {j \in {i} : ret = j /\ Head(List) = g}}
  \cup {<<"freeing", 0>> : n \in {j \in {i} : freeing = <<g, j>>}}

SlotsAccounted ==
  \A g \in InUse : \A i \in Slots(group[g]) : Cardinality(Uses(g, i)) = 1

(* No free memory is forgotten: a group with a free slot is on its class's *)
(* list, once, where try_avail finds it.                                   *)
FreeSlotsAreListed ==
  \A g \in InUse :
    LET list == ring[group[g].sc]
    IN Clear(group[g]) # {} => Cardinality({i \in DOMAIN list : list[i] = g}) = 1

(* Memory is not kept for nothing: once the program holds no block, what   *)
(* is left is one whole mapped group of a class at the most.               *)
EmptyHeapIsSmall ==
  Idle /\ held = <<>> =>
    \A g \in InUse :
      /\ group[g].place = Mapped /\ Clear(group[g]) = Slots(group[g])
      /\ ring[group[g].sc] = <<g>>

(* The numbers of unmappings are not ahead of seq, which wraps: a class's  *)
(* last unmapping is as long ago as account_bounce computes.               *)
SequenceKeepsOrder == \A i \in Counter : unmapSeq[i] <= seq

(* A call of alloc_slot for a group's memory is for a larger class, so it  *)
(* ends, and no list a caller works on changes below it.                   *)
NestingClimbs == \A i \in 1..Len(stack) - 1 : stack[i].sc < stack[i + 1].sc

(* Every block, with its in-band bytes, fits its slot; a group fits the    *)
(* slot or the pages it lies in.                                           *)
EverythingFits ==
  /\ \A b \in DOMAIN held : held[b] + IB <= Stride(group[b[1]])
  /\ \A g \in InUse :
       LET r == group[g]
           size == UNIT + (r.last + 1) * Stride(r)
       IN IF r.place = Mapped THEN size <= r.pages * PAGESIZE
          ELSE size <= Stride(group[r.place[1]])

(* Between any two steps of malloc, realloc and free the groups are well   *)
(* formed and fit where they lie, the counters of unmappings are in order, *)
(* and the recursion of alloc_slot and alloc_group climbs.                 *)
GroupsAreConsistent == TypeOK /\ EverythingFits /\ SequenceKeepsOrder /\ NestingClimbs

Nowhere == [root |-> 0, lo |-> 0, hi |-> 0]
Memory(b) ==
  IF b[1] \notin InUse THEN Nowhere
  ELSE LET r == group[b[1]]
           lo == r.mem.lo + b[2] * Stride(r)
       IN [root |-> r.mem.root, lo |-> lo, hi |-> lo + held[b]]

AbstractHeap == INSTANCE Heap WITH block <- [b \in DOMAIN held |-> Memory(b)]

(* The program's blocks are apart, stay in place, and appear and disappear *)
(* by its calls only: the allocator implements Heap.                       *)
ImplementsHeap == AbstractHeap!Spec

(* malloc returns 0 if mmap fails, as tests/test_malloc.c expects.         *)
OutOfMemoryIsReported == died # "fault"
=============================================================================
