---------------------------- MODULE Stdio_proofs ----------------------------
(***************************************************************************)
(* Proofs about standard output and the life of processes, for any number  *)
(* of processes and bytes, any capacity of the buffer and any number of    *)
(* writes that fail or are cut short.                                      *)
(***************************************************************************)
EXTENDS Stdio, SequenceTheorems, TLAPS

USE RootAssumption, BufAssumption, BoundAssumption

(* The entries of out on descriptor 1.                                     *)
Entries == DOMAIN out[STDOUT_FILENO]
Entry(i) == out[STDOUT_FILENO][i]
HasHeld(p) == at[p] \in {"store", "puts"}

(* A process inside a call is in main, and between the two system calls of *)
(* fputc and exit its buffer is empty.                                     *)
Places ==
  \A p \in Proc :
    /\ at[p] # "user" => life[p] = "main"
    /\ at[p] \in {"store", "exit"} => buf[p] = <<>>
    /\ HasHeld(p) => held[p] \in Token

(* What a call has in its hands has a number of its own; all numbers given *)
(* so far are below the next one.                                          *)
Numbered ==
  /\ \A i \in Entries : Entry(i).tok.id < token
  /\ \A p \in Proc : \A k \in DOMAIN buf[p] : buf[p][k].id < token
  /\ \A p \in Proc : HasHeld(p) =>
       /\ held[p].id < token
       /\ \A i \in Entries : Entry(i).tok.id # held[p].id
       /\ \A q \in Proc : \A k \in DOMAIN buf[q] : buf[q][k].id # held[p].id
       /\ \A q \in Proc : HasHeld(q) /\ held[q].id = held[p].id => q = p

(* A buffer is in order, and behind what its process has flushed.          *)
Ordered ==
  /\ \A p \in Proc : \A k, l \in DOMAIN buf[p] : k < l => buf[p][k].id < buf[p][l].id
  /\ \A i \in Entries : Entry(i).buffered =>
       /\ \A k \in DOMAIN buf[Entry(i).by] : Entry(i).tok.id < buf[Entry(i).by][k].id
       /\ at[Entry(i).by] = "store" => Entry(i).tok.id < held[Entry(i).by].id
  /\ \A i \in Entries : life[Entry(i).by] # "unborn"

(* A byte that is in two buffers, or shown and in a buffer, was copied by  *)
(* fork.                                                                   *)
Born(p, q) == Ids(inherited[p]) \cup Ids(inherited[q])
Copied ==
  /\ \A i \in Entries, p \in Proc : \A k \in DOMAIN buf[p] :
       Entry(i).tok.id = buf[p][k].id => Entry(i).by # p /\ Entry(i).tok.id \in Born(Entry(i).by, p)
  /\ \A p, q \in Proc : \A k \in DOMAIN buf[p], l \in DOMAIN buf[q] :
       p # q /\ buf[p][k].id = buf[q][l].id => buf[p][k].id \in Born(p, q)

IInv ==
  /\ TypeOK /\ Places /\ Numbered /\ Ordered /\ Copied
  /\ BufferedOrderKept /\ DuplicatesComeFromFork /\ NothingForgotten

-----------------------------------------------------------------------------
(* What one write adds to out: n bytes of toks, behind what was there.     *)
Added(p, fd, toks, b, n) ==
  /\ out' \in [Fd -> Seq(Shown)]
  /\ \A f \in Fd \ {fd} : out'[f] = out[f]
  /\ Len(out'[fd]) = Len(out[fd]) + n
  /\ \A i \in 1..Len(out[fd]) : out'[fd][i] = out[fd][i]
  /\ \A i \in 1..n : out'[fd][Len(out[fd]) + i] = [tok |-> toks[i], by |-> p, buffered |-> b]

(* One write adds at most the bytes it was given, and stays in the types.   *)
LEMMA WriteAdds ==
  ASSUME TypeOK, NEW p \in Proc, NEW fd \in Fd, NEW toks \in Seq(Token), NEW b \in BOOLEAN,
         NEW k, PalWrite(p, fd, toks, b, k)
  PROVE  \E n \in 0..Len(toks) :
           /\ Added(p, fd, toks, b, n)
           /\ faults' \in 0..MaxFault
           /\ n = IF k < 0 THEN 0 ELSE k
           /\ k \in -1..Len(toks)
<1> DEFINE n == IF k < 0 THEN 0 ELSE k
           new == [i \in 1..n |-> [tok |-> toks[i], by |-> p, buffered |-> b]]
<1>1. Len(toks) \in Nat /\ faults \in 0..MaxFault
  BY DEF TypeOK
<1>2. k \in -1..Len(toks) /\ (k # Len(toks) => faults < MaxFault)
  BY <1>1 DEF PalWrite, WriteResults
<1>3. n \in 0..Len(toks)
  BY <1>1, <1>2
<1>4. faults' \in 0..MaxFault
  BY <1>1, <1>2 DEF PalWrite
<1>5. new \in Seq(Shown) /\ Len(new) = n
  <2>1. \A i \in 1..n : toks[i] \in Token
    BY <1>3, <1>1, ElementOfSeq
  <2>2. \A i \in 1..n : new[i] \in Shown
    BY <2>1 DEF Shown
  <2> HIDE DEF n
  <2>3. new \in [1..n -> Shown]
    BY <2>2
  <2> QED BY <2>3, <1>3, <1>1
<1>6. out[fd] \in Seq(Shown) /\ out \in [Fd -> Seq(Shown)]
  BY DEF TypeOK
<1>7. out' = [out EXCEPT ![fd] = @ \o new]
  BY DEF PalWrite
<1> HIDE DEF new, n
<1>8. /\ out[fd] \o new \in Seq(Shown)
      /\ Len(out[fd] \o new) = Len(out[fd]) + n
      /\ \A i \in 1..Len(out[fd]) + n :
           (out[fd] \o new)[i] = IF i <= Len(out[fd]) THEN out[fd][i] ELSE new[i - Len(out[fd])]
  BY <1>5, <1>6, ConcatProperties
<1>9. Len(out[fd]) \in Nat
  BY <1>6
<1>10. \A i \in 1..n : new[i] = [tok |-> toks[i], by |-> p, buffered |-> b]
  BY DEF new
<1>11. out'[fd] = out[fd] \o new /\ \A f \in Fd \ {fd} : out'[f] = out[f]
  BY <1>6, <1>7
<1>12. out' \in [Fd -> Seq(Shown)]
  BY <1>6, <1>7, <1>8
<1>13. \A i \in 1..Len(out[fd]) : out'[fd][i] = out[fd][i]
  BY <1>8, <1>9, <1>11, <1>3, <1>1
<1>14. \A i \in 1..n : out'[fd][Len(out[fd]) + i] = [tok |-> toks[i], by |-> p, buffered |-> b]
  <2> TAKE i \in 1..n
  <2>1. Len(out[fd]) + i \in 1..Len(out[fd]) + n /\ ~(Len(out[fd]) + i <= Len(out[fd]))
        /\ Len(out[fd]) + i - Len(out[fd]) = i
    BY <1>9, <1>3, <1>1
  <2>2. out'[fd][Len(out[fd]) + i] = new[i]
    BY <2>1, <1>8, <1>11
  <2> QED BY <2>2, <1>10
<1>15. Added(p, fd, toks, b, n)
  BY <1>8, <1>11, <1>12, <1>13, <1>14 DEF Added
<1> QED BY <1>15, <1>4, <1>3, <1>2 DEF n

(* Flush shows a part of the buffer, records the rest as lost, and leaves  *)
(* nothing in it.                                                          *)
Flushed(p, n) ==
  /\ n \in 0..Len(buf[p])
  /\ Added(p, STDOUT_FILENO, buf[p], TRUE, n)
  /\ faults' \in 0..MaxFault
  /\ errno' \in [Proc -> {"0", "-1", "EIO"}]
  /\ buf' = [buf EXCEPT ![p] = <<>>]
  /\ lost' \in [Proc -> SUBSET Token]
  /\ \A q \in Proc : lost[q] \subseteq lost'[q]
  /\ \A i \in n + 1..Len(buf[p]) : buf[p][i] \in lost'[p]

(* Flush does what Flushed says, with an empty buffer and with a full one.  *)
LEMMA FlushIsFlushed ==
  ASSUME TypeOK, NEW p \in Proc, Flush(p)
  PROVE  \E n \in 0..Len(buf[p]) : Flushed(p, n)
<1>1. buf[p] \in Seq(Token) /\ buf \in [Proc -> Seq(Token)] /\ Len(buf[p]) \in Nat
  BY DEF TypeOK
<1>2. CASE buf[p] = <<>>
  <2>1. buf' = buf /\ errno' = errno /\ out' = out /\ faults' = faults /\ lost' = lost
    BY <1>1, <1>2 DEF Flush
  <2>2. Len(buf[p]) = 0
    BY <1>2
  <2>3. [buf EXCEPT ![p] = <<>>] = buf
    BY <1>1, <1>2
  <2>4. Len(out[STDOUT_FILENO]) \in Nat
    BY DEF TypeOK, Fd, STDOUT_FILENO
  <2>5. Added(p, STDOUT_FILENO, buf[p], TRUE, 0)
    BY <2>1, <2>4 DEF Added, TypeOK
  <2>6. faults' \in 0..MaxFault
    BY <2>1 DEF TypeOK
  <2>9. errno' \in [Proc -> {"0", "-1", "EIO"}]
    BY <2>1 DEF TypeOK
  <2>10. lost' \in [Proc -> SUBSET Token]
    BY <2>1 DEF TypeOK
  <2>8. \A q \in Proc : lost[q] \subseteq lost'[q]
    BY <2>1
  <2>11. /\ 0 \in 0..Len(buf[p])
         /\ \A i \in 0 + 1..Len(buf[p]) : buf[p][i] \in lost'[p]
    BY <2>2
  <2>12. buf' = [buf EXCEPT ![p] = <<>>]
    BY <2>1, <2>3
  <2>7. Flushed(p, 0)
    BY <2>5, <2>6, <2>8, <2>9, <2>10, <2>11, <2>12 DEF Flushed
  <2> QED BY <2>2, <2>7
<1>3. CASE buf[p] # <<>>
  <2>1. PICK k \in WriteResults(Len(buf[p])) :
          /\ PalWrite(p, STDOUT_FILENO, buf[p], TRUE, k)
          /\ errno' = IF k < 0 THEN [errno EXCEPT ![p] = "-1"] ELSE errno
          /\ lost' = [lost EXCEPT ![p] =
                        @ \cup {buf[p][i] : i \in (IF k < 0 THEN 1 ELSE k + 1)..Len(buf[p])}]
    BY <1>3 DEF Flush
  <2>2. PICK n \in 0..Len(buf[p]) :
           /\ Added(p, STDOUT_FILENO, buf[p], TRUE, n)
           /\ faults' \in 0..MaxFault
           /\ n = IF k < 0 THEN 0 ELSE k
           /\ k \in -1..Len(buf[p])
    BY <1>1, <2>1, WriteAdds DEF Fd, STDOUT_FILENO
  <2>3. (IF k < 0 THEN 1 ELSE k + 1) = n + 1
    BY <2>2
  <2>4. lost' = [lost EXCEPT ![p] = @ \cup {buf[p][i] : i \in n + 1..Len(buf[p])}]
    BY <2>1, <2>3
  <2>5. {buf[p][i] : i \in n + 1..Len(buf[p])} \subseteq Token
    BY <1>1, <2>2, ElementOfSeq
  <2>6. /\ lost' \in [Proc -> SUBSET Token]
        /\ \A q \in Proc : lost[q] \subseteq lost'[q]
        /\ \A i \in n + 1..Len(buf[p]) : buf[p][i] \in lost'[p]
    BY <2>4, <2>5 DEF TypeOK
  <2>7. errno' \in [Proc -> {"0", "-1", "EIO"}]
    BY <2>1 DEF TypeOK
  <2>8. buf' = [buf EXCEPT ![p] = <<>>]
    BY <1>3 DEF Flush
  <2> QED BY <2>2, <2>6, <2>7, <2>8 DEF Flushed
<1> QED BY <1>2, <1>3

-----------------------------------------------------------------------------
(* Every step is of one of five kinds.  A process writes bytes that are in *)
(* nobody's buffer;                                                        *)
Elsewhere(p) == \A q \in Proc \ {p} : at'[q] = at[q] /\ held'[q] = held[q]
IsNew(x) == token <= x /\ x < token'

EmitsBytes(p, fd, toks, n) ==
  /\ n \in 0..Len(toks)
  /\ Added(p, fd, toks, FALSE, n)
  /\ \A i \in 1..n : IsNew(toks[i].id) \/ (at[p] = "puts" /\ toks[i].id = held[p].id)
  /\ \A i, j \in 1..n : toks[i].id = toks[j].id => i = j
  /\ at'[p] = "puts" => IsNew(held'[p].id) /\ \A i \in 1..n : toks[i].id # held'[p].id

Emits(p) ==
  /\ \E fd \in Fd, toks \in Seq(Token), n \in Nat : EmitsBytes(p, fd, toks, n)
  /\ UNCHANGED <<life, buf, accepted, inherited, lost>>
  /\ life[p] = "main" /\ token <= token'
  /\ Elsewhere(p) /\ at'[p] # "store"

(* stores a byte in its buffer;                                            *)
Stores(p) ==
  \E tok \in Token :
    /\ buf' = [buf EXCEPT ![p] = Append(@, tok)]
    /\ accepted' = [accepted EXCEPT ![p] = Append(@, tok)]
    /\ IsNew(tok.id) \/ (at[p] = "store" /\ tok = held[p])
    /\ UNCHANGED <<life, out, inherited, lost>>
    /\ life[p] = "main" /\ token <= token'
    /\ Elsewhere(p) /\ at'[p] \in {"newline", "user"}

(* flushes its buffer;                                                     *)
Flushes(p) ==
  \E n \in 0..Len(buf[p]) :
    /\ Flushed(p, n)
    /\ UNCHANGED <<life, accepted, inherited>>
    /\ life[p] = "main" /\ token <= token'
    /\ Elsewhere(p) /\ at'[p] # "puts"
    /\ at'[p] = "store" => IsNew(held'[p].id)

(* forks; or goes on, or ends, without writing anything.                   *)
Turns(p) ==
  /\ UNCHANGED <<held, buf, out, token, accepted, inherited, lost>>
  /\ \A q \in Proc \ {p} : at'[q] = at[q] /\ life'[q] = life[q]
  /\ at'[p] \in {at[p], "user"}
  /\ life[p] # "unborn" /\ life'[p] # "unborn"
  /\ life'[p] \in Running \cup {"exit"} => life[p] \in Running
  /\ life'[p] = "exit" => buf[p] = <<>>

Kinds(p) == Emits(p) \/ Stores(p) \/ Flushes(p) \/ (\E q \in Proc : Fork(p, q)) \/ Turns(p)

(* Bytes a call puts are tokens, numbered from the next number on.          *)
LEMMA NewBytesAreTokens ==
  ASSUME TypeOK, NEW n \in Nat, NEW fd \in Fd, token + n <= MaxToken + 1
  PROVE  /\ NewBytes(n, fd) \in Seq(Token)
         /\ Len(NewBytes(n, fd)) = n
         /\ \A i \in 1..n : NewBytes(n, fd)[i].id = token + i - 1
<1>1. token \in 1..MaxToken + 1
  BY DEF TypeOK
<1>2. \A i \in 1..n : [id |-> token + i - 1, nl |-> FALSE, fd |-> fd] \in Token
  BY <1>1 DEF Token
<1>3. NewBytes(n, fd) \in [1..n -> Token]
  BY <1>2 DEF NewBytes
<1> QED BY <1>3 DEF NewBytes

(* A write of n new bytes from the program's own code that touches nothing *)
(* but out and the counters: fputs, printf, fputc to stderr.  m bytes were *)
(* put, the last m - n of them were cut off.                               *)
PlainWrite(p, fd, n, m) ==
  /\ InUserCode(p)
  /\ n <= m /\ token + m <= MaxToken + 1 /\ token' = token + m
  /\ \E k \in WriteResults(n) : PalWrite(p, fd, NewBytes(n, fd), FALSE, k)
  /\ UNCHANGED <<life, at, held, buf, errno, history>>

(* A plain write keeps types and places and is a step that emits.           *)
LEMMA PlainWriteStep ==
  ASSUME TypeOK, Places, NEW p \in Proc, NEW fd \in Fd, NEW n \in Nat, NEW m \in Nat,
         PlainWrite(p, fd, n, m)
  PROVE  TypeOK' /\ Places' /\ Kinds(p)
<1>1. token \in 1..MaxToken + 1 /\ MaxToken \in Nat
      /\ n <= m /\ token + m <= MaxToken + 1 /\ token' = token + m /\ InUserCode(p)
  BY DEF TypeOK, PlainWrite
<1>2. /\ NewBytes(n, fd) \in Seq(Token)
      /\ Len(NewBytes(n, fd)) = n
      /\ \A i \in 1..n : NewBytes(n, fd)[i].id = token + i - 1
  <2>1. token + n <= MaxToken + 1
    BY <1>1
  <2> QED BY <2>1, NewBytesAreTokens
<1>3. PICK w \in 0..n : Added(p, fd, NewBytes(n, fd), FALSE, w) /\ faults' \in 0..MaxFault
  <2>1. PICK k \in WriteResults(n) : PalWrite(p, fd, NewBytes(n, fd), FALSE, k)
    BY DEF PlainWrite
  <2> QED BY <1>2, <2>1, WriteAdds
<1>4. UNCHANGED <<life, at, held, buf, errno, accepted, inherited, lost>>
  BY DEF history, PlainWrite
<1>5. TypeOK'
  <2>1. token' \in 1..MaxToken + 1
    BY <1>1
  <2>2. out' \in [Fd -> Seq(Shown)]
    BY <1>3 DEF Added
  <2> QED BY <1>3, <1>4, <2>1, <2>2 DEF TypeOK
<1>6. Places'
  BY <1>4 DEF Places, HasHeld
<1>7. Emits(p)
  <2>1. \A i \in 1..w : IsNew(NewBytes(n, fd)[i].id)
    <3>1. \A i \in 1..w : i \in 1..n /\ token <= token + i - 1 /\ token + i - 1 < token'
      BY <1>1
    <3> QED BY <1>2, <3>1 DEF IsNew
  <2>2. \A i, j \in 1..w : NewBytes(n, fd)[i].id = NewBytes(n, fd)[j].id => i = j
    BY <1>1, <1>2, <1>3
  <2>3. life[p] = "main" /\ token <= token' /\ at'[p] = "user" /\ Elsewhere(p)
    BY <1>1, <1>4 DEF InUserCode, Elsewhere
  <2>4. EmitsBytes(p, fd, NewBytes(n, fd), w)
    BY <1>2, <1>3, <2>1, <2>2, <2>3 DEF EmitsBytes
  <2> QED BY <1>2, <1>3, <1>4, <2>3, <2>4 DEF Emits
<1> QED BY <1>5, <1>6, <1>7 DEF Kinds

(* fputc to stderr, fputs, printf and fprintf are plain writes.             *)
LEMMA WritesAtOnce ==
  ASSUME TypeOK, Places, NEW p \in Proc,
         \/ FputcStderr(p)
         \/ \E fd \in {STDOUT_FILENO, FileFd}, n \in 1..2 : Fputs(p, fd, n)
         \/ \E fd \in {STDOUT_FILENO, STDERR_FILENO}, n \in 1..2 : Printf(p, fd, n)
  PROVE  TypeOK' /\ Places' /\ Kinds(p)
<1>1. token \in 1..MaxToken + 1 /\ MaxToken \in Nat
  BY DEF TypeOK
<1>2. STDOUT_FILENO \in Fd /\ STDERR_FILENO \in Fd /\ FileFd \in Fd
  BY DEF Fd
<1>3. CASE FputcStderr(p)
  <2>1. PlainWrite(p, STDERR_FILENO, 1, 1)
    <3>1. 1 <= 1 /\ (token <= MaxToken => token + 1 <= MaxToken + 1)
      BY <1>1
    <3> QED BY <1>3, <3>1, Zenon DEF FputcStderr, PlainWrite
  <2> QED BY <1>2, <2>1, PlainWriteStep
<1>4. ASSUME NEW fd \in {STDOUT_FILENO, FileFd}, NEW n \in 1..2, Fputs(p, fd, n)
      PROVE  TypeOK' /\ Places' /\ Kinds(p)
  <2>1. PlainWrite(p, fd, n, n)
    <3>1. n <= n
      OBVIOUS
    <3> QED BY <1>4, <3>1, Zenon DEF Fputs, PlainWrite
  <2> QED BY <1>2, <2>1, PlainWriteStep
<1>5. ASSUME NEW fd \in {STDOUT_FILENO, STDERR_FILENO}, NEW n \in 1..2, Printf(p, fd, n)
      PROVE  TypeOK' /\ Places' /\ Kinds(p)
  <2> DEFINE kept == IF n < PRINTF_BUF THEN n ELSE PRINTF_BUF - 1
  <2>1. kept \in Nat /\ kept <= n
    OBVIOUS
  <2>2. PlainWrite(p, fd, kept, n)
    BY <1>5, <2>1, Zenon DEF Printf, PlainWrite
  <2> HIDE DEF kept
  <2> QED BY <1>2, <2>1, <2>2, PlainWriteStep
<1> QED BY <1>3, <1>4, <1>5

(* Flush followed by what its callers set: at, held and token.             *)
LEMMA FlushStep ==
  ASSUME TypeOK, Places, NEW p \in Proc, Flush(p), life[p] = "main",
         UNCHANGED <<life, accepted, inherited>>,
         NEW a \in {"user", "store", "exit"}, at' = [at EXCEPT ![p] = a],
         NEW h \in Token \cup {NoToken}, held' = [held EXCEPT ![p] = h],
         token' \in 1..MaxToken + 1, token <= token',
         a = "store" => h \in Token /\ IsNew(h.id)
  PROVE  TypeOK' /\ Places' /\ Kinds(p)
<1>1. PICK n \in 0..Len(buf[p]) : Flushed(p, n)
  BY FlushIsFlushed
<1>2. UNCHANGED life /\ UNCHANGED accepted /\ UNCHANGED inherited
  OBVIOUS
<1>3. at'[p] = a /\ held'[p] = h /\ Elsewhere(p)
  BY DEF TypeOK, Elsewhere
<1>4. at' \in [Proc -> {"user", "store", "newline", "puts", "exit"}]
      /\ held' \in [Proc -> Token \cup {NoToken}]
  BY DEF TypeOK
<1>5. TypeOK'
  <2>1. out' \in [Fd -> Seq(Shown)]
    BY <1>1 DEF Flushed, Added
  <2>2. buf' \in [Proc -> Seq(Token)] /\ \A q \in Proc : Len(buf'[q]) <= BUF_SIZE
    <3>1. buf' = [buf EXCEPT ![p] = <<>>]
      BY <1>1 DEF Flushed
    <3>2. buf \in [Proc -> Seq(Token)] /\ \A q \in Proc : Len(buf[q]) <= BUF_SIZE
      BY DEF TypeOK
    <3>3. <<>> \in Seq(Token) /\ Len(<<>>) <= BUF_SIZE
      OBVIOUS
    <3> QED BY <3>1, <3>2, <3>3
  <2>3. life' \in [Proc -> Life] /\ accepted' \in [Proc -> Seq(Token)]
        /\ inherited' \in [Proc -> Seq(Token)]
    BY <1>2 DEF TypeOK
  <2>4. /\ lost' \in [Proc -> SUBSET Token]
        /\ errno' \in [Proc -> {"0", "-1", "EIO"}]
        /\ faults' \in 0..MaxFault
    BY <1>1 DEF Flushed
  <2> QED BY <1>4, <2>1, <2>2, <2>3, <2>4 DEF TypeOK
<1>6. Places'
  <2>1. buf'[p] = <<>> /\ \A q \in Proc \ {p} : buf'[q] = buf[q]
    BY <1>1 DEF Flushed, TypeOK
  <2> QED BY <1>2, <1>3, <2>1 DEF Places, HasHeld, Elsewhere
<1>7. Flushes(p)
  BY <1>1, <1>2, <1>3 DEF Flushes
<1> QED BY <1>5, <1>6, <1>7 DEF Kinds

(* Store followed by what its callers set.                                 *)
LEMMA StoreStep ==
  ASSUME TypeOK, Places, NEW p \in Proc, NEW tok \in Token, Store(p, tok), life[p] = "main",
         Len(buf[p]) < BUF_SIZE,
         UNCHANGED <<life, errno, out, faults, inherited, lost>>,
         held' \in [Proc -> Token \cup {NoToken}], \A q \in Proc \ {p} : held'[q] = held[q],
         token' \in 1..MaxToken + 1, token <= token',
         IsNew(tok.id) \/ (at[p] = "store" /\ tok = held[p])
  PROVE  TypeOK' /\ Places' /\ Kinds(p)
<1>1. UNCHANGED life /\ UNCHANGED errno /\ UNCHANGED out /\ UNCHANGED faults
      /\ UNCHANGED inherited /\ UNCHANGED lost
  OBVIOUS
<1>2. /\ buf' = [buf EXCEPT ![p] = Append(@, tok)]
      /\ accepted' = [accepted EXCEPT ![p] = Append(@, tok)]
      /\ at' = [at EXCEPT ![p] = IF tok.nl THEN "newline" ELSE "user"]
  BY DEF Store
<1>3. at'[p] \in {"newline", "user"} /\ \A q \in Proc \ {p} : at'[q] = at[q]
  BY <1>2 DEF TypeOK
<1>4. buf'[p] = Append(buf[p], tok) /\ \A q \in Proc \ {p} : buf'[q] = buf[q]
  BY <1>2 DEF TypeOK
<1>5. TypeOK'
  <2>1. buf' \in [Proc -> Seq(Token)]
    <3>1. Append(buf[p], tok) \in Seq(Token) /\ buf \in [Proc -> Seq(Token)]
      BY AppendProperties DEF TypeOK
    <3> QED BY <1>2, <3>1
  <2>2. accepted' \in [Proc -> Seq(Token)]
    <3>1. Append(accepted[p], tok) \in Seq(Token) /\ accepted \in [Proc -> Seq(Token)]
      BY AppendProperties DEF TypeOK
    <3> QED BY <1>2, <3>1
  <2>3. \A q \in Proc : Len(buf'[q]) <= BUF_SIZE
    <3>1. Len(Append(buf[p], tok)) = Len(buf[p]) + 1 /\ Len(buf[p]) \in Nat
      BY AppendProperties DEF TypeOK
    <3>2. Len(buf'[p]) <= BUF_SIZE
      BY <1>4, <3>1
    <3> QED BY <1>4, <3>2 DEF TypeOK
  <2>4. at' \in [Proc -> {"user", "store", "newline", "puts", "exit"}]
    BY <1>2 DEF TypeOK
  <2> QED BY <1>1, <2>1, <2>2, <2>3, <2>4 DEF TypeOK
<1>6. Places'
  BY <1>1, <1>3, <1>4 DEF Places, HasHeld
<1>7. Stores(p)
  <2>1. Elsewhere(p)
    BY <1>3 DEF Elsewhere
  <2> QED BY <1>1, <1>2, <1>3, <2>1 DEF Stores
<1> QED BY <1>5, <1>6, <1>7 DEF Kinds

(* The steps of fputc: the flush of a full buffer or the store, the store   *)
(* after the flush, and the flush after a newline.                          *)
LEMMA FputcSteps ==
  ASSUME TypeOK, Places, NEW p \in Proc,
         \/ \E fd \in {STDOUT_FILENO, FileFd}, nl \in BOOLEAN : Fputc(p, fd, nl)
         \/ FputcStore(p)
         \/ FputcNewline(p)
  PROVE  TypeOK' /\ Places' /\ Kinds(p)
<1>1. token \in 1..MaxToken + 1 /\ buf[p] \in Seq(Token) /\ Len(buf[p]) \in Nat
      /\ held \in [Proc -> Token \cup {NoToken}]
      /\ at \in [Proc -> {"user", "store", "newline", "puts", "exit"}]
      /\ accepted \in [Proc -> Seq(Token)]
  BY DEF TypeOK
<1>2. ASSUME NEW fd \in {STDOUT_FILENO, FileFd}, NEW nl \in BOOLEAN, Fputc(p, fd, nl)
      PROVE  TypeOK' /\ Places' /\ Kinds(p)
  <2> DEFINE tok == [id |-> token, nl |-> nl, fd |-> fd]
  <2>1. life[p] = "main" /\ token <= MaxToken /\ token' = token + 1
        /\ UNCHANGED life /\ UNCHANGED inherited
    BY <1>2 DEF Fputc, InUserCode
  <2>2. tok \in Token /\ IsNew(tok.id)
    <3>1. fd \in Fd /\ token \in 1..MaxToken
      BY <1>1, <2>1 DEF Fd
    <3> QED BY <1>1, <2>1, <3>1 DEF Token, IsNew
  <2>3. token' \in 1..MaxToken + 1 /\ token <= token'
    BY <1>1, <2>1
  <2>4. CASE BufferFull(p)
    <3>1. /\ Flush(p)
          /\ at' = [at EXCEPT ![p] = "store"]
          /\ held' = [held EXCEPT ![p] = tok]
          /\ UNCHANGED accepted
      BY <1>2, <2>4 DEF Fputc
    <3> HIDE DEF tok
    <3> QED BY <2>1, <2>2, <2>3, <3>1, FlushStep
  <2>5. CASE ~BufferFull(p)
    <3>1. /\ Store(p, tok)
          /\ UNCHANGED <<held, errno, out, faults, lost>>
      BY <1>2, <2>5 DEF Fputc
    <3>2. Len(buf[p]) < BUF_SIZE
      BY <1>1, <2>5 DEF BufferFull
    <3>3. UNCHANGED <<life, errno, out, faults, inherited, lost>> /\ held' = held
      BY <2>1, <3>1
    <3> HIDE DEF tok
    <3> QED BY <1>1, <2>1, <2>2, <2>3, <3>1, <3>2, <3>3, StoreStep
  <2> QED BY <2>4, <2>5
<1>3. CASE FputcStore(p)
  <2>1. at[p] = "store" /\ Store(p, held[p]) /\ held' = [held EXCEPT ![p] = NoToken]
        /\ UNCHANGED <<life, errno, out, faults, inherited, lost>> /\ token' = token
    BY <1>3 DEF FputcStore
  <2>2. life[p] = "main" /\ buf[p] = <<>> /\ held[p] \in Token
    BY <2>1 DEF Places, HasHeld
  <2>3. Len(buf[p]) < BUF_SIZE
    BY <2>2
  <2>4. held' \in [Proc -> Token \cup {NoToken}] /\ \A q \in Proc \ {p} : held'[q] = held[q]
    BY <1>1, <2>1
  <2>5. token' \in 1..MaxToken + 1 /\ token <= token'
    BY <1>1, <2>1
  <2> QED BY <2>1, <2>2, <2>3, <2>4, <2>5, StoreStep
<1>4. CASE FputcNewline(p)
  <2>1. at[p] = "newline" /\ Flush(p) /\ at' = [at EXCEPT ![p] = "user"]
        /\ UNCHANGED <<life, accepted, inherited>> /\ token' = token /\ held' = held
    BY <1>4 DEF FputcNewline
  <2>2. life[p] = "main"
    BY <2>1 DEF Places
  <2>3. held' = [held EXCEPT ![p] = held[p]] /\ held[p] \in Token \cup {NoToken}
    BY <1>1, <2>1
  <2>4. token' \in 1..MaxToken + 1 /\ token <= token'
    BY <1>1, <2>1
  <2> QED BY <2>1, <2>2, <2>3, <2>4, FlushStep
<1> QED BY <1>2, <1>3, <1>4

(* fflush and exit flush from the program's own code.                       *)
LEMMA FflushAndExit ==
  ASSUME TypeOK, Places, NEW p \in Proc, Fflush(p) \/ Exit(p)
  PROVE  TypeOK' /\ Places' /\ Kinds(p)
<1>1. at \in [Proc -> {"user", "store", "newline", "puts", "exit"}]
      /\ held \in [Proc -> Token \cup {NoToken}] /\ token \in 1..MaxToken + 1
  BY DEF TypeOK
<1>2. life[p] = "main" /\ at[p] = "user" /\ Flush(p) /\ UNCHANGED <<life, accepted, inherited>>
      /\ token' = token /\ held' = held
  BY DEF Fflush, Exit, InUserCode
<1>3. held' = [held EXCEPT ![p] = held[p]] /\ held[p] \in Token \cup {NoToken}
  BY <1>1, <1>2
<1>4. token' \in 1..MaxToken + 1 /\ token <= token'
  BY <1>1, <1>2
<1>5. PICK a \in {"user", "exit"} : at' = [at EXCEPT ![p] = a]
  BY <1>1, <1>2 DEF Fflush, Exit
<1> QED BY <1>2, <1>3, <1>4, <1>5, FlushStep

(* pal_exit, the returns of __libc_start_main, abort and execve write        *)
(* nothing; the only way to "exit" is from an emptied buffer.               *)
LEMMA LifeSteps ==
  ASSUME TypeOK, Places, NEW p \in Proc, PalExit(p) \/ Return(p) \/ Abort(p) \/ Execve(p)
  PROVE  TypeOK' /\ Places' /\ Kinds(p)
<1>1. /\ life \in [Proc -> Life]
      /\ at \in [Proc -> {"user", "store", "newline", "puts", "exit"}]
  BY DEF TypeOK
<1>2. UNCHANGED <<held, buf, errno, out, token, faults, accepted, inherited, lost>>
  BY DEF PalExit, Return, Abort, Execve, history
<1>3. \E l \in Life \ {"unborn", "init"} :
        /\ life' = [life EXCEPT ![p] = l]
        /\ l \in Running \cup {"exit"} => life[p] \in Running
        /\ l = "exit" => buf[p] = <<>>
  <2>1. CASE PalExit(p)
    BY <2>1 DEF PalExit, Places, Life, Running, Ended
  <2>2. CASE Return(p)
    <3>1. /\ life[p] \in Running
          /\ life' = [life EXCEPT ![p] = CASE @ = "init" -> "main"
                                           [] @ = "main" -> "fini"
                                           [] @ = "fini" -> "return"]
      BY <2>2 DEF Return
    <3>2. CASE life[p] = "init"
      <4>1. life' = [life EXCEPT ![p] = "main"]
        BY <1>1, <3>1, <3>2
      <4> QED BY <3>1, <4>1 DEF Life, Running, Ended
    <3>3. CASE life[p] = "main"
      <4>1. life' = [life EXCEPT ![p] = "fini"]
        BY <1>1, <3>1, <3>3
      <4> QED BY <3>1, <4>1 DEF Life, Running, Ended
    <3>4. CASE life[p] = "fini"
      <4>1. life' = [life EXCEPT ![p] = "return"]
        BY <1>1, <3>1, <3>4
      <4> QED BY <3>1, <4>1 DEF Life, Running, Ended
    <3> QED BY <3>1, <3>2, <3>3, <3>4 DEF Running
  <2>3. CASE Abort(p)
    <3>1. life' = [life EXCEPT ![p] = "abort"]
      BY <2>3 DEF Abort
    <3>2. "abort" \in Life \ {"unborn", "init"} /\ "abort" \notin Running \cup {"exit"}
      BY DEF Life, Running, Ended
    <3> QED BY <3>1, <3>2
  <2>4. CASE Execve(p)
    <3>1. life' = [life EXCEPT ![p] = "exec"]
      BY <2>4 DEF Execve
    <3>2. "exec" \in Life \ {"unborn", "init"} /\ "exec" \notin Running \cup {"exit"}
      BY DEF Life, Running, Ended
    <3> QED BY <3>1, <3>2
  <2> QED BY <2>1, <2>2, <2>3, <2>4
<1>4. at'[p] = "user" /\ \A q \in Proc \ {p} : at'[q] = at[q]
  <2>1. CASE PalExit(p)
    BY <1>1, <2>1 DEF PalExit
  <2>2. CASE Return(p) \/ Abort(p) \/ Execve(p)
    BY <2>2 DEF Return, Abort, Execve, InUserCode
  <2> QED BY <2>1, <2>2
<1>5. at' \in [Proc -> {"user", "store", "newline", "puts", "exit"}]
  BY <1>1 DEF PalExit, Return, Abort, Execve
<1>6. life' \in [Proc -> Life] /\ \A q \in Proc \ {p} : life'[q] = life[q]
  BY <1>1, <1>3
<1>7. life[p] # "unborn" /\ life'[p] # "unborn"
  <2>1. life[p] # "unborn"
    BY DEF PalExit, Return, Abort, Execve, InUserCode, Places, Running
  <2> QED BY <1>1, <1>3, <2>1
<1>8. TypeOK'
  BY <1>2, <1>5, <1>6 DEF TypeOK
<1>9. Places'
  BY <1>2, <1>4, <1>6 DEF Places, HasHeld
<1>10. Turns(p)
  <2>1. /\ life'[p] \in Running \cup {"exit"} => life[p] \in Running
        /\ life'[p] = "exit" => buf[p] = <<>>
    BY <1>1, <1>3
  <2> QED BY <1>2, <1>4, <1>6, <1>7, <2>1 DEF Turns
<1> QED BY <1>8, <1>9, <1>10 DEF Kinds

(* puts writes new bytes and keeps its newline in hand; PutsNewline writes  *)
(* what was in hand.                                                        *)
LEMMA PutsSteps ==
  ASSUME TypeOK, Places, NEW p \in Proc, Puts(p) \/ PutsNewline(p)
  PROVE  TypeOK' /\ Places' /\ Kinds(p)
<1>1. /\ token \in 1..MaxToken + 1
      /\ at \in [Proc -> {"user", "store", "newline", "puts", "exit"}]
      /\ held \in [Proc -> Token \cup {NoToken}]
      /\ errno \in [Proc -> {"0", "-1", "EIO"}]
  BY DEF TypeOK
<1>2. STDOUT_FILENO \in Fd
  BY DEF Fd
<1>3. UNCHANGED <<life, buf, accepted, inherited, lost>>
  BY DEF Puts, PutsNewline, history
<1>4. errno' \in [Proc -> {"0", "-1", "EIO"}]
  BY <1>1 DEF Puts, PutsNewline
<1>5. CASE Puts(p)
  <2> DEFINE new == NewBytes(1, STDOUT_FILENO)
             next == [id |-> token + 1, nl |-> TRUE, fd |-> STDOUT_FILENO]
  <2>1. /\ InUserCode(p) /\ token < MaxToken /\ token' = token + 2
        /\ at' = [at EXCEPT ![p] = "puts"] /\ held' = [held EXCEPT ![p] = next]
        /\ \E k \in WriteResults(1) : PalWrite(p, STDOUT_FILENO, new, FALSE, k)
    BY <1>5 DEF Puts
  <2>2. token + 1 <= MaxToken + 1
    BY <1>1, <2>1
  <2>3. new \in Seq(Token) /\ Len(new) = 1 /\ new[1].id = token
    <3>1. /\ new \in Seq(Token) /\ Len(new) = 1
          /\ \A i \in 1..1 : new[i].id = token + i - 1
      BY <1>2, <2>2, NewBytesAreTokens
    <3> QED BY <1>1, <3>1
  <2>4. next \in Token
    BY <1>1, <1>2, <2>1 DEF Token
  <2> HIDE DEF new
  <2>5. PICK n \in 0..1 : Added(p, STDOUT_FILENO, new, FALSE, n) /\ faults' \in 0..MaxFault
    BY <1>2, <2>1, <2>3, WriteAdds
  <2>6. /\ at'[p] = "puts" /\ held'[p] = next
        /\ \A q \in Proc \ {p} : at'[q] = at[q] /\ held'[q] = held[q]
    BY <1>1, <2>1
  <2>7. IsNew(token) /\ IsNew(token + 1) /\ token # token + 1 /\ token <= token'
    BY <1>1, <2>1 DEF IsNew
  <2>8. TypeOK'
    <3>1. /\ at' \in [Proc -> {"user", "store", "newline", "puts", "exit"}]
          /\ held' \in [Proc -> Token \cup {NoToken}]
      BY <1>1, <2>1, <2>4
    <3>2. token' \in 1..MaxToken + 1
      BY <1>1, <2>1
    <3>3. out' \in [Fd -> Seq(Shown)]
      BY <2>5 DEF Added
    <3> QED BY <1>3, <1>4, <2>5, <3>1, <3>2, <3>3 DEF TypeOK
  <2>9. Places'
    BY <1>3, <2>1, <2>4, <2>6 DEF Places, HasHeld, InUserCode
  <2>10. Emits(p)
    <3>1. \A i \in 1..n : i = 1 /\ new[i].id = token
      BY <2>3
    <3>2. \A i \in 1..n : IsNew(new[i].id) /\ new[i].id # held'[p].id
      BY <2>6, <2>7, <3>1
    <3>3. \A i, j \in 1..n : new[i].id = new[j].id => i = j
      BY <3>1
    <3>4. Elsewhere(p) /\ life[p] = "main" /\ IsNew(held'[p].id)
      BY <2>1, <2>6, <2>7 DEF Elsewhere, InUserCode
    <3>5. EmitsBytes(p, STDOUT_FILENO, new, n)
      BY <2>3, <2>5, <3>2, <3>3, <3>4 DEF EmitsBytes
    <3> QED BY <1>2, <1>3, <2>3, <2>5, <2>6, <2>7, <3>4, <3>5 DEF Emits
  <2> QED BY <2>8, <2>9, <2>10 DEF Kinds
<1>6. CASE PutsNewline(p)
  <2> DEFINE new == <<held[p]>>
  <2>1. /\ at[p] = "puts" /\ token' = token
        /\ at' = [at EXCEPT ![p] = "user"] /\ held' = [held EXCEPT ![p] = NoToken]
        /\ \E k \in WriteResults(1) : PalWrite(p, STDOUT_FILENO, new, FALSE, k)
    BY <1>6 DEF PutsNewline
  <2>2. life[p] = "main" /\ held[p] \in Token
    BY <2>1 DEF Places, HasHeld
  <2>3. new \in Seq(Token) /\ Len(new) = 1 /\ new[1] = held[p]
    BY <2>2
  <2> HIDE DEF new
  <2>5. PICK n \in 0..1 : Added(p, STDOUT_FILENO, new, FALSE, n) /\ faults' \in 0..MaxFault
    BY <1>2, <2>1, <2>3, WriteAdds
  <2>6. /\ at'[p] = "user"
        /\ \A q \in Proc \ {p} : at'[q] = at[q] /\ held'[q] = held[q]
    BY <1>1, <2>1
  <2>8. TypeOK'
    <3>1. /\ at' \in [Proc -> {"user", "store", "newline", "puts", "exit"}]
          /\ held' \in [Proc -> Token \cup {NoToken}]
      BY <1>1, <2>1
    <3>2. token' \in 1..MaxToken + 1
      BY <1>1, <2>1
    <3>3. out' \in [Fd -> Seq(Shown)]
      BY <2>5 DEF Added
    <3> QED BY <1>3, <1>4, <2>5, <3>1, <3>2, <3>3 DEF TypeOK
  <2>9. Places'
    BY <1>3, <2>6 DEF Places, HasHeld
  <2>10. Emits(p)
    <3>1. \A i \in 1..n : i = 1 /\ new[i].id = held[p].id
      BY <2>3
    <3>3. \A i, j \in 1..n : new[i].id = new[j].id => i = j
      BY <3>1
    <3>4. Elsewhere(p) /\ token <= token'
      BY <1>1, <2>1, <2>6 DEF Elsewhere
    <3>5. EmitsBytes(p, STDOUT_FILENO, new, n)
      BY <2>1, <2>3, <2>5, <2>6, <3>1, <3>3 DEF EmitsBytes
    <3> QED BY <1>2, <1>3, <2>2, <2>3, <2>5, <2>6, <3>4, <3>5 DEF Emits
  <2> QED BY <2>8, <2>9, <2>10 DEF Kinds
<1> QED BY <1>5, <1>6

(* fork copies from a process in main to one that was not born.            *)
LEMMA ForkCopies ==
  ASSUME TypeOK, Places, NEW p \in Proc, NEW q \in Proc, Fork(p, q)
  PROVE  /\ p # q /\ life[p] = "main" /\ life[q] = "unborn" /\ life'[q] = "main" /\ ~HasHeld(q)
         /\ buf'[q] = buf[p] /\ accepted'[q] = accepted[p] /\ inherited'[q] = buf[p]
         /\ lost'[q] = lost[p]
         /\ \A r \in Proc \ {q} : /\ life'[r] = life[r] /\ buf'[r] = buf[r]
                                  /\ accepted'[r] = accepted[r] /\ inherited'[r] = inherited[r]
                                  /\ lost'[r] = lost[r]
         /\ UNCHANGED at /\ UNCHANGED held /\ UNCHANGED out /\ UNCHANGED token
<1>1. life[p] = "main" /\ life[q] = "unborn"
  BY DEF Fork, InUserCode
<1>2. at[q] = "user"
  BY <1>1 DEF Places
<1>3. UNCHANGED at /\ UNCHANGED held /\ UNCHANGED out /\ UNCHANGED token
  BY DEF Fork
<1>4. life'[q] = "main" /\ \A r \in Proc \ {q} : life'[r] = life[r]
  BY <1>1 DEF Fork, TypeOK
<1>5. buf'[q] = buf[p] /\ \A r \in Proc \ {q} : buf'[r] = buf[r]
  BY DEF Fork, TypeOK
<1>6. accepted'[q] = accepted[p] /\ \A r \in Proc \ {q} : accepted'[r] = accepted[r]
  BY DEF Fork, TypeOK
<1>7. inherited'[q] = buf[p] /\ \A r \in Proc \ {q} : inherited'[r] = inherited[r]
  BY DEF Fork, TypeOK
<1>8. lost'[q] = lost[p] /\ \A r \in Proc \ {q} : lost'[r] = lost[r]
  BY DEF Fork, TypeOK
<1> QED BY <1>1, <1>2, <1>3, <1>4, <1>5, <1>6, <1>7, <1>8 DEF HasHeld

(* A fork keeps types and places.                                           *)
LEMMA ForkStep ==
  ASSUME TypeOK, Places, NEW p \in Proc, NEW q \in Proc, Fork(p, q)
  PROVE  TypeOK' /\ Places'
<1>1. TypeOK'
  <2>1. life' \in [Proc -> Life]
    BY DEF Fork, TypeOK
  <2>2. buf' \in [Proc -> Seq(Token)] /\ \A r \in Proc : Len(buf'[r]) <= BUF_SIZE
    BY DEF Fork, TypeOK
  <2>3. errno' \in [Proc -> {"0", "-1", "EIO"}]
    BY DEF Fork, TypeOK
  <2>4. accepted' \in [Proc -> Seq(Token)]
    BY DEF Fork, TypeOK
  <2>5. inherited' \in [Proc -> Seq(Token)]
    BY DEF Fork, TypeOK
  <2>6. lost' \in [Proc -> SUBSET Token]
    BY DEF Fork, TypeOK
  <2>7. UNCHANGED <<at, held, out, token, faults>>
    BY DEF Fork
  <2> QED BY <2>1, <2>2, <2>3, <2>4, <2>5, <2>6, <2>7 DEF TypeOK
<1>2. Places'
  BY ForkCopies DEF Places, HasHeld
<1> QED BY <1>1, <1>2

(* Every step of a process keeps types and places and is of a kind.         *)
LEMMA EveryStepIsOfAKind ==
  ASSUME TypeOK, Places, NEW p \in Proc, ProcStep(p)
  PROVE  TypeOK' /\ Places' /\ Kinds(p)
<1>1. CASE \E q \in Proc : Fork(p, q)
  BY <1>1, ForkStep DEF Kinds
<1> QED BY <1>1, WritesAtOnce, FputcSteps, PutsSteps, FflushAndExit, LifeSteps DEF ProcStep

-----------------------------------------------------------------------------
USE DEF Entries, Entry

(* The types of what the invariants compare.                                *)
LEMMA Typed ==
  ASSUME TypeOK
  PROVE  /\ token \in Nat
         /\ \A i \in Entries : /\ i \in Nat /\ Entry(i) \in Shown /\ Entry(i).by \in Proc
                               /\ Entry(i).tok.id \in Nat
         /\ \A p \in Proc : \A k \in DOMAIN buf[p] :
              k \in 1..Len(buf[p]) /\ buf[p][k] \in Token /\ buf[p][k].id \in Nat
         /\ \A p \in Proc : Len(buf[p]) \in Nat /\ DOMAIN buf[p] = 1..Len(buf[p])
         /\ \A p \in Proc : held[p].id \in Nat
<1>1. token \in Nat
  BY DEF TypeOK
<1>2. \A i \in Entries : /\ i \in Nat /\ Entry(i) \in Shown /\ Entry(i).by \in Proc
                         /\ Entry(i).tok.id \in Nat
  <2>1. out[STDOUT_FILENO] \in Seq(Shown)
    BY DEF TypeOK, Fd
  <2>2. \A i \in Entries : i \in 1..Len(out[STDOUT_FILENO]) /\ Len(out[STDOUT_FILENO]) \in Nat
    BY <2>1
  <2>3. \A i \in Entries : i \in Nat /\ Entry(i) \in Shown
    BY <2>1, <2>2, ElementOfSeq
  <2> QED BY <2>3 DEF Shown, Token
<1>3. \A p \in Proc : Len(buf[p]) \in Nat /\ DOMAIN buf[p] = 1..Len(buf[p])
  BY DEF TypeOK
<1>4. \A p \in Proc : \A k \in DOMAIN buf[p] :
        k \in 1..Len(buf[p]) /\ buf[p][k] \in Token /\ buf[p][k].id \in Nat
  <2>1. \A p \in Proc : \A k \in DOMAIN buf[p] : k \in 1..Len(buf[p]) /\ buf[p][k] \in Token
    BY <1>3, ElementOfSeq DEF TypeOK
  <2> QED BY <2>1 DEF Token
<1>5. \A p \in Proc : held[p].id \in Nat
  BY DEF TypeOK, Token, NoToken
<1> QED BY <1>1, <1>2, <1>3, <1>4, <1>5

(* After a write the entries are the old ones, where they were, and behind *)
(* them, if the write went to descriptor 1, the n new ones.                *)
Seen == Len(out[STDOUT_FILENO])
EntryAfter(i) == out'[STDOUT_FILENO][i]
USE DEF EntryAfter

Behind(p, fd, toks, b, n) ==
  /\ Entries = 1..Seen /\ Seen \in Nat
  /\ \A i \in Entries : i \in Entries' /\ EntryAfter(i) = Entry(i)
  /\ \A i \in Entries' \ Entries :
       /\ i \in Nat /\ i - Seen \in 1..n /\ i > Seen
       /\ EntryAfter(i) = [tok |-> toks[i - Seen], by |-> p, buffered |-> b]
  /\ fd = STDOUT_FILENO =>
       \A k \in 1..n : Seen + k \in Entries' /\ EntryAfter(Seen + k).tok = toks[k]

(* A write that adds bytes leaves the entries as Behind says.               *)
LEMMA AddedEntries ==
  ASSUME TypeOK, NEW p \in Proc, NEW fd \in Fd, NEW toks, NEW b \in BOOLEAN, NEW n \in Nat,
         Added(p, fd, toks, b, n)
  PROVE  Behind(p, fd, toks, b, n)
<1>1. STDOUT_FILENO \in Fd /\ out \in [Fd -> Seq(Shown)] /\ out' \in [Fd -> Seq(Shown)]
  BY DEF TypeOK, Added, Fd
<1>2. Seen \in Nat /\ Entries = 1..Seen
  BY <1>1 DEF Seen
<1>3. CASE fd # STDOUT_FILENO
  <2>1. out'[STDOUT_FILENO] = out[STDOUT_FILENO]
    BY <1>1, <1>3 DEF Added
  <2> QED BY <1>2, <1>3, <2>1 DEF Behind
<1>4. CASE fd = STDOUT_FILENO
  <2>1. out'[STDOUT_FILENO] \in Seq(Shown) /\ Len(out'[STDOUT_FILENO]) = Seen + n
    BY <1>1, <1>4 DEF Added, Seen
  <2>2. Entries' = 1..Seen + n
    BY <1>2, <2>1
  <2>3. \A i \in 1..Seen : EntryAfter(i) = Entry(i)
    BY <1>4 DEF Added, Seen
  <2>4. \A k \in 1..n : EntryAfter(Seen + k) = [tok |-> toks[k], by |-> p, buffered |-> b]
    BY <1>4 DEF Added, Seen
  <2>5. \A i \in Entries : i \in Entries' /\ EntryAfter(i) = Entry(i)
    BY <1>2, <2>2, <2>3
  <2>6. ASSUME NEW i \in Entries', i \notin Entries
        PROVE  /\ i \in Nat /\ i - Seen \in 1..n /\ i > Seen
               /\ EntryAfter(i) = [tok |-> toks[i - Seen], by |-> p, buffered |-> b]
    <3>1. i \in Nat /\ i - Seen \in 1..n /\ i > Seen /\ Seen + (i - Seen) = i
      BY <1>2, <2>2, <2>6
    <3>2. EntryAfter(Seen + (i - Seen)) = [tok |-> toks[i - Seen], by |-> p, buffered |-> b]
      BY <2>4, <3>1
    <3> QED BY <3>1, <3>2
  <2>7. \A k \in 1..n : Seen + k \in Entries' /\ EntryAfter(Seen + k).tok = toks[k]
    <3>1. \A k \in 1..n : Seen + k \in 1..Seen + n
      BY <1>2
    <3>2. ASSUME NEW k \in 1..n PROVE EntryAfter(Seen + k).tok = toks[k]
      <4>1. EntryAfter(Seen + k) = [tok |-> toks[k], by |-> p, buffered |-> b]
        BY <2>4
      <4> QED BY <4>1, SMT
    <3> QED BY <2>2, <3>1, <3>2, Zenon
  <2>8. \A i \in Entries' \ Entries :
          /\ i \in Nat /\ i - Seen \in 1..n /\ i > Seen
          /\ EntryAfter(i) = [tok |-> toks[i - Seen], by |-> p, buffered |-> b]
    BY <2>6
  <2> QED BY <1>2, <2>5, <2>7, <2>8, Zenon DEF Behind
<1> QED BY <1>3, <1>4

(* What the five kinds of steps keep, besides types and places.            *)
Kept ==
  /\ Numbered /\ Ordered /\ Copied
  /\ BufferedOrderKept /\ DuplicatesComeFromFork /\ NothingForgotten

(* New bytes, or the newline puts had in hand, are in nobody's buffer and   *)
(* not shown yet, so a write past the buffer disturbs neither order nor     *)
(* copies.                                                                  *)
LEMMA EmitsKeeps ==
  ASSUME IInv, TypeOK', NEW p \in Proc, Emits(p)
  PROVE  Kept'
<1> USE DEF IInv
<1>1. PICK fd \in Fd, toks \in Seq(Token), n \in Nat : EmitsBytes(p, fd, toks, n)
  BY DEF Emits
<1>2. /\ Added(p, fd, toks, FALSE, n)
      /\ \A i \in 1..n : IsNew(toks[i].id) \/ (at[p] = "puts" /\ toks[i].id = held[p].id)
      /\ \A i, j \in 1..n : toks[i].id = toks[j].id => i = j
      /\ at'[p] = "puts" => IsNew(held'[p].id) /\ \A i \in 1..n : toks[i].id # held'[p].id
  BY <1>1 DEF EmitsBytes
<1>3. /\ UNCHANGED life /\ UNCHANGED buf /\ UNCHANGED accepted
      /\ UNCHANGED inherited /\ UNCHANGED lost
      /\ life[p] = "main" /\ token <= token' /\ Elsewhere(p) /\ at'[p] # "store"
  BY DEF Emits
<1>4. token' \in Nat /\ token \in Nat
  BY DEF TypeOK
<1>5. /\ Entries = 1..Seen /\ Seen \in Nat
      /\ \A i \in Entries : i \in Entries' /\ EntryAfter(i) = Entry(i)
      /\ \A i \in Entries' \ Entries :
           /\ i \in Nat /\ i - Seen \in 1..n /\ i > Seen
           /\ EntryAfter(i) = [tok |-> toks[i - Seen], by |-> p, buffered |-> FALSE]
  <2>1. FALSE \in BOOLEAN /\ Added(p, fd, toks, FALSE, n)
    BY <1>2
  <2>2. Behind(p, fd, toks, FALSE, n)
    BY <1>1, <2>1, AddedEntries
  <2> QED BY <2>2, Zenon DEF Behind
<1>6. \A i \in Entries' \ Entries :
        /\ EntryAfter(i).by = p /\ EntryAfter(i).buffered = FALSE
        /\ IsNew(EntryAfter(i).tok.id) \/ (at[p] = "puts" /\ EntryAfter(i).tok.id = held[p].id)
        /\ at'[p] = "puts" => EntryAfter(i).tok.id # held'[p].id
  <2> TAKE i \in Entries' \ Entries
  <2>1. i - Seen \in 1..n /\ EntryAfter(i) = [tok |-> toks[i - Seen], by |-> p, buffered |-> FALSE]
    BY <1>5
  <2>2. EntryAfter(i).tok = toks[i - Seen] /\ EntryAfter(i).by = p /\ EntryAfter(i).buffered = FALSE
    BY <2>1, SMT
  <2> QED BY <1>2, <2>1, <2>2, Zenon
<1>7. \A i, j \in Entries' \ Entries : EntryAfter(i).tok.id = EntryAfter(j).tok.id => i = j
  <2> TAKE i, j \in Entries' \ Entries
  <2>1. i - Seen \in 1..n /\ EntryAfter(i) = [tok |-> toks[i - Seen], by |-> p, buffered |-> FALSE]
        /\ j - Seen \in 1..n /\ EntryAfter(j) = [tok |-> toks[j - Seen], by |-> p, buffered |-> FALSE]
        /\ i \in Nat /\ j \in Nat /\ Seen \in Nat
    BY <1>5
  <2>2. EntryAfter(i).tok = toks[i - Seen] /\ EntryAfter(j).tok = toks[j - Seen]
    BY <2>1, SMT
  <2>3. EntryAfter(i).tok.id = EntryAfter(j).tok.id => i - Seen = j - Seen
    BY <1>2, <2>1, <2>2, Zenon
  <2>4. i - Seen = j - Seen => i = j
    BY <2>1
  <2> QED BY <2>3, <2>4
<1>8. Numbered'
  <2>1. \A i \in Entries' : EntryAfter(i).tok.id < token'
    <3>1. \A i \in Entries : EntryAfter(i).tok.id < token'
      BY <1>3, <1>4, <1>5, Typed DEF Numbered
    <3>2. \A i \in Entries' \ Entries : EntryAfter(i).tok.id < token'
      <4>1. at[p] = "puts" => held[p].id < token'
        BY <1>3, <1>4, Typed DEF Numbered, HasHeld
      <4> QED BY <1>6, <4>1 DEF IsNew
    <3> QED BY <3>1, <3>2
  <2>2. \A q \in Proc : \A k \in DOMAIN buf'[q] : buf'[q][k].id < token'
    BY <1>3, <1>4, Typed DEF Numbered
  <2>3. ASSUME NEW q \in Proc, HasHeld(q)'
        PROVE  /\ held'[q].id < token'
               /\ \A i \in Entries' : EntryAfter(i).tok.id # held'[q].id
               /\ \A r \in Proc : \A k \in DOMAIN buf'[r] : buf'[r][k].id # held'[q].id
               /\ \A r \in Proc : HasHeld(r)' /\ held'[r].id = held'[q].id => r = q
    <3>1. CASE q = p
      <4>1. at'[p] = "puts" /\ IsNew(held'[p].id)
        BY <1>2, <1>3, <2>3, <3>1 DEF HasHeld
      <4>2. \A i \in Entries' : EntryAfter(i).tok.id # held'[p].id
        BY <1>5, <1>6, <4>1, Typed DEF Numbered, IsNew
      <4>3. \A r \in Proc : \A k \in DOMAIN buf'[r] : buf'[r][k].id # held'[p].id
        BY <1>3, <4>1, Typed DEF Numbered, IsNew
      <4>4. \A r \in Proc : HasHeld(r)' /\ held'[r].id = held'[p].id => r = p
        BY <1>3, <4>1, Typed DEF Numbered, IsNew, HasHeld, Elsewhere
      <4> QED BY <3>1, <4>1, <4>2, <4>3, <4>4 DEF IsNew
    <3>2. CASE q # p
      <4>1. HasHeld(q) /\ held'[q] = held[q]
        BY <1>3, <2>3, <3>2 DEF HasHeld, Elsewhere
      <4>2. held[q].id < token /\ held'[q].id < token'
        BY <1>3, <1>4, <4>1, Typed DEF Numbered
      <4>3. \A i \in Entries' : EntryAfter(i).tok.id # held'[q].id
        <5>1. \A i \in Entries : EntryAfter(i).tok.id # held'[q].id
          BY <1>5, <4>1 DEF Numbered
        <5>2. \A i \in Entries' \ Entries : EntryAfter(i).tok.id # held'[q].id
          BY <1>6, <3>2, <4>1, <4>2, Typed DEF Numbered, IsNew, HasHeld
        <5> QED BY <5>1, <5>2
      <4>4. \A r \in Proc : \A k \in DOMAIN buf'[r] : buf'[r][k].id # held'[q].id
        BY <1>3, <4>1 DEF Numbered
      <4>5. \A r \in Proc : HasHeld(r)' /\ held'[r].id = held'[q].id => r = q
        <5>1. ~(HasHeld(p)' /\ held'[p].id = held'[q].id)
          BY <1>2, <1>3, <4>1, <4>2, Typed DEF IsNew, HasHeld
        <5>2. \A r \in Proc \ {p} : HasHeld(r)' /\ held'[r].id = held'[q].id => r = q
          BY <1>3, <4>1 DEF Numbered, HasHeld, Elsewhere
        <5> QED BY <5>1, <5>2
      <4> QED BY <4>2, <4>3, <4>4, <4>5
    <3> QED BY <3>1, <3>2
  <2> QED BY <2>1, <2>2, <2>3 DEF Numbered
<1>9. Ordered'
  <2>1. \A q \in Proc : \A k, l \in DOMAIN buf'[q] : k < l => buf'[q][k].id < buf'[q][l].id
    BY <1>3 DEF Ordered
  <2>2. \A i \in Entries' : EntryAfter(i).buffered =>
          /\ \A k \in DOMAIN buf'[EntryAfter(i).by] : EntryAfter(i).tok.id < buf'[EntryAfter(i).by][k].id
          /\ at'[EntryAfter(i).by] = "store" => EntryAfter(i).tok.id < held'[EntryAfter(i).by].id
    <3> TAKE i \in Entries'
    <3> SUFFICES ASSUME EntryAfter(i).buffered
                 PROVE  /\ \A k \in DOMAIN buf'[EntryAfter(i).by] :
                             EntryAfter(i).tok.id < buf'[EntryAfter(i).by][k].id
                        /\ at'[EntryAfter(i).by] = "store" => EntryAfter(i).tok.id < held'[EntryAfter(i).by].id
      OBVIOUS
    <3>1. i \in Entries /\ EntryAfter(i) = Entry(i) /\ Entry(i).by \in Proc
      BY <1>5, <1>6, Typed
    <3>2. \A k \in DOMAIN buf'[Entry(i).by] : Entry(i).tok.id < buf'[Entry(i).by][k].id
      BY <1>3, <3>1 DEF Ordered
    <3>3. at'[Entry(i).by] = "store" => Entry(i).tok.id < held'[Entry(i).by].id
      BY <1>3, <3>1 DEF Ordered, Elsewhere
    <3> QED BY <3>1, <3>2, <3>3
  <2>3. \A i \in Entries' : life'[EntryAfter(i).by] # "unborn"
    BY <1>3, <1>5, <1>6 DEF Ordered
  <2> QED BY <2>1, <2>2, <2>3 DEF Ordered
<1>10. Copied'
  <2>1. ASSUME NEW i \in Entries', NEW q \in Proc, NEW k \in DOMAIN buf'[q],
               EntryAfter(i).tok.id = buf'[q][k].id
        PROVE  /\ EntryAfter(i).by # q
               /\ EntryAfter(i).tok.id \in Ids(inherited'[EntryAfter(i).by]) \cup Ids(inherited'[q])
    <3>1. buf'[q][k] = buf[q][k] /\ k \in DOMAIN buf[q]
      BY <1>3, <2>1
    <3>2. i \in Entries
      BY <1>6, <2>1, <3>1, Typed DEF Numbered, IsNew, HasHeld
    <3>3. EntryAfter(i) = Entry(i)
      BY <1>5, <3>2
    <3>4. Entry(i).by # q /\ Entry(i).tok.id \in Born(Entry(i).by, q)
      BY <2>1, <3>1, <3>2, <3>3 DEF Copied
    <3>5. inherited' = inherited
      BY <1>3
    <3> QED BY <3>3, <3>4, <3>5 DEF Born, Ids
  <2>2. \A q, r \in Proc : \A k \in DOMAIN buf'[q], l \in DOMAIN buf'[r] :
          q # r /\ buf'[q][k].id = buf'[r][l].id =>
            buf'[q][k].id \in Ids(inherited'[q]) \cup Ids(inherited'[r])
    BY <1>3 DEF Copied, Born, Ids
  <2> QED BY <2>1, <2>2 DEF Copied, Born, Ids
<1>11. BufferedOrderKept'
  BY <1>5, <1>6 DEF BufferedOrderKept
<1>12. DuplicatesComeFromFork'
  <2>1. \A i \in Entries, j \in Entries' \ Entries : EntryAfter(i).tok.id # EntryAfter(j).tok.id
    BY <1>5, <1>6, Typed DEF Numbered, IsNew, HasHeld
  <2>2. ASSUME NEW i \in Entries', NEW j \in Entries', i # j,
               EntryAfter(i).tok.id = EntryAfter(j).tok.id
        PROVE  /\ EntryAfter(i).by # EntryAfter(j).by
               /\ EntryAfter(i).tok.id \in Ids(inherited'[EntryAfter(i).by]) \cup Ids(inherited'[EntryAfter(j).by])
    <3>1. i \in Entries /\ j \in Entries
      BY <1>7, <2>1, <2>2
    <3>2. EntryAfter(i) = Entry(i) /\ EntryAfter(j) = Entry(j)
      BY <1>5, <3>1
    <3>3. inherited' = inherited
      BY <1>3
    <3> QED BY <2>2, <3>1, <3>2, <3>3 DEF DuplicatesComeFromFork
  <2> QED BY <2>2 DEF DuplicatesComeFromFork, Ids
<1>13. NothingForgotten'
  <2>1. ShownIds(STDOUT_FILENO) \subseteq ShownIds(STDOUT_FILENO)'
    BY <1>5 DEF ShownIds
  <2> QED BY <1>3, <2>1 DEF NothingForgotten
<1> QED BY <1>8, <1>9, <1>10, <1>11, <1>12, <1>13 DEF Kept

(* What Append adds to the elements of a sequence.                          *)
LEMMA RangeOfAppend ==
  ASSUME NEW s \in Seq(Token), NEW x \in Token
  PROVE  Range(Append(s, x)) = Range(s) \cup {x}
<1>1. Len(s) \in Nat /\ DOMAIN s = 1..Len(s) /\ DOMAIN Append(s, x) = 1..Len(s) + 1
  BY AppendProperties
<1>2. /\ \A k \in 1..Len(s) : Append(s, x)[k] = s[k]
      /\ Append(s, x)[Len(s) + 1] = x
  BY AppendProperties
<1>3. \A k \in 1..Len(s) + 1 : k \in 1..Len(s) \/ k = Len(s) + 1
  BY <1>1
<1>4. 1..Len(s) \subseteq 1..Len(s) + 1 /\ Len(s) + 1 \in 1..Len(s) + 1
  BY <1>1
<1> QED BY <1>1, <1>2, <1>3, <1>4, Zenon DEF Range

(* A stored byte is younger than all that its process has buffered or       *)
(* shown from its buffer, and is nowhere else.                              *)
LEMMA StoresKeeps ==
  ASSUME IInv, TypeOK', NEW p \in Proc, Stores(p)
  PROVE  Kept'
<1> USE DEF IInv
<1>1. PICK tok \in Token :
        /\ buf' = [buf EXCEPT ![p] = Append(@, tok)]
        /\ accepted' = [accepted EXCEPT ![p] = Append(@, tok)]
        /\ IsNew(tok.id) \/ (at[p] = "store" /\ tok = held[p])
  BY DEF Stores
<1>2. /\ UNCHANGED life /\ UNCHANGED out /\ UNCHANGED inherited /\ UNCHANGED lost
      /\ life[p] = "main" /\ token <= token' /\ Elsewhere(p) /\ at'[p] \in {"newline", "user"}
  BY DEF Stores
<1>3. token' \in Nat /\ token \in Nat /\ tok.id \in Nat
  BY DEF TypeOK, Token
<1> DEFINE L == Len(buf[p])
<1>4. /\ L \in Nat /\ DOMAIN buf[p] = 1..L
      /\ DOMAIN buf'[p] = 1..L + 1
      /\ \A k \in 1..L : buf'[p][k] = buf[p][k]
      /\ buf'[p][L + 1] = tok
      /\ \A q \in Proc \ {p} : buf'[q] = buf[q]
  <2>1. buf \in [Proc -> Seq(Token)] /\ buf[p] \in Seq(Token)
    BY DEF TypeOK
  <2>2. buf'[p] = Append(buf[p], tok) /\ \A q \in Proc \ {p} : buf'[q] = buf[q]
    BY <1>1, <2>1
  <2>3. L \in Nat /\ DOMAIN buf[p] = 1..L
    BY <2>1
  <2>4. DOMAIN Append(buf[p], tok) = 1..L + 1
    BY <2>1, AppendProperties
  <2>5. \A k \in 1..L : Append(buf[p], tok)[k] = buf[p][k]
    BY <2>1, AppendProperties
  <2>6. Append(buf[p], tok)[L + 1] = tok
    BY <2>1, AppendProperties
  <2> QED BY <2>2, <2>3, <2>4, <2>5, <2>6
<1> HIDE DEF L
<1>5. \A k \in DOMAIN buf'[p] : k \in 1..L \/ k = L + 1
  BY <1>4
<1>6. \A q \in Proc : \A k \in DOMAIN buf'[q] :
        \/ k \in DOMAIN buf[q] /\ buf'[q][k] = buf[q][k]
        \/ q = p /\ k = L + 1 /\ buf'[q][k] = tok
  BY <1>4, <1>5
<1>7. /\ tok.id < token'
      /\ \A i \in Entries : Entry(i).tok.id # tok.id
      /\ \A q \in Proc : \A k \in DOMAIN buf[q] : buf[q][k].id # tok.id
  <2>1. CASE IsNew(tok.id)
    BY <2>1, Typed DEF Numbered, IsNew
  <2>2. CASE at[p] = "store" /\ tok = held[p]
    <3>1. HasHeld(p) /\ held[p].id < token
      BY <2>2 DEF Numbered, HasHeld
    <3>2. tok.id < token'
      BY <1>2, <1>3, <2>2, <3>1
    <3> QED BY <2>2, <3>1, <3>2 DEF Numbered
  <2> QED BY <1>1, <2>1, <2>2
<1>8. \A q \in Proc : HasHeld(q)' => q # p /\ HasHeld(q) /\ held'[q] = held[q] /\ held[q].id # tok.id
  <2> SUFFICES ASSUME NEW q \in Proc, HasHeld(q)'
               PROVE  q # p /\ HasHeld(q) /\ held'[q] = held[q] /\ held[q].id # tok.id
    OBVIOUS
  <2>1. q # p /\ HasHeld(q) /\ held'[q] = held[q]
    BY <1>2 DEF HasHeld, Elsewhere
  <2>2. held[q].id < token
    BY <2>1 DEF Numbered
  <2>3. at[p] = "store" => held[q].id # held[p].id
    BY <2>1 DEF Numbered, HasHeld
  <2>4. IsNew(tok.id) => held[q].id # tok.id
    BY <2>2, Typed DEF IsNew
  <2> QED BY <1>1, <2>1, <2>3, <2>4
<1>9. Numbered'
  <2>1. \A i \in Entries' : EntryAfter(i).tok.id < token'
    BY <1>2, <1>3, Typed DEF Numbered
  <2>2. \A q \in Proc : \A k \in DOMAIN buf'[q] : buf'[q][k].id < token'
    <3>1. \A q \in Proc : \A k \in DOMAIN buf[q] : buf[q][k].id < token'
      BY <1>2, <1>3, Typed DEF Numbered
    <3> QED BY <1>6, <1>7, <3>1
  <2>3. ASSUME NEW q \in Proc, HasHeld(q)'
        PROVE  /\ held'[q].id < token'
               /\ \A i \in Entries' : EntryAfter(i).tok.id # held'[q].id
               /\ \A r \in Proc : \A k \in DOMAIN buf'[r] : buf'[r][k].id # held'[q].id
               /\ \A r \in Proc : HasHeld(r)' /\ held'[r].id = held'[q].id => r = q
    <3>1. HasHeld(q) /\ held'[q] = held[q] /\ held[q].id # tok.id
      BY <1>8, <2>3
    <3>2. held'[q].id < token'
      BY <1>2, <1>3, <3>1, Typed DEF Numbered
    <3>3. \A i \in Entries' : EntryAfter(i).tok.id # held'[q].id
      BY <1>2, <3>1 DEF Numbered
    <3>4. \A r \in Proc : \A k \in DOMAIN buf'[r] : buf'[r][k].id # held'[q].id
      <4>1. \A r \in Proc : \A k \in DOMAIN buf[r] : buf[r][k].id # held[q].id
        BY <3>1 DEF Numbered
      <4> QED BY <1>6, <3>1, <4>1
    <3>5. \A r \in Proc : HasHeld(r)' /\ held'[r].id = held'[q].id => r = q
      BY <1>8, <3>1 DEF Numbered
    <3> QED BY <3>2, <3>3, <3>4, <3>5
  <2> QED BY <2>1, <2>2, <2>3 DEF Numbered
<1>10. \A k \in DOMAIN buf[p] : buf[p][k].id < tok.id
  <2>1. CASE IsNew(tok.id)
    BY <1>3, <2>1, Typed DEF Numbered, IsNew
  <2>2. CASE at[p] = "store"
    BY <2>2 DEF Places
  <2> QED BY <1>1, <2>1, <2>2
<1>11. Ordered'
  <2>1. ASSUME NEW q \in Proc, NEW k \in DOMAIN buf'[q], NEW l \in DOMAIN buf'[q], k < l
        PROVE  buf'[q][k].id < buf'[q][l].id
    <3>1. CASE q # p
      BY <1>4, <2>1, <3>1 DEF Ordered
    <3>2. CASE q = p /\ l \in 1..L
      <4>1. k \in 1..L
        BY <1>4, <1>5, <2>1, <3>2
      <4> QED BY <1>4, <2>1, <3>2, <4>1 DEF Ordered
    <3>3. CASE q = p /\ l = L + 1
      <4>1. k \in 1..L
        BY <1>4, <1>5, <2>1, <3>3
      <4> QED BY <1>4, <1>10, <2>1, <3>3, <4>1
    <3> QED BY <1>5, <3>1, <3>2, <3>3
  <2>2. ASSUME NEW i \in Entries', EntryAfter(i).buffered
        PROVE  /\ \A k \in DOMAIN buf'[EntryAfter(i).by] :
                    EntryAfter(i).tok.id < buf'[EntryAfter(i).by][k].id
               /\ at'[EntryAfter(i).by] = "store" =>
                    EntryAfter(i).tok.id < held'[EntryAfter(i).by].id
    <3>1. i \in Entries /\ EntryAfter(i) = Entry(i) /\ Entry(i).by \in Proc
      BY <1>2, Typed
    <3>2. CASE Entry(i).by # p
      <4>1. buf'[Entry(i).by] = buf[Entry(i).by]
        BY <1>4, <3>1, <3>2
      <4>2. at'[Entry(i).by] = at[Entry(i).by] /\ held'[Entry(i).by] = held[Entry(i).by]
        BY <1>2, <3>1, <3>2 DEF Elsewhere
      <4>3. /\ \A k \in DOMAIN buf[Entry(i).by] : Entry(i).tok.id < buf[Entry(i).by][k].id
            /\ at[Entry(i).by] = "store" => Entry(i).tok.id < held[Entry(i).by].id
        BY <2>2, <3>1 DEF Ordered
      <4> QED BY <3>1, <4>1, <4>2, <4>3
    <3>3. CASE Entry(i).by = p
      <4>1. Entry(i).tok.id < tok.id
        <5>1. CASE IsNew(tok.id)
          BY <1>3, <3>1, <5>1, Typed DEF Numbered, IsNew
        <5>2. CASE at[p] = "store" /\ tok = held[p]
          BY <2>2, <3>1, <3>3, <5>2 DEF Ordered
        <5> QED BY <1>1, <5>1, <5>2
      <4>2. \A k \in DOMAIN buf[p] : Entry(i).tok.id < buf[p][k].id
        BY <2>2, <3>1, <3>3 DEF Ordered
      <4>3. \A k \in DOMAIN buf'[p] : Entry(i).tok.id < buf'[p][k].id
        BY <1>6, <4>1, <4>2
      <4> QED BY <1>2, <3>1, <3>3, <4>3
    <3> QED BY <3>2, <3>3
  <2>3. \A i \in Entries' : life'[EntryAfter(i).by] # "unborn"
    BY <1>2 DEF Ordered
  <2> QED BY <2>1, <2>2, <2>3 DEF Ordered
<1>12. Copied'
  <2>1. ASSUME NEW i \in Entries', NEW q \in Proc, NEW k \in DOMAIN buf'[q],
               EntryAfter(i).tok.id = buf'[q][k].id
        PROVE  /\ EntryAfter(i).by # q
               /\ EntryAfter(i).tok.id \in Ids(inherited'[EntryAfter(i).by]) \cup Ids(inherited'[q])
    <3>1. i \in Entries /\ EntryAfter(i) = Entry(i)
      BY <1>2
    <3>2. k \in DOMAIN buf[q] /\ buf'[q][k] = buf[q][k]
      BY <1>6, <1>7, <2>1, <3>1
    <3>3. Entry(i).by # q /\ Entry(i).tok.id \in Born(Entry(i).by, q)
      BY <2>1, <3>1, <3>2 DEF Copied
    <3> QED BY <1>2, <3>1, <3>3 DEF Born
  <2>2. ASSUME NEW q \in Proc, NEW r \in Proc, NEW k \in DOMAIN buf'[q], NEW l \in DOMAIN buf'[r],
               q # r, buf'[q][k].id = buf'[r][l].id
        PROVE  buf'[q][k].id \in Ids(inherited'[q]) \cup Ids(inherited'[r])
    <3>1. k \in DOMAIN buf[q] /\ buf'[q][k] = buf[q][k] /\ l \in DOMAIN buf[r] /\ buf'[r][l] = buf[r][l]
      <4>1. ~(q = p /\ k = L + 1 /\ buf'[q][k] = tok)
        <5> SUFFICES ASSUME q = p, buf'[q][k] = tok PROVE FALSE
          OBVIOUS
        <5>1. buf'[r] = buf[r]
          BY <1>4, <2>2
        <5>2. l \in DOMAIN buf[r] /\ buf[r][l].id = tok.id
          BY <2>2, <5>1
        <5> QED BY <1>7, <5>2
      <4>2. ~(r = p /\ l = L + 1 /\ buf'[r][l] = tok)
        <5> SUFFICES ASSUME r = p, buf'[r][l] = tok PROVE FALSE
          OBVIOUS
        <5>1. buf'[q] = buf[q]
          BY <1>4, <2>2
        <5>2. k \in DOMAIN buf[q] /\ buf[q][k].id = tok.id
          BY <2>2, <5>1
        <5> QED BY <1>7, <5>2
      <4> QED BY <1>6, <4>1, <4>2
    <3> QED BY <1>2, <2>2, <3>1 DEF Copied, Born
  <2> QED BY <2>1, <2>2 DEF Copied, Born, Ids
<1>13. BufferedOrderKept' /\ DuplicatesComeFromFork'
  <2>1. BufferedOrderKept'
    BY <1>2 DEF BufferedOrderKept
  <2>2. DuplicatesComeFromFork'
    <3>1. ASSUME NEW i \in Entries', NEW j \in Entries', i # j,
                 EntryAfter(i).tok.id = EntryAfter(j).tok.id
          PROVE  /\ EntryAfter(i).by # EntryAfter(j).by
                 /\ EntryAfter(i).tok.id \in Ids(inherited'[EntryAfter(i).by]) \cup Ids(inherited'[EntryAfter(j).by])
      <4>1. i \in Entries /\ j \in Entries /\ EntryAfter(i) = Entry(i) /\ EntryAfter(j) = Entry(j)
        BY <1>2
      <4>2. inherited' = inherited
        BY <1>2
      <4> QED BY <3>1, <4>1, <4>2 DEF DuplicatesComeFromFork
    <3> QED BY <3>1 DEF DuplicatesComeFromFork, Ids
  <2> QED BY <2>1, <2>2
<1>14. NothingForgotten'
  <2>1. ASSUME NEW q \in Proc, life'[q] \in Running \cup {"exit"}
        PROVE  /\ \A t \in Range(accepted'[q]) :
                    t \in Range(buf'[q]) \cup lost'[q] \/ t.id \in ShownIds(STDOUT_FILENO)'
               /\ life'[q] = "exit" => buf'[q] = <<>>
    <3>1. ShownIds(STDOUT_FILENO)' = ShownIds(STDOUT_FILENO) /\ lost'[q] = lost[q] /\ life'[q] = life[q]
      BY <1>2 DEF ShownIds
    <3>2. \A t \in Range(accepted[q]) :
            t \in Range(buf[q]) \cup lost[q] \/ t.id \in ShownIds(STDOUT_FILENO)
      BY <2>1, <3>1 DEF NothingForgotten
    <3>3. CASE q # p
      <4>1. accepted'[q] = accepted[q] /\ buf'[q] = buf[q]
        BY <1>1, <1>4, <3>3 DEF TypeOK
      <4> QED BY <2>1, <3>1, <3>2, <3>3, <4>1 DEF NothingForgotten
    <3>4. CASE q = p
      <4>1. Range(accepted'[p]) = Range(accepted[p]) \cup {tok}
        <5>1. accepted'[p] = Append(accepted[p], tok) /\ accepted[p] \in Seq(Token)
          BY <1>1 DEF TypeOK
        <5> QED BY <5>1, RangeOfAppend
      <4>2. Range(buf'[p]) = Range(buf[p]) \cup {tok}
        <5>1. buf'[p] = Append(buf[p], tok) /\ buf[p] \in Seq(Token)
          BY <1>1 DEF TypeOK
        <5> QED BY <5>1, RangeOfAppend
      <4>3. life'[q] # "exit"
        BY <1>2, <3>1, <3>4
      <4> QED BY <3>1, <3>2, <3>4, <4>1, <4>2, <4>3
    <3> QED BY <3>3, <3>4
  <2> QED BY <2>1 DEF NothingForgotten
<1> QED BY <1>9, <1>11, <1>12, <1>13, <1>14 DEF Kept

(* A flush moves a prefix of the buffer behind what was shown and drops     *)
(* the rest, which becomes lost.                                            *)
LEMMA FlushesKeeps ==
  ASSUME IInv, TypeOK', NEW p \in Proc, Flushes(p)
  PROVE  Kept'
<1> USE DEF IInv
<1>1. PICK n \in 0..Len(buf[p]) : Flushed(p, n) /\ (at'[p] = "store" => IsNew(held'[p].id))
  BY DEF Flushes
<1>2. /\ UNCHANGED life /\ UNCHANGED accepted /\ UNCHANGED inherited
      /\ life[p] = "main" /\ token <= token' /\ Elsewhere(p) /\ at'[p] # "puts"
  BY DEF Flushes
<1>3. token' \in Nat /\ token \in Nat /\ n \in Nat
  BY <1>1, Typed DEF TypeOK
<1>4. buf'[p] = <<>> /\ \A q \in Proc \ {p} : buf'[q] = buf[q]
  BY <1>1 DEF Flushed, TypeOK
<1>5. \A q \in Proc : \A k \in DOMAIN buf'[q] :
        q # p /\ buf'[q] = buf[q] /\ k \in DOMAIN buf[q] /\ buf'[q][k] = buf[q][k]
  BY <1>4
<1>6. Behind(p, STDOUT_FILENO, buf[p], TRUE, n)
  <2>1. Added(p, STDOUT_FILENO, buf[p], TRUE, n) /\ TRUE \in BOOLEAN /\ STDOUT_FILENO \in Fd
    BY <1>1 DEF Flushed, Fd
  <2> QED BY <1>3, <2>1, AddedEntries
<1>7. /\ Entries = 1..Seen /\ Seen \in Nat
      /\ \A i \in Entries : i \in Entries' /\ EntryAfter(i) = Entry(i)
      /\ \A i \in Entries' \ Entries :
           /\ i \in Nat /\ i - Seen \in 1..n /\ i > Seen
           /\ EntryAfter(i) = [tok |-> buf[p][i - Seen], by |-> p, buffered |-> TRUE]
      /\ \A k \in 1..n : Seen + k \in Entries' /\ EntryAfter(Seen + k).tok = buf[p][k]
  BY <1>6, Zenon DEF Behind
<1>8. \A i \in Entries' \ Entries :
        /\ i \in Nat /\ i - Seen \in DOMAIN buf[p] /\ EntryAfter(i).tok = buf[p][i - Seen]
        /\ EntryAfter(i).by = p /\ EntryAfter(i).buffered = TRUE
  <2> TAKE i \in Entries' \ Entries
  <2>1. i - Seen \in 1..n /\ EntryAfter(i) = [tok |-> buf[p][i - Seen], by |-> p, buffered |-> TRUE]
        /\ i \in Nat
    BY <1>7
  <2>2. EntryAfter(i).tok = buf[p][i - Seen] /\ EntryAfter(i).by = p /\ EntryAfter(i).buffered = TRUE
    BY <2>1, SMT
  <2>3. i - Seen \in DOMAIN buf[p]
    <3>1. DOMAIN buf[p] = 1..Len(buf[p]) /\ Len(buf[p]) \in Nat
      BY Typed
    <3> QED BY <1>1, <2>1, <3>1
  <2> QED BY <2>1, <2>2, <2>3
<1>9. \A i \in Entries, j \in Entries' \ Entries : i < j /\ ~(j < i)
  <2>1. \A i \in Entries : i \in Nat /\ i <= Seen
    BY <1>7
  <2>2. \A j \in Entries' \ Entries : j \in Nat /\ j > Seen
    BY <1>7
  <2> QED BY <1>7, <2>1, <2>2
<1>10. \A q \in Proc : HasHeld(q)' =>
         \/ q = p /\ IsNew(held'[p].id)
         \/ q # p /\ HasHeld(q) /\ held'[q] = held[q]
  BY <1>1, <1>2 DEF HasHeld, Elsewhere
<1>11. Numbered'
  <2>1. \A i \in Entries' : EntryAfter(i).tok.id < token /\ EntryAfter(i).tok.id \in Nat
    <3>1. \A i \in Entries : EntryAfter(i).tok.id < token /\ EntryAfter(i).tok.id \in Nat
      BY <1>7, Typed DEF Numbered
    <3>2. \A i \in Entries' \ Entries : EntryAfter(i).tok.id < token /\ EntryAfter(i).tok.id \in Nat
      BY <1>8, Typed DEF Numbered
    <3> QED BY <3>1, <3>2
  <2>2. \A i \in Entries' : EntryAfter(i).tok.id < token'
    BY <1>2, <1>3, <2>1
  <2>3. \A q \in Proc : \A k \in DOMAIN buf'[q] : buf'[q][k].id < token /\ buf'[q][k].id \in Nat
    BY <1>5, Typed DEF Numbered
  <2>4. \A q \in Proc : \A k \in DOMAIN buf'[q] : buf'[q][k].id < token'
    BY <1>2, <1>3, <2>3
  <2>5. ASSUME NEW q \in Proc, HasHeld(q)'
        PROVE  /\ held'[q].id < token'
               /\ \A i \in Entries' : EntryAfter(i).tok.id # held'[q].id
               /\ \A r \in Proc : \A k \in DOMAIN buf'[r] : buf'[r][k].id # held'[q].id
               /\ \A r \in Proc : HasHeld(r)' /\ held'[r].id = held'[q].id => r = q
    <3>0. \A r \in Proc : HasHeld(r) => held[r].id < token /\ held[r].id \in Nat
      BY Typed DEF Numbered
    <3>1. CASE q = p
      <4>1. IsNew(held'[p].id)
        BY <1>10, <2>5, <3>1
      <4>2. \A i \in Entries' : EntryAfter(i).tok.id # held'[p].id
        BY <1>3, <2>1, <4>1 DEF IsNew
      <4>3. \A r \in Proc : \A k \in DOMAIN buf'[r] : buf'[r][k].id # held'[p].id
        BY <1>3, <2>3, <4>1 DEF IsNew
      <4>4. \A r \in Proc : HasHeld(r)' /\ held'[r].id = held'[p].id => r = p
        BY <1>3, <1>10, <3>0, <4>1 DEF IsNew
      <4> QED BY <3>1, <4>1, <4>2, <4>3, <4>4 DEF IsNew
    <3>2. CASE q # p
      <4>1. HasHeld(q) /\ held'[q] = held[q] /\ held[q].id < token
        BY <1>10, <2>5, <3>0, <3>2
      <4>2. held'[q].id < token'
        BY <1>2, <1>3, <3>0, <4>1
      <4>3. \A i \in Entries' : EntryAfter(i).tok.id # held'[q].id
        <5>1. \A i \in Entries : EntryAfter(i).tok.id # held'[q].id
          BY <1>7, <4>1 DEF Numbered
        <5>2. \A i \in Entries' \ Entries : EntryAfter(i).tok.id # held'[q].id
          BY <1>8, <4>1 DEF Numbered
        <5> QED BY <5>1, <5>2
      <4>4. \A r \in Proc : \A k \in DOMAIN buf'[r] : buf'[r][k].id # held'[q].id
        BY <1>5, <4>1 DEF Numbered
      <4>5. \A r \in Proc : HasHeld(r)' /\ held'[r].id = held'[q].id => r = q
        <5>1. ~(HasHeld(p)' /\ held'[p].id = held'[q].id)
          BY <1>3, <1>10, <3>0, <4>1 DEF IsNew
        <5>2. \A r \in Proc \ {p} : HasHeld(r)' /\ held'[r].id = held'[q].id => r = q
          BY <1>10, <4>1 DEF Numbered
        <5> QED BY <5>1, <5>2
      <4> QED BY <4>2, <4>3, <4>4, <4>5
    <3> QED BY <3>1, <3>2
  <2> QED BY <2>2, <2>4, <2>5 DEF Numbered
<1>12. Ordered'
  <2>1. \A q \in Proc : \A k, l \in DOMAIN buf'[q] : k < l => buf'[q][k].id < buf'[q][l].id
    BY <1>5 DEF Ordered
  <2>2. ASSUME NEW i \in Entries', EntryAfter(i).buffered
        PROVE  /\ \A k \in DOMAIN buf'[EntryAfter(i).by] :
                    EntryAfter(i).tok.id < buf'[EntryAfter(i).by][k].id
               /\ at'[EntryAfter(i).by] = "store" =>
                    EntryAfter(i).tok.id < held'[EntryAfter(i).by].id
    <3>1. CASE EntryAfter(i).by = p
      <4>1. \A k \in DOMAIN buf'[p] : EntryAfter(i).tok.id < buf'[p][k].id
        BY <1>5
      <4>2. EntryAfter(i).tok.id < token /\ EntryAfter(i).tok.id \in Nat
        <5>1. CASE i \in Entries
          BY <1>7, <5>1, Typed DEF Numbered
        <5>2. CASE i \notin Entries
          BY <1>8, <5>2, Typed DEF Numbered
        <5> QED BY <5>1, <5>2
      <4>3. at'[p] = "store" => EntryAfter(i).tok.id < held'[p].id
        <5>1. held'[p].id \in Nat
          <6>1. held'[p] \in Token \cup {NoToken}
            BY DEF TypeOK
          <6> QED BY <6>1 DEF Token, NoToken
        <5> QED BY <1>1, <1>3, <4>2, <5>1 DEF IsNew
      <4> QED BY <3>1, <4>1, <4>3
    <3>2. CASE EntryAfter(i).by # p
      <4>1. i \in Entries /\ EntryAfter(i) = Entry(i) /\ Entry(i).by \in Proc
        BY <1>7, <1>8, <3>2, Typed
      <4>2. buf'[Entry(i).by] = buf[Entry(i).by]
        BY <1>4, <3>2, <4>1
      <4>3. at'[Entry(i).by] = at[Entry(i).by] /\ held'[Entry(i).by] = held[Entry(i).by]
        BY <1>2, <3>2, <4>1 DEF Elsewhere
      <4>4. /\ \A k \in DOMAIN buf[Entry(i).by] : Entry(i).tok.id < buf[Entry(i).by][k].id
            /\ at[Entry(i).by] = "store" => Entry(i).tok.id < held[Entry(i).by].id
        BY <2>2, <4>1 DEF Ordered
      <4> QED BY <4>1, <4>2, <4>3, <4>4
    <3> QED BY <3>1, <3>2
  <2>3. \A i \in Entries' : life'[EntryAfter(i).by] # "unborn"
    BY <1>2, <1>7, <1>8 DEF Ordered
  <2> QED BY <2>1, <2>2, <2>3 DEF Ordered
<1>13. Copied'
  <2>1. ASSUME NEW i \in Entries', NEW q \in Proc, NEW k \in DOMAIN buf'[q],
               EntryAfter(i).tok.id = buf'[q][k].id
        PROVE  /\ EntryAfter(i).by # q
               /\ EntryAfter(i).tok.id \in Ids(inherited'[EntryAfter(i).by]) \cup Ids(inherited'[q])
    <3>1. q # p /\ k \in DOMAIN buf[q] /\ buf'[q][k] = buf[q][k] /\ inherited' = inherited
      BY <1>2, <1>5
    <3>2. CASE i \in Entries
      <4>1. EntryAfter(i) = Entry(i)
        BY <1>7, <3>2
      <4>2. Entry(i).by # q /\ Entry(i).tok.id \in Born(Entry(i).by, q)
        BY <2>1, <3>1, <3>2, <4>1 DEF Copied
      <4> QED BY <3>1, <4>1, <4>2 DEF Born
    <3>3. CASE i \notin Entries
      <4>1. i - Seen \in DOMAIN buf[p] /\ EntryAfter(i).tok = buf[p][i - Seen] /\ EntryAfter(i).by = p
        BY <1>8, <3>3
      <4>2. buf[p][i - Seen].id \in Born(p, q)
        BY <2>1, <3>1, <4>1 DEF Copied
      <4> QED BY <3>1, <4>1, <4>2 DEF Born
    <3> QED BY <3>2, <3>3
  <2>2. ASSUME NEW q \in Proc, NEW r \in Proc, NEW k \in DOMAIN buf'[q], NEW l \in DOMAIN buf'[r],
               q # r, buf'[q][k].id = buf'[r][l].id
        PROVE  buf'[q][k].id \in Ids(inherited'[q]) \cup Ids(inherited'[r])
    <3>1. k \in DOMAIN buf[q] /\ buf'[q][k] = buf[q][k] /\ l \in DOMAIN buf[r] /\ buf'[r][l] = buf[r][l]
      BY <1>5
    <3> QED BY <1>2, <2>2, <3>1 DEF Copied, Born
  <2> QED BY <2>1, <2>2 DEF Copied, Born, Ids
<1>14. BufferedOrderKept'
  <2>1. ASSUME NEW i \in Entries', NEW j \in Entries', i < j, EntryAfter(i).buffered,
               EntryAfter(j).buffered, EntryAfter(i).by = EntryAfter(j).by
        PROVE  EntryAfter(i).tok.id < EntryAfter(j).tok.id
    <3>1. CASE i \in Entries /\ j \in Entries
      <4>1. EntryAfter(i) = Entry(i) /\ EntryAfter(j) = Entry(j)
        BY <1>7, <3>1
      <4> QED BY <2>1, <3>1, <4>1 DEF BufferedOrderKept
    <3>2. CASE i \in Entries /\ j \notin Entries
      <4>1. EntryAfter(i) = Entry(i)
        BY <1>7, <3>2
      <4>2. j - Seen \in DOMAIN buf[p] /\ EntryAfter(j).tok = buf[p][j - Seen] /\ EntryAfter(j).by = p
        BY <1>8, <3>2
      <4>3. \A k \in DOMAIN buf[p] : Entry(i).tok.id < buf[p][k].id
        BY <2>1, <3>2, <4>1, <4>2 DEF Ordered
      <4> QED BY <4>1, <4>2, <4>3
    <3>3. CASE i \notin Entries /\ j \in Entries
      BY <1>9, <2>1, <3>3, Zenon
    <3>4. CASE i \notin Entries /\ j \notin Entries
      <4>1. /\ i - Seen \in DOMAIN buf[p] /\ EntryAfter(i).tok = buf[p][i - Seen] /\ i \in Nat
            /\ j - Seen \in DOMAIN buf[p] /\ EntryAfter(j).tok = buf[p][j - Seen] /\ j \in Nat
        BY <1>8, <3>4
      <4>2. i - Seen < j - Seen
        BY <1>7, <2>1, <4>1
      <4>3. buf[p][i - Seen].id < buf[p][j - Seen].id
        BY <4>1, <4>2 DEF Ordered
      <4> QED BY <4>1, <4>3
    <3> QED BY <3>1, <3>2, <3>3, <3>4
  <2> QED BY <2>1 DEF BufferedOrderKept
<1>15. DuplicatesComeFromFork'
  <2>0. inherited' = inherited
    BY <1>2
  <2>1. ASSUME NEW i \in Entries, NEW j \in Entries', j \notin Entries,
               EntryAfter(i).tok.id = EntryAfter(j).tok.id
        PROVE  /\ EntryAfter(i).by # EntryAfter(j).by
               /\ EntryAfter(i).tok.id \in Ids(inherited'[EntryAfter(i).by]) \cup Ids(inherited'[EntryAfter(j).by])
    <3>1. EntryAfter(i) = Entry(i)
      BY <1>7
    <3>2. j - Seen \in DOMAIN buf[p] /\ EntryAfter(j).tok = buf[p][j - Seen] /\ EntryAfter(j).by = p
      BY <1>8, <2>1
    <3>3. Entry(i).by # p /\ Entry(i).tok.id \in Born(Entry(i).by, p)
      BY <2>1, <3>1, <3>2 DEF Copied
    <3> QED BY <2>0, <3>1, <3>2, <3>3 DEF Born
  <2>2. ASSUME NEW i \in Entries', NEW j \in Entries', i # j,
               EntryAfter(i).tok.id = EntryAfter(j).tok.id
        PROVE  /\ EntryAfter(i).by # EntryAfter(j).by
               /\ EntryAfter(i).tok.id \in Ids(inherited'[EntryAfter(i).by]) \cup Ids(inherited'[EntryAfter(j).by])
    <3>1. CASE i \in Entries /\ j \in Entries
      <4>1. EntryAfter(i) = Entry(i) /\ EntryAfter(j) = Entry(j)
        BY <1>7, <3>1
      <4> QED BY <2>0, <2>2, <3>1, <4>1 DEF DuplicatesComeFromFork
    <3>2. CASE i \in Entries /\ j \notin Entries
      BY <2>1, <2>2, <3>2
    <3>3. CASE i \notin Entries /\ j \in Entries
      <4>1. /\ EntryAfter(j).by # EntryAfter(i).by
            /\ EntryAfter(j).tok.id \in Ids(inherited'[EntryAfter(j).by]) \cup Ids(inherited'[EntryAfter(i).by])
        BY <2>1, <2>2, <3>3
      <4> QED BY <2>2, <4>1
    <3>4. CASE i \notin Entries /\ j \notin Entries
      <4>1. /\ i - Seen \in DOMAIN buf[p] /\ EntryAfter(i).tok = buf[p][i - Seen] /\ i \in Nat
            /\ j - Seen \in DOMAIN buf[p] /\ EntryAfter(j).tok = buf[p][j - Seen] /\ j \in Nat
        BY <1>8, <3>4
      <4>2. i - Seen < j - Seen \/ j - Seen < i - Seen
        BY <1>7, <2>2, <4>1
      <4>3. /\ buf[p][i - Seen].id \in Nat /\ buf[p][j - Seen].id \in Nat
            /\ \/ buf[p][i - Seen].id < buf[p][j - Seen].id
               \/ buf[p][j - Seen].id < buf[p][i - Seen].id
        BY <4>1, <4>2, Typed DEF Ordered
      <4> QED BY <2>2, <4>1, <4>3
    <3> QED BY <3>1, <3>2, <3>3, <3>4
  <2> QED BY <2>2 DEF DuplicatesComeFromFork, Ids
<1>16. NothingForgotten'
  <2>1. ShownIds(STDOUT_FILENO) \subseteq ShownIds(STDOUT_FILENO)'
    BY <1>7 DEF ShownIds
  <2>2. \A q \in Proc : lost[q] \subseteq lost'[q]
    BY <1>1 DEF Flushed
  <2>3. \A k \in DOMAIN buf[p] : buf[p][k] \in lost'[p] \/ buf[p][k].id \in ShownIds(STDOUT_FILENO)'
    <3> TAKE k \in DOMAIN buf[p]
    <3>1. DOMAIN buf[p] = 1..Len(buf[p]) /\ Len(buf[p]) \in Nat
      BY Typed
    <3>2. CASE k \in 1..n
      <4>1. Seen + k \in Entries' /\ EntryAfter(Seen + k).tok = buf[p][k]
        BY <1>7, <3>2
      <4> QED BY <4>1 DEF ShownIds
    <3>3. CASE k \in n + 1..Len(buf[p])
      BY <1>1, <3>3 DEF Flushed
    <3> QED BY <1>3, <3>1, <3>2, <3>3
  <2>4. ASSUME NEW q \in Proc, life'[q] \in Running \cup {"exit"}
        PROVE  /\ \A t \in Range(accepted'[q]) :
                    t \in Range(buf'[q]) \cup lost'[q] \/ t.id \in ShownIds(STDOUT_FILENO)'
               /\ life'[q] = "exit" => buf'[q] = <<>>
    <3>1. accepted'[q] = accepted[q] /\ life'[q] = life[q]
      BY <1>2
    <3>2. /\ \A t \in Range(accepted[q]) :
               t \in Range(buf[q]) \cup lost[q] \/ t.id \in ShownIds(STDOUT_FILENO)
          /\ life[q] = "exit" => buf[q] = <<>>
      BY <2>4, <3>1 DEF NothingForgotten
    <3>3. CASE q # p
      <4>1. buf'[q] = buf[q]
        BY <1>4, <3>3
      <4> QED BY <2>1, <2>2, <3>1, <3>2, <4>1
    <3>4. CASE q = p
      <4>1. \A t \in Range(buf[p]) : t \in lost'[p] \/ t.id \in ShownIds(STDOUT_FILENO)'
        BY <2>3 DEF Range
      <4>2. life'[q] # "exit"
        BY <1>2, <3>1, <3>4
      <4> QED BY <2>1, <2>2, <3>1, <3>2, <3>4, <4>1, <4>2
    <3> QED BY <3>3, <3>4
  <2> QED BY <2>4 DEF NothingForgotten
<1> QED BY <1>11, <1>12, <1>13, <1>14, <1>15, <1>16 DEF Kept

(* A fork gives the child a copy that the child is born with.               *)
LEMMA ForkKeeps ==
  ASSUME IInv, TypeOK', NEW p \in Proc, NEW c \in Proc, Fork(p, c)
  PROVE  Kept'
<1> USE DEF IInv
<1>1. /\ p # c /\ life[p] = "main" /\ life[c] = "unborn" /\ life'[c] = "main" /\ ~HasHeld(c)
      /\ buf'[c] = buf[p] /\ accepted'[c] = accepted[p] /\ inherited'[c] = buf[p]
      /\ lost'[c] = lost[p]
      /\ \A r \in Proc \ {c} : /\ life'[r] = life[r] /\ buf'[r] = buf[r]
                               /\ accepted'[r] = accepted[r] /\ inherited'[r] = inherited[r]
                               /\ lost'[r] = lost[r]
      /\ UNCHANGED at /\ UNCHANGED held /\ UNCHANGED out /\ UNCHANGED token
  BY ForkCopies
<1>2. \A q \in Proc : (q = c /\ buf'[q] = buf[p]) \/ (q # c /\ buf'[q] = buf[q])
  BY <1>1
<1>3. \A i \in Entries' : /\ i \in Entries /\ EntryAfter(i) = Entry(i)
                          /\ Entry(i).by \in Proc /\ Entry(i).by # c
  BY <1>1, Typed DEF Ordered
<1>4. Numbered'
  <2>1. \A i \in Entries' : EntryAfter(i).tok.id < token'
    BY <1>1 DEF Numbered
  <2>2. \A q \in Proc : \A k \in DOMAIN buf'[q] : buf'[q][k].id < token'
    BY <1>1, <1>2 DEF Numbered
  <2>3. ASSUME NEW q \in Proc, HasHeld(q)'
        PROVE  /\ held'[q].id < token'
               /\ \A i \in Entries' : EntryAfter(i).tok.id # held'[q].id
               /\ \A r \in Proc : \A k \in DOMAIN buf'[r] : buf'[r][k].id # held'[q].id
               /\ \A r \in Proc : HasHeld(r)' /\ held'[r].id = held'[q].id => r = q
    <3>1. HasHeld(q) /\ held' = held /\ \A r \in Proc : HasHeld(r)' <=> HasHeld(r)
      BY <1>1, <2>3 DEF HasHeld
    <3>2. held'[q].id < token'
      BY <1>1, <3>1 DEF Numbered
    <3>3. \A i \in Entries' : EntryAfter(i).tok.id # held'[q].id
      BY <1>3, <3>1 DEF Numbered
    <3>4. \A r \in Proc : \A k \in DOMAIN buf'[r] : buf'[r][k].id # held'[q].id
      BY <1>2, <3>1 DEF Numbered
    <3>5. \A r \in Proc : HasHeld(r)' /\ held'[r].id = held'[q].id => r = q
      BY <3>1 DEF Numbered
    <3> QED BY <3>2, <3>3, <3>4, <3>5
  <2> QED BY <2>1, <2>2, <2>3 DEF Numbered
<1>5. Ordered'
  <2>1. \A q \in Proc : \A k, l \in DOMAIN buf'[q] : k < l => buf'[q][k].id < buf'[q][l].id
    BY <1>2 DEF Ordered
  <2>2. ASSUME NEW i \in Entries', EntryAfter(i).buffered
        PROVE  /\ \A k \in DOMAIN buf'[EntryAfter(i).by] :
                    EntryAfter(i).tok.id < buf'[EntryAfter(i).by][k].id
               /\ at'[EntryAfter(i).by] = "store" =>
                    EntryAfter(i).tok.id < held'[EntryAfter(i).by].id
    <3>1. i \in Entries /\ EntryAfter(i) = Entry(i) /\ buf'[Entry(i).by] = buf[Entry(i).by]
          /\ at' = at /\ held' = held
      BY <1>1, <1>2, <1>3
    <3>2. /\ \A k \in DOMAIN buf[Entry(i).by] : Entry(i).tok.id < buf[Entry(i).by][k].id
          /\ at[Entry(i).by] = "store" => Entry(i).tok.id < held[Entry(i).by].id
      BY <2>2, <3>1 DEF Ordered
    <3> QED BY <3>1, <3>2
  <2>3. \A i \in Entries' : life'[EntryAfter(i).by] # "unborn"
    BY <1>1, <1>3 DEF Ordered
  <2> QED BY <2>1, <2>2, <2>3 DEF Ordered
<1>6. \A k \in DOMAIN buf[p] : buf[p][k].id \in Ids(inherited'[c])
  BY <1>1 DEF Ids
<1>7. Copied'
  <2>1. ASSUME NEW i \in Entries', NEW q \in Proc, NEW k \in DOMAIN buf'[q],
               EntryAfter(i).tok.id = buf'[q][k].id
        PROVE  /\ EntryAfter(i).by # q
               /\ EntryAfter(i).tok.id \in Ids(inherited'[EntryAfter(i).by]) \cup Ids(inherited'[q])
    <3>1. i \in Entries /\ EntryAfter(i) = Entry(i) /\ Entry(i).by \in Proc /\ Entry(i).by # c
          /\ inherited'[Entry(i).by] = inherited[Entry(i).by]
      BY <1>1, <1>3
    <3>2. CASE q = c
      BY <1>2, <1>6, <2>1, <3>1, <3>2
    <3>3. CASE q # c
      <4>1. buf'[q] = buf[q] /\ inherited'[q] = inherited[q]
        BY <1>1, <3>3
      <4>2. Entry(i).by # q /\ Entry(i).tok.id \in Born(Entry(i).by, q)
        BY <2>1, <3>1, <4>1 DEF Copied
      <4> QED BY <3>1, <4>1, <4>2 DEF Born
    <3> QED BY <3>2, <3>3
  <2>2. ASSUME NEW q \in Proc, NEW r \in Proc, NEW k \in DOMAIN buf'[q], NEW l \in DOMAIN buf'[r],
               q # r, buf'[q][k].id = buf'[r][l].id
        PROVE  buf'[q][k].id \in Ids(inherited'[q]) \cup Ids(inherited'[r])
    <3>1. CASE q = c
      BY <1>1, <1>6, <2>2, <3>1
    <3>2. CASE r = c
      BY <1>1, <1>6, <2>2, <3>2
    <3>3. CASE q # c /\ r # c
      <4>1. buf'[q] = buf[q] /\ inherited'[q] = inherited[q]
            /\ buf'[r] = buf[r] /\ inherited'[r] = inherited[r]
        BY <1>1, <3>3
      <4>2. buf[q][k].id \in Born(q, r)
        BY <2>2, <4>1 DEF Copied
      <4> QED BY <4>1, <4>2 DEF Born
    <3> QED BY <3>1, <3>2, <3>3
  <2> QED BY <2>1, <2>2 DEF Copied, Born, Ids
<1>8. BufferedOrderKept'
  BY <1>1 DEF BufferedOrderKept
<1>9. DuplicatesComeFromFork'
  <2>1. ASSUME NEW i \in Entries', NEW j \in Entries', i # j,
               EntryAfter(i).tok.id = EntryAfter(j).tok.id
        PROVE  /\ EntryAfter(i).by # EntryAfter(j).by
               /\ EntryAfter(i).tok.id \in Ids(inherited'[EntryAfter(i).by]) \cup Ids(inherited'[EntryAfter(j).by])
    <3>1. /\ i \in Entries /\ EntryAfter(i) = Entry(i) /\ inherited'[Entry(i).by] = inherited[Entry(i).by]
          /\ j \in Entries /\ EntryAfter(j) = Entry(j) /\ inherited'[Entry(j).by] = inherited[Entry(j).by]
      BY <1>1, <1>3
    <3>2. /\ Entry(i).by # Entry(j).by
          /\ Entry(i).tok.id \in Ids(inherited[Entry(i).by]) \cup Ids(inherited[Entry(j).by])
      BY <2>1, <3>1 DEF DuplicatesComeFromFork
    <3> QED BY <3>1, <3>2
  <2> QED BY <2>1 DEF DuplicatesComeFromFork, Ids
<1>10. NothingForgotten'
  <2>1. ShownIds(STDOUT_FILENO)' = ShownIds(STDOUT_FILENO)
    BY <1>1 DEF ShownIds
  <2>2. ASSUME NEW q \in Proc, life'[q] \in Running \cup {"exit"}
        PROVE  /\ \A t \in Range(accepted'[q]) :
                    t \in Range(buf'[q]) \cup lost'[q] \/ t.id \in ShownIds(STDOUT_FILENO)'
               /\ life'[q] = "exit" => buf'[q] = <<>>
    <3>1. CASE q = c
      <4>1. \A t \in Range(accepted[p]) :
              t \in Range(buf[p]) \cup lost[p] \/ t.id \in ShownIds(STDOUT_FILENO)
        BY <1>1 DEF NothingForgotten, Running
      <4> QED BY <1>1, <2>1, <3>1, <4>1
    <3>2. CASE q # c
      <4>1. accepted'[q] = accepted[q] /\ buf'[q] = buf[q] /\ lost'[q] = lost[q] /\ life'[q] = life[q]
        BY <1>1, <3>2
      <4>2. /\ \A t \in Range(accepted[q]) :
                 t \in Range(buf[q]) \cup lost[q] \/ t.id \in ShownIds(STDOUT_FILENO)
            /\ life[q] = "exit" => buf[q] = <<>>
        BY <2>2, <4>1 DEF NothingForgotten
      <4> QED BY <2>1, <4>1, <4>2
    <3> QED BY <3>1, <3>2
  <2> QED BY <2>2 DEF NothingForgotten
<1> QED BY <1>4, <1>5, <1>7, <1>8, <1>9, <1>10 DEF Kept

(* A step that only changes a life or a place.                              *)
LEMMA TurnsKeeps ==
  ASSUME IInv, TypeOK', NEW p \in Proc, Turns(p)
  PROVE  Kept'
<1> USE DEF IInv
<1>1. /\ UNCHANGED held /\ UNCHANGED buf /\ UNCHANGED out /\ UNCHANGED token
      /\ UNCHANGED accepted /\ UNCHANGED inherited /\ UNCHANGED lost
      /\ \A q \in Proc \ {p} : at'[q] = at[q] /\ life'[q] = life[q]
      /\ at'[p] \in {at[p], "user"}
      /\ life[p] # "unborn" /\ life'[p] # "unborn"
      /\ life'[p] \in Running \cup {"exit"} => life[p] \in Running
      /\ life'[p] = "exit" => buf[p] = <<>>
  BY DEF Turns
<1>2. \A q \in Proc : /\ HasHeld(q)' => HasHeld(q)
                      /\ at'[q] = "store" => at[q] = "store"
  BY <1>1 DEF HasHeld
<1>3. Numbered'
  BY <1>1, <1>2 DEF Numbered
<1>4. Ordered'
  <2>1. \A q \in Proc : life[q] # "unborn" => life'[q] # "unborn"
    BY <1>1
  <2>2. \A i \in Entries' : i \in Entries /\ EntryAfter(i) = Entry(i) /\ Entry(i).by \in Proc
    BY <1>1, Typed
  <2>3. \A q \in Proc : \A k, l \in DOMAIN buf'[q] : k < l => buf'[q][k].id < buf'[q][l].id
    BY <1>1 DEF Ordered
  <2>4. ASSUME NEW i \in Entries', EntryAfter(i).buffered
        PROVE  /\ \A k \in DOMAIN buf'[EntryAfter(i).by] :
                    EntryAfter(i).tok.id < buf'[EntryAfter(i).by][k].id
               /\ at'[EntryAfter(i).by] = "store" =>
                    EntryAfter(i).tok.id < held'[EntryAfter(i).by].id
    <3>1. /\ \A k \in DOMAIN buf[Entry(i).by] : Entry(i).tok.id < buf[Entry(i).by][k].id
          /\ at[Entry(i).by] = "store" => Entry(i).tok.id < held[Entry(i).by].id
      BY <2>2, <2>4 DEF Ordered
    <3>2. buf' = buf /\ held' = held
      BY <1>1
    <3> QED BY <1>2, <2>2, <3>1, <3>2
  <2>5. \A i \in Entries' : life'[EntryAfter(i).by] # "unborn"
    BY <2>1, <2>2 DEF Ordered
  <2> QED BY <2>3, <2>4, <2>5 DEF Ordered
<1>5. Copied'
  BY <1>1 DEF Copied, Born, Ids
<1>6. BufferedOrderKept'
  BY <1>1 DEF BufferedOrderKept
<1>7. DuplicatesComeFromFork'
  <2>1. ASSUME NEW i \in Entries', NEW j \in Entries', i # j,
               EntryAfter(i).tok.id = EntryAfter(j).tok.id
        PROVE  /\ EntryAfter(i).by # EntryAfter(j).by
               /\ EntryAfter(i).tok.id \in Ids(inherited'[EntryAfter(i).by]) \cup Ids(inherited'[EntryAfter(j).by])
    <3>1. out' = out /\ inherited' = inherited
      BY <1>1
    <3>2. i \in Entries /\ EntryAfter(i) = Entry(i) /\ j \in Entries /\ EntryAfter(j) = Entry(j)
      BY <3>1
    <3>3. /\ Entry(i).by # Entry(j).by
          /\ Entry(i).tok.id \in Ids(inherited[Entry(i).by]) \cup Ids(inherited[Entry(j).by])
      BY <2>1, <3>2 DEF DuplicatesComeFromFork
    <3> QED BY <3>1, <3>2, <3>3
  <2> QED BY <2>1 DEF DuplicatesComeFromFork, Ids
<1>8. NothingForgotten'
  <2>1. ShownIds(STDOUT_FILENO)' = ShownIds(STDOUT_FILENO)
    BY <1>1 DEF ShownIds
  <2>2. ASSUME NEW q \in Proc, life'[q] \in Running \cup {"exit"}
        PROVE  /\ \A t \in Range(accepted'[q]) :
                    t \in Range(buf'[q]) \cup lost'[q] \/ t.id \in ShownIds(STDOUT_FILENO)'
               /\ life'[q] = "exit" => buf'[q] = <<>>
    <3>1. life[q] \in Running \cup {"exit"} /\ (life'[q] = "exit" => buf[q] = <<>>)
      <4>1. CASE q = p
        BY <1>1, <2>2, <4>1
      <4>2. CASE q # p
        BY <1>1, <2>2, <4>2 DEF NothingForgotten
      <4> QED BY <4>1, <4>2
    <3>2. \A t \in Range(accepted[q]) :
            t \in Range(buf[q]) \cup lost[q] \/ t.id \in ShownIds(STDOUT_FILENO)
      BY <3>1 DEF NothingForgotten
    <3>3. accepted' = accepted /\ buf' = buf /\ lost' = lost
      BY <1>1
    <3> QED BY <2>1, <3>1, <3>2, <3>3
  <2> QED BY <2>2 DEF NothingForgotten
<1> QED BY <1>3, <1>4, <1>5, <1>6, <1>7, <1>8 DEF Kept

-----------------------------------------------------------------------------
(* The induction.                                                           *)
LEMMA InitIInv == Init => IInv
<1> SUFFICES ASSUME Init PROVE IInv
  OBVIOUS
<1>1. /\ buf = [p \in Proc |-> <<>>] /\ out = [fd \in Fd |-> <<>>]
      /\ at = [p \in Proc |-> "user"] /\ accepted = [p \in Proc |-> <<>>]
      /\ life = [p \in Proc |-> IF p = Root THEN "init" ELSE "unborn"]
  BY DEF Init
<1>2. Entries = {} /\ \A p \in Proc : DOMAIN buf[p] = {}
  BY <1>1 DEF Fd
<1>3. \A p \in Proc : ~HasHeld(p) /\ Range(accepted[p]) = {}
  BY <1>1 DEF HasHeld, Range
<1>4. TypeOK
  <2>1. life \in [Proc -> Life]
    BY <1>1 DEF Life, Running
  <2>2. held \in [Proc -> Token \cup {NoToken}]
    BY DEF Init
  <2>3. buf \in [Proc -> Seq(Token)] /\ \A p \in Proc : Len(buf[p]) <= BUF_SIZE
    BY <1>1
  <2>4. out \in [Fd -> Seq(Shown)] /\ accepted \in [Proc -> Seq(Token)]
        /\ inherited \in [Proc -> Seq(Token)] /\ lost \in [Proc -> SUBSET Token]
    BY <1>1 DEF Init
  <2>5. token \in 1..MaxToken + 1 /\ faults \in 0..MaxFault
    BY DEF Init
  <2>6. errno \in [Proc -> {"0", "-1", "EIO"}] /\ at \in [Proc -> {"user", "store", "newline", "puts", "exit"}]
    BY DEF Init
  <2> QED BY <2>1, <2>2, <2>3, <2>4, <2>5, <2>6 DEF TypeOK
<1>5. Places
  BY <1>1, <1>3 DEF Places
<1>6. Numbered /\ Ordered /\ Copied
  BY <1>2, <1>3 DEF Numbered, Ordered, Copied
<1>7. BufferedOrderKept /\ DuplicatesComeFromFork
  BY <1>2 DEF BufferedOrderKept, DuplicatesComeFromFork
<1>8. NothingForgotten
  BY <1>1, <1>3 DEF NothingForgotten
<1> QED BY <1>4, <1>5, <1>6, <1>7, <1>8 DEF IInv

LEMMA StutterKeepsIInv == IInv /\ UNCHANGED vars => IInv'
<1> SUFFICES ASSUME IInv, UNCHANGED vars PROVE IInv'
  OBVIOUS
<1> USE DEF IInv
<1>1. /\ life' = life /\ at' = at /\ held' = held /\ buf' = buf /\ errno' = errno /\ out' = out
      /\ token' = token /\ faults' = faults /\ accepted' = accepted
      /\ inherited' = inherited /\ lost' = lost
  BY DEF vars
<1>2. TypeOK'
  BY <1>1 DEF TypeOK
<1>3. Places' /\ Numbered' /\ Ordered'
  BY <1>1 DEF Places, Numbered, Ordered, HasHeld
<1>4. Copied'
  BY <1>1 DEF Copied, Born, Ids
<1>5. BufferedOrderKept' /\ DuplicatesComeFromFork'
  <2>1. BufferedOrderKept'
    BY <1>1 DEF BufferedOrderKept
  <2>2. ASSUME NEW i \in Entries', NEW j \in Entries', i # j,
               EntryAfter(i).tok.id = EntryAfter(j).tok.id
        PROVE  /\ EntryAfter(i).by # EntryAfter(j).by
               /\ EntryAfter(i).tok.id \in Ids(inherited'[EntryAfter(i).by]) \cup Ids(inherited'[EntryAfter(j).by])
    <3>1. i \in Entries /\ EntryAfter(i) = Entry(i) /\ j \in Entries /\ EntryAfter(j) = Entry(j)
      BY <1>1
    <3>2. /\ Entry(i).by # Entry(j).by
          /\ Entry(i).tok.id \in Ids(inherited[Entry(i).by]) \cup Ids(inherited[Entry(j).by])
      BY <2>2, <3>1 DEF DuplicatesComeFromFork
    <3> QED BY <1>1, <3>1, <3>2
  <2>3. DuplicatesComeFromFork'
    BY <2>2 DEF DuplicatesComeFromFork, Ids
  <2> QED BY <2>1, <2>3
<1>6. NothingForgotten'
  BY <1>1 DEF NothingForgotten, ShownIds
<1> QED BY <1>2, <1>3, <1>4, <1>5, <1>6

LEMMA StepKeepsIInv == IInv /\ [Next]_vars => IInv'
<1> SUFFICES ASSUME IInv, [Next]_vars PROVE IInv'
  OBVIOUS
<1>1. CASE UNCHANGED vars
  BY <1>1, StutterKeepsIInv
<1>2. CASE Next
  <2>1. PICK p \in Proc : ProcStep(p)
    BY <1>2 DEF Next
  <2>2. TypeOK' /\ Places' /\ Kinds(p)
    BY <2>1, EveryStepIsOfAKind DEF IInv
  <2>3. Kept'
    BY <2>2, EmitsKeeps, StoresKeeps, FlushesKeeps, ForkKeeps, TurnsKeeps DEF Kinds
  <2> QED BY <2>2, <2>3 DEF IInv, Kept
<1> QED BY <1>1, <1>2

(* The inductive invariant holds always.                                   *)
THEOREM IInvAlways == Spec => []IInv
<1>1. Init => IInv
  BY InitIInv
<1>2. IInv /\ [Next]_vars => IInv'
  BY StepKeepsIInv
<1> QED BY <1>1, <1>2, PTL DEF Spec

(* stdout_buf never holds more than BUF_SIZE bytes, so fputc never stores  *)
(* behind it, and every variable has its type.                             *)
THEOREM TypeCorrect == Spec => []TypeOK
<1>1. IInv => TypeOK
  BY DEF IInv
<1> QED BY <1>1, IInvAlways, PTL

(* What the flushes of a process put on descriptor 1 are its bytes in the  *)
(* order fputc accepted them, whatever writes fail or are cut short.       *)
THEOREM BufferedOrder == Spec => []BufferedOrderKept
<1>1. IInv => BufferedOrderKept
  BY DEF IInv
<1> QED BY <1>1, IInvAlways, PTL

(* Only a fork with bytes in the buffer makes a byte appear twice.         *)
THEOREM DuplicatesOnlyByFork == Spec => []DuplicatesComeFromFork
<1>1. IInv => DuplicatesComeFromFork
  BY DEF IInv
<1> QED BY <1>1, IInvAlways, PTL

(* A byte fputc accepted is in the buffer, on descriptor 1, or was dropped *)
(* by a flush whose write failed, as long as its process runs; exit leaves *)
(* nothing in the buffer.                                                  *)
THEOREM NothingIsForgotten == Spec => []NothingForgotten
<1>1. IInv => NothingForgotten
  BY DEF IInv
<1> QED BY <1>1, IInvAlways, PTL
=============================================================================
