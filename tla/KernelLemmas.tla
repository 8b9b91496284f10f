---------------------------- MODULE KernelLemmas ----------------------------
(***************************************************************************)
(* What one system call does to the kernel's state, proved for every task, *)
(* register content and size of the machine, after two of its tools: what  *)
(* sequences of sequences flatten to, and what a write does to the UART.   *)
(* SyscallTasksProofs and KernelProofs build their invariants on these     *)
(* lemmas.                                                                 *)
(***************************************************************************)
EXTENDS Syscall, Uart, SequencesExt, WellFoundedInduction, TLAPS

(* A non-empty set of naturals has a least element to CHOOSE.              *)
LEMMA LeastExists ==
    ASSUME NEW S, S \subseteq Nat, S # {}
    PROVE  LET m == CHOOSE i \in S : \A j \in S : i <= j
           IN  m \in S /\ \A j \in S : m <= j
<1>1. PICK x \in S : \A y \in S : ~(<<y, x>> \in OpToRel(<, Nat))
  BY NatLessThanWellFounded, WFMin
<1>2. \A y \in S : x <= y
  <2> SUFFICES ASSUME NEW y \in S PROVE ~(y < x)
    OBVIOUS
  <2> QED
    BY <1>1 DEF OpToRel
<1> QED
  BY <1>2

(* Induction over the naturals, said of a set of them.                     *)
LEMMA SetInduction ==
    ASSUME NEW S, 0 \in S, \A n \in Nat : n \in S => n + 1 \in S
    PROVE  Nat \subseteq S
<1> SUFFICES ASSUME Nat \ S # {} PROVE FALSE
  OBVIOUS
<1>1. PICK m \in Nat \ S : \A j \in Nat \ S : m <= j
  <2>1. Nat \ S \subseteq Nat
    OBVIOUS
  <2> QED
    BY <2>1, LeastExists
<1>2. m - 1 \in Nat /\ m - 1 \in S
  BY <1>1
<1> QED
  BY <1>1, <1>2

(* What FlattenSeq computes: nothing of nothing, and one piece more.       *)
Pieces == Seq(Seq(Int))

Flattens(f, ss, n) ==
    \A i \in 1..n : f[i] = IF i = 1 THEN ss[i] ELSE f[i - 1] \o ss[i]

LEMMA FlatteningExists ==
    ASSUME NEW ss \in Pieces
    PROVE  \A n \in Nat : n <= Len(ss) =>
             \E f \in [1..n -> Seq(Int)] : Flattens(f, ss, n)
<1> DEFINE S == {n \in Nat : n <= Len(ss) =>
                   \E f \in [1..n -> Seq(Int)] : Flattens(f, ss, n)}
<1>1. 0 \in S
  <2> DEFINE f == [i \in 1..0 |-> << >>]
  <2>1. f \in [1..0 -> Seq(Int)] /\ Flattens(f, ss, 0)
    BY DEF Flattens
  <2> QED
    BY <2>1
<1>2. ASSUME NEW n \in Nat, n \in S PROVE n + 1 \in S
  <2> SUFFICES ASSUME n + 1 <= Len(ss)
               PROVE  \E f \in [1..(n + 1) -> Seq(Int)] : Flattens(f, ss, n + 1)
    OBVIOUS
  <2>1. Len(ss) \in Nat /\ n <= Len(ss)
    BY DEF Pieces
  <2>2. PICK f \in [1..n -> Seq(Int)] : Flattens(f, ss, n)
    BY <1>2, <2>1
  <2>3. ss[n + 1] \in Seq(Int)
    BY <2>1 DEF Pieces
  <2> DEFINE new == IF n = 0 THEN ss[n + 1] ELSE f[n] \o ss[n + 1]
  <2>4. new \in Seq(Int)
    BY <2>3
  <2> HIDE DEF new
  <2> DEFINE g == [i \in 1..(n + 1) |-> IF i = n + 1 THEN new ELSE f[i]]
  <2>5. g \in [1..(n + 1) -> Seq(Int)]
    BY <2>4
  <2>6. g[n + 1] = new /\ \A i \in 1..n : g[i] = f[i]
    OBVIOUS
  <2> HIDE DEF g
  <2>7. ASSUME NEW i \in 1..(n + 1)
        PROVE  g[i] = IF i = 1 THEN ss[i] ELSE g[i - 1] \o ss[i]
    <3>1. CASE i = n + 1
      <4>1. n # 0 => g[n] = f[n] /\ i - 1 = n
        BY <2>6, <3>1
      <4> QED
        BY <2>6, <3>1, <4>1 DEF new
    <3>2. CASE i # n + 1
      <4>1. i \in 1..n /\ g[i] = f[i] /\ (i # 1 => g[i - 1] = f[i - 1])
        BY <2>6, <3>2
      <4> QED
        BY <2>2, <4>1 DEF Flattens
    <3> QED
      BY <3>1, <3>2
  <2>8. Flattens(g, ss, n + 1)
    BY <2>7 DEF Flattens
  <2> QED
    BY <2>5, <2>8
<1> HIDE DEF S
<1>3. Nat \subseteq S
  BY <1>1, <1>2, SetInduction
<1> QED
  BY <1>3 DEF S

LEMMA FlatteningUnique ==
    ASSUME NEW ss, NEW n \in Nat,
           NEW f, Flattens(f, ss, n), NEW g, Flattens(g, ss, n)
    PROVE  \A i \in 1..n : f[i] = g[i]
<1> DEFINE S == {k \in Nat : k + 1 \in 1..n => f[k + 1] = g[k + 1]}
<1>1. 0 \in S
  BY DEF Flattens
<1>2. ASSUME NEW k \in Nat, k \in S PROVE k + 1 \in S
  <2> DEFINE i == k + 2
  <2> SUFFICES ASSUME i \in 1..n PROVE f[i] = g[i]
    OBVIOUS
  <2>1. i - 1 = k + 1 /\ i # 1 /\ k + 1 \in 1..n 
    OBVIOUS
  <2>2. f[k + 1] = g[k + 1]
    BY <1>2, <2>1
  <2> HIDE DEF i
  <2>3. f[i] = f[i - 1] \o ss[i] /\ g[i] = g[i - 1] \o ss[i]
    BY <2>1 DEF Flattens
  <2> QED
    BY <2>1, <2>2, <2>3
<1> HIDE DEF S
<1>3. Nat \subseteq S
  BY <1>1, <1>2, SetInduction
<1>4. ASSUME NEW i \in 1..n PROVE f[i] = g[i]
  <2>1. i - 1 \in S
    BY <1>3
  <2> QED
    BY <2>1 DEF S
<1> QED
  BY <1>4

(* The recursive function in FlattenSeq is the one there is.               *)
LEMMA FlattenIs ==
    ASSUME NEW ss \in Pieces, ss # << >>
    PROVE  \E f : /\ Flattens(f, ss, Len(ss))
                  /\ FlattenSeq(ss) = f[Len(ss)] /\ f[Len(ss)] \in Seq(Int)
<1> DEFINE Fun(f) == f = [i \in 1..Len(ss) |->
                            IF i = 1 THEN ss[i] ELSE f[i - 1] \o ss[i]]
           h == CHOOSE f : Fun(f)
<1>1. Len(ss) \in Nat /\ Len(ss) # 0
  BY DEF Pieces
<1>2. PICK f \in [1..Len(ss) -> Seq(Int)] : Flattens(f, ss, Len(ss))
  BY <1>1, FlatteningExists
<1>3. Fun(f)
  BY <1>2 DEF Flattens
<1>4. Fun(h)
  <2>1. \E f1 : Fun(f1)
    BY <1>3
  <2> HIDE DEF Fun
  <2> QED
    BY <2>1
<1>5. FlattenSeq(ss) = h[Len(ss)]
  BY <1>1 DEF FlattenSeq
<1>6. Flattens(h, ss, Len(ss))
  <2> HIDE DEF h
  <2>1. \A i \in 1..Len(ss) :
          h[i] = [j \in 1..Len(ss) |-> IF j = 1 THEN ss[j] ELSE h[j - 1] \o ss[j]][i]
    BY <1>4
  <2> QED
    BY <2>1 DEF Flattens
<1>7. h[Len(ss)] = f[Len(ss)]
  <2> HIDE DEF h
  <2>1. \A i \in 1..Len(ss) : f[i] = h[i]
    BY <1>1, <1>2, <1>6, FlatteningUnique
  <2>2. Len(ss) \in 1..Len(ss)
    BY <1>1
  <2> QED
    BY <2>1, <2>2
<1>8. f[Len(ss)] \in Seq(Int)
  BY <1>1
<1> QED
  BY <1>2, <1>5, <1>7, <1>8

LEMMA FlattenEmpty == FlattenSeq(<< >>) = << >>
BY DEF FlattenSeq

LEMMA FlattenType ==
    ASSUME NEW ss \in Pieces
    PROVE  FlattenSeq(ss) \in Seq(Int)
<1>1. CASE ss = << >>
  <2>1. << >> \in Seq(Int)
    OBVIOUS
  <2> QED
    BY <1>1, <2>1, FlattenEmpty, Zenon
<1>2. CASE ss # << >>
  <2>1. Len(ss) \in 1..Len(ss)
    BY <1>2 DEF Pieces
  <2> QED
    BY <1>2, <2>1, FlattenIs
<1> QED
  BY <1>1, <1>2

LEMMA ConcatAssoc ==
    ASSUME NEW a \in Seq(Int), NEW b \in Seq(Int), NEW c \in Seq(Int)
    PROVE  (a \o b) \o c = a \o (b \o c)
OBVIOUS

LEMMA AppendIs ==
    ASSUME NEW S, NEW s \in Seq(S), NEW x \in S
    PROVE  /\ Len(s) \in Nat /\ Append(s, x) \in Seq(S) /\ Append(s, x) # << >>
           /\ Len(Append(s, x)) = Len(s) + 1 /\ Append(s, x)[Len(s) + 1] = x
           /\ \A i \in 1..Len(s) : Append(s, x)[i] = s[i]
OBVIOUS

LEMMA FlattenAppend ==
    ASSUME NEW ss \in Pieces, NEW x \in Seq(Int)
    PROVE  FlattenSeq(Append(ss, x)) = FlattenSeq(ss) \o x
<1>1. PICK n \in Nat : n = Len(ss)
  BY DEF Pieces
<1>2. PICK tt \in Pieces : tt = Append(ss, x)
  BY AppendIs DEF Pieces
<1>3. /\ tt # << >> /\ Len(tt) = n + 1 /\ tt[n + 1] = x
      /\ \A i \in 1..n : ss[i] = tt[i]
  BY <1>1, <1>2, AppendIs DEF Pieces
<1>4. PICK g : Flattens(g, tt, n + 1) /\ FlattenSeq(tt) = g[n + 1]
  BY <1>3, FlattenIs
<1>5. Flattens(g, ss, n)
  <2>1. 1..n \subseteq 1..(n + 1)
    OBVIOUS
  <2> QED
    BY <1>3, <1>4, <2>1 DEF Flattens
<1>6. CASE ss = << >>
  <2>1. g[1] = x /\ n = 0
    BY <1>1, <1>3, <1>4, <1>6 DEF Flattens
  <2> QED
    BY <1>2, <1>4, <1>6, <2>1, FlattenEmpty
<1>7. CASE ss # << >>
  <2>1. PICK f : Flattens(f, ss, n) /\ FlattenSeq(ss) = f[n]
    BY <1>1, <1>7, FlattenIs
  <2>2. n \in 1..n /\ n + 1 \in 1..(n + 1) /\ n + 1 # 1 /\ (n + 1) - 1 = n
    BY <1>1, <1>7 DEF Pieces
  <2>3. \A i \in 1..n : f[i] = g[i]
    BY <1>5, <2>1, FlatteningUnique
  <2>4. g[n + 1] = g[n] \o tt[n + 1]
    BY <1>4, <2>2 DEF Flattens
  <2> QED
    BY <1>2, <1>3, <1>4, <2>1, <2>2, <2>3, <2>4
<1> QED
  BY <1>6, <1>7

-----------------------------------------------------------------------------
(* A UART with these registers, its interrupts on or off.                  *)
Registers(u, fifo, dlab, divisor, format) ==
    /\ u \in UartState
    /\ u.fifo = fifo /\ u.dlab = dlab /\ u.divisor = divisor /\ u.format = format

(* One write to a port: the register it sets and those it leaves alone.    *)
LEMMA OutbEffect ==
    ASSUME NEW u \in UartState, NEW value \in Int
    PROVE  /\ Registers(Outb(u, "LINE_CONTROL", value), u.fifo, value >= 128, u.divisor,
                   value % 128)
           /\ u.dlab => Registers(Outb(u, "DATA", value), u.fifo, TRUE, value, u.format)
           /\ ~u.dlab /\ u.fifo = << >> =>
                Registers(Outb(u, "DATA", value), <<value>>, FALSE, u.divisor, u.format)
           /\ Registers(Outb(u, "INTERRUPT", value), u.fifo, u.dlab, u.divisor, u.format)
           /\ Registers(Outb(u, "FIFO", value), << >>, u.dlab, u.divisor, u.format)
           /\ Registers(Outb(u, "MODEM_CONTROL", value), u.fifo, u.dlab, u.divisor, u.format)
<1> USE DEF Outb, Registers, UartState
<1>1. Registers(Outb(u, "LINE_CONTROL", value), u.fifo, value >= 128, u.divisor, value % 128)
  <2> DEFINE w == Outb(u, "LINE_CONTROL", value)
  <2>1. (value >= 128) \in BOOLEAN /\ value % 128 \in Int
    OBVIOUS
  <2>2. w.fifo = u.fifo /\ w.divisor = u.divisor /\ w.format = value % 128
    OBVIOUS
  <2>3. w.dlab = (value >= 128)
    OBVIOUS
  <2>4. w \in UartState
    BY <2>1
  <2> QED
    BY <2>2, <2>3, <2>4
<1>2. u.dlab => Registers(Outb(u, "DATA", value), u.fifo, TRUE, value, u.format)
  OBVIOUS
<1>3. ~u.dlab /\ u.fifo = << >> =>
        Registers(Outb(u, "DATA", value), <<value>>, FALSE, u.divisor, u.format)
  <2>1. u.fifo = << >> => Len(u.fifo) # FifoSize /\ Append(u.fifo, value) = <<value>>
    BY FifoAssumption
  <2>2. <<value>> \in Seq(Int)
    OBVIOUS
  <2> SUFFICES ASSUME ~u.dlab, u.fifo = << >>
               PROVE  Registers(Outb(u, "DATA", value), <<value>>, FALSE, u.divisor, u.format)
    OBVIOUS
  <2>3. Outb(u, "DATA", value) = [u EXCEPT !.fifo = <<value>>]
    BY <2>1
  <2> QED
    BY <2>2, <2>3
<1>4. Registers(Outb(u, "INTERRUPT", value), u.fifo, u.dlab, u.divisor, u.format)
  OBVIOUS
<1>5. Registers(Outb(u, "FIFO", value), << >>, u.dlab, u.divisor, u.format)
  <2>1. Outb(u, "FIFO", value) = [u EXCEPT !.fifo = << >>] /\ << >> \in Seq(Int)
    OBVIOUS
  <2> QED
    BY <2>1
<1>6. Registers(Outb(u, "MODEM_CONTROL", value), u.fifo, u.dlab, u.divisor, u.format)
  OBVIOUS
<1> QED
  BY <1>1, <1>2, <1>3, <1>4, <1>5, <1>6

(* The UART sends the first byte of its buffer as it is, at 38400 8N1.     *)
LEMMA SentEffect ==
    ASSUME NEW u \in UartState, u.fifo # << >>
    PROVE  /\ Sent(u) \in UartState /\ Sent(u).fifo = Tail(u.fifo)
           /\ Sent(u).dlab = u.dlab /\ Sent(u).divisor = u.divisor
           /\ Sent(u).format = u.format
           /\ u.divisor = 3 /\ u.format = 3 => Arriving(u) = Head(u.fifo)
<1>1. Sent(u) \in UartState
  <2>1. u.fifo \in Seq(Int)
    BY DEF UartState
  <2>2. Tail(u.fifo) \in Seq(Int)
    BY <2>1
  <2> QED
    BY <2>1, <2>2 DEF Sent, UartState
<1>2. Sent(u).fifo = Tail(u.fifo)
  BY DEF Sent, UartState
<1>3. Sent(u).dlab = u.dlab /\ Sent(u).divisor = u.divisor /\ Sent(u).format = u.format
  BY DEF Sent, UartState
<1>4. u.divisor = 3 /\ u.format = 3 => Arriving(u) = Head(u.fifo)
  BY DEF Arriving
<1> QED
  BY <1>1, <1>2, <1>3, <1>4

-----------------------------------------------------------------------------
(* kfs_lookup answers NULL or a valid node of the table.                   *)
LEMMA LookupSound ==
    ASSUME NEW table \in Seq(Node), NEW path, KfsLookup(table, path) # Null
    PROVE  KfsLookup(table, path) \in Node /\ NodeIsValid(KfsLookup(table, path))
<1>1. Matches(table, path) # {} /\ path # << >>
  BY DEF KfsLookup
<1>2. Matches(table, path) \subseteq Nat
  BY DEF Matches
<1> DEFINE m == CHOOSE i \in Matches(table, path) :
                   \A j \in Matches(table, path) : i <= j
<1>3. m \in Matches(table, path)
  BY <1>1, <1>2, LeastExists
<1>4. KfsLookup(table, path) = table[m]
  BY <1>1 DEF KfsLookup
<1> HIDE DEF m
<1> QED
  BY <1>3, <1>4 DEF Matches

(* The node it answers has the path asked for.                             *)
LEMMA LookupPath ==
    ASSUME NEW table \in Seq(Node), NEW path, KfsLookup(table, path) # Null
    PROVE  KfsLookup(table, path).path = path
<1>1. Matches(table, path) # {} /\ path # << >>
  BY DEF KfsLookup
<1>2. Matches(table, path) \subseteq Nat
  BY DEF Matches
<1> DEFINE m == CHOOSE i \in Matches(table, path) :
                   \A j \in Matches(table, path) : i <= j
<1>3. m \in Matches(table, path)
  BY <1>1, <1>2, LeastExists
<1>4. KfsLookup(table, path) = table[m]
  BY <1>1 DEF KfsLookup
<1> HIDE DEF m
<1> QED
  BY <1>3, <1>4 DEF Matches

(* The descriptor sys_open hands out is free and in range.                 *)
LEMMA LowestFreeIsFree ==
    ASSUME NEW t \in Task, KernelTypeOK, FreeFds(t) # {}
    PROVE  /\ LowestFree(t) \in FileFd
           /\ ~files[t][LowestFree(t)].used
           /\ \A g \in FreeFds(t) : LowestFree(t) <= g
<1>1. FreeFds(t) \subseteq Nat
  BY TaskAssumption DEF FreeFds, FileFd, FirstFile
<1>2. LowestFree(t) \in FreeFds(t) /\ \A g \in FreeFds(t) : LowestFree(t) <= g
  BY <1>1, LeastExists DEF LowestFree
<1> QED
  BY <1>2 DEF FreeFds

(* A call's checks admit a range only inside the caller's window.          *)
LEMMA RangeInWindow ==
    ASSUME NEW t \in Task \cup {NoTask}, NEW ptr \in Nat, NEW len \in Nat,
           TaskContainsUserRange(t, ptr, len), len > 0
    PROVE  /\ t \in Task
           /\ ptr..(ptr + len - 1) \subseteq Window(t)
           /\ Window(t) \subseteq Addr
<1>1. t \in Task
  BY TaskAssumption DEF TaskContainsUserRange
<1>2. UserBase[t] \in Nat /\ UserLen[t] \in Nat /\ WordMod \in Nat
  BY <1>1, TaskAssumption DEF Addr
<1>3. UserBase[t] + UserLen[t] < WordMod
  BY <1>1, TaskAssumption
<1> QED
  BY <1>1, <1>2, <1>3 DEF TaskContainsUserRange, Window, Addr

(* What a call loads from a range it has checked is a sequence of cells.   *)
LEMMA LoadType ==
    ASSUME NEW t \in Task \cup {NoTask}, NEW ptr \in Nat, NEW len \in Nat,
           TaskContainsUserRange(t, ptr, len), mem \in [Addr -> Cell]
    PROVE  Load(ptr, len) \in Seq(Cell)
<1> SUFFICES ASSUME NEW i \in 1..len PROVE mem[ptr + i - 1] \in Cell
  BY DEF Load
<1>1. ptr + i - 1 \in ptr..(ptr + len - 1) /\ len > 0
  OBVIOUS
<1>2. ptr + i - 1 \in Addr
  BY <1>1, RangeInWindow
<1> QED
  BY <1>2

(* Storing cells keeps memory well typed and changes the range only.       *)
LEMMA StoreType ==
    ASSUME NEW ptr \in Nat, NEW cells \in Seq(Cell), mem \in [Addr -> Cell]
    PROVE  /\ Store(ptr, cells) \in [Addr -> Cell]
           /\ \A a \in Addr : Store(ptr, cells)[a] # mem[a] =>
                 Len(cells) > 0 /\ a \in ptr..(ptr + Len(cells) - 1)
<1>1. Len(cells) \in Nat /\ \A i \in 1..Len(cells) : cells[i] \in Cell
  OBVIOUS
<1>2. ASSUME NEW a \in Addr, a \in ptr..(ptr + Len(cells) - 1)
      PROVE  cells[a - ptr + 1] \in Cell /\ Len(cells) > 0
  <2>1. a \in Nat
    BY TaskAssumption DEF Addr
  <2> QED
    BY <1>1, <1>2, <2>1
<1> QED
  BY <1>1, <1>2 DEF Store

(* kfs_read_node returns at most `len' cells, and no more than are left.   *)
LEMMA ReadSound ==
    ASSUME NEW n \in Node, NodeIsValid(n), NEW offset \in Nat, NEW len \in Nat,
           offset <= n.size
    PROVE  /\ ReadCount(n, offset, len) \in 0..len
           /\ offset + ReadCount(n, offset, len) <= n.size
           /\ KfsReadNode(n, offset, len) \in Seq(Cell)
           /\ Len(KfsReadNode(n, offset, len)) = ReadCount(n, offset, len)
<1> DEFINE k == ReadCount(n, offset, len)
<1>1. n.size \in Nat
  BY NodeAssumption
<1>2. k \in 0..len /\ offset + k <= n.size
  BY <1>1 DEF ReadCount
<1>3. ASSUME NEW i \in 1..k PROVE n.data[offset + i] \in Cell
  <2>1. n.size > 0 /\ offset + i \in 1..n.size
    BY <1>1, <1>2
  <2>2. n.data \in [1..n.size -> Cell]
    BY <2>1, NodeAssumption DEF NodeIsValid
  <2> QED
    BY <2>1, <2>2
<1> HIDE DEF k
<1>4. [i \in 1..k |-> n.data[offset + i]] \in Seq(Cell)
  BY <1>2, <1>3
<1>5. Len([i \in 1..k |-> n.data[offset + i]]) = k
  BY <1>2
<1> QED
  BY <1>2, <1>4, <1>5 DEF KfsReadNode, k

KernelOK == KernelTypeOK /\ OpenFilesSound

(* The state a call leaves behind, and the memory it may have changed.     *)
CallKeeps(t) ==
    /\ KernelOK'
    /\ last'.task = t
    /\ \A a \in Addr : mem'[a] # mem[a] => t \in Task /\ a \in Window(t)
    /\ mounted' = mounted

(* A refused call.                                                         *)
LEMMA FailKeeps ==
    ASSUME KernelOK, NEW t \in Task \cup {NoTask}, NEW error \in Errors, Fail(t, error)
    PROVE  CallKeeps(t)
<1>1. last' \in [task : Task \cup {NoTask}, value : Int, error : Errors,
                 bytes : Seq(Cell), exits : BOOLEAN, status : Int]
  BY DEF Fail, Result
<1>2. last'.task = t
  BY DEF Fail, Result
<1>3. KernelTypeOK'
  BY <1>1 DEF Fail, KernelOK, KernelTypeOK
<1>4. OpenFilesSound'
  BY DEF Fail, KernelOK, OpenFilesSound
<1> QED
  BY <1>2, <1>3, <1>4 DEF Fail, KernelOK, CallKeeps

(* A call that returns a value and changes neither files nor memory.       *)
LEMMA ReturnKeeps ==
    ASSUME KernelOK, NEW t \in Task \cup {NoTask}, NEW value \in Int,
           NEW bytes \in Seq(Cell),
           Return(t, value, bytes), UNCHANGED <<mounted, files, mem>>
    PROVE  CallKeeps(t)
<1>1. last' \in [task : Task \cup {NoTask}, value : Int, error : Errors,
                 bytes : Seq(Cell), exits : BOOLEAN, status : Int]
  BY DEF Return, Result, Errors
<1>2. last'.task = t
  BY DEF Return, Result
<1>3. KernelTypeOK'
  BY <1>1 DEF KernelOK, KernelTypeOK
<1>4. OpenFilesSound'
  BY DEF KernelOK, OpenFilesSound
<1> QED
  BY <1>2, <1>3, <1>4 DEF KernelOK, CallKeeps

LEMMA WriteKeeps ==
    ASSUME KernelOK, NEW t \in Task \cup {NoTask},
           NEW fd, NEW ptr \in Nat, NEW len \in Nat, SysWrite(t, fd, ptr, len)
    PROVE  CallKeeps(t)
<1>1. CASE Fail(t, "EBADF") \/ Fail(t, "EFAULT")
  BY <1>1, FailKeeps DEF Errors
<1>2. CASE /\ TaskContainsUserRange(t, ptr, len)
           /\ Return(t, len, Load(ptr, len))
           /\ UNCHANGED <<mounted, files, mem>>
  <2>1. Load(ptr, len) \in Seq(Cell)
    BY <1>2, LoadType DEF KernelOK, KernelTypeOK
  <2> QED
    BY <1>2, <2>1, ReturnKeeps
<1> QED
  BY <1>1, <1>2 DEF SysWrite

(* A range is only granted to a task when it is not empty.  sys_open of an *)
(* empty path finds nothing, so a call that opens a file has a task.       *)
LEMMA OpenKeeps ==
    ASSUME KernelOK, NEW t \in Task \cup {NoTask},
           NEW ptr \in Nat, NEW len \in Nat, SysOpen(t, ptr, len)
    PROVE  CallKeeps(t)
<1> DEFINE node == KfsLookup(mounted, Load(ptr, len))
<1>1. CASE \/ Fail(t, "EFAULT") \/ Fail(t, "ENOENT") \/ Fail(t, "EMFILE")
  BY <1>1, FailKeeps DEF Errors
<1>2. CASE /\ TaskContainsUserRange(t, ptr, len)
           /\ node # Null
           /\ FreeFds(t) # {}
           /\ files' = [files EXCEPT ![t][LowestFree(t)] =
                          [used |-> TRUE, node |-> node, offset |-> 0]]
           /\ Return(t, LowestFree(t), << >>)
           /\ UNCHANGED <<mounted, mem>>
  <2> DEFINE fd == LowestFree(t)
             file == [used |-> TRUE, node |-> node, offset |-> 0]
  <2>1. t \in Task
    BY <1>2, TaskAssumption DEF TaskContainsUserRange
  <2>2. node \in Node /\ NodeIsValid(node)
    BY <1>2, LookupSound DEF KernelOK, KernelTypeOK
  <2>3. fd \in FileFd
    BY <1>2, <2>1, LowestFreeIsFree DEF KernelOK
  <2>4. fd \in 0..(MaxFiles - 1) /\ fd \in Int /\ fd >= FirstFile
    BY <2>3, TaskAssumption DEF FileFd, FirstFile
  <2>5. file \in OpenFile
    BY <2>2 DEF OpenFile
  <2>6. node.size \in Nat
    BY <2>2, NodeAssumption
  <2> HIDE DEF fd, node
  <2>7. files' \in [Task -> [0..(MaxFiles - 1) -> OpenFile]]
    <3>1. files' = [files EXCEPT ![t][fd] = file]
      BY <1>2 DEF fd
    <3> HIDE DEF file
    <3> QED
      BY <3>1, <2>1, <2>4, <2>5 DEF KernelOK, KernelTypeOK
  <2>8. last' \in [task : Task \cup {NoTask}, value : Int, error : Errors,
                   bytes : Seq(Cell), exits : BOOLEAN, status : Int]
    BY <1>2, <2>4 DEF Return, Result, Errors, fd
  <2>9. KernelTypeOK'
    BY <1>2, <2>7, <2>8 DEF KernelOK, KernelTypeOK
  <2>10. OpenFilesSound'
    <3> SUFFICES ASSUME NEW u \in Task, NEW g \in 0..(MaxFiles - 1),
                        files'[u][g].used
                 PROVE  /\ g >= FirstFile
                        /\ NodeIsValid(files'[u][g].node)
                        /\ files'[u][g].offset <= files'[u][g].node.size
      BY DEF OpenFilesSound
    <3>1. CASE u = t /\ g = fd
      <4>1. files'[u][g] = file
        BY <1>2, <3>1, <2>1, <2>4 DEF KernelOK, KernelTypeOK, fd
      <4> QED
        BY <4>1, <3>1, <2>2, <2>4, <2>6 DEF file
    <3>2. CASE ~(u = t /\ g = fd)
      <4>1. files'[u][g] = files[u][g]
        BY <1>2, <3>2, <2>1, <2>4 DEF KernelOK, KernelTypeOK, fd
      <4> QED
        BY <4>1 DEF KernelOK, OpenFilesSound
    <3> QED
      BY <3>1, <3>2
  <2> QED
    BY <1>2, <2>9, <2>10 DEF CallKeeps, KernelOK, Return, Result
<1> QED
  BY <1>1, <1>2 DEF SysOpen

(* A call that changes one descriptor of the caller into one that is sound,*)
(* and memory inside the caller's window only.                             *)
LEMMA FileChangeKeeps ==
    ASSUME KernelOK, NEW t \in Task, NEW fd \in FileFd, NEW file \in OpenFile,
           NEW value \in Int,
           file.used => NodeIsValid(file.node) /\ file.offset <= file.node.size,
           files' = [files EXCEPT ![t][fd] = file],
           mem' \in [Addr -> Cell],
           \A a \in Addr : mem'[a] # mem[a] => a \in Window(t),
           Return(t, value, << >>), UNCHANGED mounted
    PROVE  CallKeeps(t)
<1>1. fd \in 0..(MaxFiles - 1) /\ fd >= FirstFile
  BY TaskAssumption DEF FileFd, FirstFile
<1>2. last' \in [task : Task \cup {NoTask}, value : Int, error : Errors,
                 bytes : Seq(Cell), exits : BOOLEAN, status : Int]
  BY DEF Return, Result, Errors
<1>3. files' \in [Task -> [0..(MaxFiles - 1) -> OpenFile]]
  BY <1>1 DEF KernelOK, KernelTypeOK
<1>4. KernelTypeOK'
  BY <1>2, <1>3 DEF KernelOK, KernelTypeOK
<1>5. OpenFilesSound'
  <2> SUFFICES ASSUME NEW u \in Task, NEW g \in 0..(MaxFiles - 1),
                      files'[u][g].used
               PROVE  /\ g >= FirstFile
                      /\ NodeIsValid(files'[u][g].node)
                      /\ files'[u][g].offset <= files'[u][g].node.size
    BY DEF OpenFilesSound
  <2>1. CASE u = t /\ g = fd
    <3>1. files'[u][g] = file
      BY <2>1, <1>1 DEF KernelOK, KernelTypeOK
    <3> QED
      BY <3>1, <2>1, <1>1
  <2>2. CASE ~(u = t /\ g = fd)
    <3>1. files'[u][g] = files[u][g]
      BY <2>2, <1>1 DEF KernelOK, KernelTypeOK
    <3> QED
      BY <3>1 DEF KernelOK, OpenFilesSound
  <2> QED
    BY <2>1, <2>2
<1> QED
  BY <1>4, <1>5 DEF CallKeeps, KernelOK, Return, Result

(* A change of memory inside the caller's window only.                     *)
LEMMA MemoryChangeKeeps ==
    ASSUME KernelOK, NEW t \in Task, NEW value \in Int,
           mem' \in [Addr -> Cell],
           \A a \in Addr : mem'[a] # mem[a] => a \in Window(t),
           Return(t, value, << >>), UNCHANGED <<mounted, files>>
    PROVE  CallKeeps(t)
<1>1. last' \in [task : Task \cup {NoTask}, value : Int, error : Errors,
                 bytes : Seq(Cell), exits : BOOLEAN, status : Int]
  BY DEF Return, Result, Errors
<1>2. KernelTypeOK'
  BY <1>1 DEF KernelOK, KernelTypeOK
<1>3. OpenFilesSound'
  BY DEF KernelOK, OpenFilesSound
<1> QED
  BY <1>2, <1>3 DEF CallKeeps, KernelOK, Return, Result

(* Cells stored at a granted range change the caller's window only.        *)
LEMMA StoreConfined ==
    ASSUME KernelOK, NEW t \in Task \cup {NoTask}, NEW ptr \in Nat, NEW len \in Nat,
           TaskContainsUserRange(t, ptr, len),
           NEW cells \in Seq(Cell), Len(cells) <= len
    PROVE  /\ Store(ptr, cells) \in [Addr -> Cell]
           /\ \A a \in Addr : Store(ptr, cells)[a] # mem[a] => a \in Window(t)
<1>1. Len(cells) \in Nat
  OBVIOUS
<1>2. ASSUME NEW a \in Addr, Len(cells) > 0, a \in ptr..(ptr + Len(cells) - 1)
      PROVE  a \in Window(t)
  <2>1. len > 0 /\ a \in ptr..(ptr + len - 1)
    BY <1>1, <1>2
  <2> QED
    BY <2>1, RangeInWindow
<1> QED
  BY <1>2, StoreType DEF KernelOK, KernelTypeOK

LEMMA CloseKeeps ==
    ASSUME KernelOK, NEW t \in Task \cup {NoTask}, NEW fd, SysClose(t, fd)
    PROVE  CallKeeps(t)
<1>1. CASE Fail(t, "EBADF")
  BY <1>1, FailKeeps DEF Errors
<1>2. CASE /\ IsOpen(t, fd)
           /\ files' = [files EXCEPT ![t][fd] = FreeFile]
           /\ Return(t, 0, << >>)
           /\ UNCHANGED <<mounted, mem>>
  <2>1. t \in Task /\ fd \in FileFd
    BY <1>2, TaskAssumption DEF IsOpen
  <2>2. FreeFile \in OpenFile /\ ~FreeFile.used
    BY DEF OpenFile, FreeFile
  <2>3. mem' \in [Addr -> Cell] /\ \A a \in Addr : mem'[a] # mem[a] => a \in Window(t)
    BY <1>2 DEF KernelOK, KernelTypeOK
  <2>4. 0 \in Int
    OBVIOUS
  <2> QED
    BY <1>2, <2>1, <2>2, <2>3, <2>4, FileChangeKeeps, Zenon
<1> QED
  BY <1>1, <1>2 DEF SysClose

(* A read advances the offset by what it copied, never past the end.       *)
LEMMA ReadKeeps ==
    ASSUME KernelOK, NEW t \in Task \cup {NoTask}, NEW fd, NEW dst \in Nat,
           NEW len \in Nat, SysRead(t, fd, dst, len)
    PROVE  CallKeeps(t)
<1>1. CASE Fail(t, "EBADF") \/ Fail(t, "EFAULT")
  BY <1>1, FailKeeps DEF Errors
<1> DEFINE file  == files[t][fd]
           n     == ReadCount(file.node, file.offset, len)
           cells == KfsReadNode(file.node, file.offset, len)
<1>2. CASE /\ IsOpen(t, fd)
           /\ TaskContainsUserRange(t, dst, len)
           /\ mem' = Store(dst, cells)
           /\ files' = [files EXCEPT ![t][fd].offset = @ + n]
           /\ Return(t, n, << >>)
           /\ UNCHANGED mounted
  <2>1. t \in Task /\ fd \in FileFd /\ file.used
    BY <1>2, TaskAssumption DEF IsOpen
  <2>2. fd \in 0..(MaxFiles - 1)
    BY <2>1, TaskAssumption DEF FileFd, FirstFile
  <2>3. file \in [used : {TRUE}, node : Node, offset : Nat]
    <3>1. file \in OpenFile
      BY <2>1, <2>2 DEF KernelOK, KernelTypeOK
    <3>2. file # FreeFile
      BY <2>1 DEF FreeFile
    <3> QED
      BY <3>1, <3>2 DEF OpenFile
  <2>4. NodeIsValid(file.node) /\ file.offset <= file.node.size
    BY <2>1, <2>2 DEF KernelOK, OpenFilesSound
  <2>5. /\ n \in 0..len
        /\ file.offset + n <= file.node.size
        /\ cells \in Seq(Cell)
        /\ Len(cells) = n
    BY <2>3, <2>4, ReadSound
  <2>6. Store(dst, cells) \in [Addr -> Cell]
        /\ \A a \in Addr : Store(dst, cells)[a] # mem[a] => a \in Window(t)
    <3>1. Len(cells) <= len
      BY <2>5
    <3> QED
      BY <1>2, <2>5, <3>1, StoreConfined
  <2> DEFINE new == [file EXCEPT !.offset = @ + n]
  <2>7. /\ new \in OpenFile
        /\ NodeIsValid(new.node) /\ new.offset <= new.node.size
    <3> HIDE DEF file, n, cells
    <3>1. file.offset + n \in Nat
      BY <2>3, <2>5
    <3>2. /\ new \in [used : {TRUE}, node : Node, offset : Nat]
          /\ new.node = file.node /\ new.offset = file.offset + n
      BY <2>3, <3>1
    <3> HIDE DEF new
    <3> QED
      BY <3>2, <2>4, <2>5 DEF OpenFile
  <2>8. files' = [files EXCEPT ![t][fd] = new]
    BY <1>2, <2>1, <2>2 DEF KernelOK, KernelTypeOK
  <2>9. n \in Int
    BY <2>5
  <2>10. /\ mem' \in [Addr -> Cell]
         /\ \A a \in Addr : mem'[a] # mem[a] => a \in Window(t)
    BY <1>2, <2>6
  <2> HIDE DEF file, n, cells, new
  <2> QED
    BY <1>2, <2>1, <2>7, <2>8, <2>9, <2>10, FileChangeKeeps, Zenon
<1> QED
  BY <1>1, <1>2 DEF SysRead

(* The structure sys_stat fills in fits the range it has checked.          *)
LEMMA StatKeeps ==
    ASSUME KernelOK, NEW t \in Task \cup {NoTask}, NEW ptr \in Nat, NEW len \in Nat,
           NEW statPtr \in Nat, SysStat(t, ptr, len, statPtr)
    PROVE  CallKeeps(t)
<1>1. CASE Fail(t, "EFAULT") \/ Fail(t, "ENOENT")
  BY <1>1, FailKeeps DEF Errors
<1> DEFINE node == KfsLookup(mounted, Load(ptr, len))
<1>2. CASE /\ TaskContainsUserRange(t, statPtr, StatSize)
           /\ node # Null
           /\ mem' = Store(statPtr, KfsStatNode(node))
           /\ Return(t, 0, << >>)
           /\ UNCHANGED <<mounted, files>>
  <2>1. t \in Task
    BY <1>2, TaskAssumption DEF TaskContainsUserRange, StatSize
  <2>2. node \in Node /\ NodeIsValid(node)
    BY <1>2, LookupSound DEF KernelOK, KernelTypeOK
  <2>3. KfsStatNode(node) \in Seq(Cell) /\ Len(KfsStatNode(node)) = StatSize
    BY <2>2, NodeAssumption DEF KfsStatNode, StatSize, NodeIsValid
  <2>4. /\ Store(statPtr, KfsStatNode(node)) \in [Addr -> Cell]
        /\ \A a \in Addr : Store(statPtr, KfsStatNode(node))[a] # mem[a]
                             => a \in Window(t)
    <3>1. StatSize \in Nat /\ Len(KfsStatNode(node)) <= StatSize
      BY <2>3 DEF StatSize
    <3> HIDE DEF node
    <3> QED
      BY <1>2, <2>3, <3>1, StoreConfined
  <2> QED
    BY <1>2, <2>1, <2>4, MemoryChangeKeeps
<1> QED
  BY <1>1, <1>2 DEF SysStat

LEMMA GetpidKeeps ==
    ASSUME KernelOK, NEW t \in Task \cup {NoTask}, SysGetpid(t)
    PROVE  CallKeeps(t)
<1>1. CASE t = NoTask \/ Pid[t] = 0
  BY <1>1, FailKeeps DEF SysGetpid, Errors
<1>2. CASE ~(t = NoTask \/ Pid[t] = 0)
  <2>1. Pid[t] \in Int
    BY <1>2, TaskAssumption
  <2>2. Return(t, Pid[t], << >>) /\ UNCHANGED <<mounted, files, mem>>
    BY <1>2 DEF SysGetpid
  <2>3. << >> \in Seq(Cell)
    OBVIOUS
  <2> QED
    BY <2>1, <2>2, <2>3, ReturnKeeps, Zenon
<1> QED
  BY <1>1, <1>2

LEMMA ExitKeeps ==
    ASSUME KernelOK, NEW t \in Task \cup {NoTask}, NEW arg \in Nat, SysExit(t, arg)
    PROVE  CallKeeps(t)
<1>1. AsInt(arg) \in Int
  BY TaskAssumption DEF AsInt
<1>2. /\ last' \in [task : Task \cup {NoTask}, value : Int, error : Errors,
                    bytes : Seq(Cell), exits : BOOLEAN, status : Int]
      /\ last'.task = t
  BY <1>1 DEF SysExit, Result, Errors
<1>3. KernelTypeOK'
  BY <1>2 DEF SysExit, KernelOK, KernelTypeOK
<1>4. OpenFilesSound'
  BY DEF SysExit, KernelOK, OpenFilesSound
<1> QED
  BY <1>2, <1>3, <1>4 DEF SysExit, KernelOK, CallKeeps

(* Every call, whatever its registers hold, leaves the kernel well typed   *)
(* and every descriptor sound, and touches no memory but the caller's.     *)
THEOREM DispatchKeeps ==
    ASSUME KernelOK, NEW t \in Task \cup {NoTask},
           NEW regs \in [nr : Nat, arg0 : Nat, arg1 : Nat, arg2 : Nat],
           KsyscallDispatch(t, regs)
    PROVE  CallKeeps(t)
<1> regs.arg0 \in Nat /\ regs.arg1 \in Nat /\ regs.arg2 \in Nat
  OBVIOUS
<1>1. CASE SysRead(t, regs.arg0, regs.arg1, regs.arg2)
  BY <1>1, ReadKeeps
<1>2. CASE SysWrite(t, regs.arg0, regs.arg1, regs.arg2)
  BY <1>2, WriteKeeps
<1>3. CASE SysOpen(t, regs.arg0, regs.arg1)
  BY <1>3, OpenKeeps
<1>4. CASE SysClose(t, regs.arg0)
  BY <1>4, CloseKeeps
<1>5. CASE SysStat(t, regs.arg0, regs.arg1, regs.arg2)
  BY <1>5, StatKeeps
<1>6. CASE SysGetpid(t)
  BY <1>6, GetpidKeeps
<1>7. CASE SysExit(t, regs.arg0)
  BY <1>7, ExitKeeps
<1>8. CASE Fail(t, "ENOSYS")
  BY <1>8, FailKeeps DEF Errors
<1> QED
  BY <1>1, <1>2, <1>3, <1>4, <1>5, <1>6, <1>7, <1>8 DEF KsyscallDispatch
=============================================================================
