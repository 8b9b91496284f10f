---------------------- MODULE MiniFirecrackerProofs -------------------------
(***************************************************************************)
(* The micro-VM for any message that fits its memory, any number of        *)
(* signals and any failure of the host.  The invariant says, for each      *)
(* instruction of the guest, what its registers owe to the output so far,  *)
(* and where an OUT may be pending.                                        *)
(***************************************************************************)
EXTENDS MiniFirecracker, TLAPS

Out == Len(console)

(* The byte the guest has to put out next; 0 after the last.               *)
NextByte == IF Out < Len(Message) THEN Message[Out + 1] ELSE 0

(* Memory loaded and mapped, segments set                                  *)
Ready == vm.code /\ vm.slot /\ cpu.cs = 0

SetUpSoFar ==
    /\ monitor.step > 5 => vm.code
    /\ monitor.step > 6 => vm.slot
    /\ monitor.step > 10 => cpu.cs = 0
    /\ ~pendingOut /\ Out = 0

(* A byte fetched that is still to be put out                              *)
Fetched == cpu.al = NextByte /\ (cpu.al # 0 => cpu.si = 4111 + Out)

(* Before each instruction                                                 *)
Location ==
    \/ cpu.ip = 4096 /\ Out = 0                             \* mov si, imm16
    \/ cpu.ip = 4099 /\ cpu.si = 4110 + Out                 \* lodsb
    \/ cpu.ip = 4100 /\ Fetched                             \* test al, al
    \/ cpu.ip = 4102 /\ Fetched /\ (cpu.zf <=> cpu.al = 0)  \* jz
    \/ cpu.ip = 4104 /\ Fetched /\ cpu.al # 0               \* out
    \/ cpu.ip = 4106 /\ cpu.si = 4110 + Out                 \* jmp
    \/ cpu.ip = 4108 /\ Out = Len(Message)                  \* hlt

(* Around an OUT: exited and not yet put out, put out and not completed    *)
OutExited == pendingOut /\ cpu.ip = 4104 /\ Fetched /\ cpu.al # 0
OutDone   == pendingOut /\ cpu.ip = 4104 /\ cpu.si = 4110 + Out

HostErrors == {"FAIL_ENTRY", "INTERNAL_ERROR"}

Progress ==
    /\ At("setup") => SetUpSoFar
    /\ At("run") => Ready /\ (OutDone \/ (~pendingOut /\ Location))
    /\ At("guest") => Ready /\ ~pendingOut /\ Location
    /\ At("exit") =>
          /\ Ready
          /\ \/ run.reason = "IO" /\ run.port = DebugPort /\ run.data = cpu.al /\ OutExited
             \/ run.reason = "HLT" /\ Out = Len(Message)
             \/ run.reason \in HostErrors
    /\ At("succeeded") => Out = Len(Message)
    /\ At("failed") => run.reason \in HostErrors

Prefix == Out <= Len(Message) /\ \A i \in 1..Out : console[i] = Message[i]

IInv == TypeOK /\ Progress /\ Prefix

-----------------------------------------------------------------------------
LEMMA Concat ==
    ASSUME NEW s \in Seq(0..255), NEW t \in Seq(0..255)
    PROVE  /\ DOMAIN (s \o t) = 1..(Len(s) + Len(t))
           /\ \A i \in 1..Len(s) : (s \o t)[i] = s[i]
           /\ \A i \in 1..Len(t) : (s \o t)[Len(s) + i] = t[i]
  OBVIOUS

(* The bytes of the guest: its program, the message and a 0.               *)
LEMMA ImageIs ==
    /\ DOMAIN Image = 1..(15 + Len(Message))
    /\ \A k \in 1..14 : Image[k] = Code[k]
    /\ \A k \in 1..Len(Message) : Image[14 + k] = Message[k]
    /\ Image[15 + Len(Message)] = 0
<1>1. /\ Code \in Seq(0..255) /\ Len(Code) = 14
      /\ Message \in Seq(0..255) /\ <<0>> \in Seq(0..255)
  BY MessageAssumption DEF Code, DebugPort
<1> HIDE DEF Code
<1>2. /\ Message \o <<0>> \in Seq(0..255) /\ Len(Message \o <<0>>) = Len(Message) + 1
      /\ \A k \in 1..Len(Message) : (Message \o <<0>>)[k] = Message[k]
      /\ (Message \o <<0>>)[Len(Message) + 1] = 0
  BY <1>1
<1> DEFINE tail == Message \o <<0>>
<1>3. Image = Code \o tail
  BY <1>1 DEF Image
<1>4. ASSUME NEW t \in Seq(0..255)
      PROVE  /\ DOMAIN (Code \o t) = 1..(14 + Len(t))
             /\ \A k \in 1..14 : (Code \o t)[k] = Code[k]
             /\ \A k \in 1..Len(t) : (Code \o t)[14 + k] = t[k]
  <2>1. Code \in Seq(0..255) /\ Len(Code) = 14
    BY <1>1
  <2>2. /\ DOMAIN (Code \o t) = 1..(Len(Code) + Len(t))
        /\ \A k \in 1..Len(Code) : (Code \o t)[k] = Code[k]
        /\ \A k \in 1..Len(t) : (Code \o t)[Len(Code) + k] = t[k]
    BY <1>4, <2>1, Concat
  <2> QED
    BY <2>1, <2>2
<1> HIDE DEF tail
<1>5. tail \in Seq(0..255) /\ Len(tail) = Len(Message) + 1
  BY <1>2 DEF tail
<1>6. /\ DOMAIN Image = 1..(14 + Len(tail))
      /\ \A k \in 1..14 : Image[k] = Code[k]
      /\ \A k \in 1..Len(tail) : Image[14 + k] = tail[k]
  BY <1>3, <1>4, <1>5
<1>7. /\ \A k \in 1..Len(Message) : k \in 1..Len(tail) /\ tail[k] = Message[k]
      /\ Len(Message) + 1 \in 1..Len(tail) /\ tail[Len(Message) + 1] = 0
      /\ 14 + (Len(Message) + 1) = 15 + Len(Message) /\ 14 + Len(tail) = 15 + Len(Message)
  BY <1>1, <1>2, <1>5 DEF tail
<1> QED
  BY <1>6, <1>7

LEMMA Program ==
    ASSUME vm.code
    PROVE  /\ Byte(4096) = 190 /\ Byte(4097) = 14 /\ Byte(4098) = 16
           /\ Byte(4099) = 172 /\ Byte(4100) = 132
           /\ Byte(4102) = 116 /\ Byte(4103) = 4
           /\ Byte(4104) = 230 /\ Byte(4105) = DebugPort
           /\ Byte(4106) = 235 /\ Byte(4107) = 247 /\ Byte(4108) = 244
           /\ \A i \in 0..(Len(Message) - 1) : Byte(4110 + i) = Message[i + 1]
           /\ Byte(4110 + Len(Message)) = 0
<1>1. Len(Message) \in Nat
  BY MessageAssumption
<1>2. ASSUME NEW k \in 1..(15 + Len(Message)), NEW a \in Nat, a = 4095 + k
      PROVE  Byte(a) = Image[k]
  <2>1. a - GuestEntry + 1 = k
    BY <1>1, <1>2 DEF GuestEntry
  <2> QED
    BY <2>1, ImageIs DEF Byte
<1>3. \A k \in 1..14 : k \in 1..(15 + Len(Message)) /\ Image[k] = Code[k]
  BY <1>1, ImageIs
<1>4. \A k \in 1..14, a \in Nat : a = 4095 + k => Byte(a) = Code[k]
  <2> SUFFICES ASSUME NEW k \in 1..14, NEW a \in Nat, a = 4095 + k
               PROVE  Byte(a) = Code[k]
    OBVIOUS
  <2>1. k \in 1..(15 + Len(Message)) /\ Image[k] = Code[k]
    BY <1>3
  <2>2. Byte(a) = Image[k]
    BY <1>2, <2>1
  <2> QED
    BY <2>1, <2>2
<1>5. ASSUME NEW i \in 0..(Len(Message) - 1) PROVE Byte(4110 + i) = Message[i + 1]
  <2>1. 15 + i \in 1..(15 + Len(Message)) /\ 4110 + i = 4095 + (15 + i) /\ 4110 + i \in Nat
    BY <1>1
  <2>2. i + 1 \in 1..Len(Message) /\ 14 + (i + 1) = 15 + i
    BY <1>1
  <2>3. Image[15 + i] = Message[i + 1]
    BY <2>2, ImageIs
  <2>4. Byte(4110 + i) = Image[15 + i]
    BY <1>2, <2>1
  <2> QED
    BY <2>3, <2>4
<1>6. Byte(4110 + Len(Message)) = 0
  <2>1. /\ 15 + Len(Message) \in 1..(15 + Len(Message))
        /\ 4110 + Len(Message) = 4095 + (15 + Len(Message))
        /\ 4110 + Len(Message) \in Nat
    BY <1>1
  <2>2. Byte(4110 + Len(Message)) = Image[15 + Len(Message)]
    BY <1>2, <2>1
  <2> QED
    BY <2>2, ImageIs
<1>7. /\ Byte(4096) = Code[1] /\ Byte(4097) = Code[2] /\ Byte(4098) = Code[3]
      /\ Byte(4099) = Code[4] /\ Byte(4100) = Code[5]
      /\ Byte(4102) = Code[7] /\ Byte(4103) = Code[8]
      /\ Byte(4104) = Code[9] /\ Byte(4105) = Code[10]
      /\ Byte(4106) = Code[11] /\ Byte(4107) = Code[12] /\ Byte(4108) = Code[13]
  BY <1>4
<1> QED
  BY <1>5, <1>6, <1>7 DEF Code

-----------------------------------------------------------------------------
(* The type invariant in parts, the records named.                         *)
Places == {"setup", "run", "guest", "exit", "succeeded", "failed", "refused"}
Word   == 0..65535
Octet  == 0..255

MonitorType == [at : Places, step : 1..11]
VmType      == [code : BOOLEAN, slot : BOOLEAN]
CpuType     == [cs : {0, ResetBase}, ds : {0}, ip : Word, si : Word, al : 0..255,
                zf : BOOLEAN]
Reasons     == {"none", "IO", "HLT", "INTR", "FAIL_ENTRY", "INTERNAL_ERROR", "MMIO",
                "undefined opcode"}
RunType     == [reason : Reasons, port : 0..255, data : 0..255]

LEMMA Steps ==
    /\ DOMAIN Setup = 1..11 /\ Len(Setup) = 11
    /\ \A i \in 1..11 : /\ Setup[i] = "load" <=> i = 5
                        /\ Setup[i] = "slot" <=> i = 6
                        /\ Setup[i] = "setsregs" <=> i = 10
                        /\ Setup[i] = "setregs" <=> i = 11
  BY DEF Setup

LEMMA Types ==
    TypeOK <=> /\ monitor \in MonitorType /\ vm \in VmType /\ cpu \in CpuType
               /\ run \in RunType /\ pendingOut \in BOOLEAN
               /\ signals \in 0..MaxSignals /\ console \in Seq(1..255)
  BY Steps DEF TypeOK, MonitorType, VmType, CpuType, RunType, Places, Reasons, Word

LEMMA MonitorGoto ==
    ASSUME NEW m \in MonitorType, NEW where \in Places
    PROVE  LET next == [m EXCEPT !.at = where] IN
           next \in MonitorType /\ next.at = where /\ next.step = m.step
<1>1. [m EXCEPT !.at = where] = [at |-> where, step |-> m.step]
  BY DEF MonitorType
<1> QED
  BY <1>1 DEF MonitorType

LEMMA MonitorStep ==
    ASSUME NEW m \in MonitorType, NEW step \in 1..11
    PROVE  LET next == [m EXCEPT !.step = step] IN
           next \in MonitorType /\ next.at = m.at /\ next.step = step
<1>1. [m EXCEPT !.step = step] = [at |-> m.at, step |-> step]
  BY DEF MonitorType
<1> QED
  BY <1>1 DEF MonitorType

(* A vCPU made of its parts                                                *)
Cpu(cs, ip, si, al, zf) ==
    [cs |-> cs, ds |-> 0, ip |-> ip, si |-> si, al |-> al, zf |-> zf]

LEMMA CpuFields ==
    ASSUME NEW c \in CpuType
    PROVE  /\ c.cs \in {0, ResetBase} /\ c.ds = 0 /\ c.ip \in Word /\ c.si \in Word
           /\ c.al \in 0..255 /\ c.zf \in BOOLEAN
  BY DEF CpuType

(* Fields of the vCPU replaced.                                            *)
WithSegments(c)         == [c EXCEPT !.cs = 0, !.ds = 0]
WithIp(c, x)            == [c EXCEPT !.ip = x]
WithIpSi(c, x, y)       == [c EXCEPT !.ip = x, !.si = y]
WithSiIp(c, y, x)       == [c EXCEPT !.si = y, !.ip = x]
WithAlSiIp(c, z, y, x)  == [c EXCEPT !.al = z, !.si = y, !.ip = x]
WithZfIp(c, z, x)       == [c EXCEPT !.zf = z, !.ip = x]

LEMMA CpuSegments ==
    ASSUME NEW c \in CpuType
    PROVE  LET d == WithSegments(c) IN
           d \in CpuType /\ d.cs = 0
<1> DEFINE f == [c EXCEPT !.cs = 0]
<1>1. f = Cpu(0, c.ip, c.si, c.al, c.zf)
  BY DEF Cpu, CpuType
<1> HIDE DEF f
<1>2. WithSegments(c) = [f EXCEPT !.ds = 0]
  BY DEF WithSegments, f
<1>3. [f EXCEPT !.ds = 0] = f
  BY <1>1 DEF Cpu
<1> QED
  BY <1>1, <1>2, <1>3, CpuFields DEF Cpu, CpuType

LEMMA CpuIpSi ==
    ASSUME NEW c \in CpuType, NEW x \in Word, NEW y \in Word
    PROVE  LET d == WithIpSi(c, x, y) IN
           /\ d \in CpuType /\ d.ip = x /\ d.si = y
           /\ d.cs = c.cs /\ d.al = c.al /\ d.zf = c.zf
<1> DEFINE f == [c EXCEPT !.ip = x]
<1>1. f = Cpu(c.cs, x, c.si, c.al, c.zf)
  BY DEF Cpu, CpuType
<1> HIDE DEF f
<1>2. [f EXCEPT !.si = y] = Cpu(c.cs, x, y, c.al, c.zf)
  BY <1>1 DEF Cpu
<1>3. WithIpSi(c, x, y) = [f EXCEPT !.si = y]
  BY DEF WithIpSi, f
<1> QED
  BY <1>2, <1>3, CpuFields DEF Cpu, CpuType

LEMMA CpuSiIp ==
    ASSUME NEW c \in CpuType, NEW x \in Word, NEW y \in Word
    PROVE  LET d == WithSiIp(c, y, x) IN
           /\ d \in CpuType /\ d.ip = x /\ d.si = y
           /\ d.cs = c.cs /\ d.al = c.al /\ d.zf = c.zf
<1> DEFINE f == [c EXCEPT !.si = y]
<1>1. f = Cpu(c.cs, c.ip, y, c.al, c.zf)
  BY DEF Cpu, CpuType
<1> HIDE DEF f
<1>2. [f EXCEPT !.ip = x] = Cpu(c.cs, x, y, c.al, c.zf)
  BY <1>1 DEF Cpu
<1>3. WithSiIp(c, y, x) = [f EXCEPT !.ip = x]
  BY DEF WithSiIp, f
<1> QED
  BY <1>2, <1>3, CpuFields DEF Cpu, CpuType

LEMMA CpuAlSiIp ==
    ASSUME NEW c \in CpuType, NEW x \in Word, NEW y \in Word, NEW z \in Octet
    PROVE  LET d == WithAlSiIp(c, z, y, x) IN
           /\ d \in CpuType /\ d.ip = x /\ d.si = y /\ d.al = z
           /\ d.cs = c.cs /\ d.zf = c.zf
<1> DEFINE f == [c EXCEPT !.al = z]
           g == [f EXCEPT !.si = y]
<1>1. f = Cpu(c.cs, c.ip, c.si, z, c.zf)
  BY DEF Cpu, CpuType
<1> HIDE DEF f
<1>2. g = Cpu(c.cs, c.ip, y, z, c.zf)
  BY <1>1 DEF Cpu
<1> HIDE DEF g
<1>3. [g EXCEPT !.ip = x] = Cpu(c.cs, x, y, z, c.zf)
  BY <1>2 DEF Cpu
<1>4. WithAlSiIp(c, z, y, x) = [g EXCEPT !.ip = x]
  BY DEF WithAlSiIp, f, g
<1> QED
  BY <1>3, <1>4, CpuFields DEF Cpu, CpuType, Octet

LEMMA CpuZfIp ==
    ASSUME NEW c \in CpuType, NEW x \in Word, NEW z \in BOOLEAN
    PROVE  LET d == WithZfIp(c, z, x) IN
           /\ d \in CpuType /\ d.ip = x /\ (d.zf <=> z)
           /\ d.cs = c.cs /\ d.si = c.si /\ d.al = c.al
<1> DEFINE f == [c EXCEPT !.zf = z]
<1>1. f = Cpu(c.cs, c.ip, c.si, c.al, z)
  BY DEF Cpu, CpuType
<1> HIDE DEF f
<1>2. [f EXCEPT !.ip = x] = Cpu(c.cs, x, c.si, c.al, z)
  BY <1>1 DEF Cpu
<1>3. WithZfIp(c, z, x) = [f EXCEPT !.ip = x]
  BY DEF WithZfIp, f
<1> QED
  BY <1>2, <1>3, CpuFields DEF Cpu, CpuType

LEMMA CpuIp ==
    ASSUME NEW c \in CpuType, NEW x \in Word
    PROVE  LET d == WithIp(c, x) IN
           /\ d \in CpuType /\ d.ip = x /\ d.si = c.si
           /\ d.cs = c.cs /\ d.al = c.al /\ d.zf = c.zf
<1>1. [c EXCEPT !.ip = x] = Cpu(c.cs, x, c.si, c.al, c.zf)
  BY DEF Cpu, CpuType
<1> QED
  BY <1>1, CpuFields DEF WithIp, Cpu, CpuType

LEMMA SeqElements == ASSUME NEW S, NEW s \in Seq(S) PROVE \A i \in 1..Len(s) : s[i] \in S
  OBVIOUS

LEMMA SeqEqual ==
    ASSUME NEW S, NEW s \in Seq(S), NEW t \in Seq(S), Len(s) = Len(t),
           \A i \in 1..Len(s) : s[i] = t[i]
    PROVE  s = t
  OBVIOUS

LEMMA Front ==
    ASSUME NEW S, NEW s \in Seq(S), NEW n \in Nat, n <= Len(s)
    PROVE  /\ SubSeq(s, 1, n) \in Seq(S) /\ Len(SubSeq(s, 1, n)) = n
           /\ \A i \in 1..n : SubSeq(s, 1, n)[i] = s[i]
  OBVIOUS

LEMMA Numbers ==
    /\ Len(Message) \in Nat /\ GuestMemSize \in Nat /\ MaxSignals \in Nat
    /\ ResetBase \in Nat
    /\ 4111 + Len(Message) <= GuestMemSize /\ 4111 + Len(Message) <= 65536
    /\ \A i \in 1..Len(Message) : Message[i] \in 1..255 /\ Message[i] # 0
<1>1. Len(Message) \in Nat
  BY MessageAssumption
<1>3. ASSUME NEW i \in 1..Len(Message) PROVE Message[i] \in 1..255 /\ Message[i] # 0
  <2> DEFINE x == Message[i]
  <2>1. x \in 1..255
    BY MessageAssumption, SeqElements
  <2> HIDE DEF x
  <2>2. x \in 1..255 /\ x # 0
    BY <2>1
  <2> QED
    BY <2>2 DEF x
<1>2. /\ GuestMemSize \in Nat /\ ResetBase \in Nat
      /\ 4096 + 15 + Len(Message) <= GuestMemSize /\ 4096 + 15 + Len(Message) <= 65536
  BY SizeAssumption
<1> QED
  BY <1>1, <1>2, <1>3, SignalsAssumption

LEMMA TypesNext ==
    TypeOK' <=> /\ monitor' \in MonitorType /\ vm' \in VmType /\ cpu' \in CpuType
                /\ run' \in RunType /\ pendingOut' \in BOOLEAN
                /\ signals' \in 0..MaxSignals /\ console' \in Seq(1..255)
  BY Steps DEF TypeOK, MonitorType, VmType, CpuType, RunType, Places, Reasons, Word

LEMMA RunOf ==
    ASSUME NEW r \in RunType, NEW reason \in Reasons
    PROVE  LET next == [r EXCEPT !.reason = reason] IN
           next \in RunType /\ next.reason = reason
<1>1. [r EXCEPT !.reason = reason] = [reason |-> reason, port |-> r.port, data |-> r.data]
  BY DEF RunType
<1>2. r.port \in 0..255 /\ r.data \in 0..255
  BY DEF RunType
<1> QED
  BY <1>1, <1>2 DEF RunType

LEMMA NoExitTyped == NoExit \in RunType
  BY DEF NoExit, RunType, Reasons

LEMMA VmOf ==
    ASSUME NEW v \in VmType, NEW p \in BOOLEAN, NEW q \in BOOLEAN
    PROVE  LET next == [v EXCEPT !.code = p, !.slot = q] IN
           next \in VmType /\ (next.code <=> p) /\ (next.slot <=> q)
<1> DEFINE w == [v EXCEPT !.code = p]
<1>1. w = [code |-> p, slot |-> v.slot]
  BY DEF VmType
<1> HIDE DEF w
<1>2. [w EXCEPT !.slot = q] = [code |-> p, slot |-> q]
  BY <1>1
<1>3. [v EXCEPT !.code = p, !.slot = q] = [code |-> p, slot |-> q]
  BY <1>2 DEF w
<1> QED
  BY <1>3 DEF VmType

LEMMA AppendOne ==
    ASSUME NEW s \in Seq(1..255), NEW b \in 1..255
    PROVE  /\ Append(s, b) \in Seq(1..255) /\ Len(s) \in Nat
           /\ Len(Append(s, b)) = Len(s) + 1
           /\ \A i \in 1..Len(s) : Append(s, b)[i] = s[i]
           /\ Append(s, b)[Len(s) + 1] = b
  OBVIOUS

-----------------------------------------------------------------------------
LEMMA InitIInv == Init => IInv
<1> SUFFICES ASSUME Init PROVE IInv
  OBVIOUS
<1>1. monitor = [at |-> "setup", step |-> 1] /\ monitor \in MonitorType
  BY DEF Init, MonitorType, Places
<1>2. vm \in VmType /\ pendingOut = FALSE /\ console = << >>
  BY DEF Init, VmType
<1>3. cpu \in CpuType
  BY Numbers DEF Init, ResetCpu, CpuType, Word
<1>4. run \in RunType /\ signals \in 0..MaxSignals
  BY NoExitTyped, Numbers DEF Init
<1>5. Out = 0 /\ console \in Seq(1..255)
  BY <1>2 DEF Out
<1>8. TypeOK
  BY <1>1, <1>2, <1>3, <1>4, <1>5, Types
<1>6. monitor.at = "setup" /\ monitor.step = 1
  BY <1>1
<1>7. Progress
  BY <1>2, <1>5, <1>6 DEF Progress, SetUpSoFar, At
<1> QED
  BY <1>5, <1>7, <1>8, Numbers DEF IInv, Prefix

(* What stays when nothing is put out                                      *)
LEMMA SameOutput ==
    ASSUME IInv, console' = console
    PROVE  /\ Out' = Out /\ NextByte' = NextByte /\ Prefix' /\ Out \in Nat
           /\ Out <= Len(Message) /\ console' \in Seq(1..255)
  BY Types DEF IInv, Out, NextByte, Prefix

LEMMA SetUpKeeps == IInv /\ SetUp => IInv'
<1> SUFFICES ASSUME IInv, SetUp PROVE IInv'
  OBVIOUS
<1> USE DEF At
<1>1. /\ monitor \in MonitorType /\ vm \in VmType /\ cpu \in CpuType
      /\ run' \in RunType /\ pendingOut' \in BOOLEAN /\ signals' \in 0..MaxSignals
      /\ monitor.at = "setup" /\ monitor.step \in 1..11
  BY Types DEF IInv, SetUp, MonitorType
<1>2. SetUpSoFar
  BY <1>1 DEF IInv, Progress
<1>3. UNCHANGED <<run, pendingOut, signals, console>>
  BY DEF SetUp
<1>4. Out' = 0 /\ Out = 0 /\ Prefix' /\ console' \in Seq(1..255) /\ ~pendingOut'
  BY <1>2, <1>3, SameOutput DEF SetUpSoFar
<1>5. CASE Goto("refused") /\ UNCHANGED <<vm, cpu>>
  <2>1. monitor' \in MonitorType /\ monitor'.at = "refused"
    BY <1>1, <1>5, MonitorGoto DEF Goto, Places
  <2>2. Progress'
    BY <2>1 DEF Progress
  <2>3. TypeOK'
    BY <1>1, <1>4, <1>5, <2>1, TypesNext
  <2> QED
    BY <1>4, <2>2, <2>3 DEF IInv
<1>6. CASE /\ LET step == Setup[monitor.step] IN
                /\ vm' = [vm EXCEPT !.code = @ \/ step = "load",
                                    !.slot = @ \/ step = "slot"]
                /\ cpu' = CASE step = "setsregs" -> [cpu EXCEPT !.cs = 0, !.ds = 0]
                            [] step = "setregs"  -> [cpu EXCEPT !.ip = GuestEntry, !.si = 0]
                            [] OTHER -> cpu
           /\ monitor' = IF monitor.step = Len(Setup)
                         THEN [monitor EXCEPT !.at = "run"]
                         ELSE [monitor EXCEPT !.step = @ + 1]
  <2> DEFINE s == monitor.step
  <2>1. s \in 1..11 /\ Len(Setup) = 11
    BY <1>1, Steps
  <2>2. /\ (Setup[s] = "load") = (s = 5) /\ (Setup[s] = "slot") = (s = 6)
        /\ (Setup[s] = "setsregs") = (s = 10) /\ (Setup[s] = "setregs") = (s = 11)
    BY <2>1, Steps
  <2>3. /\ vm' = [vm EXCEPT !.code = vm.code \/ s = 5, !.slot = vm.slot \/ s = 6]
        /\ vm.code \in BOOLEAN /\ vm.slot \in BOOLEAN
    BY <1>1, <1>6, <2>2 DEF VmType
  <2>4. /\ vm' \in VmType
        /\ (vm'.code <=> (vm.code \/ s = 5))
        /\ (vm'.slot <=> (vm.slot \/ s = 6))
    BY <1>1, <2>3, VmOf
  <2>5. /\ cpu.cs \in {0, ResetBase} /\ cpu.ip \in Word /\ cpu.si \in Word
        /\ cpu.al \in 0..255 /\ cpu.zf \in BOOLEAN
    BY <1>1, CpuFields
  <2>6. CASE s = 11
    <3>1. cpu' = [cpu EXCEPT !.ip = GuestEntry, !.si = 0]
      BY <1>6, <2>2, <2>6
    <3>2. GuestEntry \in Word /\ 0 \in Word
      BY DEF Word, GuestEntry
    <3>3. cpu' \in CpuType /\ cpu'.cs = cpu.cs /\ cpu'.ip = GuestEntry
      <4>1. cpu' = WithIpSi(cpu, GuestEntry, 0)
        BY <3>1 DEF WithIpSi
      <4> QED
        BY <1>1, <3>2, <4>1, CpuIpSi
    <3>4. cpu' \in CpuType /\ cpu'.cs = cpu.cs /\ cpu'.ip = 4096
      BY <3>3 DEF GuestEntry
    <3>5. monitor' = [monitor EXCEPT !.at = "run"]
      BY <1>6, <2>1, <2>6
    <3>6. monitor' \in MonitorType /\ monitor'.at = "run"
      BY <1>1, <3>5, MonitorGoto DEF Places
    <3>7. vm.code /\ vm.slot /\ cpu.cs = 0
      BY <1>2, <2>6 DEF SetUpSoFar
    <3>8. Ready' /\ Location'
      BY <1>4, <2>4, <3>4, <3>7 DEF Ready, Location
    <3>9. Progress'
      BY <1>4, <3>6, <3>8 DEF Progress
    <3>10. TypeOK'
      BY <1>1, <1>4, <2>4, <3>4, <3>6, TypesNext
    <3> QED
      BY <1>4, <3>9, <3>10 DEF IInv
  <2>7. CASE s # 11
    <3>1. monitor' = [monitor EXCEPT !.step = s + 1] /\ s + 1 \in 1..11
      BY <1>6, <2>1, <2>7
    <3>2. monitor' \in MonitorType /\ monitor'.at = "setup" /\ monitor'.step = s + 1
      BY <1>1, <3>1, MonitorStep
    <3>3. cpu' \in CpuType /\ (s = 10 => cpu'.cs = 0) /\ (s # 10 => cpu' = cpu)
      <4>1. CASE s = 10
        <5>1. cpu' = WithSegments(cpu)
          BY <1>6, <2>2, <4>1 DEF WithSegments
        <5>2. cpu' \in CpuType /\ cpu'.cs = 0
          BY <1>1, <5>1, CpuSegments
        <5> QED
          BY <4>1, <5>2
      <4>2. CASE s # 10
        <5>1. cpu' = cpu
          BY <1>6, <2>2, <2>7, <4>2
        <5> QED
          BY <1>1, <4>2, <5>1
      <4> QED
        BY <4>1, <4>2
    <3>4. SetUpSoFar'
      <4>1. s + 1 > 5 => vm'.code
        BY <1>2, <2>1, <2>4 DEF SetUpSoFar
      <4>2. s + 1 > 6 => vm'.slot
        BY <1>2, <2>1, <2>4 DEF SetUpSoFar
      <4>3. s + 1 > 10 => cpu'.cs = 0
        BY <2>1, <2>7, <3>3
      <4> QED
        BY <1>4, <3>2, <4>1, <4>2, <4>3 DEF SetUpSoFar
    <3>5. Progress'
      BY <3>2, <3>4 DEF Progress
    <3>6. TypeOK'
      BY <1>1, <1>4, <2>4, <3>2, <3>3, TypesNext
    <3> QED
      BY <1>4, <3>5, <3>6 DEF IInv
  <2> QED
    BY <2>6, <2>7
<1> QED
  BY <1>5, <1>6 DEF SetUp

(* What every step after the setup starts from                             *)
LEMMA Typed ==
    ASSUME IInv
    PROVE  /\ monitor \in MonitorType /\ vm \in VmType /\ cpu \in CpuType
           /\ run \in RunType /\ pendingOut \in BOOLEAN
           /\ signals \in 0..MaxSignals /\ console \in Seq(1..255)
           /\ cpu.cs \in {0, ResetBase} /\ cpu.ds = 0 /\ cpu.ip \in Word
           /\ cpu.si \in Word /\ cpu.al \in 0..255 /\ cpu.zf \in BOOLEAN
           /\ Out \in Nat /\ Out <= Len(Message)
  BY Types, CpuFields DEF IInv, Out, Prefix

LEMMA EnterKeeps == IInv /\ Enter => IInv'
<1> SUFFICES ASSUME IInv, Enter PROVE IInv'
  OBVIOUS
<1> USE DEF At
<1>0. /\ monitor \in MonitorType /\ vm \in VmType /\ cpu \in CpuType
      /\ signals \in 0..MaxSignals
  BY Typed
<1>1. Ready /\ (OutDone \/ (~pendingOut /\ Location))
  BY DEF IInv, Progress, Enter
<1>2. /\ vm' = vm /\ signals' = signals /\ console' = console /\ pendingOut' = FALSE
      /\ run' = NoExit /\ monitor' = [monitor EXCEPT !.at = "guest"]
  BY DEF Enter, Goto
<1>3. monitor' \in MonitorType /\ monitor'.at = "guest"
  BY <1>0, <1>2, MonitorGoto DEF Places
<1>4. Out' = Out /\ NextByte' = NextByte /\ Prefix' /\ console' \in Seq(1..255)
  BY <1>2, SameOutput
<1>5. run' \in RunType
  BY <1>2, NoExitTyped
<1>6. cpu' \in CpuType /\ Ready' /\ Location'
  <2>1. CASE pendingOut
    <3>1. OutDone /\ Ready
      BY <1>1, <2>1
    <3>2. cpu' = WithIp(cpu, Ip(2))
      BY <2>1 DEF Enter, WithIp
    <3>3. Ip(2) = 4106 /\ Ip(2) \in Word
      BY <3>1 DEF OutDone, Ip, Word
    <3>4. cpu' \in CpuType /\ cpu'.cs = cpu.cs /\ cpu'.ip = Ip(2) /\ cpu'.si = cpu.si
      BY <1>0, <3>2, <3>3, CpuIp
    <3> QED
      BY <1>2, <1>4, <3>1, <3>3, <3>4 DEF Ready, Location, OutDone
  <2>2. CASE ~pendingOut
    <3>1. cpu' = cpu /\ Location /\ Ready
      BY <1>1, <2>2 DEF Enter, OutDone
    <3> QED
      BY <1>0, <1>2, <1>4, <3>1 DEF Ready, Location, Fetched
  <2> QED
    BY <2>1, <2>2
<1>7. Progress'
  BY <1>2, <1>3, <1>6 DEF Progress
<1>8. TypeOK'
  BY <1>0, <1>2, <1>3, <1>4, <1>5, <1>6, TypesNext
<1> QED
  BY <1>4, <1>7, <1>8 DEF IInv

LEMMA InterruptedKeeps == IInv /\ Interrupted => IInv'
<1> SUFFICES ASSUME IInv, Interrupted PROVE IInv'
  OBVIOUS
<1> USE DEF At
<1>1. /\ monitor \in MonitorType /\ vm \in VmType /\ cpu \in CpuType /\ run \in RunType
      /\ pendingOut \in BOOLEAN /\ signals \in 0..MaxSignals
  BY Typed
<1>2. Ready /\ ~pendingOut /\ Location
  BY DEF IInv, Progress, Interrupted
<1>3. /\ vm' = vm /\ cpu' = cpu /\ pendingOut' = pendingOut /\ console' = console
      /\ signals < MaxSignals /\ signals' = signals + 1
      /\ run' = [run EXCEPT !.reason = "INTR"] /\ monitor' = [monitor EXCEPT !.at = "run"]
  BY DEF Interrupted, Goto
<1>4. monitor' \in MonitorType /\ monitor'.at = "run"
  BY <1>1, <1>3, MonitorGoto DEF Places
<1>5. Out' = Out /\ NextByte' = NextByte /\ Prefix' /\ console' \in Seq(1..255)
  BY <1>3, SameOutput
<1>6. run' \in RunType
  BY <1>1, <1>3, RunOf DEF Reasons
<1>7. signals' \in 0..MaxSignals
  BY <1>1, <1>3, Numbers
<1>8. Ready' /\ Location'
  BY <1>2, <1>3, <1>5 DEF Ready, Location, Fetched
<1>9. Progress'
  BY <1>2, <1>3, <1>4, <1>8 DEF Progress
<1>10. TypeOK'
  BY <1>1, <1>3, <1>4, <1>5, <1>6, <1>7, TypesNext
<1> QED
  BY <1>5, <1>9, <1>10 DEF IInv

LEMMA HostFailsKeeps == IInv /\ HostFails => IInv'
<1> SUFFICES ASSUME IInv, HostFails PROVE IInv'
  OBVIOUS
<1> USE DEF At
<1>1. /\ monitor \in MonitorType /\ vm \in VmType /\ cpu \in CpuType /\ run \in RunType
      /\ pendingOut \in BOOLEAN /\ signals \in 0..MaxSignals
  BY Typed
<1>2. Ready
  BY DEF IInv, Progress, HostFails
<1>3. /\ vm' = vm /\ cpu' = cpu /\ pendingOut' = pendingOut /\ console' = console
      /\ signals' = signals
  BY DEF HostFails
<1>4. Out' = Out /\ NextByte' = NextByte /\ Prefix' /\ console' \in Seq(1..255)
  BY <1>3, SameOutput
<1>5. CASE Goto("refused") /\ UNCHANGED run
  <2>1. monitor' \in MonitorType /\ monitor'.at = "refused"
    BY <1>1, <1>5, MonitorGoto DEF Goto, Places
  <2>2. Progress'
    BY <2>1 DEF Progress
  <2>3. TypeOK'
    BY <1>1, <1>3, <1>4, <1>5, <2>1, TypesNext
  <2> QED
    BY <1>4, <2>2, <2>3 DEF IInv
<1>6. CASE /\ run' \in {[NoExit EXCEPT !.reason = r] : r \in {"FAIL_ENTRY", "INTERNAL_ERROR"}}
           /\ Goto("exit")
  <2>1. monitor' \in MonitorType /\ monitor'.at = "exit"
    BY <1>1, <1>6, MonitorGoto DEF Goto, Places
  <2>2. PICK r \in HostErrors : run' = [NoExit EXCEPT !.reason = r]
    BY <1>6 DEF HostErrors
  <2>3. run' \in RunType /\ run'.reason \in HostErrors
    <3>1. r \in Reasons
      BY DEF HostErrors, Reasons
    <3> QED
      BY <2>2, <3>1, NoExitTyped, RunOf
  <2>4. Ready'
    BY <1>2, <1>3 DEF Ready
  <2>5. Progress'
    BY <2>1, <2>3, <2>4 DEF Progress
  <2>6. TypeOK'
    BY <1>1, <1>3, <1>4, <2>1, <2>3, TypesNext
  <2> QED
    BY <1>4, <2>5, <2>6 DEF IInv
<1> QED
  BY <1>5, <1>6 DEF HostFails

LEMMA HandleExitKeeps == IInv /\ HandleExit => IInv'
<1> SUFFICES ASSUME IInv, HandleExit PROVE IInv'
  OBVIOUS
<1> USE DEF At
<1>1. /\ monitor \in MonitorType /\ vm \in VmType /\ cpu \in CpuType /\ run \in RunType
      /\ pendingOut \in BOOLEAN /\ signals \in 0..MaxSignals /\ console \in Seq(1..255)
      /\ cpu.al \in 0..255 /\ Out \in Nat /\ Out <= Len(Message)
  BY Typed
<1>2. /\ Ready
      /\ \/ run.reason = "IO" /\ run.port = DebugPort /\ run.data = cpu.al /\ OutExited
         \/ run.reason = "HLT" /\ Out = Len(Message)
         \/ run.reason \in HostErrors
  BY DEF IInv, Progress, HandleExit
<1>3. /\ vm' = vm /\ cpu' = cpu /\ pendingOut' = pendingOut /\ run' = run
      /\ signals' = signals
  BY DEF HandleExit
<1>4. Ready'
  BY <1>2, <1>3 DEF Ready
<1>5. CASE /\ run.reason = "IO" /\ run.port = DebugPort
           /\ console' = Append(console, run.data)
           /\ Goto("run")
  <2>1. monitor' \in MonitorType /\ monitor'.at = "run"
    BY <1>1, <1>5, MonitorGoto DEF Goto, Places
  <2>2. run.data = cpu.al /\ OutExited
    BY <1>2, <1>5 DEF HostErrors
  <2>3. cpu.al # 0 /\ cpu.al = NextByte /\ cpu.si = 4111 + Out /\ pendingOut /\ cpu.ip = 4104
    BY <2>2 DEF OutExited, Fetched
  <2>4. Out < Len(Message) /\ cpu.al = Message[Out + 1] /\ cpu.al \in 1..255
    BY <1>1, <2>3 DEF NextByte
  <2>5. console' = Append(console, cpu.al)
    BY <1>5, <2>2
  <2>6. /\ console' \in Seq(1..255) /\ Len(console') = Out + 1 /\ Len(console) = Out
        /\ \A i \in 1..Out : console'[i] = console[i]
        /\ console'[Out + 1] = cpu.al
    BY <1>1, <2>4, <2>5, AppendOne DEF Out
  <2>7. Out' = Out + 1
    BY <2>6 DEF Out
  <2>8. Prefix'
    <3>1. \A i \in 1..Out : console[i] = Message[i]
      BY DEF IInv, Prefix
    <3>2. \A i \in 1..(Out + 1) : console'[i] = Message[i]
      BY <1>1, <2>4, <2>6, <3>1
    <3>3. Out + 1 <= Len(Message)
      BY <1>1, <2>4, Numbers
    <3> QED
      BY <2>7, <3>2, <3>3 DEF Prefix
  <2>9. OutDone'
    BY <1>1, <1>3, <2>3, <2>7 DEF OutDone
  <2>10. Progress'
    BY <1>4, <2>1, <2>9 DEF Progress
  <2>11. TypeOK'
    BY <1>1, <1>3, <2>1, <2>6, TypesNext
  <2> QED
    BY <2>8, <2>10, <2>11 DEF IInv
<1>6. CASE run.reason = "HLT" /\ Goto("succeeded") /\ UNCHANGED console
  <2>1. monitor' \in MonitorType /\ monitor'.at = "succeeded"
    BY <1>1, <1>6, MonitorGoto DEF Goto, Places
  <2>2. Out = Len(Message)
    BY <1>2, <1>6 DEF HostErrors
  <2>3. Out' = Out /\ Prefix' /\ console' \in Seq(1..255)
    BY <1>6, SameOutput
  <2>4. Progress'
    BY <2>1, <2>2, <2>3 DEF Progress
  <2>5. TypeOK'
    BY <1>1, <1>3, <2>1, <2>3, TypesNext
  <2> QED
    BY <2>3, <2>4, <2>5 DEF IInv
<1>7. CASE /\ run.reason \notin {"IO", "HLT"} \/ (run.reason = "IO" /\ run.port # DebugPort)
           /\ Goto("failed")
           /\ UNCHANGED console
  <2>1. monitor' \in MonitorType /\ monitor'.at = "failed"
    BY <1>1, <1>7, MonitorGoto DEF Goto, Places
  <2>2. run.reason \in HostErrors
    BY <1>2, <1>7
  <2>3. Out' = Out /\ Prefix' /\ console' \in Seq(1..255)
    BY <1>7, SameOutput
  <2>4. Progress'
    BY <1>3, <2>1, <2>2 DEF Progress
  <2>5. TypeOK'
    BY <1>1, <1>3, <2>1, <2>3, TypesNext
  <2> QED
    BY <2>3, <2>4, <2>5 DEF IInv
<1> QED
  BY <1>5, <1>6, <1>7 DEF HandleExit

-----------------------------------------------------------------------------
(* The guest: at each instruction of the program, the step executes it.    *)
LEMMA GuestAt ==
    ASSUME IInv, GuestStep
    PROVE  /\ Ready /\ ~pendingOut /\ Location /\ monitor.at = "guest"
           /\ vm' = vm /\ signals' = signals /\ console' = console
           /\ Out' = Out /\ NextByte' = NextByte /\ Prefix'
  BY SameOutput DEF IInv, Progress, GuestStep, At

LEMMA GuestExecutes ==
    ASSUME IInv, GuestStep, NEW b \in Known, Byte(cpu.ip) = b, cpu.ip \in 4096..4108
    PROVE  /\ Execute(b)
           /\ Operand(1) = Byte(cpu.ip + 1) /\ Operand(2) = Byte(cpu.ip + 2)
<1>1. cpu.cs = 0 /\ vm.slot
  BY GuestAt DEF Ready
<1>2. cpu.cs + cpu.ip \in 0..(GuestMemSize - 1)
  BY <1>1, Numbers
<1>3. Mapped(cpu.cs + cpu.ip)
  BY <1>1, <1>2 DEF Mapped
<1>4. /\ cpu.cs + cpu.ip + 0 = cpu.ip /\ cpu.cs + cpu.ip + 1 = cpu.ip + 1
      /\ cpu.cs + cpu.ip + 2 = cpu.ip + 2
  BY <1>1
<1>5. /\ Operand(0) = b /\ Operand(1) = Byte(cpu.ip + 1)
      /\ Operand(2) = Byte(cpu.ip + 2)
  BY <1>4 DEF Operand
<1>6. Execute(Operand(0))
  <2>1. Operand(0) \in Known
    BY <1>5
  <2> QED
    BY <1>3, <2>1 DEF GuestStep
<1> QED
  BY <1>5, <1>6

LEMMA Continues ==
    ASSUME IInv, GuestStep, cpu' \in CpuType, cpu'.cs = cpu.cs, Location',
           UNCHANGED <<monitor, run, pendingOut>>
    PROVE  IInv'
<1>1. /\ monitor \in MonitorType /\ vm \in VmType /\ run \in RunType
      /\ pendingOut \in BOOLEAN /\ signals \in 0..MaxSignals /\ console \in Seq(1..255)
  BY Typed
<1>2. /\ Ready /\ ~pendingOut /\ monitor.at = "guest" /\ Prefix'
      /\ vm' = vm /\ signals' = signals /\ console' = console
  BY GuestAt
<1>3. Ready'
  BY <1>2 DEF Ready
<1>4. Progress'
  BY <1>2, <1>3 DEF Progress, At
<1>5. TypeOK'
  BY <1>1, <1>2, TypesNext
<1> QED
  BY <1>2, <1>4, <1>5 DEF IInv

LEMMA Exits ==
    ASSUME IInv, GuestStep, Goto("exit"), run' \in RunType, pendingOut' \in BOOLEAN,
           UNCHANGED cpu,
           \/ /\ run'.reason = "IO" /\ run'.port = DebugPort /\ run'.data = cpu.al
              /\ OutExited'
           \/ run'.reason = "HLT" /\ Out = Len(Message)
    PROVE  IInv'
<1>1. /\ monitor \in MonitorType /\ vm \in VmType /\ cpu \in CpuType
      /\ signals \in 0..MaxSignals /\ console \in Seq(1..255)
  BY Typed
<1>2. /\ Ready /\ Prefix' /\ Out' = Out
      /\ vm' = vm /\ signals' = signals /\ console' = console
  BY GuestAt
<1>3. monitor' \in MonitorType /\ monitor'.at = "exit"
  BY <1>1, MonitorGoto DEF Goto, Places
<1>4. Ready' /\ cpu'.al = cpu.al
  BY <1>2 DEF Ready
<1>5. Progress'
  BY <1>2, <1>3, <1>4 DEF Progress, At
<1>6. TypeOK'
  BY <1>1, <1>2, <1>3, TypesNext
<1> QED
  BY <1>2, <1>5, <1>6 DEF IInv

Same == UNCHANGED <<monitor, run, pendingOut>>

(* What each instruction does                                              *)
LEMMA Instructions ==
    /\ MovSi => Same /\ cpu' = WithSiIp(cpu, Operand(1) + 256 * Operand(2), Ip(3))
    /\ Lodsb => IF Mapped(cpu.ds + cpu.si)
                THEN Same /\ cpu' = WithAlSiIp(cpu, Byte(cpu.ds + cpu.si),
                                               (cpu.si + 1) % 65536, Ip(1))
                ELSE Fault("MMIO")
    /\ TestAl => Same /\ cpu' = WithZfIp(cpu, cpu.al = 0, Ip(2))
    /\ Jz => Same /\ cpu' = WithIp(cpu, Ip(2 + (IF cpu.zf THEN Signed8(Operand(1)) ELSE 0)))
    /\ Jmp => Same /\ cpu' = WithIp(cpu, Ip(2 + Signed8(Operand(1))))
<1>1. MovSi => Same /\ cpu' = WithSiIp(cpu, Operand(1) + 256 * Operand(2), Ip(3))
  BY DEF MovSi, Continue, Same, WithSiIp
<1>2. Lodsb => IF Mapped(cpu.ds + cpu.si)
               THEN Same /\ cpu' = WithAlSiIp(cpu, Byte(cpu.ds + cpu.si),
                                              (cpu.si + 1) % 65536, Ip(1))
               ELSE Fault("MMIO")
  BY DEF Lodsb, Continue, Same, WithAlSiIp
<1>3. TestAl => Same /\ cpu' = WithZfIp(cpu, cpu.al = 0, Ip(2))
  BY DEF TestAl, Continue, Same, WithZfIp
<1>4. Jz => Same /\ cpu' = WithIp(cpu, Ip(2 + (IF cpu.zf THEN Signed8(Operand(1)) ELSE 0)))
  BY DEF Jz, Continue, Same, WithIp
<1>5. Jmp => Same /\ cpu' = WithIp(cpu, Ip(2 + Signed8(Operand(1))))
  BY DEF Jmp, Continue, Same, WithIp
<1> QED
  BY <1>1, <1>2, <1>3, <1>4, <1>5

LEMMA Opcodes ==
    /\ Execute(190) => MovSi
    /\ Execute(172) => Lodsb
    /\ Execute(132) => TestAl
    /\ Execute(116) => Jz
    /\ Execute(235) => Jmp
    /\ Execute(230) => OutAl
    /\ Execute(244) => Hlt
  BY DEF Execute


LEMMA Words ==
    /\ \A a, b : a = 14 /\ b = 16 => a + 256 * b = 4110
    /\ \A a \in Word : a % 65536 = a
    /\ \A a \in Int : a % 65536 \in Word
    /\ \A a \in {4099, 4100, 4102, 4104, 4106, 4108, 4110} : a \in Word
<1>1. \A a, b : a = 14 /\ b = 16 => a + 256 * b = 4110
  BY SMT
<1>2. \A a \in Word : a % 65536 = a
  <2>1. ASSUME NEW a \in Nat, a < 65536 PROVE a % 65536 = a
    BY <2>1, SMT
  <2>2. \A a \in Word : a \in Nat /\ a < 65536
    BY SMT DEF Word
  <2> QED
    BY <2>1, <2>2
<1>3. \A a \in Int : a % 65536 \in Word
  <2>1. ASSUME NEW a \in Int PROVE a % 65536 \in Int /\ 0 <= a % 65536 /\ a % 65536 < 65536
    BY SMT
  <2> QED
    BY <2>1 DEF Word
<1>4. \A a \in {4099, 4100, 4102, 4104, 4106, 4108, 4110} : a \in Word
  BY SMT DEF Word
<1> QED
  BY <1>1, <1>2, <1>3, <1>4

LEMMA Read8 ==
    /\ Signed8(4) = 4 /\ Signed8(247) = 247 - 256
  BY DEF Signed8

LEMMA MovSiKeeps == IInv /\ GuestStep /\ cpu.ip = 4096 => IInv'
<1> SUFFICES ASSUME IInv, GuestStep, cpu.ip = 4096 PROVE IInv'
  OBVIOUS
<1>1. Ready /\ Location /\ Out' = Out
  BY GuestAt
<1>2. Byte(4096) = 190 /\ Byte(4097) = 14 /\ Byte(4098) = 16
  BY <1>1, Program DEF Ready
<1>3. Byte(cpu.ip) = 190 /\ 190 \in Known /\ cpu.ip \in 4096..4108
  BY <1>2 DEF Known
<1>4. Execute(190) /\ Operand(1) = Byte(cpu.ip + 1) /\ Operand(2) = Byte(cpu.ip + 2)
  BY <1>3, GuestExecutes
<1>5. MovSi
  BY <1>4, Opcodes
<1>6. Operand(1) = 14 /\ Operand(2) = 16
  <2>1. cpu.ip + 1 = 4097 /\ cpu.ip + 2 = 4098
    OBVIOUS
  <2> QED
    BY <1>2, <1>4, <2>1
<1>7. Ip(3) = 4099 /\ Ip(3) \in Word
  BY DEF Ip, Word
<1>8. Operand(1) + 256 * Operand(2) = 4110 /\ Operand(1) + 256 * Operand(2) \in Word
  <2>1. Operand(1) + 256 * Operand(2) = 4110
    BY <1>6, Words
  <2> QED
    BY <2>1, Words
<1>9. Same /\ cpu' = WithSiIp(cpu, Operand(1) + 256 * Operand(2), Ip(3))
  BY <1>5, Instructions
<1>10. cpu \in CpuType
  BY Typed
<1>11. /\ cpu' \in CpuType /\ cpu'.ip = Ip(3) /\ cpu'.cs = cpu.cs
       /\ cpu'.si = Operand(1) + 256 * Operand(2)
  BY <1>7, <1>8, <1>9, <1>10, CpuSiIp
<1>12. Out = 0
  BY <1>1 DEF Location
<1>13. Location'
  BY <1>1, <1>7, <1>8, <1>11, <1>12 DEF Location
<1> QED
  BY <1>9, <1>11, <1>13, Continues DEF Same

LEMMA LodsbKeeps == IInv /\ GuestStep /\ cpu.ip = 4099 => IInv'
<1> SUFFICES ASSUME IInv, GuestStep, cpu.ip = 4099 PROVE IInv'
  OBVIOUS
<1>1. Ready /\ Location /\ Out' = Out /\ NextByte' = NextByte
  BY GuestAt
<1>2. /\ Byte(4099) = 172 /\ Byte(4110 + Len(Message)) = 0
      /\ \A i \in 0..(Len(Message) - 1) : Byte(4110 + i) = Message[i + 1]
  BY <1>1, Program DEF Ready
<1>3. Byte(cpu.ip) = 172 /\ 172 \in Known /\ cpu.ip \in 4096..4108
  BY <1>2 DEF Known
<1>4. Execute(172)
  BY <1>3, GuestExecutes
<1>5. Lodsb
  BY <1>4, Opcodes
<1>6. /\ cpu \in CpuType /\ cpu.ds = 0 /\ Out \in Nat /\ Out <= Len(Message)
      /\ Len(Message) \in Nat
  BY Typed, Numbers
<1>7. cpu.si = 4110 + Out
  BY <1>1 DEF Location
<1>8. cpu.ds + cpu.si = 4110 + Out /\ cpu.ds + cpu.si \in 0..(GuestMemSize - 1)
  BY <1>6, <1>7, Numbers
<1>9. Mapped(cpu.ds + cpu.si)
  BY <1>1, <1>8 DEF Mapped, Ready
<1>10. Byte(cpu.ds + cpu.si) = NextByte /\ NextByte \in 0..255
  <2>1. CASE Out < Len(Message)
    <3>1. Out \in 0..(Len(Message) - 1) /\ Out + 1 \in 1..Len(Message)
      BY <1>6, <2>1
    <3>2. Byte(4110 + Out) = Message[Out + 1] /\ Message[Out + 1] \in 1..255
      BY <1>2, <3>1, Numbers
    <3> QED
      BY <1>8, <2>1, <3>2 DEF NextByte
  <2>2. CASE Out = Len(Message)
    BY <1>2, <1>6, <1>8, <2>2 DEF NextByte
  <2> QED
    BY <1>6, <2>1, <2>2
<1>11. Ip(1) = 4100 /\ Ip(1) \in Word
  BY DEF Ip, Word
<1>12. (cpu.si + 1) % 65536 \in Word
  BY <1>6, <1>7 DEF Word
<1>13. Same /\ cpu' = WithAlSiIp(cpu, Byte(cpu.ds + cpu.si), (cpu.si + 1) % 65536, Ip(1))
  BY <1>5, <1>9, Instructions
<1>14. /\ cpu' \in CpuType /\ cpu'.ip = Ip(1) /\ cpu'.cs = cpu.cs
       /\ cpu'.si = (cpu.si + 1) % 65536 /\ cpu'.al = Byte(cpu.ds + cpu.si)
  <2> DEFINE al == Byte(cpu.ds + cpu.si)
             si == (cpu.si + 1) % 65536
  <2>1. cpu' = WithAlSiIp(cpu, al, si, Ip(1)) /\ al \in 0..255 /\ si \in Word
    BY <1>10, <1>12, <1>13
  <2> HIDE DEF al, si
  <2>2. cpu' \in CpuType /\ cpu'.ip = Ip(1) /\ cpu'.cs = cpu.cs /\ cpu'.si = si /\ cpu'.al = al
    <3>1. cpu \in CpuType /\ Ip(1) \in Word /\ al \in Octet
      BY <1>6, <1>11, <2>1 DEF Octet
    <3> DEFINE d == WithAlSiIp(cpu, al, si, Ip(1))
    <3>2. /\ d \in CpuType /\ d.ip = Ip(1) /\ d.cs = cpu.cs
          /\ d.si = si /\ d.al = al
      BY <2>1, <3>1, CpuAlSiIp
    <3> QED
      BY <2>1, <3>2
  <2> QED
    BY <2>2 DEF al, si
<1>15. NextByte # 0 => (cpu.si + 1) % 65536 = 4111 + Out
  <2>1. NextByte # 0 => Out < Len(Message)
    BY DEF NextByte
  <2>2. Out < Len(Message) => (4110 + Out + 1) % 65536 = 4111 + Out
    <3> SUFFICES ASSUME Out < Len(Message) PROVE (4110 + Out + 1) % 65536 = 4111 + Out
      OBVIOUS
    <3>1. 4110 + Out + 1 = 4111 + Out /\ 4111 + Out \in Word
      BY <1>6, Numbers DEF Word
    <3> QED
      BY <3>1, Words
  <2> QED
    BY <1>6, <1>7, <2>1, <2>2
<1>16. Fetched'
  BY <1>1, <1>10, <1>14, <1>15 DEF Fetched
<1>17. Location'
  BY <1>11, <1>14, <1>16 DEF Location
<1> QED
  BY <1>13, <1>14, <1>17, Continues DEF Same

LEMMA TestAlKeeps == IInv /\ GuestStep /\ cpu.ip = 4100 => IInv'
<1> SUFFICES ASSUME IInv, GuestStep, cpu.ip = 4100 PROVE IInv'
  OBVIOUS
<1>1. Ready /\ Location /\ Out' = Out /\ NextByte' = NextByte
  BY GuestAt
<1>2. Byte(4100) = 132
  BY <1>1, Program DEF Ready
<1>3. Byte(cpu.ip) = 132 /\ 132 \in Known /\ cpu.ip \in 4096..4108
  BY <1>2 DEF Known
<1>4. Execute(132)
  BY <1>3, GuestExecutes
<1>5. TestAl
  BY <1>4, Opcodes
<1>6. Same /\ cpu' = WithZfIp(cpu, cpu.al = 0, Ip(2))
  BY <1>5, Instructions
<1>7. Ip(2) = 4102 /\ Ip(2) \in Word
  BY DEF Ip, Word
<1>8. /\ cpu' \in CpuType /\ cpu'.ip = Ip(2) /\ cpu'.cs = cpu.cs
      /\ cpu'.si = cpu.si /\ cpu'.al = cpu.al /\ (cpu'.zf <=> cpu.al = 0)
  <2> DEFINE zf == (cpu.al = 0)
  <2>1. cpu' = WithZfIp(cpu, zf, Ip(2)) /\ zf \in BOOLEAN /\ cpu \in CpuType
    BY <1>6, Typed
  <2> HIDE DEF zf
  <2>2. /\ cpu' \in CpuType /\ cpu'.ip = Ip(2) /\ cpu'.cs = cpu.cs
        /\ cpu'.si = cpu.si /\ cpu'.al = cpu.al /\ (cpu'.zf <=> zf)
    <3>1. Ip(2) \in Word
      BY <1>7
    <3> DEFINE d == WithZfIp(cpu, zf, Ip(2))
    <3>2. /\ d \in CpuType /\ d.ip = Ip(2) /\ d.cs = cpu.cs
          /\ d.si = cpu.si /\ d.al = cpu.al /\ (d.zf <=> zf)
      BY <2>1, <3>1, CpuZfIp
    <3> QED
      BY <2>1, <3>2
  <2> QED
    BY <2>2 DEF zf
<1>9. Fetched
  BY <1>1 DEF Location
<1>10. Fetched'
  BY <1>1, <1>8, <1>9 DEF Fetched
<1>11. Location'
  BY <1>7, <1>8, <1>10 DEF Location
<1> QED
  BY <1>6, <1>8, <1>11, Continues DEF Same

LEMMA JzKeeps == IInv /\ GuestStep /\ cpu.ip = 4102 => IInv'
<1> SUFFICES ASSUME IInv, GuestStep, cpu.ip = 4102 PROVE IInv'
  OBVIOUS
<1> DEFINE n == 2 + (IF cpu.zf THEN Signed8(Operand(1)) ELSE 0)
<1>1. Ready /\ Location /\ Out' = Out /\ NextByte' = NextByte
  BY GuestAt
<1>2. Byte(4102) = 116 /\ Byte(4103) = 4
  BY <1>1, Program DEF Ready
<1>3. Byte(cpu.ip) = 116 /\ 116 \in Known /\ cpu.ip \in 4096..4108
  BY <1>2 DEF Known
<1>4. Execute(116) /\ Operand(1) = Byte(cpu.ip + 1)
  BY <1>3, GuestExecutes
<1>5. Jz
  BY <1>4, Opcodes
<1>6. Same /\ cpu' = WithIp(cpu, Ip(n))
  BY <1>5, Instructions
<1>7. Signed8(Operand(1)) = 4
  <2>1. cpu.ip + 1 = 4103
    OBVIOUS
  <2> QED
    BY <1>2, <1>4, <2>1, Read8
<1>8. /\ (cpu.zf => Ip(n) = 4108)
      /\ (~cpu.zf => Ip(n) = 4104)
  BY <1>7 DEF Ip
<1>9. cpu \in CpuType /\ Ip(n) \in Word
  <2>1. Ip(n) \in Word
    <3> HIDE DEF n
    <3> QED
      BY <1>8, Words
  <2> QED
    BY <2>1, Typed
<1>10. /\ cpu' \in CpuType /\ cpu'.ip = Ip(n) /\ cpu'.cs = cpu.cs
       /\ cpu'.si = cpu.si /\ cpu'.al = cpu.al
  <2> HIDE DEF n
  <2> QED
    BY <1>6, <1>9, CpuIp
<1>11. Fetched /\ (cpu.zf <=> cpu.al = 0)
  BY <1>1 DEF Location
<1>12. Fetched'
  BY <1>1, <1>10, <1>11 DEF Fetched
<1>13. Location'
  <2>1. CASE cpu.zf
    <3>1. NextByte = 0
      BY <1>11, <2>1 DEF Fetched
    <3>2. Out = Len(Message)
      <4>1. Out \in Nat /\ Out <= Len(Message) /\ Len(Message) \in Nat
        BY Typed, Numbers
      <4>2. Out < Len(Message) => Message[Out + 1] # 0
        <5>1. Out < Len(Message) => Out + 1 \in 1..Len(Message)
          BY <4>1
        <5> QED
          BY <5>1, Numbers
      <4> QED
        BY <3>1, <4>1, <4>2 DEF NextByte
    <3> QED
      BY <1>1, <1>8, <1>10, <2>1, <3>2 DEF Location
  <2>2. CASE ~cpu.zf
    BY <1>8, <1>10, <1>11, <1>12, <2>2 DEF Location
  <2> QED
    BY <2>1, <2>2
<1> QED
  BY <1>6, <1>10, <1>13, Continues DEF Same

LEMMA JmpKeeps == IInv /\ GuestStep /\ cpu.ip = 4106 => IInv'
<1> SUFFICES ASSUME IInv, GuestStep, cpu.ip = 4106 PROVE IInv'
  OBVIOUS
<1> DEFINE n == 2 + Signed8(Operand(1))
<1>1. Ready /\ Location /\ Out' = Out
  BY GuestAt
<1>2. Byte(4106) = 235 /\ Byte(4107) = 247
  BY <1>1, Program DEF Ready
<1>3. Byte(cpu.ip) = 235 /\ 235 \in Known /\ cpu.ip \in 4096..4108
  BY <1>2 DEF Known
<1>4. Execute(235) /\ Operand(1) = Byte(cpu.ip + 1)
  BY <1>3, GuestExecutes
<1>5. Jmp
  BY <1>4, Opcodes
<1>6. Same /\ cpu' = WithIp(cpu, Ip(n))
  BY <1>5, Instructions
<1>7. Signed8(Operand(1)) = 247 - 256
  <2>1. cpu.ip + 1 = 4107
    OBVIOUS
  <2> QED
    BY <1>2, <1>4, <2>1, Read8
<1>8. cpu \in CpuType /\ Ip(n) = 4099 /\ Ip(n) \in Word
  <2>1. n = -7
    BY <1>7
  <2>2. Ip(n) = 4099
    BY <2>1 DEF Ip
  <2> QED
    BY <2>2, Typed, Words
<1>9. cpu' \in CpuType /\ cpu'.ip = Ip(n) /\ cpu'.cs = cpu.cs /\ cpu'.si = cpu.si
  <2> HIDE DEF n
  <2> QED
    BY <1>6, <1>8, CpuIp
<1>10. cpu.si = 4110 + Out
  BY <1>1 DEF Location
<1>11. Location'
  BY <1>1, <1>8, <1>9, <1>10 DEF Location
<1> QED
  BY <1>6, <1>9, <1>11, Continues DEF Same

LEMMA OutAlKeeps == IInv /\ GuestStep /\ cpu.ip = 4104 => IInv'
<1> SUFFICES ASSUME IInv, GuestStep, cpu.ip = 4104 PROVE IInv'
  OBVIOUS
<1>1. Ready /\ Location /\ Out' = Out /\ NextByte' = NextByte
  BY GuestAt
<1>2. Byte(4104) = 230 /\ Byte(4105) = DebugPort
  BY <1>1, Program DEF Ready
<1>3. Byte(cpu.ip) = 230 /\ 230 \in Known /\ cpu.ip \in 4096..4108
  BY <1>2 DEF Known
<1>4. Execute(230) /\ Operand(1) = Byte(cpu.ip + 1)
  BY <1>3, GuestExecutes
<1>5. OutAl
  BY <1>4, Opcodes
<1>6. Operand(1) = DebugPort
  <2>1. cpu.ip + 1 = 4105
    OBVIOUS
  <2> QED
    BY <1>2, <1>4, <2>1
<1>7. cpu.al \in 0..255 /\ DebugPort \in 0..255
  BY Typed DEF DebugPort
<1>8. /\ run' = [reason |-> "IO", port |-> DebugPort, data |-> cpu.al]
      /\ pendingOut' = TRUE /\ Goto("exit") /\ UNCHANGED cpu
  BY <1>5, <1>6 DEF OutAl
<1>9. /\ run' \in RunType /\ run'.reason = "IO" /\ run'.port = DebugPort
      /\ run'.data = cpu.al
  BY <1>7, <1>8 DEF RunType, Reasons
<1>10. Fetched /\ cpu.al # 0
  BY <1>1 DEF Location
<1>11. OutExited'
  BY <1>1, <1>8, <1>10 DEF OutExited, Fetched
<1> QED
  BY <1>8, <1>9, <1>11, Exits

LEMMA HltKeeps == IInv /\ GuestStep /\ cpu.ip = 4108 => IInv'
<1> SUFFICES ASSUME IInv, GuestStep, cpu.ip = 4108 PROVE IInv'
  OBVIOUS
<1>1. Ready /\ Location
  BY GuestAt
<1>2. Byte(4108) = 244
  BY <1>1, Program DEF Ready
<1>3. Byte(cpu.ip) = 244 /\ 244 \in Known /\ cpu.ip \in 4096..4108
  BY <1>2 DEF Known
<1>4. Execute(244)
  BY <1>3, GuestExecutes
<1>5. Hlt
  BY <1>4, Opcodes
<1>6. run' = [NoExit EXCEPT !.reason = "HLT"] /\ Goto("exit") /\ UNCHANGED <<cpu, pendingOut>>
  BY <1>5 DEF Hlt
<1>7. run' \in RunType /\ run'.reason = "HLT"
  <2>1. "HLT" \in Reasons
    BY DEF Reasons
  <2> QED
    BY <1>6, <2>1, NoExitTyped, RunOf
<1>8. Out = Len(Message)
  BY <1>1 DEF Location
<1>9. pendingOut' \in BOOLEAN
  BY <1>6, Typed
<1> QED
  BY <1>6, <1>7, <1>8, <1>9, Exits

LEMMA GuestStepKeeps == IInv /\ GuestStep => IInv'
<1> SUFFICES ASSUME IInv, GuestStep PROVE IInv'
  OBVIOUS
<1>1. cpu.ip \in {4096, 4099, 4100, 4102, 4104, 4106, 4108}
  BY GuestAt DEF Location
<1> QED
  BY <1>1, MovSiKeeps, LodsbKeeps, TestAlKeeps, JzKeeps, OutAlKeeps, JmpKeeps, HltKeeps

LEMMA StepKeeps == IInv /\ [Next]_vars => IInv'
<1>1. IInv /\ UNCHANGED vars => IInv'
  <2> SUFFICES ASSUME IInv, UNCHANGED vars PROVE IInv'
    OBVIOUS
  <2>1. UNCHANGED <<monitor, vm, cpu, run, pendingOut, signals, console>>
    BY DEF vars
  <2>2. TypeOK'
    BY <2>1, Typed, TypesNext
  <2>3. Out' = Out /\ NextByte' = NextByte /\ Prefix'
    BY <2>1, SameOutput
  <2>4. (SetUpSoFar => SetUpSoFar') /\ (Ready => Ready')
    BY <2>1, <2>3 DEF SetUpSoFar, Ready
  <2>5. (Location => Location') /\ (OutDone => OutDone') /\ (OutExited => OutExited')
    BY <2>1, <2>3 DEF Location, OutDone, OutExited, Fetched
  <2>6. Progress'
    BY <2>1, <2>3, <2>4, <2>5 DEF IInv, Progress, At
  <2> QED
    BY <2>2, <2>3, <2>6 DEF IInv
<1> QED
  BY <1>1, SetUpKeeps, EnterKeeps, InterruptedKeeps, HostFailsKeeps, GuestStepKeeps,
     HandleExitKeeps DEF Next

-----------------------------------------------------------------------------
(* Every variable keeps its type.                                          *)
THEOREM TypeCorrect == Spec => []TypeOK
<1>1. IInv => TypeOK
  BY DEF IInv
<1> QED
  BY <1>1, InitIInv, StepKeeps, PTL DEF Spec

(* The debug console (handle_io_exit) has always put out the beginning of  *)
(* the message, for any message and any number of interrupted KVM_RUNs.    *)
THEOREM Output == Spec => []OutputIsPrefix
<1>1. IInv => OutputIsPrefix
  <2> SUFFICES ASSUME IInv PROVE OutputIsPrefix
    OBVIOUS
  <2>1. /\ Message \in Seq(1..255) /\ console \in Seq(1..255) /\ Len(console) \in Nat
        /\ Len(console) <= Len(Message)
        /\ \A i \in 1..Len(console) : console[i] = Message[i]
    BY MessageAssumption, Typed DEF IInv, Prefix, Out
  <2>2. /\ SubSeq(Message, 1, Len(console)) \in Seq(1..255)
        /\ Len(SubSeq(Message, 1, Len(console))) = Len(console)
        /\ \A i \in 1..Len(console) : SubSeq(Message, 1, Len(console))[i] = Message[i]
    BY <2>1, Front
  <2>3. console = SubSeq(Message, 1, Len(console))
    BY <2>1, <2>2, SeqEqual
  <2> QED
    BY <2>1, <2>3 DEF OutputIsPrefix
<1> QED
  BY <1>1, InitIInv, StepKeeps, PTL DEF Spec

(* A monitor that has ended with success has put out the whole message.    *)
THEOREM Success == Spec => []SuccessMeansAll
<1>1. IInv => SuccessMeansAll
  <2> SUFFICES ASSUME IInv, At("succeeded") PROVE console = Message
    BY DEF SuccessMeansAll
  <2>1. Out = Len(Message)
    BY DEF IInv, Progress
  <2>2. /\ Message \in Seq(1..255) /\ console \in Seq(1..255)
        /\ Len(console) = Len(Message)
        /\ \A i \in 1..Len(console) : console[i] = Message[i]
    BY <2>1, MessageAssumption, Typed DEF IInv, Prefix, Out
  <2> QED
    BY <2>2, SeqEqual
<1> QED
  BY <1>1, InitIInv, StepKeeps, PTL DEF Spec

(* Only the host makes the monitor fail: whatever the signals do, each     *)
(* exit of the guest is one the switch over exit reasons handles.          *)
THEOREM OnlyHost == Spec => []OnlyHostFails
<1>1. IInv => OnlyHostFails
  BY DEF IInv, Progress, OnlyHostFails, HostErrors
<1> QED
  BY <1>1, InitIInv, StepKeeps, PTL DEF Spec
=============================================================================
