---------------------------- MODULE MemoryProofs ----------------------------
(***************************************************************************)
(* What the keepers of memory promise, for any sizes: a stack gives every  *)
(* thread back the registers it was suspended with, and the heaps tile     *)
(* their pool and leave alone what callers hold.                           *)
(***************************************************************************)
EXTENDS Context, FitHeap, Tlsf, ChainProofs, SequenceTheorems

-----------------------------------------------------------------------------
(* The context switch                                                      *)

-----------------------------------------------------------------------------
(* Stacks that share no word, each with room for its first frame above the *)
(* canary, and thread-local blocks that lie on none of them.               *)
Own(t) == StackBase[t]..(StackTop(t) - 1)
TlsWords(t) == LET e == StackBase[t] + StackSize[t] - 1 IN e..(e + 2)

StacksApart ==
  /\ \A t \in ThreadId : StackTop(t) - 16 > StackBase[t]
  /\ \A t, u \in ThreadId : t # u => Own(t) \cap Own(u) = {}
  /\ CONFIG_TLS => \A t, u \in ThreadId : TlsWords(t) \cap Own(u) = {}

CellSet == [who : ThreadId \cup {NoThread}, val : Nat, pad : BOOLEAN]
Regs == [caller : [1..8 -> CellSet], callee : [1..8 -> CellSet], psp : Int]

(* The exception frame at f holds the caller-saved half of the registers r *)
(* and says whether a word of padding lies above it.                       *)
Framed(m, f, r) ==
  /\ r.psp \in {f + 8, f + 9}
  /\ \A i \in 1..7 : m[f + i - 1] = r.caller[i]
  /\ m[f + 7] = [r.caller[8] EXCEPT !.pad = (r.psp = f + 9)]

(* The other half is below it, as PendSV has put it there.                 *)
Parked(m, sp, r) ==
  \A i \in 1..4 : m[sp + i + 3] = r.callee[i] /\ m[sp + i - 1] = r.callee[i + 4]

(* The registers of a thread that does not run.                            *)
AtRest(t) ==
  left[t].caller[8].pad = FALSE /\ left[t].psp = StackTop(t) - locals[t]

CtxTypeOK ==
  /\ mem \in [0..MemTop -> CellSet]
  /\ stack_ptr \in [ThreadId -> Int] /\ tls \in [ThreadId -> Int]
  /\ cpu \in Regs /\ cpu_mode \in {"main", "thread", "isr", "pendsv"}
  /\ g_arch_running_sp_loc \in ThreadId \cup {NoThread}
  /\ g_arch_next_sp_loc \in ThreadId \cup {NoThread}
  /\ pendsvset \in BOOLEAN
  /\ phase \in [ThreadId -> Nat] /\ locals \in [ThreadId -> Nat]
  /\ left \in [ThreadId -> Regs]

(* Who is on the CPU in which mode, and whom a pending switch is for.      *)
ModesOK ==
  /\ Running \in Started \cup {NoThread}
  /\ cpu_mode = "main" => Running = NoThread
  /\ cpu_mode = "thread" => Running # NoThread
  /\ pendsvset \/ cpu_mode = "pendsv" => g_arch_next_sp_loc \in Started
  /\ ~pendsvset /\ cpu_mode # "pendsv" => g_arch_next_sp_loc = Running

(* A thread's words end where the free part of its stack begins, and what  *)
(* is pushed leaves room for saving a context over the canary.             *)
RoomOK(t) ==
  /\ locals[t] > 0 => StackTop(t) - locals[t] >= StackBase[t] + Reserve
  /\ CONFIG_TLS /\ tls[t] >= 0 => tls[t] = StackBase[t] + StackSize[t] - 1
  /\ ~CONFIG_TLS => tls[t] < 0
  /\ t \notin Started => locals[t] = 0

OffCpu(t) ==
  /\ AtRest(t) /\ Framed(mem, stack_ptr[t] + 8, left[t]) /\ Parked(mem, stack_ptr[t], left[t])
  /\ stack_ptr[t] > StackBase[t]

OnCpu(t) ==
  IF cpu_mode = "thread" THEN cpu.psp = StackTop(t) - locals[t] /\ cpu.caller[8].pad = FALSE
  ELSE /\ AtRest(t) /\ Framed(mem, cpu.psp, left[t]) /\ cpu.callee = left[t].callee
       /\ cpu.psp - 8 > StackBase[t]

Kept(m, t) ==
  m[StackBase[t]] = Canary /\ \A i \in 1..locals[t] : m[StackTop(t) - i] = Local(t, i)

CtxInv ==
  /\ CtxTypeOK /\ ModesOK
  /\ \A t \in ThreadId : RoomOK(t)
  /\ \A t \in Started : Kept(mem, t)
  /\ \A t \in Started \ {Running} : OffCpu(t)
  /\ Running # NoThread => OnCpu(Running)

USE DEF Running

(* Where a stack and a doubleword boundary are.                            *)
LEMMA Aligned ==
  ASSUME NEW a \in Int
  PROVE  /\ AlignDown(a) \in Int /\ AlignDown(a) \in {a, a - 1}
         /\ AlignDown(AlignDown(a) - 8) = AlignDown(a) - 8
<1>1. a % 2 \in 0..1 /\ (a - (a % 2)) % 2 = 0
  BY Z3
<1>2. \A b \in Int : b % 2 = 0 => (b - 8) % 2 = 0
  BY Z3
<1>3. a - (a % 2) \in Int
  BY <1>1
<1>4. (a - (a % 2) - 8) % 2 = 0
  BY <1>1, <1>2, <1>3, Zenon
<1> QED BY <1>1, <1>3, <1>4 DEF AlignDown

LEMMA Geometry ==
  ASSUME StacksApart, NEW t \in ThreadId
  PROVE  /\ StackBase[t] \in Nat /\ StackSize[t] \in Nat /\ StackTop(t) \in Int
         /\ StackTop(t) <= StackBase[t] + StackSize[t] /\ StackTop(t) <= MemTop + 1
         /\ StackTop(t) > StackBase[t] + 16 /\ StackTop(t) >= StackBase[t] + StackSize[t] - 1
         /\ AlignDown(StackTop(t) - 8) = StackTop(t) - 8
         /\ MemTop \in Nat
<1>1. /\ StackBase[t] \in Nat /\ StackSize[t] \in Nat /\ MemTop \in Nat
      /\ StackBase[t] + StackSize[t] <= MemTop + 1
  BY ContextAssumption
<1>2. PICK e \in Int : e = StackBase[t] + StackSize[t]
  BY <1>1
<1>3. /\ StackTop(t) \in Int /\ StackTop(t) \in {e, e - 1}
      /\ AlignDown(StackTop(t) - 8) = StackTop(t) - 8
  BY <1>2, Aligned, Zenon DEF StackTop
<1>4. StackTop(t) - 16 > StackBase[t]
  BY DEF StacksApart
<1> QED BY <1>1, <1>2, <1>3, <1>4

(* Storing n cells at a changes the n words from a on and no other, as far *)
(* as they are words of the memory.                                        *)
Memory == [0..MemTop -> CellSet]
Wrote(new, m, a, n, cells) ==
  /\ new \in Memory
  /\ \A i \in 1..n : a + i - 1 \in 0..MemTop => new[a + i - 1] = cells[i]
  /\ \A x \in 0..MemTop : x < a \/ x >= a + n => new[x] = m[x]

LEMMA Writes ==
  ASSUME NEW n \in Nat, NEW cells \in [1..n -> CellSet], NEW a \in Int, NEW m \in Memory
  PROVE  Wrote(Store(m, a, cells), m, a, n, cells)
<1>1. Len(cells) = n
  <2>1. cells \in Seq(CellSet) /\ DOMAIN cells = 1..n
    BY IsASeq
  <2> QED BY <2>1, LenProperties
<1>2. ASSUME NEW i \in 1..n, a + i - 1 \in 0..MemTop
      PROVE  Store(m, a, cells)[a + i - 1] = cells[i]
  <2>1. a + i - 1 \in a..(a + Len(cells) - 1) /\ (a + i - 1) - a + 1 = i
    BY <1>1
  <2> QED BY <1>2, <2>1 DEF Store, Memory
<1>3. ASSUME NEW x \in 0..MemTop, x < a \/ x >= a + n PROVE Store(m, a, cells)[x] = m[x]
  <2>1. x \notin a..(a + Len(cells) - 1) /\ x \in DOMAIN m
    BY <1>1, <1>3 DEF Memory
  <2> QED BY <2>1 DEF Store
<1>4. Store(m, a, cells) \in Memory
  <2>1. ASSUME NEW x \in 0..MemTop, x \in a..(a + n - 1) PROVE cells[x - a + 1] \in CellSet
    <3>1. x - a + 1 \in 1..n
      BY <2>1
    <3> QED BY <3>1
  <2> QED BY <1>1, <2>1 DEF Store, Memory
<1> QED BY <1>2, <1>3, <1>4 DEF Wrote

(* What lies on a thread's own stack depends on that stack only.           *)
LEMMA KeptLocal ==
  ASSUME StacksApart, NEW t \in ThreadId, NEW m, NEW new, locals[t] \in Nat,
         locals[t] > 0 => StackTop(t) - locals[t] >= StackBase[t] + Reserve,
         \A x \in Own(t) : new[x] = m[x], Kept(m, t)
  PROVE  Kept(new, t)
<1>1. /\ StackBase[t] \in Nat /\ StackTop(t) \in Int /\ StackTop(t) > StackBase[t] + 16
  BY Geometry
<1>2. StackBase[t] \in Own(t)
  BY <1>1 DEF Own
<1>3. ASSUME NEW i \in 1..locals[t] PROVE StackTop(t) - i \in Own(t)
  BY <1>1 DEF Own, Reserve
<1> QED BY <1>2, <1>3 DEF Kept

LEMMA FramedLocal ==
  ASSUME StacksApart, NEW t \in ThreadId, NEW m, NEW new, locals[t] \in Nat,
         NEW f \in Int, NEW r, r.psp = StackTop(t) - locals[t], f > StackBase[t],
         \A x \in Own(t) : new[x] = m[x], Framed(m, f, r)
  PROVE  Framed(new, f, r)
<1>1. /\ StackBase[t] \in Nat /\ StackTop(t) \in Int
  BY Geometry
<1>2. f..(f + 7) \subseteq Own(t)
  BY <1>1 DEF Own, Framed
<1>3. \A i \in 1..7 : f + i - 1 \in f..(f + 7)
  OBVIOUS
<1>4. f + 7 \in f..(f + 7)
  OBVIOUS
<1> QED BY <1>2, <1>3, <1>4 DEF Framed

LEMMA ParkedLocal ==
  ASSUME StacksApart, NEW t \in ThreadId, NEW m, NEW new,
         NEW sp \in Int, NEW r, sp > StackBase[t], sp + 16 <= StackTop(t),
         \A x \in Own(t) : new[x] = m[x], Parked(m, sp, r)
  PROVE  Parked(new, sp, r)
<1>1. /\ StackBase[t] \in Nat /\ StackTop(t) \in Int
  BY Geometry
<1>2. sp..(sp + 7) \subseteq Own(t)
  BY <1>1 DEF Own
<1>3. \A i \in 1..4 : sp + i + 3 \in sp..(sp + 7) /\ sp + i - 1 \in sp..(sp + 7)
  OBVIOUS
<1> QED BY <1>2, <1>3 DEF Parked

(* A thread that is off the CPU, and whose words nobody writes, stays as   *)
(* it is.                                                                  *)
LEMMA OthersUntouched ==
  ASSUME StacksApart, CtxInv, NEW u \in Started, u # Running,
         stack_ptr'[u] = stack_ptr[u], left'[u] = left[u], locals'[u] = locals[u],
         \A x \in Own(u) : mem'[x] = mem[x]
  PROVE  OffCpu(u)' /\ Kept(mem, u)'
<1>1. u \in ThreadId /\ locals[u] \in Nat /\ RoomOK(u) /\ Kept(mem, u) /\ OffCpu(u)
      /\ stack_ptr[u] \in Int
  BY DEF CtxInv, CtxTypeOK, Started
<1>2. Kept(mem', u)
  BY <1>1, KeptLocal DEF RoomOK
<1>3. /\ StackBase[u] \in Nat /\ StackTop(u) \in Int
  BY <1>1, Geometry
<1>4. left[u].psp = StackTop(u) - locals[u] /\ stack_ptr[u] > StackBase[u]
  BY <1>1 DEF OffCpu, AtRest
<1>5. Framed(mem', stack_ptr[u] + 8, left[u])
  <2>1. PICK f \in Int : f = stack_ptr[u] + 8 /\ f > StackBase[u]
    BY <1>1, <1>3, <1>4
  <2>2. Framed(mem, f, left[u])
    BY <1>1, <2>1 DEF OffCpu
  <2> QED BY <1>1, <1>4, <2>1, <2>2, FramedLocal
<1>6. Parked(mem', stack_ptr[u], left[u])
  <2>1. stack_ptr[u] + 16 <= StackTop(u)
    BY <1>1, <1>3, <1>4 DEF OffCpu, Framed
  <2> QED BY <1>1, <1>4, <2>1, ParkedLocal DEF OffCpu
<1> QED BY <1>1, <1>2, <1>5, <1>6 DEF OffCpu, Kept, AtRest

(* The same for the thread on the CPU.                                     *)
LEMMA RunningUntouched ==
  ASSUME StacksApart, CtxInv, Running # NoThread, cpu_mode' = cpu_mode, cpu' = cpu,
         left'[Running] = left[Running], locals'[Running] = locals[Running],
         \A x \in Own(Running) : mem'[x] = mem[x], Running' = Running
  PROVE  OnCpu(Running)' /\ Kept(mem, Running)'
<1> DEFINE u == Running
<1>1. u \in ThreadId /\ u \in Started /\ locals[u] \in Nat /\ RoomOK(u) /\ Kept(mem, u) /\ OnCpu(u)
      /\ cpu.psp \in Int
  BY DEF CtxInv, CtxTypeOK, Started, ModesOK, Regs
<1>2. Kept(mem', u)
  BY <1>1, KeptLocal DEF RoomOK
<1>3. ASSUME cpu_mode # "thread" PROVE Framed(mem', cpu.psp, left[u])
  <2>1. /\ Framed(mem, cpu.psp, left[u]) /\ left[u].psp = StackTop(u) - locals[u]
        /\ cpu.psp - 8 > StackBase[u] /\ StackBase[u] \in Nat
    BY <1>1, <1>3, Geometry DEF OnCpu, AtRest
  <2>2. cpu.psp > StackBase[u]
    BY <1>1, <2>1
  <2> QED BY <1>1, <2>1, <2>2, FramedLocal
<1> QED BY <1>1, <1>2, <1>3 DEF OnCpu, AtRest, Kept

LEMMA ContextStarts == ContextInit => CtxInv
<1> SUFFICES ASSUME ContextInit PROVE CtxInv
  OBVIOUS
<1>1. Const(0) \in CellSet
  BY DEF Const, Cell, CellSet
<1>2. Zeros \in [1..8 -> CellSet]
  BY <1>1 DEF Zeros
<1>3. CtxTypeOK
  <2>1. cpu \in Regs
    BY <1>2 DEF ContextInit, Regs
  <2>2. -1 \in Int
    OBVIOUS
  <2> QED BY <1>1, <2>1, <2>2 DEF ContextInit, CtxTypeOK
<1>4. Started = {}
  BY DEF ContextInit, Started
<1>5. ASSUME NEW t \in ThreadId PROVE RoomOK(t)
  <2>1. locals[t] = 0 /\ tls[t] = -1
    BY DEF ContextInit
  <2>2. ~(locals[t] > 0) /\ ~(tls[t] >= 0) /\ tls[t] < 0
    BY <2>1
  <2> QED BY <2>1, <2>2, Zenon DEF RoomOK
<1> QED BY <1>3, <1>4, <1>5 DEF ContextInit, CtxInv, ModesOK

(* Cells and first frames are well-formed.                                 *)
LEMMA Cells ==
  ASSUME NEW t \in ThreadId
  PROVE  /\ FirstFrame(t) \in [1..8 -> CellSet] /\ Zeros \in [1..8 -> CellSet]
         /\ FirstFrame(t)[8].pad = FALSE /\ Canary \in CellSet /\ Thumb \in CellSet
         /\ Scratch \in CellSet /\ WaitCtx(t) \in CellSet
         /\ \A i \in Nat : Local(t, i) \in CellSet
         /\ \A p, i \in Nat : Live(t, p, i) \in CellSet
         /\ Thumb.pad = FALSE
<1>1. \A v \in Nat : Cell(t, v) \in CellSet /\ Const(v) \in CellSet
  BY DEF Cell, Const, CellSet
<1>2. /\ Arg(t) \in CellSet /\ Entry(t) \in CellSet /\ ThreadExit \in CellSet
      /\ Canary \in CellSet /\ Thumb \in CellSet /\ Scratch \in CellSet /\ WaitCtx(t) \in CellSet
      /\ Thumb.pad = FALSE
  BY <1>1 DEF Arg, Entry, ThreadExit, Canary, Thumb, Scratch, WaitCtx, Const, Cell
<1>3. \A i \in Nat : Local(t, i) \in CellSet
  BY <1>1 DEF Local
<1>4. ASSUME NEW p \in Nat, NEW i \in Nat PROVE Live(t, p, i) \in CellSet
  <2>1. 40 + 16 * p + i \in Nat
    OBVIOUS
  <2> QED BY <1>1, <2>1 DEF Live
<1>5. Zeros \in [1..8 -> CellSet]
  BY <1>1 DEF Zeros
<1>6. FirstFrame(t) \in [1..8 -> CellSet] /\ FirstFrame(t)[8].pad = FALSE
  <2>1. \A v \in {1, 2, 3, 12} : Const(v) \in CellSet
    BY <1>1
  <2> QED BY <1>2, <2>1 DEF FirstFrame
<1> QED BY <1>2, <1>3, <1>4, <1>5, <1>6

LEMMA CreateKeeps ==
  ASSUME StacksApart, CtxInv, NEW t \in ThreadId, vibe_thread_create(t)
  PROVE  CtxInv'
<1> DEFINE m1 == Store(mem, StackBase[t], <<Canary>>)
           m2 == Store(m1, StackTop(t) - 8, FirstFrame(t))
           m3 == Store(m2, StackTop(t) - 16, Zeros)
           r  == [caller |-> FirstFrame(t), callee |-> Zeros, psp |-> StackTop(t)]
           D  == 0..MemTop
<1>1. /\ t \notin Started /\ mem' = m3 /\ stack_ptr' = [stack_ptr EXCEPT ![t] = StackTop(t) - 16]
      /\ tls' = IF CONFIG_TLS THEN [tls EXCEPT ![t] = StackBase[t] + StackSize[t] - 1] ELSE tls
      /\ left' = [left EXCEPT ![t] = r] /\ cpu_mode \in {"main", "thread"}
      /\ UNCHANGED <<cpu, cpu_mode, g_arch_running_sp_loc, g_arch_next_sp_loc, pendsvset, phase, locals>>
  BY DEF vibe_thread_create, thread_stack_setup, arch_thread_stack_init
<1>2. CtxTypeOK /\ ModesOK /\ RoomOK(t) /\ mem \in Memory
  BY DEF CtxInv, CtxTypeOK, Memory
<1>3. /\ StackBase[t] \in Nat /\ StackTop(t) \in Int /\ StackTop(t) <= MemTop + 1 /\ MemTop \in Nat
      /\ StackTop(t) > StackBase[t] + 16 /\ StackSize[t] \in Nat
  BY Geometry
<1>4. FirstFrame(t) \in [1..8 -> CellSet] /\ Zeros \in [1..8 -> CellSet] /\ Canary \in CellSet
      /\ FirstFrame(t)[8].pad = FALSE
  BY Cells, Zenon
<1>5. PICK b \in Int, f \in Int, z \in Int : b = StackBase[t] /\ f = StackTop(t) - 8 /\ z = StackTop(t) - 16
  BY <1>3
<1>6. PICK n1 \in Nat, n8 \in Nat : n1 = 1 /\ n8 = 8
  OBVIOUS
<1>7. <<Canary>> \in [1..n1 -> CellSet] /\ FirstFrame(t) \in [1..n8 -> CellSet] /\ Zeros \in [1..n8 -> CellSet]
  BY <1>4, <1>6
<1>8. Wrote(m1, mem, b, n1, <<Canary>>)
  BY <1>2, <1>5, <1>7, Writes
<1> HIDE DEF m1
<1>9. Wrote(m2, m1, f, n8, FirstFrame(t))
  <2>1. m1 \in Memory
    BY <1>8 DEF Wrote
  <2> QED BY <1>5, <1>7, <2>1, Writes
<1> HIDE DEF m2
<1>10. Wrote(m3, m2, z, n8, Zeros)
  <2>1. m2 \in Memory
    BY <1>9 DEF Wrote
  <2> QED BY <1>5, <1>7, <2>1, Writes
<1> HIDE DEF m3, D, r
<1>11. /\ m1[StackBase[t]] = Canary
       /\ \A x \in D : x # StackBase[t] => m1[x] = mem[x]
  <2>1. b + 1 - 1 \in 0..MemTop /\ b + 1 - 1 = StackBase[t]
    BY <1>3, <1>5
  <2>2. 1 \in 1..n1 /\ <<Canary>>[1] = Canary
    BY <1>6
  <2>3. m1[b + 1 - 1] = Canary
    BY <1>8, <2>1, <2>2, Zenon DEF Wrote
  <2>4. ASSUME NEW x \in D, x # StackBase[t] PROVE m1[x] = mem[x]
    <3>1. x \in 0..MemTop /\ (x < b \/ x >= b + n1)
      BY <1>5, <1>6, <2>4, <1>3 DEF D
    <3> QED BY <1>8, <3>1 DEF Wrote
  <2> QED BY <2>1, <2>3, <2>4
<1>12. /\ \A i \in 1..8 : m2[StackTop(t) - 8 + i - 1] = FirstFrame(t)[i]
       /\ \A x \in D : x \notin (StackTop(t) - 8)..(StackTop(t) - 1) => m2[x] = m1[x]
  BY <1>3, <1>5, <1>6, <1>9 DEF Wrote, D
<1>13. /\ mem' \in Memory
       /\ \A i \in 1..8 : mem'[StackTop(t) - 16 + i - 1] = Zeros[i]
       /\ \A x \in D : x \notin (StackTop(t) - 16)..(StackTop(t) - 9) => mem'[x] = m2[x]
  BY <1>1, <1>3, <1>5, <1>6, <1>10 DEF Wrote, D
<1>14. \A x \in D : x \notin Own(t) => mem'[x] = mem[x]
  BY <1>3, <1>11, <1>12, <1>13 DEF Own
<1>15. \A u \in ThreadId \ {t} : \A x \in Own(u) : mem'[x] = mem[x]
  <2> SUFFICES ASSUME NEW u \in ThreadId \ {t}, NEW x \in Own(u) PROVE mem'[x] = mem[x]
    OBVIOUS
  <2>1. x \notin Own(t)
    BY DEF StacksApart
  <2>2. x \in D
    BY Geometry DEF Own, D
  <2> QED BY <1>14, <2>1, <2>2
<1>16. r \in Regs /\ left'[t] = r /\ stack_ptr'[t] = StackTop(t) - 16 /\ r.psp = StackTop(t)
       /\ r.caller = FirstFrame(t) /\ r.callee = Zeros /\ locals'[t] = 0 /\ locals[t] = 0
  <2>1. r \in Regs /\ r.psp = StackTop(t) /\ r.caller = FirstFrame(t) /\ r.callee = Zeros
    BY <1>3, <1>4 DEF Regs, r
  <2> QED BY <1>1, <1>2, <2>1 DEF CtxTypeOK, RoomOK
<1>17. Started' = Started \cup {t}
  <2>1. StackTop(t) - 16 >= 0
    BY <1>3
  <2>2. \A u \in ThreadId : stack_ptr'[u] >= 0 <=> (stack_ptr[u] >= 0 \/ u = t)
    BY <1>1, <1>2, <2>1 DEF CtxTypeOK
  <2> QED BY <2>2 DEF Started
<1>18. OffCpu(t)'
  <2>1. AtRest(t)'
    BY <1>3, <1>4, <1>16 DEF AtRest
  <2>2. \A i \in 1..8 : mem'[StackTop(t) - 8 + i - 1] = FirstFrame(t)[i]
    <3> TAKE i \in 1..8
    <3>1. StackTop(t) - 8 + i - 1 \in D /\ StackTop(t) - 8 + i - 1 \notin (StackTop(t) - 16)..(StackTop(t) - 9)
      BY <1>3 DEF D
    <3> QED BY <1>12, <1>13, <3>1
  <2>3. Framed(mem', StackTop(t) - 16 + 8, r)
    <3>1. StackTop(t) - 16 + 8 = StackTop(t) - 8 /\ StackTop(t) = (StackTop(t) - 8) + 8
          /\ StackTop(t) # (StackTop(t) - 8) + 9
      BY <1>3
    <3>2. \A i \in 1..7 : mem'[StackTop(t) - 8 + i - 1] = FirstFrame(t)[i]
      BY <2>2
    <3>3. mem'[StackTop(t) - 8 + 7] = FirstFrame(t)[8]
      <4>1. 8 \in 1..8 /\ StackTop(t) - 8 + 8 - 1 = StackTop(t) - 8 + 7
        BY <1>3
      <4> QED BY <2>2, <4>1
    <3>4. FirstFrame(t)[8] = [FirstFrame(t)[8] EXCEPT !.pad = FALSE]
      <4>1. FirstFrame(t)[8] \in CellSet /\ FirstFrame(t)[8].pad = FALSE
        BY <1>4
      <4> QED BY <4>1 DEF CellSet
    <3> QED BY <1>16, <3>1, <3>2, <3>3, <3>4 DEF Framed
  <2>4. Parked(mem', StackTop(t) - 16, r)
    <3> SUFFICES ASSUME NEW i \in 1..4
                 PROVE  /\ mem'[StackTop(t) - 16 + i + 3] = Zeros[i]
                        /\ mem'[StackTop(t) - 16 + i - 1] = Zeros[i + 4]
      BY <1>16 DEF Parked
    <3>1. i \in 1..8 /\ i + 4 \in 1..8 /\ StackTop(t) - 16 + (i + 4) - 1 = StackTop(t) - 16 + i + 3
      BY <1>3
    <3>2. Zeros[i] = Zeros[i + 4]
      BY <3>1 DEF Zeros
    <3> QED BY <1>13, <3>1, <3>2
  <2> QED BY <1>3, <1>16, <2>1, <2>3, <2>4 DEF OffCpu
<1>19. Kept(mem, t)'
  <2>1. StackBase[t] \in D /\ StackBase[t] \notin (StackTop(t) - 16)..(StackTop(t) - 9)
        /\ StackBase[t] \notin (StackTop(t) - 8)..(StackTop(t) - 1)
    BY <1>3 DEF D
  <2>2. mem'[StackBase[t]] = Canary
    BY <1>11, <1>12, <1>13, <2>1
  <2> QED BY <1>16, <2>2 DEF Kept
<1>20. \A u \in Started : u # t
  BY <1>1
<1>21. CtxTypeOK'
  <2>1. mem' \in [0..MemTop -> CellSet]
    BY <1>13 DEF Memory
  <2>2. stack_ptr' \in [ThreadId -> Int] /\ tls' \in [ThreadId -> Int] /\ left' \in [ThreadId -> Regs]
    <3>1. StackTop(t) - 16 \in Int /\ StackBase[t] + StackSize[t] - 1 \in Int
      BY <1>3
    <3>2. stack_ptr' \in [ThreadId -> Int] /\ left' \in [ThreadId -> Regs]
      BY <1>1, <1>2, <1>16, <3>1 DEF CtxTypeOK
    <3>3. CASE CONFIG_TLS
      BY <1>1, <1>2, <3>1, <3>2, <3>3 DEF CtxTypeOK
    <3>4. CASE ~CONFIG_TLS
      BY <1>1, <1>2, <3>1, <3>2, <3>4 DEF CtxTypeOK
    <3> QED BY <3>3, <3>4
  <2> QED BY <1>1, <1>2, <2>1, <2>2 DEF CtxTypeOK
<1>22. ASSUME NEW u \in ThreadId PROVE RoomOK(u)'
  <2>1. RoomOK(u) /\ locals' = locals /\ (u \notin Started' => u \notin Started)
    BY <1>1, <1>17 DEF CtxInv
  <2>2. CASE u # t
    BY <1>1, <1>2, <2>1, <2>2 DEF RoomOK, CtxTypeOK
  <2>3. CASE u = t
    BY <1>1, <1>2, <1>17, <2>1, <2>3 DEF RoomOK, CtxTypeOK
  <2> QED BY <2>2, <2>3
<1>23. ASSUME NEW u \in Started, u # Running PROVE OffCpu(u)' /\ Kept(mem, u)'
  <2>1. u \in ThreadId \ {t} /\ stack_ptr'[u] = stack_ptr[u] /\ left'[u] = left[u] /\ locals'[u] = locals[u]
    BY <1>1, <1>2 DEF Started, CtxTypeOK
  <2> QED BY <1>15, <1>23, <2>1, OthersUntouched
<1>24. ASSUME Running # NoThread PROVE OnCpu(Running)' /\ Kept(mem, Running)'
  <2>1. Running \in ThreadId \ {t} /\ left'[Running] = left[Running]
    BY <1>1, <1>2, <1>24 DEF ModesOK, Started, CtxTypeOK
  <2> QED BY <1>1, <1>15, <1>24, <2>1, RunningUntouched
<1>25. ModesOK'
  BY <1>1, <1>2, <1>17 DEF ModesOK
<1>26. ASSUME NEW u \in Started' PROVE Kept(mem, u)'
  <2>1. NoThread \notin Started
    BY ContextAssumption DEF Started
  <2>2. u = t \/ (u \in Started /\ u # Running) \/ (u = Running /\ Running # NoThread)
    BY <1>17, <2>1
  <2>3. CASE u = t
    BY <1>19, <2>3 DEF Kept
  <2>4. CASE u = Running /\ Running # NoThread
    BY <1>1, <1>24, <2>4 DEF Kept
  <2> QED BY <1>23, <2>2, <2>3, <2>4
<1>27. \A u \in Started' \ {Running'} : OffCpu(u)'
  BY <1>1, <1>17, <1>18, <1>23
<1> QED BY <1>1, <1>21, <1>22, <1>24, <1>25, <1>26, <1>27 DEF CtxInv

(* A step that writes only on the stack of the thread on the CPU, or on    *)
(* none, leaves the others as they are.                                    *)
LEMMA OthersStay ==
  ASSUME StacksApart, CtxInv,
         \A u \in ThreadId \ {Running} : \A x \in Own(u) : mem'[x] = mem[x],
         UNCHANGED <<stack_ptr, g_arch_running_sp_loc>>,
         \A u \in ThreadId \ {Running} : left'[u] = left[u] /\ locals'[u] = locals[u]
  PROVE  /\ Started' = Started
         /\ \A u \in Started \ {Running} : OffCpu(u)' /\ Kept(mem, u)'
<1>1. Started' = Started
  BY DEF Started
<1>2. ASSUME NEW u \in Started \ {Running} PROVE OffCpu(u)' /\ Kept(mem, u)'
  <2>1. u \in ThreadId \ {Running} /\ u \in Started /\ stack_ptr'[u] = stack_ptr[u]
    BY DEF Started
  <2> QED BY <2>1, OthersUntouched
<1> QED BY <1>1, <1>2

LEMMA SwitchToKeeps ==
  ASSUME StacksApart, CtxInv, NEW t \in ThreadId, arch_switch_to(t)
  PROVE  CtxInv'
<1>1. t \in Started /\ g_arch_next_sp_loc' = t /\ pendsvset' = TRUE
      /\ UNCHANGED <<mem, stack_ptr, tls, cpu, cpu_mode, g_arch_running_sp_loc, phase, locals, left>>
  BY DEF arch_switch_to
<1>2. CtxTypeOK' /\ Started' = Started
  BY <1>1 DEF CtxInv, CtxTypeOK, Started
<1>3. ModesOK'
  BY <1>1, <1>2 DEF CtxInv, ModesOK
<1>4. \A u \in ThreadId : RoomOK(u)'
  BY <1>1, <1>2 DEF CtxInv, RoomOK
<1>5. /\ \A u \in Started' : Kept(mem, u)'
      /\ \A u \in Started' \ {Running'} : OffCpu(u)'
      /\ Running' # NoThread => OnCpu(Running)'
  BY <1>1, <1>2 DEF CtxInv, Kept, OffCpu, OnCpu, AtRest
<1> QED BY <1>2, <1>3, <1>4, <1>5 DEF CtxInv

LEMMA EnterPendSVKeeps ==
  ASSUME StacksApart, CtxInv, EnterPendSV
  PROVE  CtxInv'
<1>1. cpu_mode = "isr" /\ pendsvset /\ cpu_mode' = "pendsv" /\ pendsvset' = FALSE
      /\ UNCHANGED <<mem, stack_ptr, tls, cpu, g_arch_running_sp_loc, g_arch_next_sp_loc, phase, locals, left>>
  BY DEF EnterPendSV
<1>2. CtxTypeOK' /\ Started' = Started
  BY <1>1 DEF CtxInv, CtxTypeOK, Started
<1>3. ModesOK'
  BY <1>1, <1>2 DEF CtxInv, ModesOK
<1>4. \A u \in ThreadId : RoomOK(u)'
  BY <1>1, <1>2 DEF CtxInv, RoomOK
<1>5. /\ \A u \in Started' : Kept(mem, u)'
      /\ \A u \in Started' \ {Running'} : OffCpu(u)'
      /\ Running' # NoThread => OnCpu(Running)'
  BY <1>1, <1>2 DEF CtxInv, Kept, OffCpu, OnCpu, AtRest
<1> QED BY <1>2, <1>3, <1>4, <1>5 DEF CtxInv

LEMMA ComputeKeeps ==
  ASSUME StacksApart, CtxInv, Compute
  PROVE  CtxInv'
<1> DEFINE t == Running
           p == phase[t] + 1
           new == [cpu EXCEPT
                     !.caller = [r \in 1..8 |-> IF r = 8 THEN Thumb ELSE Live(t, p, r)],
                     !.callee = [r \in 1..8 |-> Live(t, p, 8 + r)]]
<1>1. /\ cpu_mode = "thread" /\ phase' = [phase EXCEPT ![t] = @ + 1]
      /\ UNCHANGED <<mem, stack_ptr, tls, cpu_mode, g_arch_running_sp_loc, g_arch_next_sp_loc,
                     pendsvset, locals, left>>
  BY DEF Compute
<1>2. t \in ThreadId /\ t \in Started /\ phase[t] \in Nat /\ p \in Nat /\ t # NoThread
      /\ phase'[t] = p /\ phase' \in [ThreadId -> Nat]
  BY <1>1 DEF CtxInv, CtxTypeOK, ModesOK, Started
<1>3. cpu' = new
  BY <1>2 DEF Compute
<1> HIDE DEF p
<1>4. new \in Regs /\ new.psp = cpu.psp /\ new.caller[8].pad = FALSE
  <2>1. Thumb \in CellSet /\ Thumb.pad = FALSE /\ \A i \in Nat : Live(t, p, i) \in CellSet
    BY <1>2, Cells
  <2>2. \A r \in 1..8 : r \in Nat /\ 8 + r \in Nat
    OBVIOUS
  <2>3. /\ [r \in 1..8 |-> IF r = 8 THEN Thumb ELSE Live(t, p, r)] \in [1..8 -> CellSet]
        /\ [r \in 1..8 |-> Live(t, p, 8 + r)] \in [1..8 -> CellSet]
    BY <2>1, <2>2
  <2>4. cpu \in Regs
    BY DEF CtxInv, CtxTypeOK
  <2>5. PICK c1 \in [1..8 -> CellSet], c2 \in [1..8 -> CellSet] :
          /\ c1 = [r \in 1..8 |-> IF r = 8 THEN Thumb ELSE Live(t, p, r)]
          /\ c2 = [r \in 1..8 |-> Live(t, p, 8 + r)]
    BY <2>3
  <2>6. c1[8] = Thumb
    BY <2>5
  <2>7. new = [cpu EXCEPT !.caller = c1, !.callee = c2]
    BY <2>5
  <2> HIDE DEF new
  <2> QED BY <2>1, <2>4, <2>6, <2>7 DEF Regs
<1> HIDE DEF new, t
<1>5. CtxTypeOK' /\ Started' = Started
  BY <1>1, <1>2, <1>3, <1>4 DEF CtxInv, CtxTypeOK, Started
<1>6. ModesOK'
  BY <1>1, <1>5 DEF CtxInv, ModesOK
<1>7. \A u \in ThreadId : RoomOK(u)'
  BY <1>1, <1>5 DEF CtxInv, RoomOK
<1>8. /\ \A u \in Started' : Kept(mem, u)'
      /\ \A u \in Started' \ {Running'} : OffCpu(u)'
  BY <1>1, <1>5 DEF CtxInv, Kept, OffCpu, AtRest
<1>9. Running' # NoThread => OnCpu(Running)'
  BY <1>1, <1>3, <1>4 DEF CtxInv, OnCpu
<1> QED BY <1>5, <1>6, <1>7, <1>8, <1>9 DEF CtxInv

LEMMA PushKeeps ==
  ASSUME StacksApart, CtxInv, Push
  PROVE  CtxInv'
<1>1. PICK t \in ThreadId : t = Running /\ t \in Started /\ t # NoThread
  BY DEF Push, CtxInv, ModesOK, CtxTypeOK
<1> DEFINE n == locals[t] + 1
<1>2. /\ cpu_mode = "thread" /\ cpu.psp - 1 >= StackBase[t] + Reserve
      /\ mem' = Store(mem, cpu.psp - 1, <<Local(t, n)>>)
      /\ cpu' = [cpu EXCEPT !.psp = @ - 1] /\ locals' = [locals EXCEPT ![t] = @ + 1]
      /\ UNCHANGED <<stack_ptr, tls, cpu_mode, g_arch_running_sp_loc, g_arch_next_sp_loc,
                     pendsvset, phase, left>>
  BY <1>1 DEF Push
<1>3. t \in ThreadId /\ t \in Started /\ t # NoThread /\ locals[t] \in Nat /\ n \in Nat
      /\ locals'[t] = n /\ locals' \in [ThreadId -> Nat] /\ cpu \in Regs /\ mem \in Memory
      /\ cpu'.psp = cpu.psp - 1 /\ cpu' \in Regs /\ cpu'.caller = cpu.caller /\ cpu.psp \in Int
  <2>1. cpu \in Regs /\ mem \in Memory /\ locals[t] \in Nat
    BY DEF CtxInv, CtxTypeOK, Memory
  <2>2. locals' \in [ThreadId -> Nat] /\ locals'[t] = locals[t] + 1
    BY <1>2 DEF CtxInv, CtxTypeOK
  <2>3. cpu'.psp = cpu.psp - 1 /\ cpu' \in Regs /\ cpu'.caller = cpu.caller /\ cpu.psp \in Int
    BY <1>2, <2>1 DEF Regs
  <2> QED BY <1>1, <2>1, <2>2, <2>3
<1>4. /\ StackBase[t] \in Nat /\ StackTop(t) \in Int /\ StackTop(t) <= MemTop + 1 /\ MemTop \in Nat
  BY <1>3, Geometry
<1>5. cpu.psp = StackTop(t) - locals[t] /\ cpu.caller[8].pad = FALSE /\ RoomOK(t) /\ Kept(mem, t)
  BY <1>1, <1>2, <1>3 DEF CtxInv, OnCpu
<1>6. PICK a \in Int, k \in Nat : a = cpu.psp - 1 /\ k = 1
  BY <1>3
<1>7. Wrote(mem', mem, a, k, <<Local(t, n)>>)
  <2>1. Local(t, n) \in CellSet
    BY <1>3, Cells, Zenon
  <2>2. <<Local(t, n)>> \in [1..k -> CellSet]
    BY <1>6, <2>1
  <2> QED BY <1>2, <1>3, <1>6, <2>2, Writes
<1>8. a = StackTop(t) - n /\ a \in Own(t) /\ a > StackBase[t] /\ a \in 0..MemTop
  BY <1>2, <1>3, <1>4, <1>5, <1>6 DEF Own, Reserve
<1>9. mem' \in Memory /\ mem'[a] = Local(t, n) /\ \A x \in 0..MemTop : x # a => mem'[x] = mem[x]
  <2>1. 1 \in 1..k /\ a + 1 - 1 = a
    BY <1>6
  <2>2. mem'[a + 1 - 1] = <<Local(t, n)>>[1]
    BY <1>7, <1>8, <2>1 DEF Wrote
  <2> QED BY <1>6, <1>7, <1>8, <2>1, <2>2 DEF Wrote
<1> HIDE DEF n
<1>10. \A u \in ThreadId \ {t} : \A x \in Own(u) : mem'[x] = mem[x]
  <2> SUFFICES ASSUME NEW u \in ThreadId \ {t}, NEW x \in Own(u) PROVE mem'[x] = mem[x]
    OBVIOUS
  <2>1. x \notin Own(t)
    BY <1>3 DEF StacksApart
  <2>2. x \in 0..MemTop
    BY Geometry DEF Own
  <2> QED BY <1>8, <1>9, <2>1, <2>2
<1>11. /\ Started' = Started
       /\ \A u \in Started \ {t} : OffCpu(u)' /\ Kept(mem, u)'
  <2>1. \A u \in ThreadId \ {t} : left'[u] = left[u] /\ locals'[u] = locals[u]
    BY <1>2 DEF CtxInv, CtxTypeOK
  <2> QED BY <1>2, <1>10, <1>1, <2>1, OthersStay
<1>12. Kept(mem, t)'
  <2>1. mem'[StackBase[t]] = Canary
    BY <1>4, <1>5, <1>8, <1>9 DEF Kept
  <2>2. ASSUME NEW i \in 1..n PROVE mem'[StackTop(t) - i] = Local(t, i)
    <3>1. CASE i = n
      BY <1>8, <1>9, <3>1
    <3>2. CASE i # n
      <4>1. i \in 1..locals[t] /\ StackTop(t) - i # a /\ StackTop(t) - i \in 0..MemTop
        BY <1>2, <1>3, <1>4, <1>6, <1>8, <3>2 DEF n
      <4> QED BY <1>5, <1>9, <4>1 DEF Kept
    <3> QED BY <3>1, <3>2
  <2> QED BY <1>3, <2>1, <2>2 DEF Kept
<1>13. CtxTypeOK'
  BY <1>2, <1>3, <1>9 DEF CtxInv, CtxTypeOK, Memory
<1>14. ModesOK'
  BY <1>2, <1>11 DEF CtxInv, ModesOK
<1>15. ASSUME NEW u \in ThreadId PROVE RoomOK(u)'
  <2>1. CASE u = t
    <3>1. StackTop(t) - n >= StackBase[t] + Reserve
      BY <1>2, <1>6, <1>8
    <3> QED BY <1>2, <1>3, <1>5, <1>11, <2>1, <3>1 DEF RoomOK
  <2>2. CASE u # t
    <3>1. locals'[u] = locals[u] /\ RoomOK(u)
      BY <1>2, <2>2 DEF CtxInv, CtxTypeOK
    <3> QED BY <1>2, <1>11, <3>1 DEF RoomOK
  <2> QED BY <2>1, <2>2
<1>16. OnCpu(Running)'
  <2>1. cpu'.psp = StackTop(t) - n
    BY <1>3, <1>6, <1>8
  <2> QED BY <1>1, <1>2, <1>3, <1>5, <2>1 DEF OnCpu
<1>17. \A u \in Started' : Kept(mem, u)'
  BY <1>11, <1>12
<1>18. \A u \in Started' \ {Running'} : OffCpu(u)'
  BY <1>1, <1>2, <1>11
<1> QED BY <1>13, <1>14, <1>15, <1>16, <1>17, <1>18 DEF CtxInv

LEMMA PopKeeps ==
  ASSUME StacksApart, CtxInv, Pop
  PROVE  CtxInv'
<1>1. PICK t \in ThreadId : t = Running /\ t \in Started /\ t # NoThread
  BY DEF Pop, CtxInv, ModesOK, CtxTypeOK
<1>2. /\ cpu_mode = "thread" /\ locals[t] > 0
      /\ cpu' = [cpu EXCEPT !.psp = @ + 1] /\ locals' = [locals EXCEPT ![t] = @ - 1]
      /\ UNCHANGED <<mem, stack_ptr, tls, cpu_mode, g_arch_running_sp_loc, g_arch_next_sp_loc,
                     pendsvset, phase, left>>
  BY <1>1 DEF Pop
<1>3. cpu \in Regs /\ locals[t] \in Nat /\ RoomOK(t) /\ Kept(mem, t) /\ OnCpu(t)
  BY <1>1 DEF CtxInv, CtxTypeOK
<1>4. locals' \in [ThreadId -> Nat] /\ locals'[t] = locals[t] - 1
  BY <1>2, <1>3 DEF CtxInv, CtxTypeOK
<1>5. cpu'.psp = cpu.psp + 1 /\ cpu' \in Regs /\ cpu'.caller = cpu.caller /\ cpu.psp \in Int
  BY <1>2, <1>3 DEF Regs
<1>6. /\ StackBase[t] \in Nat /\ StackTop(t) \in Int
  BY Geometry
<1>7. /\ Started' = Started
      /\ \A u \in Started \ {t} : OffCpu(u)' /\ Kept(mem, u)'
  <2>1. \A u \in ThreadId \ {t} : left'[u] = left[u] /\ locals'[u] = locals[u]
    BY <1>2 DEF CtxInv, CtxTypeOK
  <2> QED BY <1>1, <1>2, <2>1, OthersStay
<1>8. Kept(mem, t)'
  <2>1. \A i \in 1..(locals[t] - 1) : i \in 1..locals[t]
    BY <1>3
  <2> QED BY <1>2, <1>3, <1>4, <2>1 DEF Kept
<1>9. CtxTypeOK'
  BY <1>2, <1>4, <1>5 DEF CtxInv, CtxTypeOK
<1>10. ModesOK'
  BY <1>2, <1>7 DEF CtxInv, ModesOK
<1>11. ASSUME NEW u \in ThreadId PROVE RoomOK(u)'
  <2>1. CASE u = t
    <3>1. StackTop(t) - (locals[t] - 1) >= StackBase[t] + Reserve
      BY <1>2, <1>3, <1>6 DEF RoomOK, Reserve
    <3> QED BY <1>1, <1>2, <1>3, <1>4, <1>7, <2>1, <3>1 DEF RoomOK
  <2>2. CASE u # t
    <3>1. locals'[u] = locals[u] /\ RoomOK(u)
      BY <1>2, <2>2 DEF CtxInv, CtxTypeOK
    <3> QED BY <1>2, <1>7, <3>1 DEF RoomOK
  <2> QED BY <2>1, <2>2
<1>12. OnCpu(Running)'
  <2>1. cpu'.psp = StackTop(t) - (locals[t] - 1)
    BY <1>2, <1>3, <1>5, <1>6 DEF OnCpu
  <2> QED BY <1>1, <1>2, <1>3, <1>4, <1>5, <2>1 DEF OnCpu
<1>13. \A u \in Started' : Kept(mem, u)'
  BY <1>7, <1>8
<1>14. \A u \in Started' \ {Running'} : OffCpu(u)'
  BY <1>1, <1>2, <1>7
<1> QED BY <1>9, <1>10, <1>11, <1>12, <1>13, <1>14 DEF CtxInv

LEMMA WaitContextKeeps ==
  ASSUME StacksApart, CtxInv, StoreWaitContext
  PROVE  CtxInv'
<1>1. PICK t \in ThreadId : t = Running /\ t \in Started /\ t # NoThread
  BY DEF StoreWaitContext, CtxInv, ModesOK, CtxTypeOK
<1>2. /\ cpu_mode = "thread" /\ tls[t] >= 0
      /\ mem' = Store(mem, tls[t], [i \in 1..3 |-> WaitCtx(t)])
      /\ UNCHANGED <<stack_ptr, tls, cpu, cpu_mode, g_arch_running_sp_loc, g_arch_next_sp_loc,
                     pendsvset, phase, locals, left>>
  BY <1>1 DEF StoreWaitContext
<1>3. PICK a \in Int, k \in Nat : a = tls[t] /\ k = 3
  BY DEF CtxInv, CtxTypeOK
<1>4. CONFIG_TLS /\ a = StackBase[t] + StackSize[t] - 1 /\ mem \in Memory
  <2>1. RoomOK(t) /\ mem \in Memory
    BY DEF CtxInv, CtxTypeOK, Memory
  <2>2. CASE CONFIG_TLS
    BY <1>2, <1>3, <2>1, <2>2 DEF RoomOK
  <2>3. CASE ~CONFIG_TLS
    BY <1>2, <1>3, <2>1, <2>3 DEF RoomOK
  <2> QED BY <2>2, <2>3
<1>5. Wrote(mem', mem, a, k, [i \in 1..3 |-> WaitCtx(t)])
  <2>1. WaitCtx(t) \in CellSet
    BY Cells, Zenon
  <2>2. [i \in 1..3 |-> WaitCtx(t)] \in [1..k -> CellSet]
    BY <1>3, <2>1
  <2> QED BY <1>2, <1>3, <1>4, <2>2, Writes
<1>6. \A u \in ThreadId : \A x \in Own(u) : mem'[x] = mem[x]
  <2> SUFFICES ASSUME NEW u \in ThreadId, NEW x \in Own(u) PROVE mem'[x] = mem[x]
    OBVIOUS
  <2>1. x \notin TlsWords(t)
    BY <1>4 DEF StacksApart
  <2>2. x \in 0..MemTop
    BY Geometry DEF Own
  <2>3. x < a \/ x >= a + 3
    BY <1>4, <2>1, <2>2 DEF TlsWords
  <2> QED BY <1>3, <1>5, <2>2, <2>3 DEF Wrote
<1>7. /\ Started' = Started
      /\ \A u \in Started \ {t} : OffCpu(u)' /\ Kept(mem, u)'
  BY <1>1, <1>2, <1>6, OthersStay
<1>8. OnCpu(Running)' /\ Kept(mem, Running)'
  BY <1>1, <1>2, <1>6, RunningUntouched
<1>9. CtxTypeOK'
  BY <1>2, <1>5 DEF CtxInv, CtxTypeOK, Wrote, Memory
<1>10. ModesOK'
  BY <1>2, <1>7 DEF CtxInv, ModesOK
<1>11. \A u \in ThreadId : RoomOK(u)'
  BY <1>2, <1>7 DEF CtxInv, RoomOK
<1>12. \A u \in Started' : Kept(mem, u)'
  <2>1. Kept(mem, t)'
    BY <1>1, <1>2, <1>8 DEF Kept
  <2> QED BY <1>7, <2>1
<1>13. \A u \in Started' \ {Running'} : OffCpu(u)'
  BY <1>1, <1>2, <1>7
<1> QED BY <1>8, <1>9, <1>10, <1>11, <1>12, <1>13 DEF CtxInv

LEMMA InterruptKeeps ==
  ASSUME StacksApart, CtxInv, Interrupt
  PROVE  CtxInv'
<1>1. CASE cpu_mode = "main"
  <2>1. /\ cpu_mode' = "isr" /\ Running = NoThread
        /\ UNCHANGED <<mem, cpu, left, stack_ptr, tls, g_arch_running_sp_loc, g_arch_next_sp_loc,
                       pendsvset, phase, locals>>
    BY <1>1 DEF Interrupt, CtxInv, ModesOK
  <2>2. CtxTypeOK' /\ Started' = Started
    BY <2>1 DEF CtxInv, CtxTypeOK, Started
  <2>3. ModesOK'
    BY <1>1, <2>1, <2>2 DEF CtxInv, ModesOK
  <2>4. \A u \in ThreadId : RoomOK(u)'
    BY <2>1, <2>2 DEF CtxInv, RoomOK
  <2>5. /\ \A u \in Started' : Kept(mem, u)'
        /\ \A u \in Started' \ {Running'} : OffCpu(u)'
    BY <2>1, <2>2 DEF CtxInv, Kept, OffCpu, AtRest
  <2> QED BY <2>1, <2>2, <2>3, <2>4, <2>5 DEF CtxInv
<1>2. CASE cpu_mode = "thread"
  <2>1. PICK t \in ThreadId : t = Running /\ t \in Started /\ t # NoThread
    BY <1>2 DEF CtxInv, ModesOK, CtxTypeOK
  <2> DEFINE frame == AlignDown(cpu.psp - 8)
             cells == [cpu.caller EXCEPT ![8].pad = (frame + 8 # cpu.psp)]
             after == [cpu EXCEPT !.psp = frame, !.caller = [r \in 1..8 |-> Scratch]]
  <2>2. /\ cpu_mode' = "isr" /\ mem' = Store(mem, frame, cells) /\ cpu' = after
        /\ left' = [left EXCEPT ![t] = cpu]
        /\ UNCHANGED <<stack_ptr, tls, g_arch_running_sp_loc, g_arch_next_sp_loc, pendsvset,
                       phase, locals>>
    BY <1>2, <2>1 DEF Interrupt
  <2>3. cpu \in Regs /\ locals[t] \in Nat /\ RoomOK(t) /\ Kept(mem, t) /\ OnCpu(t) /\ mem \in Memory
    BY <2>1 DEF CtxInv, CtxTypeOK, Memory
  <2>4. cpu.psp \in Int /\ cpu.caller \in [1..8 -> CellSet] /\ cpu.callee \in [1..8 -> CellSet]
        /\ cpu.psp = StackTop(t) - locals[t] /\ cpu.caller[8].pad = FALSE
    BY <1>2, <2>3 DEF Regs, OnCpu
  <2>5. /\ StackBase[t] \in Nat /\ StackTop(t) \in Int /\ StackTop(t) <= MemTop + 1 /\ MemTop \in Nat
        /\ StackTop(t) > StackBase[t] + 16 /\ AlignDown(StackTop(t) - 8) = StackTop(t) - 8
    BY Geometry
  <2>6. PICK f \in Int : f = frame /\ f \in {cpu.psp - 8, cpu.psp - 9}
    <3>1. PICK e \in Int : e = cpu.psp - 8
      BY <2>4
    <3>2. AlignDown(e) \in Int /\ AlignDown(e) \in {e, e - 1}
      BY Aligned
    <3> QED BY <2>4, <3>1, <3>2
  <2>7. f - 8 > StackBase[t] /\ f + 8 <= StackTop(t) - locals[t] /\ f + 8 <= StackTop(t)
        /\ (f + 8 # cpu.psp <=> cpu.psp = f + 9)
    <3>1. CASE locals[t] > 0
      BY <2>3, <2>4, <2>5, <2>6, <3>1 DEF RoomOK, Reserve
    <3>2. CASE locals[t] = 0
      <4>1. cpu.psp = StackTop(t) /\ f = StackTop(t) - 8
        BY <2>3, <2>4, <2>5, <2>6, <3>2
      <4> QED BY <2>3, <2>4, <2>5, <3>2, <4>1
    <3> QED BY <2>3, <3>1, <3>2
  <2>8. /\ cells \in [1..8 -> CellSet] /\ \A i \in 1..7 : cells[i] = cpu.caller[i]
        /\ cells[8] = [cpu.caller[8] EXCEPT !.pad = (cpu.psp = f + 9)]
    <3>1. PICK b \in BOOLEAN : b = (frame + 8 # cpu.psp) /\ b = (cpu.psp = f + 9)
      BY <2>6, <2>7
    <3>2. cells = [cpu.caller EXCEPT ![8].pad = b]
      BY <3>1
    <3>3. cpu.caller[8] \in CellSet
      BY <2>4
    <3>4. [cpu.caller[8] EXCEPT !.pad = b] \in CellSet
      BY <3>3 DEF CellSet
    <3> HIDE DEF cells
    <3> QED BY <2>4, <3>1, <3>2, <3>4
  <2> HIDE DEF cells
  <2>9. after \in Regs /\ after.psp = f /\ after.callee = cpu.callee
    <3>1. Scratch \in CellSet
      BY Cells, Zenon
    <3>2. PICK c \in [1..8 -> CellSet] : c = [r \in 1..8 |-> Scratch]
      BY <3>1
    <3>3. after = [cpu EXCEPT !.psp = f, !.caller = c]
      BY <2>6, <3>2
    <3> HIDE DEF after
    <3> QED BY <2>3, <3>3 DEF Regs
  <2>10. Wrote(mem', mem, f, 8, cells)
    <3>1. PICK k \in Nat : k = 8
      OBVIOUS
    <3>2. cells \in [1..k -> CellSet]
      BY <2>8, <3>1
    <3>3. Wrote(mem', mem, f, k, cells)
      BY <2>2, <2>3, <2>6, <3>2, Writes
    <3> QED BY <3>1, <3>3
  <2> HIDE DEF frame, after
  <2>11. mem' \in Memory /\ (\A i \in 1..8 : mem'[f + i - 1] = cells[i])
         /\ \A x \in 0..MemTop : x \notin f..(f + 7) => mem'[x] = mem[x]
    BY <2>5, <2>7, <2>10 DEF Wrote
  <2>12. Framed(mem', f, cpu)
    <3>1. \A i \in 1..7 : mem'[f + i - 1] = cpu.caller[i]
      BY <2>8, <2>11
    <3>2. mem'[f + 7] = cells[8]
      <4>1. f + 8 - 1 = f + 7 /\ 8 \in 1..8
        OBVIOUS
      <4> QED BY <2>11, <4>1
    <3>3. cpu.psp \in {f + 8, f + 9}
      BY <2>4, <2>6
    <3> QED BY <2>8, <3>1, <3>2, <3>3 DEF Framed
  <2>13. \A u \in ThreadId \ {t} : \A x \in Own(u) : mem'[x] = mem[x]
    <3> SUFFICES ASSUME NEW u \in ThreadId \ {t}, NEW x \in Own(u) PROVE mem'[x] = mem[x]
      OBVIOUS
    <3>1. x \notin Own(t)
      BY DEF StacksApart
    <3>2. x \in 0..MemTop
      BY Geometry DEF Own
    <3>3. f..(f + 7) \subseteq Own(t)
      BY <2>5, <2>7 DEF Own
    <3> QED BY <2>11, <3>1, <3>2, <3>3
  <2>14. /\ Started' = Started
         /\ \A u \in Started \ {t} : OffCpu(u)' /\ Kept(mem, u)'
    <3>1. \A u \in ThreadId \ {t} : left'[u] = left[u] /\ locals'[u] = locals[u]
      BY <2>2 DEF CtxInv, CtxTypeOK
    <3> QED BY <2>1, <2>2, <2>13, <3>1, OthersStay
  <2>15. Kept(mem, t)'
    <3>1. StackBase[t] \in 0..MemTop /\ StackBase[t] \notin f..(f + 7)
      BY <2>5, <2>7
    <3>2. \A i \in 1..locals[t] : StackTop(t) - i \in 0..MemTop /\ StackTop(t) - i \notin f..(f + 7)
      BY <2>3, <2>5, <2>7
    <3> QED BY <2>2, <2>3, <2>11, <3>1, <3>2 DEF Kept
  <2>16. left'[t] = cpu /\ left' \in [ThreadId -> Regs]
    BY <2>2, <2>3 DEF CtxInv, CtxTypeOK
  <2>17. CtxTypeOK'
    BY <2>2, <2>9, <2>11, <2>16 DEF CtxInv, CtxTypeOK, Memory
  <2>18. ModesOK'
    BY <1>2, <2>1, <2>2, <2>14 DEF CtxInv, ModesOK
  <2>19. \A u \in ThreadId : RoomOK(u)'
    BY <2>2, <2>14 DEF CtxInv, RoomOK
  <2>20. OnCpu(Running)'
    BY <2>1, <2>2, <2>4, <2>7, <2>9, <2>12, <2>16 DEF OnCpu, AtRest
  <2>21. \A u \in Started' : Kept(mem, u)'
    BY <2>14, <2>15
  <2>22. \A u \in Started' \ {Running'} : OffCpu(u)'
    BY <2>1, <2>2, <2>14
  <2> QED BY <2>17, <2>18, <2>19, <2>20, <2>21, <2>22 DEF CtxInv
<1> QED BY <1>1, <1>2 DEF Interrupt

(* A function on 1..n is a sequence of length n.                           *)
LEMMA FunIsSeq ==
  ASSUME NEW S, NEW n \in Nat, NEW c \in [1..n -> S]
  PROVE  c \in Seq(S) /\ Len(c) = n
<1>1. c \in Seq(S) /\ DOMAIN c = 1..n
  BY IsASeq
<1> QED BY <1>1, LenProperties

(* The two loads of PendSV give back what it has put at sp.                *)
LEMMA LoadBack ==
  ASSUME NEW m, NEW sp \in Int, NEW r, r.callee \in [1..8 -> CellSet], Parked(m, sp, r)
  PROVE  Load(m, sp + 4, 4) \o Load(m, sp, 4) = r.callee
<1> DEFINE lo == Load(m, sp + 4, 4)
           hi == Load(m, sp, 4)
<1>1. \A i \in 1..4 : lo[i] = r.callee[i] /\ hi[i] = r.callee[i + 4]
  <2> TAKE i \in 1..4
  <2>1. sp + 4 + i - 1 = sp + i + 3
    OBVIOUS
  <2> QED BY <2>1 DEF Load, Parked
<1>2. lo \in [1..4 -> CellSet] /\ hi \in [1..4 -> CellSet]
  <2>1. \A i \in 1..4 : i \in 1..8 /\ i + 4 \in 1..8
    OBVIOUS
  <2>2. DOMAIN lo = 1..4 /\ DOMAIN hi = 1..4 /\ lo = [i \in 1..4 |-> lo[i]] /\ hi = [i \in 1..4 |-> hi[i]]
    BY DEF Load
  <2> HIDE DEF lo, hi
  <2> QED BY <1>1, <2>1, <2>2
<1> HIDE DEF lo, hi
<1>3. /\ lo \in Seq(CellSet) /\ hi \in Seq(CellSet) /\ r.callee \in Seq(CellSet)
      /\ Len(lo) = 4 /\ Len(hi) = 4 /\ Len(r.callee) = 8
  <2>1. PICK k \in Nat, n \in Nat : k = 4 /\ n = 8
    OBVIOUS
  <2>2. lo \in [1..k -> CellSet] /\ hi \in [1..k -> CellSet] /\ r.callee \in [1..n -> CellSet]
    BY <1>2, <2>1
  <2>3. /\ lo \in Seq(CellSet) /\ hi \in Seq(CellSet) /\ r.callee \in Seq(CellSet)
        /\ Len(lo) = k /\ Len(hi) = k /\ Len(r.callee) = n
    BY <2>2, FunIsSeq
  <2> QED BY <2>1, <2>3
<1>4. PICK both : both = lo \o hi
  OBVIOUS
<1>5. /\ both \in Seq(CellSet) /\ Len(both) = 8
      /\ \A i \in 1..8 : both[i] = IF i <= 4 THEN lo[i] ELSE hi[i - 4]
  <2>1. /\ both \in Seq(CellSet) /\ Len(both) = Len(lo) + Len(hi)
        /\ \A i \in 1..(Len(lo) + Len(hi)) :
             both[i] = IF i <= Len(lo) THEN lo[i] ELSE hi[i - Len(lo)]
    BY <1>3, <1>4, ConcatProperties, Zenon
  <2> QED BY <1>3, <2>1
<1>6. ASSUME NEW i \in 1..8 PROVE both[i] = r.callee[i]
  <2>1. CASE i <= 4
    <3>1. i \in 1..4
      BY <2>1
    <3>2. both[i] = lo[i]
      BY <1>5, <2>1
    <3> QED BY <1>1, <3>1, <3>2
  <2>2. CASE i > 4
    <3>1. i - 4 \in 1..4 /\ (i - 4) + 4 = i
      BY <2>2
    <3>2. hi[i - 4] = r.callee[(i - 4) + 4]
      BY <1>1, <3>1
    <3> QED BY <1>5, <2>2, <3>1, <3>2
  <2> QED BY <2>1, <2>2
<1>7. both = r.callee
  <2>1. Len(both) = Len(r.callee) /\ \A i \in 1..Len(both) : both[i] = r.callee[i]
    BY <1>3, <1>5, <1>6
  <2> QED BY <1>3, <1>5, <2>1, SeqEqual
<1> QED BY <1>4, <1>7 DEF lo, hi

LEMMA Halves ==
  ASSUME NEW c \in [1..8 -> CellSet]
  PROVE  /\ Low(c) \in [1..4 -> CellSet] /\ High(c) \in [1..4 -> CellSet]
         /\ \A i \in 1..4 : Low(c)[i] = c[i] /\ High(c)[i] = c[i + 4]
<1>1. c \in Seq(CellSet) /\ Len(c) = 8
  <2>1. PICK n \in Nat : n = 8
    OBVIOUS
  <2>2. c \in [1..n -> CellSet]
    BY <2>1
  <2>3. c \in Seq(CellSet) /\ Len(c) = n
    BY <2>2, FunIsSeq
  <2> QED BY <2>1, <2>3
<1>2. /\ Low(c) \in Seq(CellSet) /\ Len(Low(c)) = 4
      /\ \A i \in 1..4 : Low(c)[i] = c[i]
  BY <1>1, SubSeqProperties DEF Low
<1>3. /\ High(c) \in Seq(CellSet) /\ Len(High(c)) = 4
      /\ \A i \in 1..4 : High(c)[i] = c[i + 4]
  BY <1>1, SubSeqProperties DEF High
<1>4. \A s \in Seq(CellSet) : Len(s) = 4 => s \in [1..4 -> CellSet]
  BY LenProperties
<1> QED BY <1>2, <1>3, <1>4

(* With the memory m and the stack pointers sps, every thread is parked.   *)
AllParked(m, sps) ==
  /\ m \in Memory /\ sps \in [ThreadId -> Int]
  /\ \A u \in Started :
       /\ AtRest(u) /\ Framed(m, sps[u] + 8, left[u]) /\ Parked(m, sps[u], left[u])
       /\ sps[u] > StackBase[u] /\ Kept(m, u)

LEMMA Saves ==
  ASSUME StacksApart, CtxInv, Running # NoThread, cpu_mode = "pendsv"
  PROVE  AllParked(Store(Store(mem, cpu.psp - 4, Low(cpu.callee)), cpu.psp - 8, High(cpu.callee)),
                   [stack_ptr EXCEPT ![Running] = cpu.psp - 8])
<1>1. PICK t \in ThreadId : t = Running /\ t \in Started
  BY DEF CtxInv, ModesOK, CtxTypeOK
<1>2. cpu \in Regs /\ locals[t] \in Nat /\ RoomOK(t) /\ Kept(mem, t) /\ OnCpu(t) /\ mem \in Memory
  BY <1>1 DEF CtxInv, CtxTypeOK, Memory
<1>3. PICK a \in Int, b \in Int, k \in Nat : a = cpu.psp - 4 /\ b = cpu.psp - 8 /\ k = 4
  BY <1>2 DEF Regs
<1>4. cpu.psp \in Int /\ cpu.callee \in [1..8 -> CellSet] /\ AtRest(t) /\ Framed(mem, cpu.psp, left[t])
      /\ cpu.callee = left[t].callee /\ cpu.psp - 8 > StackBase[t]
  BY <1>2 DEF Regs, OnCpu
<1>5. /\ Low(cpu.callee) \in [1..4 -> CellSet] /\ High(cpu.callee) \in [1..4 -> CellSet]
      /\ \A i \in 1..4 : Low(cpu.callee)[i] = cpu.callee[i] /\ High(cpu.callee)[i] = cpu.callee[i + 4]
  BY <1>4, Halves
<1> DEFINE m1 == Store(mem, a, Low(cpu.callee))
           m2 == Store(m1, b, High(cpu.callee))
           sps == [stack_ptr EXCEPT ![t] = b]
<1>6. Wrote(m1, mem, a, 4, Low(cpu.callee))
  <2>1. Low(cpu.callee) \in [1..k -> CellSet]
    BY <1>3, <1>5
  <2>2. Wrote(m1, mem, a, k, Low(cpu.callee))
    BY <1>2, <2>1, Writes
  <2> QED BY <1>3, <2>2
<1> HIDE DEF m1
<1>7. Wrote(m2, m1, b, 4, High(cpu.callee))
  <2>1. High(cpu.callee) \in [1..k -> CellSet] /\ m1 \in Memory
    BY <1>3, <1>5, <1>6 DEF Wrote
  <2>2. Wrote(m2, m1, b, k, High(cpu.callee))
    BY <2>1, Writes
  <2> QED BY <1>3, <2>2
<1> HIDE DEF m2
<1>8. /\ StackBase[t] \in Nat /\ StackTop(t) \in Int /\ StackTop(t) <= MemTop + 1 /\ MemTop \in Nat
  BY Geometry
<1>9. left[t].psp = StackTop(t) - locals[t] /\ left[t].psp \in {cpu.psp + 8, cpu.psp + 9}
      /\ b > StackBase[t] /\ a = b + 4 /\ b + 16 <= StackTop(t) - locals[t]
  BY <1>2, <1>3, <1>4, <1>8 DEF AtRest, Framed
<1>10. /\ m2 \in Memory
       /\ \A x \in 0..MemTop : x \notin b..(b + 7) => m2[x] = mem[x]
  BY <1>6, <1>7, <1>9 DEF Wrote
<1>11. Parked(m2, b, left[t])
  <2> SUFFICES ASSUME NEW i \in 1..4
               PROVE  m2[b + i + 3] = cpu.callee[i] /\ m2[b + i - 1] = cpu.callee[i + 4]
    BY <1>4 DEF Parked
  <2>1. /\ b + i - 1 \in 0..MemTop /\ b + i + 3 \in 0..MemTop /\ a + i - 1 = b + i + 3
        /\ b + i + 3 >= b + 4
    BY <1>2, <1>8, <1>9
  <2>2. m2[b + i - 1] = High(cpu.callee)[i]
    BY <1>7, <2>1 DEF Wrote
  <2>3. m1[a + i - 1] = Low(cpu.callee)[i]
    BY <1>6, <2>1 DEF Wrote
  <2>4. m2[b + i + 3] = m1[b + i + 3]
    BY <1>7, <2>1 DEF Wrote
  <2> QED BY <1>5, <2>1, <2>2, <2>3, <2>4
<1>12. Framed(m2, b + 8, left[t])
  <2>1. cpu.psp = b + 8
    BY <1>3, <1>4
  <2>2. /\ \A i \in 1..7 : cpu.psp + i - 1 \in 0..MemTop /\ cpu.psp + i - 1 \notin b..(b + 7)
        /\ cpu.psp + 7 \in 0..MemTop /\ cpu.psp + 7 \notin b..(b + 7)
    BY <1>2, <1>4, <1>8, <1>9, <2>1
  <2> QED BY <1>4, <1>10, <2>1, <2>2 DEF Framed
<1>13. Kept(m2, t)
  <2>1. StackBase[t] \in 0..MemTop /\ StackBase[t] \notin b..(b + 7)
    BY <1>2, <1>8, <1>9
  <2>2. \A i \in 1..locals[t] : StackTop(t) - i \in 0..MemTop /\ StackTop(t) - i \notin b..(b + 7)
    BY <1>2, <1>8, <1>9
  <2> QED BY <1>2, <1>10, <2>1, <2>2 DEF Kept
<1>14. sps \in [ThreadId -> Int] /\ sps[t] = b /\ \A u \in ThreadId \ {t} : sps[u] = stack_ptr[u]
  BY DEF CtxInv, CtxTypeOK
<1> HIDE DEF sps
<1>15. ASSUME NEW u \in Started, u # t
       PROVE  /\ AtRest(u) /\ Framed(m2, sps[u] + 8, left[u]) /\ Parked(m2, sps[u], left[u])
              /\ sps[u] > StackBase[u] /\ Kept(m2, u)
  <2>1. u \in ThreadId /\ locals[u] \in Nat /\ RoomOK(u) /\ Kept(mem, u) /\ OffCpu(u)
        /\ stack_ptr[u] \in Int /\ sps[u] = stack_ptr[u]
    BY <1>1, <1>14, <1>15 DEF CtxInv, CtxTypeOK, Started
  <2>2. \A x \in Own(u) : m2[x] = mem[x]
    <3> TAKE x \in Own(u)
    <3>1. x \notin Own(t)
      BY <1>15, <2>1 DEF StacksApart
    <3>2. x \in 0..MemTop
      BY <2>1, Geometry DEF Own
    <3>3. b..(b + 7) \subseteq Own(t)
      BY <1>2, <1>8, <1>9 DEF Own
    <3> QED BY <1>10, <3>1, <3>2, <3>3
  <2>3. Kept(m2, u)
    BY <2>1, <2>2, KeptLocal DEF RoomOK
  <2>4. /\ StackBase[u] \in Nat /\ StackTop(u) \in Int
    BY <2>1, Geometry
  <2>5. left[u].psp = StackTop(u) - locals[u] /\ stack_ptr[u] > StackBase[u]
    BY <2>1 DEF OffCpu, AtRest
  <2>6. Framed(m2, stack_ptr[u] + 8, left[u])
    <3>1. PICK f \in Int : f = stack_ptr[u] + 8 /\ f > StackBase[u]
      BY <2>1, <2>4, <2>5
    <3>2. Framed(mem, f, left[u])
      BY <2>1, <3>1 DEF OffCpu
    <3> QED BY <2>1, <2>2, <2>5, <3>1, <3>2, FramedLocal
  <2>7. Parked(m2, stack_ptr[u], left[u])
    <3>1. stack_ptr[u] + 16 <= StackTop(u)
      BY <2>1, <2>4, <2>5 DEF OffCpu, Framed
    <3> QED BY <2>1, <2>2, <2>5, <3>1, ParkedLocal DEF OffCpu
  <2> QED BY <2>1, <2>3, <2>5, <2>6, <2>7 DEF OffCpu
<1>16. AllParked(m2, sps)
  BY <1>4, <1>9, <1>10, <1>11, <1>12, <1>13, <1>14, <1>15 DEF AllParked
<1> QED BY <1>1, <1>3, <1>16 DEF m1, m2, sps

LEMMA PendSVKeeps ==
  ASSUME StacksApart, CtxInv, PendSV_Handler
  PROVE  CtxInv'
<1> DEFINE saved == IF Running = NoThread THEN mem
                    ELSE Store(Store(mem, cpu.psp - 4, Low(cpu.callee)),
                               cpu.psp - 8, High(cpu.callee))
           sps == IF Running = NoThread THEN stack_ptr ELSE [stack_ptr EXCEPT ![Running] = cpu.psp - 8]
<1>1. PICK to \in ThreadId : to = g_arch_next_sp_loc /\ to \in Started /\ to # NoThread
  BY ContextAssumption DEF PendSV_Handler, Switches, CtxInv, ModesOK, Started
<1>2. /\ cpu_mode = "pendsv" /\ mem' = saved /\ stack_ptr' = sps
      /\ cpu' = [cpu EXCEPT !.callee = Load(saved, sps[to] + 4, 4) \o Load(saved, sps[to], 4),
                            !.psp = sps[to] + 8]
      /\ g_arch_running_sp_loc' = to /\ cpu_mode' = "isr"
      /\ UNCHANGED <<tls, g_arch_next_sp_loc, pendsvset, phase, locals, left>>
  BY <1>1 DEF PendSV_Handler, Switches
<1>3. AllParked(saved, sps)
  <2>1. CASE Running = NoThread
    <3>1. \A u \in Started : OffCpu(u) /\ Kept(mem, u)
      BY <2>1, ContextAssumption DEF CtxInv, Started
    <3> QED BY <2>1, <3>1 DEF AllParked, OffCpu, CtxInv, CtxTypeOK, Memory
  <2>2. CASE Running # NoThread
    BY <1>2, <2>2, Saves
  <2> QED BY <2>1, <2>2
<1> HIDE DEF saved, sps
<1>4. PICK sp \in Int : sp = sps[to]
  BY <1>3 DEF AllParked
<1>5. /\ AtRest(to) /\ Framed(saved, sp + 8, left[to]) /\ Parked(saved, sp, left[to])
      /\ sp > StackBase[to] /\ left[to] \in Regs /\ cpu \in Regs
  BY <1>1, <1>3, <1>4 DEF AllParked, CtxInv, CtxTypeOK
<1>6. Load(saved, sp + 4, 4) \o Load(saved, sp, 4) = left[to].callee
  <2>1. left[to].callee \in [1..8 -> CellSet]
    BY <1>5 DEF Regs
  <2> QED BY <1>5, <2>1, LoadBack
<1>7. cpu' \in Regs /\ cpu'.callee = left[to].callee /\ cpu'.psp = sp + 8
  <2>1. PICK c \in [1..8 -> CellSet], p \in Int : c = left[to].callee /\ p = sp + 8
    BY <1>5 DEF Regs
  <2>2. cpu' = [cpu EXCEPT !.callee = c, !.psp = p]
    BY <1>2, <1>4, <1>6, <2>1
  <2>3. cpu' \in Regs /\ cpu'.callee = c /\ cpu'.psp = p
    BY <1>5, <2>2 DEF Regs
  <2> QED BY <2>1, <2>3
<1>8. Started' = Started
  <2>1. \A u \in Started : StackBase[u] \in Nat /\ sps[u] > StackBase[u] /\ sps[u] \in Int
    BY <1>3, Geometry DEF AllParked, Started
  <2>2. \A u \in ThreadId : u \notin Started => sps[u] = stack_ptr[u]
    BY DEF sps, CtxInv, CtxTypeOK, ModesOK
  <2>3. \A u \in Started : sps[u] >= 0
    BY <2>1
  <2>4. \A u \in ThreadId : sps[u] >= 0 <=> stack_ptr[u] >= 0
    BY <2>2, <2>3 DEF Started
  <2> QED BY <1>2, <2>4 DEF Started
<1>9. CtxTypeOK'
  BY <1>1, <1>2, <1>3, <1>7 DEF CtxInv, CtxTypeOK, AllParked, Memory
<1>10. ModesOK'
  BY <1>1, <1>2, <1>8 DEF CtxInv, ModesOK
<1>11. \A u \in ThreadId : RoomOK(u)'
  BY <1>2, <1>8 DEF CtxInv, RoomOK
<1>12. \A u \in Started' : Kept(mem, u)' /\ OffCpu(u)'
  BY <1>2, <1>3, <1>8 DEF AllParked, Kept, OffCpu, AtRest
<1>13. OnCpu(Running)'
  <2>1. StackBase[to] \in Nat
    BY Geometry
  <2>2. cpu'.psp - 8 > StackBase[to]
    BY <1>5, <1>7, <2>1
  <2> QED BY <1>2, <1>5, <1>7, <2>2 DEF OnCpu, AtRest
<1> QED BY <1>9, <1>10, <1>11, <1>12, <1>13 DEF CtxInv

(* What the hardware takes off the stack is what the thread had.           *)
LEMMA Unstacks ==
  ASSUME StacksApart, CtxInv, ReturnFromException, Running # NoThread
  PROVE  cpu' = left[Running] /\ Running' = g_arch_next_sp_loc /\ cpu_mode' = "thread"
<1>1. PICK t \in ThreadId : t = Running /\ t \in Started
  BY DEF CtxInv, ModesOK, CtxTypeOK
<1> DEFINE frame == Load(mem, cpu.psp, 8)
<1>2. /\ cpu_mode = "isr" /\ ~pendsvset /\ cpu_mode' = "thread" /\ Running' = Running
      /\ cpu' = [cpu EXCEPT !.caller = [frame EXCEPT ![8].pad = FALSE],
                            !.psp = @ + 8 + (IF frame[8].pad THEN 1 ELSE 0)]
  BY DEF ReturnFromException
<1>3. cpu \in Regs /\ left[t] \in Regs /\ OnCpu(t)
  BY <1>1 DEF CtxInv, CtxTypeOK
<1>4. cpu.psp \in Int /\ AtRest(t) /\ Framed(mem, cpu.psp, left[t]) /\ cpu.callee = left[t].callee
      /\ left[t].psp \in Int
  BY <1>2, <1>3 DEF OnCpu, Regs
<1>5. PICK c \in [1..8 -> CellSet], b \in BOOLEAN : c = left[t].caller /\ b = (left[t].psp = cpu.psp + 9)
  BY <1>3 DEF Regs
<1>6. c[8] \in CellSet /\ c[8].pad = FALSE
  BY <1>4, <1>5 DEF AtRest
<1>7. /\ \A i \in 1..7 : frame[i] = c[i]
      /\ frame[8] = [c[8] EXCEPT !.pad = b] /\ frame \in [1..8 -> CellSet]
  <2>1. cpu.psp + 8 - 1 = cpu.psp + 7
    BY <1>4
  <2>2. (\A i \in 1..7 : frame[i] = c[i]) /\ frame[8] = [c[8] EXCEPT !.pad = b]
    BY <1>4, <1>5, <2>1 DEF Load, Framed
  <2>3. [c[8] EXCEPT !.pad = b] \in CellSet
    BY <1>6 DEF CellSet
  <2>4. \A i \in 1..8 : mem[cpu.psp + i - 1] \in CellSet
    <3> TAKE i \in 1..8
    <3>1. frame[i] \in CellSet
      BY <2>2, <2>3
    <3> QED BY <3>1 DEF Load
  <2> QED BY <2>2, <2>4 DEF Load
<1> HIDE DEF frame
<1>8. frame[8].pad = b /\ [frame[8] EXCEPT !.pad = FALSE] = c[8]
  BY <1>6, <1>7 DEF CellSet
<1>9. [frame EXCEPT ![8].pad = FALSE] = c
  <2> DEFINE g == [frame EXCEPT ![8].pad = FALSE]
  <2>1. g = [frame EXCEPT ![8] = c[8]]
    BY <1>7, <1>8
  <2> HIDE DEF g
  <2>2. g \in [1..8 -> CellSet] /\ g[8] = c[8] /\ \A i \in 1..7 : g[i] = c[i]
    BY <1>6, <1>7, <2>1
  <2>3. \A i \in 1..8 : g[i] = c[i]
    BY <2>2
  <2>4. g = c
    BY <2>2, <2>3
  <2> QED BY <2>4 DEF g
<1>10. cpu.psp + 8 + (IF frame[8].pad THEN 1 ELSE 0) = left[t].psp
  <2>1. left[t].psp \in {cpu.psp + 8, cpu.psp + 9}
    BY <1>4 DEF Framed
  <2>2. CASE left[t].psp = cpu.psp + 9
    <3>1. b
      BY <1>5, <2>2, Zenon
    <3>2. frame[8].pad
      BY <1>8, <3>1, Zenon
    <3>3. (IF frame[8].pad THEN 1 ELSE 0) = 1
      BY <3>2, Zenon
    <3> QED BY <1>4, <2>2, <3>3
  <2>3. CASE left[t].psp = cpu.psp + 8
    <3>1. left[t].psp # cpu.psp + 9
      BY <1>4, <2>3
    <3>2. ~b
      BY <1>5, <3>1, Zenon
    <3>3. ~frame[8].pad
      BY <1>8, <3>2, Zenon
    <3>4. (IF frame[8].pad THEN 1 ELSE 0) = 0
      BY <3>3, Zenon
    <3> QED BY <1>4, <2>3, <3>4
  <2> QED BY <2>1, <2>2, <2>3
<1>11. cpu' = [cpu EXCEPT !.caller = c, !.psp = left[t].psp]
  BY <1>2, <1>9, <1>10
<1>12. cpu' = left[t]
  BY <1>3, <1>4, <1>5, <1>11 DEF Regs
<1> QED BY <1>1, <1>2, <1>12 DEF CtxInv, ModesOK

LEMMA ReturnKeeps ==
  ASSUME StacksApart, CtxInv, ReturnFromException
  PROVE  CtxInv'
<1>1. /\ cpu_mode = "isr" /\ ~pendsvset
      /\ UNCHANGED <<mem, stack_ptr, tls, g_arch_running_sp_loc, g_arch_next_sp_loc, pendsvset,
                     phase, locals, left>>
  BY DEF ReturnFromException
<1>2. Started' = Started
  BY <1>1 DEF Started
<1>3. \A u \in ThreadId : RoomOK(u)'
  BY <1>1, <1>2 DEF CtxInv, RoomOK
<1>4. /\ \A u \in Started' : Kept(mem, u)'
      /\ \A u \in Started' \ {Running'} : OffCpu(u)'
  BY <1>1, <1>2 DEF CtxInv, Kept, OffCpu, AtRest
<1>5. CASE Running = NoThread
  <2>1. cpu_mode' = "main" /\ cpu' = cpu
    BY <1>5 DEF ReturnFromException
  <2>2. CtxTypeOK' /\ ModesOK'
    BY <1>1, <1>2, <1>5, <2>1 DEF CtxInv, CtxTypeOK, ModesOK
  <2> QED BY <1>1, <1>3, <1>4, <1>5, <2>2 DEF CtxInv
<1>6. CASE Running # NoThread
  <2>1. cpu' = left[Running] /\ Running' = g_arch_next_sp_loc /\ cpu_mode' = "thread"
    BY <1>6, Unstacks
  <2>2. Running \in ThreadId /\ AtRest(Running) /\ left[Running] \in Regs
    BY <1>1, <1>6 DEF CtxInv, CtxTypeOK, OnCpu
  <2>3. CtxTypeOK' /\ ModesOK'
    BY <1>1, <1>2, <1>6, <2>1, <2>2 DEF CtxInv, CtxTypeOK, ModesOK
  <2>4. OnCpu(Running)'
    BY <1>1, <2>1, <2>2 DEF OnCpu, AtRest
  <2> QED BY <1>3, <1>4, <2>3, <2>4 DEF CtxInv
<1> QED BY <1>5, <1>6

(* Stacks that share no word: a thread that goes on finds the registers it *)
(* had, nobody's words or canary are written over, and the thread that     *)
(* goes on is the last one asked for, for any number of threads and depth  *)
(* of nesting (context_switch.S, arch_thread_stack_init).                  *)
THEOREM StacksHoldContexts ==
  ASSUME StacksApart
  PROVE  ContextSpec => ContextsSurvive
<1> DEFINE Back == cpu_mode # "thread" /\ cpu_mode' = "thread" =>
                     cpu' = left[Running'] /\ Running' = g_arch_next_sp_loc
<1>1. ContextInit => CtxInv
  BY ContextStarts
<1>2. CtxInv /\ [ContextNext]_ctxvars => CtxInv' /\ [Back]_ctxvars
  <2> SUFFICES ASSUME CtxInv, [ContextNext]_ctxvars PROVE CtxInv' /\ [Back]_ctxvars
    OBVIOUS
  <2>1. ASSUME NEW t \in ThreadId, vibe_thread_create(t) PROVE CtxInv' /\ Back
    BY <2>1, CreateKeeps DEF vibe_thread_create
  <2>2. ASSUME NEW t \in ThreadId, arch_switch_to(t) PROVE CtxInv' /\ Back
    BY <2>2, SwitchToKeeps DEF arch_switch_to
  <2>3. CASE Compute
    BY <2>3, ComputeKeeps DEF Compute
  <2>4. CASE Push
    BY <2>4, PushKeeps DEF Push
  <2>5. CASE Pop
    BY <2>5, PopKeeps DEF Pop
  <2>6. CASE StoreWaitContext
    BY <2>6, WaitContextKeeps DEF StoreWaitContext
  <2>7. CASE Interrupt
    BY <2>7, InterruptKeeps DEF Interrupt
  <2>8. CASE EnterPendSV
    BY <2>8, EnterPendSVKeeps DEF EnterPendSV
  <2>9. CASE PendSV_Handler
    BY <2>9, PendSVKeeps DEF PendSV_Handler, Switches
  <2>10. CASE ReturnFromException
    <3>1. CASE Running = NoThread
      BY <2>10, <3>1, ReturnKeeps DEF ReturnFromException
    <3>2. CASE Running # NoThread
      <4>1. Running' = Running
        BY <2>10 DEF ReturnFromException
      <4> QED BY <2>10, <3>2, <4>1, ReturnKeeps, Unstacks
    <3> QED BY <3>1, <3>2
  <2>11. CASE UNCHANGED ctxvars
    <3>1. CtxInv'
      BY <2>11 DEF ctxvars, CtxInv, CtxTypeOK, ModesOK, Started, RoomOK, Kept, OffCpu, OnCpu, AtRest
    <3> QED BY <2>11, <3>1
  <2> QED BY <2>1, <2>2, <2>3, <2>4, <2>5, <2>6, <2>7, <2>8, <2>9, <2>10, <2>11 DEF ContextNext
<1>3. CtxInv => StacksKept
  BY DEF CtxInv, StacksKept, Kept
<1> QED BY <1>1, <1>2, <1>3, PTL DEF ContextSpec, ContextsSurvive, ContextKept

-----------------------------------------------------------------------------
(* The first-fit and best-fit heaps                                        *)

(* No request is so large that rounding it up wraps size_t, and calloc     *)
(* multiplies what it accepts without wrapping it either.                  *)
RequestsFit ==
  /\ \A n \in Request : n <= HeapMod - HEAP_ALIGN
  /\ \A c \in Callocs : c[1] > 0 /\ c[2] > 0 /\ c[1] <= (HeapMod - 1) \div c[2]
                          => c[1] * c[2] <= HeapMod - HEAP_ALIGN

Header == [prev : Int, next : Int, size : Nat, free : BOOLEAN]

(* The headers h tile the pool, as a chain in address order.               *)
Tiling(h) ==
  /\ h \in [DOMAIN h -> Header] /\ DOMAIN h \subseteq 0..(pool_size - 1)
  /\ 0 \in DOMAIN h /\ h[0].prev = NULL
  /\ \A a \in DOMAIN h :
       /\ h[a].size >= HEAP_ALIGN
       /\ h[a].next = NULL => a + HDR_SIZE + h[a].size = pool_size
       /\ h[a].next # NULL => /\ h[a].next = a + HDR_SIZE + h[a].size
                              /\ h[a].next \in DOMAIN h /\ h[h[a].next].prev = a
       /\ a # 0 => h[a].prev \in DOMAIN h /\ h[h[a].prev].next = a
  /\ \A a, b \in DOMAIN h : a < b => a + HDR_SIZE + h[a].size <= b

(* Two free blocks do not touch, unless the first of them is a, or the     *)
(* second is.                                                              *)
ApartBut(h, a) ==
  \A x \in DOMAIN h : x # a /\ h[x].next # NULL /\ h[x].next # a
                        => ~(h[x].free /\ h[h[x].next].free)

Apart(h) == \A x \in DOMAIN h : h[x].next # NULL => ~(h[x].free /\ h[h[x].next].free)

Weight(h) == HeapSum(DOMAIN h, h) + Cardinality(DOMAIN h) * HDR_SIZE

Used(h) == {a \in DOMAIN h : ~h[a].free}

-----------------------------------------------------------------------------
(* Sums of sizes                                                           *)

Bytes(S, h) == UNION {{a} \X (1..h[a].size) : a \in S}

LEMMA SumType ==
  ASSUME NEW h, NEW S, IsFiniteSet(S), \A a \in S : h[a].size \in Nat
  PROVE  IsFiniteSet(Bytes(S, h)) /\ HeapSum(S, h) \in Nat
<1> DEFINE U == {{a} \X (1..h[a].size) : a \in S}
           F == [a \in S |-> {a} \X (1..h[a].size)]
<1>1. IsFiniteSet(U)
  <2>1. F \in Surjection(S, U)
    BY DEF Surjection
  <2> QED BY <2>1, FS_Surjection
<1>2. \A T \in U : IsFiniteSet(T)
  <2>1. ASSUME NEW a \in S PROVE IsFiniteSet({a} \X (1..h[a].size))
    <3>1. PICK k \in Nat : k = h[a].size
      OBVIOUS
    <3>2. IsFiniteSet({a}) /\ IsFiniteSet(1..k)
      BY FS_Singleton, UptoCard
    <3>3. IsFiniteSet({a} \X (1..k))
      BY <3>2, FS_Product
    <3> QED BY <3>1, <3>3
  <2> QED BY <2>1
<1>3. IsFiniteSet(UNION U)
  BY <1>1, <1>2, FS_UNION
<1> QED BY <1>3, FS_CardinalityType DEF Bytes, HeapSum

LEMMA SumNone ==
  ASSUME NEW h
  PROVE  HeapSum({}, h) = 0
BY FS_EmptySet DEF HeapSum

LEMMA SumLocal ==
  ASSUME NEW h, NEW g, NEW S, \A a \in S : h[a].size = g[a].size
  PROVE  HeapSum(S, h) = HeapSum(S, g)
BY DEF HeapSum

LEMMA SumAdd ==
  ASSUME NEW h, NEW S, IsFiniteSet(S), NEW b, b \notin S,
         \A a \in S \cup {b} : h[a].size \in Nat
  PROVE  HeapSum(S \cup {b}, h) = HeapSum(S, h) + h[b].size
<1> DEFINE T == {b} \X (1..h[b].size)
<1>1. Bytes(S \cup {b}, h) = Bytes(S, h) \cup T
  BY DEF Bytes
<1>2. Bytes(S, h) \cap T = {}
  BY DEF Bytes
<1>3. IsFiniteSet(T) /\ Cardinality(T) = h[b].size
  <2>1. PICK k \in Nat : k = h[b].size
    OBVIOUS
  <2>2. /\ IsFiniteSet({b}) /\ Cardinality({b}) = 1
        /\ IsFiniteSet(1..k) /\ Cardinality(1..k) = k
    BY FS_Singleton, UptoCard
  <2>3. IsFiniteSet({b} \X (1..k)) /\ Cardinality({b} \X (1..k)) = Cardinality({b}) * Cardinality(1..k)
    BY <2>2, FS_Product
  <2> QED BY <2>1, <2>2, <2>3
<1>4. IsFiniteSet(Bytes(S, h)) /\ Cardinality(Bytes(S, h)) \in Nat
  BY SumType, FS_CardinalityType
<1>5. Cardinality({}) = 0
  BY FS_EmptySet
<1>6. Cardinality(Bytes(S, h) \cup T)
        = Cardinality(Bytes(S, h)) + Cardinality(T) - Cardinality(Bytes(S, h) \cap T)
  BY <1>3, <1>4, FS_Union
<1>7. HeapSum(S \cup {b}, h) = Cardinality(Bytes(S \cup {b}, h)) /\ HeapSum(S, h) = Cardinality(Bytes(S, h))
  BY DEF HeapSum, Bytes
<1> HIDE DEF T
<1>8. PICK p \in Nat, s \in Nat : p = Cardinality(Bytes(S, h)) /\ s = h[b].size
  BY <1>4
<1>9. Cardinality(Bytes(S \cup {b}, h)) = p + s - 0
  BY <1>1, <1>2, <1>3, <1>5, <1>6, <1>8
<1> QED BY <1>7, <1>8, <1>9

(* What a set of blocks and the rest weigh together.                       *)
LEMMA SumSplit ==
  ASSUME NEW h, NEW D, IsFiniteSet(D), NEW S \in SUBSET D, \A a \in D : h[a].size \in Nat
  PROVE  HeapSum(S, h) + HeapSum(D \ S, h) = HeapSum(D, h)
<1>1. Bytes(D, h) = Bytes(S, h) \cup Bytes(D \ S, h)
  BY DEF Bytes
<1>2. Bytes(S, h) \cap Bytes(D \ S, h) = {}
  BY DEF Bytes
<1>3. IsFiniteSet(S) /\ IsFiniteSet(D \ S)
  BY FS_Subset
<1>4. /\ IsFiniteSet(Bytes(S, h)) /\ IsFiniteSet(Bytes(D \ S, h))
      /\ HeapSum(S, h) \in Nat /\ HeapSum(D \ S, h) \in Nat
  BY <1>3, SumType
<1>5. Cardinality({}) = 0
  BY FS_EmptySet
<1>6. Cardinality(Bytes(S, h) \cup Bytes(D \ S, h))
        = Cardinality(Bytes(S, h)) + Cardinality(Bytes(D \ S, h)) - Cardinality(Bytes(S, h) \cap Bytes(D \ S, h))
  BY <1>4, FS_Union
<1>7. /\ HeapSum(S, h) = Cardinality(Bytes(S, h)) /\ HeapSum(D \ S, h) = Cardinality(Bytes(D \ S, h))
      /\ HeapSum(D, h) = Cardinality(Bytes(D, h))
  BY DEF HeapSum, Bytes
<1>8. PICK p \in Nat, q \in Nat : p = HeapSum(S, h) /\ q = HeapSum(D \ S, h)
  BY <1>4
<1>9. HeapSum(D, h) = p + q - 0
  BY <1>1, <1>2, <1>5, <1>6, <1>7, <1>8
<1> QED BY <1>8, <1>9

(* A block is as large as the caller asked.                                *)
LEMMA RoundsUp ==
  ASSUME NEW n \in Nat, n > 0, n <= HeapMod - HEAP_ALIGN
  PROVE  HEAP_ALIGN_UP(n) \in Nat /\ HEAP_ALIGN_UP(n) >= n /\ HEAP_ALIGN_UP(n) >= HEAP_ALIGN
<1>1. PICK A \in Nat \ {0}, M \in Nat \ {0}, m \in Nat : 
        A = HEAP_ALIGN /\ M = HeapMod /\ m = n + HEAP_ALIGN - 1
  BY FitAssumption
<1>2. m \in 0..(M - 1) /\ m >= A
  BY <1>1
<1>3. m % M = m
  <2>1. m = M * 0 + m
    BY <1>1
  <2> QED BY <1>2, <2>1, ModIs
<1>4. PICK q \in Int, r \in 0..(A - 1) : q = m \div A /\ m = A * q + r
  BY <1>1, DivOf
<1>5. q >= 1
  <2>1. CASE q <= 0
    <3>1. A * q <= 0
      BY <1>1, <2>1, Z3
    <3> QED BY <1>1, <1>2, <1>4, <3>1
  <2> QED BY <2>1
<1>6. q * A = A * q /\ q * A \in Int /\ q * A >= A
  BY <1>1, <1>5, Z3
<1>7. HEAP_ALIGN_UP(n) = q * A
  BY <1>1, <1>3, <1>4 DEF HEAP_ALIGN_UP
<1>8. PICK u \in Int : u = q * A
  BY <1>6
<1> QED BY <1>1, <1>4, <1>6, <1>7, <1>8

-----------------------------------------------------------------------------
(* The chain                                                               *)

LEMMA TilingFinite ==
  ASSUME NEW h, Tiling(h)
  PROVE  IsFiniteSet(DOMAIN h) /\ \A a \in DOMAIN h : h[a].size \in Nat
<1>1. pool_size - 1 \in Int /\ 0 \in Int
  BY FitAssumption
<1>2. IsFiniteSet(0..(pool_size - 1))
  BY <1>1, FS_Interval, Zenon
<1>3. DOMAIN h \in SUBSET (0..(pool_size - 1))
  BY DEF Tiling
<1> QED BY <1>2, <1>3, FS_Subset DEF Tiling, Header

(* What heap_split does, field by field; the new block is at e.            *)
SplitOf(h, g, a, n, e) ==
  /\ e \in Nat /\ e \notin DOMAIN h /\ e # NULL /\ a # e /\ h[a].next # a
  /\ g \in [DOMAIN h \cup {e} -> Header]
  /\ g[e].prev = a /\ g[e].next = h[a].next /\ g[e].size = h[a].size - n - HDR_SIZE /\ g[e].free
  /\ g[a].prev = h[a].prev /\ g[a].next = e /\ g[a].size = n /\ g[a].free = h[a].free
  /\ \A x \in DOMAIN h \ {a} :
       /\ g[x].size = h[x].size /\ g[x].free = h[x].free /\ g[x].next = h[x].next
       /\ g[x].prev = IF x = h[a].next THEN e ELSE h[x].prev

LEMMA SplitFields ==
  ASSUME NEW h, Tiling(h), NEW a \in DOMAIN h, NEW n \in Nat,
         n >= HEAP_ALIGN, h[a].size - n >= BLK_MIN_SIZE,
         NEW g, g = heap_split(h, a, n), NEW e, e = a + HDR_SIZE + n
  PROVE  SplitOf(h, g, a, n, e)
<1>1. /\ HDR_SIZE \in Nat \ {0} /\ HEAP_ALIGN \in Nat \ {0} /\ pool_size \in Nat
      /\ BLK_MIN_SIZE = HDR_SIZE + HEAP_ALIGN
  BY FitAssumption DEF BLK_MIN_SIZE
<1>2. a \in Nat /\ h[a] \in Header
  BY DEF Tiling
<1>3. PICK s \in Nat, c \in Int, p \in Int : s = h[a].size /\ c = h[a].next /\ p = h[a].prev
  BY <1>2 DEF Header
<1>4. PICK r \in Header : r = [h[a] EXCEPT !.next = e, !.size = n]
  <2>1. e \in Int
    BY FitAssumption, <1>2
  <2> QED BY <1>2, <2>1 DEF Header
<1>5. e \in Nat /\ e # NULL /\ a < e
  BY <1>1, <1>2 DEF NULL
<1>6. e \notin DOMAIN h
  <2> SUFFICES ASSUME e \in DOMAIN h PROVE FALSE
    OBVIOUS
  <2>1. a + HDR_SIZE + s <= e
    BY <1>3, <1>5 DEF Tiling
  <2> QED BY <1>1, <1>2, <1>3, <1>5, <2>1
<1>7. c # a
  <2> SUFFICES ASSUME c = a PROVE FALSE
    OBVIOUS
  <2>1. c # NULL
    BY <1>2 DEF NULL
  <2>2. c = a + HDR_SIZE + s
    BY <1>3, <2>1 DEF Tiling
  <2> QED BY <1>1, <1>2, <1>3, <2>2
<1>8. c # NULL => c \in DOMAIN h
  BY <1>3 DEF Tiling
<1> DEFINE new == [prev |-> a, next |-> c, free |-> TRUE, size |-> s - n - HDR_SIZE]
           m == [x \in DOMAIN h \cup {e} |-> IF x = e THEN new
                   ELSE IF x = a THEN [h[a] EXCEPT !.next = e, !.size = n] ELSE h[x]]
<1>9. g = SetPrev(m, c, e)
  BY <1>1, <1>3, <1>5 DEF heap_split
<1>10. new \in Header
  BY <1>1, <1>2, <1>3 DEF Header
<1>11. r.prev = p /\ r.next = e /\ r.size = n /\ r.free = h[a].free
  BY <1>2, <1>3, <1>4 DEF Header
<1>12. /\ m \in [DOMAIN h \cup {e} -> Header] /\ m[e] = new /\ m[a] = r
       /\ \A x \in DOMAIN h \ {a} : m[x] = h[x]
  <2>1. \A x \in DOMAIN h : h[x] \in Header
    BY DEF Tiling
  <2>2. m = [x \in DOMAIN h \cup {e} |-> IF x = e THEN new ELSE IF x = a THEN r ELSE h[x]]
    BY <1>4
  <2> HIDE DEF m, new
  <2> QED BY <1>5, <1>6, <1>10, <2>1, <2>2
<1> HIDE DEF m
<1>13. /\ m[a].prev = p /\ m[a].next = e /\ m[a].size = n /\ m[a].free = h[a].free
  BY <1>11, <1>12
<1>14. CASE c = NULL
  <2>1. g = m
    BY <1>9, <1>14 DEF SetPrev
  <2>2. \A x \in DOMAIN h : x # c
    BY <1>14 DEF Tiling, NULL
  <2> QED BY <1>3, <1>5, <1>6, <1>7, <1>12, <1>13, <2>1, <2>2 DEF SplitOf
<1>15. CASE c # NULL
  <2>1. g = [m EXCEPT ![c].prev = e]
    BY <1>9, <1>15 DEF SetPrev
  <2>2. c \in DOMAIN h \ {a} /\ c # e
    BY <1>6, <1>7, <1>8, <1>15
  <2>3. g \in [DOMAIN h \cup {e} -> Header]
    BY <1>5, <1>12, <2>1, <2>2 DEF Header
  <2>4. /\ \A x \in DOMAIN h \cup {e} : x # c => g[x] = m[x]
        /\ g[c] = [m[c] EXCEPT !.prev = e]
    BY <1>12, <2>1, <2>2
  <2>5. m[c] = h[c] /\ m[c] \in Header
    BY <1>12, <2>2
  <2>6. g[c].size = h[c].size /\ g[c].free = h[c].free /\ g[c].next = h[c].next /\ g[c].prev = e
    BY <2>4, <2>5 DEF Header
  <2>7. g[e] = m[e] /\ g[a] = m[a]
    BY <1>5, <2>2, <2>4
  <2>8. g[e].prev = a /\ g[e].next = h[a].next /\ g[e].size = h[a].size - n - HDR_SIZE /\ g[e].free
    BY <1>3, <1>12, <2>7
  <2>9. \A x \in DOMAIN h \ {a} :
              /\ g[x].size = h[x].size /\ g[x].free = h[x].free /\ g[x].next = h[x].next
              /\ g[x].prev = IF x = h[a].next THEN e ELSE h[x].prev
    BY <1>3, <1>6, <1>12, <2>4, <2>6
  <2> HIDE DEF new
  <2>10. g[a].prev = h[a].prev /\ g[a].next = e /\ g[a].size = n /\ g[a].free = h[a].free
    BY <1>3, <1>13, <2>7
  <2>11. e \in Nat /\ e \notin DOMAIN h /\ e # NULL /\ a # e /\ h[a].next # a
    BY <1>3, <1>5, <1>6, <1>7
  <2> QED BY <2>3, <2>8, <2>9, <2>10, <2>11 DEF SplitOf
<1> QED BY <1>14, <1>15

(* What taking b into its predecessor a does.                              *)
AbsorbOf(h, g, a, b) ==
  /\ b \in DOMAIN h /\ a < b /\ h[b].next # a /\ h[b].next # b
  /\ g \in [DOMAIN h \ {b} -> Header]
  /\ g[a].prev = h[a].prev /\ g[a].next = h[b].next
  /\ g[a].size = h[a].size + HDR_SIZE + h[b].size /\ g[a].free = h[a].free
  /\ \A x \in DOMAIN h \ {a, b} :
       /\ g[x].size = h[x].size /\ g[x].free = h[x].free /\ g[x].next = h[x].next
       /\ g[x].prev = IF x = h[b].next THEN a ELSE h[x].prev

LEMMA AbsorbFields ==
  ASSUME NEW h, Tiling(h), NEW a \in DOMAIN h, NEW b, b = h[a].next, b # NULL,
         NEW g, g = Absorb(h, a, b)
  PROVE  AbsorbOf(h, g, a, b)
<1>1. HDR_SIZE \in Nat \ {0}
  BY FitAssumption
<1>2. b \in DOMAIN h /\ a \in Nat /\ h[a] \in Header /\ h[b] \in Header /\ b = a + HDR_SIZE + h[a].size
  BY DEF Tiling
<1>3. PICK s \in Nat, p \in Int : s = h[a].size /\ p = h[a].prev
  BY <1>2 DEF Header
<1>4. PICK t \in Nat, c \in Int : t = h[b].size /\ c = h[b].next
  BY <1>2 DEF Header
<1>5. a < b /\ b \in Nat
  BY <1>1, <1>2, <1>3
<1>6. c # NULL => c \in DOMAIN h /\ b < c
  <2> SUFFICES ASSUME c # NULL PROVE c \in DOMAIN h /\ b < c
    OBVIOUS
  <2>1. c \in DOMAIN h /\ c = b + HDR_SIZE + t
    BY <1>2, <1>4 DEF Tiling
  <2> QED BY <1>1, <1>4, <1>5, <2>1
<1>7. c # a /\ c # b
  BY <1>2, <1>5, <1>6 DEF NULL
<1> DEFINE m == [h EXCEPT ![a].size = @ + HDR_SIZE + t, ![a].next = c]
           k == SetPrev(m, c, a)
<1>8. g = [x \in DOMAIN k \ {b} |-> k[x]]
  BY <1>4 DEF Absorb
<1>9. h \in [DOMAIN h -> Header]
  BY DEF Tiling
<1>10. /\ m \in [DOMAIN h -> Header]
       /\ m[a].prev = p /\ m[a].next = c /\ m[a].size = s + HDR_SIZE + t /\ m[a].free = h[a].free
       /\ \A x \in DOMAIN h \ {a} : m[x] = h[x]
  <2>1. PICK z \in Nat : z = s + HDR_SIZE + t
    BY <1>1, <1>3, <1>4
  <2>2. PICK r \in Header : r = [h[a] EXCEPT !.size = z, !.next = c]
    BY <1>2 DEF Header
  <2>3. m = [h EXCEPT ![a] = r]
    BY <1>3, <1>9, <2>1, <2>2
  <2>4. r.prev = p /\ r.next = c /\ r.size = z /\ r.free = h[a].free
    BY <1>2, <1>3, <2>2 DEF Header
  <2> HIDE DEF m
  <2> QED BY <1>9, <2>1, <2>3, <2>4
<1> HIDE DEF m
<1>11. /\ k \in [DOMAIN h -> Header] /\ k[a].prev = p /\ k[a].next = c /\ k[a].size = s + HDR_SIZE + t /\ k[a].free = h[a].free
       /\ \A x \in DOMAIN h \ {a} :
              /\ k[x].size = h[x].size /\ k[x].free = h[x].free /\ k[x].next = h[x].next
              /\ k[x].prev = IF x = c THEN a ELSE h[x].prev
  <2>1. CASE c = NULL
    <3>1. k = m
      BY <2>1 DEF SetPrev
    <3>2. \A x \in DOMAIN h : x # c
      BY <2>1 DEF Tiling, NULL
    <3> QED BY <1>10, <3>1, <3>2
  <2>2. CASE c # NULL
    <3>1. k = [m EXCEPT ![c].prev = a]
      BY <2>2 DEF SetPrev
    <3>2. c \in DOMAIN h \ {a} /\ m[c] = h[c] /\ m[c] \in Header
      BY <1>6, <1>7, <1>10, <2>2
    <3>3. k \in [DOMAIN h -> Header]
      BY <1>2, <1>10, <3>1, <3>2 DEF Header
    <3>4. (\A x \in DOMAIN h : x # c => k[x] = m[x]) /\ k[c] = [m[c] EXCEPT !.prev = a]
      BY <1>10, <3>1, <3>2
    <3>5. k[c].size = h[c].size /\ k[c].free = h[c].free /\ k[c].next = h[c].next /\ k[c].prev = a
      BY <3>2, <3>4 DEF Header
    <3> QED BY <1>10, <3>2, <3>3, <3>4, <3>5
  <2> QED BY <2>1, <2>2
<1> HIDE DEF k
<1>12. DOMAIN k = DOMAIN h
  BY <1>11
<1>13. g \in [DOMAIN h \ {b} -> Header] /\ \A x \in DOMAIN h \ {b} : g[x] = k[x]
  BY <1>8, <1>11, <1>12
<1> QED BY <1>2, <1>3, <1>4, <1>5, <1>7, <1>10, <1>11, <1>13 DEF AbsorbOf

LEMMA SplitTiles ==
  ASSUME NEW h, Tiling(h), NEW a \in DOMAIN h, NEW n \in Nat,
         n >= HEAP_ALIGN, h[a].size - n >= BLK_MIN_SIZE,
         NEW g, g = heap_split(h, a, n)
  PROVE  Tiling(g)
<1>1. /\ HDR_SIZE \in Nat \ {0} /\ HEAP_ALIGN \in Nat \ {0} /\ pool_size \in Nat
      /\ BLK_MIN_SIZE = HDR_SIZE + HEAP_ALIGN
  BY FitAssumption DEF BLK_MIN_SIZE
<1>2. PICK s \in Nat, c \in Int, e \in Int :
        s = h[a].size /\ c = h[a].next /\ e = a + HDR_SIZE + n
  <2>1. h[a].size \in Nat /\ h[a].next \in Int /\ a \in Nat
    BY DEF Tiling, Header
  <2> QED BY <1>1, <2>1
<1> DEFINE D == DOMAIN h
<1>3. /\ e \in Nat /\ e \notin D /\ e # NULL /\ a # e /\ c # a
      /\ g \in [D \cup {e} -> Header]
      /\ g[e].prev = a /\ g[e].next = c /\ g[e].size = s - n - HDR_SIZE
      /\ g[a].prev = h[a].prev /\ g[a].next = e /\ g[a].size = n
      /\ \A x \in D \ {a} :
           /\ g[x].size = h[x].size /\ g[x].next = h[x].next
           /\ g[x].prev = IF x = c THEN e ELSE h[x].prev
  <2>1. SplitOf(h, g, a, n, e)
    BY <1>2, SplitFields
  <2> QED BY <1>2, <2>1 DEF SplitOf
<1>4. /\ D \subseteq 0..(pool_size - 1) /\ 0 \in D /\ h[0].prev = NULL
      /\ \A x \in D : h[x].size \in Nat /\ h[x].next \in Int /\ h[x].prev \in Int
      /\ \A x \in D :
           /\ h[x].size >= HEAP_ALIGN
           /\ h[x].next = NULL => x + HDR_SIZE + h[x].size = pool_size
           /\ h[x].next # NULL => /\ h[x].next = x + HDR_SIZE + h[x].size
                                  /\ h[x].next \in D /\ h[h[x].next].prev = x
           /\ x # 0 => h[x].prev \in D /\ h[h[x].prev].next = x
      /\ \A x, y \in D : x < y => x + HDR_SIZE + h[x].size <= y
  BY DEF Tiling, Header
<1>5. DOMAIN g = D \cup {e} /\ g[e].prev = a /\ g[e].next = c /\ g[e].size = s - n - HDR_SIZE
  BY <1>3
<1>6. a \in Nat /\ e < a + HDR_SIZE + s /\ e > a /\ a + HDR_SIZE + s <= pool_size
      /\ e + HDR_SIZE + (s - n - HDR_SIZE) = a + HDR_SIZE + s
  <2>1. c = NULL \/ (c = a + HDR_SIZE + s /\ c <= pool_size - 1)
    BY <1>2, <1>4
  <2>2. c = NULL => a + HDR_SIZE + s = pool_size
    BY <1>2, <1>4
  <2> QED BY <1>1, <1>2, <1>4, <2>1, <2>2
<1>7. (D \cup {e}) \subseteq 0..(pool_size - 1)
  BY <1>1, <1>2, <1>3, <1>4, <1>6
<1>8. \A x \in D : x = c => x # 0 /\ h[x].prev = a /\ x # a
  <2>1. c # 0
    <3>1. c # NULL => c = a + HDR_SIZE + s
      BY <1>2, <1>4
    <3> QED BY <1>1, <1>2, <1>6, <3>1 DEF NULL
  <2>2. c \in D => c # NULL
    BY <1>4 DEF NULL
  <2> QED BY <1>2, <1>3, <1>4, <2>1, <2>2
<1>9. 0 \in D \cup {e} /\ g[0].prev = NULL
  <2>1. 0 # c
    BY <1>4, <1>8
  <2>2. CASE a = 0
    BY <1>3, <1>4, <2>2
  <2>3. CASE a # 0
    BY <1>3, <1>4, <2>1, <2>3
  <2> QED BY <1>4, <2>2, <2>3
<1>10. ASSUME NEW x \in D \cup {e}
       PROVE  /\ g[x].size >= HEAP_ALIGN
              /\ g[x].next = NULL => x + HDR_SIZE + g[x].size = pool_size
              /\ g[x].next # NULL => /\ g[x].next = x + HDR_SIZE + g[x].size
                                     /\ g[x].next \in D \cup {e} /\ g[g[x].next].prev = x
              /\ x # 0 => g[x].prev \in D \cup {e} /\ g[g[x].prev].next = x
  <2>1. CASE x = e
    <3>1. g[x].size >= HEAP_ALIGN
      BY <1>1, <1>2, <1>5, <2>1
    <3>2. c = NULL => x + HDR_SIZE + g[x].size = pool_size
      BY <1>1, <1>2, <1>4, <1>5, <1>6, <2>1
    <3>3. c # NULL => c = x + HDR_SIZE + g[x].size /\ c \in D /\ g[c].prev = x
      BY <1>1, <1>2, <1>3, <1>4, <1>5, <1>6, <1>8, <2>1
    <3>4. g[x].prev = a /\ g[a].next = x
      BY <1>3, <1>5, <2>1
    <3> QED BY <1>5, <2>1, <3>1, <3>2, <3>3, <3>4
  <2>2. CASE x = a
    <3>1. g[x].size >= HEAP_ALIGN /\ g[x].next = e /\ e = x + HDR_SIZE + g[x].size /\ g[e].prev = x
      BY <1>2, <1>3, <1>5, <2>2
    <3>2. x # 0 => g[x].prev \in D /\ g[g[x].prev].next = x
      <4> SUFFICES ASSUME x # 0 PROVE g[x].prev \in D /\ g[g[x].prev].next = x
        OBVIOUS
      <4>1. g[x].prev = h[a].prev /\ h[a].prev \in D /\ h[h[a].prev].next = a
        BY <1>3, <1>4, <2>2
      <4>2. h[a].prev # a
        BY <1>2, <1>3, <4>1
      <4> QED BY <1>3, <2>2, <4>1, <4>2
    <3> QED BY <1>3, <2>2, <3>1, <3>2
  <2>3. CASE x \in D \ {a}
    <3>1. g[x].size = h[x].size /\ g[x].next = h[x].next
      BY <1>3, <2>3
    <3>2. h[x].next # a => (h[x].next # NULL => g[h[x].next].prev = x)
      <4> SUFFICES ASSUME h[x].next # a, h[x].next # NULL PROVE g[h[x].next].prev = x
        OBVIOUS
      <4>1. h[x].next \in D /\ h[h[x].next].prev = x
        BY <1>4, <2>3
      <4>2. h[x].next # c
        BY <1>8, <2>3, <4>1
      <4> QED BY <1>3, <4>1, <4>2
    <3>3. h[x].next = a => g[h[x].next].prev = x
      <4> SUFFICES ASSUME h[x].next = a PROVE g[a].prev = x
        OBVIOUS
      <4>1. a # NULL
        BY <1>6 DEF NULL
      <4> QED BY <1>3, <1>4, <2>3, <4>1
    <3>4. x # 0 => g[x].prev \in D \cup {e} /\ g[g[x].prev].next = x
      <4>1. CASE x = c
        BY <1>3, <1>5, <2>3, <4>1
      <4>2. CASE x # c
        <5>1. g[x].prev = h[x].prev
          BY <1>3, <2>3, <4>2
        <5>2. x # 0 => h[x].prev \in D /\ h[h[x].prev].next = x /\ h[x].prev # a
          BY <1>2, <1>4, <2>3, <4>2
        <5> QED BY <1>3, <5>1, <5>2
      <4> QED BY <4>1, <4>2
    <3> QED BY <1>4, <2>3, <3>1, <3>2, <3>3, <3>4
  <2> QED BY <2>1, <2>2, <2>3
<1>11. ASSUME NEW x \in D \cup {e}, NEW y \in D \cup {e}, x < y
       PROVE  x + HDR_SIZE + g[x].size <= y
  <2>1. CASE x = e
    <3>1. y \in D /\ a < y
      BY <1>2, <1>4, <1>6, <1>7, <1>11, <2>1
    <3> QED BY <1>1, <1>2, <1>4, <1>5, <1>6, <2>1, <3>1
  <2>2. CASE x = a
    <3>1. CASE y = e
      BY <1>2, <1>3, <2>2, <3>1
    <3>2. CASE y \in D
      <4>1. a + HDR_SIZE + s <= y
        BY <1>2, <1>4, <1>11, <2>2, <3>2
      <4> QED BY <1>1, <1>2, <1>3, <1>4, <1>6, <2>2, <3>2, <4>1
    <3> QED BY <3>1, <3>2
  <2>3. CASE x \in D \ {a}
    <3>1. g[x].size = h[x].size
      BY <1>3, <2>3
    <3>2. CASE y \in D
      BY <1>4, <1>11, <2>3, <3>1, <3>2
    <3>3. CASE y = e
      <4>1. x \in Nat /\ h[x].size \in Nat
        BY <1>4, <2>3
      <4>2. CASE x < a
        <5>1. x + HDR_SIZE + h[x].size <= a
          BY <1>4, <2>3, <4>2
        <5> QED BY <1>1, <1>2, <1>6, <3>1, <3>3, <4>1, <5>1
      <4>3. CASE a < x
        <5>1. a + HDR_SIZE + s <= x
          BY <1>2, <1>4, <2>3, <4>3
        <5> QED BY <1>1, <1>2, <1>6, <1>11, <3>3, <4>1, <5>1
      <4> QED BY <1>6, <2>3, <4>1, <4>2, <4>3
    <3> QED BY <3>2, <3>3
  <2> QED BY <2>1, <2>2, <2>3
<1> QED BY <1>3, <1>5, <1>7, <1>9, <1>10, <1>11 DEF Tiling

LEMMA AbsorbTiles ==
  ASSUME NEW h, Tiling(h), NEW a \in DOMAIN h, NEW b, b = h[a].next, b # NULL,
         NEW g, g = Absorb(h, a, b)
  PROVE  Tiling(g)
<1>1. HDR_SIZE \in Nat \ {0} /\ HEAP_ALIGN \in Nat \ {0} /\ pool_size \in Nat
  BY FitAssumption
<1> DEFINE D == DOMAIN h
<1>2. /\ D \subseteq 0..(pool_size - 1) /\ 0 \in D /\ h[0].prev = NULL
      /\ \A x \in D : h[x].size \in Nat /\ h[x].next \in Int /\ h[x].prev \in Int
      /\ \A x \in D :
           /\ h[x].size >= HEAP_ALIGN
           /\ h[x].next = NULL => x + HDR_SIZE + h[x].size = pool_size
           /\ h[x].next # NULL => /\ h[x].next = x + HDR_SIZE + h[x].size
                                  /\ h[x].next \in D /\ h[h[x].next].prev = x
           /\ x # 0 => h[x].prev \in D /\ h[h[x].prev].next = x
      /\ \A x, y \in D : x < y => x + HDR_SIZE + h[x].size <= y
  BY DEF Tiling, Header
<1>3. PICK s \in Nat, t \in Nat, c \in Int : s = h[a].size /\ t = h[b].size /\ c = h[b].next
  <2>1. b \in D
    BY <1>2
  <2> QED BY <1>2, <2>1
<1>4. /\ b \in D /\ a < b /\ c # a /\ c # b
      /\ g \in [D \ {b} -> Header]
      /\ g[a].prev = h[a].prev /\ g[a].next = c /\ g[a].size = s + HDR_SIZE + t
      /\ \A x \in D \ {a, b} :
              /\ g[x].size = h[x].size /\ g[x].next = h[x].next
              /\ g[x].prev = IF x = c THEN a ELSE h[x].prev
  <2>1. AbsorbOf(h, g, a, b)
    BY AbsorbFields
  <2> QED BY <1>3, <2>1 DEF AbsorbOf
<1>5. /\ a \in Nat /\ b \in Nat /\ b = a + HDR_SIZE + s /\ b # 0 /\ h[b].prev = a
      /\ a + HDR_SIZE + (s + HDR_SIZE + t) = b + HDR_SIZE + t /\ b # NULL
  BY <1>1, <1>2, <1>3, <1>4
<1>6. /\ c # NULL => c \in D \ {a, b} /\ h[c].prev = b /\ c = b + HDR_SIZE + t /\ c # 0
      /\ c = NULL => b + HDR_SIZE + t = pool_size
  BY <1>1, <1>2, <1>3, <1>4, <1>5
<1>7. D \ {b} \subseteq 0..(pool_size - 1) /\ 0 \in D \ {b} /\ g[0].prev = NULL
  <2>1. 0 # b /\ 0 # c
    BY <1>5, <1>6 DEF NULL
  <2>2. CASE a = 0
    BY <1>2, <1>4, <2>1, <2>2
  <2>3. CASE a # 0
    BY <1>2, <1>4, <2>1, <2>3
  <2> QED BY <1>2, <2>1, <2>2, <2>3
<1>8. ASSUME NEW x \in D \ {b}
      PROVE  /\ g[x].size >= HEAP_ALIGN
             /\ g[x].next = NULL => x + HDR_SIZE + g[x].size = pool_size
             /\ g[x].next # NULL => /\ g[x].next = x + HDR_SIZE + g[x].size
                                    /\ g[x].next \in D \ {b} /\ g[g[x].next].prev = x
             /\ x # 0 => g[x].prev \in D \ {b} /\ g[g[x].prev].next = x
  <2>1. CASE x = a
    <3>1. g[x].size >= HEAP_ALIGN
      BY <1>1, <1>2, <1>3, <1>4, <2>1
    <3>2. c = NULL => x + HDR_SIZE + g[x].size = pool_size
      BY <1>4, <1>5, <1>6, <2>1
    <3>3. c # NULL => c = x + HDR_SIZE + g[x].size /\ c \in D \ {b} /\ g[c].prev = x
      BY <1>4, <1>5, <1>6, <2>1
    <3>4. x # 0 => g[x].prev \in D \ {b} /\ g[g[x].prev].next = x
      <4> SUFFICES ASSUME x # 0 PROVE g[x].prev \in D \ {b} /\ g[g[x].prev].next = x
        OBVIOUS
      <4>1. g[x].prev = h[a].prev /\ h[a].prev \in D /\ h[h[a].prev].next = a
        BY <1>2, <1>4, <2>1
      <4>2. h[a].prev # a /\ h[a].prev # b
        <5>1. b # a
          BY <1>4, <1>5
        <5> QED BY <1>3, <1>4, <4>1, <5>1
      <4> QED BY <1>4, <2>1, <4>1, <4>2
    <3> QED BY <1>4, <2>1, <3>1, <3>2, <3>3, <3>4
  <2>2. CASE x \in D \ {a, b}
    <3>1. g[x].size = h[x].size /\ g[x].next = h[x].next /\ h[x].next # b
      <4>1. h[x].next # b
        BY <1>2, <1>5, <2>2
      <4> QED BY <1>4, <2>2, <4>1
    <3>2. h[x].next # a => (h[x].next # NULL => g[h[x].next].prev = x)
      <4> SUFFICES ASSUME h[x].next # a, h[x].next # NULL PROVE g[h[x].next].prev = x
        OBVIOUS
      <4>1. h[x].next \in D \ {a, b} /\ h[h[x].next].prev = x
        BY <1>2, <2>2, <3>1
      <4>2. h[x].next # c
        BY <1>6, <2>2, <4>1
      <4> QED BY <1>4, <4>1, <4>2
    <3>3. h[x].next = a => g[h[x].next].prev = x
      <4> SUFFICES ASSUME h[x].next = a PROVE g[a].prev = x
        OBVIOUS
      <4>1. a # NULL
        BY <1>5 DEF NULL
      <4> QED BY <1>2, <1>4, <2>2, <4>1
    <3>4. x # 0 => g[x].prev \in D \ {b} /\ g[g[x].prev].next = x
      <4>1. CASE x = c
        BY <1>4, <2>2, <4>1, <1>5
      <4>2. CASE x # c
        <5>1. g[x].prev = h[x].prev
          BY <1>4, <2>2, <4>2
        <5>2. x # 0 => h[x].prev \in D /\ h[h[x].prev].next = x /\ h[x].prev # a /\ h[x].prev # b
          BY <1>2, <1>3, <2>2, <4>2
        <5> QED BY <1>4, <5>1, <5>2
      <4> QED BY <4>1, <4>2
    <3> QED BY <1>2, <2>2, <3>1, <3>2, <3>3, <3>4
  <2> QED BY <2>1, <2>2
<1>9. ASSUME NEW x \in D \ {b}, NEW y \in D \ {b}, x < y
      PROVE  x + HDR_SIZE + g[x].size <= y
  <2>1. CASE x = a
    <3>1. y \in Nat
      BY <1>2
    <3>2. b <= y
      BY <1>2, <1>3, <1>5, <1>9, <2>1
    <3>3. b < y
      BY <1>5, <3>1, <3>2
    <3>4. b + HDR_SIZE + t <= y
      BY <1>2, <1>3, <1>4, <3>3
    <3> QED BY <1>4, <1>5, <2>1, <3>4
  <2>2. CASE x \in D \ {a, b}
    BY <1>2, <1>4, <1>9, <2>2
  <2> QED BY <2>1, <2>2
<1>10. DOMAIN g = D \ {b}
  BY <1>4
<1> QED BY <1>4, <1>7, <1>8, <1>9, <1>10 DEF Tiling

(* Two neighbours weigh what the one block they become weighs.             *)
LEMMA JoinWeighs ==
  ASSUME NEW R, IsFiniteSet(R), NEW a, NEW b, a \notin R, b \notin R, a # b, NEW h, NEW g,
         DOMAIN h = (R \cup {a}) \cup {b}, DOMAIN g = R \cup {a},
         \A x \in DOMAIN h : h[x].size \in Nat,
         \A x \in R : g[x].size = h[x].size,
         g[a].size = h[a].size + HDR_SIZE + h[b].size
  PROVE  Weight(g) = Weight(h)
<1>1. PICK s \in Nat, t \in Nat, z \in Nat : s = h[a].size /\ t = h[b].size /\ z = HDR_SIZE
  BY FitAssumption
<1>2. IsFiniteSet(R \cup {a}) /\ b \notin R \cup {a}
  BY FS_AddElement
<1>3. PICK r \in Nat, c \in Nat : r = HeapSum(R, h) /\ c = Cardinality(R)
  <2>1. HeapSum(R, h) \in Nat
    BY SumType
  <2> QED BY <2>1, FS_CardinalityType
<1>4. HeapSum(R \cup {a}, h) = r + s
  BY <1>1, <1>3, SumAdd
<1>5. HeapSum((R \cup {a}) \cup {b}, h) = (r + s) + t
  <2>1. PICK Q : Q = R \cup {a}
    OBVIOUS
  <2>2. \A x \in Q \cup {b} : h[x].size \in Nat
    BY <2>1
  <2>3. HeapSum(Q \cup {b}, h) = HeapSum(Q, h) + h[b].size
    BY <1>2, <2>1, <2>2, SumAdd
  <2> QED BY <1>1, <1>4, <2>1, <2>3
<1>6. HeapSum(R \cup {a}, g) = r + (s + z + t)
  <2>1. HeapSum(R, g) = r
    BY <1>3, SumLocal
  <2>2. \A x \in R \cup {a} : g[x].size \in Nat
    BY <1>1
  <2> QED BY <1>1, <2>1, <2>2, SumAdd
<1>7. Cardinality(DOMAIN g) = c + 1 /\ Cardinality(DOMAIN h) = c + 1 + 1
  <2>1. PICK Q : Q = R \cup {a}
    OBVIOUS
  <2>2. Cardinality(Q) = c + 1
    BY <1>3, <2>1, FS_AddElement
  <2>3. Cardinality(Q \cup {b}) = Cardinality(Q) + 1
    BY <1>2, <2>1, FS_AddElement
  <2> QED BY <1>3, <2>1, <2>2, <2>3
<1>8. (c + 1 + 1) * z = (c + 1) * z + z /\ (c + 1) * z \in Int
  BY <1>1, <1>3, Z3
<1> QED BY <1>1, <1>3, <1>5, <1>6, <1>7, <1>8 DEF Weight

LEMMA SplitWeighs ==
  ASSUME NEW h, Tiling(h), NEW a \in DOMAIN h, NEW n \in Nat, NEW e, NEW g, Tiling(g),
         SplitOf(h, g, a, n, e)
  PROVE  Weight(g) = Weight(h)
<1> DEFINE R == DOMAIN h \ {a}
<1>1. IsFiniteSet(R) /\ \A x \in DOMAIN g : g[x].size \in Nat
  BY TilingFinite, FS_RemoveElement
<1>2. /\ a \notin R /\ e \notin R /\ a # e
      /\ DOMAIN g = (R \cup {a}) \cup {e} /\ DOMAIN h = R \cup {a}
      /\ \A x \in R : h[x].size = g[x].size
  BY DEF SplitOf
<1>3. h[a].size = g[a].size + HDR_SIZE + g[e].size
  <2>1. h[a].size \in Nat /\ HDR_SIZE \in Nat
    BY FitAssumption, TilingFinite
  <2> QED BY <2>1 DEF SplitOf
<1> HIDE DEF R
<1> QED BY <1>1, <1>2, <1>3, JoinWeighs

LEMMA AbsorbWeighs ==
  ASSUME NEW h, Tiling(h), NEW a \in DOMAIN h, NEW b, NEW g,
         AbsorbOf(h, g, a, b)
  PROVE  Weight(g) = Weight(h)
<1> DEFINE R == DOMAIN h \ {a, b}
<1>1. IsFiniteSet(R) /\ \A x \in DOMAIN h : h[x].size \in Nat
  <2>1. R \in SUBSET DOMAIN h
    OBVIOUS
  <2> QED BY <2>1, TilingFinite, FS_Subset
<1>2. a # b
  <2>1. a \in Nat /\ b \in Nat
    BY DEF AbsorbOf, Tiling
  <2> QED BY <2>1 DEF AbsorbOf
<1>3. /\ a \notin R /\ b \notin R
      /\ DOMAIN h = (R \cup {a}) \cup {b} /\ DOMAIN g = R \cup {a}
      /\ \A x \in R : g[x].size = h[x].size
      /\ g[a].size = h[a].size + HDR_SIZE + h[b].size
  BY <1>2 DEF AbsorbOf
<1> HIDE DEF R
<1> QED BY <1>1, <1>2, <1>3, JoinWeighs

(* Marking a block used or free moves nothing.                             *)
MarkOf(h, g, a) ==
  /\ a \in DOMAIN h /\ DOMAIN g = DOMAIN h /\ g \in [DOMAIN h -> Header]
  /\ \A x \in DOMAIN h : g[x].size = h[x].size /\ g[x].prev = h[x].prev /\ g[x].next = h[x].next
  /\ \A x \in DOMAIN h \ {a} : g[x].free = h[x].free

LEMMA MarkFields ==
  ASSUME NEW h, Tiling(h), NEW a \in DOMAIN h, NEW f \in BOOLEAN, NEW g, g = [h EXCEPT ![a].free = f]
  PROVE  MarkOf(h, g, a) /\ g[a].free = f
<1>1. h \in [DOMAIN h -> Header] /\ h[a] \in Header
  BY DEF Tiling
<1>2. PICK r \in Header : r = [h[a] EXCEPT !.free = f]
  BY <1>1 DEF Header
<1>3. r.size = h[a].size /\ r.prev = h[a].prev /\ r.next = h[a].next /\ r.free = f
  BY <1>1, <1>2 DEF Header
<1>4. g = [h EXCEPT ![a] = r]
  BY <1>1, <1>2
<1>5. g \in [DOMAIN h -> Header] /\ g[a] = r /\ \A x \in DOMAIN h \ {a} : g[x] = h[x]
  BY <1>1, <1>4
<1> QED BY <1>3, <1>5 DEF MarkOf

LEMMA MarkTiles ==
  ASSUME NEW h, Tiling(h), NEW a, NEW g, MarkOf(h, g, a)
  PROVE  Tiling(g) /\ Weight(g) = Weight(h)
<1>1. Tiling(g)
  BY DEF MarkOf, Tiling
<1>2. HeapSum(DOMAIN g, g) = HeapSum(DOMAIN h, h)
  <2>1. \A x \in DOMAIN h : g[x].size = h[x].size
    BY DEF MarkOf
  <2>2. HeapSum(DOMAIN h, g) = HeapSum(DOMAIN h, h)
    BY <2>1, SumLocal
  <2> QED BY <2>2 DEF MarkOf
<1> QED BY <1>1, <1>2 DEF Weight, MarkOf

-----------------------------------------------------------------------------
(* Freeing                                                                 *)

(* What merging a free block with free neighbours leaves.                  *)
Merges(h, g) ==
  /\ Tiling(g) /\ Weight(g) = Weight(h) /\ DOMAIN g \subseteq DOMAIN h
  /\ \A x \in DOMAIN h : ~h[x].free => x \in DOMAIN g /\ g[x].size = h[x].size
  /\ \A x \in DOMAIN g : g[x].free = h[x].free

LEMMA AbsorbMerges ==
  ASSUME NEW h, Tiling(h), NEW a \in DOMAIN h, NEW b, b = h[a].next, b # NULL,
         h[a].free, h[b].free, NEW g, g = Absorb(h, a, b)
  PROVE  Merges(h, g) /\ AbsorbOf(h, g, a, b) /\ a \in DOMAIN g
<1>1. AbsorbOf(h, g, a, b)
  BY AbsorbFields
<1>2. Tiling(g)
  BY AbsorbTiles
<1>3. Weight(g) = Weight(h)
  BY <1>1, AbsorbWeighs
<1>4. a # b
  <2>1. a \in Nat /\ b \in Nat
    BY <1>1 DEF AbsorbOf, Tiling
  <2> QED BY <1>1, <2>1 DEF AbsorbOf
<1>5. DOMAIN g = DOMAIN h \ {b}
  BY <1>1 DEF AbsorbOf
<1>6. \A x \in DOMAIN g : g[x].free = h[x].free
  BY <1>1, <1>5 DEF AbsorbOf
<1>7. \A x \in DOMAIN h : ~h[x].free => x \in DOMAIN g /\ g[x].size = h[x].size
  BY <1>1, <1>5 DEF AbsorbOf
<1> QED BY <1>1, <1>2, <1>3, <1>4, <1>5, <1>6, <1>7 DEF Merges

LEMMA MergesTwice ==
  ASSUME NEW h, NEW k, NEW g, Merges(h, k), Merges(k, g)
  PROVE  Merges(h, g)
<1>1. \A x \in DOMAIN h : ~h[x].free => x \in DOMAIN g /\ g[x].size = h[x].size
  <2> SUFFICES ASSUME NEW x \in DOMAIN h, ~h[x].free PROVE x \in DOMAIN g /\ g[x].size = h[x].size
    OBVIOUS
  <2>1. x \in DOMAIN k /\ k[x].size = h[x].size /\ k[x].free = h[x].free
    BY DEF Merges
  <2> QED BY <2>1 DEF Merges
<1>2. \A x \in DOMAIN g : g[x].free = h[x].free
  BY DEF Merges
<1> QED BY <1>1, <1>2 DEF Merges

LEMMA MergesNothing ==
  ASSUME NEW h, Tiling(h)
  PROVE  Merges(h, h)
BY DEF Merges

(* A pair of free neighbours there may have been only around the freed     *)
(* block; after heap_coalesce there is none.                               *)
LEMMA CoalesceKeeps ==
  ASSUME NEW h, Tiling(h), NEW a \in DOMAIN h, h[a].free, ApartBut(h, a),
         NEW g, g = heap_coalesce(h, a)
  PROVE  Merges(h, g) /\ Apart(g)
<1>1. PICK k : k = IF h[a].next # NULL /\ h[h[a].next].free THEN Absorb(h, a, h[a].next) ELSE h
  OBVIOUS
<1>2. g = IF k[a].prev # NULL /\ k[k[a].prev].free THEN Absorb(k, k[a].prev, a) ELSE k
  BY <1>1 DEF heap_coalesce
<1>3. /\ Merges(h, k) /\ a \in DOMAIN k
      /\ \A x \in DOMAIN k : k[x].next # NULL /\ k[x].next # a => ~(k[x].free /\ k[k[x].next].free)
  <2>1. CASE h[a].next # NULL /\ h[h[a].next].free
    <3>1. PICK b : b = h[a].next
      OBVIOUS
    <3>2. Merges(h, k) /\ AbsorbOf(h, k, a, b) /\ a \in DOMAIN k
      BY <1>1, <2>1, <3>1, AbsorbMerges
    <3>3. ASSUME NEW x \in DOMAIN k, k[x].next # NULL, k[x].next # a
          PROVE  ~(k[x].free /\ k[k[x].next].free)
      <4>1. DOMAIN k = DOMAIN h \ {b} /\ \A y \in DOMAIN k : k[y].free = h[y].free
        BY <3>2 DEF AbsorbOf, Merges
      <4>2. k[x].next \in DOMAIN k
        BY <3>2, <3>3 DEF Merges, Tiling
      <4>3. CASE x = a
        <5>1. k[x].next = h[b].next /\ b \in DOMAIN h /\ b # a
          BY <3>2, <4>1, <4>3 DEF AbsorbOf
        <5>2. ~(h[b].free /\ h[h[b].next].free)
          BY <3>3, <5>1 DEF ApartBut
        <5> QED BY <2>1, <3>1, <4>1, <4>2, <5>1, <5>2
      <4>4. CASE x # a
        <5>1. x \in DOMAIN h \ {a, b} /\ k[x].next = h[x].next
          BY <3>2, <4>1, <4>4 DEF AbsorbOf
        <5>2. ~(h[x].free /\ h[h[x].next].free)
          BY <3>3, <5>1 DEF ApartBut
        <5> QED BY <4>1, <4>2, <5>1, <5>2
      <4> QED BY <4>3, <4>4
    <3> QED BY <3>2, <3>3
  <2>2. CASE ~(h[a].next # NULL /\ h[h[a].next].free)
    <3>1. k = h
      BY <1>1, <2>2
    <3> QED BY <2>2, <3>1, MergesNothing DEF ApartBut
  <2> QED BY <2>1, <2>2
<1>4. k[a].free /\ Tiling(k)
  BY <1>3 DEF Merges
<1>5. CASE k[a].prev # NULL /\ k[k[a].prev].free
  <2>1. PICK p : p = k[a].prev
    OBVIOUS
  <2>2. p \in DOMAIN k /\ k[p].next = a /\ a # NULL
    <3>1. a # 0
      BY <1>4, <1>5 DEF Tiling
    <3>2. a \in Nat
      BY <1>3, <1>4 DEF Tiling
    <3> QED BY <1>3, <1>4, <2>1, <3>1, <3>2 DEF Tiling, NULL
  <2>3. Merges(k, g) /\ AbsorbOf(k, g, p, a)
    BY <1>2, <1>4, <1>5, <2>1, <2>2, AbsorbMerges
  <2>4. ASSUME NEW x \in DOMAIN g, g[x].next # NULL
        PROVE  ~(g[x].free /\ g[g[x].next].free)
    <3>1. DOMAIN g = DOMAIN k \ {a} /\ \A y \in DOMAIN g : g[y].free = k[y].free
      BY <2>3 DEF AbsorbOf, Merges
    <3>2. g[x].next \in DOMAIN g
      BY <2>3, <2>4 DEF Merges, Tiling
    <3>3. CASE x = p
      <4>1. g[x].next = k[a].next
        BY <2>3, <3>3 DEF AbsorbOf
      <4>2. k[a].next # a
        BY <3>1, <3>2, <4>1
      <4>3. ~(k[a].free /\ k[k[a].next].free)
        BY <1>3, <2>4, <4>1, <4>2
      <4> QED BY <1>4, <3>1, <3>2, <4>1, <4>3
    <3>4. CASE x # p
      <4>1. x \in DOMAIN k \ {p, a} /\ g[x].next = k[x].next
        BY <2>3, <3>1, <3>4 DEF AbsorbOf
      <4>2. k[x].next # a
        BY <3>1, <3>2, <4>1
      <4>3. ~(k[x].free /\ k[k[x].next].free)
        BY <1>3, <2>4, <4>1, <4>2
      <4> QED BY <3>1, <3>2, <4>1, <4>3
    <3> QED BY <3>3, <3>4
  <2> QED BY <1>3, <2>3, <2>4, MergesTwice DEF Apart
<1>6. CASE ~(k[a].prev # NULL /\ k[k[a].prev].free)
  <2>1. g = k
    BY <1>2, <1>6
  <2>2. ASSUME NEW x \in DOMAIN k, k[x].next # NULL
        PROVE  ~(k[x].free /\ k[k[x].next].free)
    <3>1. CASE k[x].next = a
      <4>1. k[a].prev = x /\ x # NULL
        BY <1>4, <2>2, <3>1 DEF Tiling, NULL
      <4> QED BY <1>6, <4>1
    <3> QED BY <1>3, <2>2, <3>1
  <2> QED BY <1>3, <2>1, <2>2 DEF Apart
<1> QED BY <1>5, <1>6

-----------------------------------------------------------------------------
(* Allocating                                                              *)

(* The search finds a block that fits, whenever there is one.              *)
LEMMA ChoiceFits ==
  ASSUME NEW h, Tiling(h), NEW n, Fits(h, n) # {}, fit \in {"first", "best"}
  PROVE  Choice(h, n) \in Fits(h, n)
<1> DEFINE F == Fits(h, n)
           Best(a, b) == \/ fit = "first" /\ a <= b
                         \/ fit = "best" /\ (h[a].size < h[b].size \/ (h[a].size = h[b].size /\ a <= b))
<1>1. F \in SUBSET Nat /\ \A a \in F : h[a].size \in Nat
  BY DEF Fits, Tiling, Header
<1> HIDE DEF F
<1>2. \E a \in F : \A b \in F : Best(a, b)
  <2>1. CASE fit = "first"
    <3>1. PICK a \in F : \A b \in F : a <= b
      BY <1>1, LeastNumber DEF F
    <3> QED BY <2>1, <3>1
  <2>2. CASE fit = "best"
    <3> DEFINE S == {h[a].size : a \in F}
    <3>1. S \in SUBSET Nat /\ S # {}
      BY <1>1 DEF F
    <3>2. PICK s \in S : \A x \in S : s <= x
      BY <3>1, LeastNumber
    <3> DEFINE T == {a \in F : h[a].size = s}
    <3>3. T \in SUBSET Nat /\ T # {}
      BY <1>1, <3>2
    <3>4. PICK a \in T : \A b \in T : a <= b
      BY <3>3, LeastNumber
    <3>5. ASSUME NEW b \in F PROVE Best(a, b)
      <4>1. h[a].size \in Nat /\ h[b].size \in Nat /\ h[a].size <= h[b].size
        BY <1>1, <3>2, <3>4, <3>5
      <4>2. h[a].size = h[b].size => a <= b
        BY <3>4, <3>5
      <4> QED BY <2>2, <4>1, <4>2
    <3> QED BY <3>4, <3>5
  <2> QED BY <2>1, <2>2
<1> QED BY <1>2 DEF Choice, F

(* What taking n bytes from the free block a leaves.                       *)
Takes(h, g, a, n) ==
  /\ Tiling(g) /\ Apart(g) /\ Weight(g) = Weight(h)
  /\ Used(g) = Used(h) \cup {a} /\ a \notin Used(h) /\ a \in DOMAIN g
  /\ g[a].size >= n /\ ~g[a].free
  /\ \A x \in Used(h) : g[x].size = h[x].size

LEMMA TakeKeeps ==
  ASSUME NEW h, Tiling(h), Apart(h), NEW n \in Nat, n >= HEAP_ALIGN, NEW a \in Fits(h, n),
         NEW g, g = [heap_split(h, a, n) EXCEPT ![a].free = FALSE]
  PROVE  Takes(h, g, a, n)
<1>1. a \in DOMAIN h /\ h[a].free /\ h[a].size >= n /\ h[a].size \in Nat /\ a \in Nat
  BY DEF Fits, Tiling, Header
<1>2. PICK k : k = heap_split(h, a, n)
  OBVIOUS
<1>3. CASE h[a].size - n < BLK_MIN_SIZE
  <2>1. k = h
    BY <1>2, <1>3 DEF heap_split
  <2>2. MarkOf(h, g, a) /\ ~g[a].free
    <3>1. g = [h EXCEPT ![a].free = FALSE]
      BY <1>2, <2>1
    <3> QED BY <1>1, <3>1, MarkFields
  <2>3. Tiling(g) /\ Weight(g) = Weight(h)
    BY <2>2, MarkTiles
  <2>4. Apart(g)
    <3> SUFFICES ASSUME NEW x \in DOMAIN g, g[x].next # NULL PROVE ~(g[x].free /\ g[g[x].next].free)
      BY DEF Apart
    <3>1. x \in DOMAIN h /\ g[x].next = h[x].next /\ h[x].next \in DOMAIN h
      BY <2>2 DEF MarkOf, Tiling
    <3>2. ~(h[x].free /\ h[h[x].next].free)
      BY <3>1 DEF Apart
    <3> QED BY <2>2, <3>1, <3>2 DEF MarkOf
  <2>5. Used(g) = Used(h) \cup {a}
    BY <2>2 DEF MarkOf, Used
  <2>6. a \notin Used(h)
    BY <1>1 DEF Used
  <2>7. a \in DOMAIN g /\ g[a].size >= n /\ \A x \in Used(h) : g[x].size = h[x].size
    BY <1>1, <2>2 DEF MarkOf, Used
  <2> QED BY <2>2, <2>3, <2>4, <2>5, <2>6, <2>7 DEF Takes
<1>4. CASE ~(h[a].size - n < BLK_MIN_SIZE)
  <2>1. h[a].size - n >= BLK_MIN_SIZE
    <3>1. BLK_MIN_SIZE \in Int
      BY FitAssumption DEF BLK_MIN_SIZE
    <3> QED BY <1>1, <1>4, <3>1
  <2>2. PICK e : e = a + HDR_SIZE + n
    OBVIOUS
  <2>3. Tiling(k) /\ SplitOf(h, k, a, n, e)
    BY <1>1, <1>2, <2>1, <2>2, SplitFields, SplitTiles
  <2>4. Weight(k) = Weight(h)
    BY <1>1, <2>3, SplitWeighs
  <2>5. DOMAIN k = DOMAIN h \cup {e}
    BY <2>3 DEF SplitOf
  <2>6. MarkOf(k, g, a) /\ ~g[a].free
    BY <1>1, <1>2, <2>3, <2>5, MarkFields
  <2>7. Tiling(g) /\ Weight(g) = Weight(k)
    BY <2>3, <2>6, MarkTiles
  <2>8. DOMAIN g = DOMAIN h \cup {e} /\ a # e /\ e \notin DOMAIN h
    BY <2>3, <2>5, <2>6 DEF MarkOf, SplitOf
  <2>9. g[e].free
    BY <2>3, <2>5, <2>6, <2>8 DEF MarkOf, SplitOf
  <2>10. \A x \in DOMAIN h \ {a} : g[x].free = h[x].free /\ g[x].size = h[x].size /\ g[x].next = h[x].next
    <3> SUFFICES ASSUME NEW x \in DOMAIN h \ {a}
                 PROVE  g[x].free = h[x].free /\ g[x].size = h[x].size /\ g[x].next = h[x].next
      OBVIOUS
    <3>1. k[x].free = h[x].free /\ k[x].size = h[x].size /\ k[x].next = h[x].next
      BY <2>3 DEF SplitOf
    <3>2. g[x].free = k[x].free /\ g[x].size = k[x].size /\ g[x].next = k[x].next
      BY <2>5, <2>6 DEF MarkOf
    <3> QED BY <3>1, <3>2
  <2>11. g[a].next = e /\ g[a].size = n /\ g[e].next = h[a].next
    <3>1. k[a].next = e /\ k[a].size = n /\ k[e].next = h[a].next
      BY <2>3 DEF SplitOf
    <3> QED BY <1>1, <2>5, <2>6, <3>1 DEF MarkOf
  <2>12. Apart(g)
    <3> SUFFICES ASSUME NEW x \in DOMAIN g, g[x].next # NULL PROVE ~(g[x].free /\ g[g[x].next].free)
      BY DEF Apart
    <3>1. CASE x = a
      BY <2>6, <3>1
    <3>2. CASE x = e
      <4>1. g[x].next = h[a].next /\ h[a].next \in DOMAIN h /\ h[a].next # a
        BY <1>1, <2>3, <2>11, <3>2 DEF Tiling, SplitOf
      <4>2. ~h[h[a].next].free
        BY <1>1, <2>11, <3>2 DEF Apart
      <4> QED BY <2>10, <4>1, <4>2
    <3>3. CASE x \in DOMAIN h \ {a}
      <4>1. g[x].next = h[x].next /\ h[x].next \in DOMAIN h /\ g[x].free = h[x].free
        BY <2>10, <3>3 DEF Tiling
      <4>2. ~(h[x].free /\ h[h[x].next].free)
        BY <3>3, <4>1 DEF Apart
      <4> QED BY <2>6, <2>10, <4>1, <4>2
    <3> QED BY <2>8, <3>1, <3>2, <3>3
  <2>13. Used(g) = Used(h) \cup {a}
    BY <1>1, <2>6, <2>8, <2>9, <2>10 DEF Used
  <2>14. a \notin Used(h) /\ \A x \in Used(h) : g[x].size = h[x].size
    BY <1>1, <2>10 DEF Used
  <2>15. a \in DOMAIN g /\ g[a].size >= n
    BY <1>1, <2>8, <2>11
  <2> QED BY <2>4, <2>6, <2>7, <2>12, <2>13, <2>14, <2>15 DEF Takes
<1> QED BY <1>3, <1>4

(* What freeing the used block a leaves.                                   *)
Returns(h, g, a) ==
  /\ Tiling(g) /\ Apart(g) /\ Weight(g) = Weight(h)
  /\ Used(g) = Used(h) \ {a}
  /\ \A x \in Used(g) : g[x].size = h[x].size

LEMMA FreeKeeps ==
  ASSUME NEW h, Tiling(h), Apart(h), NEW a \in Used(h),
         NEW g, g = heap_coalesce([h EXCEPT ![a].free = TRUE], a)
  PROVE  Returns(h, g, a)
<1>1. PICK k : k = [h EXCEPT ![a].free = TRUE]
  OBVIOUS
<1>2. a \in DOMAIN h /\ ~h[a].free
  BY DEF Used
<1>3. MarkOf(h, k, a) /\ k[a].free
  BY <1>1, <1>2, MarkFields
<1>4. Tiling(k) /\ Weight(k) = Weight(h) /\ a \in DOMAIN k
  BY <1>3, MarkTiles DEF MarkOf
<1>5. ApartBut(k, a)
  <2> SUFFICES ASSUME NEW x \in DOMAIN k, x # a, k[x].next # NULL, k[x].next # a
               PROVE  ~(k[x].free /\ k[k[x].next].free)
    BY DEF ApartBut
  <2>1. x \in DOMAIN h /\ k[x].next = h[x].next /\ h[x].next \in DOMAIN h
    BY <1>3 DEF MarkOf, Tiling
  <2>2. ~(h[x].free /\ h[h[x].next].free)
    BY <2>1 DEF Apart
  <2> QED BY <1>3, <2>1, <2>2 DEF MarkOf
<1>6. Merges(k, g) /\ Apart(g)
  BY <1>1, <1>3, <1>4, <1>5, CoalesceKeeps
<1>7. Used(g) = Used(h) \ {a}
  <2>1. ASSUME NEW x \in Used(g) PROVE x \in Used(h) \ {a}
    <3>1. x \in DOMAIN k /\ ~k[x].free
      BY <1>6, <2>1 DEF Used, Merges
    <3> QED BY <1>3, <3>1 DEF Used, MarkOf
  <2>2. ASSUME NEW x \in Used(h) \ {a} PROVE x \in Used(g)
    <3>1. x \in DOMAIN k /\ ~k[x].free
      BY <1>3, <2>2 DEF Used, MarkOf
    <3> QED BY <1>6, <3>1 DEF Used, Merges
  <2> QED BY <2>1, <2>2
<1>8. \A x \in Used(g) : g[x].size = h[x].size
  <2> SUFFICES ASSUME NEW x \in Used(g) PROVE g[x].size = h[x].size
    OBVIOUS
  <2>1. x \in DOMAIN h \ {a} /\ ~h[x].free
    BY <1>7 DEF Used
  <2>2. x \in DOMAIN k /\ ~k[x].free /\ k[x].size = h[x].size
    BY <1>3, <2>1 DEF MarkOf
  <2> QED BY <1>6, <2>2 DEF Merges
<1> QED BY <1>4, <1>6, <1>7, <1>8 DEF Returns, Merges

-----------------------------------------------------------------------------
(* The invariant                                                           *)

(* The accounts of a heap with headers h and callers' blocks given.        *)
Balanced(h, hp, given) ==
  /\ given \in [DOMAIN given -> Nat] /\ DOMAIN given = Used(h)
  /\ \A a \in Used(h) : h[a].size >= given[a]
  /\ hp.used_bytes = HeapSum(Used(h), h) /\ hp.alloc_count = Cardinality(Used(h))

FitInv ==
  /\ heap \in [initialized : BOOLEAN, used_bytes : Int, alloc_count : Int]
  /\ fit \in {"first", "best"}
  /\ IF heap.initialized THEN Tiling(hdr) /\ Apart(hdr) /\ Weight(hdr) = pool_size
     ELSE hdr = <<>>
  /\ Balanced(hdr, heap, held)
  /\ moving \subseteq Used(hdr)

LEMMA NoHeaders == DOMAIN <<>> = {}
OBVIOUS

LEMMA HeapStarts ==
  ASSUME HeapInit
  PROVE  FitInv
<1>1. hdr = <<>> /\ held = <<>> /\ moving = {} /\ fit \in {"first", "best"}
      /\ heap = [initialized |-> FALSE, used_bytes |-> 0, alloc_count |-> 0]
  BY DEF HeapInit
<1>2. Used(hdr) = {}
  BY <1>1, NoHeaders DEF Used
<1>3. DOMAIN held = {} /\ held \in [DOMAIN held -> Nat]
  BY <1>1, NoHeaders
<1>4. HeapSum(Used(hdr), hdr) = 0 /\ Cardinality(Used(hdr)) = 0
  BY <1>2, SumNone, FS_EmptySet
<1>5. ~heap.initialized /\ heap.used_bytes = 0 /\ heap.alloc_count = 0
      /\ heap \in [initialized : BOOLEAN, used_bytes : Int, alloc_count : Int]
  BY <1>1
<1> QED BY <1>1, <1>2, <1>3, <1>4, <1>5 DEF FitInv, Balanced

(* An allocation finds a chain that tiles the pool, the first one too.     *)
LEMMA PoolReady ==
  ASSUME FitInv
  PROVE  /\ Tiling(heap_pool_init) /\ Apart(heap_pool_init) /\ Weight(heap_pool_init) = pool_size
         /\ Used(heap_pool_init) = Used(hdr)
         /\ \A x \in Used(hdr) : heap_pool_init[x].size = hdr[x].size
<1>1. CASE heap.initialized
  BY <1>1 DEF heap_pool_init, FitInv
<1>2. CASE ~heap.initialized
  <2>1. PICK h : h = heap_pool_init
    OBVIOUS
  <2>2. PICK s \in Nat : s = pool_size - HDR_SIZE /\ s >= HEAP_ALIGN
    BY FitAssumption
  <2>3. PICK r : r = [prev |-> NULL, next |-> NULL, size |-> s, free |-> TRUE]
    OBVIOUS
  <2>4. h = [a \in {0} |-> r]
    BY <1>2, <2>1, <2>2, <2>3 DEF heap_pool_init
  <2>5. r \in Header /\ r.prev = NULL /\ r.next = NULL /\ r.size = s /\ r.free
    BY <2>3 DEF Header, NULL
  <2>6. DOMAIN h = {0} /\ h[0] = r /\ h \in [DOMAIN h -> Header]
    BY <2>4, <2>5
  <2>7. Tiling(h)
    <3>1. 0 \in 0..(pool_size - 1) /\ 0 + HDR_SIZE + s = pool_size
      BY <2>2, FitAssumption
    <3>2. s >= HEAP_ALIGN
      BY <2>2
    <3> QED BY <2>5, <2>6, <3>1, <3>2 DEF Tiling
  <2>8. Apart(h) /\ Used(h) = {}
    BY <2>5, <2>6 DEF Apart, Used
  <2>9. Weight(h) = pool_size
    <3>1. {} \cup {0} = DOMAIN h /\ h[0].size = s
      BY <2>5, <2>6
    <3>2. HeapSum({} \cup {0}, h) = HeapSum({}, h) + h[0].size
      BY <2>2, <3>1, SumAdd, FS_EmptySet
    <3>3. HeapSum({}, h) = 0
      BY SumNone
    <3>4. Cardinality(DOMAIN h) = 1
      BY <2>6, FS_Singleton
    <3> QED BY <2>2, <3>1, <3>2, <3>3, <3>4, FitAssumption DEF Weight
  <2>10. Used(hdr) = {}
    BY <1>2, NoHeaders DEF FitInv, Used
  <2> QED BY <2>1, <2>7, <2>8, <2>9, <2>10
<1> QED BY <1>1, <1>2

LEMMA UsedFinite ==
  ASSUME NEW h, Tiling(h)
  PROVE  IsFiniteSet(Used(h)) /\ \A a \in Used(h) : h[a].size \in Nat
<1>1. Used(h) \in SUBSET DOMAIN h
  BY DEF Used
<1> QED BY <1>1, TilingFinite, FS_Subset

(* The accounts after bytes for given are taken from block a.              *)
LEMMA TakeBalances ==
  ASSUME FitInv, NEW u \in Nat, u >= HEAP_ALIGN, NEW n \in Nat, u >= n,
         Fits(heap_pool_init, u) # {}, NEW a, a = Choice(heap_pool_init, u),
         hdr' = [heap_split(heap_pool_init, a, u) EXCEPT ![a].free = FALSE],
         heap' = [initialized |-> TRUE, used_bytes |-> heap.used_bytes + hdr'[a].size,
                  alloc_count |-> heap.alloc_count + 1],
         Hold(a, n), UNCHANGED fit
  PROVE  /\ heap.initialized' /\ Tiling(hdr') /\ Apart(hdr') /\ Weight(hdr') = pool_size
         /\ heap' \in [initialized : BOOLEAN, used_bytes : Int, alloc_count : Int]
         /\ Balanced(hdr', heap', held')
         /\ Used(hdr') = Used(hdr) \cup {a} /\ a \notin Used(hdr)
         /\ \A x \in Used(hdr) : hdr'[x].size = hdr[x].size
<1>1. PICK h : h = heap_pool_init
  OBVIOUS
<1>2. /\ Tiling(h) /\ Apart(h) /\ Weight(h) = pool_size /\ Used(h) = Used(hdr)
      /\ \A x \in Used(hdr) : h[x].size = hdr[x].size
  BY <1>1, PoolReady
<1>3. a \in Fits(h, u)
  BY <1>1, <1>2, ChoiceFits DEF FitInv
<1>4. PICK g : g = hdr'
  OBVIOUS
<1>5. Takes(h, g, a, u)
  BY <1>1, <1>2, <1>3, <1>4, TakeKeeps
<1>6. /\ Tiling(g) /\ Apart(g) /\ Weight(g) = pool_size
      /\ Used(g) = Used(hdr) \cup {a} /\ a \notin Used(hdr)
      /\ \A x \in Used(hdr) : g[x].size = hdr[x].size
  BY <1>2, <1>5 DEF Takes
<1>7. IsFiniteSet(Used(g)) /\ (\A x \in Used(g) : g[x].size \in Nat) /\ IsFiniteSet(Used(hdr))
  BY <1>2, <1>6, UsedFinite
<1>8. PICK s \in Nat, k \in Int, c \in Int : s = g[a].size /\ k = heap.used_bytes /\ c = heap.alloc_count
  BY <1>6, <1>7 DEF FitInv
<1>9. HeapSum(Used(g), g) = k + s
  <2>1. HeapSum(Used(hdr), g) = k
    BY <1>6, <1>8, SumLocal DEF FitInv, Balanced
  <2> QED BY <1>6, <1>7, <1>8, <2>1, SumAdd
<1>10. Cardinality(Used(g)) = c + 1
  BY <1>6, <1>7, <1>8, FS_AddElement DEF FitInv, Balanced
<1>11. heap' = [initialized |-> TRUE, used_bytes |-> k + s, alloc_count |-> c + 1]
  BY <1>4, <1>8
<1>12. /\ heap.initialized' /\ heap.used_bytes' = k + s /\ heap.alloc_count' = c + 1
       /\ heap' \in [initialized : BOOLEAN, used_bytes : Int, alloc_count : Int]
  BY <1>11
<1>13. held' \in [Used(g) -> Nat] /\ \A x \in Used(g) : g[x].size >= held'[x]
  <2>1. held \in [Used(hdr) -> Nat] /\ \A x \in Used(hdr) : hdr[x].size >= held[x]
    BY DEF FitInv, Balanced
  <2>2. held' = [x \in Used(g) |-> IF x = a THEN n ELSE held[x]]
    BY <1>6, <2>1 DEF Hold
  <2>3. held' \in [Used(g) -> Nat]
    BY <1>6, <2>1, <2>2
  <2>4. held'[a] = n /\ g[a].size >= n
    <3>1. g[a].size >= u
      BY <1>5 DEF Takes
    <3> QED BY <1>6, <1>8, <2>2, <3>1
  <2>5. ASSUME NEW x \in Used(hdr) PROVE g[x].size >= held'[x]
    BY <1>6, <2>1, <2>2
  <2> QED BY <1>6, <2>3, <2>4, <2>5
<1>14. Balanced(g, heap', held')
  <2>1. DOMAIN held' = Used(g)
    BY <1>13
  <2> QED BY <1>9, <1>10, <1>12, <1>13, <2>1 DEF Balanced
<1> QED BY <1>4, <1>6, <1>12, <1>14

(* The accounts after block a is given back.                               *)
LEMMA ReturnBalances ==
  ASSUME FitInv, NEW a \in Used(hdr), Return(a), Drop(a)
  PROVE  /\ heap.initialized' /\ Tiling(hdr') /\ Apart(hdr') /\ Weight(hdr') = pool_size
         /\ heap' \in [initialized : BOOLEAN, used_bytes : Int, alloc_count : Int]
         /\ Balanced(hdr', heap', held')
         /\ Used(hdr') = Used(hdr) \ {a}
         /\ \A x \in Used(hdr') : hdr'[x].size = hdr[x].size
<1>1. heap.initialized
  BY NoHeaders DEF FitInv, Used
<1>2. Tiling(hdr) /\ Apart(hdr) /\ Weight(hdr) = pool_size
  BY <1>1 DEF FitInv
<1>3. PICK g : g = hdr'
  OBVIOUS
<1>4. Returns(hdr, g, a)
  BY <1>2, <1>3, FreeKeeps DEF Return
<1>5. /\ Tiling(g) /\ Apart(g) /\ Weight(g) = pool_size /\ Used(g) = Used(hdr) \ {a}
      /\ \A x \in Used(g) : g[x].size = hdr[x].size
  BY <1>2, <1>4 DEF Returns
<1>6. IsFiniteSet(Used(g)) /\ (\A x \in Used(hdr) : hdr[x].size \in Nat) /\ IsFiniteSet(Used(hdr))
  BY <1>2, <1>5, UsedFinite
<1>7. PICK s \in Nat, k \in Int, c \in Int : s = hdr[a].size /\ k = heap.used_bytes /\ c = heap.alloc_count
  BY <1>6 DEF FitInv
<1>8. HeapSum(Used(g), g) = k - s
  <2>1. HeapSum(Used(g), g) = HeapSum(Used(g), hdr)
    BY <1>5, SumLocal
  <2>2. Used(hdr) = Used(g) \cup {a} /\ a \notin Used(g)
    BY <1>5
  <2>3. HeapSum(Used(g) \cup {a}, hdr) = HeapSum(Used(g), hdr) + s
    BY <1>6, <1>7, <2>2, SumAdd
  <2>4. HeapSum(Used(g), hdr) \in Int
    BY <1>6, <2>2, SumType
  <2>5. HeapSum(Used(hdr), hdr) = k
    BY <1>7 DEF FitInv, Balanced
  <2> QED BY <1>7, <2>1, <2>2, <2>3, <2>4, <2>5
<1>9. Cardinality(Used(g)) = c - 1
  BY <1>5, <1>6, <1>7, FS_RemoveElement DEF FitInv, Balanced
<1>10. heap' = [heap EXCEPT !.used_bytes = k - s, !.alloc_count = c - 1]
  BY <1>7 DEF Return
<1>11. /\ heap.initialized' /\ heap.used_bytes' = k - s /\ heap.alloc_count' = c - 1
       /\ heap' \in [initialized : BOOLEAN, used_bytes : Int, alloc_count : Int]
  <2>1. PICK p \in Int, q \in Int : p = k - s /\ q = c - 1
    OBVIOUS
  <2>2. PICK r \in [initialized : BOOLEAN, used_bytes : Int, alloc_count : Int] : r = heap
    BY DEF FitInv
  <2>3. heap' = [r EXCEPT !.used_bytes = p, !.alloc_count = q]
    BY <1>10, <2>1, <2>2
  <2>4. /\ heap.initialized' = r.initialized /\ heap.used_bytes' = p /\ heap.alloc_count' = q
        /\ heap' \in [initialized : BOOLEAN, used_bytes : Int, alloc_count : Int]
    BY <2>3
  <2> QED BY <1>1, <2>1, <2>2, <2>4
<1>12. held' \in [Used(g) -> Nat] /\ \A x \in Used(g) : g[x].size >= held'[x]
  <2>1. held \in [Used(hdr) -> Nat] /\ \A x \in Used(hdr) : hdr[x].size >= held[x]
    BY DEF FitInv, Balanced
  <2>2. held' = [x \in Used(g) |-> held[x]]
    BY <1>5, <2>1 DEF Drop
  <2> QED BY <1>5, <2>1, <2>2
<1>13. Balanced(g, heap', held')
  <2>1. DOMAIN held' = Used(g)
    BY <1>12
  <2> QED BY <1>8, <1>9, <1>11, <1>12, <2>1 DEF Balanced
<1> QED BY <1>3, <1>5, <1>11, <1>13

(* No held block is moved, resized or freed.                               *)
Steady == \A x \in Used(hdr) : x \in Used(hdr)' => hdr'[x].size = hdr[x].size

LEMMA GrantKeeps ==
  ASSUME FitInv, NEW n \in Nat, n > 0, n <= HeapMod - HEAP_ALIGN, Grant(n, n)
  PROVE  FitInv' /\ Steady
<1>1. UNCHANGED <<fit, moving>>
  BY DEF Grant
<1>2. PICK u \in Nat : u = HEAP_ALIGN_UP(n) /\ u >= n /\ u >= HEAP_ALIGN
  BY RoundsUp
<1>3. CASE ~AllocFails(n) /\ LET a == Choice(heap_pool_init, u) IN Take(a, n) /\ Hold(a, n)
  <2>1. PICK a : a = Choice(heap_pool_init, u)
    OBVIOUS
  <2>2. /\ Fits(heap_pool_init, u) # {} /\ Hold(a, n)
        /\ hdr' = [heap_split(heap_pool_init, a, u) EXCEPT ![a].free = FALSE]
        /\ heap' = [initialized |-> TRUE, used_bytes |-> heap.used_bytes + hdr'[a].size,
                    alloc_count |-> heap.alloc_count + 1]
    BY <1>2, <1>3, <2>1 DEF AllocFails, Take
  <2>3. /\ heap.initialized' /\ Tiling(hdr') /\ Apart(hdr') /\ Weight(hdr') = pool_size
        /\ heap' \in [initialized : BOOLEAN, used_bytes : Int, alloc_count : Int]
        /\ Balanced(hdr', heap', held')
        /\ Used(hdr') = Used(hdr) \cup {a} /\ a \notin Used(hdr)
        /\ \A x \in Used(hdr) : hdr'[x].size = hdr[x].size
    BY <1>1, <1>2, <2>1, <2>2, TakeBalances
  <2> QED BY <1>1, <2>3 DEF FitInv, Steady
<1>4. CASE /\ AllocFails(n)
           /\ hdr' = heap_pool_init /\ heap' = [heap EXCEPT !.initialized = TRUE]
           /\ UNCHANGED held
  <2>1. /\ Tiling(hdr') /\ Apart(hdr') /\ Weight(hdr') = pool_size
        /\ Used(hdr') = Used(hdr)
        /\ \A x \in Used(hdr) : hdr'[x].size = hdr[x].size
    BY <1>4, PoolReady
  <2>2. /\ heap.initialized' /\ heap' \in [initialized : BOOLEAN, used_bytes : Int, alloc_count : Int]
        /\ heap.used_bytes' = heap.used_bytes /\ heap.alloc_count' = heap.alloc_count
    BY <1>4 DEF FitInv
  <2>3. HeapSum(Used(hdr'), hdr') = HeapSum(Used(hdr), hdr)
    BY <2>1, SumLocal
  <2>4. Balanced(hdr', heap', held')
    BY <1>4, <2>1, <2>2, <2>3 DEF FitInv, Balanced
  <2> QED BY <1>1, <2>1, <2>2, <2>4 DEF FitInv, Steady
<1> QED BY <1>2, <1>3, <1>4 DEF Grant

LEMMA GiveBackKeeps ==
  ASSUME FitInv, NEW a \in Used(hdr), Return(a), Drop(a), moving' = moving \ {a}
  PROVE  FitInv' /\ Steady
<1>1. UNCHANGED fit
  BY DEF Return
<1>2. /\ heap.initialized' /\ Tiling(hdr') /\ Apart(hdr') /\ Weight(hdr') = pool_size
      /\ heap' \in [initialized : BOOLEAN, used_bytes : Int, alloc_count : Int]
      /\ Balanced(hdr', heap', held')
      /\ Used(hdr') = Used(hdr) \ {a}
      /\ \A x \in Used(hdr') : hdr'[x].size = hdr[x].size
  BY ReturnBalances
<1> QED BY <1>1, <1>2 DEF FitInv, Steady

LEMMA ReallocKeeps ==
  ASSUME FitInv, NEW a, NEW n \in Nat, n > 0, n <= HeapMod - HEAP_ALIGN, vibe_heap_realloc(a, n)
  PROVE  FitInv' /\ Steady
<1>1. a \in Used(hdr) /\ UNCHANGED fit
  BY DEF vibe_heap_realloc, FitInv, Balanced
<1>2. heap.initialized /\ Tiling(hdr) /\ Apart(hdr) /\ Weight(hdr) = pool_size
  BY <1>1, NoHeaders DEF FitInv, Used
<1>3. PICK u \in Nat : u = HEAP_ALIGN_UP(n) /\ u >= n /\ u >= HEAP_ALIGN
  BY RoundsUp
<1>4. CASE u <= hdr[a].size /\ held' = [held EXCEPT ![a] = n] /\ UNCHANGED <<hdr, heap, moving>>
  <2>1. hdr[a].size >= n
    <3>1. hdr[a].size \in Nat
      BY <1>1, <1>2, UsedFinite
    <3> QED BY <1>3, <1>4, <3>1
  <2>2. held \in [Used(hdr) -> Nat] /\ \A x \in Used(hdr) : hdr[x].size >= held[x]
    BY DEF FitInv, Balanced
  <2>3. held' \in [Used(hdr) -> Nat] /\ \A x \in Used(hdr) : hdr[x].size >= held'[x]
    BY <1>1, <1>4, <2>1, <2>2
  <2>4. Balanced(hdr, heap, held')
    BY <2>3 DEF FitInv, Balanced
  <2> QED BY <1>1, <1>4, <2>4 DEF FitInv, Steady
<1>5. CASE /\ ~AllocFails(n)
           /\ LET b == Choice(hdr, u) IN Take(b, n) /\ Hold(b, n)
           /\ moving' = moving \cup {a}
  <2>1. hdr = heap_pool_init
    BY <1>2 DEF heap_pool_init
  <2>2. PICK b : b = Choice(heap_pool_init, u)
    OBVIOUS
  <2>3. /\ Fits(heap_pool_init, u) # {} /\ Hold(b, n)
        /\ hdr' = [heap_split(heap_pool_init, b, u) EXCEPT ![b].free = FALSE]
        /\ heap' = [initialized |-> TRUE, used_bytes |-> heap.used_bytes + hdr'[b].size,
                    alloc_count |-> heap.alloc_count + 1]
    BY <1>3, <1>5, <2>1, <2>2 DEF AllocFails, Take
  <2>4. /\ heap.initialized' /\ Tiling(hdr') /\ Apart(hdr') /\ Weight(hdr') = pool_size
        /\ heap' \in [initialized : BOOLEAN, used_bytes : Int, alloc_count : Int]
        /\ Balanced(hdr', heap', held')
        /\ Used(hdr') = Used(hdr) \cup {b} /\ b \notin Used(hdr)
        /\ \A x \in Used(hdr) : hdr'[x].size = hdr[x].size
    BY <1>1, <1>3, <2>2, <2>3, TakeBalances
  <2> QED BY <1>1, <1>5, <2>4 DEF FitInv, Steady
<1> QED BY <1>3, <1>4, <1>5 DEF vibe_heap_realloc

LEMMA HeapStep ==
  ASSUME RequestsFit, FitInv, [FitNext]_heapvars
  PROVE  FitInv' /\ Steady
<1>1. \A n \in Request : n \in Nat /\ n > 0 /\ n <= HeapMod - HEAP_ALIGN
  BY FitAssumption DEF RequestsFit
<1>2. DOMAIN held = Used(hdr)
  BY DEF FitInv, Balanced
<1>3. CASE \E n \in Request : vibe_heap_alloc(n)
  BY <1>1, <1>3, GrantKeeps DEF vibe_heap_alloc
<1>4. CASE \E c \in Callocs : vibe_heap_calloc(c[1], c[2])
  <2>1. PICK c \in Callocs : vibe_heap_calloc(c[1], c[2])
    BY <1>4
  <2>2. PICK p \in Nat, q \in Nat, M \in Nat \ {0} : p = c[1] /\ q = c[2] /\ M = HeapMod
    BY FitAssumption
  <2>3. /\ p > 0 /\ q > 0 /\ p <= (M - 1) \div q
        /\ Grant((p * q) % M, p * q)
    BY <2>1, <2>2 DEF vibe_heap_calloc
  <2>4. p * q <= M - HEAP_ALIGN
    BY <2>1, <2>2, <2>3 DEF RequestsFit
  <2>5. PICK m \in Nat : m = p * q /\ m > 0
    <3>1. p * q \in Nat /\ p * q > 0
      BY <2>2, <2>3, Z3
    <3> QED BY <3>1
  <2>6. m % M = m
    <3>1. m = M * 0 + m /\ m \in 0..(M - 1)
      BY <2>2, <2>4, <2>5, FitAssumption
    <3> QED BY <3>1, ModIs
  <2>7. Grant(m, m) /\ m <= HeapMod - HEAP_ALIGN
    BY <2>2, <2>3, <2>4, <2>5, <2>6
  <2> QED BY <2>5, <2>7, GrantKeeps
<1>5. CASE \E a \in DOMAIN held : vibe_heap_free(a) \/ ReallocFrees(a)
  <2>1. PICK a \in Used(hdr) : vibe_heap_free(a) \/ ReallocFrees(a)
    BY <1>2, <1>5
  <2>2. Return(a) /\ Drop(a) /\ moving' = moving \ {a}
    BY <2>1 DEF vibe_heap_free, ReallocFrees
  <2> QED BY <2>2, GiveBackKeeps
<1>6. CASE \E a \in DOMAIN held, n \in Request : vibe_heap_realloc(a, n)
  BY <1>1, <1>6, ReallocKeeps
<1>7. CASE UNCHANGED heapvars
  BY <1>7 DEF heapvars, FitInv, Balanced, Steady, Used
<1> QED BY <1>3, <1>4, <1>5, <1>6, <1>7 DEF FitNext

(* The parts of FitSound that say something of a state.                    *)
LEMMA HeapSays ==
  ASSUME FitInv
  PROVE  FitTiles /\ FitAccounts
<1>1. FitTiles
  <2> SUFFICES ASSUME heap.initialized PROVE FitTiles
    BY DEF FitTiles
  <2>1. Tiling(hdr) /\ Apart(hdr)
    BY DEF FitInv
  <2>2. /\ 0 \in DOMAIN hdr /\ hdr[0].prev = NULL
        /\ \A a \in DOMAIN hdr :
             /\ hdr[a].size >= HEAP_ALIGN
             /\ hdr[a].next = NULL => a + HDR_SIZE + hdr[a].size = pool_size
             /\ hdr[a].next # NULL => /\ hdr[a].next = a + HDR_SIZE + hdr[a].size
                                      /\ hdr[a].next \in DOMAIN hdr /\ hdr[hdr[a].next].prev = a
                                      /\ ~(hdr[a].free /\ hdr[hdr[a].next].free)
    BY <2>1 DEF Tiling, Apart
  <2> QED BY <2>2 DEF FitTiles
<1>2. Balanced(hdr, heap, held)
  BY DEF FitInv
<1> DEFINE D == DOMAIN hdr
           used == {a \in DOMAIN hdr : ~hdr[a].free}
           s == heap_walk_stats
<1>3. used = Used(hdr)
  BY DEF Used
<1>4. /\ s.used = HeapSum(used, hdr) /\ s.free = HeapSum(D \ used, hdr)
      /\ s.alloc_count = Cardinality(used) /\ s.free_count = Cardinality(D \ used)
  BY DEF heap_walk_stats
<1>5. heap.initialized => s.used + s.free + (s.alloc_count + s.free_count) * HDR_SIZE = pool_size
  <2> SUFFICES ASSUME heap.initialized
               PROVE  s.used + s.free + (s.alloc_count + s.free_count) * HDR_SIZE = pool_size
    OBVIOUS
  <2>1. Tiling(hdr) /\ Weight(hdr) = pool_size
    BY DEF FitInv
  <2>2. IsFiniteSet(D) /\ (\A a \in D : hdr[a].size \in Nat) /\ used \in SUBSET D
    BY <2>1, TilingFinite
  <2>3. HeapSum(used, hdr) + HeapSum(D \ used, hdr) = HeapSum(D, hdr)
    BY <2>2, SumSplit
  <2>4. Cardinality(used) + Cardinality(D \ used) = Cardinality(D)
    <3>1. IsFiniteSet(used) /\ IsFiniteSet(D \ used) /\ D \cap used = used
      BY <2>2, FS_Subset
    <3>2. Cardinality(D \ used) = Cardinality(D) - Cardinality(used)
      BY <2>2, <3>1, FS_Difference
    <3>3. Cardinality(D) \in Nat /\ Cardinality(used) \in Nat
      BY <2>2, <3>1, FS_CardinalityType
    <3> QED BY <3>2, <3>3
  <2> QED BY <1>4, <2>1, <2>3, <2>4 DEF Weight
<1>6. FitAccounts
  <2>1. s.used = heap.used_bytes /\ s.alloc_count = heap.alloc_count
    BY <1>2, <1>3, <1>4 DEF Balanced
  <2>2. DOMAIN held = used /\ \A a \in DOMAIN held : hdr[a].size >= held[a]
    BY <1>2, <1>3 DEF Balanced
  <2> HIDE DEF s
  <2> QED BY <1>5, <2>1, <2>2 DEF FitAccounts, s
<1> QED BY <1>1, <1>6

(* For pools, alignments and requests of any size, as long as rounding a   *)
(* request up does not wrap size_t, the chain of the first-fit and         *)
(* best-fit heaps tiles the pool, accounts for what callers hold, and no   *)
(* call moves, resizes or frees a block another caller holds.              *)
THEOREM HeapsTile == ASSUME RequestsFit PROVE FitSpec => FitSound
<1>1. HeapInit => FitInv
  BY HeapStarts
<1>2. FitInv /\ [FitNext]_heapvars => FitInv' /\ Steady
  BY HeapStep
<1>3. FitInv => FitTiles /\ FitAccounts
  BY HeapSays
<1> DEFINE Stay == \A a \in DOMAIN held : a \in DOMAIN held' =>
                     a \in DOMAIN hdr' /\ hdr'[a].size = hdr[a].size /\ ~hdr'[a].free
<1>4. FitInv /\ FitInv' /\ Steady => Stay
  <2> SUFFICES ASSUME FitInv, FitInv', Steady PROVE Stay
    OBVIOUS
  <2>1. DOMAIN held = Used(hdr) /\ DOMAIN held' = Used(hdr')
    BY DEF FitInv, Balanced
  <2>2. \A a \in Used(hdr') : a \in DOMAIN hdr' /\ ~hdr'[a].free
    BY DEF Used
  <2> QED BY <2>1, <2>2 DEF Steady
<1> HIDE DEF Stay
<1>5. FitSpec => [](FitTiles /\ FitAccounts) /\ [][Stay]_heapvars
  BY <1>1, <1>2, <1>3, <1>4, PTL DEF FitSpec
<1> QED BY <1>5 DEF FitSound, FitStable, Stay

-----------------------------------------------------------------------------
(* The TLSF heap                                                           *)

-----------------------------------------------------------------------------
(* TLSF: powers of two                                                     *)

(* TwoTo doubles.                                                          *)
LEMMA TwoToIs ==
  /\ TwoTo[0] = 1
  /\ \A n \in 1..TlsfBits : n - 1 \in 0..TlsfBits /\ TwoTo[n] = 2 * TwoTo[n - 1]
  /\ \A n \in 0..TlsfBits : TwoTo[n] \in Nat \ {0}
<1>0. PICK N \in Nat : N = TlsfBits
  BY TlsfAssumption
<1> DEFINE F(w) == [n \in 0..TlsfBits |-> IF n = 0 THEN 1 ELSE 2 * w[n - 1]]
           p == CHOOSE f : f = F(f)
           G == [x \in (1..N) \X Nat |-> 2 * x[2]]
<1>1. G \in [(1..N) \X Nat -> Nat]
  OBVIOUS
<1>2. PICK q : Recurses(N, Nat, 1, G, q)
  BY <1>1, Recursion
<1>3. q = F(q)
  <2>1. ASSUME NEW k \in 1..N PROVE q[k] = 2 * q[k - 1]
    <3>1. PICK y \in Nat : y = q[k - 1]
      BY <1>2 DEF Recurses
    <3>2. q[k] = G[<<k, y>>]
      BY <1>2, <3>1 DEF Recurses
    <3> QED BY <3>1, <3>2
  <2>2. \A k \in 0..N : k = 0 \/ k \in 1..N
    OBVIOUS
  <2> QED BY <1>0, <1>2, <2>1, <2>2 DEF Recurses
<1>4. p = F(p)
  BY <1>3, Zenon
<1>5. TwoTo = p
  BY DEF TwoTo
<1> HIDE DEF p
<1>6. p[0] = 1 /\ \A n \in 1..N : n - 1 \in 0..N /\ p[n] = 2 * p[n - 1]
  <2>1. \A n \in 1..N : n \in 0..N /\ n - 1 \in 0..N /\ n # 0
    OBVIOUS
  <2>2. 0 \in 0..N
    OBVIOUS
  <2> QED BY <1>0, <1>4, <2>1, <2>2
<1>7. \A n \in 0..N : p[n] \in Nat \ {0}
  <2> DEFINE T == {n \in Nat : p[n] \in Nat \ {0}}
  <2>1. 0 \in T
    BY <1>6
  <2>2. \A n \in 1..N : n - 1 \in T => n \in T
    BY <1>6
  <2> HIDE DEF T
  <2>3. \A n \in 0..N : n \in T
    BY <2>1, <2>2, Upward
  <2> QED BY <2>3 DEF T
<1> QED BY <1>0, <1>5, <1>6, <1>7

(* Exponents add up,                                                       *)
LEMMA TwoToSum ==
  ASSUME NEW i \in Nat, NEW j \in Nat, i + j <= TlsfBits
  PROVE  TwoTo[i + j] = TwoTo[i] * TwoTo[j]
<1>0. TlsfBits \in Nat
  BY TlsfAssumption
<1>1. PICK b \in Nat : b = TwoTo[i]
  <2>1. i \in 0..TlsfBits
    BY <1>0
  <2> QED BY <2>1, TwoToIs
<1> DEFINE T == {n \in Nat : TwoTo[i + n] = b * TwoTo[n]}
<1>2. 0 \in T
  <2>1. i + 0 = i /\ b * 1 = b
    OBVIOUS
  <2> QED BY <1>1, <2>1, TwoToIs
<1>3. ASSUME NEW n \in 1..j, n - 1 \in T PROVE n \in T
  <2>1. n \in 1..TlsfBits /\ i + n \in 1..TlsfBits /\ (i + n) - 1 = i + (n - 1) /\ n - 1 \in 0..TlsfBits
    BY <1>0
  <2>2. PICK x \in Nat : x = TwoTo[n - 1]
    BY <2>1, TwoToIs
  <2>3. TwoTo[n] = 2 * x /\ TwoTo[i + n] = 2 * TwoTo[i + (n - 1)]
    BY <2>1, <2>2, TwoToIs
  <2>4. TwoTo[i + (n - 1)] = b * x
    BY <1>3, <2>2
  <2>5. 2 * (b * x) = b * (2 * x)
    BY Z3
  <2> QED BY <2>3, <2>4, <2>5
<1> HIDE DEF T
<1>4. j \in 0..j
  OBVIOUS
<1>5. j \in T
  BY <1>2, <1>3, <1>4, Upward
<1> QED BY <1>1, <1>5 DEF T

(* and a larger one makes the power no smaller.                            *)
LEMMA TwoToGrows ==
  ASSUME NEW i \in Nat, NEW j \in Nat, i <= j, j <= TlsfBits
  PROVE  TwoTo[i] <= TwoTo[j]
<1>0. TlsfBits \in Nat
  BY TlsfAssumption
<1>1. PICK d \in Nat : j = i + d
  <2>1. j - i \in Nat /\ j = i + (j - i)
    OBVIOUS
  <2> QED BY <2>1
<1>2. TwoTo[j] = TwoTo[i] * TwoTo[d]
  BY <1>1, TwoToSum
<1>3. PICK x \in Nat \ {0}, y \in Nat \ {0} : x = TwoTo[i] /\ y = TwoTo[d]
  <2>1. i \in 0..TlsfBits /\ d \in 0..TlsfBits
    BY <1>0, <1>1
  <2> QED BY <2>1, TwoToIs
<1>4. x <= x * y
  BY Z3
<1> QED BY <1>2, <1>3, <1>4

(* 31 - __builtin_clz: the position of the highest bit.                    *)
LEMMA Log2Is ==
  ASSUME NEW n \in Nat, n > 0, n < TlsfMod
  PROVE  /\ Log2(n) \in Nat /\ Log2(n) < TlsfBits /\ Log2(n) + 1 \in Nat
         /\ TwoTo[Log2(n)] <= n /\ n < TwoTo[Log2(n) + 1]
<1>0. TlsfBits \in Nat /\ 0 \in 0..TlsfBits
  BY TlsfAssumption
<1> DEFINE T == {k \in 0..TlsfBits : n < TwoTo[k]}
<1>1. PICK x \in T : \A y \in T : x <= y
  <2>1. TlsfBits \in T
    BY <1>0 DEF TlsfMod
  <2>2. T \in SUBSET Nat
    OBVIOUS
  <2> HIDE DEF T
  <2> QED BY <2>1, <2>2, LeastNumber
<1>2. x # 0
  BY TwoToIs
<1>3. x - 1 \in 0..(TlsfBits - 1) /\ x - 1 \in 0..TlsfBits /\ (x - 1) + 1 = x /\ ~(x <= x - 1)
  BY <1>0, <1>1, <1>2
<1>4. TwoTo[x - 1] \in Nat /\ ~(n < TwoTo[x - 1])
  BY <1>1, <1>3, TwoToIs
<1>5. \E k \in 0..(TlsfBits - 1) : TwoTo[k] <= n /\ n < TwoTo[k + 1]
  <2>1. TwoTo[x - 1] <= n /\ n < TwoTo[(x - 1) + 1]
    BY <1>1, <1>3, <1>4
  <2> QED BY <1>3, <2>1, Zenon
<1>6. Log2(n) \in 0..(TlsfBits - 1) /\ TwoTo[Log2(n)] <= n /\ n < TwoTo[Log2(n) + 1]
  BY <1>5, Zenon DEF Log2
<1> HIDE DEF T
<1> QED BY <1>0, <1>6

-----------------------------------------------------------------------------
(* TLSF: size classes                                                      *)

(* Rounding up to a multiple of W: enough, no more than needed for a       *)
(* multiple W * t that is large enough, and within the word.               *)
RoundsTo(M, W, n, u) ==
  /\ (((n + W - 1) % M) \div W) * W = W * u /\ n <= W * u
  /\ \A t \in Nat : n <= W * t => u <= t

LEMMA RoundUp ==
  ASSUME NEW W \in Nat \ {0}, NEW n \in Nat, NEW M \in Nat \ {0}, n + W - 1 < M
  PROVE  \E u \in Nat : RoundsTo(M, W, n, u)
<1>1. PICK m \in Nat : m = n + W - 1
  <2>1. n + W - 1 \in Nat
    OBVIOUS
  <2> QED BY <2>1
<1>2. m % M = m
  <2>1. 0 \in Int /\ m \in 0..(M - 1) /\ m = M * 0 + m
    BY <1>1
  <2> QED BY <2>1, ModIs
<1>3. PICK u, v : u = m \div W /\ v = m % W
  OBVIOUS
<1>4. u \in Int /\ v \in 0..(W - 1) /\ m = W * u + v
  BY <1>3, DivOf
<1>5. u \in Nat
  <2>1. CASE u < 0
    <3>1. W * u \in Int /\ W * u <= -W
      BY <1>4, <2>1, Z3
    <3> QED BY <1>4, <3>1
  <2> QED BY <1>4, <2>1
<1>6. PICK y \in Nat : y = W * u
  <2>1. W * u \in Nat
    BY <1>5, Z3
  <2> QED BY <2>1
<1>7. n <= y /\ y <= n + W - 1
  BY <1>1, <1>4, <1>6
<1>8. ASSUME NEW t \in Nat, n <= W * t PROVE u <= t
  <2>1. CASE u > t
    <3>1. u >= t + 1
      BY <1>5, <2>1
    <3>2. W * u >= W * (t + 1)
      BY <1>5, <3>1, Z3
    <3>3. PICK z \in Nat : z = W * t /\ W * (t + 1) = z + W
      <4>1. W * t \in Nat /\ W * (t + 1) = W * t + W
        BY Z3
      <4> QED BY <4>1
    <3> QED BY <1>6, <1>7, <1>8, <3>2, <3>3
  <2> QED BY <1>5, <2>1
<1>9. u * W = W * u
  BY <1>5, Z3
<1>10. (((n + W - 1) % M) \div W) * W = W * u
  BY <1>1, <1>2, <1>3, <1>9
<1>11. RoundsTo(M, W, n, u)
  BY <1>6, <1>7, <1>8, <1>10 DEF RoundsTo
<1> QED BY <1>5, <1>11

(* A number with at least the quotient of W * u is no smaller.             *)
LEMMA QuotientOrder ==
  ASSUME NEW W \in Nat \ {0}, NEW u \in Nat, NEW s \in Nat, s \div W >= u
  PROVE  W * u <= s
<1>1. PICK q, r : q = s \div W /\ r = s % W
  OBVIOUS
<1>2. q \in Int /\ r \in 0..(W - 1) /\ s = W * q + r /\ q >= u
  BY <1>1, DivOf
<1>3. W * q >= W * u /\ W * q \in Int /\ W * u \in Int
  BY <1>2, Z3
<1> QED BY <1>2, <1>3

(* That of a number below W * u is below u.                                *)
LEMMA QuotientIn ==
  ASSUME NEW W \in Nat \ {0}, NEW u \in Nat, NEW s \in Nat, s < W * u
  PROVE  s \div W \in 0..(u - 1)
<1>1. PICK q, r : q = s \div W /\ r = s % W
  OBVIOUS
<1>2. q \in Int /\ r \in 0..(W - 1) /\ s = W * q + r
  BY <1>1, DivOf
<1>3. q < u
  <2>1. CASE q >= u
    BY <1>1, <2>1, QuotientOrder
  <2> QED BY <1>2, <2>1
<1>4. q >= 0
  <2>1. CASE q < 0
    <3>1. W * q <= -W /\ W * q \in Int
      BY <1>2, <2>1, Z3
    <3> QED BY <1>2, <3>1
  <2> QED BY <1>2, <2>1
<1> QED BY <1>1, <1>2, <1>3, <1>4

LEMMA QuotientIs ==
  ASSUME NEW W \in Nat \ {0}, NEW u \in Nat
  PROVE  (W * u) \div W = u
<1>1. W * u \in Int /\ W * u = W * u + 0 /\ 0 \in 0..(W - 1)
  BY Z3
<1>2. PICK a \in Int : a = W * u /\ a = W * u + 0
  BY <1>1
<1> QED BY <1>1, <1>2, DivIs

(* What the mapping of a size that is rounded up looks like.               *)
LEMMA RoundedIs ==
  ASSUME NEW n \in Nat, n >= SmallLimit, n <= TwoTo[TlsfBits - 1]
  PROVE  \E m \in Nat, M \in Nat, V \in Nat \ {0}, u \in Nat :
           /\ m = round_up_size(n) /\ n <= m /\ m < TlsfMod /\ M = Log2(m) /\ V = TwoTo[M - SL_INDEX_COUNT_LOG2]
           /\ m = V * u /\ m >= SmallLimit /\ M >= FL_INDEX_SHIFT + SL_INDEX_COUNT_LOG2
           /\ M < TlsfBits /\ m < TwoTo[M + 1]
<1>0. PICK B \in Nat, F \in Nat \ {0}, G \in Nat \ {0} :
        B = TlsfBits /\ F = FL_INDEX_SHIFT /\ G = SL_INDEX_COUNT_LOG2 /\ F + G < B
  BY TlsfAssumption
<1>1. PICK H \in Nat \ {0}, S \in Nat \ {0} : H = TwoTo[B - 1] /\ S = SmallLimit /\ TlsfMod = 2 * H
  <2>1. B \in 1..B /\ B - 1 \in 0..B /\ F + G \in 0..B
    BY <1>0
  <2> QED BY <1>0, <2>1, TwoToIs DEF TlsfMod, SmallLimit
<1>2. PICK L \in Nat : L = Log2(n) /\ L < B /\ TwoTo[L] <= n /\ n < TwoTo[L + 1]
  <2>1. n > 0 /\ n < TlsfMod
    BY <1>0, <1>1
  <2> QED BY <1>0, <2>1, Log2Is
<1>3. L >= F + G
  <2>1. CASE L + 1 <= F + G
    <3>1. TwoTo[L + 1] <= TwoTo[F + G]
      BY <1>0, <2>1, TwoToGrows
    <3>2. TwoTo[L + 1] \in Nat /\ TwoTo[F + G] = S
      <4>1. L + 1 \in 0..B
        BY <1>0, <1>2
      <4> QED BY <1>0, <1>1, <4>1, TwoToIs DEF SmallLimit
    <3> QED BY <1>1, <1>2, <3>1, <3>2
  <2> QED BY <1>0, <1>2, <2>1
<1>4. PICK W \in Nat \ {0} : W = TwoTo[L - G]
  <2>1. L - G \in 0..B
    BY <1>0, <1>2, <1>3
  <2> QED BY <1>0, <2>1, TwoToIs
<1>5. PICK T1 \in Nat, T2 \in Nat : TwoTo[L + 1] = W * T1 /\ H = W * T2
  <2>1. L - G \in Nat /\ G + 1 \in Nat /\ (L - G) + (G + 1) = L + 1 /\ L + 1 <= B
        /\ (B - 1) - (L - G) \in Nat /\ (L - G) + ((B - 1) - (L - G)) = B - 1
    BY <1>0, <1>2, <1>3
  <2>2. TwoTo[L + 1] = W * TwoTo[G + 1]
    BY <1>0, <1>4, <2>1, TwoToSum
  <2>3. H = W * TwoTo[(B - 1) - (L - G)]
    <3>1. B - 1 <= B
      BY <1>0
    <3> QED BY <1>0, <1>1, <1>4, <2>1, <3>1, TwoToSum
  <2>4. TwoTo[G + 1] \in Nat /\ TwoTo[(B - 1) - (L - G)] \in Nat
    <3>1. G + 1 \in 0..B /\ (B - 1) - (L - G) \in 0..B
      BY <1>0, <1>2, <1>3
    <3> QED BY <1>0, <3>1, TwoToIs
  <2> QED BY <2>2, <2>3, <2>4, Zenon
<1>6. n + W - 1 < TlsfMod
  <2>1. TwoTo[L - G] <= TwoTo[B - 1]
    <3>1. L - G \in Nat /\ B - 1 \in Nat /\ L - G <= B - 1 /\ B - 1 <= B
      BY <1>0, <1>2, <1>3
    <3> QED BY <1>0, <3>1, TwoToGrows
  <2> QED BY <1>0, <1>1, <1>4, <2>1
<1>7. PICK u \in Nat : /\ (((n + W - 1) % TlsfMod) \div W) * W = W * u /\ n <= W * u
                       /\ \A t \in Nat : n <= W * t => u <= t
  <2>1. TlsfMod \in Nat \ {0}
    BY <1>1
  <2>2. PICK u \in Nat : RoundsTo(TlsfMod, W, n, u)
    BY <1>6, <2>1, RoundUp
  <2> QED BY <2>2, Zenon DEF RoundsTo
<1>8. PICK m \in Nat : m = W * u
  <2>1. W * u \in Nat
    BY Z3
  <2> QED BY <2>1
<1>9. round_up_size(n) = m
  <2>1. ~(n < SmallLimit)
    BY <1>1
  <2> QED BY <1>0, <1>2, <1>4, <1>7, <1>8, <2>1 DEF round_up_size
<1>10. n <= m /\ m <= H /\ m <= TwoTo[L + 1]
  <2>1. u <= T2
    BY <1>0, <1>1, <1>5, <1>7
  <2>2. n <= W * T1
    <3>1. W * T1 \in Int
      BY Z3
    <3> QED BY <1>2, <1>5, <3>1
  <2>3. u <= T1
    BY <1>7, <2>2
  <2>4. W * u <= W * T1 /\ W * u <= W * T2
    BY <2>1, <2>3, Z3
  <2> QED BY <1>5, <1>7, <1>8, <2>4
<1>11. PICK M \in Nat : M = Log2(m) /\ M < B /\ TwoTo[M] <= m /\ m < TwoTo[M + 1]
  <2>1. m > 0 /\ m < TlsfMod
    BY <1>1, <1>10
  <2> QED BY <1>0, <2>1, Log2Is
<1>12. TwoTo[L] \in Nat /\ TwoTo[L + 1] \in Nat /\ TwoTo[M] \in Nat /\ TwoTo[M + 1] \in Nat
  <2>1. L \in 0..B /\ L + 1 \in 0..B /\ M \in 0..B /\ M + 1 \in 0..B
    BY <1>0, <1>2, <1>11
  <2> QED BY <1>0, <2>1, TwoToIs
<1>13. M >= L
  <2>1. CASE M + 1 <= L
    <3>1. TwoTo[M + 1] <= TwoTo[L]
      BY <1>0, <1>2, <2>1, TwoToGrows
    <3> QED BY <1>2, <1>10, <1>11, <1>12, <3>1
  <2> QED BY <2>1
<1>14. PICK V \in Nat \ {0} : V = TwoTo[M - G]
  <2>1. M - G \in 0..B
    BY <1>0, <1>3, <1>11, <1>13
  <2> QED BY <1>0, <2>1, TwoToIs
<1>15. \E x \in Nat : m = V * x
  <2>1. CASE M = L
    BY <1>4, <1>8, <1>14, <2>1
  <2>2. CASE M > L
    <3>1. TwoTo[L + 1] <= TwoTo[M]
      BY <1>0, <1>11, <2>2, TwoToGrows
    <3>2. m = TwoTo[M]
      BY <1>10, <1>11, <1>12, <3>1
    <3>3. M - G \in Nat /\ (M - G) + G = M /\ M <= B
      BY <1>0, <1>3, <1>11, <1>13
    <3>4. TwoTo[M] = V * TwoTo[G]
      BY <1>0, <1>14, <3>3, TwoToSum
    <3>5. TwoTo[G] \in Nat
      <4>1. G \in 0..B
        BY <1>0
      <4> QED BY <1>0, <4>1, TwoToIs
    <3> QED BY <3>2, <3>4, <3>5
  <2> QED BY <1>13, <2>1, <2>2
<1>16. PICK x \in Nat : m = V * x
  BY <1>15
<1>17. m >= SmallLimit /\ m < TlsfMod /\ M >= F + G /\ n <= m
  BY <1>1, <1>3, <1>10, <1>13
<1>18. /\ m = round_up_size(n) /\ n <= m /\ m < TlsfMod /\ M = Log2(m) /\ V = TwoTo[M - SL_INDEX_COUNT_LOG2]
       /\ m = V * x /\ m >= SmallLimit /\ M >= FL_INDEX_SHIFT + SL_INDEX_COUNT_LOG2
       /\ M < TlsfBits /\ m < TwoTo[M + 1]
  BY <1>0, <1>9, <1>11, <1>14, <1>16, <1>17
<1> QED BY <1>18, Zenon

(* A block of a class at or above that of the rounded request is enough:   *)
(* locate_free need not look at sizes.                                     *)
ClassFrom(j, k) == (j[1] = k[1] /\ j[2] >= k[2]) \/ j[1] > k[1]

LEMMA ClassEnough ==
  ASSUME NEW q \in Nat, NEW n \in Nat, n = TlsfAlign * q, n <= TwoTo[TlsfBits - 1],
         NEW s \in Nat, s < TlsfMod, ClassFrom(mapping(s), mapping(round_up_size(n)))
  PROVE  s >= n
<1>0. PICK B \in Nat, F \in Nat \ {0}, G \in Nat \ {0}, A \in Nat \ {0} :
        B = TlsfBits /\ F = FL_INDEX_SHIFT /\ G = SL_INDEX_COUNT_LOG2 /\ F + G < B
        /\ A = TlsfAlign /\ TwoTo[F] = A
  BY TlsfAssumption
<1>1. PICK S \in Nat \ {0} : S = SmallLimit
  <2>1. F + G \in 0..B
    BY <1>0
  <2> QED BY <1>0, <2>1, TwoToIs DEF SmallLimit
<1>2. PICK k, j : k = mapping(round_up_size(n)) /\ j = mapping(s)
  OBVIOUS
<1>3. ClassFrom(j, k)
  BY <1>2
<1>4. s < S => j = <<0, s \div A>>
  BY <1>0, <1>1, <1>2 DEF mapping
<1>5. CASE n < S
  <2>1. k = <<0, n \div A>>
    BY <1>0, <1>1, <1>2, <1>5 DEF mapping, round_up_size
  <2>2. CASE s < S
    <3>1. s \div A >= n \div A
      <4>1. PICK x, y : x = s \div A /\ y = n \div A /\ j = <<0, x>> /\ k = <<0, y>>
        BY <1>4, <2>1, <2>2
      <4>2. x >= y
        BY <1>3, <4>1 DEF ClassFrom
      <4> QED BY <4>1, <4>2
    <3>2. n \div A = q
      BY <1>0, QuotientIs
    <3>3. A * q <= s
      BY <3>1, <3>2, QuotientOrder
    <3> QED BY <1>0, <3>3
  <2> QED BY <1>5, <2>2
<1>6. CASE ~(n < S)
  <2>1. PICK m \in Nat, M \in Nat, V \in Nat \ {0}, u \in Nat :
           /\ m = round_up_size(n) /\ n <= m /\ m < TlsfMod /\ M = Log2(m) /\ V = TwoTo[M - SL_INDEX_COUNT_LOG2]
           /\ m = V * u /\ m >= SmallLimit /\ M >= FL_INDEX_SHIFT + SL_INDEX_COUNT_LOG2
           /\ M < TlsfBits /\ m < TwoTo[M + 1]
    <3>1. n >= SmallLimit
      BY <1>1, <1>6
    <3> QED BY <3>1, RoundedIs
  <2>2. PICK D \in Nat : D = TwoTo[G]
    <3>1. G \in 0..B
      BY <1>0
    <3> QED BY <1>0, <3>1, TwoToIs
  <2>3. k = <<M - F, u - D>>
    <3>1. k = <<M - F, (m \div V) - D>>
      BY <1>0, <1>1, <1>2, <2>1, <2>2 DEF mapping
    <3>2. m \div V = u
      BY <2>1, QuotientIs
    <3> QED BY <3>1, <3>2
  <2>4. k[1] = M - F /\ k[2] = u - D /\ M - F >= G
    BY <1>0, <2>1, <2>3
  <2>5. CASE s < S
    <3>1. j[1] = 0
      BY <1>4, <2>5
    <3> QED BY <1>0, <1>3, <2>4, <3>1 DEF ClassFrom
  <2>6. CASE ~(s < S)
    <3>1. PICK Z \in Nat : Z = Log2(s) /\ Z < B /\ TwoTo[Z] <= s
      <4>1. s > 0
        BY <1>1, <2>6
      <4> QED BY <1>0, <4>1, Log2Is
    <3>2. j = <<Z - F, (s \div TwoTo[Z - G]) - D>>
      BY <1>0, <1>1, <1>2, <2>2, <2>6, <3>1 DEF mapping
    <3>3. CASE Z = M
      <4>1. PICK x \in Int : x = s \div V
        <5>1. s \div V \in Int
          BY DivOf
        <5> QED BY <5>1
      <4>2. j[1] = M - F /\ j[2] = x - D
        BY <1>0, <2>1, <3>2, <3>3, <4>1
      <4>3. x >= u
        BY <1>0, <1>3, <2>4, <4>2 DEF ClassFrom
      <4>4. V * u <= s
        BY <4>1, <4>3, QuotientOrder
      <4> QED BY <2>1, <4>4
    <3>4. CASE Z # M
      <4>1. Z > M
        <5>1. j[1] = Z - F
          BY <3>2
        <5> QED BY <1>0, <1>3, <2>4, <3>4, <5>1 DEF ClassFrom
      <4>2. TwoTo[M + 1] <= TwoTo[Z] /\ TwoTo[M + 1] \in Nat /\ TwoTo[Z] \in Nat
        <5>1. M + 1 <= Z /\ M + 1 \in 0..B /\ Z \in 0..B /\ M + 1 \in Nat /\ Z <= B
          BY <1>0, <3>1, <4>1
        <5> QED BY <1>0, <5>1, TwoToGrows, TwoToIs
      <4> QED BY <2>1, <3>1, <4>2
    <3> QED BY <3>3, <3>4
  <2> QED BY <2>5, <2>6
<1> QED BY <1>5, <1>6

-----------------------------------------------------------------------------
(* TLSF: the free lists                                                    *)

IsCtl(c) == c = [size |-> c.size, prev_phys |-> c.prev_phys, free |-> c.free,
                 prev_free |-> c.prev_free, list |-> c.list, sl |-> c.sl, fl |-> c.fl]

SameBlocks(g, c) == /\ g.size = c.size /\ g.prev_phys = c.prev_phys
                    /\ g.free = c.free /\ g.prev_free = c.prev_free

SameLists(g, c) == g.list = c.list /\ g.sl = c.sl /\ g.fl = c.fl

Holds(l, x) == \E i \in 1..Len(l) : l[i] = x

(* Every list is of its class, without repetitions, and the bitmaps name   *)
(* those that are not empty.                                               *)
Linked(c) ==
  /\ DOMAIN c.list = Classes
  /\ \A k \in Classes : c.list[k] \in Seq(Int) /\ Distinct(c.list[k])
  /\ \A k \in Classes : \A x : Holds(c.list[k], x) => mapping(c.size[x]) = k
  /\ c.sl = {k \in Classes : c.list[k] # <<>>} /\ c.fl = {k[1] : k \in c.sl}

LEMMA ListedIs ==
  ASSUME NEW c, Linked(c)
  PROVE  \A x : x \in Listed(c) <=> \E k \in Classes : Holds(c.list[k], x)
<1>1. \A k \in Classes : DOMAIN c.list[k] = 1..Len(c.list[k])
  BY DEF Linked
<1>2. ASSUME NEW x PROVE x \in Listed(c) <=> \E k \in Classes : Holds(c.list[k], x)
  <2>1. x \in Listed(c) <=> \E k \in Classes : x \in {c.list[k][i] : i \in DOMAIN c.list[k]}
    BY DEF Listed
  <2>2. ASSUME NEW k \in Classes PROVE x \in {c.list[k][i] : i \in DOMAIN c.list[k]} <=> Holds(c.list[k], x)
    <3>1. PICK l : l = c.list[k] /\ DOMAIN l = 1..Len(l)
      BY <1>1
    <3>2. x \in {l[i] : i \in DOMAIN l} <=> Holds(l, x)
      BY <3>1 DEF Holds
    <3> QED BY <3>1, <3>2
  <2> QED BY <2>1, <2>2
<1> QED BY <1>2

LEMMA HoldsNothing ==
  ASSUME NEW l \in Seq(Int)
  PROVE  l = <<>> <=> \A x : ~Holds(l, x)
<1>1. CASE l = <<>>
  <2>1. Len(l) = 0
    BY <1>1
  <2> QED BY <1>1, <2>1 DEF Holds
<1>2. CASE l # <<>>
  <2>1. 1 \in 1..Len(l)
    BY <1>2
  <2> QED BY <1>2, <2>1 DEF Holds
<1> QED BY <1>1, <1>2

(* What EXCEPT does to the control structure.                              *)
Inserted(g, c, k, t) ==
  /\ IsCtl(g) /\ SameBlocks(g, c) /\ g.list = [c.list EXCEPT ![k] = t]
  /\ g.sl = c.sl \cup {k} /\ g.fl = c.fl \cup {k[1]}

LEMMA InsertIs ==
  ASSUME NEW c, IsCtl(c), NEW a, NEW k, k = mapping(c.size[a]), k \in DOMAIN c.list,
         NEW t, t = <<a>> \o c.list[k], NEW g, g = free_list_insert(c, a)
  PROVE  Inserted(g, c, k, t)
BY DEF IsCtl, SameBlocks, free_list_insert, Inserted

Removed(g, c, k, l) ==
  /\ IsCtl(g) /\ SameBlocks(g, c) /\ g.list = [c.list EXCEPT ![k] = l]
  /\ g.sl = (IF l = <<>> THEN c.sl \ {k} ELSE c.sl)
  /\ g.fl = (IF \E j \in g.sl : j[1] = k[1] THEN c.fl ELSE c.fl \ {k[1]})

LEMMA RemoveIs ==
  ASSUME NEW c, IsCtl(c), NEW a, NEW k, k = mapping(c.size[a]), k \in DOMAIN c.list,
         NEW l, l = Remaining(c.list[k], {a}), NEW g, g = free_list_remove(c, a)
  PROVE  Removed(g, c, k, l)
<1>1. PICK s : s = IF l = <<>> THEN c.sl \ {k} ELSE c.sl
  OBVIOUS
<1>2. /\ IsCtl(g) /\ SameBlocks(g, c) /\ g.list = [c.list EXCEPT ![k] = l] /\ g.sl = s
      /\ g.fl = IF \E j \in s : j[1] = k[1] THEN c.fl ELSE c.fl \ {k[1]}
  BY <1>1 DEF IsCtl, SameBlocks, free_list_remove
<1> QED BY <1>1, <1>2 DEF Removed

(* A list after a block was put in front, or taken out.                    *)
Grown(t, l, a) == /\ t \in Seq(Int) /\ Distinct(t) /\ t # <<>>
                  /\ \A x : Holds(t, x) <=> Holds(l, x) \/ x = a

LEMMA HoldsCons ==
  ASSUME NEW l \in Seq(Int), Distinct(l), NEW a \in Int, ~Holds(l, a), NEW t, t = <<a>> \o l
  PROVE  Grown(t, l, a)
<1>1. /\ t \in Seq(Int) /\ Len(t) = Len(l) + 1 /\ t[1] = a
      /\ \A n \in 1..Len(l) : t[n + 1] = l[n]
  <2>1. InFront(t, Int, l, a)
    BY ConsIs, Zenon
  <2> QED BY <2>1 DEF InFront
<1>2. Len(l) \in Nat /\ t # <<>>
  BY <1>1
<1>3. \A i \in 1..Len(t) : i # 1 => i - 1 \in 1..Len(l) /\ t[i] = l[i - 1]
  <2> TAKE i \in 1..Len(t)
  <2> HAVE i # 1
  <2>1. i - 1 \in 1..Len(l) /\ (i - 1) + 1 = i
    BY <1>1, <1>2
  <2> QED BY <1>1, <2>1
<1>4. Distinct(t)
  <2> SUFFICES ASSUME NEW i \in 1..Len(t), NEW j \in 1..Len(t), t[i] = t[j] PROVE i = j
    BY DEF Distinct
  <2>1. i = 1 /\ j # 1 => FALSE
    BY <1>1, <1>3 DEF Holds
  <2>2. i # 1 /\ j = 1 => FALSE
    BY <1>1, <1>3 DEF Holds
  <2>3. i # 1 /\ j # 1 => i - 1 = j - 1
    BY <1>3 DEF Distinct
  <2>4. i \in Int /\ j \in Int
    OBVIOUS
  <2> QED BY <2>1, <2>2, <2>3, <2>4
<1>5. ASSUME NEW x PROVE Holds(t, x) <=> Holds(l, x) \/ x = a
  <2>1. ASSUME Holds(t, x) PROVE Holds(l, x) \/ x = a
    BY <1>1, <1>3, <2>1 DEF Holds
  <2>2. ASSUME Holds(l, x) PROVE Holds(t, x)
    <3>1. PICK n \in 1..Len(l) : l[n] = x
      BY <2>2 DEF Holds
    <3>2. n + 1 \in 1..Len(t)
      BY <1>1, <1>2
    <3> QED BY <1>1, <3>1, <3>2 DEF Holds
  <2>3. ASSUME x = a PROVE Holds(t, x)
    <3>1. 1 \in 1..Len(t)
      BY <1>1, <1>2
    <3> QED BY <1>1, <2>3, <3>1 DEF Holds
  <2> QED BY <2>1, <2>2, <2>3
<1> QED BY <1>1, <1>2, <1>4, <1>5 DEF Grown

Shrunk(t, l, a) == /\ t \in Seq(Int) /\ Distinct(t)
                   /\ \A x : Holds(t, x) <=> Holds(l, x) /\ x # a

LEMMA HoldsRest ==
  ASSUME NEW l \in Seq(Int), Distinct(l), NEW a, NEW t, t = Remaining(l, {a})
  PROVE  Shrunk(t, l, a)
<1>1. /\ Remaining(l, {a}) \in Seq(Int)
      /\ \A x : (\E k \in 1..Len(Remaining(l, {a})) : Remaining(l, {a})[k] = x)
                  <=> x \notin {a} /\ \E k \in 1..Len(l) : l[k] = x
      /\ (\A j, k \in 1..Len(l) : l[j] = l[k] => j = k)
           => \A j, k \in 1..Len(Remaining(l, {a})) :
                Remaining(l, {a})[j] = Remaining(l, {a})[k] => j = k
  BY RemainingIs, Zenon
<1>2. /\ t \in Seq(Int)
      /\ \A x : Holds(t, x) <=> x \notin {a} /\ Holds(l, x)
      /\ Distinct(l) => Distinct(t)
  BY <1>1, Zenon DEF Holds, Distinct
<1> QED BY <1>2 DEF Shrunk

(* What putting a block into the list of its class, or taking it out, does *)
(* to the blocks that are listed.                                          *)
Relisted(g, c, L) == IsCtl(g) /\ SameBlocks(g, c) /\ Linked(g) /\ Listed(g) = L

LEMMA ListInsert ==
  ASSUME NEW c, IsCtl(c), Linked(c), NEW a \in Int, mapping(c.size[a]) \in Classes, a \notin Listed(c),
         NEW g, g = free_list_insert(c, a)
  PROVE  Relisted(g, c, Listed(c) \cup {a})
<1>1. PICK k \in Classes : k = mapping(c.size[a])
  OBVIOUS
<1>2. PICK l : l = c.list[k]
  OBVIOUS
<1>3. PICK t : t = <<a>> \o l
  OBVIOUS
<1>4. k \in DOMAIN c.list /\ l \in Seq(Int) /\ Distinct(l) /\ ~Holds(l, a)
  BY <1>2, ListedIs DEF Linked
<1>5. Inserted(g, c, k, t)
  BY <1>1, <1>2, <1>3, <1>4, InsertIs, Zenon
<1>6. Grown(t, l, a)
  BY <1>3, <1>4, HoldsCons, Zenon
<1>7. DOMAIN g.list = Classes /\ \A j \in Classes : g.list[j] = IF j = k THEN t ELSE c.list[j]
  BY <1>5 DEF Linked, Inserted
<1>8. \A j \in Classes : g.list[j] \in Seq(Int) /\ Distinct(g.list[j])
  BY <1>6, <1>7 DEF Linked, Grown
<1>9. \A j \in Classes : \A x : Holds(g.list[j], x) <=> Holds(c.list[j], x) \/ (j = k /\ x = a)
  BY <1>2, <1>6, <1>7 DEF Grown
<1>10. PICK z : z = c.size /\ z = g.size
  BY <1>5 DEF Inserted, SameBlocks
<1>11. ASSUME NEW j \in Classes, NEW x, Holds(g.list[j], x) PROVE mapping(z[x]) = j
  <2>1. CASE Holds(c.list[j], x)
    BY <1>10, <2>1 DEF Linked
  <2>2. CASE j = k /\ x = a
    BY <1>1, <1>10, <2>2
  <2> QED BY <1>9, <1>11, <2>1, <2>2
<1>12. g.sl = {j \in Classes : g.list[j] # <<>>}
  BY <1>5, <1>6, <1>7 DEF Linked, Inserted, Grown
<1>13. g.fl = {j[1] : j \in g.sl}
  BY <1>5 DEF Linked, Inserted
<1>14. Linked(g)
  BY <1>7, <1>8, <1>10, <1>11, <1>12, <1>13, Zenon DEF Linked
<1>15. Listed(g) = Listed(c) \cup {a}
  BY <1>9, <1>14, ListedIs
<1> QED BY <1>5, <1>14, <1>15 DEF Relisted, Inserted

LEMMA ListRemove ==
  ASSUME NEW c, IsCtl(c), Linked(c), NEW a \in Listed(c), NEW g, g = free_list_remove(c, a)
  PROVE  Relisted(g, c, Listed(c) \ {a})
<1>1. PICK k \in Classes : k = mapping(c.size[a]) /\ Holds(c.list[k], a)
  <2>1. PICK k \in Classes : Holds(c.list[k], a)
    BY ListedIs
  <2>2. mapping(c.size[a]) = k
    BY <2>1, Zenon DEF Linked
  <2> QED BY <2>1, <2>2
<1>2. PICK l0 : l0 = c.list[k]
  OBVIOUS
<1>3. PICK l : l = Remaining(l0, {a})
  OBVIOUS
<1>4. k \in DOMAIN c.list /\ l0 \in Seq(Int) /\ Distinct(l0)
  BY <1>2 DEF Linked
<1>5. Removed(g, c, k, l)
  BY <1>1, <1>2, <1>3, <1>4, RemoveIs, Zenon
<1>6. Shrunk(l, l0, a)
  BY <1>3, <1>4, HoldsRest, Zenon
<1>7. DOMAIN g.list = Classes /\ \A j \in Classes : g.list[j] = IF j = k THEN l ELSE c.list[j]
  BY <1>5 DEF Linked, Removed
<1>8. \A j \in Classes : g.list[j] \in Seq(Int) /\ Distinct(g.list[j])
  BY <1>6, <1>7 DEF Linked, Shrunk
<1>9. \A j \in Classes : Holds(c.list[j], a) => j = k
  BY <1>1, Zenon DEF Linked
<1>10. \A j \in Classes : \A x : Holds(g.list[j], x) <=> Holds(c.list[j], x) /\ x # a
  BY <1>2, <1>6, <1>7, <1>9 DEF Shrunk
<1>11. PICK z : z = c.size /\ z = g.size
  BY <1>5 DEF Removed, SameBlocks
<1>12. ASSUME NEW j \in Classes, NEW x, Holds(g.list[j], x) PROVE mapping(z[x]) = j
  BY <1>10, <1>11, <1>12, Zenon DEF Linked
<1>13. l0 # <<>> /\ k \in c.sl
  <2>1. l0 # <<>>
    BY <1>1, <1>2, <1>4, HoldsNothing
  <2> QED BY <1>2, <2>1 DEF Linked
<1>14. g.sl = {j \in Classes : g.list[j] # <<>>}
  BY <1>5, <1>7, <1>13 DEF Linked, Removed
<1>15. g.fl = {j[1] : j \in g.sl}
  <2>1. c.fl = {j[1] : j \in c.sl} /\ (g.sl = c.sl \/ g.sl = c.sl \ {k})
    BY <1>5 DEF Linked, Removed
  <2>2. g.fl = (IF \E j \in g.sl : j[1] = k[1] THEN c.fl ELSE c.fl \ {k[1]})
    BY <1>5 DEF Removed
  <2> QED BY <1>13, <2>1, <2>2
<1>16. Linked(g)
  BY <1>7, <1>8, <1>11, <1>12, <1>14, <1>15, Zenon DEF Linked
<1>17. Listed(g) = Listed(c) \ {a}
  BY <1>10, <1>16, ListedIs
<1> QED BY <1>5, <1>16, <1>17 DEF Relisted, Removed

-----------------------------------------------------------------------------
(* TLSF: the blocks                                                        *)

Nx(z, a) == a + BLOCK_HDR_OFFSET + z[a]

(* The blocks of sizes z tile the pool up to the sentinel, and p inverts   *)
(* the walk.                                                               *)
Shape(z, p) ==
  /\ DOMAIN p = DOMAIN z /\ DOMAIN z \subseteq 0..Sentinel /\ 0 \in DOMAIN z /\ Sentinel \in DOMAIN z
  /\ \A a \in DOMAIN z : z[a] \in Nat
  /\ \A a \in DOMAIN z : a # Sentinel => Nx(z, a) \in DOMAIN z /\ p[Nx(z, a)] = a
  /\ \A b \in DOMAIN z : b # 0 => p[b] \in DOMAIN z \ {Sentinel} /\ Nx(z, p[b]) = b
  /\ \A a, b \in DOMAIN z : a < b => Nx(z, a) <= b

LEMMA PoolIs ==
  /\ BLOCK_HDR_OFFSET \in Nat \ {0} /\ BLOCK_PAYLOAD_MIN \in Nat \ {0}
  /\ TlsfPool \in Nat /\ Sentinel \in Nat \ {0} /\ Sentinel + BLOCK_HDR_OFFSET = TlsfPool
BY TlsfAssumption DEF Sentinel

LEMMA Drop1Is ==
  ASSUME NEW f, NEW a
  PROVE  /\ DOMAIN Drop1(f, a) = DOMAIN f \ {a}
         /\ \A x \in DOMAIN f \ {a} : Drop1(f, a)[x] = f[x]
BY DEF Drop1

(* Two blocks have different neighbours, and one ends within the pool.     *)
LEMMA NeighboursDiffer ==
  ASSUME NEW z, NEW p, Shape(z, p), NEW a \in DOMAIN z \ {Sentinel}
  PROVE  /\ Nx(z, a) \in DOMAIN z \ {0} /\ Nx(z, a) # a /\ Nx(z, a) > a
         /\ z[a] \in Nat /\ z[a] \in 0..TlsfPool /\ z[a] < TlsfPool
         /\ \A b \in DOMAIN z \ {Sentinel} : Nx(z, a) = Nx(z, b) => a = b
<1>1. PICK x \in Nat, n \in Nat : x = z[a] /\ n = Nx(z, a) /\ n = a + BLOCK_HDR_OFFSET + x
  BY PoolIs DEF Shape, Nx
<1>2. a \in Nat /\ n \in DOMAIN z /\ n \in 0..Sentinel
  <2>1. a \in DOMAIN z /\ a # Sentinel
    OBVIOUS
  <2>2. n \in DOMAIN z
    BY <1>1, <2>1, Zenon DEF Shape
  <2>3. DOMAIN z \subseteq 0..Sentinel
    BY Zenon DEF Shape
  <2> QED BY <2>1, <2>2, <2>3, PoolIs
<1>3. n > a /\ x < TlsfPool
  BY <1>1, <1>2, PoolIs
<1>4. \A b \in DOMAIN z \ {Sentinel} : Nx(z, a) = Nx(z, b) => a = b
  BY DEF Shape
<1> QED BY <1>1, <1>2, <1>3, <1>4, PoolIs

(* a has grown over its neighbour b.                                       *)
Swallowed(y, q, z, p, a, b) ==
  /\ DOMAIN y = DOMAIN z \ {b} /\ DOMAIN q = DOMAIN z \ {b}
  /\ y[a] = z[a] + BLOCK_HDR_OFFSET + z[b] /\ \A x \in DOMAIN y : x # a => y[x] = z[x]
  /\ q[Nx(z, b)] = a /\ \A x \in DOMAIN q : x # Nx(z, b) => q[x] = p[x]

LEMMA SwallowedShape ==
  ASSUME NEW z, NEW p, Shape(z, p), NEW a \in DOMAIN z \ {Sentinel}, NEW b \in DOMAIN z \ {Sentinel},
         b = Nx(z, a), NEW y, NEW q, Swallowed(y, q, z, p, a, b)
  PROVE  Shape(y, q) /\ Nx(y, a) = Nx(z, b)
<1>1. PICK n \in DOMAIN z \ {0} : n = Nx(z, b) /\ n # b
  BY NeighboursDiffer, Zenon
<1>2. b # 0 /\ b # a /\ a < b /\ b < n
  BY <1>1, NeighboursDiffer, Zenon
<1>3. Nx(y, a) = n
  <2>1. PICK s \in Nat, t \in Nat : s = z[a] /\ t = z[b]
    BY DEF Shape
  <2>2. b = a + BLOCK_HDR_OFFSET + s /\ n = b + BLOCK_HDR_OFFSET + t /\ y[a] = s + BLOCK_HDR_OFFSET + t
    BY <1>1, <2>1 DEF Nx, Swallowed
  <2>3. a \in Nat /\ b \in Nat /\ n \in Nat
    BY DEF Shape
  <2> QED BY <2>1, <2>2, <2>3, PoolIs DEF Nx
<1>4. \A x \in DOMAIN y : x # a => y[x] = z[x] /\ Nx(y, x) = Nx(z, x)
  BY DEF Swallowed, Nx
<1>5. DOMAIN y = DOMAIN z \ {b} /\ DOMAIN q = DOMAIN y /\ n \in DOMAIN y /\ a \in DOMAIN y
  BY <1>1, <1>2 DEF Swallowed
<1>6. \A x \in DOMAIN y : y[x] \in Nat
  <2>1. y[a] \in Nat
    BY PoolIs DEF Swallowed, Shape
  <2> QED BY <1>4, <1>5, <2>1 DEF Shape
<1>7. ASSUME NEW x \in DOMAIN y, x # Sentinel PROVE Nx(y, x) \in DOMAIN y /\ q[Nx(y, x)] = x
  <2>1. CASE x = a
    BY <1>1, <1>3, <1>5, <2>1 DEF Swallowed
  <2>2. CASE x # a
    <3>1. PICK m \in DOMAIN z : m = Nx(z, x) /\ p[m] = x /\ Nx(y, x) = m
      BY <1>4, <1>5, <1>7, <2>2 DEF Shape
    <3>2. x \in DOMAIN z \ {Sentinel} /\ x # b
      BY <1>5, <1>7
    <3>3. m # b /\ m # n
      BY <1>1, <2>2, <3>1, <3>2, NeighboursDiffer, Zenon
    <3> QED BY <1>1, <1>5, <3>1, <3>3 DEF Swallowed
  <2> QED BY <2>1, <2>2
<1>8. ASSUME NEW x \in DOMAIN y, x # 0 PROVE q[x] \in DOMAIN y \ {Sentinel} /\ Nx(y, q[x]) = x
  <2>1. CASE x = n
    BY <1>1, <1>3, <1>5, <2>1 DEF Swallowed
  <2>2. CASE x # n
    <3>1. PICK m \in DOMAIN z \ {Sentinel} : m = p[x] /\ Nx(z, m) = x
      BY <1>5, <1>8 DEF Shape
    <3>2. m # b /\ m # a
      BY <1>1, <1>5, <2>2, <3>1
    <3>3. q[x] = m /\ m \in DOMAIN y
      BY <1>1, <1>5, <2>2, <3>1, <3>2 DEF Swallowed
    <3> QED BY <1>4, <3>1, <3>2, <3>3
  <2> QED BY <2>1, <2>2
<1>9. ASSUME NEW x \in DOMAIN y, NEW w \in DOMAIN y, x < w PROVE Nx(y, x) <= w
  <2>1. CASE x = a
    <3>1. w \in DOMAIN z /\ w # b /\ b <= w
      BY <1>5, <1>9, <2>1 DEF Shape
    <3>2. w \in Int /\ b \in Int
      BY <3>1 DEF Shape
    <3>3. b < w
      BY <3>1, <3>2
    <3>4. n <= w
      BY <1>1, <3>1, <3>3 DEF Shape
    <3> QED BY <1>3, <2>1, <3>4
  <2>2. CASE x # a
    BY <1>4, <1>5, <1>9, <2>2 DEF Shape
  <2> QED BY <2>1, <2>2
<1>10. DOMAIN y \subseteq 0..Sentinel /\ 0 \in DOMAIN y /\ Sentinel \in DOMAIN y
  BY <1>2, <1>5 DEF Shape
<1> QED BY <1>1, <1>3, <1>5, <1>6, <1>7, <1>8, <1>9, <1>10 DEF Shape

(* a keeps n bytes, and what is behind becomes the block r.                *)
SplitUp(y, q, z, p, a, n, r) ==
  /\ DOMAIN y = DOMAIN z \cup {r} /\ DOMAIN q = DOMAIN z \cup {r}
  /\ y[a] = n /\ y[r] = z[a] - n - BLOCK_HDR_OFFSET
  /\ \A x \in DOMAIN z : x # a /\ x # r => y[x] = z[x]
  /\ q[r] = a /\ q[Nx(z, a)] = r /\ \A x \in DOMAIN z : x # r /\ x # Nx(z, a) => q[x] = p[x]

LEMMA SplitShape ==
  ASSUME NEW z, NEW p, Shape(z, p), NEW a \in DOMAIN z \ {Sentinel},
         NEW n \in Nat, z[a] - n >= BLOCK_HDR_OFFSET, NEW r, r = a + BLOCK_HDR_OFFSET + n,
         NEW y, NEW q, SplitUp(y, q, z, p, a, n, r)
  PROVE  /\ Shape(y, q) /\ r \notin DOMAIN z /\ r # Sentinel /\ r # 0 /\ r \in Nat
         /\ Nx(y, a) = r /\ Nx(y, r) = Nx(z, a)
<1>1. PICK e \in DOMAIN z \ {0} : e = Nx(z, a) /\ p[e] = a
  BY NeighboursDiffer DEF Shape
<1>2. PICK s \in Nat : s = z[a] /\ e = a + BLOCK_HDR_OFFSET + s
  BY <1>1 DEF Shape, Nx
<1>3. a \in Nat /\ e \in 0..Sentinel
  BY DEF Shape
<1>4. r \in Nat /\ a < r /\ r < e /\ r # 0 /\ r # Sentinel
  BY <1>2, <1>3, PoolIs
<1>5. r \notin DOMAIN z
  <2>1. r \in DOMAIN z => e <= r
    BY <1>1, <1>4 DEF Shape
  <2> QED BY <1>3, <1>4, <2>1
<1>6. y[r] \in Nat /\ Nx(y, a) = r /\ Nx(y, r) = e
  <2>1. PICK t : t = y[r]
    OBVIOUS
  <2>2. t = s - n - BLOCK_HDR_OFFSET /\ y[a] = n /\ s - n >= BLOCK_HDR_OFFSET
    BY <1>2, <2>1 DEF SplitUp
  <2>3. t \in Nat /\ r + BLOCK_HDR_OFFSET + t = e
    BY <1>2, <1>3, <2>2, PoolIs
  <2> QED BY <2>1, <2>2, <2>3 DEF Nx
<1>7. DOMAIN y = DOMAIN z \cup {r} /\ DOMAIN q = DOMAIN y
  BY DEF SplitUp
<1>8. \A x \in DOMAIN z : x # a => y[x] = z[x] /\ Nx(y, x) = Nx(z, x)
  BY <1>5 DEF SplitUp, Nx
<1>9. \A x \in DOMAIN y : y[x] \in Nat
  <2>1. y[a] \in Nat
    BY DEF SplitUp
  <2> QED BY <1>6, <1>7, <1>8, <2>1 DEF Shape
<1>10. ASSUME NEW x \in DOMAIN y, x # Sentinel PROVE Nx(y, x) \in DOMAIN y /\ q[Nx(y, x)] = x
  <2>1. CASE x = a
    BY <1>6, <1>7, <2>1 DEF SplitUp
  <2>2. CASE x = r
    BY <1>1, <1>6, <1>7, <2>2 DEF SplitUp
  <2>3. CASE x # a /\ x # r
    <3>1. PICK m \in DOMAIN z : m = Nx(z, x) /\ p[m] = x /\ Nx(y, x) = m
      BY <1>7, <1>8, <1>10, <2>3 DEF Shape
    <3>2. m # r /\ m # e
      BY <1>1, <1>5, <2>3, <3>1
    <3> QED BY <1>1, <1>7, <3>1, <3>2 DEF SplitUp
  <2> QED BY <2>1, <2>2, <2>3
<1>11. ASSUME NEW x \in DOMAIN y, x # 0 PROVE q[x] \in DOMAIN y \ {Sentinel} /\ Nx(y, q[x]) = x
  <2>1. CASE x = r
    BY <1>6, <1>7, <2>1 DEF SplitUp
  <2>2. CASE x = e
    BY <1>1, <1>4, <1>6, <1>7, <2>2 DEF SplitUp
  <2>3. CASE x # e /\ x # r
    <3>1. PICK m \in DOMAIN z \ {Sentinel} : m = p[x] /\ Nx(z, m) = x
      BY <1>7, <1>11, <2>3 DEF Shape
    <3>2. m # a
      BY <1>1, <2>3, <3>1
    <3>3. q[x] = m
      BY <1>1, <1>7, <2>3, <3>1 DEF SplitUp
    <3> QED BY <1>7, <1>8, <3>1, <3>2, <3>3
  <2> QED BY <2>1, <2>2, <2>3
<1>12. ASSUME NEW x \in DOMAIN y, NEW w \in DOMAIN y, x < w PROVE Nx(y, x) <= w
  <2>0. /\ \A v \in DOMAIN z : v \in Int
        /\ \A u, v \in DOMAIN z : u < v => Nx(z, u) <= v
    BY DEF Shape
  <2>1. CASE w = r /\ x # r
    <3>1. x \in DOMAIN z /\ x \in Int
      BY <1>7, <2>0, <2>1
    <3>2. a < x => e <= x
      BY <1>1, <2>0, <3>1
    <3>3. ~(a < x)
      BY <1>3, <1>4, <1>12, <2>1, <3>1, <3>2
    <3>4. CASE x = a
      BY <1>4, <1>6, <2>1, <3>4
    <3>5. CASE x # a
      <4>1. x < a
        BY <1>3, <3>1, <3>3, <3>5
      <4>2. PICK m \in DOMAIN z : m = Nx(z, x) /\ m <= a
        <5>1. x # Sentinel
          BY <1>3, <4>1 DEF Shape
        <5> QED BY <2>0, <3>1, <4>1, <5>1 DEF Shape
      <4>3. m \in Int /\ m <= r
        BY <1>3, <1>4, <2>0, <4>2
      <4> QED BY <1>8, <2>1, <3>1, <3>5, <4>2, <4>3
    <3> QED BY <3>4, <3>5
  <2>2. CASE x = r
    <3>1. w \in DOMAIN z /\ w \in Int /\ a < w
      BY <1>3, <1>4, <1>7, <1>12, <2>0, <2>2
    <3>2. e <= w
      BY <1>1, <2>0, <3>1
    <3> QED BY <1>6, <2>2, <3>2
  <2>3. CASE x # r /\ w # r
    <3>1. x \in DOMAIN z /\ w \in DOMAIN z /\ w \in Int
      BY <1>7, <2>0, <2>3
    <3>2. CASE x = a
      <4>1. e <= w
        BY <1>1, <1>12, <2>0, <3>1, <3>2
      <4> QED BY <1>3, <1>4, <1>6, <3>1, <3>2, <4>1
    <3>3. CASE x # a
      BY <1>8, <1>12, <2>0, <3>1, <3>3
    <3> QED BY <3>2, <3>3
  <2>4. x # r \/ w # r
    BY <1>4, <1>12
  <2> QED BY <1>12, <2>1, <2>2, <2>3, <2>4
<1>13. DOMAIN y \subseteq 0..Sentinel /\ 0 \in DOMAIN y /\ Sentinel \in DOMAIN y
  <2>1. r \in 0..Sentinel
    BY <1>3, <1>4, PoolIs
  <2> QED BY <1>7, <2>1 DEF Shape
<1>14. Shape(y, q)
  BY <1>7, <1>9, <1>10, <1>11, <1>12, <1>13 DEF Shape
<1> QED BY <1>1, <1>4, <1>5, <1>6, <1>14

-----------------------------------------------------------------------------
(* TLSF: the operations on the control structure                           *)

(* Of the blocks, those in O are not in a list and the others are; the     *)
(* flags say so, except that those of the blocks in X are being changed.   *)
Good(c, O, X) ==
  /\ IsCtl(c) /\ Shape(c.size, c.prev_phys) /\ Linked(c)
  /\ O \cup Listed(c) = DOMAIN c.size \ {Sentinel} /\ O \cap Listed(c) = {} /\ X \subseteq O
  /\ c.free \subseteq Listed(c) \cup X
  /\ c.prev_free \subseteq DOMAIN c.size \ {0}
  /\ \A a \in DOMAIN c.size \ {Sentinel} :
       a \notin X => (Nx(c.size, a) \in c.prev_free <=> a \in Listed(c))

(* c and g agree on the sizes of the blocks in O.                          *)
SameSizes(g, c, O) == \A x \in O : g.size[x] = c.size[x]

LEMMA NextIs == ASSUME NEW c, NEW a PROVE block_next(c, a) = Nx(c.size, a)
BY DEF block_next, Nx

(* Every block of the pool has a class: its row and its list exist.        *)
LEMMA HasClass ==
  ASSUME NEW n \in Nat, n < TlsfPool
  PROVE  mapping(n) \in Classes
<1>0. PICK B \in Nat, F \in Nat \ {0}, G \in Nat \ {0}, R \in Nat \ {0}, Q \in Nat :
        /\ B = TlsfBits /\ F = FL_INDEX_SHIFT /\ G = SL_INDEX_COUNT_LOG2 /\ R = FL_INDEX_COUNT
        /\ Q = TlsfPool /\ F + G < B /\ R + F <= B /\ Q <= TwoTo[R + F] /\ Q < TlsfMod
  BY TlsfAssumption
<1>1. PICK A \in Nat \ {0}, C \in Nat \ {0} :
        A = TwoTo[F] /\ C = TwoTo[G] /\ SmallLimit = A * C /\ TwoTo[F + G] = A * C
  <2>1. F \in 0..B /\ G \in 0..B /\ F + G <= B
    BY <1>0
  <2>2. TwoTo[F] \in Nat \ {0} /\ TwoTo[G] \in Nat \ {0}
    BY <1>0, <2>1, TwoToIs
  <2>3. TwoTo[F + G] = TwoTo[F] * TwoTo[G]
    BY <1>0, <2>1, TwoToSum
  <2> QED BY <1>0, <2>2, <2>3 DEF SmallLimit
<1>2. PICK S \in Nat : S = A * C
  <2>1. A * C \in Nat
    BY Z3
  <2> QED BY <2>1
<1>3. ASSUME NEW x \in 0..(R - 1), NEW y \in 0..(C - 1) PROVE <<x, y>> \in Classes
  BY <1>0, <1>1, <1>3 DEF Classes, Rows
<1>4. CASE n < S
  <2>1. mapping(n) = <<0, n \div A>>
    BY <1>0, <1>1, <1>2, <1>4 DEF mapping
  <2>2. n \div A \in 0..(C - 1)
    BY <1>2, <1>4, QuotientIn
  <2>3. 0 \in 0..(R - 1)
    BY <1>0
  <2> QED BY <1>3, <2>1, <2>2, <2>3
<1>5. CASE ~(n < S)
  <2>1. n > 0 /\ n < TlsfMod
    <3>1. S > 0
      BY <1>2, Z3
    <3>2. TlsfMod \in Nat
      <4>1. B \in 0..B
        BY <1>0
      <4> QED BY <1>0, <4>1, TwoToIs DEF TlsfMod
    <3> QED BY <1>0, <1>5, <3>1, <3>2
  <2>2. PICK k \in Nat : k = Log2(n) /\ k < B /\ TwoTo[k] <= n /\ n < TwoTo[k + 1]
    BY <1>0, <2>1, Log2Is
  <2>3. k >= F + G
    <3>1. CASE k < F + G
      <4>1. k + 1 \in Nat /\ F + G \in Nat /\ k + 1 <= F + G /\ F + G <= B /\ k + 1 \in 0..B
        BY <1>0, <3>1
      <4>2. TwoTo[k + 1] <= TwoTo[F + G]
        BY <1>0, <4>1, TwoToGrows
      <4>3. TwoTo[k + 1] \in Nat
        BY <1>0, <4>1, TwoToIs
      <4> QED BY <1>1, <1>2, <1>5, <2>2, <4>2, <4>3
    <3> QED BY <1>0, <3>1
  <2>4. k < R + F
    <3>1. CASE k >= R + F
      <4>1. TwoTo[R + F] <= TwoTo[k]
        BY <1>0, <2>2, <3>1, TwoToGrows
      <4>2. TwoTo[R + F] \in Nat /\ TwoTo[k] \in Nat
        <5>1. R + F \in 0..B /\ k \in 0..B
          BY <1>0, <2>2
        <5> QED BY <1>0, <5>1, TwoToIs
      <4> QED BY <1>0, <2>2, <4>1, <4>2
    <3> QED BY <1>0, <3>1
  <2>5. PICK d \in Nat, W \in Nat \ {0} : d = k - G /\ W = TwoTo[d]
    <3>1. k - G \in 0..B /\ k - G \in Nat
      BY <1>0, <2>2, <2>3
    <3> QED BY <1>0, <3>1, TwoToIs
  <2>6. TwoTo[k] = W * C /\ TwoTo[k + 1] = 2 * (W * C)
    <3>1. d + G = k /\ d + G <= B /\ k + 1 \in 1..B /\ (k + 1) - 1 = k
      BY <1>0, <2>2, <2>5
    <3>2. TwoTo[d + G] = TwoTo[d] * TwoTo[G]
      BY <1>0, <3>1, TwoToSum
    <3>3. TwoTo[k + 1] = 2 * TwoTo[k]
      BY <1>0, <3>1, TwoToIs
    <3> QED BY <1>1, <2>5, <3>1, <3>2, <3>3
  <2>7. n \div W >= C /\ n \div W \in 0..(2 * C - 1)
    <3>1. PICK D \in Nat : D = 2 * C
      OBVIOUS
    <3>2. W * D = 2 * (W * C)
      BY <3>1, Z3
    <3>3. n \div W \in 0..(D - 1)
      BY <2>2, <2>6, <3>2, QuotientIn
    <3>4. n \div W >= C
      <4>1. CASE n \div W < C
        <5>1. PICK c \in Nat : c = n \div W /\ c <= C - 1
          BY <3>1, <3>3, <4>1
        <5>2. PICK w \in 0..(W - 1) : n = W * c + w
          <6>1. n \in Int /\ W \in Nat \ {0}
            OBVIOUS
          <6>2. n % W \in 0..(W - 1) /\ n = W * (n \div W) + (n % W)
            BY <6>1, DivOf
          <6> QED BY <5>1, <6>2
        <5>3. W * c <= W * C - W /\ W * c \in Int /\ W * C \in Int
          BY <5>1, Z3
        <5> QED BY <2>2, <2>6, <5>2, <5>3
      <4> QED BY <3>1, <3>3, <4>1
    <3> QED BY <3>1, <3>3, <3>4
  <2>8. mapping(n) = <<k - F, (n \div W) - C>>
    BY <1>0, <1>1, <1>2, <1>5, <2>2, <2>5 DEF mapping
  <2>9. k - F \in 0..(R - 1) /\ (n \div W) - C \in 0..(C - 1)
    BY <1>0, <2>2, <2>3, <2>4, <2>7
  <2> QED BY <1>3, <2>8, <2>9
<1> QED BY <1>2, <1>4, <1>5

LEMMA GoodBlocks ==
  ASSUME NEW c, NEW O, NEW X, Good(c, O, X)
  PROVE  /\ O \subseteq DOMAIN c.size \ {Sentinel} /\ Listed(c) \subseteq DOMAIN c.size \ {Sentinel}
         /\ \A a \in DOMAIN c.size : a \in Int
         /\ \A a \in O \cup Listed(c) : mapping(c.size[a]) \in Classes
<1>1. \A a \in DOMAIN c.size : a \in Int
  BY DEF Good, Shape
<1>2. ASSUME NEW a \in O \cup Listed(c) PROVE mapping(c.size[a]) \in Classes
  <2>1. a \in DOMAIN c.size \ {Sentinel}
    BY DEF Good
  <2>2. PICK s \in Nat : s = c.size[a] /\ s < TlsfPool
    BY <2>1, NeighboursDiffer DEF Good
  <2> QED BY <2>2, HasClass
<1> QED BY <1>1, <1>2 DEF Good

LEMMA RemoveGood ==
  ASSUME NEW c, NEW O, NEW X, Good(c, O, X), NEW p \in Listed(c), NEW g, g = free_list_remove(c, p)
  PROVE  Good(g, O \cup {p}, X \cup {p}) /\ SameBlocks(g, c)
<1>1. PICK L : L = Listed(c) \ {p}
  OBVIOUS
<1>2. Relisted(g, c, L)
  BY <1>1, ListRemove, Zenon DEF Good
<1>3. Listed(g) = L /\ g.size = c.size /\ g.prev_phys = c.prev_phys /\ g.free = c.free /\ g.prev_free = c.prev_free
  BY <1>2 DEF Relisted, SameBlocks
<1>4. Shape(g.size, g.prev_phys)
  BY <1>3 DEF Good
<1>5. O \cup {p} \cup L = DOMAIN g.size \ {Sentinel} /\ (O \cup {p}) \cap L = {} /\ X \cup {p} \subseteq O \cup {p}
  BY <1>1, <1>3 DEF Good
<1>6. g.free \subseteq L \cup (X \cup {p}) /\ g.prev_free \subseteq DOMAIN g.size \ {0}
  BY <1>1, <1>3 DEF Good
<1>7. ASSUME NEW a \in DOMAIN g.size \ {Sentinel}, a \notin X \cup {p}
      PROVE  Nx(g.size, a) \in g.prev_free <=> a \in L
  BY <1>1, <1>3, <1>7 DEF Good
<1> QED BY <1>2, <1>3, <1>4, <1>5, <1>6, <1>7 DEF Good, Relisted

LEMMA InsertGood ==
  ASSUME NEW c, NEW O, NEW X, Good(c, O, X), NEW a \in X, Nx(c.size, a) \in c.prev_free,
         NEW g, g = free_list_insert(c, a)
  PROVE  Good(g, O \ {a}, X \ {a}) /\ SameBlocks(g, c)
<1>1. PICK L : L = Listed(c) \cup {a}
  OBVIOUS
<1>2. Relisted(g, c, L)
  <2>1. a \in Int /\ mapping(c.size[a]) \in Classes /\ a \notin Listed(c)
    BY GoodBlocks DEF Good
  <2> QED BY <1>1, <2>1, ListInsert, Zenon DEF Good
<1>3. Listed(g) = L /\ g.size = c.size /\ g.prev_phys = c.prev_phys /\ g.free = c.free /\ g.prev_free = c.prev_free
  BY <1>2 DEF Relisted, SameBlocks
<1>4. Shape(g.size, g.prev_phys)
  BY <1>3 DEF Good
<1>5. (O \ {a}) \cup L = DOMAIN g.size \ {Sentinel} /\ (O \ {a}) \cap L = {} /\ X \ {a} \subseteq O \ {a}
  BY <1>1, <1>3 DEF Good
<1>6. g.free \subseteq L \cup (X \ {a}) /\ g.prev_free \subseteq DOMAIN g.size \ {0}
  BY <1>1, <1>3 DEF Good
<1>7. ASSUME NEW x \in DOMAIN g.size \ {Sentinel}, x \notin X \ {a}
      PROVE  Nx(g.size, x) \in g.prev_free <=> x \in L
  BY <1>1, <1>3, <1>7 DEF Good
<1> QED BY <1>2, <1>3, <1>4, <1>5, <1>6, <1>7 DEF Good, Relisted

(* Good looks at the lists, and at what they hold, only through Linked.    *)
LEMMA SameListed ==
  ASSUME NEW c, NEW g, SameLists(g, c), Linked(c), SameSizes(g, c, Listed(c))
  PROVE  Linked(g) /\ Listed(g) = Listed(c)
<1>1. PICK l : l = g.list /\ l = c.list
  BY DEF SameLists
<1>2. Listed(g) = Listed(c)
  BY <1>1 DEF Listed
<1>3. ASSUME NEW k \in Classes, NEW x, Holds(l[k], x) PROVE mapping(g.size[x]) = k
  <2>1. mapping(c.size[x]) = k
    BY <1>1, <1>3, Zenon DEF Linked
  <2>2. x \in Listed(c)
    BY <1>1, <1>3, ListedIs
  <2> QED BY <2>1, <2>2 DEF SameSizes
<1>4. g.sl = {k \in Classes : l[k] # <<>>} /\ g.fl = {k[1] : k \in g.sl}
  BY <1>1 DEF Linked, SameLists
<1>5. DOMAIN l = Classes /\ \A k \in Classes : l[k] \in Seq(Int) /\ Distinct(l[k])
  BY <1>1 DEF Linked
<1> QED BY <1>1, <1>2, <1>3, <1>4, <1>5, Zenon DEF Linked

LEMMA SwallowIs ==
  ASSUME NEW c, IsCtl(c), NEW a, NEW b, a # b, a \in DOMAIN c.size, b \in DOMAIN c.size,
         DOMAIN c.prev_phys = DOMAIN c.size, b = Nx(c.size, a),
         Nx(c.size, b) \in DOMAIN c.size \ {b}, c.size[a] \in Nat, c.size[b] \in Nat, a \in Int,
         NEW g, g = Swallow(c, a, b)
  PROVE  /\ IsCtl(g) /\ SameLists(g, c) /\ Swallowed(g.size, g.prev_phys, c.size, c.prev_phys, a, b)
         /\ g.free = c.free \ {b} /\ g.prev_free = c.prev_free \ {b}
<1>1. PICK s : s = c.size[a] + BLOCK_HDR_OFFSET + c.size[b]
  OBVIOUS
<1>2. PICK n \in DOMAIN c.size \ {b} : n = Nx(c.size, b)
  OBVIOUS
<1>3. a + BLOCK_HDR_OFFSET + s = n
  <2>1. PICK u \in Nat, v \in Nat : u = c.size[a] /\ v = c.size[b]
    OBVIOUS
  <2> QED BY <1>1, <1>2, <2>1, PoolIs DEF Nx
<1>4. PICK z, p : z = [c.size EXCEPT ![a] = s] /\ p = [c.prev_phys EXCEPT ![n] = a]
  OBVIOUS
<1>5. g = [c EXCEPT !.size = Drop1(z, b), !.prev_phys = Drop1(p, b), !.free = @ \ {b}, !.prev_free = @ \ {b}]
  BY <1>1, <1>3, <1>4 DEF Swallow
<1>6. /\ IsCtl(g) /\ SameLists(g, c) /\ g.free = c.free \ {b} /\ g.prev_free = c.prev_free \ {b}
      /\ g.size = Drop1(z, b) /\ g.prev_phys = Drop1(p, b)
  BY <1>5 DEF IsCtl, SameLists
<1>7. /\ DOMAIN z = DOMAIN c.size /\ DOMAIN p = DOMAIN c.size /\ z[a] = s /\ p[n] = a
      /\ \A x \in DOMAIN c.size : (x # a => z[x] = c.size[x]) /\ (x # n => p[x] = c.prev_phys[x])
  BY <1>4
<1>8. /\ DOMAIN g.size = DOMAIN c.size \ {b} /\ DOMAIN g.prev_phys = DOMAIN c.size \ {b}
      /\ \A x \in DOMAIN c.size \ {b} : g.size[x] = z[x] /\ g.prev_phys[x] = p[x]
  BY <1>6, <1>7 DEF Drop1
<1> QED BY <1>1, <1>2, <1>6, <1>7, <1>8 DEF Swallowed

Swallows(g, c, O, X, a, b) ==
  /\ Good(g, O \ {b}, X \ {b}) /\ SameSizes(g, c, O \ {a, b})
  /\ Nx(g.size, a) = Nx(c.size, b) /\ g.prev_free = c.prev_free \ {b}

LEMMA SwallowGood ==
  ASSUME NEW c, NEW O, NEW X, Good(c, O, X), NEW a \in X, NEW b \in X, b = Nx(c.size, a),
         NEW g, g = Swallow(c, a, b)
  PROVE  Swallows(g, c, O, X, a, b)
<1>1. PICK z, p, y, q : z = c.size /\ p = c.prev_phys /\ y = g.size /\ q = g.prev_phys
  OBVIOUS
<1>2. Shape(z, p) /\ a \in DOMAIN z \ {Sentinel} /\ b \in DOMAIN z \ {Sentinel}
  BY <1>1, GoodBlocks DEF Good
<1>3. a # b /\ z[a] \in Nat /\ z[b] \in Nat /\ a \in Int
  BY <1>1, <1>2, NeighboursDiffer, GoodBlocks
<1>4. Nx(z, b) \in DOMAIN z \ {0} /\ Nx(z, b) # b
  BY <1>2, NeighboursDiffer, Zenon
<1>5. /\ IsCtl(g) /\ SameLists(g, c) /\ Swallowed(y, q, z, p, a, b)
      /\ g.free = c.free \ {b} /\ g.prev_free = c.prev_free \ {b}
  <2>1. DOMAIN c.prev_phys = DOMAIN c.size
    BY <1>1, <1>2 DEF Shape
  <2>2. IsCtl(c) /\ a \in DOMAIN c.size /\ b \in DOMAIN c.size
    BY <1>1, <1>2 DEF Good
  <2>3. Nx(c.size, b) \in DOMAIN c.size \ {b} /\ c.size[a] \in Nat /\ c.size[b] \in Nat
    BY <1>1, <1>3, <1>4
  <2>4. Swallowed(g.size, g.prev_phys, c.size, c.prev_phys, a, b)
    BY <1>3, <2>1, <2>2, <2>3, SwallowIs
  <2>5. /\ IsCtl(g) /\ SameLists(g, c)
        /\ g.free = c.free \ {b} /\ g.prev_free = c.prev_free \ {b}
    BY <1>3, <2>1, <2>2, <2>3, SwallowIs
  <2> QED BY <1>1, <2>4, <2>5
<1>6. Shape(y, q) /\ Nx(y, a) = Nx(z, b)
  BY <1>1, <1>2, <1>5, SwallowedShape
<1>7. DOMAIN y = DOMAIN z \ {b} /\ \A x \in DOMAIN y : x # a => y[x] = z[x] /\ Nx(y, x) = Nx(z, x)
  BY <1>5 DEF Swallowed, Nx
<1>8. PICK L : L = Listed(c) /\ O \cup L = DOMAIN z \ {Sentinel} /\ O \cap L = {} /\ a \notin L /\ b \notin L
  BY <1>1 DEF Good
<1>9. Linked(g) /\ Listed(g) = L
  <2>1. SameSizes(g, c, Listed(c))
    BY <1>1, <1>7, <1>8 DEF SameSizes
  <2>2. Linked(c)
    BY DEF Good
  <2> QED BY <1>5, <1>8, <2>1, <2>2, SameListed
<1>10. (O \ {b}) \cup L = DOMAIN y \ {Sentinel} /\ (O \ {b}) \cap L = {} /\ X \ {b} \subseteq O \ {b}
  BY <1>7, <1>8 DEF Good
<1>11. g.free \subseteq L \cup (X \ {b}) /\ g.prev_free \subseteq DOMAIN y \ {0}
  BY <1>1, <1>5, <1>7, <1>8 DEF Good
<1>12. ASSUME NEW x \in DOMAIN y \ {Sentinel}, x \notin X \ {b}
       PROVE  Nx(y, x) \in g.prev_free <=> x \in L
  <2>1. x \notin X /\ x # a /\ x \in DOMAIN z \ {Sentinel}
    BY <1>7, <1>12
  <2>2. Nx(z, x) \in c.prev_free <=> x \in L
    BY <1>1, <1>8, <2>1 DEF Good
  <2>3. Nx(z, x) # b
    BY <1>1, <1>2, <2>1, NeighboursDiffer, Zenon
  <2>4. Nx(y, x) = Nx(z, x)
    BY <1>7, <2>1
  <2> QED BY <1>5, <2>2, <2>3, <2>4
<1>13. SameSizes(g, c, O \ {a, b})
  BY <1>1, <1>2, <1>7, <1>8 DEF SameSizes
<1> QED BY <1>1, <1>5, <1>6, <1>9, <1>10, <1>11, <1>12, <1>13 DEF Good, Swallows

LEMMA SplitIs ==
  ASSUME NEW c, IsCtl(c), NEW a \in DOMAIN c.size, NEW n \in Nat, NEW r, r = a + BLOCK_HDR_OFFSET + n,
         r \notin DOMAIN c.size, DOMAIN c.prev_phys = DOMAIN c.size, Nx(c.size, a) \in DOMAIN c.size,
         c.size[a] \in Nat, a \in Int, NEW g, g = block_split(c, a, n)
  PROVE  /\ IsCtl(g) /\ SameLists(g, c) /\ SplitUp(g.size, g.prev_phys, c.size, c.prev_phys, a, n, r)
         /\ g.free = c.free \ {r} /\ g.prev_free = c.prev_free \ {r}
<1>1. PICK s : s = c.size[a] - n - BLOCK_HDR_OFFSET
  OBVIOUS
<1>2. PICK e \in DOMAIN c.size : e = Nx(c.size, a)
  OBVIOUS
<1>3. r + BLOCK_HDR_OFFSET + s = e
  <2>1. PICK u \in Nat : u = c.size[a]
    OBVIOUS
  <2> QED BY <1>1, <1>2, <2>1, PoolIs DEF Nx
<1>4. PICK z, p : z = [c.size EXCEPT ![a] = n] /\ p = [c.prev_phys EXCEPT ![e] = r]
  OBVIOUS
<1>5. g = [c EXCEPT !.size = Put(z, r, s), !.prev_phys = Put(p, r, a),
                    !.free = @ \ {r}, !.prev_free = @ \ {r}]
  BY <1>1, <1>3, <1>4 DEF block_split
<1>6. /\ IsCtl(g) /\ SameLists(g, c) /\ g.free = c.free \ {r} /\ g.prev_free = c.prev_free \ {r}
      /\ g.size = Put(z, r, s) /\ g.prev_phys = Put(p, r, a)
  BY <1>5 DEF IsCtl, SameLists
<1>7. /\ DOMAIN z = DOMAIN c.size /\ DOMAIN p = DOMAIN c.size /\ z[a] = n /\ p[e] = r
      /\ \A x \in DOMAIN c.size : (x # a => z[x] = c.size[x]) /\ (x # e => p[x] = c.prev_phys[x])
  BY <1>4
<1>8. /\ DOMAIN g.size = DOMAIN c.size \cup {r} /\ DOMAIN g.prev_phys = DOMAIN c.size \cup {r}
      /\ g.size[r] = s /\ g.prev_phys[r] = a
      /\ \A x \in DOMAIN c.size \ {r} : g.size[x] = z[x] /\ g.prev_phys[x] = p[x]
  BY <1>6, <1>7 DEF Put
<1> QED BY <1>1, <1>2, <1>6, <1>7, <1>8 DEF SplitUp

SplitOff(g, c, O, X, a, n, r) ==
  /\ r \notin DOMAIN c.size
  /\ Good(g, O \cup {r}, X \cup {r}) /\ SameSizes(g, c, O \ {a}) /\ g.size[a] = n
  /\ Nx(g.size, r) = Nx(c.size, a) /\ g.prev_free = c.prev_free

LEMMA SplitGood ==
  ASSUME NEW c, NEW O, NEW X, Good(c, O, X), NEW a \in X, NEW n \in Nat, c.size[a] - n >= BLOCK_HDR_OFFSET,
         NEW r, r = a + BLOCK_HDR_OFFSET + n, NEW g, g = block_split(c, a, n)
  PROVE  SplitOff(g, c, O, X, a, n, r)
<1>1. PICK z, p, y, q : z = c.size /\ p = c.prev_phys /\ y = g.size /\ q = g.prev_phys
  OBVIOUS
<1>2. Shape(z, p) /\ a \in DOMAIN z \ {Sentinel}
  BY <1>1, GoodBlocks DEF Good
<1>3. z[a] \in Nat /\ a \in Int /\ z[a] - n >= BLOCK_HDR_OFFSET
  BY <1>1, <1>2, NeighboursDiffer, GoodBlocks
<1>4. Nx(z, a) \in DOMAIN z
  BY <1>2, NeighboursDiffer, Zenon
<1>5. r \notin DOMAIN z /\ r # Sentinel /\ r # 0
  <2>0. PICK N \in Nat : N = Sentinel
    BY PoolIs
  <2>1. PICK e \in 0..N : e = Nx(z, a) /\ e \in DOMAIN z
    BY <1>2, <1>4, <2>0 DEF Shape
  <2>2. a \in 0..N
    BY <1>2, <2>0 DEF Shape
  <2>3. PICK s \in Nat : s = z[a] /\ s - n >= BLOCK_HDR_OFFSET
    BY <1>3
  <2>4. e = a + BLOCK_HDR_OFFSET + s
    BY <2>1, <2>3 DEF Nx
  <2>5. PICK h \in Nat \ {0} : h = BLOCK_HDR_OFFSET
    BY PoolIs
  <2>6. r \in 0..N /\ a < r /\ r < e /\ r # N /\ r # 0
    BY <2>1, <2>2, <2>3, <2>4, <2>5
  <2>7. r \in DOMAIN z => e <= r
    BY <1>2, <2>1, <2>6 DEF Shape
  <2>8. ~(e <= r)
    BY <2>1, <2>6
  <2> QED BY <2>0, <2>6, <2>7, <2>8
<1>6. /\ IsCtl(g) /\ SameLists(g, c) /\ SplitUp(y, q, z, p, a, n, r)
      /\ g.free = c.free \ {r} /\ g.prev_free = c.prev_free \ {r}
  <2>1. DOMAIN c.prev_phys = DOMAIN c.size /\ IsCtl(c) /\ a \in DOMAIN c.size /\ r \notin DOMAIN c.size
        /\ Nx(c.size, a) \in DOMAIN c.size /\ c.size[a] \in Nat
    BY <1>1, <1>2, <1>3, <1>4, <1>5 DEF Shape, Good
  <2>2. SplitUp(g.size, g.prev_phys, c.size, c.prev_phys, a, n, r)
    BY <1>3, <2>1, SplitIs
  <2>3. /\ IsCtl(g) /\ SameLists(g, c)
        /\ g.free = c.free \ {r} /\ g.prev_free = c.prev_free \ {r}
    BY <1>3, <2>1, SplitIs
  <2> QED BY <1>1, <2>2, <2>3
<1>7. Shape(y, q) /\ Nx(y, a) = r /\ Nx(y, r) = Nx(z, a)
  BY <1>2, <1>3, <1>6, SplitShape
<1>8. DOMAIN y = DOMAIN z \cup {r} /\ y[a] = n /\ \A x \in DOMAIN z : x # a => y[x] = z[x] /\ Nx(y, x) = Nx(z, x)
  BY <1>5, <1>6 DEF SplitUp, Nx
<1>9. PICK L : L = Listed(c) /\ O \cup L = DOMAIN z \ {Sentinel} /\ O \cap L = {} /\ a \notin L /\ r \notin L
  BY <1>1, <1>5 DEF Good
<1>10. Linked(g) /\ Listed(g) = L
  <2>1. SameSizes(g, c, Listed(c))
    BY <1>1, <1>8, <1>9 DEF SameSizes
  <2>2. Linked(c)
    BY DEF Good
  <2> QED BY <1>6, <1>9, <2>1, <2>2, SameListed
<1>11. (O \cup {r}) \cup L = DOMAIN y \ {Sentinel} /\ (O \cup {r}) \cap L = {} /\ X \cup {r} \subseteq O \cup {r}
  BY <1>5, <1>8, <1>9 DEF Good
<1>12. r \notin c.prev_free
  BY <1>1, <1>5 DEF Good
<1>13. g.free \subseteq L \cup (X \cup {r}) /\ g.prev_free = c.prev_free /\ g.prev_free \subseteq DOMAIN y \ {0}
  BY <1>1, <1>6, <1>8, <1>9, <1>12 DEF Good
<1>14. ASSUME NEW x \in DOMAIN y \ {Sentinel}, x \notin X \cup {r}
       PROVE  Nx(y, x) \in g.prev_free <=> x \in L
  <2>1. x \notin X /\ x # a /\ x \in DOMAIN z \ {Sentinel}
    BY <1>8, <1>14
  <2>2. Nx(z, x) \in c.prev_free <=> x \in L
    BY <1>1, <1>9, <2>1 DEF Good
  <2>3. Nx(y, x) = Nx(z, x)
    BY <1>8, <2>1
  <2> QED BY <1>13, <2>2, <2>3
<1>15. SameSizes(g, c, O \ {a})
  BY <1>1, <1>2, <1>8, <1>9 DEF SameSizes
<1> QED BY <1>1, <1>5, <1>6, <1>7, <1>8, <1>10, <1>11, <1>13, <1>14, <1>15 DEF Good, SplitOff

(* A change of flags only.                                                 *)
Flags(c, F, P, Y) ==
  /\ F \subseteq Listed(c) \cup Y /\ P \subseteq DOMAIN c.size \ {0}
  /\ \A a \in DOMAIN c.size \ {Sentinel} :
       a \notin Y => (Nx(c.size, a) \in P <=> a \in Listed(c))

Flagged(g, c, O, F, P, Y) ==
  /\ Good(g, O, Y) /\ g.size = c.size /\ g.prev_phys = c.prev_phys
  /\ g.free = F /\ g.prev_free = P /\ Listed(g) = Listed(c)

LEMMA FlagsGood ==
  ASSUME NEW c, NEW O, NEW X, Good(c, O, X), NEW Y, Y \subseteq O, NEW F, NEW P,
         NEW g, g = [c EXCEPT !.free = F, !.prev_free = P], Flags(c, F, P, Y)
  PROVE  Flagged(g, c, O, F, P, Y)
<1>1. IsCtl(g) /\ SameLists(g, c) /\ g.size = c.size /\ g.prev_phys = c.prev_phys /\ g.free = F /\ g.prev_free = P
  BY DEF Good, IsCtl, SameLists
<1>2. Linked(g) /\ Listed(g) = Listed(c)
  <2>1. SameSizes(g, c, Listed(c))
    BY <1>1 DEF SameSizes
  <2>2. Linked(c)
    BY DEF Good
  <2> QED BY <1>1, <2>1, <2>2, SameListed
<1>3. Shape(g.size, g.prev_phys)
  BY <1>1 DEF Good
<1>4. PICK L : L = Listed(c) /\ L = Listed(g)
  BY <1>2
<1>5. O \cup L = DOMAIN g.size \ {Sentinel} /\ O \cap L = {}
  BY <1>1, <1>4 DEF Good
<1> QED BY <1>1, <1>2, <1>3, <1>4, <1>5 DEF Good, Flags, Flagged

LEMMA GoodNext ==
  ASSUME NEW c, NEW O, NEW X, Good(c, O, X), NEW a \in O \cup Listed(c)
  PROVE  /\ a \in DOMAIN c.size \ {Sentinel} /\ Nx(c.size, a) \in DOMAIN c.size \ {0} /\ Nx(c.size, a) # a
         /\ c.size[a] \in Nat /\ c.size[a] < TlsfPool
         /\ \A b \in DOMAIN c.size \ {Sentinel} : Nx(c.size, a) = Nx(c.size, b) => a = b
<1>1. PICK z, p : z = c.size /\ p = c.prev_phys
  OBVIOUS
<1>2. Shape(z, p) /\ a \in DOMAIN z \ {Sentinel}
  BY <1>1, GoodBlocks DEF Good
<1> QED BY <1>1, <1>2, NeighboursDiffer, Zenon

(* A block leaves its list for a caller: large enough, unless the one      *)
(* taken was not, and no block of a caller has changed.                    *)
LEMMA CarveGood ==
  ASSUME NEW c, NEW O, Good(c, O, {}), NEW a \in Listed(c), NEW n \in Nat, c.size[a] >= n,
         NEW g, g = Carve(c, a, n)
  PROVE  Good(g, O \cup {a}, {}) /\ SameSizes(g, c, O) /\ g.size[a] >= n
<1>1. PICK r : r = free_list_remove(c, a)
  OBVIOUS
<1>2. Good(r, O \cup {a}, {a}) /\ r.size = c.size /\ r.prev_free = c.prev_free
  <2>1. Good(r, O \cup {a}, {} \cup {a}) /\ SameBlocks(r, c)
    BY <1>1, RemoveGood
  <2> QED BY <2>1 DEF SameBlocks
<1>3. a \notin O
  BY DEF Good
<1>4. Nx(r.size, a) \in r.prev_free /\ r.size[a] \in Nat /\ r.size[a] >= n
  BY <1>2, GoodNext DEF Good
<1>5. PICK s : s = IF r.size[a] - n >= BLOCK_HDR_OFFSET + BLOCK_PAYLOAD_MIN
           THEN free_list_insert(block_split(r, a, n), a + BLOCK_HDR_OFFSET + n)
           ELSE r
  OBVIOUS
<1>6. Good(s, O \cup {a}, {a}) /\ SameSizes(s, c, O) /\ s.size[a] >= n
  <2>1. CASE r.size[a] - n >= BLOCK_HDR_OFFSET + BLOCK_PAYLOAD_MIN
    <3>1. PICK h, m : h = block_split(r, a, n) /\ m = a + BLOCK_HDR_OFFSET + n
      OBVIOUS
    <3>2. r.size[a] - n >= BLOCK_HDR_OFFSET
      <4>1. PICK u \in Nat : u = r.size[a]
        BY <1>4
      <4> QED BY <2>1, <4>1, PoolIs
    <3>3. /\ m \notin DOMAIN r.size
          /\ Good(h, O \cup {a} \cup {m}, {a} \cup {m}) /\ SameSizes(h, r, (O \cup {a}) \ {a}) /\ h.size[a] = n
          /\ Nx(h.size, m) = Nx(r.size, a) /\ h.prev_free = r.prev_free
      <4>1. SplitOff(h, r, O \cup {a}, {a}, a, n, m)
        <5>1. a \in {a}
          OBVIOUS
        <5> QED BY <1>2, <3>1, <3>2, <5>1, SplitGood, Zenon
      <4> QED BY <4>1 DEF SplitOff
    <3>4. s = free_list_insert(h, m)
      BY <1>5, <2>1, <3>1
    <3>5. Good(s, (O \cup {a} \cup {m}) \ {m}, ({a} \cup {m}) \ {m}) /\ SameBlocks(s, h)
      <4>1. Nx(h.size, m) \in h.prev_free /\ m \in {a} \cup {m}
        BY <1>4, <3>3
      <4> QED BY <3>3, <3>4, <4>1, InsertGood
    <3>6. m \notin O \cup {a}
      BY <1>2, <3>3, GoodBlocks
    <3>7. (O \cup {a} \cup {m}) \ {m} = O \cup {a} /\ ({a} \cup {m}) \ {m} = {a} /\ (O \cup {a}) \ {a} = O
      BY <1>3, <3>6
    <3>8. SameSizes(s, c, O) /\ s.size[a] = n
      BY <1>2, <3>3, <3>5, <3>7 DEF SameSizes, SameBlocks
    <3> QED BY <3>5, <3>7, <3>8
  <2>2. CASE ~(r.size[a] - n >= BLOCK_HDR_OFFSET + BLOCK_PAYLOAD_MIN)
    BY <1>2, <1>4, <1>5, <2>2 DEF SameSizes
  <2> QED BY <2>1, <2>2
<1>7. PICK b, F, P : b = Nx(s.size, a) /\ F = s.free \ {a} /\ P = s.prev_free \ {b}
  OBVIOUS
<1>8. g = [s EXCEPT !.free = F, !.prev_free = P]
  BY <1>1, <1>5, <1>7, NextIs DEF Carve
<1>9. Flags(s, F, P, {})
  <2>1. F \subseteq Listed(s) /\ P \subseteq DOMAIN s.size \ {0} /\ a \notin Listed(s)
    BY <1>6, <1>7 DEF Good
  <2>2. ASSUME NEW x \in DOMAIN s.size \ {Sentinel} PROVE Nx(s.size, x) \in P <=> x \in Listed(s)
    <3>1. CASE x = a
      BY <1>7, <2>1, <3>1
    <3>2. CASE x # a
      <4>1. Nx(s.size, x) # b
        BY <1>6, <1>7, <3>2, GoodNext
      <4>2. Nx(s.size, x) \in s.prev_free <=> x \in Listed(s)
        BY <1>6, <3>2 DEF Good
      <4> QED BY <1>7, <4>1, <4>2
    <3> QED BY <3>1, <3>2
  <2> QED BY <2>1, <2>2 DEF Flags
<1>10. Good(g, O \cup {a}, {}) /\ g.size = s.size
  <2>1. Flagged(g, s, O \cup {a}, F, P, {})
    <3>1. {} \subseteq O \cup {a}
      OBVIOUS
    <3> QED BY <1>6, <1>8, <1>9, <3>1, FlagsGood, Zenon
  <2> QED BY <2>1 DEF Flagged
<1> QED BY <1>6, <1>10 DEF SameSizes

(* A block whose free flag may be wrong grows over a free neighbour before *)
(* it, or behind it.                                                       *)
MergedTo(g, c, O, a, b) ==
  /\ Good(g, (O \ {a}) \cup {b}, {b}) /\ SameSizes(g, c, O \ {a}) /\ (b = a \/ b \notin O)

LEMMA MergePrevGood ==
  ASSUME NEW c, NEW O, NEW a \in O, Good(c, O, {a}), NEW g, g = merge_prev(c, a), NEW b, b = Merged(c, a)
  PROVE  MergedTo(g, c, O, a, b)
<1>1. CASE a \notin c.prev_free
  <2>1. g = c /\ b = a /\ (O \ {a}) \cup {b} = O
    BY <1>1 DEF merge_prev, Merged
  <2> QED BY <2>1 DEF MergedTo, SameSizes
<1>2. CASE a \in c.prev_free
  <2>1. b = c.prev_phys[a] /\ g = Swallow(free_list_remove(c, b), b, a)
    BY <1>2 DEF merge_prev, Merged
  <2>2. b \in DOMAIN c.size \ {Sentinel} /\ Nx(c.size, b) = a
    <3>1. a \in DOMAIN c.size /\ a # 0
      BY <1>2, GoodBlocks DEF Good
    <3> QED BY <2>1, <3>1 DEF Good, Shape
  <2>3. b # a
    BY <2>2, GoodNext
  <2>4. b \in Listed(c)
    BY <1>2, <2>2, <2>3 DEF Good
  <2>5. PICK r : r = free_list_remove(c, b)
    OBVIOUS
  <2>6. Good(r, O \cup {b}, {a} \cup {b}) /\ SameBlocks(r, c)
    BY <2>4, <2>5, RemoveGood
  <2>7. Good(g, (O \cup {b}) \ {a}, ({a} \cup {b}) \ {a}) /\ SameSizes(g, r, (O \cup {b}) \ {b, a})
    <3>1. PICK U, V : U = O \cup {b} /\ V = {a} \cup {b}
      OBVIOUS
    <3>2. a = Nx(r.size, b) /\ g = Swallow(r, b, a) /\ a \in V /\ b \in V
      BY <2>1, <2>2, <2>5, <2>6, <3>1 DEF SameBlocks
    <3>3. Good(r, U, V)
      BY <2>6, <3>1
    <3>4. Swallows(g, r, U, V, b, a)
      BY <3>2, <3>3, SwallowGood, Zenon
    <3> QED BY <3>1, <3>4 DEF Swallows
  <2>8. b \notin O
    BY <2>4 DEF Good
  <2>9. (O \cup {b}) \ {a} = (O \ {a}) \cup {b} /\ ({a} \cup {b}) \ {a} = {b} /\ (O \cup {b}) \ {b, a} = O \ {a}
    BY <2>3, <2>8
  <2> QED BY <2>6, <2>7, <2>8, <2>9 DEF MergedTo, SameSizes, SameBlocks
<1> QED BY <1>1, <1>2

LEMMA MergeNextGood ==
  ASSUME NEW c, NEW O, NEW a \in O, Good(c, O, {a}), NEW g, g = merge_next(c, a)
  PROVE  Good(g, O, {a}) /\ SameSizes(g, c, O \ {a})
<1>1. PICK n : n = Nx(c.size, a) /\ n = block_next(c, a)
  BY NextIs
<1>2. CASE n \notin c.free
  BY <1>1, <1>2 DEF merge_next, SameSizes
<1>3. CASE n \in c.free
  <2>1. PICK r : r = free_list_remove(c, n) /\ g = Swallow(r, a, n)
    BY <1>1, <1>3 DEF merge_next
  <2>2. n # a
    BY <1>1, GoodNext
  <2>3. n \in Listed(c) /\ n \notin O
    BY <1>3, <2>2 DEF Good
  <2>4. Good(r, O \cup {n}, {a} \cup {n}) /\ SameBlocks(r, c)
    BY <2>1, <2>3, RemoveGood
  <2>5. Good(g, (O \cup {n}) \ {n}, ({a} \cup {n}) \ {n}) /\ SameSizes(g, r, (O \cup {n}) \ {a, n})
    <3>1. n = Nx(r.size, a) /\ n \in {a} \cup {n} /\ a \in {a} \cup {n}
      BY <1>1, <2>4 DEF SameBlocks
    <3>2. Swallows(g, r, O \cup {n}, {a} \cup {n}, a, n)
      BY <2>1, <2>4, <3>1, SwallowGood, Zenon
    <3> QED BY <3>2 DEF Swallows
  <2>6. (O \cup {n}) \ {n} = O /\ ({a} \cup {n}) \ {n} = {a} /\ (O \cup {n}) \ {a, n} = O \ {a}
    BY <2>2, <2>3
  <2> QED BY <2>4, <2>5, <2>6 DEF SameSizes, SameBlocks
<1> QED BY <1>2, <1>3

(* A block a caller owned goes back to a list, merged with its neighbours. *)
LEMMA ReleaseGood ==
  ASSUME NEW c, NEW O, Good(c, O, {}), NEW a \in O, NEW g, g = Release(c, a)
  PROVE  Good(g, O \ {a}, {}) /\ SameSizes(g, c, O \ {a})
<1>1. PICK f, b, h, m : f = [c EXCEPT !.free = @ \cup {a}] /\ b = Merged(f, a)
                        /\ h = merge_prev(f, a) /\ m = merge_next(h, b)
  OBVIOUS
<1>2. PICK n, P, e : n = Nx(m.size, b) /\ n = block_next(m, b) /\ P = m.prev_free \cup {n}
                     /\ e = [m EXCEPT !.prev_free = P]
  BY NextIs
<1>3. g = free_list_insert(e, b)
  BY <1>1, <1>2 DEF Release
<1>4. Good(f, O, {a}) /\ f.size = c.size
  <2>1. PICK F, Q : F = c.free \cup {a} /\ Q = c.prev_free
    OBVIOUS
  <2>2. Flags(c, F, Q, {a})
    BY <2>1 DEF Good, Flags
  <2>3. f = [c EXCEPT !.free = F, !.prev_free = Q]
    BY <1>1, <2>1 DEF Good, IsCtl
  <2>4. {a} \subseteq O
    OBVIOUS
  <2>5. Flagged(f, c, O, F, Q, {a})
    BY <2>2, <2>3, <2>4, FlagsGood, Zenon
  <2> QED BY <2>5 DEF Flagged
<1>5. MergedTo(h, f, O, a, b)
  BY <1>1, <1>4, MergePrevGood, Zenon
<1>6. PICK O2 : O2 = (O \ {a}) \cup {b}
  OBVIOUS
<1>7. O2 \ {b} = O \ {a} /\ b \in O2 /\ Good(h, O2, {b}) /\ SameSizes(h, f, O \ {a})
  BY <1>5, <1>6 DEF MergedTo
<1>8. Good(m, O2, {b}) /\ SameSizes(m, h, O \ {a})
  <2>1. Good(m, O2, {b}) /\ SameSizes(m, h, O2 \ {b})
    BY <1>1, <1>7, MergeNextGood, Zenon
  <2> QED BY <1>7, <2>1
<1>9. Good(e, O2, {b}) /\ e.size = m.size /\ e.prev_free = P
  <2>1. PICK F : F = m.free
    OBVIOUS
  <2>2. Flags(m, F, P, {b})
    <3>1. n \in DOMAIN m.size \ {0}
      <4>1. b \in O2 \cup Listed(m)
        BY <1>7
      <4>2. Nx(m.size, b) \in DOMAIN m.size \ {0}
        BY <1>8, <4>1, GoodNext, Zenon
      <4> QED BY <1>2, <4>2
    <3>2. F \subseteq Listed(m) \cup {b} /\ P \subseteq DOMAIN m.size \ {0}
      BY <1>2, <1>8, <2>1, <3>1 DEF Good
    <3>3. ASSUME NEW x \in DOMAIN m.size \ {Sentinel}, x \notin {b}
          PROVE  Nx(m.size, x) \in P <=> x \in Listed(m)
      <4>1. Nx(m.size, x) # n
        BY <1>2, <1>7, <1>8, <3>3, GoodNext
      <4>2. Nx(m.size, x) \in m.prev_free <=> x \in Listed(m)
        BY <1>8, <3>3 DEF Good
      <4> QED BY <1>2, <4>1, <4>2
    <3> QED BY <3>2, <3>3 DEF Flags
  <2>3. e = [m EXCEPT !.free = F, !.prev_free = P]
    BY <1>2, <1>8, <2>1 DEF Good, IsCtl
  <2>4. {b} \subseteq O2
    BY <1>7
  <2>5. Flagged(e, m, O2, F, P, {b})
    BY <1>8, <2>2, <2>3, <2>4, FlagsGood, Zenon
  <2> QED BY <2>5 DEF Flagged
<1>10. Good(g, O2 \ {b}, {b} \ {b}) /\ SameBlocks(g, e)
  <2>1. Nx(e.size, b) \in e.prev_free /\ b \in {b}
    BY <1>2, <1>9
  <2> QED BY <1>3, <1>9, <2>1, InsertGood
<1>11. SameSizes(g, c, O \ {a})
  BY <1>4, <1>7, <1>8, <1>9, <1>10 DEF SameSizes, SameBlocks
<1>12. {b} \ {b} = {}
  OBVIOUS
<1> QED BY <1>7, <1>10, <1>11, <1>12

(* What locate_free returns is in a list and large enough.                 *)
LEMMA LocateIs ==
  ASSUME NEW c, NEW O, Good(c, O, {}), NEW q \in Nat, NEW n, n = TlsfAlign * q, n \in Nat,
         n <= TwoTo[TlsfBits - 1], NEW a \in locate_free(c, n)
  PROVE  a \in Listed(c) /\ c.size[a] >= n
<1>1. PICK k : k = mapping(round_up_size(n))
  OBVIOUS
<1>2. PICK j \in c.sl : c.list[j] # <<>> /\ a = c.list[j][1] /\ ClassFrom(j, k)
  BY <1>1 DEF locate_free, ClassFrom
<1>3. PICK l : l = c.list[j]
  OBVIOUS
<1>4. j \in Classes /\ l \in Seq(Int) /\ l # <<>> /\ a = l[1] /\ Linked(c)
  BY <1>2, <1>3 DEF Linked, Good
<1>5. Holds(l, a)
  <2>1. 1 \in 1..Len(l)
    BY <1>4
  <2> QED BY <1>4, <2>1 DEF Holds
<1>6. a \in Listed(c) /\ mapping(c.size[a]) = j
  <2>1. a \in Listed(c)
    BY <1>3, <1>4, <1>5, ListedIs
  <2>2. mapping(c.size[a]) = j
    BY <1>3, <1>4, <1>5, Zenon DEF Linked
  <2> QED BY <2>1, <2>2
<1>7. PICK s \in Nat : s = c.size[a] /\ s < TlsfMod
  <2>1. PICK s \in Nat : s = c.size[a] /\ s < TlsfPool
    BY <1>6, GoodNext
  <2>2. TlsfPool \in Nat /\ TlsfPool < TlsfMod
    BY TlsfAssumption
  <2>3. TlsfMod \in Nat
    <3>1. TlsfBits \in 0..TlsfBits
      BY TlsfAssumption
    <3> QED BY <3>1, TwoToIs DEF TlsfMod
  <2> QED BY <2>1, <2>2, <2>3
<1>8. s >= n
  <2>1. ClassFrom(mapping(s), mapping(round_up_size(n)))
    BY <1>1, <1>2, <1>6, <1>7
  <2> QED BY <1>7, <2>1, ClassEnough
<1> QED BY <1>6, <1>7, <1>8

(* HEAP_ALIGN_UP, of a size that is at most half the word.                 *)
LEMMA NeededIs ==
  ASSUME NEW n \in Nat, n <= TwoTo[TlsfBits - 1]
  PROVE  /\ AlignUp(n) \in Nat /\ n <= AlignUp(n)
         /\ NeededSize(n) \in Nat /\ n <= NeededSize(n) /\ NeededSize(n) <= TwoTo[TlsfBits - 1]
         /\ \E q \in Nat : NeededSize(n) = TlsfAlign * q
<1>0. PICK B \in Nat, F \in Nat \ {0}, G \in Nat \ {0}, A \in Nat \ {0}, P \in Nat \ {0} :
        B = TlsfBits /\ F = FL_INDEX_SHIFT /\ G = SL_INDEX_COUNT_LOG2 /\ F + G < B
        /\ A = TlsfAlign /\ TwoTo[F] = A /\ P = BLOCK_PAYLOAD_MIN /\ P % A = 0 /\ P <= TwoTo[B - 1]
  BY TlsfAssumption
<1>1. PICK H \in Nat \ {0} : H = TwoTo[B - 1] /\ TlsfMod = 2 * H
  <2>1. B \in 1..B /\ B - 1 \in 0..B
    BY <1>0
  <2> QED BY <1>0, <2>1, TwoToIs DEF TlsfMod
<1>2. PICK t \in Nat : H = A * t
  <2>1. F \in Nat /\ (B - 1) - F \in Nat /\ F + ((B - 1) - F) = B - 1 /\ B - 1 <= B
        /\ (B - 1) - F \in 0..B
    BY <1>0
  <2>2. TwoTo[F + ((B - 1) - F)] = TwoTo[F] * TwoTo[(B - 1) - F]
    BY <1>0, <2>1, TwoToSum
  <2>3. TwoTo[(B - 1) - F] \in Nat
    BY <1>0, <2>1, TwoToIs
  <2> QED BY <1>0, <1>1, <2>1, <2>2, <2>3
<1>3. A <= H
  <2>1. t # 0
    BY <1>1, <1>2
  <2>2. A * t >= A
    BY <2>1, Z3
  <2> QED BY <1>2, <2>2
<1>4. PICK u \in Nat : RoundsTo(TlsfMod, A, n, u)
  <2>1. TlsfMod \in Nat \ {0} /\ n + A - 1 < TlsfMod
    BY <1>0, <1>1, <1>3
  <2> QED BY <2>1, RoundUp
<1>5. PICK m \in Nat : m = A * u /\ m = AlignUp(n) /\ n <= m
  <2>1. A * u \in Nat
    BY Z3
  <2>2. AlignUp(n) = A * u /\ n <= A * u
    BY <1>0, <1>4 DEF RoundsTo, AlignUp
  <2> QED BY <2>1, <2>2
<1>6. m <= H
  <2>1. n <= A * t
    BY <1>0, <1>1, <1>2
  <2>2. u <= t
    BY <1>4, <2>1 DEF RoundsTo
  <2>3. A * u <= A * t
    BY <2>2, Z3
  <2> QED BY <1>2, <1>5, <2>3
<1>7. PICK v \in Nat : P = A * v
  <2>1. PICK v, w : v = P \div A /\ w = P % A
    OBVIOUS
  <2>2. v \in Int /\ P = A * v + 0
    BY <1>0, <2>1, DivOf
  <2>3. A * v \in Int
    BY <2>2, Z3
  <2>4. P = A * v
    BY <2>2, <2>3
  <2>5. v \in Nat
    <3>1. CASE v < 0
      <4>1. A * v <= 0
        BY <2>2, <3>1, Z3
      <4> QED BY <2>3, <2>4, <4>1
    <3> QED BY <2>2, <3>1
  <2> QED BY <2>4, <2>5
<1>8. NeededSize(n) = IF m < P THEN P ELSE m
  BY <1>0, <1>5 DEF NeededSize
<1>9. n <= NeededSize(n) /\ NeededSize(n) \in Nat /\ NeededSize(n) <= H
  BY <1>0, <1>1, <1>5, <1>6, <1>8
<1>10. \E q \in Nat : NeededSize(n) = A * q
  BY <1>5, <1>7, <1>8
<1> QED BY <1>0, <1>1, <1>5, <1>9, <1>10

(* A product that calloc accepts fits the word.                            *)
LEMMA ProductFits ==
  ASSUME NEW x \in Nat, NEW y \in Nat \ {0}, NEW M \in Nat \ {0}, x <= (M - 1) \div y
  PROVE  x * y \in Nat /\ x * y < M /\ (x * y) % M = x * y
<1>1. PICK q, w : q = (M - 1) \div y /\ w = (M - 1) % y
  OBVIOUS
<1>2. q \in Int /\ w \in 0..(y - 1) /\ M - 1 = y * q + w /\ x <= q
  <2>1. M - 1 \in Int
    OBVIOUS
  <2>2. PICK e \in Int : e = M - 1
    BY <2>1
  <2> QED BY <1>1, <2>2, DivOf
<1>3. x * y <= y * q /\ x * y \in Nat /\ y * q \in Int
  BY <1>2, Z3
<1>4. x * y < M
  BY <1>2, <1>3
<1>5. PICK m \in Nat : m = x * y
  BY <1>3
<1>6. m % M = m
  <2>1. 0 \in Int /\ m \in 0..(M - 1) /\ m = M * 0 + m
    BY <1>4, <1>5
  <2> QED BY <2>1, ModIs
<1> QED BY <1>3, <1>4, <1>5, <1>6

-----------------------------------------------------------------------------
(* TLSF: the invariant                                                     *)

(* Every block is a caller's, and covers what it asked for, or listed; no  *)
(* flag is being changed between two operations.                           *)
HoldsPool(c, o) == /\ Good(c, DOMAIN o, {})
              /\ \A a \in DOMAIN o : o[a] \in Nat /\ o[a] <= c.size[a]

TlsfInv == ~overrun /\ HoldsPool(ctl, owned)

(* The sizes asked for are at most half the word, so that what is rounded  *)
(* up does not wrap, and their row exists: that is, up to 15 * 2^19 bytes  *)
(* for the 20 rows of the code.  So are the products that calloc does not  *)
(* refuse.  The code relies on its callers for this and checks neither.    *)
InReach(n) == n <= TwoTo[TlsfBits - 1] /\ ~Strays(NeededSize(n))

SizesMapped ==
  /\ \A n \in TlsfRequest : InReach(n)
  /\ \A c \in TlsfCallocs : c[1] * c[2] < TlsfMod => InReach(c[1] * c[2])

LEMMA GrantFits ==
  ASSUME NEW c, NEW o, HoldsPool(c, o), NEW n \in Nat, n <= TwoTo[TlsfBits - 1],
         NEW a \in locate_free(c, NeededSize(n))
  PROVE  HoldsPool(Carve(c, a, NeededSize(n)), Put(o, a, n))
<1>1. PICK m \in Nat, q \in Nat : m = NeededSize(n) /\ m = TlsfAlign * q /\ n <= m /\ m <= TwoTo[TlsfBits - 1]
  BY NeededIs
<1>2. PICK O : O = DOMAIN o
  OBVIOUS
<1>3. PICK g, w : g = Carve(c, a, NeededSize(n)) /\ w = Put(o, a, n)
  OBVIOUS
<1>4. a \in Listed(c) /\ c.size[a] >= m
  BY <1>1, LocateIs DEF HoldsPool
<1>5. Good(g, O \cup {a}, {}) /\ SameSizes(g, c, O) /\ g.size[a] >= m
  BY <1>1, <1>2, <1>3, <1>4, CarveGood DEF HoldsPool
<1>6. DOMAIN w = O \cup {a} /\ w[a] = n /\ \A x \in O \ {a} : w[x] = o[x]
  BY <1>2, <1>3 DEF Put
<1>7. ASSUME NEW x \in DOMAIN w PROVE w[x] \in Nat /\ w[x] <= g.size[x]
  <2>1. CASE x = a
    <3>1. g.size[a] \in Nat
      <4>1. a \in (O \cup {a}) \cup Listed(g)
        OBVIOUS
      <4> QED BY <1>5, <4>1, GoodNext, Zenon
    <3> QED BY <1>1, <1>5, <1>6, <2>1, <3>1
  <2>2. CASE x # a
    BY <1>2, <1>5, <1>6, <2>2 DEF HoldsPool, SameSizes
  <2> QED BY <2>1, <2>2
<1>8. HoldsPool(g, w)
  BY <1>5, <1>6, <1>7 DEF HoldsPool
<1> QED BY <1>3, <1>8

LEMMA ReleaseFits ==
  ASSUME NEW c, NEW o, HoldsPool(c, o), NEW a \in DOMAIN o
  PROVE  HoldsPool(Release(c, a), Drop1(o, a))
<1>1. PICK g, w, O : g = Release(c, a) /\ w = Drop1(o, a) /\ O = DOMAIN o
  OBVIOUS
<1>2. Good(g, O \ {a}, {}) /\ SameSizes(g, c, O \ {a})
  BY <1>1, ReleaseGood DEF HoldsPool
<1>3. DOMAIN w = O \ {a} /\ \A x \in O \ {a} : w[x] = o[x]
  BY <1>1, Drop1Is
<1>4. HoldsPool(g, w)
  BY <1>1, <1>2, <1>3 DEF HoldsPool, SameSizes
<1> QED BY <1>1, <1>4

LEMMA FirstFits ==
  ASSUME TlsfInit
  PROVE  TlsfInv
<1>1. PICK S \in Nat \ {0}, H \in Nat \ {0} : S = Sentinel /\ H = BLOCK_HDR_OFFSET /\ S - H \in Nat
  BY TlsfAssumption DEF Sentinel
<1>2. PICK c : c = [size |-> [a \in {0, Sentinel} |-> IF a = 0 THEN Sentinel - BLOCK_HDR_OFFSET ELSE 0],
     prev_phys |-> [a \in {0, Sentinel} |-> IF a = 0 THEN NoPhys ELSE 0],
     free |-> {0}, prev_free |-> {Sentinel},
     list |-> [k \in Classes |-> <<>>], sl |-> {}, fl |-> {}]
  OBVIOUS
<1>3. PICK z, p : z = c.size /\ p = c.prev_phys
  OBVIOUS
<1>4. /\ DOMAIN z = {0, S} /\ DOMAIN p = {0, S} /\ z[0] = S - H /\ z[S] = 0 /\ p[S] = 0
  BY <1>1, <1>2, <1>3
<1>5. Nx(z, 0) = S
  BY <1>1, <1>4 DEF Nx
<1>6. Shape(z, p)
  <2>1. \A x, y \in DOMAIN z : x < y => x = 0 /\ y = S
    BY <1>1, <1>4
  <2>2. \A x \in DOMAIN z : z[x] \in Nat
    BY <1>1, <1>4
  <2>3. DOMAIN z \subseteq 0..S
    BY <1>1, <1>4
  <2>4. \A x, y \in DOMAIN z : x < y => Nx(z, x) <= y
    BY <1>1, <1>5, <2>1
  <2> QED BY <1>1, <1>4, <1>5, <2>2, <2>3, <2>4 DEF Shape
<1>7. Linked(c) /\ Listed(c) = {}
  <2>1. PICK l : l = c.list /\ l = [k \in Classes |-> <<>>]
    BY <1>2
  <2>2. \A k \in Classes : l[k] = <<>> /\ l[k] \in Seq(Int) /\ Distinct(l[k]) /\ \A x : ~Holds(l[k], x)
    <3>0. <<>> \in Seq(Int)
      OBVIOUS
    <3>1. PICK e \in Seq(Int) : e = <<>>
      BY <3>0, Zenon
    <3>2. Distinct(e) /\ \A x : ~Holds(e, x)
      <4>1. Len(e) = 0
        BY <3>1
      <4> QED BY <4>1 DEF Distinct, Holds
    <3> QED BY <2>1, <3>1, <3>2
  <2>3. Linked(c)
    BY <1>2, <2>1, <2>2 DEF Linked
  <2>4. Listed(c) = {}
    BY <2>1, <2>2, <2>3, ListedIs
  <2> QED BY <2>3, <2>4
<1>8. Good(c, {0}, {0})
  <2>1. c.free = {0} /\ c.prev_free = {Sentinel} /\ IsCtl(c)
    BY <1>2 DEF IsCtl
  <2> QED BY <1>1, <1>3, <1>4, <1>6, <1>7, <2>1 DEF Good
<1>9. ctl = free_list_insert(c, 0)
  BY <1>2 DEF TlsfInit, tlsf_init
<1>10. Nx(c.size, 0) \in c.prev_free
  BY <1>1, <1>2, <1>3, <1>5
<1>11. Good(ctl, {0} \ {0}, {0} \ {0})
  <2>1. 0 \in {0}
    OBVIOUS
  <2> QED BY <1>8, <1>9, <1>10, <2>1, InsertGood
<1>12. DOMAIN owned = {}
  BY DEF TlsfInit
<1>13. {0} \ {0} = {}
  OBVIOUS
<1>14. Good(ctl, DOMAIN owned, {})
  BY <1>11, <1>12, <1>13
<1>15. ~overrun
  BY DEF TlsfInit
<1> QED BY <1>12, <1>14, <1>15 DEF TlsfInv, HoldsPool

LEMMA TlsfStep ==
  ASSUME SizesMapped, TlsfInv, [TlsfNext]_tlsfvars
  PROVE  TlsfInv'
<1>1. ASSUME NEW n \in Nat, InReach(n), NEW old, GrantTlsf(n, n, old) PROVE TlsfInv'
  <2>1. n <= TwoTo[TlsfBits - 1] /\ ~Strays(NeededSize(n))
    BY <1>1 DEF InReach
  <2>2. overrun' = overrun /\ \E a \in locate_free(ctl, NeededSize(n)) :
          ctl' = Carve(ctl, a, NeededSize(n)) /\ owned' = Put(owned, a, n)
    BY <1>1, <2>1 DEF GrantTlsf
  <2> QED BY <2>1, <2>2, GrantFits DEF TlsfInv
<1>2. ASSUME NEW n \in TlsfRequest, vibe_tlsf_alloc(n) PROVE TlsfInv'
  BY <1>1, <1>2, TlsfAssumption DEF vibe_tlsf_alloc, SizesMapped
<1>3. ASSUME NEW c \in TlsfCallocs, vibe_tlsf_calloc(c[1], c[2]) PROVE TlsfInv'
  <2>1. PICK x \in Nat, y \in Nat \ {0} : x = c[1] /\ y = c[2] /\ x <= (TlsfMod - 1) \div y
    <3>1. c[1] \in Nat /\ c[2] \in Nat
      BY TlsfAssumption
    <3> QED BY <1>3, <3>1 DEF vibe_tlsf_calloc
  <2>2. TlsfMod \in Nat \ {0}
    <3>1. TlsfBits \in 0..TlsfBits
      BY TlsfAssumption
    <3> QED BY <3>1, TwoToIs DEF TlsfMod
  <2>3. PICK n \in Nat : n = x * y /\ n < TlsfMod /\ (x * y) % TlsfMod = n
    BY <2>1, <2>2, ProductFits
  <2>4. InReach(n)
    BY <2>1, <2>3 DEF SizesMapped
  <2>5. GrantTlsf(n, n, {})
    BY <1>3, <2>1, <2>3 DEF vibe_tlsf_calloc
  <2> QED BY <1>1, <2>4, <2>5
<1>4. ASSUME NEW a \in DOMAIN owned, vibe_tlsf_free(a) PROVE TlsfInv'
  BY <1>4, ReleaseFits DEF vibe_tlsf_free, TlsfInv
<1>5. ASSUME NEW a \in DOMAIN owned, TlsfReallocFrees(a) PROVE TlsfInv'
  BY <1>5, ReleaseFits DEF TlsfReallocFrees, TlsfInv
<1>6. ASSUME NEW a \in DOMAIN owned, NEW n \in TlsfRequest, vibe_tlsf_realloc(a, n) PROVE TlsfInv'
  <2>1. n \in Nat /\ InReach(n) /\ n <= TwoTo[TlsfBits - 1]
    BY TlsfAssumption DEF SizesMapped, InReach
  <2>2. CASE AlignUp(n) <= ctl.size[a]
    <3>1. owned' = [owned EXCEPT ![a] = n] /\ ctl' = ctl /\ overrun' = overrun
      BY <1>6, <2>2 DEF vibe_tlsf_realloc
    <3>2. n <= ctl.size[a]
      <4>1. PICK m \in Nat : m = AlignUp(n) /\ n <= m
        BY <2>1, NeededIs
      <4>2. ctl.size[a] \in Nat
        <5>1. a \in DOMAIN owned \cup Listed(ctl)
          OBVIOUS
        <5> QED BY <5>1, GoodNext, Zenon DEF TlsfInv, HoldsPool
      <4> QED BY <2>1, <2>2, <4>1, <4>2
    <3>3. HoldsPool(ctl, owned')
      BY <2>1, <3>1, <3>2 DEF TlsfInv, HoldsPool
    <3> QED BY <3>1, <3>3 DEF TlsfInv
  <2>3. CASE ~(AlignUp(n) <= ctl.size[a])
    <3>1. GrantTlsf(n, n, {a})
      BY <1>6, <2>3 DEF vibe_tlsf_realloc
    <3> QED BY <1>1, <2>1, <3>1
  <2> QED BY <2>2, <2>3
<1>7. ASSUME UNCHANGED tlsfvars PROVE TlsfInv'
  BY <1>7 DEF tlsfvars, TlsfInv
<1>8. CASE TlsfNext
  BY <1>2, <1>3, <1>4, <1>5, <1>6, <1>8, Zenon DEF TlsfNext
<1> QED BY <1>7, <1>8

LEMMA TlsfInvSound ==
  ASSUME TlsfInv
  PROVE  TlsfSound
<1>1. PICK z, p, L, O : z = ctl.size /\ p = ctl.prev_phys /\ L = Listed(ctl) /\ O = DOMAIN owned
  OBVIOUS
<1>2. Good(ctl, O, {})
  BY <1>1 DEF TlsfInv, HoldsPool
<1>3. Shape(z, p) /\ Linked(ctl) /\ O \cup L = Blocks /\ O \cap L = {} /\ ctl.free \subseteq L
  BY <1>1, <1>2 DEF Good, Blocks
<1>4. ASSUME NEW a \in Blocks
      PROVE  /\ block_next(ctl, a) \in DOMAIN ctl.size /\ ctl.prev_phys[block_next(ctl, a)] = a
             /\ block_next(ctl, a) \in ctl.prev_free <=> a \in Listed(ctl)
  <2>1. PICK n : n = block_next(ctl, a) /\ n = Nx(z, a)
    BY <1>1, NextIs
  <2>2. a \in DOMAIN z \ {Sentinel}
    BY <1>1 DEF Blocks
  <2>3. n \in DOMAIN z /\ p[n] = a
    BY <1>3, <2>1, <2>2 DEF Shape
  <2>4. n \in ctl.prev_free <=> a \in L
    BY <1>1, <1>2, <2>1, <2>2 DEF Good
  <2> QED BY <1>1, <2>1, <2>3, <2>4
<1>5. TlsfTiles
  BY <1>4 DEF TlsfTiles
<1>6. ASSUME NEW a \in DOMAIN owned PROVE ctl.size[a] >= owned[a] /\ a \notin ctl.free
  <2>1. a \notin ctl.free
    BY <1>1, <1>3
  <2>2. a \in O \cup Listed(ctl)
    BY <1>1
  <2>3. ctl.size[a] \in Nat /\ owned[a] \in Nat /\ owned[a] <= ctl.size[a]
    BY <1>2, <2>2, GoodNext DEF TlsfInv, HoldsPool
  <2> QED BY <2>1, <2>3
<1>7. ASSUME NEW k \in Classes, NEW i \in DOMAIN ctl.list[k]
      PROVE  /\ mapping(ctl.size[ctl.list[k][i]]) = k
             /\ \A j \in DOMAIN ctl.list[k] : ctl.list[k][i] = ctl.list[k][j] => i = j
  <2>1. PICK l : l = ctl.list[k]
    OBVIOUS
  <2>2. l \in Seq(Int) /\ Distinct(l) /\ DOMAIN l = 1..Len(l)
    BY <1>3, <2>1 DEF Linked
  <2>3. Holds(l, l[i])
    BY <2>1, <2>2 DEF Holds
  <2>4. mapping(ctl.size[l[i]]) = k
    BY <1>3, <2>1, <2>3, Zenon DEF Linked
  <2>5. \A j \in 1..Len(l) : l[i] = l[j] => i = j
    BY <2>1, <2>2 DEF Distinct
  <2> QED BY <2>1, <2>2, <2>4, <2>5
<1>8. ctl.sl = {k \in Classes : ctl.list[k] # <<>>} /\ ctl.fl = {k[1] : k \in ctl.sl}
  BY <1>3 DEF Linked
<1>9. DOMAIN owned \cup Listed(ctl) = Blocks /\ DOMAIN owned \cap Listed(ctl) = {}
  BY <1>1, <1>3
<1>10. TlsfAccounts
  BY <1>6, <1>7, <1>8, <1>9, Zenon DEF TlsfAccounts
<1>11. ~overrun
  BY DEF TlsfInv
<1> QED BY <1>5, <1>10, <1>11 DEF TlsfSound

(* Whatever is allocated, resized and freed, the blocks of the TLSF heap   *)
(* tile the pool, each belongs to a caller whose request it covers or      *)
(* hangs in the list of its size, flags and bitmaps say which, and no      *)
(* search leaves the arrays (heap_tlsf.c), as long as rounding up a size   *)
(* neither wraps the word nor leads past the last of the rows.             *)
THEOREM TlsfKeepsPool == ASSUME SizesMapped PROVE TlsfSpec => []TlsfSound
<1>1. TlsfInit => TlsfInv
  BY FirstFits
<1>2. TlsfInv /\ [TlsfNext]_tlsfvars => TlsfInv'
  BY TlsfStep
<1>3. TlsfInv => TlsfSound
  BY TlsfInvSound
<1> QED BY <1>1, <1>2, <1>3, PTL DEF TlsfSpec

=============================================================================
