----------------------------- MODULE Registers -----------------------------
(***************************************************************************)
(* The registers and flags of the debuggee as value.cpp names, reads and   *)
(* writes them.  GetContextData and SetContextData of TitanEngine are      *)
(* external: they read and write a whole register, which on 64 bits has    *)
(* the 32-bit register of the same family as its lower half.               *)
(*                                                                         *)
(* A mask is arithmetic: value&0xFFFF is value % Weight(2), where          *)
(* Weight(i) is what byte i counts.                                        *)
(***************************************************************************)
EXTENDS Integers

CONSTANTS
  ByteBits,     \* bits of a byte: 8
  UintBytes,    \* size of a uint: 4, and 8 in the 64-bit build
  UsedRegister, \* names in the commands of the user (all of them in the code)
  UsedFlag      \* names of flags in the commands of the user (likewise)

ASSUME BaseAssumption == ByteBits \in Nat \ {0} /\ UintBytes \in {4, 8}

VARIABLE regs   \* value, in Uint, of each register of the context

Weight(i) == 2 ^ (ByteBits * i)
Uint == 0 .. Weight(UintBytes) - 1
Win64 == UintBytes = 8

\* Bytes `low` to `low` + `bytes` - 1 of the register `of` of the context.
Part(of, low, bytes) == [of |-> of, low |-> low, bytes |-> bytes]

DwordRegister ==
  [n \in {"eax", "ebx", "ecx", "edx", "edi", "esi", "ebp", "esp", "eip", "eflags"} |->
     Part(n, 0, 4)]

SegmentRegister == [n \in {"gs", "fs", "es", "ds", "cs", "ss"} |-> Part(n, 0, 2)]

WordRegister ==
  [ax |-> Part("eax", 0, 2), bx |-> Part("ebx", 0, 2), cx |-> Part("ecx", 0, 2),
   dx |-> Part("edx", 0, 2), si |-> Part("esi", 0, 2), di |-> Part("edi", 0, 2),
   bp |-> Part("ebp", 0, 2), sp |-> Part("esp", 0, 2), ip |-> Part("eip", 0, 2)]

ByteRegister ==
  [al |-> Part("eax", 0, 1), bl |-> Part("ebx", 0, 1), cl |-> Part("ecx", 0, 1),
   dl |-> Part("edx", 0, 1), sil |-> Part("esi", 0, 1), dil |-> Part("edi", 0, 1),
   bpl |-> Part("ebp", 0, 1), spl |-> Part("esp", 0, 1), ipl |-> Part("eip", 0, 1),
   ah |-> Part("eax", 1, 1), bh |-> Part("ebx", 1, 1), ch |-> Part("ecx", 1, 1),
   dh |-> Part("edx", 1, 1), sih |-> Part("esi", 1, 1), dih |-> Part("edi", 1, 1),
   bph |-> Part("ebp", 1, 1), sph |-> Part("esp", 1, 1), iph |-> Part("eip", 1, 1)]

\* dr4 and dr5 are other names of dr6 and dr7.
DebugRegister ==
  [n \in {"dr0", "dr1", "dr2", "dr3", "dr4", "dr5", "dr6", "dr7"} |->
     Part(IF n = "dr4" THEN "dr6" ELSE IF n = "dr5" THEN "dr7" ELSE n, 0, UintBytes)]

NativeRegister ==
  [cip |-> Part("eip", 0, UintBytes), csp |-> Part("esp", 0, UintBytes),
   cflags |-> Part("eflags", 0, UintBytes)]

WideRegister ==
  [rax |-> Part("eax", 0, 8), rbx |-> Part("ebx", 0, 8), rcx |-> Part("ecx", 0, 8),
   rdx |-> Part("edx", 0, 8), rdi |-> Part("edi", 0, 8), rsi |-> Part("esi", 0, 8),
   rbp |-> Part("ebp", 0, 8), rsp |-> Part("esp", 0, 8), rip |-> Part("eip", 0, 8),
   rflags |-> Part("eflags", 0, 8), r8 |-> Part("r8", 0, 8), r9 |-> Part("r9", 0, 8),
   r10 |-> Part("r10", 0, 8), r11 |-> Part("r11", 0, 8), r12 |-> Part("r12", 0, 8),
   r13 |-> Part("r13", 0, 8), r14 |-> Part("r14", 0, 8), r15 |-> Part("r15", 0, 8)]

WidePartRegister ==
  [r8d |-> Part("r8", 0, 4), r9d |-> Part("r9", 0, 4), r10d |-> Part("r10", 0, 4),
   r11d |-> Part("r11", 0, 4), r12d |-> Part("r12", 0, 4), r13d |-> Part("r13", 0, 4),
   r14d |-> Part("r14", 0, 4), r15d |-> Part("r15", 0, 4),
   r8w |-> Part("r8", 0, 2), r9w |-> Part("r9", 0, 2), r10w |-> Part("r10", 0, 2),
   r11w |-> Part("r11", 0, 2), r12w |-> Part("r12", 0, 2), r13w |-> Part("r13", 0, 2),
   r14w |-> Part("r14", 0, 2), r15w |-> Part("r15", 0, 2),
   r8b |-> Part("r8", 0, 1), r9b |-> Part("r9", 0, 1), r10b |-> Part("r10", 0, 1),
   r11b |-> Part("r11", 0, 1), r12b |-> Part("r12", 0, 1), r13b |-> Part("r13", 0, 1),
   r14b |-> Part("r14", 0, 1), r15b |-> Part("r15", 0, 1)]

Tables ==
  {DwordRegister, SegmentRegister, WordRegister, ByteRegister, DebugRegister, NativeRegister}
    \cup IF Win64 THEN {WideRegister, WidePartRegister} ELSE {}

Register ==
  [n \in UNION {DOMAIN t : t \in Tables} |-> (CHOOSE t \in Tables : n \in DOMAIN t)[n]]

isregister(n) == n \in DOMAIN Register

\* Bit of each flag in eflags.
FlagBit ==
  [cf |-> 0, pf |-> 2, af |-> 4, zf |-> 6, sf |-> 7, tf |-> 8, if |-> 9, df |-> 10,
   of |-> 11, rf |-> 16, vm |-> 17, ac |-> 18, vif |-> 19, vip |-> 20, id |-> 21]

isflag(f) == f \in DOMAIN FlagBit

ASSUME UsedAssumption ==
  /\ UsedRegister \subseteq DOMAIN Register
  /\ UsedFlag \subseteq {f \in DOMAIN FlagBit : FlagBit[f] < ByteBits * UintBytes}

Context == {Register[n].of : n \in UsedRegister \cup {"cflags"}}

RegistersInit == regs = [r \in Context |-> 0]

-----------------------------------------------------------------------------
ByteAt(x, i) == (x \div Weight(i)) % Weight(1)

getregister(n) ==
  (regs[Register[n].of] \div Weight(Register[n].low)) % Weight(Register[n].bytes)

\* (value&0xFFFF)|(old&0xFFFF0000), for any size.
WithLow(old, bytes, v) == old - (old % Weight(bytes)) + (v % Weight(bytes))

\* Mutant of WithHigh: the mask is 0xFFFF0000, so that the low byte is lost.
WithHighLosingLow(old, v) == old - (old % Weight(2)) + (v % Weight(1)) * Weight(1)

\* ((value&0xFF)<<8)|(old&0xFFFF00FF)
WithHigh(old, v) == old - ByteAt(old, 1) * Weight(1) + (v % Weight(1)) * Weight(1)

\* The context after setregister(n, v).
setregister(n, v) ==
  LET r == Register[n] IN
  [regs EXCEPT ![r.of] = IF r.low = 1 THEN WithHigh(@, v) ELSE WithLow(@, r.bytes, v)]

valflagfromstring(f) == (regs["eflags"] \div 2 ^ FlagBit[f]) % 2 = 1

\* The flag is flipped when it is set and to be cleared, and whenever it is to be
\* set: setting a flag that is set clears it.
setflag(f, set) ==
  LET flip == set \/ valflagfromstring(f)
      bit == 2 ^ FlagBit[f]
  IN  [regs EXCEPT !["eflags"] =
         IF ~flip THEN @ ELSE IF valflagfromstring(f) THEN @ - bit ELSE @ + bit]

\* What valtostring does to the registers, and the debuggee, which leaves any values.
RegistersNext ==
  \/ \E n \in UsedRegister, v \in Uint : regs' = setregister(n, v)
  \/ \E f \in UsedFlag, set \in BOOLEAN : regs' = setflag(f, set)
  \/ regs' \in [Context -> Uint]

RegistersSpec == RegistersInit /\ [][RegistersNext]_regs

-----------------------------------------------------------------------------
BytesOf(n) == Register[n].low .. Register[n].low + Register[n].bytes - 1

\* Writing a register by any of its names changes the bytes of that name and no
\* other: the rest of a register of which a part is written keeps its value.
RegistersAreTheirBytes ==
  \A n \in UsedRegister, v \in Uint :
    LET new == setregister(n, v) IN
    \A r \in Context : \A i \in 0 .. UintBytes - 1 :
      ByteAt(new[r], i) = IF r = Register[n].of /\ i \in BytesOf(n)
                          THEN ByteAt(v, i - Register[n].low)
                          ELSE ByteAt(regs[r], i)
=============================================================================
