------------------------------- MODULE Memory -------------------------------
(***************************************************************************)
(* The memory of the debuggee as the debugger reads it (memory.cpp), the   *)
(* commands alloc, free and Fill, and the sessions, which replace the      *)
(* debuggee and its memory but not the variables of the debugger.          *)
(*                                                                         *)
(* The system is external: `mem` and `allocs` are what ReadProcessMemory,  *)
(* VirtualQueryEx, VirtualAllocEx, VirtualFreeEx and Fill do as the code   *)
(* relies on them.  A page is readable exactly when it is committed, since *)
(* memread makes it readable when the first attempt fails.                 *)
(***************************************************************************)
EXTENDS Variables, Integers, FiniteSets

CONSTANTS
  PageSize,
  Image,        \* pages of the image of every debuggee
  Heap,         \* pages that VirtualAllocEx may give out
  Byte,         \* values of a byte, 0 included
  Session       \* process ids, 0 excluded

PageSizeOK == PageSize \in Nat \ {0}
PagesOK == Image \in SUBSET (Nat \ {0}) /\ Heap \in SUBSET (Nat \ {0})
AddressesAreValues ==
  \A p \in Image \cup Heap, rva \in 0 .. PageSize - 1 : p * PageSize + rva \in Value

ASSUME PageSizeAssumption == PageSizeOK
ASSUME PagesAssumption == PagesOK /\ AddressesAreValues /\ Image \cap Heap = {}
ASSUME ByteAssumption == 0 \in Byte
ASSUME SessionAssumption == Session \subseteq Value \ {0} /\ 1 \in Value

VARIABLES
  mem,          \* contents of the addresses that can be committed
  allocs,       \* reservations made with alloc: base page and number of pages
  session,      \* id of the debuggee, 0: no debuggee
  lost          \* $lastalloc was left behind by its debuggee (auxiliary)

memory == <<mem, allocs, session, lost>>
memoryVars == <<vars, memory>>

Addresses(pages) == {a \in Value : a \div PageSize \in pages}
Allocation == [base : Heap, pages : Nat \ {0}]
PagesOf(r) == r.base .. r.base + r.pages - 1
Committed == Image \cup UNION {PagesOf(r) : r \in allocs}

MemoryTypeOK ==
  /\ VarsTypeOK
  /\ mem \in [Addresses(Image \cup Heap) -> Byte]
  /\ allocs \in SUBSET Allocation
  /\ session \in Session \cup {0}
  /\ lost \in BOOLEAN

Zeroed(pages) ==
  [a \in Addresses(Image \cup Heap) |-> IF a \div PageSize \in pages THEN 0 ELSE mem[a]]

MemoryInit ==
  /\ VarsInit
  /\ mem = [a \in Addresses(Image \cup Heap) |-> 0]
  /\ allocs = {}
  /\ session = 0
  /\ lost = FALSE

-----------------------------------------------------------------------------
(* memread.                                                                 *)

Rva(addr) == addr % PageSize
LastPage(n) == n \div PageSize         \* the loop runs for i in 0 .. LastPage(n)

\* sizeRead and startRva when the loop reads page i.
SizeRead(addr, i) == IF i = 0 THEN 0 ELSE i * PageSize - Rva(addr)
StartRva(addr, i) == IF i = 0 THEN Rva(addr) ELSE 0

\* Mutant of CopySize: no test for the end of the buffer.
CopyWholePage(addr, n, i) == PageSize - StartRva(addr, i)

CopySize(addr, n, i) ==
  IF SizeRead(addr, i) + PageSize > n THEN n - SizeRead(addr, i)
  ELSE PageSize - StartRva(addr, i)

\* The pages the loop reads, beginning with that of addr.
PagesRead(addr, n) == {addr \div PageSize + i : i \in 0 .. LastPage(n)}
ReadSucceeds(addr, n) == addr # 0 /\ n # 0 /\ PagesRead(addr, n) \subseteq Committed

\* Mutant of PageByte: the offset in the first page is used for every page.
PageByteSameRva(addr, i, k, junk) ==
  LET offset == Rva(addr) + k - SizeRead(addr, i) IN
  IF offset < PageSize THEN mem[(addr \div PageSize + i) * PageSize + offset] ELSE junk[k]

\* The byte that the copy of page i puts at index k: when the copy runs over the
\* end of curPage, whatever lies behind it on the stack.
PageByte(addr, i, k, junk) ==
  LET offset == StartRva(addr, i) + k - SizeRead(addr, i) IN
  IF offset < PageSize THEN mem[(addr \div PageSize + i) * PageSize + offset] ELSE junk[k]

\* The buffer after a successful read, indexed from 0.
memread(addr, n, junk) ==
  LET buffer[i \in 0 .. LastPage(n)] ==
        [k \in 0 .. n - 1 |->
           IF SizeRead(addr, i) <= k /\ k < SizeRead(addr, i) + CopySize(addr, n, i)
           THEN PageByte(addr, i, k, junk)
           ELSE IF i = 0 THEN junk[k] ELSE buffer[i - 1][k]]
  IN  buffer[LastPage(n)]

\* memfindbaseaddr walks the regions from address 0: a region is an allocation or a
\* run of pages of the image.  The region of an address that is committed.
Region(addr) ==
  LET page == addr \div PageSize
      in == {r \in allocs : page \in PagesOf(r)}
  IN  IF in # {} THEN PagesOf(CHOOSE r \in in : TRUE)
      ELSE {p \in Image : (IF p < page THEN p .. page ELSE page .. p) \subseteq Image}

-----------------------------------------------------------------------------
(* The commands, all of them debug-only.                                    *)

Debugging == session # 0

Free(pages) == pages \subseteq Heap \ Committed

\* Mutant of Places: the size is rounded down.
PlacesRoundedDown(n) ==
  {r \in [base : Heap, pages : {n \div PageSize}] : Free(PagesOf(r))}

\* The runs of free pages that VirtualAllocEx may choose for n bytes.
Places(n) ==
  {r \in [base : Heap, pages : {(n + PageSize - 1) \div PageSize}] : Free(PagesOf(r))}

\* VirtualAllocEx may fail for other reasons.
AllocFails ==
  /\ Debugging
  /\ vars' = SetByDebugger([w \in {"res"} |-> 0])
  /\ UNCHANGED memory

Alloc(n) ==
  /\ Debugging
  /\ \E r \in Places(n) :
       /\ allocs' = allocs \cup {r}
       /\ mem' = Zeroed(PagesOf(r))
       /\ vars' = SetByDebugger([w \in {"res", "lastalloc"} |-> r.base * PageSize])
  /\ lost' = FALSE
  /\ UNCHANGED session

\* Mutant of FreeMemory: $lastalloc is not reset.
FreeMemoryKeepsLast(addr) ==
  LET freed == {r \in allocs : r.base * PageSize = addr} IN
  /\ Debugging
  /\ allocs' = allocs \ freed
  /\ vars' = SetByDebugger([w \in {"res"} |-> IF freed = {} THEN 0 ELSE 1])
  /\ UNCHANGED <<mem, session, lost>>

\* Without an argument the address is $lastalloc, zero included.
FreeMemory(addr) ==
  LET freed == {r \in allocs : r.base * PageSize = addr}
      ok == IF freed = {} THEN 0 ELSE 1
  IN
  /\ Debugging
  /\ allocs' = allocs \ freed
  /\ IF addr = varget("lastalloc")
     THEN vars' = SetByDebugger([w \in {"res", "lastalloc"} |->
                                   IF w = "res" THEN ok ELSE 0]) /\ lost' = FALSE
     ELSE vars' = SetByDebugger([w \in {"res"} |-> ok]) /\ UNCHANGED lost
  /\ UNCHANGED <<mem, session>>

\* Without a size: to the end of the region.  Fill of the engine fails when
\* a page is not committed; the command then only says so.
FillBytes(bytes, value) ==
  /\ Debugging
  /\ \A a \in bytes : a \div PageSize \in Committed
  /\ mem' = [a \in DOMAIN mem |-> IF a \in bytes THEN value ELSE mem[a]]
  /\ UNCHANGED <<vars, allocs, session, lost>>

Fill(addr, value, n) == FillBytes(addr .. addr + n - 1, value)

FillRest(addr, value) ==
  /\ addr \div PageSize \in Committed
  /\ FillBytes({a \in Addresses(Region(addr)) : a >= addr}, value)

\* threadDebugLoop: before DebugLoop $hp and $pid are set, after it they are reset.
\* $lastalloc stays.
SessionBegins(s) ==
  /\ ~Debugging
  /\ session' = s
  /\ mem' = Zeroed(Image)
  /\ vars' = SetByDebugger([w \in {"hp", "pid"} |-> s])
  /\ UNCHANGED <<allocs, lost>>

SessionEnds ==
  /\ Debugging
  /\ session' = 0
  /\ allocs' = {}
  /\ vars' = SetByDebugger([w \in {"hp", "pid"} |-> 0])
  /\ lost' = (varget("lastalloc") # 0)
  /\ UNCHANGED mem

\* The debuggee frees memory the debugger reserved for it.
DebuggeeFrees ==
  /\ Debugging
  /\ \E r \in allocs :
       /\ allocs' = allocs \ {r}
       /\ lost' = (lost \/ varget("lastalloc") = r.base * PageSize)
  /\ UNCHANGED <<vars, mem, session>>

MemoryCommand ==
  \/ AllocFails
  \/ \E n \in 1 .. PageSize * Cardinality(Heap) : Alloc(n)
  \/ \E addr \in Addresses(Heap) \cup {varget("lastalloc")} : FreeMemory(addr)
  \/ \E addr \in DOMAIN mem, value \in Byte : FillRest(addr, value)
  \/ \E addr \in DOMAIN mem, value \in Byte, n \in 1 .. PageSize : Fill(addr, value, n)

SessionStep == SessionEnds \/ DebuggeeFrees \/ \E s \in Session : SessionBegins(s)

UserVariable == UserCall /\ UNCHANGED memory

MemoryNext == MemoryCommand \/ SessionStep \/ UserVariable

MemorySpec == MemoryInit /\ [][MemoryNext]_memoryVars

-----------------------------------------------------------------------------
(* Properties.                                                              *)

\* However a range that can be read lies on its pages, no copy of memread writes
\* outside the buffer of the caller.
ReadStaysInBuffer ==
  \A addr \in Value, n \in Value : ReadSucceeds(addr, n) =>
    \A i \in 0 .. LastPage(n) :
      /\ 0 <= SizeRead(addr, i) /\ 0 <= CopySize(addr, n, i)
      /\ SizeRead(addr, i) + CopySize(addr, n, i) <= n

\* The offset of the last byte: beyond it the loop has read one page too few.
EndsOnPagesRead(addr, n) == Rva(addr) + (n % PageSize) <= PageSize

\* A read that succeeds returns the bytes of the debuggee, over any number of pages,
\* when the range ends on the pages the loop reads.
ReadIsExact ==
  \A addr \in DOMAIN mem, n \in Value \ {0} :
    ReadSucceeds(addr, n) /\ EndsOnPagesRead(addr, n) =>
      \A v \in Byte : LET junk == [k \in 0 .. n - 1 |-> v] IN
        \A k \in 0 .. n - 1 : memread(addr, n, junk)[k] = mem[addr + k]

\* alloc.htm, free.htm: $lastalloc is zero or the base of memory that is reserved,
\* unless the debuggee freed it or is gone.
LastAllocIsAllocated ==
  \/ varget("lastalloc") = 0 \/ lost
  \/ \E r \in allocs : varget("lastalloc") = r.base * PageSize

\* No command of the user changes the process id or handle: $pid and $hp are
\* those of the debuggee, and 0 without one.
IdsAreTheSessions == varget("pid") = session /\ varget("hProcess") = session
=============================================================================
