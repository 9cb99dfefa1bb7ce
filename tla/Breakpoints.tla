---------------------------- MODULE Breakpoints ----------------------------
(***************************************************************************)
(* The breakpoint list of the debugger (breakpoint.cpp), the breakpoint    *)
(* commands, the breakpoint callbacks and the memory reads that lift and   *)
(* plant every software breakpoint around them (dbgdisablebpx and          *)
(* dbgenablebpx), against the breakpoints TitanEngine really holds.        *)
(*                                                                         *)
(* The engine is external: bpx, hwbp and membp are what its calls do as    *)
(* the code relies on them.  They may fail at the addresses of MayFail:    *)
(* `failing` is the set of those at which they fail this time.  The opcode *)
(* of a software breakpoint is left out.  A command that only reports an   *)
(* error changes nothing and is not shown.  Definitions marked "Mutant of" *)
(* are not part of the model: they are plausible mistakes that show which  *)
(* property would catch them.                                              *)
(***************************************************************************)
EXTENDS Naturals, FiniteSets, SequencesExt

CONSTANTS
  SwAddr,       \* addresses given to SetBPX
  HwAddr,       \* addresses given to SetHardwareBreakpoint
  MemAddr,      \* addresses given to SetMemoryBPX
  BaseOf,       \* the base address of the memory region of each MemAddr
  Name,         \* names of breakpoints
  NoName,
  MaxHardware,  \* debug registers of the processor: 4
  Reader,       \* threads that read memory of the debuggee: "gui", "cmd", "dbg"
  MayFail       \* addresses at which a call of the engine may fail

ASSUME NoNameAssumption == NoName \notin Name
ASSUME MaxHardwareAssumption == MaxHardware \in Nat
ASSUME BaseAssumption == BaseOf \in [MemAddr -> MemAddr]

VARIABLES
  bplist,       \* the linked list of breakpoints, head first
  bpx,          \* engine: software breakpoints planted in the debuggee
  hwbp,         \* engine: addresses in debug registers
  membp,        \* engine: guarded regions
  reading,      \* threads between dbgdisablebpx and dbgenablebpx
  crashed,      \* the debugger used a null or a freed pointer
  off           \* addresses the user disabled (auxiliary)

engine == <<bpx, hwbp, membp>>
vars == <<bplist, engine, reading, crashed, off>>

Addr == SwAddr \cup HwAddr \cup MemAddr

Init ==
  /\ bplist = <<>>
  /\ bpx = {}
  /\ hwbp = {}
  /\ membp = {}
  /\ reading = {}
  /\ crashed = FALSE
  /\ off = {}

-----------------------------------------------------------------------------
(* The list and the engine.                                                 *)

Failing == SUBSET MayFail

IsSoftware(bp) == bp.type \in {"normal", "ss"}
Software == {i \in DOMAIN bplist : IsSoftware(bplist[i])}

\* The entries bpfind would return, by address and type; BPNORMAL also finds "ss".
Found(addr, type) ==
  {i \in DOMAIN bplist : bplist[i].addr = addr
                         /\ \/ bplist[i].type = type
                            \/ IsSoftware(bplist[i]) /\ type = "normal"}

\* Mutant of NameTaken: bpnew compares addresses only.
NameNeverTaken(name) == FALSE

\* bpnew refuses a second breakpoint of a type with the address or the name.
NameTaken(name) == name # NoName /\ \E i \in Software : bplist[i].name = name

New(addr, type, name, restore) ==
  [addr |-> addr, type |-> type, enabled |-> TRUE, name |-> name,
   restore |-> restore]

IsBPXEnabled(addr) == \E b \in bpx : b.addr = addr
Lifted(addrs) == {b \in bpx : b.addr \notin addrs}

\* Of the entries S, those the engine is called for with success, when it needs
\* the address to be set or free: of two at one address, the first in the list.
Succeeding(S, set, failing) ==
  {i \in S : /\ IsBPXEnabled(bplist[i].addr) = set
             /\ bplist[i].addr \notin failing
             /\ \A j \in S : bplist[j].addr = bplist[i].addr => i <= j}

\* Mutant of Marked: `enabled` does not follow the engine.
MarkedNot(S, enabled) == bplist

Marked(S, enabled) ==
  [i \in DOMAIN bplist |->
     IF i \in S THEN [bplist[i] EXCEPT !.enabled = enabled] ELSE bplist[i]]

AddrsOf(S) == {bplist[i].addr : i \in S}

\* The list when only the nodes S are left, in their order.
Rank(S, i) == Cardinality({j \in S : j <= i})
Only(S) == [k \in 1 .. Cardinality(S) |-> bplist[CHOOSE i \in S : Rank(S, i) = k]]

\* SetBPX(cur->addr, cur->type, ...) for the entries S.
Plant(S, failing) ==
  LET done == Succeeding(S, FALSE, failing) IN
  /\ bpx' = bpx \cup
       {[addr |-> bplist[i].addr, once |-> bplist[i].type = "ss"] : i \in done}
  /\ bplist' = Marked(done, TRUE)
  /\ UNCHANGED <<hwbp, membp, crashed>>

\* DeleteBPX(cur->addr) for the entries S.
Lift(S, failing) ==
  LET done == Succeeding(S, TRUE, failing) IN
  /\ bpx' = Lifted(AddrsOf(done))
  /\ bplist' = Marked(done, FALSE)
  /\ UNCHANGED <<hwbp, membp, crashed>>

-----------------------------------------------------------------------------
(* Commands: the command thread is not reading memory.                      *)

CommandThread == "cmd" \notin reading /\ UNCHANGED reading

\* The engine is asked first; bpnew may then refuse the name, and the command
\* only says "problem setting breakpoint!".
SetBPX(addr, type, name) ==
  /\ CommandThread
  /\ ~IsBPXEnabled(addr)
  /\ Found(addr, "normal") = {}
  /\ bpx' = bpx \cup {[addr |-> addr, once |-> type = "ss"]}
  /\ bplist' = IF NameTaken(name) THEN bplist
               ELSE Append(bplist, New(addr, type, name, FALSE))
  /\ off' = off \ {addr}
  /\ UNCHANGED <<hwbp, membp, crashed>>

EnableBPX(i, failing) ==
  /\ CommandThread
  /\ ~bplist[i].enabled
  /\ Plant({i}, failing)
  /\ off' = off \ AddrsOf(Succeeding({i}, FALSE, failing))

DisableBPX(i, failing) ==
  /\ CommandThread
  /\ bplist[i].enabled
  /\ Lift({i}, failing)
  /\ off' = off \cup AddrsOf(Succeeding({i}, TRUE, failing))

ToggleBPX(i, failing) == DisableBPX(i, failing) \/ EnableBPX(i, failing)

\* Without an argument the type of the entries is not checked.
EnableAll(failing) ==
  /\ CommandThread
  /\ Plant(DOMAIN bplist, failing)
  /\ off' = off \ AddrsOf(Succeeding(DOMAIN bplist, FALSE, failing))

DisableAll(failing) ==
  /\ CommandThread
  /\ Lift(DOMAIN bplist, failing)
  /\ off' = off \cup AddrsOf(Succeeding(DOMAIN bplist, TRUE, failing))

\* An entry the engine has not planted, a disabled one, cannot be deleted.
DeleteBPX(i, failing) ==
  /\ CommandThread
  /\ Succeeding({i}, TRUE, failing) # {}
  /\ bpx' = Lifted(AddrsOf({i}))
  /\ bplist' = RemoveAt(bplist, i)
  /\ off' = off \ AddrsOf({i})
  /\ UNCHANGED <<hwbp, membp, crashed>>

\* bpdel copies the second node over the head and frees it; a loop that deletes
\* the head and goes on with the second node then reads freed memory.
ReadsFreedNode == Len(bplist) > 1 /\ 1 \in Software

DeleteAll(failing) ==
  /\ CommandThread
  /\ bpx' = Lifted(AddrsOf(Software) \ failing)
  /\ bplist' = Only(DOMAIN bplist \ Software)
  /\ off' = off \ AddrsOf(Software)
  /\ crashed' \in IF ReadsFreedNode THEN BOOLEAN ELSE {FALSE}
  /\ UNCHANGED <<hwbp, membp>>

\* Looked up by the base of the region, stored by the address given.
SetMemoryBPX(addr, restore, failing) ==
  LET base == BaseOf[addr] IN
  /\ CommandThread
  /\ Found(base, "mem") = {}
  /\ base \notin failing /\ \A m \in membp : m.base # base
  /\ membp' = membp \cup {[base |-> base, restore |-> restore]}
  /\ bplist' = IF Found(addr, "mem") # {} THEN bplist
               ELSE Append(bplist, New(addr, "mem", NoName, restore))
  /\ UNCHANGED <<bpx, hwbp, crashed, off>>

\* Mutant of SetHardwareBreakpoint: no test for a free debug register.
SetHardwareAnyway(addr, failing) ==
  /\ CommandThread
  /\ Found(addr, "hw") = {}
  /\ addr \notin failing
  /\ hwbp' = hwbp \cup {addr}
  /\ bplist' = Append(bplist, New(addr, "hw", NoName, FALSE))
  /\ UNCHANGED <<bpx, membp, crashed, off>>

SetHardwareBreakpoint(addr, failing) ==
  /\ CommandThread
  /\ Cardinality(hwbp) < MaxHardware
  /\ Found(addr, "hw") = {}
  /\ addr \notin failing
  /\ hwbp' = hwbp \cup {addr}
  /\ bplist' = Append(bplist, New(addr, "hw", NoName, FALSE))
  /\ UNCHANGED <<bpx, membp, crashed, off>>

-----------------------------------------------------------------------------
(* Reads of the debuggee's memory, by any thread.                           *)

ReadBegin(r, failing) ==
  /\ r \notin reading
  /\ reading' = reading \cup {r}
  /\ Lift(Software, failing)
  /\ UNCHANGED off

\* Mutant of ReadEnd: single shot breakpoints are not planted again.
ReadEndNormal(r, failing) ==
  /\ r \in reading
  /\ reading' = reading \ {r}
  /\ Plant({i \in Software : bplist[i].type = "normal"}, failing)
  /\ UNCHANGED off

ReadEnd(r, failing) ==
  /\ r \in reading
  /\ reading' = reading \ {r}
  /\ Plant(Software, failing)
  /\ UNCHANGED off

-----------------------------------------------------------------------------
(* The debug thread.  The debuggee runs, so neither this thread nor the     *)
(* command thread (which lifts only while it is paused) is reading.         *)

Running == {"cmd", "dbg"} \cap reading = {} /\ UNCHANGED reading

\* cbUserBreakpoint: a single shot breakpoint leaves the list; the engine has
\* already removed its own.
UserBreakpoint(b) ==
  LET gone == {i \in Found(b.addr, "normal") : bplist[i].type = "ss"} IN
  /\ Running
  /\ b \in bpx
  /\ bpx' = IF b.once THEN bpx \ {b} ELSE bpx
  /\ bplist' = IF gone = {} THEN bplist
               ELSE RemoveAt(bplist, CHOOSE i \in gone : TRUE)
  /\ off' = off \ AddrsOf(gone)
  /\ UNCHANGED <<hwbp, membp, crashed>>

\* Mutant of MemoryBreakpoint: the test for auto-restoring is inverted.
MemoryBreakpointInverted(m) ==
  LET found == Found(m.base, "mem") IN
  /\ Running
  /\ m \in membp
  /\ membp' = IF m.restore THEN membp ELSE membp \ {m}
  /\ bplist' = IF \A i \in found : ~bplist[i].restore THEN bplist
               ELSE RemoveAt(bplist, CHOOSE i \in found : TRUE)
  /\ crashed' = (found = {})
  /\ UNCHANGED <<bpx, hwbp, off>>

\* cbMemoryBreakpoint: the entry is dereferenced even when it was not found.
MemoryBreakpoint(m) ==
  LET found == Found(m.base, "mem") IN
  /\ Running
  /\ m \in membp
  /\ membp' = IF m.restore THEN membp ELSE membp \ {m}
  /\ bplist' = IF \A i \in found : bplist[i].restore THEN bplist
               ELSE RemoveAt(bplist, CHOOSE i \in found : TRUE)
  /\ crashed' = (found = {})
  /\ UNCHANGED <<bpx, hwbp, off>>

\* threadDebugLoop calls bpinit for a new debuggee: every entry goes, after a
\* loop over the list like that of DeleteAll.
NewSession ==
  /\ Running
  /\ bplist' = <<>>
  /\ bpx' = {} /\ hwbp' = {} /\ membp' = {}
  /\ off' = {}
  /\ crashed' \in IF ReadsFreedNode THEN BOOLEAN ELSE {FALSE}

UserCommand ==
  \/ \E addr \in SwAddr, type \in {"normal", "ss"}, name \in Name \cup {NoName} :
        SetBPX(addr, type, name)
  \/ \E addr \in MemAddr, restore \in BOOLEAN, failing \in Failing :
        SetMemoryBPX(addr, restore, failing)
  \/ \E addr \in HwAddr, failing \in Failing : SetHardwareBreakpoint(addr, failing)
  \/ \E i \in Software, failing \in Failing :
        \/ EnableBPX(i, failing)
        \/ DisableBPX(i, failing)
        \/ ToggleBPX(i, failing)
        \/ DeleteBPX(i, failing)
  \/ \E failing \in Failing :
        bplist # <<>> /\ (EnableAll(failing) \/ DisableAll(failing) \/ DeleteAll(failing))

DebugThread ==
  \/ \E b \in bpx : UserBreakpoint(b)
  \/ \E m \in membp : MemoryBreakpoint(m)
  \/ NewSession

MemoryRead ==
  \E r \in Reader, failing \in Failing : ReadBegin(r, failing) \/ ReadEnd(r, failing)

Next == ~crashed /\ (UserCommand \/ DebugThread \/ MemoryRead)

Spec == Init /\ [][Next]_vars

-----------------------------------------------------------------------------
(* Properties.                                                              *)

\* However commands, hits and reads interleave, no two entries of the list
\* answer to one address (within software, hardware, memory) or to one name.
EntriesUnique ==
  \A i, j \in DOMAIN bplist :
    /\ IsSoftware(bplist[i]) = IsSoftware(bplist[j])
    /\ IsSoftware(bplist[i]) \/ bplist[i].type = bplist[j].type
    /\ \/ bplist[i].addr = bplist[j].addr
       \/ bplist[i].name = bplist[j].name /\ bplist[i].name # NoName
    => i = j

\* The state that bplist shows and that enabling, disabling and toggling test
\* is the state in the engine, even when its calls fail and while memory is
\* read (addresses of the kinds of breakpoint being disjoint).
ShownStateIsEngineState ==
  \A i \in Software : bplist[i].enabled = IsBPXEnabled(bplist[i].addr)

\* A read of memory lifts every breakpoint.  When no read is in progress, every
\* one the user did not disable is planted again, unless the engine failed there.
NothingLostByReads ==
  reading = {} => \A i \in Software :
    bplist[i].enabled \/ bplist[i].addr \in off \cup MayFail

\* The list and the debug registers agree, and there are no more than the
\* processor has.
HardwareIsListed ==
  /\ hwbp = {bplist[i].addr : i \in {j \in DOMAIN bplist : bplist[j].type = "hw"}}
  /\ Cardinality(hwbp) <= MaxHardware

\* SetMemoryBPX_membp_bpm.htm: the address is "of or inside a memory region that
\* will be watched": its hit is found in the list.  It is where the address given
\* was the base; the code misses the others, which are listed by their own address.
MemoryHitIsFound == \A m \in membp : Found(m.base, "mem") # {}

\* DisableBPX_bpd_bd.htm: "Disable a breakpoint set using the SetBPX command":
\* it is not planted again until the user enables it.
DisabledStaysDisabled == \A b \in bpx : b.addr \notin off
=============================================================================
