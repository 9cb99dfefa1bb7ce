-------------------------- MODULE Breakpoints_proofs --------------------------
(***************************************************************************)
(* Theorems about Breakpoints, for any addresses, names, readers and any   *)
(* calls of the engine that may fail.  Three of them need a hypothesis on  *)
(* the addresses, KindsDisjoint or AtTheirBase, and say so.                *)
(***************************************************************************)
EXTENDS Breakpoints, DataLemmas

\* What the list holds: each kind of breakpoint at addresses of its kind, only
\* software ones with names, only memory ones restored.
Entry ==
  [addr : SwAddr, type : {"normal", "ss"}, enabled : BOOLEAN,
   name : Name \cup {NoName}, restore : {FALSE}]
  \cup [addr : HwAddr, type : {"hw"}, enabled : BOOLEAN, name : {NoName}, restore : {FALSE}]
  \cup [addr : MemAddr, type : {"mem"}, enabled : BOOLEAN, name : {NoName}, restore : BOOLEAN]

ListTypeOK == bplist \in Seq(Entry)

Hardware == {i \in DOMAIN bplist : bplist[i].type = "hw"}
Memory == {i \in DOMAIN bplist : bplist[i].type = "mem"}

\* The list alone, and the debug registers: no hypothesis.
ListKept == ListTypeOK /\ EntriesUnique /\ IsFiniteSet(hwbp) /\ HardwareIsListed

\* The engine holds one software breakpoint at an address, of the type listed.
PlantedAsListed ==
  /\ \A b, c \in bpx : b.addr = c.addr => b = c
  /\ \A b \in bpx, i \in Software :
       b.addr = bplist[i].addr => (b.once <=> bplist[i].type = "ss")

\* Addresses of software breakpoints are not given to the other kinds.
KindsDisjoint == SwAddr \cap (HwAddr \cup MemAddr) = {}

SoftwareKept == PlantedAsListed /\ ShownStateIsEngineState /\ NothingLostByReads

\* The engine guards a region once, and restores it when the list says so.
WatchedAsListed ==
  /\ \A m, n \in membp : m.base = n.base => m = n
  /\ \A m \in membp : \A i \in Found(m.base, "mem") :
       m.restore <=> bplist[i].restore

\* Memory breakpoints are given the base of their region.
AtTheirBase == \A addr \in MemAddr : BaseOf[addr] = addr

WatchKept == WatchedAsListed /\ MemoryHitIsFound

-----------------------------------------------------------------------------
(* The ways in which the list changes.                                      *)

\* The list has the nodes kept of the old one, each once.
Thinned(kept) ==
  /\ ListTypeOK'
  /\ \E old \in [DOMAIN bplist' -> kept] :
       /\ \A k, l \in DOMAIN bplist' : old[k] = old[l] => k = l
       /\ \A i \in kept : \E k \in DOMAIN bplist' : old[k] = i
       /\ \A k \in DOMAIN bplist' : bplist'[k] = bplist[old[k]]

\* The list has its nodes, of which some may be shown enabled or disabled.
SameNodes ==
  /\ ListTypeOK'
  /\ DOMAIN bplist' = DOMAIN bplist
  /\ \A i \in DOMAIN bplist :
       /\ bplist'[i].addr = bplist[i].addr /\ bplist'[i].type = bplist[i].type
       /\ bplist'[i].name = bplist[i].name /\ bplist'[i].restore = bplist[i].restore

\* The list has one more node at its end.
Longer(bp) ==
  /\ ListTypeOK'
  /\ DOMAIN bplist' = DOMAIN bplist \cup {Len(bplist) + 1}
  /\ Len(bplist) + 1 \notin DOMAIN bplist
  /\ \A i \in DOMAIN bplist : bplist'[i] = bplist[i]
  /\ bplist'[Len(bplist) + 1] = bp

\* Facts about the places of the list.
LEMMA Places ==
  ASSUME ListTypeOK
  PROVE  /\ Len(bplist) \in Nat /\ DOMAIN bplist = 1 .. Len(bplist)
         /\ \A i \in DOMAIN bplist : bplist[i] \in Entry
BY DEF ListTypeOK

\* Facts about the fields of an entry.
LEMMA Fields ==
  ASSUME NEW bp \in Entry
  PROVE  /\ bp.enabled \in BOOLEAN
         /\ IsSoftware(bp) => bp.addr \in SwAddr
         /\ ~ IsSoftware(bp) => bp.addr \in HwAddr \cup MemAddr /\ bp.name = NoName
         /\ bp.type \in {"normal", "ss", "hw", "mem"}
         /\ \A e \in BOOLEAN :
              LET b == [bp EXCEPT !.enabled = e]
              IN  b \in Entry /\ b.enabled = e /\ b.addr = bp.addr /\ b.type = bp.type
                  /\ b.name = bp.name /\ b.restore = bp.restore
BY DEF Entry, IsSoftware

\* Marking entries changes only what they show.
LEMMA MarkedSame ==
  ASSUME ListTypeOK, NEW S \in SUBSET DOMAIN bplist, NEW e \in BOOLEAN,
         bplist' = Marked(S, e)
  PROVE  /\ SameNodes
         /\ \A i \in DOMAIN bplist :
              bplist'[i].enabled = IF i \in S THEN e ELSE bplist[i].enabled
<1>1. Len(bplist) \in Nat /\ DOMAIN bplist = 1 .. Len(bplist)
      /\ \A i \in DOMAIN bplist : bplist[i] \in Entry
  BY Places
<1>2. DOMAIN bplist' = DOMAIN bplist
  BY DEF Marked
<1>3. ASSUME NEW i \in DOMAIN bplist
      PROVE  /\ bplist'[i] \in Entry
             /\ bplist'[i].addr = bplist[i].addr /\ bplist'[i].type = bplist[i].type
             /\ bplist'[i].name = bplist[i].name /\ bplist'[i].restore = bplist[i].restore
             /\ bplist'[i].enabled = IF i \in S THEN e ELSE bplist[i].enabled
  <2>1. CASE i \in S
    <3>1. bplist'[i] = [bplist[i] EXCEPT !.enabled = e]
      BY <2>1 DEF Marked
    <3> QED
      BY <1>1, <2>1, <3>1, Fields
  <2>2. CASE i \notin S
    BY <1>1, <2>2 DEF Marked
  <2> QED
    BY <2>1, <2>2
<1>4. bplist' = [i \in 1 .. Len(bplist) |-> bplist'[i]]
  BY <1>1 DEF Marked
<1>5. bplist' \in Seq(Entry)
  BY <1>1, <1>3, <1>4, IsASeq
<1> QED
  BY <1>2, <1>3, <1>5 DEF SameNodes, ListTypeOK

\* Appending a node.
LEMMA AppendLonger ==
  ASSUME ListTypeOK, NEW bp \in Entry, bplist' = Append(bplist, bp)
  PROVE  Longer(bp)
<1>1. Len(bplist) \in Nat /\ DOMAIN bplist = 1 .. Len(bplist) /\ bplist \in Seq(Entry)
  BY Places DEF ListTypeOK
<1>2. bplist' \in Seq(Entry) /\ Len(bplist') = Len(bplist) + 1
      /\ \A i \in 1 .. Len(bplist) : bplist'[i] = bplist[i]
      /\ bplist'[Len(bplist) + 1] = bp
  BY <1>1, AppendProperties
<1>3. DOMAIN bplist' = 1 .. Len(bplist) + 1
  BY <1>2
<1> QED
  BY <1>1, <1>2, <1>3 DEF Longer, ListTypeOK

\* Freeing one node.
LEMMA RemoveAtThins ==
  ASSUME ListTypeOK, NEW i \in DOMAIN bplist, bplist' = RemoveAt(bplist, i)
  PROVE  Thinned(DOMAIN bplist \ {i})
<1> DEFINE n == Len(bplist)
           old == [k \in 1 .. n - 1 |-> IF k < i THEN k ELSE k + 1]
<1>1. n \in Nat /\ DOMAIN bplist = 1 .. n /\ bplist \in Seq(Entry) /\ i \in 1 .. n
  BY Places DEF ListTypeOK
<1>2. /\ bplist' \in Seq(Entry) /\ DOMAIN bplist' = 1 .. n - 1
      /\ \A j \in 1 .. n - 1 : bplist'[j] = IF j < i THEN bplist[j] ELSE bplist[j + 1]
  BY <1>1, RemoveAtProperties
<1> HIDE DEF n
<1>3. old \in [1 .. n - 1 -> (1 .. n) \ {i}]
  BY <1>1
<1>4. \A k, l \in 1 .. n - 1 : old[k] = old[l] => k = l
  BY <1>1
<1>5. ASSUME NEW j \in (1 .. n) \ {i}
      PROVE  \E k \in 1 .. n - 1 : old[k] = j
  <2>1. CASE j < i
    BY <1>1, <2>1
  <2>2. CASE j > i
    <3>1. j - 1 \in 1 .. n - 1 /\ old[j - 1] = j
      BY <1>1, <2>2
    <3> QED
      BY <3>1
  <2> QED
    BY <1>1, <2>1, <2>2
<1>6. \A k \in 1 .. n - 1 : bplist'[k] = bplist[old[k]]
  BY <1>2
<1> HIDE DEF old
<1>7. old \in [DOMAIN bplist' -> DOMAIN bplist \ {i}]
  BY <1>1, <1>2, <1>3
<1>8. /\ \A k, l \in DOMAIN bplist' : old[k] = old[l] => k = l
      /\ \A j \in DOMAIN bplist \ {i} : \E k \in DOMAIN bplist' : old[k] = j
      /\ \A k \in DOMAIN bplist' : bplist'[k] = bplist[old[k]]
  BY <1>1, <1>2, <1>4, <1>5, <1>6
<1> QED
  BY <1>2, <1>7, <1>8 DEF Thinned, ListTypeOK

\* Freeing all nodes but those of a set.
LEMMA OnlyThins ==
  ASSUME ListTypeOK, NEW S \in SUBSET DOMAIN bplist, bplist' = Only(S)
  PROVE  Thinned(S)
<1> DEFINE n == Len(bplist)
           c == Cardinality(S)
           old == [k \in 1 .. c |-> CHOOSE i \in S : Rank(S, i) = k]
<1>1. n \in Nat /\ DOMAIN bplist = 1 .. n /\ S \in SUBSET (1 .. n)
      /\ \A i \in DOMAIN bplist : bplist[i] \in Entry
  BY Places
<1>2. \A k \in 1 .. c : \E i \in S : Rank(S, i) = k
  BY <1>1, EveryRankIsTaken DEF Rank
<1>3. \A i \in S : Rank(S, i) \in 1 .. c /\ \A h \in S : i < h => Rank(S, i) < Rank(S, h)
  BY <1>1, RanksIncrease DEF Rank
<1>4. c \in Nat
  <2>1. IsFiniteSet(1 .. n)
    BY <1>1, FS_Interval
  <2>2. IsFiniteSet(S)
    BY <1>1, <2>1, FS_Subset
  <2> QED
    BY <2>2, FS_CardinalityType
<1> HIDE DEF n, c
<1>5. \A k \in 1 .. c : old[k] \in S /\ Rank(S, old[k]) = k
  BY <1>2
<1>6. \A i, h \in S : Rank(S, i) = Rank(S, h) => i = h
  <2> SUFFICES ASSUME NEW i \in S, NEW h \in S, Rank(S, i) = Rank(S, h)
               PROVE  i = h
    OBVIOUS
  <2>1. i \in Nat /\ h \in Nat /\ Rank(S, i) \in Nat
    BY <1>1, <1>3
  <2>2. ~ (i < h) /\ ~ (h < i)
    BY <1>3, <2>1
  <2> QED
    BY <2>1, <2>2
<1>7. \A k \in 1 .. c : bplist'[k] = bplist[old[k]]
  BY DEF Only, c
<1>8. bplist' = [k \in 1 .. c |-> bplist'[k]]
  BY DEF Only, c
<1>9. DOMAIN bplist' = 1 .. c
  BY <1>8
<1>10. old \in [1 .. c -> S]
  BY <1>5
<1>11. \A k, l \in 1 .. c : old[k] = old[l] => k = l
  <2> HIDE DEF old
  <2> QED
    BY <1>5
<1>12. \A i \in S : old[Rank(S, i)] = i
  <2> HIDE DEF old
  <2> QED
    BY <1>3, <1>5, <1>6
<1> HIDE DEF old
<1>13. \A k \in 1 .. c : bplist'[k] \in Entry
  BY <1>1, <1>5, <1>7
<1>14. bplist' \in Seq(Entry)
  BY <1>4, <1>8, <1>13, IsASeq
<1>15. old \in [DOMAIN bplist' -> S]
  BY <1>9, <1>10
<1>16. /\ \A k, l \in DOMAIN bplist' : old[k] = old[l] => k = l
       /\ \A i \in S : \E k \in DOMAIN bplist' : old[k] = i
       /\ \A k \in DOMAIN bplist' : bplist'[k] = bplist[old[k]]
  BY <1>3, <1>7, <1>9, <1>11, <1>12
<1> QED
  BY <1>14, <1>15, <1>16 DEF Thinned, ListTypeOK

-----------------------------------------------------------------------------
(* The list alone, and the debug registers.                                 *)

\* Two entries answer to one address or to one name.
SameKey(a, b) ==
  /\ IsSoftware(a) = IsSoftware(b)
  /\ IsSoftware(a) \/ a.type = b.type
  /\ a.addr = b.addr \/ (a.name = b.name /\ a.name # NoName)

\* No two nodes answer to one address or name, in this step and the next.
LEMMA UniqueKeys ==
  /\ EntriesUnique <=> \A i, j \in DOMAIN bplist : SameKey(bplist[i], bplist[j]) => i = j
  /\ EntriesUnique' <=> \A i, j \in DOMAIN bplist' : SameKey(bplist'[i], bplist'[j]) => i = j
  /\ \A a, b : SameKey(a, b) => SameKey(b, a)
BY Zenon DEF EntriesUnique, SameKey, IsSoftware

\* The addresses of the nodes of a set.
LEMMA Listed ==
  /\ HardwareIsListed <=> /\ hwbp = {bplist[i].addr : i \in Hardware}
                          /\ Cardinality(hwbp) <= MaxHardware
  /\ HardwareIsListed' <=> /\ hwbp' = {bplist'[i].addr : i \in Hardware'}
                           /\ Cardinality(hwbp') <= MaxHardware
BY DEF HardwareIsListed, Hardware

\* What a node shows has no part in ListKept.
LEMMA SameNodesKeepList ==
  ASSUME ListKept, SameNodes, hwbp' = hwbp
  PROVE  ListKept'
<1>1. \A i, j \in DOMAIN bplist :
        SameKey(bplist'[i], bplist'[j]) => SameKey(bplist[i], bplist[j])
  BY DEF SameNodes, SameKey, IsSoftware
<1>2. EntriesUnique'
  BY <1>1, UniqueKeys DEF ListKept, SameNodes
<1>3. Hardware' = Hardware /\ \A i \in Hardware : bplist'[i].addr = bplist[i].addr
  BY DEF SameNodes, Hardware
<1>4. HardwareIsListed'
  BY <1>3, Listed DEF ListKept
<1> QED
  BY <1>2, <1>4 DEF ListKept, SameNodes

\* A node may be added that no other answers for, with its debug register.
LEMMA LongerKeepsList ==
  ASSUME ListKept, NEW bp \in Entry, Longer(bp),
         \A i \in DOMAIN bplist : ~ SameKey(bplist[i], bp),
         hwbp' = hwbp \cup (IF bp.type = "hw" THEN {bp.addr} ELSE {}),
         IsFiniteSet(hwbp'), Cardinality(hwbp') <= MaxHardware
  PROVE  ListKept'
<1>1. \A i \in DOMAIN bplist : ~ SameKey(bp, bplist[i])
  BY UniqueKeys
<1>2. EntriesUnique'
  BY <1>1, UniqueKeys DEF ListKept, Longer
<1>3. HardwareIsListed'
  <2> DEFINE new == Len(bplist) + 1
  <2>1. bp.type = "hw" => Hardware' = Hardware \cup {new}
    BY DEF Longer, Hardware
  <2>2. bp.type # "hw" => Hardware' = Hardware
    BY DEF Longer, Hardware
  <2>3. bplist'[new] = bp /\ \A i \in Hardware : bplist'[i] = bplist[i]
    BY DEF Longer, Hardware
  <2>4. hwbp = {bplist[i].addr : i \in Hardware}
    BY Listed DEF ListKept
  <2> HIDE DEF new
  <2>5. hwbp' = {bplist'[i].addr : i \in Hardware'}
    BY <2>1, <2>2, <2>3, <2>4
  <2> QED
    BY <2>5, Listed
<1> QED
  BY <1>2, <1>3 DEF ListKept, Longer

\* Nodes may go whose address is in no debug register any more.
LEMMA ThinnedKeepsList ==
  ASSUME ListKept, NEW kept \in SUBSET DOMAIN bplist, Thinned(kept),
         hwbp' = {bplist[i].addr : i \in kept \cap Hardware},
         IsFiniteSet(hwbp'), Cardinality(hwbp') <= MaxHardware
  PROVE  ListKept'
<1>1. PICK old \in [DOMAIN bplist' -> kept] :
        /\ \A k, l \in DOMAIN bplist' : old[k] = old[l] => k = l
        /\ \A i \in kept : \E k \in DOMAIN bplist' : old[k] = i
        /\ \A k \in DOMAIN bplist' : bplist'[k] = bplist[old[k]]
  BY DEF Thinned
<1>2. \A k \in DOMAIN bplist' : old[k] \in DOMAIN bplist
  OBVIOUS
<1>3. EntriesUnique'
  BY <1>1, <1>2, UniqueKeys DEF ListKept
<1>4. hwbp' = {bplist'[k].addr : k \in Hardware'}
  BY <1>1, <1>2 DEF Hardware
<1> QED
  BY <1>3, <1>4, Listed DEF ListKept, Thinned

\* An unchanged list, with unchanged debug registers.
LEMMA UnchangedKeepsList ==
  ASSUME ListKept, bplist' = bplist, hwbp' = hwbp
  PROVE  ListKept'
BY DEF ListKept, ListTypeOK, EntriesUnique, HardwareIsListed, IsSoftware

\* Nodes that are not of debug registers may go.
LEMMA OthersGoKeepsList ==
  ASSUME ListKept, NEW kept \in SUBSET DOMAIN bplist, Thinned(kept),
         Hardware \subseteq kept, hwbp' = hwbp
  PROVE  ListKept'
<1>1. kept \cap Hardware = Hardware
  OBVIOUS
<1> QED
  BY <1>1, Listed, ThinnedKeepsList DEF ListKept

\* The nodes of the two kinds of changes by the engine's calls.
LEMMA PlantSame ==
  ASSUME ListTypeOK, NEW S \in SUBSET DOMAIN bplist, NEW failing, Plant(S, failing)
  PROVE  /\ SameNodes /\ hwbp' = hwbp /\ membp' = membp
         /\ \A i \in DOMAIN bplist : bplist'[i].enabled =
              IF i \in Succeeding(S, FALSE, failing) THEN TRUE ELSE bplist[i].enabled
<1>1. Succeeding(S, FALSE, failing) \in SUBSET DOMAIN bplist
  BY DEF Succeeding
<1>2. bplist' = Marked(Succeeding(S, FALSE, failing), TRUE) /\ hwbp' = hwbp /\ membp' = membp
  BY DEF Plant
<1> QED
  BY <1>1, <1>2, MarkedSame

\* Lifting changes no node either, but the state of those that are lifted.
LEMMA LiftSame ==
  ASSUME ListTypeOK, NEW S \in SUBSET DOMAIN bplist, NEW failing, Lift(S, failing)
  PROVE  /\ SameNodes /\ hwbp' = hwbp /\ membp' = membp
         /\ \A i \in DOMAIN bplist : bplist'[i].enabled =
              IF i \in Succeeding(S, TRUE, failing) THEN FALSE ELSE bplist[i].enabled
<1>1. Succeeding(S, TRUE, failing) \in SUBSET DOMAIN bplist
  BY DEF Succeeding
<1>2. bplist' = Marked(Succeeding(S, TRUE, failing), FALSE) /\ hwbp' = hwbp /\ membp' = membp
  BY DEF Lift
<1> QED
  BY <1>1, <1>2, MarkedSame

\* The nodes that SetBPX, SetMemoryBPX and SetHardwareBreakpoint add.
LEMMA NewEntries ==
  /\ \A addr \in SwAddr, type \in {"normal", "ss"}, name \in Name \cup {NoName} :
       New(addr, type, name, FALSE) \in Entry
  /\ \A addr \in MemAddr, restore \in BOOLEAN : New(addr, "mem", NoName, restore) \in Entry
  /\ \A addr \in HwAddr : New(addr, "hw", NoName, FALSE) \in Entry
BY DEF New, Entry

\* A new software breakpoint is at an address that has none, under a free name.
LEMMA SetBPXKeepsList ==
  ASSUME ListKept, NEW addr \in SwAddr, NEW type \in {"normal", "ss"},
         NEW name \in Name \cup {NoName}, SetBPX(addr, type, name)
  PROVE  ListKept'
<1> DEFINE bp == New(addr, type, name, FALSE)
<1>1. hwbp' = hwbp /\ bplist' = IF NameTaken(name) THEN bplist ELSE Append(bplist, bp)
  BY DEF SetBPX
<1>2. CASE NameTaken(name)
  BY <1>1, <1>2, UnchangedKeepsList
<1>3. CASE ~ NameTaken(name)
  <2>1. bp \in Entry /\ bp.addr = addr /\ bp.name = name /\ bp.type = type /\ IsSoftware(bp)
    BY NewEntries DEF New, IsSoftware
  <2>2. Longer(bp)
    BY <1>1, <1>3, <2>1, AppendLonger DEF ListKept
  <2>3. \A i \in Software : bplist[i].addr # addr
    BY DEF SetBPX, Found, Software
  <2>4. \A i \in DOMAIN bplist : ~ SameKey(bplist[i], bp)
    BY <1>3, <2>1, <2>3 DEF SameKey, NameTaken, Software
  <2>5. bp.type # "hw" /\ Cardinality(hwbp) <= MaxHardware /\ IsFiniteSet(hwbp)
    BY <2>1 DEF ListKept, HardwareIsListed
  <2> HIDE DEF bp
  <2> QED
    BY <1>1, <2>1, <2>2, <2>4, <2>5, LongerKeepsList
<1> QED
  BY <1>2, <1>3

\* So is a new memory breakpoint.
LEMMA SetMemoryBPXKeepsList ==
  ASSUME ListKept, NEW addr \in MemAddr, NEW restore \in BOOLEAN, NEW failing,
         SetMemoryBPX(addr, restore, failing)
  PROVE  ListKept'
<1> DEFINE bp == New(addr, "mem", NoName, restore)
<1>1. hwbp' = hwbp /\ bplist' = IF Found(addr, "mem") # {} THEN bplist ELSE Append(bplist, bp)
  BY DEF SetMemoryBPX
<1>2. CASE Found(addr, "mem") # {}
  BY <1>1, <1>2, UnchangedKeepsList
<1>3. CASE Found(addr, "mem") = {}
  <2>1. bp \in Entry /\ bp.addr = addr /\ bp.name = NoName /\ bp.type = "mem" /\ ~ IsSoftware(bp)
    BY NewEntries DEF New, IsSoftware
  <2>2. Longer(bp)
    BY <1>1, <1>3, <2>1, AppendLonger DEF ListKept
  <2>3. \A i \in DOMAIN bplist : bplist[i].type = "mem" => bplist[i].addr # addr
    BY <1>3 DEF Found
  <2>4. \A i \in DOMAIN bplist : ~ SameKey(bplist[i], bp)
    BY <2>1, <2>3 DEF SameKey, IsSoftware
  <2>5. Cardinality(hwbp) <= MaxHardware /\ IsFiniteSet(hwbp)
    BY DEF ListKept, HardwareIsListed
  <2> HIDE DEF bp
  <2> QED
    BY <1>1, <2>1, <2>2, <2>4, <2>5, LongerKeepsList
<1> QED
  BY <1>2, <1>3

\* A new hardware breakpoint has a free debug register as well.
LEMMA SetHardwareKeepsList ==
  ASSUME ListKept, NEW addr \in HwAddr, NEW failing, SetHardwareBreakpoint(addr, failing)
  PROVE  ListKept'
<1> DEFINE bp == New(addr, "hw", NoName, FALSE)
<1>1. hwbp' = hwbp \cup {addr} /\ bplist' = Append(bplist, bp)
  BY DEF SetHardwareBreakpoint
<1>2. bp \in Entry /\ bp.addr = addr /\ bp.name = NoName /\ bp.type = "hw" /\ ~ IsSoftware(bp)
  BY NewEntries DEF New, IsSoftware
<1>3. Longer(bp)
  BY <1>1, <1>2, AppendLonger DEF ListKept
<1>4. \A i \in DOMAIN bplist : bplist[i].type = "hw" => bplist[i].addr # addr
  BY DEF SetHardwareBreakpoint, Found
<1>5. \A i \in DOMAIN bplist : ~ SameKey(bplist[i], bp)
  BY <1>2, <1>4 DEF SameKey, IsSoftware
<1>6. IsFiniteSet(hwbp) /\ Cardinality(hwbp) \in Nat /\ Cardinality(hwbp) < MaxHardware
  BY FS_CardinalityType DEF ListKept, SetHardwareBreakpoint
<1>7. /\ IsFiniteSet(hwbp \cup {addr})
      /\ Cardinality(hwbp \cup {addr}) = IF addr \in hwbp THEN Cardinality(hwbp)
                                         ELSE Cardinality(hwbp) + 1
  BY <1>6, FS_AddElement
<1>8. IsFiniteSet(hwbp') /\ Cardinality(hwbp') <= MaxHardware
  BY <1>1, <1>6, <1>7, MaxHardwareAssumption
<1> HIDE DEF bp
<1> QED
  BY <1>1, <1>2, <1>3, <1>5, <1>8, LongerKeepsList

\* A hit may take a breakpoint that hits once from the list.
LEMMA UserBreakpointKeepsList ==
  ASSUME ListKept, NEW b \in bpx, UserBreakpoint(b)
  PROVE  ListKept'
<1> DEFINE gone == {i \in Found(b.addr, "normal") : bplist[i].type = "ss"}
           i == CHOOSE j \in gone : TRUE
<1>1. hwbp' = hwbp /\ bplist' = IF gone = {} THEN bplist ELSE RemoveAt(bplist, i)
  BY DEF UserBreakpoint
<1>2. CASE gone = {}
  BY <1>1, <1>2, UnchangedKeepsList
<1>3. CASE gone # {}
  <2>1. i \in DOMAIN bplist /\ bplist[i].type = "ss"
    BY <1>3 DEF Found
  <2> HIDE DEF gone, i
  <2>2. Thinned(DOMAIN bplist \ {i})
    BY <1>1, <1>3, <2>1, RemoveAtThins DEF ListKept
  <2>3. Hardware \subseteq DOMAIN bplist \ {i}
    BY <2>1 DEF Hardware
  <2> QED
    BY <1>1, <2>2, <2>3, OthersGoKeepsList
<1> QED
  BY <1>2, <1>3

\* So may a hit of a guarded region.
LEMMA MemoryBreakpointKeepsList ==
  ASSUME ListKept, NEW m \in membp, MemoryBreakpoint(m)
  PROVE  ListKept'
<1> DEFINE found == Found(m.base, "mem")
           i == CHOOSE j \in found : TRUE
<1>1. hwbp' = hwbp /\ bplist' = IF \A j \in found : bplist[j].restore THEN bplist
                              ELSE RemoveAt(bplist, i)
  BY DEF MemoryBreakpoint
<1>2. CASE \A j \in found : bplist[j].restore
  BY <1>1, <1>2, UnchangedKeepsList
<1>3. CASE ~ \A j \in found : bplist[j].restore
  <2>1. i \in DOMAIN bplist /\ bplist[i].type = "mem"
    BY <1>3 DEF Found
  <2> HIDE DEF found, i
  <2>2. Thinned(DOMAIN bplist \ {i})
    BY <1>1, <1>3, <2>1, RemoveAtThins DEF ListKept
  <2>3. Hardware \subseteq DOMAIN bplist \ {i}
    BY <2>1 DEF Hardware
  <2> QED
    BY <1>1, <2>2, <2>3, OthersGoKeepsList
<1> QED
  BY <1>2, <1>3

\* An empty list.
LEMMA EmptyList ==
  /\ bplist = <<>> /\ hwbp = {} => ListKept
  /\ bplist' = <<>> /\ hwbp' = {} => ListKept'
<1>1. IsFiniteSet({}) /\ Cardinality({}) = 0
  BY FS_EmptySet
<1>2. ASSUME bplist = <<>>, hwbp = {}
      PROVE  ListKept
  <2>1. DOMAIN bplist = {} /\ bplist \in Seq(Entry)
    BY <1>2
  <2>2. EntriesUnique
    BY <2>1 DEF EntriesUnique
  <2>3. HardwareIsListed
    BY <1>1, <1>2, <2>1, MaxHardwareAssumption, Listed DEF Hardware
  <2> QED
    BY <1>1, <1>2, <2>1, <2>2, <2>3 DEF ListKept, ListTypeOK
<1>3. ASSUME bplist' = <<>>, hwbp' = {}
      PROVE  ListKept'
  <2>1. DOMAIN bplist' = {} /\ bplist' \in Seq(Entry)
    BY <1>3
  <2>2. EntriesUnique'
    BY <2>1 DEF EntriesUnique
  <2>3. HardwareIsListed'
    BY <1>1, <1>3, <2>1, MaxHardwareAssumption, Listed DEF Hardware
  <2> QED
    BY <1>1, <1>3, <2>1, <2>2, <2>3 DEF ListKept, ListTypeOK
<1> QED
  BY <1>2, <1>3

\* Deleting all software breakpoints leaves the others in their order.
LEMMA DeleteAllKeepsList ==
  ASSUME ListKept, NEW failing, DeleteAll(failing)
  PROVE  ListKept'
<1>1. hwbp' = hwbp /\ bplist' = Only(DOMAIN bplist \ Software)
  BY DEF DeleteAll
<1>2. Thinned(DOMAIN bplist \ Software)
  BY <1>1, OnlyThins DEF ListKept
<1>3. Hardware \subseteq DOMAIN bplist \ Software
  BY DEF Hardware, Software, IsSoftware
<1> QED
  BY <1>1, <1>2, <1>3, OthersGoKeepsList

\* Deleting one leaves the others in their order.
LEMMA DeleteBPXKeepsList ==
  ASSUME ListKept, NEW i \in Software, NEW failing, DeleteBPX(i, failing)
  PROVE  ListKept'
<1>1. hwbp' = hwbp /\ bplist' = RemoveAt(bplist, i)
  BY DEF DeleteBPX
<1>2. Thinned(DOMAIN bplist \ {i})
  BY <1>1, RemoveAtThins DEF ListKept, Software
<1>3. Hardware \subseteq DOMAIN bplist \ {i}
  BY DEF Hardware, Software, IsSoftware
<1> QED
  BY <1>1, <1>2, <1>3, OthersGoKeepsList

\* The steps that call the engine for nodes of the list.
EngineStep ==
  \E S \in SUBSET DOMAIN bplist, failing \in Failing : Plant(S, failing) \/ Lift(S, failing)

\* Planting and lifting keep the list.
LEMMA EngineStepKeepsList ==
  ASSUME ListKept, EngineStep
  PROVE  ListKept'
BY PlantSame, LiftSame, SameNodesKeepList DEF EngineStep, ListKept

\* One step for every action.
LEMMA StepKeepsList == ListKept /\ [Next]_vars => ListKept'
<1> SUFFICES ASSUME ListKept, [Next]_vars
             PROVE  ListKept'
  OBVIOUS
<1>1. CASE UNCHANGED vars
  BY <1>1, UnchangedKeepsList DEF vars, engine
<1>2. ASSUME NEW i \in Software, NEW failing \in Failing,
             EnableBPX(i, failing) \/ DisableBPX(i, failing) \/ ToggleBPX(i, failing)
      PROVE  ListKept'
  <2>1. {i} \in SUBSET DOMAIN bplist
    BY DEF Software
  <2>2. Plant({i}, failing) \/ Lift({i}, failing)
    BY <1>2 DEF EnableBPX, DisableBPX, ToggleBPX
  <2> QED
    BY <2>1, <2>2, EngineStepKeepsList DEF EngineStep
<1>3. ASSUME NEW failing \in Failing, EnableAll(failing) \/ DisableAll(failing)
      PROVE  ListKept'
  <2>1. Plant(DOMAIN bplist, failing) \/ Lift(DOMAIN bplist, failing)
    BY <1>3 DEF EnableAll, DisableAll
  <2> QED
    BY <2>1, EngineStepKeepsList DEF EngineStep
<1>4. ASSUME NEW r \in Reader, NEW failing \in Failing,
             ReadBegin(r, failing) \/ ReadEnd(r, failing)
      PROVE  ListKept'
  <2>1. Software \in SUBSET DOMAIN bplist
    BY DEF Software
  <2>2. Plant(Software, failing) \/ Lift(Software, failing)
    BY <1>4 DEF ReadBegin, ReadEnd
  <2> QED
    BY <2>1, <2>2, EngineStepKeepsList DEF EngineStep
<1>5. CASE NewSession
  BY <1>5, EmptyList DEF NewSession
<1>6. CASE UserCommand
  BY <1>2, <1>3, <1>6, SetBPXKeepsList, SetMemoryBPXKeepsList, SetHardwareKeepsList,
     DeleteBPXKeepsList, DeleteAllKeepsList DEF UserCommand
<1>7. CASE DebugThread
  BY <1>5, <1>7, UserBreakpointKeepsList, MemoryBreakpointKeepsList DEF DebugThread
<1>8. CASE MemoryRead
  BY <1>4, <1>8 DEF MemoryRead
<1> QED
  BY <1>1, <1>6, <1>7, <1>8 DEF Next

\* The list is kept throughout.
LEMMA ListIsKept == Spec => []ListKept
<1>1. Init => ListKept
  BY EmptyList DEF Init
<1> QED
  BY <1>1, StepKeepsList, PTL DEF Spec

\* The list always holds entries of the three kinds, each at addresses of its
\* kind, whatever commands, hits and reads do.
THEOREM ListTypeCorrect == Spec => []ListTypeOK
<1>1. ListKept => ListTypeOK
  BY DEF ListKept
<1> QED
  BY <1>1, ListIsKept, PTL

\* No two entries ever answer to one address or one name.
THEOREM EntriesStayUnique == Spec => []EntriesUnique
<1>1. ListKept => EntriesUnique
  BY DEF ListKept
<1> QED
  BY <1>1, ListIsKept, PTL

\* The list and the debug registers agree, and there is no more than the
\* processor has, for any number of them.
THEOREM HardwareStaysListed == Spec => []HardwareIsListed
<1>1. ListKept => HardwareIsListed
  BY DEF ListKept
<1> QED
  BY <1>1, ListIsKept, PTL

-----------------------------------------------------------------------------
(* The software breakpoints of the engine.                                  *)

\* With an address of a software breakpoint comes only that one.
LEMMA SoftwareAlone ==
  ASSUME ListKept, KindsDisjoint, NEW i \in Software, NEW j \in DOMAIN bplist,
         bplist[i].addr = bplist[j].addr
  PROVE  i = j
<1>1. i \in DOMAIN bplist /\ IsSoftware(bplist[i])
  BY DEF Software
<1>2. bplist[i] \in Entry /\ bplist[j] \in Entry
  BY <1>1, Places DEF ListKept
<1>3. IsSoftware(bplist[j])
  BY <1>1, <1>2, Fields DEF KindsDisjoint
<1> QED
  BY <1>1, <1>3 DEF ListKept, EntriesUnique

\* ShownStateIsEngineState, without the equality of truth values.
LEMMA Shown ==
  /\ ListTypeOK =>
       (ShownStateIsEngineState <=> \A i \in Software :
          bplist[i].enabled <=> \E b \in bpx : b.addr = bplist[i].addr)
  /\ ListTypeOK' =>
       (ShownStateIsEngineState' <=> \A i \in Software' :
          bplist'[i].enabled <=> \E b \in bpx' : b.addr = bplist'[i].addr)
<1>1. ListTypeOK => \A i \in Software : bplist[i].enabled \in BOOLEAN
  BY Places, Fields DEF Software
<1>2. ListTypeOK' => \A i \in Software' : bplist'[i].enabled \in BOOLEAN
  BY Fields DEF Software, ListTypeOK
<1> QED
  BY <1>1, <1>2 DEF ShownStateIsEngineState, IsBPXEnabled

\* Calls of SetBPX for any nodes of the list, failing or not.
LEMMA PlantKeepsPlanted ==
  ASSUME ListKept, KindsDisjoint, PlantedAsListed, ShownStateIsEngineState,
         NEW S \in SUBSET DOMAIN bplist, NEW failing, Plant(S, failing)
  PROVE  /\ PlantedAsListed' /\ ShownStateIsEngineState'
         /\ Software' = Software
         /\ \A i \in Software : bplist'[i].addr = bplist[i].addr /\
              (bplist'[i].enabled <=> bplist[i].enabled \/ i \in Succeeding(S, FALSE, failing))
<1> DEFINE done == Succeeding(S, FALSE, failing)
<1>1. /\ SameNodes
      /\ \A i \in DOMAIN bplist : bplist'[i].enabled = IF i \in done THEN TRUE ELSE bplist[i].enabled
  BY PlantSame DEF ListKept
<1>2. Software' = Software /\ Software \subseteq DOMAIN bplist
  BY <1>1 DEF Software, SameNodes, IsSoftware
<1>3. bpx' = bpx \cup {[addr |-> bplist[i].addr, once |-> bplist[i].type = "ss"] : i \in done}
  BY DEF Plant
<1>4. /\ done \subseteq DOMAIN bplist
      /\ \A i \in done : \A b \in bpx : b.addr # bplist[i].addr
      /\ \A i, j \in done : bplist[i].addr = bplist[j].addr => i = j
  <2>1. DOMAIN bplist \subseteq Nat
    BY Places DEF ListKept
  <2> QED
    BY <2>1 DEF Succeeding, IsBPXEnabled
<1> HIDE DEF done
<1>5. \A c \in bpx' : c \in bpx \/ \E i \in done :
        c = [addr |-> bplist[i].addr, once |-> bplist[i].type = "ss"]
  BY <1>3
<1>6. \A b, c \in bpx' : b.addr = c.addr => b = c
  BY <1>4, <1>5 DEF PlantedAsListed
<1>7. ASSUME NEW b \in bpx', NEW i \in Software, b.addr = bplist[i].addr
      PROVE  b.once <=> bplist[i].type = "ss"
  <2>1. CASE b \in bpx
    BY <1>7, <2>1 DEF PlantedAsListed
  <2>2. ASSUME NEW j \in done, b = [addr |-> bplist[j].addr, once |-> bplist[j].type = "ss"]
        PROVE  b.once <=> bplist[i].type = "ss"
    <3>1. i = j
      BY <1>4, <1>7, <2>2, SoftwareAlone
    <3> QED
      BY <2>2, <3>1
  <2> QED
    BY <1>5, <2>1, <2>2
<1>8. PlantedAsListed'
  BY <1>1, <1>2, <1>6, <1>7 DEF PlantedAsListed, SameNodes
<1>9. ASSUME NEW i \in Software
      PROVE  bplist'[i].enabled <=> \E b \in bpx' : b.addr = bplist'[i].addr
  <2>1. bplist'[i].addr = bplist[i].addr /\ i \in DOMAIN bplist
    BY <1>1, <1>2 DEF SameNodes
  <2>2. CASE i \in done
    <3>1. [addr |-> bplist[i].addr, once |-> bplist[i].type = "ss"] \in bpx'
      BY <1>3, <2>2
    <3> QED
      BY <1>1, <2>1, <2>2, <3>1
  <2>3. CASE i \notin done
    <3>1. \A j \in done : bplist[j].addr # bplist[i].addr
      BY <1>4, <2>3, SoftwareAlone
    <3>2. (\E b \in bpx' : b.addr = bplist[i].addr) <=> \E b \in bpx : b.addr = bplist[i].addr
      BY <1>3, <1>5, <3>1
    <3>3. bplist[i].enabled <=> \E b \in bpx : b.addr = bplist[i].addr
      BY Shown DEF ListKept
    <3> QED
      BY <1>1, <2>1, <2>3, <3>2, <3>3
  <2> QED
    BY <2>2, <2>3
<1>10. ShownStateIsEngineState'
  BY <1>1, <1>2, <1>9, Shown DEF SameNodes
<1> QED
  BY <1>1, <1>2, <1>8, <1>10 DEF SameNodes, done

\* Calls of DeleteBPX for any nodes of the list, failing or not.
LEMMA LiftKeepsPlanted ==
  ASSUME ListKept, KindsDisjoint, PlantedAsListed, ShownStateIsEngineState,
         NEW S \in SUBSET DOMAIN bplist, NEW failing, Lift(S, failing)
  PROVE  /\ PlantedAsListed' /\ ShownStateIsEngineState'
         /\ Software' = Software
         /\ \A i \in Software : bplist'[i].addr = bplist[i].addr /\
              (bplist'[i].enabled <=> bplist[i].enabled /\ i \notin Succeeding(S, TRUE, failing))
<1> DEFINE done == Succeeding(S, TRUE, failing)
<1>1. /\ SameNodes
      /\ \A i \in DOMAIN bplist : bplist'[i].enabled = IF i \in done THEN FALSE ELSE bplist[i].enabled
  BY LiftSame DEF ListKept
<1>2. Software' = Software /\ Software \subseteq DOMAIN bplist
  BY <1>1 DEF Software, SameNodes, IsSoftware
<1>3. bpx' = {b \in bpx : \A i \in done : b.addr # bplist[i].addr}
  BY DEF Lift, Lifted, AddrsOf
<1>4. done \subseteq DOMAIN bplist
  BY DEF Succeeding
<1> HIDE DEF done
<1>5. PlantedAsListed'
  BY <1>1, <1>2, <1>3 DEF PlantedAsListed, SameNodes
<1>6. ASSUME NEW i \in Software
      PROVE  bplist'[i].enabled <=> \E b \in bpx' : b.addr = bplist'[i].addr
  <2>1. bplist'[i].addr = bplist[i].addr /\ i \in DOMAIN bplist
    BY <1>1, <1>2 DEF SameNodes
  <2>2. CASE i \in done
    BY <1>1, <1>3, <2>1, <2>2
  <2>3. CASE i \notin done
    <3>1. \A j \in done : bplist[j].addr # bplist[i].addr
      BY <1>4, <2>3, SoftwareAlone
    <3>2. bplist[i].enabled <=> \E b \in bpx : b.addr = bplist[i].addr
      BY Shown DEF ListKept
    <3> QED
      BY <1>1, <1>3, <2>1, <2>3, <3>1, <3>2
  <2> QED
    BY <2>2, <2>3
<1>7. ShownStateIsEngineState'
  BY <1>1, <1>2, <1>6, Shown DEF SameNodes
<1> QED
  BY <1>1, <1>2, <1>5, <1>7 DEF SameNodes, done

\* A command that enables: what it planted is no longer disabled by the user.
LEMMA EnableKeepsSoftware ==
  ASSUME ListKept, KindsDisjoint, SoftwareKept, NEW S \in SUBSET DOMAIN bplist, NEW failing,
         Plant(S, failing), reading' = reading,
         off' = off \ AddrsOf(Succeeding(S, FALSE, failing))
  PROVE  SoftwareKept'
<1> DEFINE done == Succeeding(S, FALSE, failing)
<1>1. /\ PlantedAsListed' /\ ShownStateIsEngineState'
      /\ Software' = Software
      /\ \A i \in Software : bplist'[i].addr = bplist[i].addr /\
           (bplist'[i].enabled <=> bplist[i].enabled \/ i \in done)
  BY PlantKeepsPlanted DEF SoftwareKept
<1>2. done \subseteq DOMAIN bplist /\ off' = off \ {bplist[i].addr : i \in done}
  BY DEF Succeeding, AddrsOf
<1> HIDE DEF done
<1>3. ASSUME reading = {}, NEW i \in Software
      PROVE  bplist'[i].enabled \/ bplist'[i].addr \in off' \cup MayFail
  <2>1. bplist[i].enabled \/ bplist[i].addr \in off \cup MayFail
    BY <1>3 DEF SoftwareKept, NothingLostByReads
  <2>2. CASE i \in done
    BY <1>1, <2>2
  <2>3. CASE i \notin done
    <3>1. \A j \in done : bplist[j].addr # bplist[i].addr
      BY <1>2, <2>3, SoftwareAlone
    <3> QED
      BY <1>1, <1>2, <2>1, <3>1
  <2> QED
    BY <2>2, <2>3
<1>4. NothingLostByReads'
  BY <1>1, <1>3 DEF NothingLostByReads
<1> QED
  BY <1>1, <1>4 DEF SoftwareKept

\* A command that disables: what it lifted is disabled by the user.
LEMMA DisableKeepsSoftware ==
  ASSUME ListKept, KindsDisjoint, SoftwareKept, NEW S \in SUBSET DOMAIN bplist, NEW failing,
         Lift(S, failing), reading' = reading,
         off' = off \cup AddrsOf(Succeeding(S, TRUE, failing))
  PROVE  SoftwareKept'
<1> DEFINE done == Succeeding(S, TRUE, failing)
<1>1. /\ PlantedAsListed' /\ ShownStateIsEngineState'
      /\ Software' = Software
      /\ \A i \in Software : bplist'[i].addr = bplist[i].addr /\
           (bplist'[i].enabled <=> bplist[i].enabled /\ i \notin done)
  BY LiftKeepsPlanted DEF SoftwareKept
<1>2. off' = off \cup {bplist[i].addr : i \in done}
  BY DEF AddrsOf
<1> HIDE DEF done
<1>3. ASSUME reading = {}, NEW i \in Software
      PROVE  bplist'[i].enabled \/ bplist'[i].addr \in off' \cup MayFail
  <2>1. bplist[i].enabled \/ bplist[i].addr \in off \cup MayFail
    BY <1>3 DEF SoftwareKept, NothingLostByReads
  <2> QED
    BY <1>1, <1>2, <2>1
<1>4. NothingLostByReads'
  BY <1>1, <1>3 DEF NothingLostByReads
<1> QED
  BY <1>1, <1>4 DEF SoftwareKept

\* While memory is read nothing is claimed of what was lifted for it.
LEMMA ReadBeginKeepsSoftware ==
  ASSUME ListKept, KindsDisjoint, SoftwareKept, NEW r, NEW failing, ReadBegin(r, failing)
  PROVE  SoftwareKept'
<1>1. Software \in SUBSET DOMAIN bplist /\ Lift(Software, failing) /\ reading' # {}
  BY DEF ReadBegin, Software
<1>2. PlantedAsListed' /\ ShownStateIsEngineState'
  BY <1>1, LiftKeepsPlanted DEF SoftwareKept
<1> QED
  BY <1>1, <1>2 DEF SoftwareKept, NothingLostByReads

\* The end of a read plants every software breakpoint, those that the user
\* disabled too, unless the engine fails there.
LEMMA ReadEndKeepsSoftware ==
  ASSUME ListKept, KindsDisjoint, SoftwareKept, NEW r, NEW failing \in Failing,
         ReadEnd(r, failing)
  PROVE  SoftwareKept'
<1> DEFINE done == Succeeding(Software, FALSE, failing)
<1>1. Software \in SUBSET DOMAIN bplist /\ Plant(Software, failing)
  BY DEF ReadEnd, Software
<1>2. /\ PlantedAsListed' /\ ShownStateIsEngineState'
      /\ Software' = Software
      /\ \A i \in Software : bplist'[i].addr = bplist[i].addr /\
           (bplist'[i].enabled <=> bplist[i].enabled \/ i \in done)
  BY <1>1, PlantKeepsPlanted DEF SoftwareKept
<1>3. ASSUME NEW i \in Software
      PROVE  bplist'[i].enabled \/ bplist'[i].addr \in MayFail
  <2>1. bplist[i].enabled <=> IsBPXEnabled(bplist[i].addr)
    BY Shown DEF ListKept, SoftwareKept, IsBPXEnabled
  <2>2. \A j \in Software : bplist[j].addr = bplist[i].addr => i <= j
    <3>1. i \in Nat
      BY Places DEF ListKept, Software
    <3>2. \A j \in Software : bplist[j].addr = bplist[i].addr => i = j
      BY <1>1, SoftwareAlone
    <3> QED
      BY <3>1, <3>2
  <2>3. ~ bplist[i].enabled /\ bplist[i].addr \notin failing => i \in done
    BY <2>1, <2>2 DEF Succeeding, IsBPXEnabled
  <2> QED
    BY <1>2, <2>3 DEF Failing
<1>4. NothingLostByReads'
  BY <1>2, <1>3 DEF NothingLostByReads
<1> QED
  BY <1>2, <1>4 DEF SoftwareKept

\* Entries leave the list, and with the software ones what the engine had there.
LEMMA ThinnedKeepsSoftware ==
  ASSUME ListKept, SoftwareKept, NEW kept \in SUBSET DOMAIN bplist, Thinned(kept),
         bpx' \subseteq bpx, reading' = reading,
         \A i \in kept \cap Software :
           /\ \A b \in bpx : b.addr = bplist[i].addr => b \in bpx'
           /\ bplist[i].addr \in off => bplist[i].addr \in off'
  PROVE  SoftwareKept'
<1>1. PICK old \in [DOMAIN bplist' -> kept] :
        \A k \in DOMAIN bplist' : bplist'[k] = bplist[old[k]]
  BY DEF Thinned
<1>2. \A k \in Software' : old[k] \in kept \cap Software /\ bplist'[k] = bplist[old[k]]
  BY <1>1 DEF Software, IsSoftware
<1>3. PlantedAsListed'
  BY <1>2 DEF SoftwareKept, PlantedAsListed
<1>4. \A i \in Software : bplist[i].enabled <=> \E b \in bpx : b.addr = bplist[i].addr
  BY Shown DEF ListKept, SoftwareKept
<1>5. \A k \in Software' : bplist'[k].enabled <=> \E b \in bpx' : b.addr = bplist'[k].addr
  BY <1>2, <1>4
<1>6. ShownStateIsEngineState'
  BY <1>5, Shown DEF Thinned
<1>7. NothingLostByReads'
  BY <1>2 DEF SoftwareKept, NothingLostByReads
<1> QED
  BY <1>3, <1>6, <1>7 DEF SoftwareKept

\* An entry of another kind comes.
LEMMA LongerByOther ==
  ASSUME ListKept, SoftwareKept, NEW bp, ~ IsSoftware(bp), Longer(bp),
         UNCHANGED <<bpx, reading, off>>
  PROVE  SoftwareKept'
<1>1. Software' = Software /\ \A i \in Software : bplist'[i] = bplist[i]
  BY DEF Longer, Software
<1>2. PlantedAsListed' /\ NothingLostByReads'
  BY <1>1 DEF SoftwareKept, PlantedAsListed, NothingLostByReads
<1>3. \A i \in Software : bplist[i].enabled <=> \E b \in bpx : b.addr = bplist[i].addr
  BY Shown DEF ListKept, SoftwareKept
<1>4. ShownStateIsEngineState'
  BY <1>1, <1>3, Shown DEF Longer
<1> QED
  BY <1>2, <1>4 DEF SoftwareKept

\* Nothing changes for the software breakpoints.
LEMMA UnchangedKeepsSoftware ==
  ASSUME SoftwareKept, UNCHANGED <<bplist, bpx, reading, off>>
  PROVE  SoftwareKept'
BY DEF SoftwareKept, PlantedAsListed, ShownStateIsEngineState, NothingLostByReads,
       Software, IsSoftware, IsBPXEnabled

\* A new breakpoint is planted; its name may then keep it out of the list.
LEMMA SetBPXKeepsSoftware ==
  ASSUME ListKept, SoftwareKept, NEW addr \in SwAddr, NEW type \in {"normal", "ss"},
         NEW name \in Name \cup {NoName}, SetBPX(addr, type, name)
  PROVE  SoftwareKept'
<1> DEFINE bp == New(addr, type, name, FALSE)
           new == Len(bplist) + 1
           b == [addr |-> addr, once |-> type = "ss"]
<1>1. /\ bplist' = IF NameTaken(name) THEN bplist ELSE Append(bplist, bp)
      /\ bpx' = bpx \cup {b} /\ off' = off \ {addr} /\ reading' = reading
      /\ \A c \in bpx : c.addr # addr
      /\ \A i \in Software : bplist[i].addr # addr
  BY DEF SetBPX, CommandThread, IsBPXEnabled, Found, Software
<1>2. \A c, d \in bpx' : c.addr = d.addr => c = d
  BY <1>1 DEF SoftwareKept, PlantedAsListed
<1>3. \A i \in Software : bplist[i].enabled <=> \E c \in bpx : c.addr = bplist[i].addr
  BY Shown DEF ListKept, SoftwareKept
<1>4. b.addr = addr /\ (b.once <=> type = "ss")
  OBVIOUS
<1>5. \A i \in Software : /\ bplist[i].enabled <=> \E c \in bpx' : c.addr = bplist[i].addr
                         /\ \A c \in bpx' : c.addr = bplist[i].addr => (c.once <=> bplist[i].type = "ss")
  <2> HIDE DEF b
  <2> QED
    BY <1>1, <1>3, <1>4 DEF SoftwareKept, PlantedAsListed
<1>6. \A i \in Software : reading = {} => bplist[i].enabled \/ bplist[i].addr \in off' \cup MayFail
  BY <1>1 DEF SoftwareKept, NothingLostByReads
<1>7. CASE NameTaken(name)
  <2>1. bplist' = bplist /\ Software' = Software /\ ListTypeOK'
    BY <1>1, <1>7 DEF Software, IsSoftware, ListKept, ListTypeOK
  <2>2. ShownStateIsEngineState'
    BY <1>5, <2>1, Shown
  <2>3. PlantedAsListed'
    BY <1>2, <1>5, <2>1 DEF PlantedAsListed
  <2>4. NothingLostByReads'
    BY <1>1, <1>6, <2>1 DEF NothingLostByReads
  <2> QED
    BY <2>2, <2>3, <2>4 DEF SoftwareKept
<1>8. CASE ~ NameTaken(name)
  <2>1. bp \in Entry /\ bp.addr = addr /\ bp.type = type /\ bp.enabled /\ IsSoftware(bp)
    BY NewEntries DEF New, IsSoftware
  <2>2. Longer(bp)
    BY <1>1, <1>8, <2>1, AppendLonger DEF ListKept
  <2> HIDE DEF bp, new
  <2>3. \A i \in Software' : (i \in Software /\ bplist'[i] = bplist[i]) \/ bplist'[i] = bp
    BY <2>2 DEF Longer, Software
  <2>4. b \in bpx'
    BY <1>1
  <2> HIDE DEF b
  <2>5. bp.enabled /\ (\E c \in bpx' : c.addr = bp.addr)
        /\ \A c \in bpx' : c.addr = bp.addr => (c.once <=> bp.type = "ss")
    BY <1>1, <1>4, <2>1, <2>4
  <2>6. ShownStateIsEngineState'
    BY <1>5, <2>2, <2>3, <2>5, Shown DEF Longer
  <2>7. PlantedAsListed'
    BY <1>2, <1>5, <2>3, <2>5 DEF PlantedAsListed
  <2>8. NothingLostByReads'
    BY <1>1, <1>6, <2>3, <2>5 DEF NothingLostByReads
  <2> QED
    BY <2>6, <2>7, <2>8 DEF SoftwareKept
<1> QED
  BY <1>7, <1>8

\* Deleting a breakpoint takes its opcode away, and no other.
LEMMA DeleteBPXKeepsSoftware ==
  ASSUME ListKept, KindsDisjoint, SoftwareKept, NEW i \in Software, NEW failing,
         DeleteBPX(i, failing)
  PROVE  SoftwareKept'
<1> DEFINE kept == DOMAIN bplist \ {i}
<1>1. /\ bplist' = RemoveAt(bplist, i) /\ reading' = reading
      /\ bpx' = {b \in bpx : b.addr # bplist[i].addr}
      /\ off' = off \ {bplist[i].addr}
  BY DEF DeleteBPX, CommandThread, Lifted, AddrsOf
<1>2. Thinned(kept) /\ i \in DOMAIN bplist
  BY <1>1, RemoveAtThins DEF ListKept, Software
<1>3. \A j \in kept \cap Software : bplist[j].addr # bplist[i].addr
  BY <1>2, SoftwareAlone
<1> QED
  BY <1>1, <1>2, <1>3, ThinnedKeepsSoftware

\* Deleting all leaves no node whose state could be wrong.
LEMMA DeleteAllKeepsSoftware ==
  ASSUME ListKept, SoftwareKept, NEW failing, DeleteAll(failing)
  PROVE  SoftwareKept'
<1> DEFINE kept == DOMAIN bplist \ Software
<1>1. /\ bplist' = Only(kept) /\ reading' = reading
      /\ bpx' \subseteq bpx
  BY DEF DeleteAll, CommandThread, Lifted
<1>2. Thinned(kept)
  BY <1>1, OnlyThins DEF ListKept
<1>3. kept \cap Software = {}
  OBVIOUS
<1> QED
  BY <1>1, <1>2, <1>3, ThinnedKeepsSoftware

\* A single shot breakpoint that is hit leaves the engine and the list; there
\* is one in the list only if the engine's is single shot.
LEMMA UserBreakpointKeepsSoftware ==
  ASSUME ListKept, KindsDisjoint, SoftwareKept, NEW b \in bpx, UserBreakpoint(b)
  PROVE  SoftwareKept'
<1> DEFINE gone == {i \in Found(b.addr, "normal") : bplist[i].type = "ss"}
           i == CHOOSE j \in gone : TRUE
<1>1. /\ bpx' = IF b.once THEN bpx \ {b} ELSE bpx
      /\ bplist' = IF gone = {} THEN bplist ELSE RemoveAt(bplist, i)
      /\ off' = off \ {bplist[j].addr : j \in gone} /\ reading' = reading
  BY DEF UserBreakpoint, Running, AddrsOf
<1>2. gone = {j \in Software : bplist[j].addr = b.addr /\ bplist[j].type = "ss"}
  BY DEF Found, Software, IsSoftware
<1>3. \A j \in Software : bplist[j].addr = b.addr => (b.once <=> j \in gone)
  BY <1>2 DEF SoftwareKept, PlantedAsListed
<1>4. \A c \in bpx : c.addr = b.addr => c = b
  BY DEF SoftwareKept, PlantedAsListed
<1> HIDE DEF gone
<1>5. CASE gone = {}
  <2>1. bplist' = bplist /\ off' = off
    BY <1>1, <1>5
  <2>2. Software' = Software
    BY <2>1 DEF Software, IsSoftware
  <2>3. \A j \in Software : \A c \in bpx : c.addr = bplist[j].addr => c \in bpx'
    BY <1>1, <1>3, <1>5
  <2>4. bpx' \subseteq bpx
    BY <1>1
  <2>5. \A j \in Software : bplist[j].enabled <=> \E c \in bpx' : c.addr = bplist[j].addr
    BY <2>3, <2>4, Shown DEF ListKept, SoftwareKept
  <2>6. ShownStateIsEngineState'
    BY <2>1, <2>2, <2>5, Shown DEF ListKept, ListTypeOK
  <2>7. PlantedAsListed'
    BY <2>1, <2>2, <2>4 DEF SoftwareKept, PlantedAsListed
  <2>8. NothingLostByReads'
    BY <1>1, <2>1, <2>2 DEF SoftwareKept, NothingLostByReads
  <2> QED
    BY <2>6, <2>7, <2>8 DEF SoftwareKept
<1>6. CASE gone # {}
  <2> DEFINE kept == DOMAIN bplist \ {i}
  <2>1. i \in gone
    BY <1>6
  <2> HIDE DEF i
  <2>2. i \in Software /\ i \in DOMAIN bplist /\ bplist[i].addr = b.addr
    BY <1>2, <2>1 DEF Software
  <2>3. Thinned(kept)
    BY <1>1, <1>6, <2>2, RemoveAtThins DEF ListKept
  <2>4. \A j \in kept \cap Software : bplist[j].addr # b.addr
    BY <2>2, SoftwareAlone
  <2>5. bpx' \subseteq bpx /\ \A c \in bpx : c.addr # b.addr => c \in bpx'
    BY <1>1
  <2>6. \A j \in gone : bplist[j].addr = b.addr
    BY <1>2
  <2>7. \A a : a \in off /\ a # b.addr => a \in off'
    BY <1>1, <2>6
  <2> QED
    BY <1>1, <2>3, <2>4, <2>5, <2>7, ThinnedKeepsSoftware
<1> QED
  BY <1>5, <1>6

\* A hit of a guarded region leaves the software breakpoints alone.
LEMMA MemoryBreakpointKeepsSoftware ==
  ASSUME ListKept, SoftwareKept, NEW m \in membp, MemoryBreakpoint(m)
  PROVE  SoftwareKept'
<1> DEFINE found == Found(m.base, "mem")
           i == CHOOSE j \in found : TRUE
<1>1. /\ bplist' = IF \A j \in found : bplist[j].restore THEN bplist
                  ELSE RemoveAt(bplist, i)
      /\ bpx' = bpx /\ off' = off /\ reading' = reading
  BY DEF MemoryBreakpoint, Running
<1>2. CASE \A j \in found : bplist[j].restore
  BY <1>1, <1>2, UnchangedKeepsSoftware
<1>3. CASE ~ \A j \in found : bplist[j].restore
  <2>1. i \in DOMAIN bplist
    BY <1>3 DEF Found
  <2> HIDE DEF i, found
  <2>2. Thinned(DOMAIN bplist \ {i})
    BY <1>1, <1>3, <2>1, RemoveAtThins DEF ListKept
  <2> QED
    BY <1>1, <2>2, ThinnedKeepsSoftware
<1> QED
  BY <1>2, <1>3

\* So does a new memory breakpoint.
LEMMA SetMemoryBPXKeepsSoftware ==
  ASSUME ListKept, SoftwareKept, NEW addr \in MemAddr, NEW restore \in BOOLEAN, NEW failing,
         SetMemoryBPX(addr, restore, failing)
  PROVE  SoftwareKept'
<1> DEFINE bp == New(addr, "mem", NoName, restore)
<1>1. /\ bplist' = IF Found(addr, "mem") # {} THEN bplist ELSE Append(bplist, bp)
      /\ UNCHANGED <<bpx, reading, off>>
  BY DEF SetMemoryBPX, CommandThread
<1>2. bp \in Entry /\ ~ IsSoftware(bp)
  BY NewEntries DEF New, IsSoftware
<1> HIDE DEF bp
<1> QED
  BY <1>1, <1>2, AppendLonger, LongerByOther, UnchangedKeepsSoftware DEF ListKept

\* So does a new hardware breakpoint.
LEMMA SetHardwareKeepsSoftware ==
  ASSUME ListKept, SoftwareKept, NEW addr \in HwAddr, NEW failing,
         SetHardwareBreakpoint(addr, failing)
  PROVE  SoftwareKept'
<1> DEFINE bp == New(addr, "hw", NoName, FALSE)
<1>1. bplist' = Append(bplist, bp) /\ UNCHANGED <<bpx, reading, off>>
  BY DEF SetHardwareBreakpoint, CommandThread
<1>2. bp \in Entry /\ ~ IsSoftware(bp)
  BY NewEntries DEF New, IsSoftware
<1> HIDE DEF bp
<1> QED
  BY <1>1, <1>2, AppendLonger, LongerByOther DEF ListKept

\* An empty list and an engine without breakpoints.
LEMMA EmptyKeepsSoftware ==
  /\ bplist = <<>> /\ bpx = {} => SoftwareKept
  /\ bplist' = <<>> /\ bpx' = {} => SoftwareKept'
<1>1. bplist = <<>> => Software = {}
  BY DEF Software
<1>2. bplist' = <<>> => Software' = {}
  BY DEF Software
<1> QED
  BY <1>1, <1>2 DEF SoftwareKept, PlantedAsListed, ShownStateIsEngineState, NothingLostByReads

\* One step for every action.
LEMMA StepKeepsSoftware ==
  ASSUME KindsDisjoint
  PROVE  ListKept /\ SoftwareKept /\ [Next]_vars => SoftwareKept'
<1> SUFFICES ASSUME ListKept, SoftwareKept, [Next]_vars
             PROVE  SoftwareKept'
  OBVIOUS
<1>1. CASE UNCHANGED vars
  BY <1>1, UnchangedKeepsSoftware DEF vars, engine
<1>2. ASSUME NEW i \in Software, NEW failing \in Failing,
             EnableBPX(i, failing) \/ DisableBPX(i, failing) \/ ToggleBPX(i, failing)
      PROVE  SoftwareKept'
  <2>1. {i} \in SUBSET DOMAIN bplist
    BY DEF Software
  <2> QED
    BY <1>2, <2>1, EnableKeepsSoftware, DisableKeepsSoftware
       DEF EnableBPX, DisableBPX, ToggleBPX, CommandThread
<1>3. ASSUME NEW failing \in Failing, EnableAll(failing) \/ DisableAll(failing)
      PROVE  SoftwareKept'
  BY <1>3, EnableKeepsSoftware, DisableKeepsSoftware DEF EnableAll, DisableAll, CommandThread
<1>4. CASE NewSession
  BY <1>4, EmptyKeepsSoftware DEF NewSession
<1>5. CASE UserCommand
  BY <1>2, <1>3, <1>5, SetBPXKeepsSoftware, SetMemoryBPXKeepsSoftware, SetHardwareKeepsSoftware,
     DeleteBPXKeepsSoftware, DeleteAllKeepsSoftware DEF UserCommand
<1>6. CASE DebugThread
  BY <1>4, <1>6, UserBreakpointKeepsSoftware, MemoryBreakpointKeepsSoftware DEF DebugThread
<1>7. CASE MemoryRead
  BY <1>7, ReadBeginKeepsSoftware, ReadEndKeepsSoftware DEF MemoryRead
<1> QED
  BY <1>1, <1>5, <1>6, <1>7 DEF Next

\* The state of the software breakpoints is kept throughout.
LEMMA SoftwareIsKept ==
  ASSUME KindsDisjoint
  PROVE  Spec => [](ListKept /\ SoftwareKept)
<1>1. Init => ListKept /\ SoftwareKept
  BY EmptyList, EmptyKeepsSoftware DEF Init
<1>2. ListKept /\ SoftwareKept /\ [Next]_vars => (ListKept /\ SoftwareKept)'
  BY StepKeepsList, StepKeepsSoftware
<1> QED
  BY <1>1, <1>2, PTL DEF Spec

\* What the list shows is what the engine holds, even when the engine's calls
\* fail and while other threads read memory.
THEOREM ShownStateStaysTrue ==
  ASSUME KindsDisjoint
  PROVE  Spec => []ShownStateIsEngineState
<1>1. ListKept /\ SoftwareKept => ShownStateIsEngineState
  BY DEF SoftwareKept
<1> QED
  BY <1>1, SoftwareIsKept, PTL

\* Reads of memory, however they overlap, lose no breakpoint of the user.
THEOREM ReadsLoseNothing ==
  ASSUME KindsDisjoint
  PROVE  Spec => []NothingLostByReads
<1>1. ListKept /\ SoftwareKept => NothingLostByReads
  BY DEF SoftwareKept
<1> QED
  BY <1>1, SoftwareIsKept, PTL

-----------------------------------------------------------------------------
(* The guarded regions.                                                     *)

\* The entries a memory hit looks up.
LEMMA FoundInMemory ==
  /\ \A base : Found(base, "mem") = {i \in Memory : bplist[i].addr = base}
  /\ \A base : Found(base, "mem")' = {i \in Memory' : bplist'[i].addr = base}
BY DEF Found, Memory, IsSoftware

\* The memory entries keep their places, addresses and `restore`.
LEMMA SameMemoryKeepsWatch ==
  ASSUME WatchKept, membp' = membp, Memory' = Memory,
         \A i \in Memory : bplist'[i].addr = bplist[i].addr /\ bplist'[i].restore = bplist[i].restore
  PROVE  WatchKept'
<1>1. \A m \in membp' : \E i \in Memory' : bplist'[i].addr = m.base
  BY FoundInMemory DEF WatchKept, MemoryHitIsFound
<1>2. \A m \in membp' : \A i \in Memory' :
        bplist'[i].addr = m.base => (m.restore <=> bplist'[i].restore)
  BY FoundInMemory DEF WatchKept, WatchedAsListed
<1>3. WatchedAsListed'
  BY <1>2, FoundInMemory DEF WatchKept, WatchedAsListed
<1>4. MemoryHitIsFound'
  BY <1>1, FoundInMemory DEF MemoryHitIsFound
<1> QED
  BY <1>3, <1>4 DEF WatchKept

\* Nodes go, and with the memory ones the guards of their regions.
LEMMA ThinnedKeepsWatch ==
  ASSUME WatchKept, NEW kept \in SUBSET DOMAIN bplist, Thinned(kept), membp' \subseteq membp,
         \A m \in membp' : \A i \in Memory : bplist[i].addr = m.base => i \in kept
  PROVE  WatchKept'
<1>1. PICK old \in [DOMAIN bplist' -> kept] :
        /\ \A i \in kept : \E k \in DOMAIN bplist' : old[k] = i
        /\ \A k \in DOMAIN bplist' : bplist'[k] = bplist[old[k]]
  BY DEF Thinned
<1>2. \A k \in Memory' : old[k] \in Memory /\ bplist'[k] = bplist[old[k]]
  BY <1>1 DEF Memory
<1>3. ASSUME NEW m \in membp'
      PROVE  \E k \in Memory' : bplist'[k].addr = m.base
  <2>1. PICK i \in Memory : bplist[i].addr = m.base
    BY FoundInMemory DEF WatchKept, MemoryHitIsFound
  <2>2. PICK k \in DOMAIN bplist' : old[k] = i
    BY <1>1, <2>1
  <2> QED
    BY <1>1, <2>1, <2>2 DEF Memory
<1>4. ASSUME NEW m \in membp', NEW k \in Memory', bplist'[k].addr = m.base
      PROVE  m.restore <=> bplist'[k].restore
  BY <1>2, <1>4, FoundInMemory DEF WatchKept, WatchedAsListed
<1>5. WatchedAsListed'
  BY <1>4, FoundInMemory DEF WatchKept, WatchedAsListed
<1>6. MemoryHitIsFound'
  BY <1>3, FoundInMemory DEF MemoryHitIsFound
<1> QED
  BY <1>5, <1>6 DEF WatchKept

\* A node of another kind comes.
LEMMA LongerKeepsWatch ==
  ASSUME WatchKept, NEW bp, bp.type # "mem", Longer(bp), membp' = membp
  PROVE  WatchKept'
<1>1. Memory' = Memory /\ \A i \in Memory : bplist'[i] = bplist[i]
  BY DEF Longer, Memory
<1> QED
  BY <1>1, SameMemoryKeepsWatch

\* Planting and lifting leave the guarded regions alone.
LEMMA EngineStepKeepsWatch ==
  ASSUME ListKept, WatchKept, EngineStep
  PROVE  WatchKept'
<1>1. SameNodes /\ membp' = membp
  BY PlantSame, LiftSame DEF EngineStep, ListKept
<1>2. Memory' = Memory /\ \A i \in Memory : bplist'[i].addr = bplist[i].addr
                                       /\ bplist'[i].restore = bplist[i].restore
  BY <1>1 DEF SameNodes, Memory
<1> QED
  BY <1>1, <1>2, SameMemoryKeepsWatch

\* So does what changes neither the list nor the regions.
LEMMA UnchangedKeepsWatch ==
  ASSUME WatchKept, UNCHANGED <<bplist, membp>>
  PROVE  WatchKept'
<1>1. Memory' = Memory
  BY DEF Memory
<1> QED
  BY <1>1, SameMemoryKeepsWatch

\* So does a new software breakpoint.
LEMMA SetBPXKeepsWatch ==
  ASSUME ListKept, WatchKept, NEW addr \in SwAddr, NEW type \in {"normal", "ss"},
         NEW name \in Name \cup {NoName}, SetBPX(addr, type, name)
  PROVE  WatchKept'
<1> DEFINE bp == New(addr, type, name, FALSE)
<1>1. membp' = membp /\ bplist' = IF NameTaken(name) THEN bplist ELSE Append(bplist, bp)
  BY DEF SetBPX
<1>2. bp \in Entry /\ bp.type # "mem"
  BY NewEntries DEF New
<1> HIDE DEF bp
<1> QED
  BY <1>1, <1>2, AppendLonger, LongerKeepsWatch, UnchangedKeepsWatch DEF ListKept

\* So does a new hardware breakpoint.
LEMMA SetHardwareKeepsWatch ==
  ASSUME ListKept, WatchKept, NEW addr \in HwAddr, NEW failing,
         SetHardwareBreakpoint(addr, failing)
  PROVE  WatchKept'
<1> DEFINE bp == New(addr, "hw", NoName, FALSE)
<1>1. membp' = membp /\ bplist' = Append(bplist, bp)
  BY DEF SetHardwareBreakpoint
<1>2. bp \in Entry /\ bp.type # "mem"
  BY NewEntries DEF New
<1> HIDE DEF bp
<1> QED
  BY <1>1, <1>2, AppendLonger, LongerKeepsWatch DEF ListKept

\* Given the base of its region, the breakpoint is listed as it is guarded.
LEMMA SetMemoryBPXKeepsWatch ==
  ASSUME AtTheirBase, ListKept, WatchKept, NEW addr \in MemAddr, NEW restore \in BOOLEAN,
         NEW failing, SetMemoryBPX(addr, restore, failing)
  PROVE  WatchKept'
<1> DEFINE bp == New(addr, "mem", NoName, restore)
           region == [base |-> addr, restore |-> restore]
           new == Len(bplist) + 1
<1>1. BaseOf[addr] = addr
  BY DEF AtTheirBase
<1>2. /\ Found(addr, "mem") = {}
      /\ \A m \in membp : m.base # addr
      /\ membp' = membp \cup {region}
  BY <1>1 DEF SetMemoryBPX
<1>3. bplist' = Append(bplist, bp)
  BY <1>2 DEF SetMemoryBPX
<1>4. bp \in Entry /\ bp.addr = addr /\ bp.type = "mem" /\ bp.restore = restore
  BY NewEntries DEF New
<1>5. region.base = addr /\ region.restore = restore
  OBVIOUS
<1>6. Longer(bp)
  BY <1>3, <1>4, AppendLonger DEF ListKept
<1> HIDE DEF bp, region, new
<1>7. /\ Memory' = Memory \cup {new} /\ bplist'[new] = bp
      /\ \A i \in Memory : bplist'[i] = bplist[i] /\ bplist[i].addr # addr
  BY <1>2, <1>4, <1>6, FoundInMemory DEF Longer, Memory, new
<1>8. \A m, n \in membp' : m.base = n.base => m = n
  BY <1>2, <1>5 DEF WatchKept, WatchedAsListed
<1>9. \A m \in membp' : \A i \in Memory' : bplist'[i].addr = m.base => (m.restore <=> bplist'[i].restore)
  <2> SUFFICES ASSUME NEW m \in membp', NEW i \in Memory', bplist'[i].addr = m.base
               PROVE  m.restore <=> bplist'[i].restore
    OBVIOUS
  <2>1. CASE m \in membp /\ i \in Memory
    BY <1>7, <2>1, FoundInMemory DEF WatchKept, WatchedAsListed
  <2>2. CASE m = region /\ i = new
    BY <1>4, <1>5, <1>7, <2>2
  <2>3. CASE m \in membp /\ i = new
    BY <1>2, <1>4, <1>7, <2>3
  <2>4. CASE m = region /\ i \in Memory
    BY <1>5, <1>7, <2>4
  <2> QED
    BY <1>2, <1>7, <2>1, <2>2, <2>3, <2>4
<1>10. \A m \in membp' : \E i \in Memory' : bplist'[i].addr = m.base
  <2>1. \A m \in membp : \E i \in Memory : bplist[i].addr = m.base
    BY FoundInMemory DEF WatchKept, MemoryHitIsFound
  <2> QED
    BY <1>2, <1>4, <1>5, <1>7, <2>1
<1>11. WatchedAsListed'
  BY <1>8, <1>9, FoundInMemory DEF WatchedAsListed
<1>12. MemoryHitIsFound'
  BY <1>10, FoundInMemory DEF MemoryHitIsFound
<1> QED
  BY <1>11, <1>12 DEF WatchKept

\* A hit removes the entry exactly when the engine removes the guard.
LEMMA MemoryBreakpointKeepsWatch ==
  ASSUME ListKept, WatchKept, NEW m \in membp, MemoryBreakpoint(m)
  PROVE  WatchKept'
<1> DEFINE found == Found(m.base, "mem")
           i == CHOOSE j \in found : TRUE
<1>1. /\ bplist' = IF \A j \in found : bplist[j].restore THEN bplist ELSE RemoveAt(bplist, i)
      /\ membp' = IF m.restore THEN membp ELSE membp \ {m}
  BY DEF MemoryBreakpoint
<1>2. found # {} /\ \A j \in found : m.restore <=> bplist[j].restore
  BY DEF WatchKept, WatchedAsListed, MemoryHitIsFound
<1>3. i \in found
  BY <1>2
<1>4. found = {j \in Memory : bplist[j].addr = m.base}
  BY FoundInMemory
<1> HIDE DEF found, i
<1>5. CASE m.restore
  BY <1>1, <1>2, <1>5, UnchangedKeepsWatch
<1>6. CASE ~ m.restore
  <2>1. bplist' = RemoveAt(bplist, i) /\ membp' = membp \ {m} /\ i \in DOMAIN bplist
    BY <1>1, <1>2, <1>3, <1>4, <1>6 DEF Memory
  <2>2. Thinned(DOMAIN bplist \ {i})
    BY <2>1, RemoveAtThins DEF ListKept
  <2>3. \A n \in membp' : n.base # m.base
    BY <2>1 DEF WatchKept, WatchedAsListed
  <2>4. bplist[i].addr = m.base
    BY <1>3, <1>4
  <2>5. \A n \in membp' : \A j \in Memory : bplist[j].addr = n.base => j \in DOMAIN bplist \ {i}
    BY <2>3, <2>4 DEF Memory
  <2>6. membp' \subseteq membp
    BY <2>1
  <2> QED
    BY <2>2, <2>5, <2>6, ThinnedKeepsWatch
<1> QED
  BY <1>5, <1>6

\* Software breakpoints leave the list.
LEMMA SoftwareGoesKeepsWatch ==
  ASSUME WatchKept, NEW kept \in SUBSET DOMAIN bplist, Thinned(kept), membp' = membp,
         Memory \subseteq kept
  PROVE  WatchKept'
BY ThinnedKeepsWatch

\* So does deleting software breakpoints.
LEMMA DeleteKeepsWatch ==
  ASSUME ListKept, WatchKept, NEW failing,
         DeleteAll(failing) \/ \E i \in Software : DeleteBPX(i, failing)
  PROVE  WatchKept'
<1>1. CASE DeleteAll(failing)
  <2>1. Thinned(DOMAIN bplist \ Software) /\ membp' = membp
    BY <1>1, OnlyThins DEF ListKept, DeleteAll
  <2>2. Memory \subseteq DOMAIN bplist \ Software
    BY DEF Memory, Software, IsSoftware
  <2> QED
    BY <2>1, <2>2, SoftwareGoesKeepsWatch
<1>2. ASSUME NEW i \in Software, DeleteBPX(i, failing)
      PROVE  WatchKept'
  <2>1. Thinned(DOMAIN bplist \ {i}) /\ membp' = membp
    BY <1>2, RemoveAtThins DEF ListKept, DeleteBPX, Software
  <2>2. Memory \subseteq DOMAIN bplist \ {i}
    BY DEF Memory, Software, IsSoftware
  <2> QED
    BY <2>1, <2>2, SoftwareGoesKeepsWatch
<1> QED
  BY <1>1, <1>2

\* So does a hit of one.
LEMMA UserBreakpointKeepsWatch ==
  ASSUME ListKept, WatchKept, NEW b \in bpx, UserBreakpoint(b)
  PROVE  WatchKept'
<1> DEFINE gone == {i \in Found(b.addr, "normal") : bplist[i].type = "ss"}
           i == CHOOSE j \in gone : TRUE
<1>1. membp' = membp /\ bplist' = IF gone = {} THEN bplist ELSE RemoveAt(bplist, i)
  BY DEF UserBreakpoint
<1>2. CASE gone = {}
  BY <1>1, <1>2, UnchangedKeepsWatch
<1>3. CASE gone # {}
  <2>1. i \in DOMAIN bplist /\ bplist[i].type = "ss"
    BY <1>3 DEF Found
  <2> HIDE DEF gone, i
  <2>2. Thinned(DOMAIN bplist \ {i})
    BY <1>1, <1>3, <2>1, RemoveAtThins DEF ListKept
  <2>3. Memory \subseteq DOMAIN bplist \ {i}
    BY <2>1 DEF Memory
  <2> QED
    BY <1>1, <2>2, <2>3, SoftwareGoesKeepsWatch
<1> QED
  BY <1>2, <1>3

\* Without regions there is nothing to find.
LEMMA EmptyKeepsWatch ==
  /\ membp = {} => WatchKept
  /\ membp' = {} => WatchKept'
BY DEF WatchKept, WatchedAsListed, MemoryHitIsFound

\* One step for every action.
LEMMA StepKeepsWatch ==
  ASSUME AtTheirBase
  PROVE  ListKept /\ WatchKept /\ [Next]_vars => WatchKept'
<1> SUFFICES ASSUME ListKept, WatchKept, [Next]_vars
             PROVE  WatchKept'
  OBVIOUS
<1>1. CASE UNCHANGED vars
  BY <1>1, UnchangedKeepsWatch DEF vars, engine
<1>2. ASSUME NEW i \in Software, NEW failing \in Failing,
             EnableBPX(i, failing) \/ DisableBPX(i, failing) \/ ToggleBPX(i, failing)
      PROVE  WatchKept'
  <2>1. {i} \in SUBSET DOMAIN bplist
    BY DEF Software
  <2>2. Plant({i}, failing) \/ Lift({i}, failing)
    BY <1>2 DEF EnableBPX, DisableBPX, ToggleBPX
  <2> QED
    BY <2>1, <2>2, EngineStepKeepsWatch DEF EngineStep
<1>3. ASSUME NEW failing \in Failing, EnableAll(failing) \/ DisableAll(failing)
      PROVE  WatchKept'
  <2>1. Plant(DOMAIN bplist, failing) \/ Lift(DOMAIN bplist, failing)
    BY <1>3 DEF EnableAll, DisableAll
  <2> QED
    BY <2>1, EngineStepKeepsWatch DEF EngineStep
<1>4. ASSUME NEW r \in Reader, NEW failing \in Failing,
             ReadBegin(r, failing) \/ ReadEnd(r, failing)
      PROVE  WatchKept'
  <2>1. Software \in SUBSET DOMAIN bplist
    BY DEF Software
  <2>2. Plant(Software, failing) \/ Lift(Software, failing)
    BY <1>4 DEF ReadBegin, ReadEnd
  <2> QED
    BY <2>1, <2>2, EngineStepKeepsWatch DEF EngineStep
<1>5. CASE NewSession
  BY <1>5, EmptyKeepsWatch DEF NewSession
<1>6. CASE UserCommand
  BY <1>2, <1>3, <1>6, SetBPXKeepsWatch, SetMemoryBPXKeepsWatch, SetHardwareKeepsWatch,
     DeleteKeepsWatch DEF UserCommand
<1>7. CASE DebugThread
  BY <1>5, <1>7, UserBreakpointKeepsWatch, MemoryBreakpointKeepsWatch DEF DebugThread
<1>8. CASE MemoryRead
  BY <1>4, <1>8 DEF MemoryRead
<1> QED
  BY <1>1, <1>6, <1>7, <1>8 DEF Next

\* A hit of a guarded region is found in the list, where the regions are given
\* by their base.
THEOREM MemoryHitsAreFound ==
  ASSUME AtTheirBase
  PROVE  Spec => []MemoryHitIsFound
<1>1. Init => ListKept /\ WatchKept
  BY EmptyList, EmptyKeepsWatch DEF Init
<1>2. ListKept /\ WatchKept /\ [Next]_vars => (ListKept /\ WatchKept)'
  BY StepKeepsList, StepKeepsWatch
<1>3. ListKept /\ WatchKept => MemoryHitIsFound
  BY DEF WatchKept
<1> QED
  BY <1>1, <1>2, <1>3, PTL DEF Spec
=============================================================================
