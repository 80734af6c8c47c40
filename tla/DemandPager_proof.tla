------------------------- MODULE DemandPager_proof -------------------------
(***************************************************************************)
(* Proofs about DemandPager for any page size, any files and any accesses. *)
(* PagerInv adds to TypeOK what the arithmetic of the handler rests on:    *)
(* the fields of the segments are numbers, and the segments, their arrays  *)
(* of flags and their headers are counted alike.                           *)
(***************************************************************************)
EXTENDS DemandPager, NaturalLemmas, SequenceTheorems

SegmentSet == [vaddr : Nat, offset : Int, file_size : Nat, mem_size : Nat,
               perm : SUBSET Perms]

PagerInv ==
    /\ TypeOK
    /\ DOMAIN segs \subseteq Nat
    /\ DOMAIN data = DOMAIN segs /\ DOMAIN flags = DOMAIN segs
    /\ segs \in [DOMAIN segs -> SegmentSet]

(* The start of a page is at or below each of its addresses.                *)
LEMMA PageOfFacts ==
    ASSUME NEW a \in Nat
    PROVE  PageOf(a) \in Nat /\ PageOf(a) <= a /\ PageOf(PageOf(a)) = PageOf(a)
<1> DEFINE k == a \div PageSize
<1>1. /\ PageSize \in Nat \ {0}
      /\ k \in Int /\ PageSize * k <= a /\ a < PageSize * k + PageSize
  BY PageSizeAssumption, DivFacts
<1> HIDE DEF k
<1>2. k >= 0
  BY <1>1, SMT
<1>3. PageSize * k \in Nat
  BY <1>1, <1>2, SMT
<1>4. (PageSize * k) \div PageSize = k
  BY <1>1, <1>3, DivUnique
<1> QED BY <1>1, <1>3, <1>4 DEF PageOf, k

(* ALIGN_DOWN and the difference it makes leave the fields in range.        *)
LEMMA SegmentFacts ==
    ASSUME NEW ph \in ProgramHeader
    PROVE  /\ Segment(ph) \in SegmentSet
           /\ Segment(ph).vaddr = PageOf(Segment(ph).vaddr)
<1>1. /\ ph.vaddr \in Nat /\ ph.offset \in Nat /\ ph.filesz \in Nat
      /\ ph.memsz \in Nat /\ ph.flags \in SUBSET Perms
  BY DEF ProgramHeader
<1>2. /\ PageOf(ph.vaddr) \in Nat /\ PageOf(ph.vaddr) <= ph.vaddr
      /\ PageOf(PageOf(ph.vaddr)) = PageOf(ph.vaddr)
  BY <1>1, PageOfFacts
<1> QED BY <1>1, <1>2 DEF Segment, SegmentSet

(* The address the handler maps is the start of the page of the fault.      *)
LEMMA MapsThePage ==
    ASSUME NEW s \in SegmentSet, s.vaddr = PageOf(s.vaddr),
           NEW a \in Nat, s.vaddr <= a
    PROVE  /\ s.vaddr + PageOffset(s, a) = PageOf(a)
           /\ PageIdx(s, a) \in Nat
<1> DEFINE k == s.vaddr \div PageSize
           q == a \div PageSize
<1>1. /\ s.vaddr \in Nat /\ s.vaddr = PageSize * k /\ PageSize \in Nat \ {0}
  <2>1. s.vaddr \in Nat
    BY DEF SegmentSet
  <2>2. s.vaddr = PageSize * k
    BY Zenon DEF PageOf
  <2> QED BY <2>1, <2>2, PageSizeAssumption
<1>2. /\ k \in Int /\ q \in Int
      /\ PageSize * q <= a /\ a < PageSize * q + PageSize
  BY <1>1, DivFacts
<1>3. PageOf(a) = PageSize * q
  BY DEF PageOf
<1> HIDE DEF k
<1>4. PageIdx(s, a) = q - k
  <2>1. (a - PageSize * k) \div PageSize = (a \div PageSize) - k
    BY <1>1, <1>2, DivShift
  <2> QED BY <1>1, <2>1 DEF PageIdx
<1> HIDE DEF q
<1>5. PageSize * (q - k) = PageSize * q - PageSize * k
  BY <1>1, <1>2, SMT
<1>6. (q - k) * PageSize = PageSize * (q - k)
  BY <1>1, <1>2, SMT
<1>7. PageSize * k \in Int /\ PageSize * q \in Int
  BY <1>1, <1>2, SMT
<1>8. s.vaddr + PageOffset(s, a) = PageOf(a)
  BY <1>1, <1>3, <1>4, <1>5, <1>6, <1>7 DEF PageOffset
<1>9. q >= k
  BY <1>1, <1>2, SMT
<1> QED BY <1>2, <1>4, <1>8, <1>9

(* The segment the loop of segv_handler() stops at contains the address.    *)
LEMMA ChosenFacts ==
    ASSUME PagerInv, Candidates # {}, asked # Nothing
    PROVE  /\ Chosen \in DOMAIN segs /\ segs[Chosen] \in SegmentSet
           /\ segs[Chosen].vaddr = PageOf(segs[Chosen].vaddr)
           /\ asked.addr \in Nat /\ segs[Chosen].vaddr <= asked.addr
           /\ asked.addr <= segs[Chosen].vaddr + segs[Chosen].mem_size
<1>1. Candidates \in SUBSET Nat
  BY DEF PagerInv, Candidates
<1>2. Chosen \in Candidates
  BY <1>1, MinIsLeast DEF Chosen
<1>3. asked.addr \in Nat
  BY DEF PagerInv, TypeOK
<1> QED BY <1>2, <1>3 DEF Candidates, InSegment, PagerInv, TypeOK


LEMMA InitTyped == Init => PagerInv
  BY UnnoticedAssumption DEF Init, PagerInv, TypeOK

(* so_execute() makes segments of the loadable headers.                     *)
LEMMA SoExecuteTyped ==
    ASSUME PagerInv, SoExecute
    PROVE  PagerInv'
<1>1. file.phdrs \in Seq(ProgramHeader)
  BY FilesAssumption DEF PagerInv, TypeOK
<1>2. /\ LoadHeaders \subseteq Nat
      /\ \A i \in LoadHeaders : file.phdrs[i] \in ProgramHeader
  BY <1>1, LenProperties, ElementOfSeq DEF LoadHeaders
<1>3. \A i \in LoadHeaders : /\ segs'[i] \in SegmentSet
                             /\ segs'[i].vaddr = PageOf(segs'[i].vaddr)
  BY <1>2, SegmentFacts DEF SoExecute
<1>4. /\ DOMAIN segs' = LoadHeaders /\ segs' \in [LoadHeaders -> SegmentSet]
      /\ DOMAIN data' = LoadHeaders /\ DOMAIN flags' = LoadHeaders
  BY <1>3 DEF SoExecute
<1>5. \A i \in LoadHeaders : /\ data'[i] \in {"NULL", "array", "garbage"}
                             /\ flags'[i] = {}
  BY DEF SoExecute
<1>6. TypeOK'
  BY <1>3, <1>4, <1>5 DEF SoExecute, PagerInv, TypeOK
<1> QED BY <1>2, <1>4, <1>6 DEF PagerInv

(* The loader reads the header at an address behind the lowest segment's    *)
(* start, which is a number whether or not there is a segment.              *)
LEMMA BaseAddrFacts ==
    ASSUME PagerInv
    PROVE  /\ BaseAddr \in Nat
           /\ \A i \in DOMAIN segs : BaseAddr <= segs[i].vaddr
           /\ DOMAIN segs # {} => \E i \in DOMAIN segs : BaseAddr = segs[i].vaddr
<1>1. CASE DOMAIN segs = {}
  BY <1>1, LimitAssumption DEF BaseAddr
<1>2. CASE DOMAIN segs # {}
  <2> DEFINE starts == {segs[i].vaddr : i \in DOMAIN segs}
  <2>1. starts \in SUBSET Nat /\ starts # {} /\ BaseAddr = Min(starts)
    BY <1>2 DEF PagerInv, SegmentSet, BaseAddr
  <2>3. BaseAddr \in starts /\ \A n \in starts : BaseAddr <= n
    BY <2>1, MinIsLeast
  <2> QED BY <2>1, <2>3
<1> QED BY <1>1, <1>2

(* An access changes a byte of its page and nothing else.                   *)
LEMMA TouchTyped ==
    ASSUME PagerInv, Touch
    PROVE  PagerInv' /\ DOMAIN pages' = DOMAIN pages
<1>1. /\ DOMAIN pages' = DOMAIN pages
      /\ \A p \in DOMAIN pages : /\ pages'[p].perm = pages[p].perm
                                 /\ DOMAIN pages'[p].bytes = DOMAIN pages[p].bytes
  BY DEF Touch, Permitted
<1>2. TypeOK'
  BY <1>1 DEF Touch, PagerInv, TypeOK
<1> QED BY <1>1, <1>2 DEF Touch, PagerInv

(* What the handler does to the pages and the flags, with the arithmetic    *)
(* done.                                                                    *)
LEMMA PutPageFacts ==
    ASSUME PagerInv, NEW page, PutPage(page)
    PROVE  LET s   == segs[Chosen]
               p   == PageOf(asked.addr)
               idx == PageIdx(s, asked.addr)
           IN /\ p = s.vaddr + idx * PageSize /\ idx \in Nat
              /\ DOMAIN pages' = DOMAIN pages \cup {p}
              /\ \A r \in DOMAIN pages : r # p => pages'[r] = pages[r]
              /\ pages'[p] = page
              /\ DOMAIN flags' = DOMAIN flags /\ DOMAIN data' = DOMAIN data
              /\ flags'[Chosen] = FlagsAfter(Chosen, idx)
              /\ \A i \in DOMAIN flags : i # Chosen => flags'[i] = flags[i]
<1> DEFINE s   == segs[Chosen]
           p   == PageOf(asked.addr)
           idx == PageIdx(s, asked.addr)
           off == PageOffset(s, asked.addr)
<1>1. Candidates # {} /\ asked # Nothing
  BY DEF PutPage, Fault
<1>2. /\ Chosen \in DOMAIN segs /\ s \in SegmentSet /\ s.vaddr = PageOf(s.vaddr)
      /\ asked.addr \in Nat /\ s.vaddr <= asked.addr
  BY <1>1, ChosenFacts
<1>3. s.vaddr + off = p /\ idx \in Nat
  BY <1>2, MapsThePage
<1>4. off = idx * PageSize
  BY DEF PageOffset
<1>5. pages' = [r \in DOMAIN pages \cup {p} |-> IF r = p THEN page ELSE pages[r]]
  BY <1>3 DEF PutPage
<1>6. /\ DOMAIN pages' = DOMAIN pages \cup {p}
      /\ \A r \in DOMAIN pages : r # p => pages'[r] = pages[r]
      /\ pages'[p] = page
  <2> HIDE DEF s, p, off
  <2> QED BY <1>5
<1>7. /\ data' = [data EXCEPT ![Chosen] = IF @ = "NULL" THEN "array" ELSE @]
      /\ flags' = [flags EXCEPT ![Chosen] = FlagsAfter(Chosen, idx)]
  BY DEF PutPage
<1>8. /\ DOMAIN flags' = DOMAIN flags /\ DOMAIN data' = DOMAIN data
      /\ flags'[Chosen] = FlagsAfter(Chosen, idx)
      /\ \A i \in DOMAIN flags : i # Chosen => flags'[i] = flags[i]
  <2> HIDE DEF s, idx
  <2> QED BY <1>2, <1>7 DEF PagerInv
<1> QED BY <1>3, <1>4, <1>6, <1>8

(* Noticed or not, the handler puts a page where the access was made.       *)
Maps == MapPage \/ MapPageUnnoticed

LEMMA MapsPutsPage ==
    ASSUME PagerInv, Maps
    PROVE  LET s == segs[Chosen]
               p == PageOf(asked.addr)
           IN /\ MapPage => /\ PutPage(NewPage(s, PageIdx(s, asked.addr) * PageSize))
                            /\ UNCHANGED unnoticed
              /\ MapPageUnnoticed => unnoticed' = unnoticed + 1 /\ unnoticed < MaxUnnoticed
              /\ \E page : /\ PutPage(page) /\ DOMAIN page = {"perm", "bytes"}
                           /\ DOMAIN page.bytes = p .. p + PageSize - 1
                           /\ page.perm \subseteq Perms
<1> DEFINE s   == segs[Chosen]
           p   == PageOf(asked.addr)
           off == PageOffset(s, asked.addr)
<1>1. Candidates # {} /\ asked # Nothing
  BY DEF Maps, MapPage, MapPageUnnoticed, PutPage, Fault
<1>2. /\ s \in SegmentSet /\ s.vaddr = PageOf(s.vaddr)
      /\ asked.addr \in Nat /\ s.vaddr <= asked.addr
  BY <1>1, ChosenFacts
<1>3. s.vaddr + off = p /\ s.perm \subseteq Perms /\ {"W"} \subseteq Perms
  BY <1>2, MapsThePage DEF SegmentSet, Perms
<1>4. off = PageIdx(s, asked.addr) * PageSize
  BY DEF PageOffset
<1>5. MapPage => PutPage(NewPage(s, off)) /\ UNCHANGED unnoticed
  BY DEF MapPage
<1>6. MapPageUnnoticed =>
          /\ unnoticed' = unnoticed + 1 /\ unnoticed < MaxUnnoticed
          /\ \E perm \in {s.perm, {"W"}} :
                \E got, astray : PutPage(PageLeft(s, off, perm, got, astray))
  BY DEF MapPageUnnoticed
<1> HIDE DEF s, p, off
<1>7. /\ DOMAIN NewPage(s, off) = {"perm", "bytes"} /\ NewPage(s, off).perm = s.perm
      /\ DOMAIN NewPage(s, off).bytes = p .. p + PageSize - 1
  BY <1>3 DEF NewPage
<1>8. ASSUME NEW perm \in {s.perm, {"W"}}, NEW got, NEW astray
      PROVE  LET page == PageLeft(s, off, perm, got, astray)
             IN /\ DOMAIN page = {"perm", "bytes"}
                /\ DOMAIN page.bytes = p .. p + PageSize - 1
                /\ page.perm \subseteq Perms
  BY <1>3, <1>7 DEF PageLeft
<1>9. CASE MapPage
  BY <1>3, <1>4, <1>5, <1>6, <1>7, <1>9 DEF s, p
<1>10. CASE MapPageUnnoticed
  <2>1. PICK perm \in {s.perm, {"W"}} :
             \E got, astray : PutPage(PageLeft(s, off, perm, got, astray))
    BY <1>6, <1>10
  <2>2. PICK got, astray : PutPage(PageLeft(s, off, perm, got, astray))
    BY <2>1
  <2>3. \E page : /\ PutPage(page) /\ DOMAIN page = {"perm", "bytes"}
                 /\ DOMAIN page.bytes = p .. p + PageSize - 1
                 /\ page.perm \subseteq Perms
    BY <1>8, <2>1, <2>2
  <2> QED BY <1>4, <1>5, <1>6, <2>3 DEF s, p
<1> QED BY <1>9, <1>10 DEF Maps

LEMMA MapsFacts ==
    ASSUME PagerInv, Maps
    PROVE  LET s   == segs[Chosen]
               p   == PageOf(asked.addr)
               idx == PageIdx(s, asked.addr)
           IN /\ p = s.vaddr + idx * PageSize /\ idx \in Nat
              /\ DOMAIN pages' = DOMAIN pages \cup {p}
              /\ \A r \in DOMAIN pages : r # p => pages'[r] = pages[r]
              /\ MapPage => pages'[p] = NewPage(s, idx * PageSize)
              /\ DOMAIN pages'[p] = {"perm", "bytes"}
              /\ DOMAIN pages'[p].bytes = p .. p + PageSize - 1
              /\ pages'[p].perm \subseteq Perms
              /\ DOMAIN flags' = DOMAIN flags /\ DOMAIN data' = DOMAIN data
              /\ flags'[Chosen] = FlagsAfter(Chosen, idx)
              /\ \A i \in DOMAIN flags : i # Chosen => flags'[i] = flags[i]
<1>1. PICK page : /\ PutPage(page) /\ DOMAIN page = {"perm", "bytes"}
                  /\ DOMAIN page.bytes = PageOf(asked.addr) .. PageOf(asked.addr) + PageSize - 1
                  /\ page.perm \subseteq Perms
  BY MapsPutsPage
<1>2. MapPage => PutPage(NewPage(segs[Chosen], PageIdx(segs[Chosen], asked.addr) * PageSize))
  BY MapsPutsPage
<1>3. MapPage => pages'[PageOf(asked.addr)]
                    = NewPage(segs[Chosen], PageIdx(segs[Chosen], asked.addr) * PageSize)
  BY <1>2, PutPageFacts
<1> QED BY <1>1, <1>3, PutPageFacts

(* The rest of what the handler leaves.                                     *)
LEMMA MapsLeaves ==
    ASSUME PagerInv, Maps
    PROVE  /\ UNCHANGED << file, segs, asked, header, stack >> /\ Fault /\ Candidates # {}
           /\ asked # Nothing /\ Alive /\ status' \in {"killed", status}
           /\ data' = [data EXCEPT ![Chosen] = IF @ = "NULL" THEN "array" ELSE @]
           /\ MapPage => unnoticed' = unnoticed
           /\ MapPageUnnoticed => unnoticed' = unnoticed + 1
           /\ unnoticed' \in 0 .. MaxUnnoticed
           /\ unnoticed' = 0 => MapPage /\ unnoticed = 0
<1>1. PICK page : PutPage(page)
  BY MapsPutsPage
<1>2. /\ UNCHANGED << file, segs, asked, header, stack >> /\ Fault /\ Candidates # {}
      /\ asked # Nothing /\ Alive /\ status' \in {"killed", status}
      /\ data' = [data EXCEPT ![Chosen] = IF @ = "NULL" THEN "array" ELSE @]
  BY <1>1 DEF PutPage, Fault, started
<1>3. /\ MapPage => unnoticed' = unnoticed
      /\ MapPageUnnoticed => unnoticed' = unnoticed + 1 /\ unnoticed < MaxUnnoticed
  BY MapsPutsPage
<1>4. MaxUnnoticed \in Nat /\ unnoticed \in 0 .. MaxUnnoticed
  BY UnnoticedAssumption DEF PagerInv, TypeOK
<1> QED BY <1>2, <1>3, <1>4 DEF Maps

(* The new page is a whole page, and only flags the array has are raised.   *)
LEMMA MapsTyped ==
    ASSUME PagerInv, Maps
    PROVE  PagerInv'
<1> DEFINE s   == segs[Chosen]
           p   == PageOf(asked.addr)
           idx == PageIdx(s, asked.addr)
<1>1. /\ Chosen \in DOMAIN segs /\ s \in SegmentSet /\ asked.addr \in Nat
  BY ChosenFacts, MapsLeaves
<1>2. /\ p = s.vaddr + idx * PageSize
      /\ DOMAIN pages' = DOMAIN pages \cup {p}
      /\ \A r \in DOMAIN pages : r # p => pages'[r] = pages[r]
      /\ DOMAIN pages'[p].bytes = p .. p + PageSize - 1
      /\ pages'[p].perm \subseteq Perms
      /\ DOMAIN flags' = DOMAIN flags /\ DOMAIN data' = DOMAIN data
      /\ flags'[Chosen] = FlagsAfter(Chosen, idx)
      /\ \A i \in DOMAIN flags : i # Chosen => flags'[i] = flags[i]
  BY MapsFacts
<1>3. p = PageOf(p)
  BY <1>1, PageOfFacts
<1>5. flags'[Chosen] \subseteq Cells(segs[Chosen])
  BY <1>1, <1>2 DEF FlagsAfter, PagerInv, TypeOK
<1>6. /\ \A i \in DOMAIN segs : data'[i] \in {"NULL", "array", "garbage"}
      /\ UNCHANGED << file, segs, asked >>
      /\ status' \in {"killed", status} /\ unnoticed' \in 0 .. MaxUnnoticed
  BY MapsLeaves DEF PagerInv, TypeOK
<1> HIDE DEF s, p, idx
<1>7. \A r \in DOMAIN pages' : /\ r = PageOf(r)
                              /\ DOMAIN pages'[r].bytes = r .. r + PageSize - 1
                              /\ pages'[r].perm \subseteq Perms
  BY <1>2, <1>3 DEF PagerInv, TypeOK
<1>8. \A i \in DOMAIN segs : flags'[i] \subseteq Cells(segs[i])
  BY <1>2, <1>5 DEF PagerInv, TypeOK
<1>9. /\ file' \in Files
      /\ status' \in {"loading", "starting", "running", "refused", "killed", "failed"}
      /\ asked' \in {Nothing} \cup [addr : Nat, kind : Kinds \cup {"R"},
                                    by : Callers \cup {"loader"}]
      /\ \A i \in DOMAIN segs : segs[i].vaddr = PageOf(segs[i].vaddr)
  BY <1>6 DEF PagerInv, TypeOK
<1>10. TypeOK'
  BY <1>6, <1>7, <1>8, <1>9 DEF TypeOK
<1> QED BY <1>2, <1>6, <1>10 DEF PagerInv

LEMMA NextTyped == PagerInv /\ [Next]_vars => PagerInv'
<1> SUFFICES ASSUME PagerInv, [Next]_vars PROVE PagerInv'
  OBVIOUS
<1>1. CASE SoExecute
  BY <1>1, SoExecuteTyped
<1>2. CASE Touch
  BY <1>2, TouchTyped
<1>3. CASE Maps
  BY <1>3, MapsTyped
<1>4. CASE SoExecuteRefused \/ SegmentsUnallocated \/ UnknownSegment \/ BadPointer \/ HandlerDies
  BY <1>4 DEF SoExecuteRefused, SegmentsUnallocated, UnknownSegment, BadPointer, HandlerDies, PagerInv, TypeOK
<1>5. CASE Ask \/ CallRefused \/ SoStartExec
  BY <1>5, AddressesAssumption, LimitAssumption DEF Ask, CallRefused, SoStartExec, PagerInv, TypeOK
<1>7. CASE FixAuxv
  <2>1. BaseAddr + HeaderFields[Len(header) + 1] \in Nat
    BY <1>7, BaseAddrFacts DEF FixAuxv, HeaderFields
  <2> HIDE DEF HeaderFields
  <2> QED BY <1>7, <2>1 DEF FixAuxv, PagerInv, TypeOK
<1>6. CASE UNCHANGED vars
  BY <1>6 DEF vars, PagerInv, TypeOK
<1> QED BY <1>1, <1>2, <1>3, <1>4, <1>5, <1>6, <1>7 DEF Next, Handler, Maps

LEMMA PagerInvariant == Spec => []PagerInv
  BY InitTyped, NextTyped, PTL DEF Spec

(* Mapped pages are whole pages at page boundaries, whatever addresses the  *)
(* headers have and whatever malloc() returns.                              *)
THEOREM PagesAreWhole == Spec => []TypeOK
<1>1. PagerInv => TypeOK
  BY DEF PagerInv
<1> QED BY <1>1, PagerInvariant, PTL

(* A page is mapped when the program accesses that page, and stays mapped.  *)
THEOREM MappedOnDemand == Spec => DemandOnly
<1> DEFINE A == /\ DOMAIN pages \subseteq DOMAIN pages'
                /\ \A p \in DOMAIN pages' \ DOMAIN pages :
                      asked # Nothing /\ p = PageOf(asked.addr)
<1>1. PagerInv /\ [Next]_vars => [A]_vars
  <2> SUFFICES ASSUME PagerInv, Next PROVE A
    OBVIOUS
  <2>1. CASE Maps
    BY <2>1, MapsFacts, MapsLeaves
  <2>2. CASE Touch
    BY <2>2, TouchTyped
  <2>3. CASE ~Maps /\ ~Touch
    BY <2>3 DEF Next, Handler, Maps, SoExecute, SoExecuteRefused, SegmentsUnallocated, FixAuxv, SoStartExec,
                Ask, CallRefused, UnknownSegment, BadPointer, HandlerDies
  <2> QED BY <2>1, <2>2, <2>3
<1> QED BY <1>1, PagerInvariant, PTL DEF Spec, DemandOnly

-----------------------------------------------------------------------------
(* The flags, when malloc() returned zeros and left room behind them.       *)

FlagsInv == /\ PagerInv
            /\ FlagsTellMappings
            /\ status = "loading" => pages = << >>

(* One cell more than mem_size / pagesz is enough, for the byte behind the  *)
(* segment too.                                                             *)
LEMMA IndexInCells ==
    ASSUME Slack >= 1, PagerInv, Candidates # {}, asked # Nothing
    PROVE  PageIdx(segs[Chosen], asked.addr) \in Cells(segs[Chosen])
<1> DEFINE s == segs[Chosen]
           n == s.mem_size \div PageSize
           idx == PageIdx(s, asked.addr)
<1>1. /\ s \in SegmentSet /\ s.vaddr = PageOf(s.vaddr)
      /\ asked.addr \in Nat /\ s.vaddr <= asked.addr
      /\ asked.addr <= s.vaddr + s.mem_size
  BY ChosenFacts
<1>2. s.vaddr \in Nat /\ s.mem_size \in Nat /\ PageSize \in Nat \ {0} /\ Slack \in Nat
  BY <1>1, PageSizeAssumption, SlackAssumption DEF SegmentSet
<1>3. idx \in Nat
  BY <1>1, MapsThePage
<1>4. asked.addr - s.vaddr \in Int /\ asked.addr - s.vaddr <= s.mem_size
  BY <1>1, <1>2
<1>5. idx <= n /\ n \in Int
  <2>1. idx = (asked.addr - s.vaddr) \div PageSize
    BY DEF PageIdx
  <2>2. n \in Int
    BY <1>2, DivFacts
  <2> HIDE DEF s, idx, n
  <2>3. (asked.addr - s.vaddr) \div PageSize <= s.mem_size \div PageSize
    BY <1>2, <1>4, DivMonotone
  <2> QED BY <2>1, <2>2, <2>3 DEF n
<1>6. Cells(s) = 0 .. n + Slack - 1
  BY DEF Cells
<1> HIDE DEF s, n, idx
<1>7. idx \in Cells(s)
  BY <1>2, <1>3, <1>5, <1>6
<1> QED BY <1>7 DEF s, idx

(* The flag the handler raises is that of the page it maps.                 *)
LEMMA MapsFlags ==
    ASSUME Slack >= 1, FlagsInv, ZeroedHeap, Maps
    PROVE  DOMAIN pages' = UNION {Flagged(segs[i], flags'[i]) : i \in DOMAIN segs}
<1> DEFINE s   == segs[Chosen]
           p   == PageOf(asked.addr)
           idx == PageIdx(s, asked.addr)
<1>1. PagerInv /\ Candidates # {} /\ asked # Nothing /\ Alive
  BY MapsLeaves DEF FlagsInv
<1>2. /\ Chosen \in DOMAIN segs /\ data[Chosen] # "garbage"
      /\ DOMAIN flags = DOMAIN segs
  BY <1>1, ChosenFacts DEF ZeroedHeap, PagerInv
<1>3. /\ p = s.vaddr + idx * PageSize
      /\ DOMAIN pages' = DOMAIN pages \cup {p}
      /\ flags'[Chosen] = FlagsAfter(Chosen, idx)
      /\ \A i \in DOMAIN segs : i # Chosen => flags'[i] = flags[i]
      /\ segs' = segs
  BY <1>1, <1>2, MapsFacts, MapsLeaves
<1>4. flags'[Chosen] = flags[Chosen] \cup {idx}
  <2>1. idx \in Cells(segs[Chosen])
    BY <1>1, IndexInCells
  <2> HIDE DEF idx
  <2> QED BY <1>2, <1>3, <2>1 DEF FlagsAfter
<1>5. DOMAIN pages = UNION {Flagged(segs[i], flags[i]) : i \in DOMAIN segs}
  BY <1>1 DEF FlagsInv, FlagsTellMappings
<1>6. Flagged(s, flags'[Chosen]) = Flagged(s, flags[Chosen]) \cup {p}
  <2> HIDE DEF p, idx, s
  <2> QED BY <1>3, <1>4 DEF Flagged
<1>7. \A i \in DOMAIN segs : i # Chosen =>
          Flagged(segs[i], flags'[i]) = Flagged(segs[i], flags[i])
  BY <1>3
<1> HIDE DEF p, idx
<1>8. UNION {Flagged(segs[i], flags'[i]) : i \in DOMAIN segs}
          = (UNION {Flagged(segs[i], flags[i]) : i \in DOMAIN segs}) \cup {p}
  BY <1>2, <1>6, <1>7
<1> QED BY <1>3, <1>5, <1>8

LEMMA FlagsStep ==
    ASSUME Slack >= 1, FlagsInv, [Next]_vars
    PROVE  FlagsInv'
<1>1. PagerInv'
  BY NextTyped DEF FlagsInv
<1>2. CASE SoExecute
  <2>1. /\ \A i \in DOMAIN segs' : flags'[i] = {}
        /\ pages' = << >> /\ status' = "starting"
    BY <1>2 DEF SoExecute, FlagsInv
  <2>2. \A i \in DOMAIN segs' : Flagged(segs'[i], flags'[i]) = {}
    BY <2>1 DEF Flagged
  <2>3. UNION {Flagged(segs'[i], flags'[i]) : i \in DOMAIN segs'} = {}
    BY <2>2, Zenon
  <2>4. DOMAIN pages' = {}
    BY <2>1
  <2> QED BY <1>1, <2>1, <2>3, <2>4 DEF FlagsInv, FlagsTellMappings
<1>3. CASE Maps
  <2>1. ZeroedHeap =>
            DOMAIN pages' = UNION {Flagged(segs[i], flags'[i]) : i \in DOMAIN segs}
    BY <1>3, MapsFlags
  <2>2. segs' = segs /\ status' # "loading"
    BY <1>3, MapsLeaves DEF Alive, FlagsInv
  <2>3. ZeroedHeap' => ZeroedHeap
    <3>1. Chosen \in DOMAIN segs /\ DOMAIN data = DOMAIN segs
      BY <1>3, ChosenFacts, MapsLeaves DEF FlagsInv, PagerInv
    <3>2. data' = [data EXCEPT ![Chosen] = IF @ = "NULL" THEN "array" ELSE @]
      BY <1>3, MapsLeaves DEF FlagsInv
    <3> HIDE DEF Chosen
    <3> QED BY <2>2, <3>1, <3>2 DEF ZeroedHeap
  <2> QED BY <1>1, <2>1, <2>2, <2>3 DEF FlagsInv, FlagsTellMappings
<1>4. CASE Touch
  BY <1>1, <1>4, TouchTyped DEF Touch, Alive, ZeroedHeap, FlagsInv, FlagsTellMappings
<1>5. CASE \/ SoExecuteRefused \/ SegmentsUnallocated \/ FixAuxv \/ SoStartExec \/ Ask \/ CallRefused
           \/ UnknownSegment \/ BadPointer \/ HandlerDies \/ UNCHANGED vars
  BY <1>1, <1>5 DEF SoExecuteRefused, SegmentsUnallocated, FixAuxv, SoStartExec, Ask, CallRefused,
                    UnknownSegment, BadPointer, HandlerDies, vars, Alive,
                    ZeroedHeap, FlagsInv, FlagsTellMappings
<1> QED BY <1>2, <1>3, <1>4, <1>5 DEF Next, Handler, Maps

(* A raised flag is a mapped page and a mapped page has its flag: the       *)
(* handler tells a page it has not loaded from one the program may not use, *)
(* given a zeroed heap and that malloc() left one cell of room behind the   *)
(* array of flags.                                                          *)
THEOREM FlagsAreMappings ==
    ASSUME Slack >= 1
    PROVE  Spec => []FlagsTellMappings
<1>1. Init => FlagsInv
  BY InitTyped DEF Init, Alive, FlagsInv, FlagsTellMappings
<1>2. FlagsInv /\ [Next]_vars => FlagsInv'
  BY FlagsStep
<1>3. FlagsInv => FlagsTellMappings
  BY DEF FlagsInv
<1> QED BY <1>1, <1>2, <1>3, PTL DEF Spec

-----------------------------------------------------------------------------
(* What the program is told when it starts.                                 *)

Arguments == << Len(Args) >> \o Args
FieldPage == /\ DOMAIN pages \subseteq Nat
             /\ BaseAddr \in DOMAIN pages =>
                   \A f \in {1, 2} : pages[BaseAddr].bytes[BaseAddr + HeaderFields[f]]
                                        = HeaderFields[f] + 1
HeaderRead == \/ header = << >>
              \/ header = << HeaderFields[1] + 1 >>
              \/ header = << HeaderFields[1] + 1, HeaderFields[2] + 1 >>
ReadUnderWay == /\ asked.kind = "R" /\ asked.by = "loader"
                /\ \E f \in {1, 2} : /\ Len(header) + 1 = f
                                     /\ asked.addr = BaseAddr + HeaderFields[f]

(* While the loader starts the program, nobody writes: the page the header  *)
(* is on has the bytes of the file.                                         *)
StartInv ==
    /\ PagerInv
    /\ status = "loading" => pages = << >> /\ header = << >> /\ asked = Nothing
    /\ status \in {"loading", "starting"} => stack = Arguments
    /\ status = "starting" /\ HeaderIsLoaded /\ unnoticed = 0 =>
          FieldPage /\ HeaderRead /\ (asked # Nothing => ReadUnderWay)
    /\ status = "running" => (asked # Nothing => asked.by # "loader") /\ StartsWithItsOwn

(* The header lies on the first page of the lowest segment.                 *)
LEMMA HeaderPage ==
    ASSUME PagerInv, HeaderIsLoaded, NEW f \in {1, 2}
    PROVE  /\ BaseAddr \in Nat /\ HeaderFields[f] \in Nat
           /\ PageOf(BaseAddr + HeaderFields[f]) = BaseAddr
<1>1. PICK i \in DOMAIN segs : BaseAddr = segs[i].vaddr
  BY BaseAddrFacts DEF HeaderIsLoaded
<1>2. BaseAddr \in Nat /\ BaseAddr = PageOf(BaseAddr) /\ segs[i].file_size \in Nat
  BY <1>1 DEF PagerInv, TypeOK, SegmentSet
<1>3. HeaderFields[f] \in Nat /\ HeaderFields[f] < PageSize
  <2>1. HeaderFields[f] \in Nat
    BY DEF HeaderFields
  <2>2. HeaderFields[f] < Min({segs[i].file_size, PageSize})
    BY <1>1, BaseAddrFacts DEF HeaderIsLoaded
  <2>3. /\ Min({segs[i].file_size, PageSize}) <= PageSize
        /\ Min({segs[i].file_size, PageSize}) \in Nat /\ PageSize \in Nat
    BY <1>2, PageSizeAssumption, MinIsLeast
  <2> QED BY <2>1, <2>2, <2>3
<1> DEFINE k == BaseAddr \div PageSize
           g == HeaderFields[f]
<1>4. k \in Int /\ BaseAddr = PageSize * k /\ g \in Nat /\ g < PageSize
  BY <1>2, <1>3, PageSizeAssumption, DivFacts DEF PageOf
<1> HIDE DEF k, g
<1>5. (BaseAddr + g) \div PageSize = k
  <2>1. /\ BaseAddr + g \in Int /\ PageSize \in Nat \ {0}
        /\ PageSize * k <= BaseAddr + g /\ BaseAddr + g < PageSize * k + PageSize
    BY <1>2, <1>4, PageSizeAssumption
  <2> QED BY <1>4, <2>1, DivUnique
<1> QED BY <1>2, <1>3, <1>4, <1>5 DEF PageOf, g

(* A fault of fix_auxv() maps the page with the header on it.               *)
LEMMA MapsTheHeader ==
    ASSUME PagerInv, HeaderIsLoaded, FieldPage, ReadUnderWay, MapPage
    PROVE  FieldPage'
<1> DEFINE s   == segs[Chosen]
           idx == PageIdx(s, asked.addr)
<1>1. /\ Chosen \in DOMAIN segs /\ s \in SegmentSet
      /\ s.vaddr = PageOf(s.vaddr) /\ s.vaddr <= asked.addr /\ asked.addr \in Nat
  BY ChosenFacts, MapsLeaves DEF Maps
<1>2. PageOf(asked.addr) = BaseAddr /\ BaseAddr \in Nat
  BY HeaderPage DEF ReadUnderWay
<1>3. /\ BaseAddr = s.vaddr + idx * PageSize /\ idx \in Nat
      /\ DOMAIN pages' = DOMAIN pages \cup {BaseAddr}
      /\ pages'[BaseAddr] = NewPage(s, idx * PageSize)
  BY <1>2, MapsFacts DEF Maps
<1>4. BaseAddr <= s.vaddr
  BY <1>1, BaseAddrFacts
<1>5. s.vaddr = BaseAddr /\ idx * PageSize = 0
  <2>1. idx * PageSize \in Nat
    BY <1>3, PageSizeAssumption
  <2> QED BY <1>1, <1>2, <1>3, <1>4, <2>1 DEF SegmentSet
<1>6. s.offset = 0 /\ \A f \in {1, 2} : HeaderFields[f] < Min({s.file_size, PageSize})
  BY <1>1, <1>5, BaseAddrFacts DEF HeaderIsLoaded
<1>7. ReadLength(s, 0) = Min({s.file_size, PageSize})
  <2>1. s.file_size \in Nat /\ PageSize \in Nat
    BY <1>1, PageSizeAssumption DEF SegmentSet
  <2>2. Min({s.file_size, PageSize}) <= s.file_size /\ Min({s.file_size, PageSize}) \in Nat
    BY <2>1, MinIsLeast
  <2>3. HeaderFields[1] \in Nat
    BY DEF HeaderFields
  <2>4. s.file_size > 0
    BY <1>6, <2>1, <2>2, <2>3
  <2>5. {s.file_size - 0, PageSize} = {s.file_size, PageSize}
    BY <2>1
  <2> HIDE DEF s
  <2> QED BY <2>4, <2>5 DEF ReadLength
<1>8. ASSUME NEW f \in {1, 2}
      PROVE  pages'[BaseAddr].bytes[BaseAddr + HeaderFields[f]] = HeaderFields[f] + 1
  <2> DEFINE g == HeaderFields[f]
  <2>1. g \in Nat /\ g < ReadLength(s, 0)
    BY <1>6, <1>7 DEF HeaderFields
  <2>2. g < PageSize /\ PageSize \in Nat
    <3>1. s.file_size \in Nat /\ PageSize \in Nat
      BY <1>1, PageSizeAssumption DEF SegmentSet
    <3>2. Min({s.file_size, PageSize}) <= PageSize /\ Min({s.file_size, PageSize}) \in Nat
      BY <3>1, MinIsLeast
    <3> QED BY <1>7, <2>1, <3>1, <3>2
  <2> DEFINE len == ReadLength(s, 0)
  <2>3. pages'[BaseAddr].bytes = [a \in BaseAddr + 0 .. BaseAddr + 0 + PageSize - 1 |->
                  IF a - (BaseAddr + 0) < len
                  THEN 0 + (a - BaseAddr) + 1 ELSE 0]
    BY <1>3, <1>5, <1>6 DEF NewPage
  <2> DEFINE x == BaseAddr + g
  <2> HIDE DEF s, g, len
  <2>4. /\ x \in BaseAddr + 0 .. BaseAddr + 0 + PageSize - 1
        /\ x - (BaseAddr + 0) = g /\ 0 + (x - BaseAddr) + 1 = g + 1
    BY <1>2, <2>1, <2>2
  <2>5. g < len
    BY <2>1 DEF len
  <2> HIDE DEF x
  <2>6. pages'[BaseAddr].bytes[x] = IF x - (BaseAddr + 0) < len
                                    THEN 0 + (x - BaseAddr) + 1 ELSE 0
    BY <2>3, <2>4, Zenon
  <2>7. pages'[BaseAddr].bytes[x] = g + 1
    BY <2>4, <2>5, <2>6
  <2> QED BY <2>7 DEF g, x
<1>9. BaseAddr' = BaseAddr
  BY MapsLeaves DEF Maps, BaseAddr
<1> QED BY <1>2, <1>3, <1>8, <1>9 DEF FieldPage

(* A read takes the next field off the page.                                *)
LEMMA ReadsTheHeader ==
    ASSUME PagerInv, HeaderIsLoaded, FieldPage, HeaderRead, ReadUnderWay, Touch
    PROVE  HeaderRead' /\ FieldPage'
<1>1. PICK f \in {1, 2} : /\ Len(header) + 1 = f
                          /\ asked.addr = BaseAddr + HeaderFields[f]
  BY DEF ReadUnderWay
<1>2. PageOf(asked.addr) = BaseAddr
  BY <1>1, HeaderPage
<1>3. pages' = pages /\ header' = Append(header, pages[BaseAddr].bytes[asked.addr])
  BY <1>2 DEF Touch, ReadUnderWay
<1>4. header' = Append(header, HeaderFields[f] + 1)
  BY <1>1, <1>2, <1>3 DEF FieldPage, Touch, Permitted
<1>5. HeaderRead'
  <2>1. CASE f = 1
    <3>1. header = << >>
      BY <1>1, <2>1 DEF HeaderRead
    <3> QED BY <1>4, <2>1, <3>1 DEF HeaderRead
  <2>2. CASE f = 2
    <3>1. header = << HeaderFields[1] + 1 >>
      BY <1>1, <2>2 DEF HeaderRead
    <3>2. header' = << HeaderFields[1] + 1, HeaderFields[2] + 1 >>
      <4>1. ASSUME NEW x \in Nat, NEW y \in Nat
            PROVE  Append(<< x >>, y) = << x, y >>
        <5>1. << x >> \in Seq(Nat) /\ Len(<< x >>) = 1 /\ << x >>[1] = x
          BY LenProperties
        <5>2. /\ Append(<< x >>, y) \in Seq(Nat) /\ Len(Append(<< x >>, y)) = 2
              /\ Append(<< x >>, y)[1] = x /\ Append(<< x >>, y)[2] = y
          BY <5>1, AppendProperties
        <5>3. << x, y >> \in Seq(Nat) /\ Len(<< x, y >>) = 2
          BY LenProperties
        <5>4. \A i \in 1 .. 2 : Append(<< x >>, y)[i] = << x, y >>[i]
          BY <5>2
        <5> QED BY <5>2, <5>3, <5>4, SeqEqual
      <4>2. HeaderFields[1] + 1 \in Nat /\ HeaderFields[2] + 1 \in Nat
        BY DEF HeaderFields
      <4> QED BY <1>4, <2>2, <3>1, <4>1, <4>2
    <3> QED BY <3>2 DEF HeaderRead
  <2> QED BY <2>1, <2>2
<1> QED BY <1>3, <1>5 DEF FieldPage, Touch, BaseAddr

(* The stack the program finds counts its arguments.                        *)
LEMMA StackIsRight ==
    ASSUME stack = Arguments, SoStartExec
    PROVE  stack'[1] = Len(stack') - 1 /\ Tail(stack') = Tail(Args)
<1> DEFINE n == Len(Args)
           moved == [stack EXCEPT ![2] = stack[1] - 1]
<1>1. Args \in Seq(STRING) /\ n \in Nat /\ n >= 2
  BY ArgsAssumption, LenProperties
<1>2. /\ Len(stack) = n + 1 /\ stack[1] = n /\ stack \in Seq(Nat \cup STRING)
      /\ \A i \in 2 .. n + 1 : stack[i] = Args[i - 1]
  <2>1. /\ Args \in Seq(Nat \cup STRING) /\ << n >> \in Seq(Nat \cup STRING)
        /\ Len(<< n >>) = 1 /\ << n >>[1] = n
    BY <1>1, LenProperties
  <2> HIDE DEF n
  <2>2. stack = << n >> \o Args
    BY DEF Arguments, n
  <2>3. /\ stack \in Seq(Nat \cup STRING)
        /\ Len(stack) = Len(<< n >>) + Len(Args)
        /\ \A i \in 1 .. Len(<< n >>) + Len(Args) :
              stack[i] = IF i <= Len(<< n >>) THEN << n >>[i] ELSE Args[i - Len(<< n >>)]
    BY <2>1, <2>2, ConcatProperties
  <2>4. Len(stack) = n + 1
    BY <1>1, <2>1, <2>3 DEF n
  <2>5. stack[1] = n
    BY <1>1, <2>1, <2>3 DEF n
  <2>6. ASSUME NEW i \in 2 .. n + 1
        PROVE  stack[i] = Args[i - 1]
    BY <1>1, <2>1, <2>3 DEF n
  <2> QED BY <2>3, <2>4, <2>5, <2>6
<1>3. /\ moved \in Seq(Nat \cup STRING) /\ Len(moved) = n + 1
      /\ moved[2] = n - 1 /\ \A i \in 3 .. n + 1 : moved[i] = Args[i - 1]
  <2>1. n - 1 \in Nat
    BY <1>1
  <2> HIDE DEF n
  <2> QED BY <1>1, <1>2, <2>1, ExceptSeq
<1>4. stack' = Tail(moved)
  BY DEF SoStartExec
<1> HIDE DEF moved, n
<1>5. /\ Len(stack') = n /\ stack'[1] = n - 1 /\ stack' \in Seq(Nat \cup STRING)
      /\ \A i \in 2 .. n : stack'[i] = Args[i]
  BY <1>1, <1>3, <1>4, HeadTailProperties
<1>6. Tail(stack') = Tail(Args)
  <2>1. /\ Len(Tail(stack')) = n - 1 /\ Len(Tail(Args)) = n - 1
        /\ Tail(stack') \in Seq(Nat \cup STRING)
        /\ Tail(Args) \in Seq(Nat \cup STRING)
        /\ \A i \in 1 .. n - 1 : Tail(stack')[i] = Tail(Args)[i]
    BY <1>1, <1>5 DEF n
  <2> QED BY <2>1, SeqEqual
<1> QED BY <1>5, <1>6

LEMMA InitStarts == Init => StartInv
<1> SUFFICES ASSUME Init PROVE StartInv
  OBVIOUS
<1>1. PagerInv
  BY InitTyped
<1> QED BY <1>1 DEF Init, StartInv, Arguments

LEMMA StartStep == StartInv /\ [Next]_vars => StartInv'
<1> SUFFICES ASSUME StartInv, [Next]_vars PROVE StartInv'
  OBVIOUS
<1>1. PagerInv /\ PagerInv'
  BY NextTyped DEF StartInv
<1>2. CASE SoExecute
  <2>1. /\ status' = "starting" /\ stack' = Arguments /\ pages' = << >>
        /\ header' = << >> /\ asked' = Nothing
    BY <1>2 DEF SoExecute, StartInv
  <2> QED BY <1>1, <2>1 DEF StartInv, Arguments, FieldPage, HeaderRead
<1>3. CASE FixAuxv
  <2>1. status = "starting" /\ UNCHANGED << segs, pages, status, header, stack, unnoticed >>
    BY <1>3 DEF FixAuxv
  <2>2. ASSUME HeaderRead PROVE ReadUnderWay'
    <3>1. Len(header) = 0 \/ Len(header) = 1
      BY <1>3, <2>2 DEF FixAuxv, HeaderRead, HeaderFields
    <3>2. Len(header) + 1 \in {1, 2}
      <4>1. CASE Len(header) = 0
        BY <4>1
      <4>2. CASE Len(header) = 1
        BY <4>2
      <4> QED BY <3>1, <4>1, <4>2
    <3> HIDE DEF HeaderFields
    <3>3. /\ asked'.kind = "R" /\ asked'.by = "loader"
          /\ asked'.addr = BaseAddr + HeaderFields[Len(header) + 1]
      BY <1>3 DEF FixAuxv
    <3> QED BY <2>1, <3>2, <3>3 DEF ReadUnderWay, BaseAddr
  <2>3. HeaderIsLoaded' = HeaderIsLoaded /\ FieldPage' = FieldPage /\ HeaderRead' = HeaderRead
    BY <2>1 DEF HeaderIsLoaded, FieldPage, HeaderRead, BaseAddr
  <2> QED BY <1>1, <2>1, <2>2, <2>3 DEF StartInv, Arguments
<1>4. CASE SoStartExec
  <2>1. /\ status' = "running" /\ asked' = Nothing
        /\ HeaderIsLoaded' = HeaderIsLoaded /\ UNCHANGED << header, unnoticed >>
    BY <1>4 DEF SoStartExec, HeaderIsLoaded, BaseAddr
  <2>2. HeaderIsLoaded /\ unnoticed = 0 =>
            header = << HeaderFields[1] + 1, HeaderFields[2] + 1 >>
    BY <1>4 DEF SoStartExec, StartInv, HeaderRead, HeaderFields
  <2>3. stack'[1] = Len(stack') - 1 /\ Tail(stack') = Tail(Args)
    BY <1>4, StackIsRight DEF SoStartExec, StartInv
  <2> QED BY <1>1, <2>1, <2>2, <2>3 DEF StartInv, StartsWithItsOwn
<1>5. CASE Touch
  <2>1. CASE status = "starting" /\ HeaderIsLoaded /\ unnoticed = 0
    <3>1. FieldPage /\ HeaderRead /\ ReadUnderWay
      BY <1>5, <2>1 DEF Touch, StartInv
    <3>2. HeaderRead' /\ FieldPage'
      BY <1>1, <1>5, <2>1, <3>1, ReadsTheHeader
    <3>3. /\ asked' = Nothing /\ status' = "starting" /\ UNCHANGED << stack, unnoticed >>
      BY <1>5, <2>1 DEF Touch
    <3> QED BY <1>1, <2>1, <3>2, <3>3 DEF StartInv, Arguments
  <2>2. CASE status = "starting" /\ ~(HeaderIsLoaded /\ unnoticed = 0)
    BY <1>1, <1>5, <2>2 DEF Touch, HeaderIsLoaded, BaseAddr, StartInv, Arguments
  <2>3. CASE status = "running"
    <3>1. /\ status' = "running" /\ asked' = Nothing
          /\ UNCHANGED << segs, header, stack, unnoticed >>
      BY <1>5, <2>3 DEF Touch, StartInv
    <3>2. StartsWithItsOwn'
      BY <2>3, <3>1 DEF StartInv, StartsWithItsOwn, HeaderIsLoaded, BaseAddr
    <3> QED BY <1>1, <3>1, <3>2 DEF StartInv
  <2> QED BY <1>5, <2>1, <2>2, <2>3 DEF Touch, Alive
<1>6. CASE Maps
  <2>1. /\ UNCHANGED << segs, asked, header, stack >> /\ asked # Nothing
        /\ status' \in {"killed", status} /\ status # "loading"
        /\ status \in {"starting", "running"}
        /\ unnoticed' = 0 => MapPage /\ unnoticed = 0
    BY <1>1, <1>6, MapsLeaves DEF Alive
  <2>2. /\ HeaderIsLoaded' = HeaderIsLoaded /\ HeaderRead' = HeaderRead
        /\ ReadUnderWay' = ReadUnderWay
    BY <2>1 DEF HeaderIsLoaded, HeaderRead, ReadUnderWay, BaseAddr
  <2>3. CASE status' = "starting" /\ HeaderIsLoaded /\ unnoticed' = 0
    <3>1. FieldPage /\ HeaderRead /\ ReadUnderWay /\ MapPage
      BY <2>1, <2>3 DEF StartInv
    <3>2. FieldPage'
      BY <1>1, <2>3, <3>1, MapsTheHeader
    <3> QED BY <1>1, <2>1, <2>2, <2>3, <3>1, <3>2 DEF StartInv, Arguments
  <2>4. CASE status' = "starting" /\ ~(HeaderIsLoaded /\ unnoticed' = 0)
    BY <1>1, <2>1, <2>2, <2>4 DEF StartInv, Arguments
  <2>5. CASE status' = "running"
    <3>1. StartsWithItsOwn'
      BY <2>1, <2>2, <2>5 DEF StartInv, StartsWithItsOwn
    <3> QED BY <1>1, <2>1, <2>5, <3>1 DEF StartInv
  <2>6. CASE status' = "killed"
    BY <1>1, <2>6 DEF StartInv
  <2> QED BY <2>1, <2>3, <2>4, <2>5, <2>6
<1>7. CASE Ask \/ CallRefused
  <2>1. /\ status' = "running" /\ status = "running"
        /\ UNCHANGED << segs, header, stack, unnoticed >>
        /\ asked' = Nothing \/ asked'.by \in Callers
    BY <1>7 DEF Ask, CallRefused, started
  <2>2. StartsWithItsOwn'
    BY <2>1 DEF StartInv, StartsWithItsOwn, HeaderIsLoaded, BaseAddr
  <2> QED BY <1>1, <2>1, <2>2, CallersAssumption DEF StartInv
<1>8. CASE SoExecuteRefused \/ SegmentsUnallocated \/ UnknownSegment \/ BadPointer \/ HandlerDies
  <2>1. status' \in {"refused", "killed", "failed"}
    BY <1>8 DEF SoExecuteRefused, SegmentsUnallocated, UnknownSegment, BadPointer, HandlerDies
  <2> QED BY <1>1, <2>1 DEF StartInv
<1>9. CASE UNCHANGED vars
  <2>1. UNCHANGED << segs, pages, asked, status, header, stack, unnoticed >>
    BY <1>9 DEF vars
  <2>2. /\ HeaderIsLoaded' = HeaderIsLoaded /\ FieldPage' = FieldPage
        /\ HeaderRead' = HeaderRead /\ ReadUnderWay' = ReadUnderWay
    BY <2>1 DEF HeaderIsLoaded, BaseAddr, FieldPage, HeaderRead, ReadUnderWay
  <2>3. StartsWithItsOwn' = StartsWithItsOwn
    BY <2>1, <2>2 DEF StartsWithItsOwn
  <2> QED BY <1>1, <2>1, <2>2, <2>3 DEF StartInv, Arguments
<1> QED BY <1>2, <1>3, <1>4, <1>5, <1>6, <1>7, <1>8, <1>9 DEF Next, Handler, Maps

(* The program starts with its own header and arguments, whatever the       *)
(* segments and the heap: if its header is in the lowest segment and no     *)
(* call failed unnoticed, fix_auxv() reads it through the pages the handler *)
(* maps for it.                                                             *)
THEOREM StartsRight == Spec => []StartsWithItsOwn
<1>1. StartInv => StartsWithItsOwn
  BY DEF StartInv, StartsWithItsOwn
<1> QED BY <1>1, InitStarts, StartStep, PTL DEF Spec


-----------------------------------------------------------------------------
(* The pager implements a memory that was filled before the program ran.    *)

(* Every flag stands for a page its own segment has brought in.             *)
FromHeaders ==
    \A i \in DOMAIN segs : \A idx \in flags[i] :
        LET p == segs[i].vaddr + idx * PageSize
        IN /\ p \in DOMAIN pages /\ p \in PagesOf(file.phdrs[i])
           /\ pages[p].perm = file.phdrs[i].flags

LoadedInv ==
    /\ FlagsInv
    /\ status = "loading" => asked = Nothing /\ Reliable
    /\ Alive => /\ DOMAIN segs = LoadHeaders
                /\ \A i \in LoadHeaders : segs[i] = Segment(file.phdrs[i])
    /\ Alive /\ Reliable => FromHeaders
    /\ \A p \in DOMAIN pages : DOMAIN pages[p] = {"perm", "bytes"}
    /\ status \in {"loading", "starting"} /\ unnoticed = 0 => Contents = Memory!Filled
    /\ status = "starting" => (asked # Nothing => asked.by = "loader" /\ asked.kind = "R")
    /\ status = "running" => (asked # Nothing => asked.by # "loader")

LEMMA HeaderFacts ==
    ASSUME PagerInv, NEW i \in LoadHeaders
    PROVE  /\ i \in DOMAIN file.phdrs /\ file.phdrs[i].type = "PT_LOAD"
           /\ file.phdrs[i] \in ProgramHeader
           /\ file.phdrs[i].vaddr \in Nat /\ file.phdrs[i].memsz \in Nat
<1>1. file.phdrs \in Seq(ProgramHeader)
  BY FilesAssumption DEF PagerInv, TypeOK
<1>2. i \in DOMAIN file.phdrs /\ file.phdrs[i].type = "PT_LOAD"
  BY DEF LoadHeaders
<1>3. file.phdrs[i] \in ProgramHeader
  BY <1>1, <1>2, LenProperties, ElementOfSeq
<1> QED BY <1>2, <1>3 DEF ProgramHeader

LEMMA OnItsPage ==
    ASSUME NEW b \in Nat
    PROVE  b \in PageOf(b) .. PageOf(b) + PageSize - 1
<1> DEFINE p == PageOf(b)
           k == b \div PageSize
<1>1. PageSize \in Nat \ {0} /\ p \in Nat /\ p <= b
  BY PageSizeAssumption, PageOfFacts
<1>2. p = PageSize * k
  BY DEF PageOf
<1>3. b < PageSize * k + PageSize
  BY <1>1, DivFacts
<1> HIDE DEF p, k
<1>4. b \in p .. p + PageSize - 1
  BY <1>1, <1>2, <1>3
<1> QED BY <1>4 DEF p

LEMMA PageOfMonotone ==
    ASSUME NEW a \in Nat, NEW b \in Nat, a <= b
    PROVE  PageOf(a) <= PageOf(b)
<1> DEFINE j == a \div PageSize
           k == b \div PageSize
<1>1. PageSize \in Nat \ {0} /\ j \in Int /\ k \in Int
  BY PageSizeAssumption, DivFacts
<1>2. j <= k
  BY <1>1, DivMonotone
<1> HIDE DEF j, k
<1>3. PageSize * j <= PageSize * k
  BY <1>1, <1>2, SMT
<1> QED BY <1>3 DEF PageOf, j, k

(* What so_execute() makes of a header, field by field.                     *)
LEMMA SegmentFields ==
    ASSUME NEW h \in ProgramHeader
    PROVE  LET s == Segment(h)
               d == h.vaddr - PageOf(h.vaddr)
           IN /\ s.vaddr = PageOf(h.vaddr) /\ s.perm = h.flags /\ d \in Nat
              /\ s.vaddr \in Nat /\ s.vaddr + d = h.vaddr
              /\ s.offset = h.offset - d /\ s.file_size = h.filesz + d
              /\ s.mem_size = h.memsz + d
              /\ h.vaddr \in Nat /\ h.offset \in Nat /\ h.filesz \in Nat /\ h.memsz \in Nat
              /\ h.flags \subseteq Perms
<1>1. /\ h.vaddr \in Nat /\ h.offset \in Nat /\ h.filesz \in Nat /\ h.memsz \in Nat
      /\ h.flags \subseteq Perms
  BY DEF ProgramHeader
<1>2. PageOf(h.vaddr) \in Nat /\ PageOf(h.vaddr) <= h.vaddr
  BY <1>1, PageOfFacts
<1> QED BY <1>1, <1>2 DEF Segment

(* A segment reaches no page that its header does not.                      *)
LEMMA ReachedPage ==
    ASSUME NEW h \in ProgramHeader, NEW a \in Nat, InSegment(Segment(h), a)
    PROVE  PageOf(a) \in PagesOf(h)
<1> DEFINE v == h.vaddr
           e == h.vaddr + h.memsz
<1>1. /\ v \in Nat /\ e \in Nat /\ v <= e /\ PageOf(v) <= a /\ a <= e /\ h.memsz \in Nat
  BY SegmentFields DEF InSegment
<1>2. CASE a >= v
  <2>1. a \in h.vaddr .. h.vaddr + h.memsz
    BY <1>1, <1>2
  <2> QED BY <2>1 DEF PagesOf
<1>3. CASE a < v
  <2>1. PageOf(PageOf(v)) <= PageOf(a) /\ PageOf(a) <= PageOf(v)
    BY <1>1, <1>3, PageOfFacts, PageOfMonotone
  <2>2. PageOf(a) = PageOf(v)
    BY <1>1, <2>1, PageOfFacts
  <2>3. v \in h.vaddr .. h.vaddr + h.memsz
    BY <1>1
  <2> QED BY <2>2, <2>3 DEF PagesOf
<1> QED BY <1>1, <1>2, <1>3

LEMMA SpannedIn ==
    ASSUME NEW h \in ProgramHeader, NEW a \in Nat, Memory!Spans(h, a)
    PROVE  InSegment(Segment(h), a) /\ PageOf(a) \in PagesOf(h)
<1>1. h.vaddr <= a /\ a < h.vaddr + h.memsz
  BY DEF Memory!Spans
<1>2. InSegment(Segment(h), a)
  BY <1>1, SegmentFields DEF InSegment
<1> QED BY <1>2, ReachedPage

(* A page belongs to one header at most.                                    *)
LEMMA OneHeader ==
    ASSUME Orderly, PagerInv, NEW i \in LoadHeaders, NEW k \in LoadHeaders, NEW p,
           p \in PagesOf(file.phdrs[i]), p \in PagesOf(file.phdrs[k])
    PROVE  i = k
<1>1. file \in Files
  BY DEF PagerInv, TypeOK
<1> QED BY <1>1 DEF Orderly, LoadHeaders

LEMMA OwnedFacts ==
    ASSUME Orderly, PagerInv, NEW b \in Memory!Owned
    PROVE  /\ b \in Nat
           /\ \E k \in LoadHeaders : /\ Memory!Spans(file.phdrs[k], b)
                                     /\ Memory!Filled[b] = Memory!Image(file.phdrs[k], b)
<1>1. PICK h \in Loads : b \in h.vaddr .. h.vaddr + h.memsz
  BY DEF Memory!Owned
<1>2. b \in Nat
  BY <1>1, HeaderFacts DEF Loads
<1> DEFINE g == CHOOSE x \in Loads : Memory!Spans(x, b)
<1>3. g \in Loads /\ Memory!Spans(g, b)
  BY DEF Memory!Owned
<1>4. Memory!Filled[b] = Memory!Image(g, b)
  BY DEF Memory!Filled
<1> QED BY <1>2, <1>3, <1>4 DEF Loads

(* The owner of an address is the header its page belongs to.               *)
LEMMA OwnerOfPage ==
    ASSUME Orderly, PagerInv, NEW b \in Memory!Owned, NEW i \in LoadHeaders,
           PageOf(b) \in PagesOf(file.phdrs[i])
    PROVE  Memory!Spans(file.phdrs[i], b) /\ Memory!Filled[b] = Memory!Image(file.phdrs[i], b)
<1>1. PICK k \in LoadHeaders : /\ Memory!Spans(file.phdrs[k], b)
                               /\ Memory!Filled[b] = Memory!Image(file.phdrs[k], b)
  BY OwnedFacts
<1>2. PageOf(b) \in PagesOf(file.phdrs[k])
  BY <1>1, OwnedFacts, HeaderFacts, SpannedIn
<1>3. k = i
  BY <1>2, OneHeader
<1> QED BY <1>1, <1>3

(* The handler fills a page as the memory was promised to be filled.        *)
LEMMA NewPageBytes ==
    ASSUME NEW h \in ProgramHeader, NEW idx \in Nat, NEW b \in Nat,
           PageOf(b) = Segment(h).vaddr + idx * PageSize
    PROVE  NewPage(Segment(h), idx * PageSize).bytes[b] = Memory!Image(h, b)
<1> DEFINE s   == Segment(h)
           off == idx * PageSize
           v   == s.vaddr
           d   == h.vaddr - PageOf(h.vaddr)
           fs  == s.file_size
           len == ReadLength(s, off)
<1>1. /\ v \in Nat /\ d \in Nat /\ v + d = h.vaddr /\ s.offset = h.offset - d
      /\ fs = h.filesz + d /\ h.filesz \in Nat /\ h.offset \in Nat /\ h.vaddr \in Nat
  BY SegmentFields
<1>2. PageSize \in Nat \ {0} /\ off \in Nat
  BY PageSizeAssumption
<1>3. v + off <= b /\ b <= v + off + PageSize - 1
  <2>1. PageOf(b) = v + off
    OBVIOUS
  <2>2. b \div PageSize \in Int /\ PageOf(b) <= b /\ b < PageOf(b) + PageSize
    BY <1>2, DivFacts DEF PageOf
  <2> HIDE DEF v, off
  <2> QED BY <1>1, <1>2, <2>1, <2>2
<1>4. NewPage(s, off).bytes = [a \in v + off .. v + off + PageSize - 1 |->
                                  IF a - (v + off) < len
                                  THEN s.offset + (a - v) + 1 ELSE 0]
  BY DEF NewPage
<1>5. b - (v + off) < len <=> b - v < fs
  <2>1. CASE fs > off
    <3> DEFINE rest == fs - off
    <3>1. len = Min({rest, PageSize})
      BY <2>1 DEF ReadLength
    <3>2. rest \in Nat /\ {rest, PageSize} \in SUBSET Nat
      BY <1>1, <1>2, <2>1
    <3> HIDE DEF rest
    <3>3. len \in {rest, PageSize} /\ len <= rest /\ len <= PageSize
      BY <3>1, <3>2, MinIsLeast
    <3> HIDE DEF len, v, off, fs
    <3> QED BY <1>1, <1>2, <1>3, <3>2, <3>3 DEF rest
  <2>2. CASE ~(fs > off)
    <3>1. len = 0
      BY <2>2 DEF ReadLength
    <3> HIDE DEF len, v, off, fs
    <3> QED BY <1>1, <1>2, <1>3, <2>2, <3>1
  <2> QED BY <2>1, <2>2
<1> HIDE DEF v, off, fs, len, d
<1>6. b \in v + off .. v + off + PageSize - 1
  BY <1>1, <1>2, <1>3
<1>7. NewPage(s, off).bytes[b] = IF b - (v + off) < len THEN s.offset + (b - v) + 1 ELSE 0
  BY <1>4, <1>6
<1>8. /\ b - v < fs <=> b - h.vaddr < h.filesz
      /\ s.offset + (b - v) + 1 = h.offset + (b - h.vaddr) + 1
  <2> HIDE DEF s
  <2> QED BY <1>1, <1>2, <1>3
<1>9. Memory!Image(h, b) = IF b - h.vaddr < h.filesz
                           THEN h.offset + (b - h.vaddr) + 1 ELSE 0
  BY DEF Memory!Image
<1> QED BY <1>5, <1>7, <1>8, <1>9 DEF off

(* The segment of a fault, and the page it is on.                           *)
LEMMA FaultFacts ==
    ASSUME LoadedInv, Fault, Candidates # {}
    PROVE  LET h == file.phdrs[Chosen]
               idx == PageIdx(segs[Chosen], asked.addr)
           IN /\ Chosen \in LoadHeaders /\ segs[Chosen] = Segment(h)
              /\ h \in ProgramHeader /\ asked.addr \in Nat
              /\ PageOf(asked.addr) \in PagesOf(h)
              /\ PageOf(asked.addr) = Segment(h).vaddr + idx * PageSize /\ idx \in Nat
<1> DEFINE i == Chosen
           a == asked.addr
           h == file.phdrs[i]
<1>1. PagerInv /\ asked # Nothing /\ Alive
  BY DEF LoadedInv, FlagsInv, Fault
<1>2. i \in LoadHeaders /\ segs[i] = Segment(h) /\ h \in ProgramHeader /\ a \in Nat
  BY <1>1, ChosenFacts, HeaderFacts DEF LoadedInv
<1>3. InSegment(Segment(h), a)
  BY <1>1, <1>2, ChosenFacts DEF InSegment
<1>4. PageOf(a) \in PagesOf(h)
  BY <1>2, <1>3, ReachedPage
<1>5. /\ segs[i] \in SegmentSet /\ segs[i].vaddr = PageOf(segs[i].vaddr)
      /\ segs[i].vaddr <= a
  BY <1>1, ChosenFacts
<1>6. /\ PageOf(a) = segs[i].vaddr + PageIdx(segs[i], a) * PageSize
      /\ PageIdx(segs[i], a) \in Nat
  BY <1>2, <1>5, MapsThePage DEF PageOffset
<1> QED BY <1>2, <1>4, <1>6

(* What the handler maps is what was promised for the page.                 *)
LEMMA MapPageFills ==
    ASSUME Orderly, LoadedInv, MapPage
    PROVE  LET p == PageOf(asked.addr)
           IN /\ pages'[p].perm = file.phdrs[Chosen].flags
              /\ \A b \in Memory!Owned :
                    PageOf(b) = p => pages'[p].bytes[b] = Memory!Filled[b]
<1> DEFINE i   == Chosen
           p   == PageOf(asked.addr)
           h   == file.phdrs[i]
           idx == PageIdx(segs[i], asked.addr)
<1>1. PagerInv /\ Candidates # {} /\ Fault
  BY MapsLeaves DEF LoadedInv, FlagsInv, Maps
<1>2. /\ i \in LoadHeaders /\ segs[i] = Segment(h) /\ h \in ProgramHeader
      /\ p \in PagesOf(h) /\ p = Segment(h).vaddr + idx * PageSize /\ idx \in Nat
  BY <1>1, FaultFacts
<1>3. pages'[p] = NewPage(segs[i], idx * PageSize)
  BY <1>1, MapsFacts DEF Maps
<1> HIDE DEF i, p, h, idx
<1>4. pages'[p].perm = h.flags
  <2>1. Segment(h).perm = h.flags
    BY <1>2, SegmentFields
  <2> QED BY <1>2, <1>3, <2>1 DEF NewPage
<1>5. ASSUME NEW b \in Memory!Owned, PageOf(b) = p
      PROVE  pages'[p].bytes[b] = Memory!Filled[b]
  <2>1. b \in Nat
    BY <1>1, OwnedFacts
  <2>2. Memory!Filled[b] = Memory!Image(h, b)
    BY <1>1, <1>2, <1>5, OwnerOfPage DEF h
  <2>3. NewPage(Segment(h), idx * PageSize).bytes[b] = Memory!Image(h, b)
    BY <1>2, <1>5, <2>1, NewPageBytes
  <2> QED BY <1>2, <1>3, <2>2, <2>3
<1> QED BY <1>4, <1>5 DEF i, p, h

(* The contents of a mapped page are its bytes, those of the others are     *)
(* promised.                                                                *)
LEMMA SameFile ==
    ASSUME UNCHANGED file
    PROVE  /\ Loads' = Loads /\ LoadHeaders' = LoadHeaders
           /\ Memory!Owned' = Memory!Owned /\ Memory!Filled' = Memory!Filled
BY DEF Loads, LoadHeaders, Memory!Owned, Memory!Filled, Memory!Spans, Memory!Image

LEMMA ContentsFacts ==
    /\ Contents = [b \in Memory!Owned |-> IF PageOf(b) \in DOMAIN pages
                                          THEN pages[PageOf(b)].bytes[b]
                                          ELSE Memory!Filled[b]]
    /\ DOMAIN Memory!Filled = Memory!Owned
    /\ Memory!Filled = [b \in Memory!Owned |-> Memory!Filled[b]]
<1>1. Promised!Owned = Memory!Owned /\ Promised!Filled = Memory!Filled
  BY DEF Promised!Owned, Memory!Owned, Promised!Filled, Memory!Filled,
         Promised!Spans, Memory!Spans, Promised!Image, Memory!Image
<1>2. /\ DOMAIN Memory!Filled = Memory!Owned
      /\ Memory!Filled = [b \in Memory!Owned |-> Memory!Filled[b]]
  BY DEF Memory!Filled
<1> QED BY <1>1, <1>2 DEF Contents

LEMMA ContentsAfter ==
    ASSUME UNCHANGED file
    PROVE  Contents' = [b \in Memory!Owned |-> IF PageOf(b) \in DOMAIN pages'
                                               THEN pages'[PageOf(b)].bytes[b]
                                               ELSE Memory!Filled[b]]
<1>1. (Contents = [b \in Memory!Owned |-> IF PageOf(b) \in DOMAIN pages
                                           THEN pages[PageOf(b)].bytes[b]
                                           ELSE Memory!Filled[b]])'
  BY ContentsFacts, PTL
<1> QED BY <1>1, SameFile

(* The page of a header has the permissions of the header, once mapped.     *)
LEMMA PagePerm ==
    ASSUME Orderly, LoadedInv, Alive, Reliable, NEW k \in LoadHeaders,
           NEW p \in DOMAIN pages, p \in PagesOf(file.phdrs[k])
    PROVE  /\ pages[p].perm = file.phdrs[k].flags
           /\ \E idx \in flags[k] : p = segs[k].vaddr + idx * PageSize
<1>1. PagerInv /\ FromHeaders /\ DOMAIN segs = LoadHeaders
  BY DEF LoadedInv, FlagsInv
<1>2. PICK i \in DOMAIN segs : p \in Flagged(segs[i], flags[i])
  BY DEF LoadedInv, FlagsInv, FlagsTellMappings, Reliable
<1>3. PICK idx \in flags[i] : p = segs[i].vaddr + idx * PageSize
  BY <1>2 DEF Flagged
<1>4. p \in PagesOf(file.phdrs[i]) /\ pages[p].perm = file.phdrs[i].flags
  BY <1>1, <1>3 DEF FromHeaders
<1>5. i = k
  BY <1>1, <1>4, OneHeader
<1> QED BY <1>3, <1>4, <1>5

(* Who has a right to an address has a right to its page.                   *)
LEMMA RightfulFacts ==
    ASSUME LoadedInv, Alive, asked # Nothing, Memory!Rightful(asked)
    PROVE  \E k \in LoadHeaders :
              /\ asked.kind \in file.phdrs[k].flags
              /\ PageOf(asked.addr) \in PagesOf(file.phdrs[k])
              /\ InSegment(segs[k], asked.addr)
<1>1. PICK k \in LoadHeaders : /\ Memory!Spans(file.phdrs[k], asked.addr)
                               /\ asked.kind \in file.phdrs[k].flags
  BY DEF Memory!Rightful, Loads
<1>2. PagerInv /\ asked.addr \in Nat
  BY DEF LoadedInv, FlagsInv, PagerInv, TypeOK
<1>3. file.phdrs[k] \in ProgramHeader
  BY <1>2, HeaderFacts
<1>4. /\ InSegment(Segment(file.phdrs[k]), asked.addr)
      /\ PageOf(asked.addr) \in PagesOf(file.phdrs[k])
  BY <1>1, <1>2, <1>3, SpannedIn
<1> QED BY <1>1, <1>4 DEF LoadedInv

(* The flag of the page of a fault: raised, the access is wrong; not        *)
(* raised, the page is new.                                                 *)
LEMMA RaisedIsWrong ==
    ASSUME Slack >= 1, Orderly, LoadedInv, Reliable, Fault, Candidates # {}
    PROVE  LET idx == PageIdx(segs[Chosen], asked.addr)
           IN /\ FlagReads(Chosen, idx) = {idx \in flags[Chosen]}
              /\ idx \in flags[Chosen] => ~Memory!Rightful(asked)
              /\ idx \notin flags[Chosen] => PageOf(asked.addr) \notin DOMAIN pages
<1> DEFINE i   == Chosen
           p   == PageOf(asked.addr)
           idx == PageIdx(segs[i], asked.addr)
<1>1. PagerInv /\ asked # Nothing /\ Alive /\ ~Permitted /\ FromHeaders
  BY DEF LoadedInv, FlagsInv, Fault
<1>2. /\ i \in LoadHeaders /\ i \in DOMAIN segs /\ p \in PagesOf(file.phdrs[i])
      /\ p = segs[i].vaddr + idx * PageSize /\ idx \in Nat /\ segs[i].vaddr \in Nat
  BY <1>1, FaultFacts, SegmentFields DEF LoadedInv
<1>3. idx \in Cells(segs[i])
  BY <1>1, IndexInCells
<1>4. FlagReads(i, idx) = {idx \in flags[i]}
  <2> HIDE DEF i, idx
  <2> QED BY <1>2, <1>3 DEF FlagReads, ZeroedHeap, Reliable
<1>5. ASSUME idx \in flags[i] PROVE ~Memory!Rightful(asked)
  <2> SUFFICES ASSUME Memory!Rightful(asked) PROVE FALSE
    OBVIOUS
  <2>1. PICK k \in LoadHeaders : /\ asked.kind \in file.phdrs[k].flags
                                 /\ p \in PagesOf(file.phdrs[k])
    BY <1>1, RightfulFacts
  <2>2. p \in DOMAIN pages
    <3> HIDE DEF i, idx, p
    <3> QED BY <1>1, <1>2, <1>5 DEF FromHeaders
  <2>3. pages[p].perm = file.phdrs[k].flags
    BY <1>1, <2>1, <2>2, PagePerm
  <2> QED BY <1>1, <2>1, <2>2, <2>3 DEF Permitted, Allows
<1>6. ASSUME idx \notin flags[i] PROVE p \notin DOMAIN pages
  <2> SUFFICES ASSUME p \in DOMAIN pages PROVE FALSE
    OBVIOUS
  <2>1. PICK x \in flags[i] : p = segs[i].vaddr + x * PageSize
    BY <1>1, <1>2, PagePerm
  <2>2. x \in Int
    BY <1>1, <1>2 DEF PagerInv, TypeOK, Cells
  <2> HIDE DEF i, idx, p
  <2>3. x * PageSize \in Int /\ idx * PageSize \in Int /\ PageSize \in Nat \ {0}
    BY <1>2, <2>2, PageSizeAssumption, SMT
  <2>4. x * PageSize = idx * PageSize
    BY <1>2, <2>1, <2>3
  <2>5. x = idx
    BY <1>2, <2>2, <2>3, <2>4, SMT
  <2> QED BY <1>6, <2>5
<1> QED BY <1>4, <1>5, <1>6

(* A page the handler maps leaves the promised bytes of all others alone.   *)
LEMMA MapPageContents ==
    ASSUME Orderly, LoadedInv, MapPage
    PROVE  /\ Contents' = [b \in Memory!Owned |->
                              IF PageOf(b) = PageOf(asked.addr)
                              THEN Memory!Filled[b] ELSE Contents[b]]
           /\ PageOf(asked.addr) \notin DOMAIN pages => Contents' = Contents
           /\ Contents = Memory!Filled => Contents' = Memory!Filled
<1> DEFINE p == PageOf(asked.addr)
           O == Memory!Owned
           F == Memory!Filled
<1>1. UNCHANGED file /\ PagerInv
  BY MapsLeaves DEF Maps, LoadedInv, FlagsInv
<1>2. /\ DOMAIN pages' = DOMAIN pages \cup {p}
      /\ \A r \in DOMAIN pages : r # p => pages'[r] = pages[r]
  BY <1>1, MapsFacts DEF Maps
<1>3. \A b \in O : PageOf(b) = p => pages'[p].bytes[b] = F[b]
  BY MapPageFills
<1>4. Contents' = [b \in O |-> IF PageOf(b) \in DOMAIN pages'
                               THEN pages'[PageOf(b)].bytes[b] ELSE F[b]]
  BY <1>1, ContentsAfter
<1>5. /\ Contents = [b \in O |-> IF PageOf(b) \in DOMAIN pages
                                 THEN pages[PageOf(b)].bytes[b] ELSE F[b]]
      /\ F = [b \in O |-> F[b]]
  BY ContentsFacts
<1> HIDE DEF p, O, F
<1>6. \A b \in O : Contents[b] = IF PageOf(b) \in DOMAIN pages
                                 THEN pages[PageOf(b)].bytes[b] ELSE F[b]
  BY <1>5
<1>7. ASSUME NEW b \in O
      PROVE  (IF PageOf(b) \in DOMAIN pages' THEN pages'[PageOf(b)].bytes[b] ELSE F[b])
                = IF PageOf(b) = p THEN F[b] ELSE Contents[b]
  <2>1. CASE PageOf(b) = p
    BY <1>2, <1>3, <2>1
  <2>2. CASE PageOf(b) # p
    BY <1>2, <1>6, <2>2
  <2> QED BY <2>1, <2>2
<1>8. Contents' = [b \in O |-> IF PageOf(b) = p THEN F[b] ELSE Contents[b]]
  BY <1>4, <1>7
<1>9. ASSUME p \notin DOMAIN pages PROVE Contents' = Contents
  <2>1. \A b \in O : PageOf(b) = p => Contents[b] = F[b]
    BY <1>6, <1>9
  <2> QED BY <1>5, <1>6, <1>8, <2>1
<1>10. ASSUME Contents = F PROVE Contents' = F
  BY <1>5, <1>8, <1>10
<1> QED BY <1>8, <1>9, <1>10 DEF p, O, F

LEMMA MapPageFromHeaders ==
    ASSUME Orderly, LoadedInv, FromHeaders, MapPage
    PROVE  FromHeaders'
<1> DEFINE c   == Chosen
           p   == PageOf(asked.addr)
           idx == PageIdx(segs[c], asked.addr)
<1>1. /\ PagerInv /\ Candidates # {} /\ Fault /\ UNCHANGED << file, segs >>
      /\ DOMAIN segs = LoadHeaders /\ DOMAIN flags = LoadHeaders
  BY MapsLeaves DEF LoadedInv, FlagsInv, Maps, PagerInv
<1>2. /\ c \in LoadHeaders /\ p \in PagesOf(file.phdrs[c])
      /\ p = segs[c].vaddr + idx * PageSize
  BY <1>1, FaultFacts
<1>3. /\ DOMAIN pages' = DOMAIN pages \cup {p}
      /\ \A r \in DOMAIN pages : r # p => pages'[r] = pages[r]
      /\ flags'[c] = FlagsAfter(c, idx)
      /\ \A i \in DOMAIN flags : i # c => flags'[i] = flags[i]
  BY <1>1, MapsFacts DEF Maps
<1>4. pages'[p].perm = file.phdrs[c].flags
  BY MapPageFills
<1> HIDE DEF c, p, idx
<1>5. ASSUME NEW i \in LoadHeaders, NEW x \in flags'[i]
      PROVE  LET r == segs[i].vaddr + x * PageSize
             IN /\ r \in DOMAIN pages' /\ r \in PagesOf(file.phdrs[i])
                /\ pages'[r].perm = file.phdrs[i].flags
  <2> DEFINE r == segs[i].vaddr + x * PageSize
  <2>1. CASE x \in flags[i]
    <3>1. /\ r \in DOMAIN pages /\ r \in PagesOf(file.phdrs[i])
          /\ pages[r].perm = file.phdrs[i].flags
      BY <1>1, <2>1 DEF FromHeaders
    <3>2. CASE r = p
      <4>1. i = c
        BY <1>1, <1>2, <3>1, <3>2, OneHeader
      <4> QED BY <1>3, <1>4, <3>1, <3>2, <4>1
    <3>3. CASE r # p
      BY <1>3, <3>1, <3>3
    <3> QED BY <3>2, <3>3
  <2>2. CASE x \notin flags[i]
    <3>1. i = c /\ x = idx
      BY <1>1, <1>3, <2>2 DEF FlagsAfter
    <3> QED BY <1>2, <1>3, <1>4, <3>1
  <2> QED BY <2>1, <2>2
<1> QED BY <1>1, <1>5 DEF FromHeaders

LEMMA HeapAfterMap ==
    ASSUME PagerInv, Maps
    PROVE  /\ ZeroedHeap' = ZeroedHeap
           /\ Reliable' => MapPage /\ Reliable
           /\ MapPageUnnoticed => ~Reliable'
<1>1. Chosen \in DOMAIN segs /\ DOMAIN data = DOMAIN segs /\ segs' = segs
  BY ChosenFacts, MapsLeaves DEF PagerInv
<1>2. data' = [data EXCEPT ![Chosen] = IF @ = "NULL" THEN "array" ELSE @]
  BY MapsLeaves
<1> HIDE DEF Chosen
<1>3. ZeroedHeap' = ZeroedHeap
  BY <1>1, <1>2 DEF ZeroedHeap
<1>4. /\ unnoticed' = 0 => MapPage /\ unnoticed = 0
      /\ MapPageUnnoticed => unnoticed' = unnoticed + 1 /\ unnoticed \in Nat
  BY MapsLeaves DEF PagerInv, TypeOK
<1> QED BY <1>3, <1>4 DEF Reliable

LEMMA InitLoaded == Init => LoadedInv
<1> SUFFICES ASSUME Init PROVE LoadedInv
  OBVIOUS
<1>1. FlagsInv
  BY InitTyped DEF Init, Alive, FlagsInv, FlagsTellMappings
<1>2. Contents = Memory!Filled
  BY ContentsFacts DEF Init
<1> QED BY <1>1, <1>2 DEF Init, LoadedInv, ZeroedHeap, Reliable, Alive

LEMMA LoadedStep ==
    ASSUME Slack >= 1, Orderly, LoadedInv, [Next]_vars
    PROVE  LoadedInv'
<1>1. FlagsInv' /\ PagerInv /\ PagerInv'
  BY FlagsStep DEF LoadedInv, FlagsInv
<1>2. ASSUME UNCHANGED << file, pages >>
      PROVE  /\ Contents' = Contents /\ Memory!Filled' = Memory!Filled
             /\ \A p \in DOMAIN pages' : DOMAIN pages'[p] = {"perm", "bytes"}
  BY <1>2, SameFile, ContentsFacts, ContentsAfter DEF LoadedInv
<1>3. CASE SoExecute
  <2>1. /\ status = "loading" /\ status' = "starting" /\ UNCHANGED << file, pages, asked, unnoticed >>
        /\ DOMAIN segs' = LoadHeaders
        /\ \A i \in LoadHeaders : segs'[i] = Segment(file.phdrs[i]) /\ flags'[i] = {}
    BY <1>3 DEF SoExecute
  <2>2. FromHeaders' /\ LoadHeaders' = LoadHeaders
    BY <2>1, SameFile DEF FromHeaders
  <2> QED BY <1>1, <1>2, <2>1, <2>2 DEF LoadedInv
<1>4. CASE FixAuxv \/ SoStartExec \/ Ask \/ CallRefused
  <2>1. /\ UNCHANGED << file, segs, data, flags, pages, unnoticed >>
        /\ status \in {"starting", "running"}
        /\ status' = "starting" =>
              /\ status = "starting"
              /\ asked' # Nothing => asked'.by = "loader" /\ asked'.kind = "R"
        /\ status' = "running" => (asked' # Nothing => asked'.by # "loader")
        /\ status' # "loading"
    BY <1>4, CallersAssumption DEF FixAuxv, SoStartExec, Ask, CallRefused
  <2>2. /\ FromHeaders' = FromHeaders /\ Reliable' = Reliable
        /\ LoadHeaders' = LoadHeaders
    BY <2>1, SameFile DEF FromHeaders, ZeroedHeap, Reliable
  <2> QED BY <1>1, <1>2, <2>1, <2>2 DEF LoadedInv, Alive
<1>5. CASE Touch
  <2>1. /\ UNCHANGED << file, segs, data, flags, status, unnoticed >>
        /\ asked' = Nothing /\ Alive
        /\ \A p \in DOMAIN pages : pages'[p].perm = pages[p].perm
        /\ DOMAIN pages' = DOMAIN pages
    BY <1>1, <1>5, TouchTyped DEF Touch, Permitted
  <2>2. /\ FromHeaders => FromHeaders'
        /\ Reliable' = Reliable /\ LoadHeaders' = LoadHeaders
    BY <2>1, SameFile DEF FromHeaders, ZeroedHeap, Reliable
  <2>3. status = "starting" => pages' = pages
    BY <1>5 DEF Touch, LoadedInv
  <2>4. \A p \in DOMAIN pages' : DOMAIN pages'[p] = {"perm", "bytes"}
    <3>1. \A p \in DOMAIN pages : DOMAIN pages'[p] = DOMAIN pages[p]
      BY <1>5 DEF Touch, Permitted
    <3> QED BY <2>1, <3>1 DEF LoadedInv
  <2> QED BY <1>1, <1>2, <2>1, <2>2, <2>3, <2>4 DEF LoadedInv, Alive
<1>6. CASE Maps
  <2>1. /\ UNCHANGED << file, segs, asked >> /\ Alive /\ status' \in {"killed", status}
        /\ unnoticed' = 0 => MapPage /\ unnoticed = 0
    BY <1>1, <1>6, MapsLeaves
  <2>2. LoadHeaders' = LoadHeaders
    BY <2>1, SameFile
  <2>3. ASSUME Reliable' PROVE FromHeaders'
    <3>1. MapPage /\ Reliable
      BY <1>1, <1>6, <2>3, HeapAfterMap
    <3> QED BY <2>1, <3>1, MapPageFromHeaders DEF LoadedInv
  <2>4. ASSUME unnoticed' = 0, status' = "starting" PROVE Contents' = Memory!Filled'
    <3>1. MapPage /\ Contents = Memory!Filled
      BY <2>1, <2>4 DEF Alive, LoadedInv
    <3> QED BY <2>1, <3>1, SameFile, MapPageContents
  <2>5. \A p \in DOMAIN pages' : DOMAIN pages'[p] = {"perm", "bytes"}
    <3> DEFINE r == PageOf(asked.addr)
    <3>1. /\ DOMAIN pages' = DOMAIN pages \cup {r}
          /\ \A p \in DOMAIN pages : p # r => pages'[p] = pages[p]
          /\ DOMAIN pages'[r] = {"perm", "bytes"}
      BY <1>1, <1>6, MapsFacts
    <3> HIDE DEF r
    <3> QED BY <3>1 DEF LoadedInv
  <2>6. status' \in {"starting", "running", "killed"} /\ (Alive' => status' = status)
    BY <2>1 DEF Alive
  <2> QED BY <1>1, <2>1, <2>2, <2>3, <2>4, <2>5, <2>6 DEF LoadedInv, Alive
<1>7. CASE SoExecuteRefused \/ SegmentsUnallocated \/ UnknownSegment \/ BadPointer \/ HandlerDies
  <2>1. status' \in {"refused", "killed", "failed"} /\ UNCHANGED << file, pages >>
    BY <1>7 DEF SoExecuteRefused, SegmentsUnallocated, UnknownSegment, BadPointer, HandlerDies
  <2> QED BY <1>1, <1>2, <2>1 DEF LoadedInv, Alive
<1>8. CASE UNCHANGED vars
  <2>1. UNCHANGED << file, segs, data, flags, pages, asked, status, unnoticed >>
    BY <1>8 DEF vars
  <2>2. /\ FromHeaders' = FromHeaders /\ Reliable' = Reliable
        /\ LoadHeaders' = LoadHeaders
    BY <2>1, SameFile DEF FromHeaders, ZeroedHeap, Reliable
  <2> QED BY <1>1, <1>2, <2>1, <2>2 DEF LoadedInv, Alive
<1> QED BY <1>3, <1>4, <1>5, <1>6, <1>7, <1>8 DEF Next, Handler, Maps

(* Each step of the pager is a step of the filled memory, or none of it     *)
(* shows.                                                                   *)
Shown == << Loads, Contents, IF OwnRead THEN Nothing ELSE asked, Reliable,
            IF status = "starting" THEN "loading" ELSE status >>

LEMMA SoExecuteRefines ==
    ASSUME LoadedInv, SoExecute
    PROVE  Memory!Spoil \/ UNCHANGED Shown
<1>1. /\ UNCHANGED << file, pages, asked >> /\ asked = Nothing
      /\ status = "loading" /\ status' = "starting" /\ Reliable
  BY DEF SoExecute, LoadedInv
<1>2. Loads' = Loads /\ Contents' = Contents
  BY <1>1, SameFile, ContentsFacts, ContentsAfter
<1>3. CASE Reliable'
  BY <1>1, <1>2, <1>3 DEF Shown, OwnRead, Reliable, ZeroedHeap
<1>4. CASE ~Reliable'
  <2>1. Reliable' = FALSE
    BY <1>4 DEF Reliable, ZeroedHeap
  <2> QED BY <1>2, <2>1 DEF Memory!Spoil
<1> QED BY <1>3, <1>4

LEMMA StartRefines ==
    ASSUME LoadedInv, SoExecuteRefused \/ SegmentsUnallocated \/ FixAuxv \/ SoStartExec
    PROVE  Memory!Start \/ UNCHANGED Shown
<1>1. UNCHANGED << file, pages, segs, data, unnoticed >>
  BY DEF SoExecuteRefused, SegmentsUnallocated, FixAuxv, SoStartExec
<1>2. Loads' = Loads /\ Contents' = Contents /\ Reliable' = Reliable
  BY <1>1, SameFile, ContentsFacts, ContentsAfter DEF ZeroedHeap, Reliable
<1>3. CASE SoExecuteRefused \/ SegmentsUnallocated \/ SoStartExec
  BY <1>2, <1>3 DEF SoExecuteRefused, SegmentsUnallocated, SoStartExec, LoadedInv, OwnRead,
                    Memory!Start, Memory!fixed
<1>4. CASE FixAuxv
  BY <1>2, <1>4 DEF FixAuxv, OwnRead, Shown
<1> QED BY <1>3, <1>4

LEMMA AskRefines ==
    ASSUME LoadedInv, Ask \/ CallRefused
    PROVE  Memory!Ask \/ Memory!Refuse \/ UNCHANGED Shown
<1>1. UNCHANGED << file, pages, segs, data, status, unnoticed >> /\ status = "running"
  BY DEF Ask, CallRefused
<1>2. Loads' = Loads /\ Contents' = Contents /\ Reliable' = Reliable
  BY <1>1, SameFile, ContentsFacts, ContentsAfter DEF ZeroedHeap, Reliable
<1>3. CASE Ask
  <2>1. asked = Nothing /\ asked'.by \in Callers
    BY <1>3 DEF Ask
  <2> QED BY <1>1, <1>2, <2>1, CallersAssumption
       DEF OwnRead, Memory!Ask, Memory!fixed, Shown
<1>4. CASE CallRefused
  BY <1>1, <1>2, <1>4 DEF CallRefused, OwnRead, Memory!Refuse, Memory!fixed
<1> QED BY <1>3, <1>4

(* An access that takes place is rightful or beyond the regions.            *)
LEMMA TouchRefines ==
    ASSUME Orderly, LoadedInv, Reliable, Touch
    PROVE  Memory!Grant \/ Memory!Stray \/ UNCHANGED Shown
<1> DEFINE a == asked.addr
           p == PageOf(asked.addr)
           O == Memory!Owned
<1>1. /\ UNCHANGED << file, segs, data, status, unnoticed >> /\ Alive /\ asked' = Nothing
      /\ asked # Nothing /\ p \in DOMAIN pages /\ Allows(pages[p].perm, asked.kind)
      /\ pages' = IF asked.kind = "W" THEN [pages EXCEPT ![p].bytes[a] = Scribble] ELSE pages
  BY DEF Touch, Permitted
<1>2. /\ PagerInv /\ a \in Nat
      /\ \A r \in DOMAIN pages : DOMAIN pages[r].bytes = r .. r + PageSize - 1
  BY <1>1 DEF LoadedInv, FlagsInv, PagerInv, TypeOK
<1>3. Loads' = Loads /\ Reliable' = Reliable
  BY <1>1, SameFile DEF ZeroedHeap, Reliable
<1>4. Contents' = IF asked.kind = "W" THEN [Contents EXCEPT ![a] = Scribble] ELSE Contents
  <2>1. Contents' = [b \in O |-> IF PageOf(b) \in DOMAIN pages'
                                 THEN pages'[PageOf(b)].bytes[b] ELSE Memory!Filled[b]]
    BY <1>1, ContentsAfter
  <2>2. Contents = [b \in O |-> IF PageOf(b) \in DOMAIN pages
                                THEN pages[PageOf(b)].bytes[b] ELSE Memory!Filled[b]]
    BY ContentsFacts
  <2>3. CASE asked.kind = "W"
    <3>1. \A b \in Nat : PageOf(b) = p => b \in DOMAIN pages[p].bytes
      BY <1>1, <1>2, OnItsPage
    <3> DEFINE filled == Memory!Filled
    <3> HIDE DEF a, p, O, filled
    <3>2. /\ DOMAIN pages' = DOMAIN pages
          /\ \A r \in DOMAIN pages : r # p => pages'[r] = pages[r]
          /\ pages'[p] = [pages[p] EXCEPT !.bytes[a] = Scribble]
      BY <1>1, <2>3
    <3>3. pages'[p].bytes = [pages[p].bytes EXCEPT ![a] = Scribble]
      <4>1. "bytes" \in DOMAIN pages[p]
        BY <1>1 DEF LoadedInv
      <4> QED BY <3>2, <4>1
    <3>4. /\ PageOf(a) = p /\ pages'[p].bytes[a] = Scribble
          /\ \A b \in Nat : PageOf(b) = p /\ b # a => pages'[p].bytes[b] = pages[p].bytes[b]
      <4>1. PageOf(a) = p
        BY DEF a, p
      <4> QED BY <1>2, <3>1, <3>3, <4>1
    <3>5. [Contents EXCEPT ![a] = Scribble]
             = [b \in O |-> IF b = a THEN Scribble
                            ELSE IF PageOf(b) \in DOMAIN pages
                                 THEN pages[PageOf(b)].bytes[b] ELSE filled[b]]
      BY <2>2 DEF filled
    <3>6. ASSUME NEW b \in O
          PROVE  (IF PageOf(b) \in DOMAIN pages' THEN pages'[PageOf(b)].bytes[b] ELSE filled[b])
                    = IF b = a THEN Scribble
                      ELSE IF PageOf(b) \in DOMAIN pages
                           THEN pages[PageOf(b)].bytes[b] ELSE filled[b]
      <4>1. CASE b = a
        BY <1>1, <3>2, <3>4, <4>1
      <4>2. CASE b # a
        <5>1. b \in Nat
          BY <1>2, OwnedFacts DEF O
        <5>2. CASE PageOf(b) = p
          BY <1>1, <3>2, <3>4, <4>2, <5>1, <5>2
        <5>3. CASE PageOf(b) # p
          BY <3>2, <4>2, <5>3
        <5> QED BY <5>2, <5>3
      <4> QED BY <4>1, <4>2
    <3>7. Contents' = [Contents EXCEPT ![a] = Scribble]
      BY <2>1, <3>5, <3>6 DEF filled
    <3> QED BY <2>3, <3>7
  <2>4. CASE asked.kind # "W"
    BY <1>1, <2>1, <2>2, <2>4
  <2> QED BY <2>3, <2>4
<1>5. CASE status = "starting"
  <2>1. asked.by = "loader" /\ asked.kind = "R"
    BY <1>1, <1>5 DEF LoadedInv
  <2> QED BY <1>1, <1>3, <1>4, <2>1 DEF OwnRead, Shown
<1>6. CASE status = "running" /\ a \in O
  <2>1. PICK k \in LoadHeaders : Memory!Spans(file.phdrs[k], a)
    BY <1>2, <1>6, OwnedFacts
  <2>2. p \in PagesOf(file.phdrs[k])
    BY <1>2, <2>1, HeaderFacts, SpannedIn
  <2>3. pages[p].perm = file.phdrs[k].flags
    BY <1>1, <2>2, PagePerm
  <2>4. asked.kind \in file.phdrs[k].flags
    <3>1. file \in Files
      BY <1>2 DEF PagerInv, TypeOK
    <3>2. file.phdrs[k].flags # {} => "R" \in file.phdrs[k].flags
      BY <3>1 DEF Orderly, LoadHeaders
    <3> QED BY <1>1, <2>3, <3>2 DEF Allows
  <2>5. Memory!Rightful(asked)
    BY <2>1, <2>4 DEF Memory!Rightful, Loads
  <2>6. ~OwnRead
    BY <1>1, <1>6 DEF OwnRead, LoadedInv
  <2> HIDE DEF a, p, O
  <2> QED BY <1>1, <1>3, <1>4, <1>6, <2>5, <2>6 DEF OwnRead, Memory!Grant, Memory!fixed, a
<1>7. CASE status = "running" /\ a \notin O
  <2>1. ~OwnRead
    BY <1>1, <1>7 DEF OwnRead, LoadedInv
  <2>2. Contents' = Contents
    <3>1. DOMAIN Contents = O
      BY ContentsFacts
    <3>2. Contents = [b \in O |-> Contents[b]]
      BY ContentsFacts
    <3>3. a \notin DOMAIN Contents
      BY <1>7, <3>1
    <3> HIDE DEF a, O
    <3>4. [Contents EXCEPT ![a] = Scribble] = Contents
      BY <3>1, <3>2, <3>3
    <3> QED BY <1>4, <3>4
  <2>3. Memory!Reached(a)
    <3>1. /\ DOMAIN pages = UNION {Flagged(segs[i], flags[i]) : i \in DOMAIN segs}
          /\ FromHeaders /\ DOMAIN segs = LoadHeaders
      BY <1>1 DEF LoadedInv, FlagsInv, FlagsTellMappings, Reliable
    <3>2. PICK i \in LoadHeaders : p \in Flagged(segs[i], flags[i])
      BY <1>1, <3>1
    <3>3. PICK idx \in flags[i] : p = segs[i].vaddr + idx * PageSize
      BY <3>2 DEF Flagged
    <3>4. p \in PagesOf(file.phdrs[i])
      BY <3>1, <3>3 DEF FromHeaders
    <3>5. PICK b \in file.phdrs[i].vaddr .. file.phdrs[i].vaddr + file.phdrs[i].memsz :
             PageOf(a) = PageOf(b)
      BY <3>4 DEF PagesOf
    <3>6. Memory!PageStart(a) = PageOf(a) /\ Memory!PageStart(b) = PageOf(b)
      BY DEF Memory!PageStart, PageOf
    <3> QED BY <3>5, <3>6 DEF Memory!Reached, Loads
  <2> QED BY <1>1, <1>3, <1>7, <2>1, <2>2, <2>3 DEF OwnRead, Memory!Stray, Memory!fixed
<1> QED BY <1>1, <1>5, <1>6, <1>7 DEF Alive

(* The handler ends the program for an access without right, or because a   *)
(* system call of its own fails; a page it maps was there all the time.     *)
LEMMA HandlerRefines ==
    ASSUME Slack >= 1, Orderly, LoadedInv, Reliable, Handler, ~MapPageUnnoticed
    PROVE  Memory!Start \/ Memory!Kill \/ Memory!Fail \/ UNCHANGED Shown
<1>1. /\ UNCHANGED << file, segs, asked >> /\ Fault /\ asked # Nothing /\ PagerInv
      /\ status \in {"starting", "running"}
  BY MapsLeaves DEF Handler, Maps, UnknownSegment, BadPointer, HandlerDies, Fault, Alive,
                    LoadedInv, FlagsInv
<1>2. Loads' = Loads /\ OwnRead' = OwnRead
  BY <1>1, SameFile DEF OwnRead
<1>3. Reliable' = Reliable
  <2>1. CASE MapPage
    <3>1. ZeroedHeap' = ZeroedHeap /\ unnoticed' = unnoticed
      BY <1>1, <2>1, HeapAfterMap, MapsLeaves DEF Maps
    <3> QED BY <3>1 DEF Reliable
  <2>2. CASE UnknownSegment \/ BadPointer \/ HandlerDies
    BY <2>2 DEF UnknownSegment, BadPointer, HandlerDies, ZeroedHeap, Reliable
  <2> QED BY <2>1, <2>2 DEF Handler
<1>4. status = "running" => ~OwnRead
  BY DEF LoadedInv, OwnRead
<1>5. ASSUME status' \in {"killed", "failed"}, status = "starting", Contents' = Contents
      PROVE  Memory!Start
  BY <1>1, <1>2, <1>3, <1>5 DEF Memory!Start, Memory!fixed
<1>6. ASSUME status' = "killed", status = "running", ~Memory!Rightful(asked)
      PROVE  Memory!Kill
  BY <1>1, <1>2, <1>3, <1>4, <1>6 DEF Memory!Kill, Memory!fixed, Memory!Rightful, Memory!Spans
<1>7. CASE MapPage
  <2> DEFINE idx == PageIdx(segs[Chosen], asked.addr)
  <2>1. Candidates # {} /\ \E raised \in FlagReads(Chosen, idx) :
                              status' = IF raised THEN "killed" ELSE status
    BY <1>7 DEF MapPage, PutPage
  <2>2. /\ FlagReads(Chosen, idx) = {idx \in flags[Chosen]}
        /\ idx \in flags[Chosen] => ~Memory!Rightful(asked)
        /\ idx \notin flags[Chosen] => PageOf(asked.addr) \notin DOMAIN pages
    BY <1>1, <2>1, RaisedIsWrong
  <2> HIDE DEF idx
  <2>3. status' = IF idx \in flags[Chosen] THEN "killed" ELSE status
    BY <2>1, <2>2
  <2>4. status = "starting" => Contents' = Contents
    BY <1>7, MapPageContents DEF LoadedInv, Reliable
  <2>5. CASE idx \in flags[Chosen]
    BY <1>1, <1>5, <1>6, <2>2, <2>3, <2>4, <2>5
  <2>6. CASE idx \notin flags[Chosen]
    <3>1. Contents' = Contents
      BY <1>7, <2>2, <2>6, MapPageContents
    <3> QED BY <1>1, <1>2, <1>3, <2>3, <2>6, <3>1 DEF Shown
  <2> QED BY <2>5, <2>6
<1>8. CASE UnknownSegment \/ BadPointer \/ HandlerDies
  <2>1. Contents' = Contents
    BY <1>1, <1>8, ContentsFacts, ContentsAfter DEF UnknownSegment, BadPointer, HandlerDies
  <2>2. CASE UnknownSegment
    <3>1. ~Memory!Rightful(asked)
      BY <1>1, <2>2, RightfulFacts DEF UnknownSegment, Candidates, LoadedInv, Fault
    <3> QED BY <1>1, <1>5, <1>6, <2>1, <2>2, <3>1 DEF UnknownSegment
  <2>3. CASE BadPointer
    <3>1. Chosen \in DOMAIN segs /\ data[Chosen] = "garbage"
      BY <1>1, <2>3, ChosenFacts DEF BadPointer
    <3> QED BY <3>1 DEF ZeroedHeap, Reliable
  <2>4. CASE HandlerDies
    <3>1. status' = "failed"
      BY <2>4 DEF HandlerDies
    <3>2. CASE status = "starting"
      BY <1>5, <2>1, <3>1, <3>2
    <3>3. CASE status = "running"
      BY <1>1, <1>2, <1>3, <1>4, <3>1, <3>3 DEF Memory!Fail, Memory!fixed
    <3> QED BY <1>1, <3>2, <3>3
  <2> QED BY <1>8, <2>2, <2>3, <2>4
<1> QED BY <1>7, <1>8 DEF Handler

(* From a failure nobody looked for on, nothing is promised.                *)
LEMMA UnnoticedRefines ==
    ASSUME LoadedInv, MapPageUnnoticed
    PROVE  Memory!Spoil
<1>1. PagerInv
  BY DEF LoadedInv, FlagsInv
<1>2. UNCHANGED file /\ ~Reliable'
  BY <1>1, MapsLeaves, HeapAfterMap DEF Maps
<1>3. Loads' = Loads /\ Reliable' = FALSE
  BY <1>2, SameFile DEF Reliable, ZeroedHeap
<1> QED BY <1>3 DEF Memory!Spoil

LEMMA PagerStepRefines ==
    ASSUME Slack >= 1, Orderly, LoadedInv, [Next]_vars
    PROVE  Memory!Next \/ UNCHANGED Shown
<1>1. CASE ~Reliable
  BY <1>1 DEF Memory!Next
<1>2. CASE SoExecute
  BY <1>2, SoExecuteRefines DEF Memory!Next
<1>3. CASE SoExecuteRefused \/ SegmentsUnallocated \/ FixAuxv \/ SoStartExec
  BY <1>3, StartRefines DEF Memory!Next
<1>4. CASE Ask \/ CallRefused
  BY <1>4, AskRefines DEF Memory!Next
<1>5. CASE Reliable /\ Touch
  BY <1>5, TouchRefines DEF Memory!Next
<1>6. CASE Reliable /\ Handler /\ ~MapPageUnnoticed
  BY <1>6, HandlerRefines DEF Memory!Next
<1>7. CASE MapPageUnnoticed
  BY <1>7, UnnoticedRefines DEF Memory!Next
<1>8. CASE UNCHANGED vars
  <2>1. UNCHANGED << file, pages, segs, data, asked, status, unnoticed >>
    BY <1>8 DEF vars
  <2>2. Loads' = Loads /\ Contents' = Contents /\ Reliable' = Reliable
    BY <2>1, SameFile, ContentsFacts, ContentsAfter DEF ZeroedHeap, Reliable
  <2> QED BY <2>1, <2>2 DEF Shown, OwnRead
<1> QED BY <1>1, <1>2, <1>3, <1>4, <1>5, <1>6, <1>7, <1>8 DEF Next

(* Paging on demand cannot be told from a memory that was filled from the   *)
(* headers before the program ran: given a zeroed heap, one cell of room    *)
(* behind the flags and headers with pages of their own, the program reads  *)
(* the file's bytes, zeros and what it has written itself, whatever page    *)
(* its accesses map first, and only an access without right or a failing    *)
(* system call ends it; until an unchecked call fails unnoticed.            *)
THEOREM PagerImplementsMemory ==
    ASSUME Slack >= 1, Orderly
    PROVE  Spec => ImplementsLoadedMemory
<1>1. Init => Memory!Init
  <2> SUFFICES ASSUME Init PROVE Memory!Init
    OBVIOUS
  <2>1. LoadedInv
    BY InitLoaded
  <2> QED BY <2>1 DEF Init, LoadedInv, OwnRead, Memory!Init
<1>2. LoadedInv /\ [Next]_vars => LoadedInv'
  BY LoadedStep
<1>3. LoadedInv /\ [Next]_vars => [Memory!Next]_(Memory!vars)
  BY PagerStepRefines DEF Memory!vars, Shown
<1> QED BY InitLoaded, <1>1, <1>2, <1>3, PTL DEF Spec, Memory!Spec, ImplementsLoadedMemory

=============================================================================
