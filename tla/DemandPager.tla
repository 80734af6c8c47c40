---------------------------- MODULE DemandPager -----------------------------
(***************************************************************************)
(* The executable loader: so_execute() turns the program headers of an ELF *)
(* file into segments and starts the program with none of its pages        *)
(* mapped; segv_handler() maps a page when the program first touches it.   *)
(* The first to do so is the loader: so_start_exec() reads the file's      *)
(* header where the program will have it in memory.                        *)
(*                                                                         *)
(* The program itself is an environment that accesses any of Addresses.    *)
(* What the processor and the kernel do with an access (let it pass, raise *)
(* a fault, end the program, fail a call with EFAULT) is modelled from how *)
(* the loader relies on it.                                                *)
(***************************************************************************)
EXTENDS Integers, Sequences, FiniteSetsExt

CONSTANTS
    PageSize,     \* bytes of a page
    Limit,        \* addresses are below it
    Addresses,    \* those the program accesses
    Files,        \* the files a user may ask for: [valid, phdrs]
    Kinds,        \* kinds of access, a subset of {"R", "W", "X"}
    Callers,      \* who accesses memory: "program", and "kernel" for it
    Args,         \* argv of the loader: its name, the file, its arguments
    FailingCalls, \* calls of the loader that may fail
    MaxUnnoticed, \* bound on the mappings with a failure nobody looked for
    Slack,        \* cells malloc() leaves behind the array of flags
    Nothing, Scribble,
    Astray        \* a byte from another place of the file

Perms == {"R", "W", "X"}

(* The position of a header reaches back to the start of its page, as ELF  *)
(* aligns the two: lseek() is not asked for a place before the file.       *)
ProgramHeader == {h \in [type : STRING, vaddr : Nat, offset : Nat,
                         filesz : Nat, memsz : Nat, flags : SUBSET Perms] :
                     h.vaddr % PageSize <= h.offset}

ASSUME PageSizeAssumption == PageSize \in Nat \ {0}
ASSUME LimitAssumption    == Limit \in Nat
ASSUME AddressesAssumption == Addresses \subseteq 0 .. Limit - 1
ASSUME SlackAssumption    == Slack \in Nat
ASSUME UnnoticedAssumption == MaxUnnoticed \in Nat
ASSUME CallersAssumption == Callers \subseteq {"program", "kernel"}
ASSUME ArgsAssumption    == Args \in Seq(STRING) /\ Len(Args) >= 2
ASSUME FilesAssumption    == Files \subseteq [valid : BOOLEAN, phdrs : Seq(ProgramHeader)]

VARIABLES
    file,     \* the file being executed
    segs,     \* exec->segments
    data,     \* seg->data of each: "NULL", "array" or, never assigned, "garbage"
    flags,    \* the raised flags of each array
    pages,    \* the mapped pages of the program, by address: [perm, bytes]
    asked,    \* the access under way
    status,   \* of the process
    header,   \* what fix_auxv() has read of the header, for the auxiliary vector
    stack,    \* from %esp upwards: argc and the arguments
    unnoticed \* history: mappings in which a call failed that is not checked

vars == << file, segs, data, flags, pages, asked, status, header, stack, unnoticed >>
started == << header, stack >>

PageOf(a) == PageSize * (a \div PageSize)

Init ==
    /\ file \in Files
    /\ segs = << >> /\ data = << >> /\ flags = << >>
    /\ pages = << >>
    /\ asked = Nothing
    /\ status = "loading"
    /\ header = << >>
    /\ stack = << Len(Args) >> \o Args
    /\ unnoticed = 0

-----------------------------------------------------------------------------
(* so_execute() and so_parse_exec()                                        *)

(* Mutant: the start of a segment is left inside its page.                 *)
SegmentNotAligned(ph) ==
    [vaddr |-> ph.vaddr, offset |-> ph.offset, file_size |-> ph.filesz,
     mem_size |-> ph.memsz, perm |-> ph.flags]

Segment(ph) ==
    LET vaddr == PageOf(ph.vaddr)
        diff  == ph.vaddr - vaddr
    IN [vaddr |-> vaddr, offset |-> ph.offset - diff, file_size |-> ph.filesz + diff,
        mem_size |-> ph.memsz + diff, perm |-> ph.flags]

(* exec->segments holds the loadable headers in the order of the file: here*)
(* a segment keeps the position of its header.                             *)
LoadHeaders == {i \in DOMAIN file.phdrs : file.phdrs[i].type = "PT_LOAD"}

(* The segments come from malloc() and their data field is not assigned:   *)
(* it is NULL if malloc() happens to return zeroed memory.                 *)
SoExecute ==
    /\ status = "loading" /\ file.valid
    /\ segs' = [i \in LoadHeaders |-> Segment(file.phdrs[i])]
    /\ data' \in [LoadHeaders -> {"NULL", "garbage"}]
    /\ flags' = [i \in LoadHeaders |-> {}]
    /\ status' = "starting"
    /\ UNCHANGED << file, pages, asked, header, stack, unnoticed >>

SoExecuteRefused ==
    /\ status = "loading" /\ (~file.valid \/ "malloc" \in FailingCalls)
    /\ status' = "refused"
    /\ UNCHANGED << file, segs, data, flags, pages, asked, header, stack, unnoticed >>

(* Nobody checks that malloc() found room for the segments: the first is   *)
(* written to no address, and the handler has no segments to look through. *)
SegmentsUnallocated ==
    /\ status = "loading" /\ file.valid
    /\ "malloc" \in FailingCalls /\ LoadHeaders # {}
    /\ status' = "killed"
    /\ UNCHANGED << file, segs, data, flags, pages, asked, header, stack, unnoticed >>

-----------------------------------------------------------------------------
(* so_start_exec()                                                         *)

(* Mutant: the comparison is missing, the last segment wins.               *)
LastAddr == IF DOMAIN segs = {} THEN Limit ELSE segs[Max(DOMAIN segs)].vaddr

(* exec->base_addr, which stays behind every address without a segment.    *)
BaseAddr == IF DOMAIN segs = {} THEN Limit ELSE Min({segs[i].vaddr : i \in DOMAIN segs})

(* e_phoff and e_entry, by their place in the header and in the file.      *)
HeaderFields == << 2, 1 >>

(* fix_auxv() reads the header in the memory of the program: each read may *)
(* fault like an access of the program.                                    *)
FixAuxv ==
    /\ status = "starting" /\ asked = Nothing /\ Len(header) < Len(HeaderFields)
    /\ asked' = [addr |-> BaseAddr + HeaderFields[Len(header) + 1],
                 kind |-> "R", by |-> "loader"]
    /\ UNCHANGED << file, segs, data, flags, pages, status, header, stack, unnoticed >>

(* argc less one goes where the loader's name was, and %esp points there.  *)
SoStartExec ==
    /\ status = "starting" /\ asked = Nothing /\ Len(header) = Len(HeaderFields)
    /\ stack' = Tail([stack EXCEPT ![2] = stack[1] - 1])
    /\ status' = "running"
    /\ UNCHANGED << file, segs, data, flags, pages, asked, header, unnoticed >>

-----------------------------------------------------------------------------
(* The program and the processor                                           *)

Ask ==
    /\ status = "running" /\ asked = Nothing
    /\ asked' \in [addr : Addresses, kind : Kinds, by : Callers]
    /\ UNCHANGED << file, segs, data, flags, pages, status, started, unnoticed >>

(* A page that can be accessed at all can be read.                         *)
Allows(perm, kind) == IF kind = "R" THEN perm # {} ELSE kind \in perm

Permitted == /\ PageOf(asked.addr) \in DOMAIN pages
             /\ Allows(pages[PageOf(asked.addr)].perm, asked.kind)

Alive == status \in {"starting", "running"}

Touch ==
    /\ Alive /\ asked # Nothing /\ Permitted
    /\ pages' = IF asked.kind = "W"
                THEN [pages EXCEPT ![PageOf(asked.addr)].bytes[asked.addr] = Scribble]
                ELSE pages
    /\ header' = IF asked.by = "loader"
                 THEN Append(header, pages[PageOf(asked.addr)].bytes[asked.addr])
                 ELSE header
    /\ asked' = Nothing
    /\ UNCHANGED << file, segs, data, flags, status, stack, unnoticed >>

(* No signal is raised for an access the kernel makes during a call.       *)
CallRefused ==
    /\ status = "running" /\ asked # Nothing /\ ~Permitted
    /\ asked.by = "kernel"
    /\ asked' = Nothing
    /\ UNCHANGED << file, segs, data, flags, pages, status, started, unnoticed >>

Fault == Alive /\ asked # Nothing /\ ~Permitted /\ asked.by # "kernel"

-----------------------------------------------------------------------------
(* segv_handler()                                                          *)

InSegment(s, a) == s.vaddr + s.mem_size >= a /\ s.vaddr <= a

Candidates == {i \in DOMAIN segs : InSegment(segs[i], asked.addr)}

(* The loop stops at the first segment.                                    *)
Chosen == Min(Candidates)

(* Mutant: the index of the page is rounded up.                            *)
PageIdxRoundedUp(s, a) == (a - s.vaddr + PageSize - 1) \div PageSize

PageIdx(s, a)    == (a - s.vaddr) \div PageSize
PageOffset(s, a) == PageIdx(s, a) * PageSize

(* The cells of an array of flags that can be used safely.                 *)
Cells(s) == 0 .. (s.mem_size \div PageSize) + Slack - 1

(* Mutant: the test whether the page was mapped before is missing.         *)
FlagNotTested(i, idx) == {FALSE}

(* What the test of a flag may find.                                       *)
FlagReads(i, idx) ==
    IF data[i] = "garbage" \/ idx \notin Cells(segs[i]) THEN BOOLEAN
    ELSE {idx \in flags[i]}

(* Mutant: memset() without the index of the page.                         *)
FirstFlagSet(i, idx) == IF data[i] = "garbage" THEN {} ELSE flags[i] \cup {0}

(* The flags after the memset(): what it writes elsewhere is not tracked.  *)
FlagsAfter(i, idx) ==
    IF data[i] = "garbage" THEN {} ELSE flags[i] \cup ({idx} \cap Cells(segs[i]))

(* Mutant: a whole page is read, whatever is left of the file's part.      *)
WholePageRead(s, off) == IF s.file_size > off THEN PageSize ELSE 0

(* How many bytes read() puts on a page, and the page it leaves.           *)
ReadLength(s, off) == IF s.file_size > off THEN Min({s.file_size - off, PageSize}) ELSE 0

NewPage(s, off) ==
    [perm  |-> s.perm,
     bytes |-> [a \in s.vaddr + off .. s.vaddr + off + PageSize - 1 |->
                   IF a - (s.vaddr + off) < ReadLength(s, off)
                   THEN s.offset + (a - s.vaddr) + 1 ELSE 0]]

(* SIGSEGV is blocked while its handler runs: a raise() takes effect when  *)
(* the handler returns, so a page that was mapped before is mapped again.  *)
PutPage(page) ==
    /\ Fault /\ Candidates # {}
    /\ LET i   == Chosen
           s   == segs[i]
           idx == PageIdx(s, asked.addr)
           off == PageOffset(s, asked.addr)
       IN /\ \E raised \in FlagReads(i, idx) :
                 status' = IF raised THEN "killed" ELSE status
          /\ pages' = [p \in DOMAIN pages \cup {s.vaddr + off} |->
                          IF p = s.vaddr + off THEN page ELSE pages[p]]
          /\ data' = [data EXCEPT ![i] = IF @ = "NULL" THEN "array" ELSE @]
          /\ flags' = [flags EXCEPT ![i] = FlagsAfter(i, idx)]
    /\ UNCHANGED << file, segs, asked, started >>

MapPage ==
    /\ PutPage(NewPage(segs[Chosen], PageOffset(segs[Chosen], asked.addr)))
    /\ UNCHANGED unnoticed

(* The results of lseek() and mprotect() are not looked at, and read() may *)
(* return less than it was asked for: the page is left with bytes from     *)
(* elsewhere, with zeros for some of them, or writable and no more.        *)
PageLeft(s, off, perm, got, astray) ==
    LET right == NewPage(s, off).bytes
    IN [perm  |-> perm,
        bytes |-> [a \in DOMAIN right |->
                      IF a >= s.vaddr + off + got THEN 0
                      ELSE IF astray THEN Astray ELSE right[a]]]

MapPageUnnoticed ==
    /\ Fault /\ Candidates # {}
    /\ unnoticed < MaxUnnoticed /\ unnoticed' = unnoticed + 1
    /\ LET s   == segs[Chosen]
           off == PageOffset(s, asked.addr)
       IN \E perm \in {s.perm, {"W"}}, got \in 0 .. ReadLength(s, off), astray \in BOOLEAN :
             /\ perm # s.perm => "mprotect" \in FailingCalls
             /\ got # ReadLength(s, off) => "short read" \in FailingCalls
             /\ astray => "lseek" \in FailingCalls
             /\ PageLeft(s, off, perm, got, astray) # NewPage(s, off)
             /\ PutPage(PageLeft(s, off, perm, got, astray))

(* No segment: the default handler ends the program.                       *)
UnknownSegment ==
    /\ Fault /\ Candidates = {}
    /\ status' = "killed"
    /\ UNCHANGED << file, segs, data, flags, pages, asked, started, unnoticed >>

(* The pointer to the flags is no pointer: a fault inside the handler.     *)
BadPointer ==
    /\ Fault /\ Candidates # {} /\ data[Chosen] = "garbage"
    /\ status' = "killed"
    /\ UNCHANGED << file, segs, data, flags, pages, asked, started, unnoticed >>

(* One of the DIE() exits.                                                 *)
HandlerDies ==
    /\ Fault /\ Candidates # {}
    /\ \/ "calloc" \in FailingCalls /\ data[Chosen] = "NULL"
       \/ "mmap" \in FailingCalls
       \/ /\ "read" \in FailingCalls
          /\ segs[Chosen].file_size > PageOffset(segs[Chosen], asked.addr)
    /\ status' = "failed"
    /\ UNCHANGED << file, segs, data, flags, pages, asked, started, unnoticed >>

Handler == MapPage \/ MapPageUnnoticed \/ UnknownSegment \/ BadPointer \/ HandlerDies

-----------------------------------------------------------------------------
Next == \/ SoExecute \/ SoExecuteRefused \/ SegmentsUnallocated
        \/ FixAuxv \/ SoStartExec
        \/ Ask \/ Touch \/ CallRefused \/ Handler

(* The processor retries the access the handler returns to; nothing has to *)
(* fail for a handler to end, and so_start_exec() goes on.                 *)
Fairness == /\ WF_vars(Touch \/ CallRefused \/ MapPage \/ UnknownSegment)
            /\ WF_vars(FixAuxv \/ SoStartExec)

Spec == Init /\ [][Next]_vars /\ Fairness

-----------------------------------------------------------------------------
(* Properties                                                              *)

(* TypeOK: every mapped page is a whole page at a page boundary, and flags *)
(* stand for pages of the segment or the cells behind them (so_parse_exec, *)
(* so_map_page_in_memory).                                                 *)
TypeOK ==
    /\ file \in Files
    /\ \A i \in DOMAIN segs :
          /\ segs[i].vaddr = PageOf(segs[i].vaddr)
          /\ data[i] \in {"NULL", "array", "garbage"}
          /\ flags[i] \subseteq Cells(segs[i])
    /\ \A p \in DOMAIN pages :
          /\ p = PageOf(p)
          /\ DOMAIN pages[p].bytes = p .. p + PageSize - 1
          /\ pages[p].perm \subseteq Perms
    /\ unnoticed \in 0 .. MaxUnnoticed
    /\ asked \in {Nothing} \cup [addr : Nat, kind : Kinds \cup {"R"},
                                by : Callers \cup {"loader"}]
    /\ status \in {"loading", "starting", "running", "refused", "killed", "failed"}

(* malloc() returned zeroed memory for the segments.                       *)
ZeroedHeap == \A i \in DOMAIN segs : data[i] # "garbage"

(* FlagsTellMappings: given a zeroed heap, the flags of the segments are,  *)
(* until the program ends, exactly the pages the kernel has mapped.  The   *)
(* handler takes a raised flag for a missing permission and ends the       *)
(* program: a flag without a page would kill it for a legal access, a page *)
(* without a flag would be overwritten (so_map_page_in_memory, 102-122).   *)
Flagged(s, raised) == {s.vaddr + idx * PageSize : idx \in raised}
FlagsTellMappings ==
    Alive /\ ZeroedHeap => DOMAIN pages = UNION {Flagged(segs[i], flags[i]) : i \in DOMAIN segs}

(* DemandOnly: a page is mapped only when the program accesses that very   *)
(* page: demand paging never maps the neighbour of the faulting address    *)
(* and never unmaps (so_map_page_in_memory).                               *)
DemandOnly ==
    [][ /\ DOMAIN pages \subseteq DOMAIN pages'
        /\ \A p \in DOMAIN pages' \ DOMAIN pages :
              asked # Nothing /\ p = PageOf(asked.addr) ]_vars

(* Answered: every access is answered: it takes place, or the program      *)
(* ends.  A handler that kept mapping a page whose permissions do not allow*)
(* the access would fault for ever (lines 102-104).  So an accepted file is*)
(* started or ended, though so_start_exec() faults on the way.  The flags  *)
(* have to begin as zeros.                                                 *)
Answered ==
    /\ asked # Nothing /\ ZeroedHeap ~> (asked = Nothing \/ ~Alive)
    /\ status = "starting" /\ ZeroedHeap ~> status # "starting"

(* StartsWithItsOwn: the program is told of its own header and arguments,  *)
(* not of the loader's: what fix_auxv() read through pages that the handler*)
(* mapped meanwhile is the file's header, if the lowest segment begins with*)
(* it and no call failed unnoticed, and argc counts the arguments behind it*)
(* (exec_parser.c:19-65).                                                  *)
HeaderIsLoaded ==
    /\ DOMAIN segs # {}
    /\ \A i \in DOMAIN segs : (\A k \in DOMAIN segs : segs[i].vaddr <= segs[k].vaddr) =>
          /\ segs[i].offset = 0
          /\ \A f \in {1, 2} : HeaderFields[f] < Min({segs[i].file_size, PageSize})
StartsWithItsOwn ==
    status = "running" =>
        /\ HeaderIsLoaded /\ unnoticed = 0 =>
              header = << HeaderFields[1] + 1, HeaderFields[2] + 1 >>
        /\ stack[1] = Len(stack) - 1 /\ Tail(stack) = Tail(Args)

(* ImplementsLoadedMemory: the program cannot tell the pager from a loader *)
(* that fills all memory first: bytes, zeros, permissions and its own      *)
(* writes are as promised, and only an access without right ends it.       *)
(* Until the program runs, the accesses are the loader's own affair.  All  *)
(* of it rests on a zeroed heap, and ends with the first call that fails   *)
(* without the handler's noticing (lines 134-140).                         *)
OwnRead  == asked # Nothing /\ asked.by = "loader"
Loads    == {file.phdrs[i] : i \in LoadHeaders}
Reliable == ZeroedHeap /\ unnoticed = 0
Promised == INSTANCE LoadedMemory WITH loads <- Loads, mem <- pages,
                asked <- IF OwnRead THEN Nothing ELSE asked,
                status <- IF status = "starting" THEN "loading" ELSE status,
                reliable <- Reliable
Contents == [a \in Promised!Owned |-> IF PageOf(a) \in DOMAIN pages
                                      THEN pages[PageOf(a)].bytes[a]
                                      ELSE Promised!Filled[a]]
Memory   == INSTANCE LoadedMemory WITH loads <- Loads, mem <- Contents,
                asked <- IF OwnRead THEN Nothing ELSE asked,
                status <- IF status = "starting" THEN "loading" ELSE status,
                reliable <- Reliable
ImplementsLoadedMemory == Memory!Spec

(* Orderly: files whose loadable headers have pages to themselves, from    *)
(* their first byte to the byte behind their last, and can be read if they *)
(* can be accessed at all.  For these ImplementsLoadedMemory is meant: the *)
(* handler gives a page to one segment, and the byte behind it with it.    *)
PagesOf(h) == {PageOf(a) : a \in h.vaddr .. h.vaddr + h.memsz}
Orderly ==
    \A f \in Files : \A i, k \in {n \in DOMAIN f.phdrs : f.phdrs[n].type = "PT_LOAD"} :
        /\ i # k => PagesOf(f.phdrs[i]) \cap PagesOf(f.phdrs[k]) = {}
        /\ f.phdrs[i].flags # {} => "R" \in f.phdrs[i].flags

-----------------------------------------------------------------------------
(* What the documentation says, and the code does not do                   *)

(* FlagsInBounds: README.md:15 monitors the pages of a segment in its data *)
(* array: every page of the segment has a flag of its own in it, between   *)
(* the first and the last byte that calloc() was asked for (line 89).      *)
FlagsInBounds ==
    \A i \in DOMAIN segs : \A idx \in flags[i] :
        idx < segs[i].mem_size \div PageSize
=============================================================================
