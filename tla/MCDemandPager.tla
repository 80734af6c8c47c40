--------------------------- MODULE MCDemandPager ----------------------------
(* Small files for the executable loader, with pages of four bytes.        *)
EXTENDS DemandPager

Header(type, vaddr, offset, filesz, memsz, perms) ==
    [type |-> type, vaddr |-> vaddr, offset |-> offset,
     filesz |-> filesz, memsz |-> memsz, flags |-> perms]

NotAnElf == [valid |-> FALSE, phdrs |-> << >>]

(* Code on one page, then data that starts inside a page and whose zeroed  *)
(* part ends on a second one.                                              *)
Ordinary == [valid |-> TRUE, phdrs |-> <<
    Header("PT_LOAD", 4, 0, 3, 3, {"R", "X"}),
    Header("PT_NOTE", 0, 0, 2, 2, {"R"}),
    Header("PT_LOAD", 9, 5, 2, 5, {"R", "W"}) >>]

(* Constants over two pages, and a region without any file bytes.          *)
LongCode == [valid |-> TRUE, phdrs |-> <<
    Header("PT_LOAD", 0, 0, 7, 7, {"R"}),
    Header("PT_LOAD", 12, 8, 0, 3, {"R", "W"}) >>]

(* Nothing to load: the loader faults behind every address.                *)
NoteOnly == [valid |-> TRUE, phdrs |-> << Header("PT_NOTE", 0, 0, 2, 2, {"R"}) >>]

OrdinaryFiles == {NotAnElf, Ordinary, LongCode, NoteOnly}
OneFile       == {Ordinary}

(* The condition under which the pager implements LoadedMemory.            *)
ASSUME FilesAreOrderly == Orderly

(* On each page: bytes of the files, zeros, and what lies before a region  *)
(* and behind it.                                                          *)
Corners == {2, 4, 7, 8, 9, 11, 13, 14, 15}

CommandLine == << "so_exec", "a.out", "-v" >>
=============================================================================
