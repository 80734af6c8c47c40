---------------------------- MODULE LoadedMemory ----------------------------
(***************************************************************************)
(* What the executable loader promises: a program that runs as if all of   *)
(* its memory had been filled from its program headers before it started.  *)
(* Faults and the handler are invisible.  Nothing is promised when the     *)
(* loader's own memory is not what it takes it for, nor after a call that  *)
(* failed without the loader's noticing.                                   *)
(***************************************************************************)
EXTENDS Integers

CONSTANTS PageSize,  \* memory is given by pages of so many bytes
          Nothing,   \* no access is under way
          Scribble   \* the value the program writes

VARIABLES
    loads,    \* the loadable regions: [vaddr, offset, filesz, memsz, flags]
    mem,      \* the contents of the regions, by address
    asked,    \* the access under way: its address, its kind and who makes it
    reliable, \* the loader can rely on its own memory and calls
    status    \* loading, running, refused, killed by a signal, or failed

vars == << loads, mem, asked, reliable, status >>
fixed == << loads, reliable >>

Spans(h, a) == h.vaddr <= a /\ a < h.vaddr + h.memsz
Owned       == {a \in UNION {h.vaddr .. h.vaddr + h.memsz : h \in loads} :
                   \E h \in loads : Spans(h, a)}
Rightful(x) == \E h \in loads : Spans(h, x.addr) /\ x.kind \in h.flags

(* A byte of the file is its position, counted from 1; the rest are zeros. *)
Image(h, a) == IF a - h.vaddr < h.filesz THEN h.offset + (a - h.vaddr) + 1 ELSE 0

Filled == [a \in Owned |-> Image(CHOOSE h \in loads : Spans(h, a), a)]

Init ==
    /\ mem = Filled
    /\ asked = Nothing
    /\ status = "loading"
    /\ reliable = TRUE

(* Memory the loader takes for zeroed turns out to hold something else, or *)
(* a call of it fails unnoticed.                                           *)
Spoil == reliable' = FALSE /\ UNCHANGED loads

(* The file is accepted and the program starts; or it is turned down; or   *)
(* the loader cannot start it.                                             *)
Start ==
    /\ status = "loading" /\ status' \in {"running", "refused", "killed", "failed"}
    /\ UNCHANGED << fixed, mem, asked >>

Ask ==
    /\ status = "running" /\ asked = Nothing
    /\ asked' # Nothing
    /\ UNCHANGED << fixed, mem, status >>

(* A rightful access takes place.                                          *)
Grant ==
    /\ status = "running" /\ asked # Nothing /\ Rightful(asked)
    /\ asked' = Nothing
    /\ mem' = IF asked.kind = "W" THEN [mem EXCEPT ![asked.addr] = Scribble] ELSE mem
    /\ UNCHANGED << fixed, status >>

(* Beyond the regions an access may take place as well, but only on a page *)
(* that one of them reaches, or the byte behind it: the regions keep their *)
(* contents.                                                               *)
PageStart(a) == PageSize * (a \div PageSize)
Reached(a) == \E h \in loads : \E b \in h.vaddr .. h.vaddr + h.memsz :
                  PageStart(a) = PageStart(b)
Stray ==
    /\ status = "running" /\ asked # Nothing
    /\ asked.addr \notin Owned /\ Reached(asked.addr)
    /\ asked' = Nothing
    /\ UNCHANGED << fixed, mem, status >>

(* A system call that is given memory may report EFAULT: nobody maps a page*)
(* for the kernel, whatever the right to it.                               *)
Refuse ==
    /\ status = "running" /\ asked # Nothing
    /\ asked.by = "kernel"
    /\ asked' = Nothing
    /\ UNCHANGED << fixed, mem, status >>

(* Any other access the program has no right to ends it.                   *)
Kill ==
    /\ status = "running" /\ asked # Nothing /\ ~Rightful(asked)
    /\ status' = "killed"
    /\ UNCHANGED << fixed, asked >>

(* A system call the loader needs may fail: the loader exits.              *)
Fail ==
    /\ status = "running" /\ asked # Nothing
    /\ status' = "failed"
    /\ UNCHANGED << fixed, asked >>

Next == ~reliable \/ Spoil \/ Start \/ Ask \/ Grant \/ Stray \/ Refuse \/ Kill \/ Fail

Spec == Init /\ [][Next]_vars

=============================================================================
