---------------------------- MODULE PageAllocator ---------------------------
(***************************************************************************)
(* What the physical memory manager promises its callers: an allocation    *)
(* takes the lowest run of free pages that is long enough, all of it at    *)
(* once, and fails only when there is none; a free gives one page back.    *)
(***************************************************************************)
EXTENDS Integers

CONSTANTS MaxPages

VARIABLES ready,     \* the memory map has been read
          managed,   \* pages 0 .. managed - 1 are looked after
          free       \* the free ones among them

Window(s, n) == s .. s + n - 1

Fits(s, n) == s >= 0 /\ s + n <= managed /\ Window(s, n) \subseteq free

FirstFit(s, n) == Fits(s, n) /\ \A r \in 0 .. s - 1 : ~Fits(r, n)

Init == ready = FALSE /\ managed = 0 /\ free = {}

Start == /\ ~ready /\ ready' = TRUE
         /\ managed' \in 0 .. MaxPages
         /\ free' \subseteq 0 .. managed' - 1

\* Page 0 is never free, so the address 0 can stand for failure.
Alloc(n) == /\ ready
            /\ \E s \in 1 .. managed - 1 : FirstFit(s, n) /\ free' = free \ Window(s, n)
            /\ UNCHANGED <<ready, managed>>

Free(p) == /\ ready /\ p < managed
           /\ free' = free \cup {p}
           /\ UNCHANGED <<ready, managed>>

Next == \/ Start
        \/ \E n \in 1 .. MaxPages : Alloc(n)
        \/ \E p \in 0 .. MaxPages - 1 : Free(p)

Spec == Init /\ [][Next]_<<ready, managed, free>>
=============================================================================
