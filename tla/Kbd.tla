--------------------------------- MODULE Kbd --------------------------------
(***************************************************************************)
(* The PS/2 keyboard driver, kernel/drivers/kbd.c, and the line editor of  *)
(* the console thread that empties its buffer, kernel/core/console.c.      *)
(*                                                                         *)
(* IRQ1 may interrupt the console between any two accesses to head, tail   *)
(* and buf; the handler itself runs to its end.  head and tail are         *)
(* volatile and buf is not, so the compiler may read buf[tail] before or   *)
(* after it stores the new tail: both orders are modelled.                 *)
(***************************************************************************)
EXTENDS Naturals, Sequences

CONSTANTS KBUF,      \* size of the ring
          LineMax,   \* LINE_MAX
          Keys       \* the keys that are pressed

ASSUME KBUFAssumption == KBUF \in Nat /\ KBUF > 1
ASSUME LineMaxAssumption == LineMax \in Nat \ {0}

VARIABLES buf, head, tail,     \* the ring
          shift, caps, ctrl,   \* the modifiers
          pc,                  \* where the console is in kbd_getc_nonblock
          slot,                \* the tail it has read, for the access to buf
          got,                 \* the character it returns
          due,                 \* the character the ring owed it
          len,                 \* length of the line being edited
          rx                   \* a character waits at the serial port

ringVars == <<buf, head, tail>>
modVars == <<shift, caps, ctrl>>
getVars == <<pc, slot, got, due>>
vars == <<ringVars, modVars, getVars, len, rx>>

\* AllKeys has one key for each way kbd_irq treats a make code: a letter, C (with Ctrl an
\* interrupt), a key with a shifted symbol, Enter, Backspace and a key that the
\* tables map to 0.
AllKeys == {"A", "C", "1", "Enter", "Back", "F1"}
ASSUME KeysAssumption == Keys \subseteq AllKeys

Modifiers == {"Shift", "Ctrl", "Caps"}

NUL == ""
plain == [k \in AllKeys |-> CASE k = "A" -> "a" [] k = "C" -> "c" [] k = "1" -> "1"
                           [] k = "Enter" -> "LF" [] k = "Back" -> "BS" [] OTHER -> NUL]
shifted == [k \in AllKeys |-> CASE k = "A" -> "A" [] k = "C" -> "C" [] k = "1" -> "!"
                             [] OTHER -> plain[k]]
CtrlC == "^C"
Chars == {plain[k] : k \in AllKeys} \cup {shifted[k] : k \in AllKeys} \cup {CtrlC}
Printable == Chars \ {NUL, "LF", "BS", CtrlC}

\* The state kbd_init leaves behind.
Init == /\ buf = [i \in 0 .. KBUF - 1 |-> NUL] /\ head = 0 /\ tail = 0
        /\ shift = FALSE /\ caps = FALSE /\ ctrl = FALSE
        /\ pc = "poll" /\ slot = 0 /\ got = NUL /\ due = NUL
        /\ len = 0 /\ rx = FALSE

-----------------------------------------------------------------------------
(* IRQ1 *)

Full_Never == FALSE

\* One slot stays empty.
Full == (head + 1) % KBUF = tail

push(c) == IF Full THEN UNCHANGED ringVars
                   ELSE /\ buf' = [buf EXCEPT ![head] = c]
                        /\ head' = (head + 1) % KBUF
                        /\ UNCHANGED tail

\* The two corrections after the table look-up never apply: shift XOR caps has
\* chosen the right case already.
Translate(k) == IF shift # caps THEN shifted[k] ELSE plain[k]

KeyDown(k) ==
    /\ IF ctrl /\ k = "C" THEN push(CtrlC)
       ELSE IF Translate(k) # NUL THEN push(Translate(k))
       ELSE UNCHANGED ringVars
    /\ UNCHANGED <<modVars, getVars, len, rx>>

\* Releases matter for Shift and Ctrl only.
Modifier(m, release) ==
    /\ shift' = IF m = "Shift" THEN ~release ELSE shift
    /\ ctrl' = IF m = "Ctrl" THEN ~release ELSE ctrl
    /\ caps' = IF m = "Caps" /\ ~release THEN ~caps ELSE caps
    /\ UNCHANGED <<ringVars, getVars, len, rx>>

kbd_irq == \/ \E k \in Keys : KeyDown(k)
           \/ \E m \in Modifiers, release \in BOOLEAN : Modifier(m, release)

-----------------------------------------------------------------------------
(* kbd_getc_nonblock, one access to the ring per step *)

NonEmpty_NoWrap == head > tail

NonEmpty == head # tail

\* The console asks the keyboard only when the serial port has nothing.
getc_check ==
    /\ pc = "poll" /\ ~rx /\ NonEmpty
    /\ pc' = "nonempty"
    /\ slot' = tail
    /\ UNCHANGED <<ringVars, modVars, got, due, len, rx>>

NextTail_Twice == (tail + 2) % KBUF

NextTail == (tail + 1) % KBUF

getc_advance ==
    /\ pc \in {"nonempty", "read"}
    /\ tail' = NextTail
    /\ due' = buf[tail]
    /\ pc' = IF pc = "read" THEN "return" ELSE "advanced"
    /\ UNCHANGED <<buf, head, modVars, slot, got, len, rx>>

getc_read ==
    /\ pc \in {"nonempty", "advanced"}
    /\ got' = buf[slot]
    /\ pc' = IF pc = "advanced" THEN "return" ELSE "read"
    /\ UNCHANGED <<ringVars, modVars, slot, due, len, rx>>

-----------------------------------------------------------------------------
(* console_thread: one character *)

Accepts_OneMore == len < LineMax

\* Room for the character and for the terminating 0.
Accepts == len + 1 < LineMax

Edited(c) == IF c \in {"LF", CtrlC} THEN 0
             ELSE IF c = "BS" THEN (IF len > 0 THEN len - 1 ELSE 0)
             ELSE IF c \in Printable /\ Accepts THEN len + 1
             ELSE len

console_key ==
    /\ pc = "return"
    /\ len' = Edited(got)
    /\ pc' = "poll" /\ slot' = 0 /\ got' = NUL /\ due' = NUL
    /\ UNCHANGED <<ringVars, modVars, rx>>

console_serial ==
    /\ pc = "poll" /\ rx
    /\ \E c \in Chars : len' = Edited(c)
    /\ rx' = FALSE
    /\ UNCHANGED <<ringVars, modVars, getVars>>

\* The other end of the serial line sends.
serial_arrives == ~rx /\ rx' = TRUE /\ UNCHANGED <<ringVars, modVars, getVars, len>>

-----------------------------------------------------------------------------

Console == getc_check \/ getc_advance \/ getc_read \/ console_key \/ console_serial

Next == kbd_irq \/ serial_arrives \/ Console

Spec == Init /\ [][Next]_vars

\* The console goes on polling; nobody has to press a key.
FairSpec == Spec /\ WF_vars(Console)

-----------------------------------------------------------------------------
(* Properties *)

\* The terminating 0 that Enter stores at line[len] lies inside line.
LineFits == len < LineMax

Count == (head + KBUF - tail) % KBUF

Contents == [i \in 1 .. Count |-> buf[(tail + i - 1) % KBUF]]

Fifo == INSTANCE BoundedFifo WITH Capacity <- KBUF - 1, queue <- Contents

\* Whatever the interrupt does between the console's accesses, the ring behaves
\* as a queue: no character is duplicated, reordered or overwritten.
ImplementsFifo == Fifo!Spec

\* The console gets the character that was at the front of the queue, also when
\* the compiler reads the slot after it has been given back.
RightCharacter == pc = "return" => got = due

\* What has been typed is read, unless the serial port keeps the console busy.
EventuallyRead == (head # tail) ~> (pc = "return" \/ rx)

=============================================================================
