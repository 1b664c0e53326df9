------------------------------ MODULE KbdProofs -----------------------------
(***************************************************************************)
(* Proofs about Kbd, for every size of the ring and of the line.           *)
(***************************************************************************)
EXTENDS Kbd, SequenceTheorems, TLAPS

Index == 0 .. KBUF - 1

TypeInv == /\ buf \in [Index -> Chars]
           /\ head \in Index /\ tail \in Index /\ slot \in Index
           /\ shift \in BOOLEAN /\ caps \in BOOLEAN /\ ctrl \in BOOLEAN
           /\ pc \in {"poll", "nonempty", "read", "advanced", "return"}
           /\ got \in Chars /\ due \in Chars
           /\ len \in Nat /\ rx \in BOOLEAN

\* What the console knows between its accesses.  Before it stores the new tail
\* the ring is not empty and slot is its front; after that slot is the one that
\* stays empty, which the interrupt does not write: the ring counts as full when
\* head gets there.
ReaderInv == /\ pc \in {"nonempty", "read"} => head # tail /\ slot = tail
             /\ pc = "read" => got = buf[slot]
             /\ pc = "advanced" => tail = (slot + 1) % KBUF /\ due = buf[slot]

IInv == TypeInv /\ LineFits /\ ReaderInv /\ RightCharacter

\* The indices of the ring wrap at most once.
LEMMA Wrap ==
    ASSUME NEW a \in 0 .. 2 * KBUF - 1
    PROVE  a % KBUF = IF a < KBUF THEN a ELSE a - KBUF
BY KBUFAssumption

\* An index of the ring wraps to 0 and stays an index.
LEMMA NextIndex ==
    ASSUME NEW i \in Index
    PROVE  /\ (i + 1) % KBUF = IF i + 1 = KBUF THEN 0 ELSE i + 1
           /\ (i + 1) % KBUF \in Index
<1>1. i + 1 \in 0 .. 2 * KBUF - 1
  BY KBUFAssumption DEF Index
<1> QED
  BY <1>1, Wrap, KBUFAssumption DEF Index

\* What push gets is a character of the tables.
LEMMA Translated ==
    ASSUME NEW k \in Keys
    PROVE  Translate(k) \in Chars /\ CtrlC \in Chars
BY KeysAssumption DEF Translate, Chars

\* A push that is not refused writes the slot at head, which is not the one the
\* console still has to read.
LEMMA PushCases ==
    ASSUME IInv, NEW c \in Chars, push(c)
    PROVE  \/ UNCHANGED ringVars
           \/ /\ ~Full
              /\ buf' = [buf EXCEPT ![head] = c] /\ buf' \in [Index -> Chars]
              /\ head' = (head + 1) % KBUF /\ head' \in Index /\ head' # tail
              /\ tail' = tail
<1>1. CASE Full
  BY <1>1 DEF push
<1>2. CASE ~Full
  <2>1. head \in Index /\ buf \in [Index -> Chars]
    BY DEF IInv, TypeInv
  <2>2. (head + 1) % KBUF \in Index
    BY <2>1, NextIndex
  <2> QED
    BY <1>2, <2>1, <2>2 DEF push, Full
<1> QED
  BY <1>1, <1>2

\* The keyboard and the line start empty.
LEMMA InitIInv == Init => IInv
<1> SUFFICES ASSUME Init PROVE IInv
  OBVIOUS
<1>1. NUL \in Chars
  BY DEF Chars, plain, AllKeys, NUL
<1>2. 0 \in Index
  BY KBUFAssumption DEF Index
<1>3. TypeInv
  BY <1>1, <1>2, Zenon DEF Init, TypeInv, Index
<1> QED
  BY <1>3, LineMaxAssumption DEF IInv, Init, LineFits, ReaderInv, RightCharacter

\* A key press: the character goes into the ring or is dropped.
LEMMA PushKeeps ==
    ASSUME IInv, NEW c \in Chars, push(c), UNCHANGED <<modVars, getVars, len, rx>>
    PROVE  IInv'
<1> USE DEF modVars, getVars, ringVars
<1>1. CASE UNCHANGED ringVars
  BY <1>1 DEF IInv, TypeInv, LineFits, ReaderInv, RightCharacter
<1>2. CASE ~UNCHANGED ringVars
  <2>1. /\ ~Full
        /\ buf' = [buf EXCEPT ![head] = c] /\ buf' \in [Index -> Chars]
        /\ head' = (head + 1) % KBUF /\ head' \in Index /\ head' # tail
        /\ tail' = tail
    BY <1>2, PushCases
  <2>2. TypeInv'
    BY <2>1 DEF IInv, TypeInv
  <2>3. pc \in {"read", "advanced"} => buf'[slot] = buf[slot]
    <3>1. pc = "read" => slot # head
      BY DEF IInv, ReaderInv
    <3>2. pc = "advanced" => slot # head
      BY <2>1 DEF IInv, ReaderInv, Full
    <3> QED
      BY <2>1, <3>1, <3>2 DEF IInv, TypeInv
  <2>4. ReaderInv'
    BY <2>1, <2>3 DEF IInv, ReaderInv
  <2> QED
    BY <2>2, <2>4 DEF IInv, LineFits, RightCharacter
<1> QED
  BY <1>1, <1>2

\* kbd_irq keeps the invariant, wherever it interrupts the reader.
LEMMA IrqKeeps == IInv /\ kbd_irq => IInv'
<1> SUFFICES ASSUME IInv, kbd_irq PROVE IInv'
  OBVIOUS
<1>1. ASSUME NEW k \in Keys, KeyDown(k) PROVE IInv'
  <2>1. CASE UNCHANGED ringVars
    BY <1>1, <2>1 DEF KeyDown, IInv, TypeInv, LineFits, ReaderInv, RightCharacter,
                      ringVars, modVars, getVars
  <2>2. CASE push(CtrlC) \/ push(Translate(k))
    <3>1. UNCHANGED <<modVars, getVars, len, rx>>
      BY <1>1 DEF KeyDown
    <3> QED
      BY <2>2, <3>1, Translated, PushKeeps
  <2> QED
    BY <1>1, <2>1, <2>2 DEF KeyDown
<1>2. ASSUME NEW m \in Modifiers, NEW release \in BOOLEAN, Modifier(m, release) PROVE IInv'
  <2>1. UNCHANGED <<buf, head, tail, pc, slot, got, due, len, rx>>
    BY <1>2 DEF Modifier, ringVars, getVars
  <2>2. shift' \in BOOLEAN /\ caps' \in BOOLEAN /\ ctrl' \in BOOLEAN
    BY <1>2, Zenon DEF Modifier, IInv, TypeInv
  <2> QED
    BY <2>1, <2>2 DEF IInv, TypeInv, LineFits, ReaderInv, RightCharacter
<1> QED
  BY <1>1, <1>2 DEF kbd_irq

\* The line editor leaves room for the terminating 0.
LEMMA EditedFits ==
    ASSUME len \in Nat, LineFits, NEW c \in Chars
    PROVE  Edited(c) \in Nat /\ Edited(c) < LineMax
BY LineMaxAssumption DEF LineFits, Edited, Accepts

\* Every step of the interrupt handler and of the console keeps the invariant.
LEMMA NextIInv == IInv /\ [Next]_vars => IInv'
<1> SUFFICES ASSUME IInv, [Next]_vars PROVE IInv'
  OBVIOUS
<1> USE DEF ringVars, modVars, getVars
<1>1. TypeInv /\ LineFits /\ ReaderInv /\ RightCharacter
  BY DEF IInv
<1>2. CASE kbd_irq
  BY <1>2, IrqKeeps
<1>3. CASE serial_arrives
  BY <1>1, <1>3 DEF serial_arrives, IInv, TypeInv, LineFits, ReaderInv, RightCharacter
<1>4. CASE getc_check
  BY <1>1, <1>4 DEF getc_check, NonEmpty, IInv, TypeInv, LineFits, ReaderInv, RightCharacter
<1>5. CASE getc_advance
  <2>1. tail' \in Index
    BY <1>1, <1>5, NextIndex DEF getc_advance, NextTail, TypeInv
  <2>2. TypeInv'
    BY <1>1, <1>5, <2>1 DEF getc_advance, TypeInv
  <2> QED
    BY <1>1, <1>5, <2>2 DEF getc_advance, NextTail, IInv, LineFits, ReaderInv, RightCharacter
<1>6. CASE getc_read
  <2>1. TypeInv'
    BY <1>1, <1>6 DEF getc_read, TypeInv
  <2> QED
    BY <1>1, <1>6, <2>1 DEF getc_read, IInv, LineFits, ReaderInv, RightCharacter
<1>7. CASE console_key
  <2>1. len' \in Nat /\ len' < LineMax
    BY <1>1, <1>7, EditedFits DEF console_key, TypeInv
  <2>2. NUL \in Chars /\ 0 \in Index
    BY KBUFAssumption DEF Chars, plain, AllKeys, NUL, Index
  <2> QED
    BY <1>1, <1>7, <2>1, <2>2
       DEF console_key, IInv, TypeInv, LineFits, ReaderInv, RightCharacter
<1>8. CASE console_serial
  <2>1. len' \in Nat /\ len' < LineMax
    BY <1>1, <1>8, EditedFits DEF console_serial, TypeInv
  <2> QED
    BY <1>1, <1>8, <2>1, Zenon DEF console_serial, IInv, TypeInv, LineFits, ReaderInv, RightCharacter
<1>9. CASE UNCHANGED vars
  BY <1>1, <1>9 DEF vars, IInv, TypeInv, LineFits, ReaderInv, RightCharacter
<1> QED
  BY <1>2, <1>3, <1>4, <1>5, <1>6, <1>7, <1>8, <1>9 DEF Next, Console

\* Indices, the character in hand and the line are right, always.
THEOREM Invariance == Spec => []IInv
BY InitIInv, NextIInv, PTL DEF Spec

\* The length of the line being edited stays below LINE_MAX, whatever comes from
\* the keyboard and the serial port (console_thread).
THEOREM LineInBounds == Spec => []LineFits
BY Invariance, PTL DEF IInv

\* kbd_getc_nonblock returns the character at the front of the ring, in both
\* orders of its accesses and with an interrupt between any two of them.
THEOREM CharacterCorrect == Spec => []RightCharacter
BY Invariance, PTL DEF IInv

-----------------------------------------------------------------------------
(* The ring implements BoundedFifo *)

\* The i-th character from the front.
At(i) == (tail + i - 1) % KBUF

\* The number of characters in the ring and where they lie, without the modulus.
RingShape == /\ Count = IF head >= tail THEN head - tail ELSE head + KBUF - tail
             /\ Count \in Nat /\ Count < KBUF
             /\ \A i \in 1 .. KBUF : /\ At(i) = IF tail + i - 1 < KBUF THEN tail + i - 1
                                                ELSE tail + i - 1 - KBUF
                                     /\ At(i) \in Index

\* The ring holds the characters from tail up to head.
LEMMA RingHasShape == TypeInv => RingShape
<1> SUFFICES ASSUME TypeInv PROVE RingShape
  OBVIOUS
<1>1. head \in Index /\ tail \in Index
  BY DEF TypeInv
<1>2. head + KBUF - tail \in 0 .. 2 * KBUF - 1
  BY <1>1, KBUFAssumption DEF Index
<1>3. \A i \in 1 .. KBUF : tail + i - 1 \in 0 .. 2 * KBUF - 1
  BY <1>1, KBUFAssumption DEF Index
<1>4. Count = IF head >= tail THEN head - tail ELSE head + KBUF - tail
  BY <1>1, <1>2, Wrap, KBUFAssumption DEF Count, Index
<1>5. ASSUME NEW i \in 1 .. KBUF
      PROVE  At(i) = IF tail + i - 1 < KBUF THEN tail + i - 1 ELSE tail + i - 1 - KBUF
  <2> DEFINE a == tail + i - 1
  <2>1. a \in 0 .. 2 * KBUF - 1
    BY <1>3
  <2> HIDE DEF a
  <2>2. a % KBUF = IF a < KBUF THEN a ELSE a - KBUF
    BY <2>1, Wrap
  <2> QED
    BY <1>1, <2>2, KBUFAssumption DEF At, a, Index
<1>6. ASSUME NEW i \in 1 .. KBUF
      PROVE  At(i) \in Index
  BY <1>1, <1>5, KBUFAssumption DEF Index
<1> QED
  BY <1>1, <1>4, <1>5, <1>6, KBUFAssumption DEF Index, RingShape

ContentsShape == /\ Contents \in Seq(Chars) /\ Len(Contents) = Count
                 /\ \A i \in 1 .. Count : Contents[i] = buf[At(i)]

\* The abstract contents are those characters, in order.
LEMMA ContentsHasShape == TypeInv => ContentsShape
<1> SUFFICES ASSUME TypeInv PROVE ContentsShape
  OBVIOUS
<1>1. Count \in Nat /\ Count < KBUF /\ \A i \in 1 .. KBUF : At(i) \in Index
  BY RingHasShape DEF RingShape
<1>2. \A i \in 1 .. Count : buf[At(i)] \in Chars
  BY <1>1, KBUFAssumption DEF TypeInv
<1> QED
  BY <1>1, <1>2 DEF ContentsShape, Contents, At

\* Two sequences with the same length and elements are equal.
LEMMA SameSequence ==
    ASSUME NEW S, NEW s \in Seq(S), NEW t \in Seq(S), Len(s) = Len(t),
           \A i \in 1 .. Len(s) : s[i] = t[i]
    PROVE  s = t
OBVIOUS

\* The ring starts as an empty queue.
LEMMA InitRefines == Init => Fifo!Init
<1> SUFFICES ASSUME Init PROVE Contents = << >>
  BY DEF Fifo!Init
<1>1. TypeInv
  BY InitIInv DEF IInv
<1>2. Count = 0
  BY <1>1, RingHasShape, KBUFAssumption DEF RingShape, Init
<1> QED
  BY <1>1, <1>2, ContentsHasShape DEF ContentsShape

\* A push that is not refused appends.
LEMMA PushRefines ==
    ASSUME IInv, IInv', NEW c \in Chars, push(c)
    PROVE  (\E d \in Chars : Fifo!Put(d)) \/ UNCHANGED Contents
<1>1. CASE UNCHANGED ringVars
  BY <1>1 DEF ringVars, Contents, Count
<1>2. CASE ~UNCHANGED ringVars
  <2>1. /\ (head + 1) % KBUF # tail
        /\ buf' = [buf EXCEPT ![head] = c]
        /\ head' = (head + 1) % KBUF /\ tail' = tail
    BY <1>2, PushCases DEF Full
  <2>2. /\ head \in Index /\ tail \in Index /\ buf \in [Index -> Chars]
    BY DEF IInv, TypeInv
  <2>0. RingShape /\ RingShape' /\ ContentsShape /\ ContentsShape'
    BY RingHasShape, ContentsHasShape, PTL DEF IInv
  <2>3. head' = IF head + 1 = KBUF THEN 0 ELSE head + 1
    BY <2>1, <2>2, NextIndex
  <2>4. /\ Count = IF head >= tail THEN head - tail ELSE head + KBUF - tail
        /\ Count' = IF head' >= tail' THEN head' - tail' ELSE head' + KBUF - tail'
        /\ Count \in Nat
    BY <2>0 DEF RingShape
  <2>5. Count < KBUF - 1 /\ Count' = Count + 1
    BY <2>1, <2>2, <2>3, <2>4, KBUFAssumption DEF Index
  <2>6. \A i \in 1 .. KBUF : At(i) = IF tail + i - 1 < KBUF THEN tail + i - 1
                                     ELSE tail + i - 1 - KBUF
    BY <2>0 DEF RingShape
  <2>7. /\ \A i \in 1 .. Count : At(i) # head
        /\ At(Count + 1) = head
    BY <2>2, <2>4, <2>5, <2>6, KBUFAssumption DEF Index
  <2>8. \A i : At(i)' = At(i)
    BY <2>1 DEF At
  <2> DEFINE s == Contents
             t == Contents'
  <2>9. /\ s \in Seq(Chars) /\ Len(s) = Count /\ \A i \in 1 .. Count : s[i] = buf[At(i)]
    BY <2>0 DEF ContentsShape
  <2>10. /\ t \in Seq(Chars) /\ Len(t) = Count + 1
         /\ \A i \in 1 .. Count + 1 : t[i] = buf'[At(i)]
    BY <2>0, <2>5, <2>8 DEF ContentsShape
  <2> HIDE DEF s, t
  <2>11. \A i \in 1 .. Count : At(i) \in Index /\ t[i] = s[i]
    <3> SUFFICES ASSUME NEW i \in 1 .. Count PROVE At(i) \in Index /\ t[i] = s[i]
      OBVIOUS
    <3>1. i \in 1 .. KBUF /\ i \in 1 .. Count + 1
      BY <2>4, <2>5, KBUFAssumption
    <3>2. At(i) \in Index /\ At(i) # head
      BY <2>0, <2>7, <3>1 DEF RingShape
    <3>3. t[i] = buf'[At(i)] /\ s[i] = buf[At(i)]
      BY <2>9, <2>10, <3>1
    <3> QED
      BY <2>1, <2>2, <3>2, <3>3
  <2>12. t[Count + 1] = c
    BY <2>1, <2>2, <2>4, <2>7, <2>10
  <2>13. t = Append(s, c)
    <3> DEFINE a == Append(s, c)
    <3>1. a \in Seq(Chars) /\ Len(a) = Count + 1 /\ a[Count + 1] = c
          /\ \A i \in 1 .. Count : a[i] = s[i]
      BY <2>4, <2>9
    <3> HIDE DEF a
    <3>2. \A i \in 1 .. Len(t) : t[i] = a[i]
      <4> SUFFICES ASSUME NEW i \in 1 .. Len(t) PROVE t[i] = a[i]
        OBVIOUS
      <4>1. i \in 1 .. Count \/ i = Count + 1
        BY <2>4, <2>10
      <4> QED
        BY <2>11, <2>12, <3>1, <4>1, Zenon
    <3>3. t = a
      BY <2>10, <3>1, <3>2, SameSequence
    <3> QED
      BY <3>3 DEF a
  <2>14. Len(s) < KBUF - 1
    BY <2>5, <2>9
  <2> QED
    BY <2>13, <2>14 DEF Fifo!Put, s, t
<1> QED
  BY <1>1, <1>2

\* Storing the new tail takes the front away.
LEMMA AdvanceRefines ==
    ASSUME IInv, IInv', getc_advance
    PROVE  Fifo!Get
<1>0. RingShape /\ RingShape' /\ ContentsShape /\ ContentsShape'
  BY RingHasShape, ContentsHasShape, PTL DEF IInv
<1>1. /\ head \in Index /\ tail \in Index /\ head # tail
      /\ tail' = (tail + 1) % KBUF /\ head' = head /\ buf' = buf
  BY DEF IInv, TypeInv, ReaderInv, getc_advance, NextTail
<1>2. tail' = IF tail + 1 = KBUF THEN 0 ELSE tail + 1
  BY <1>1, NextIndex
<1>3. /\ Count = IF head >= tail THEN head - tail ELSE head + KBUF - tail
      /\ Count' = IF head' >= tail' THEN head' - tail' ELSE head' + KBUF - tail'
      /\ Count \in Nat /\ Count < KBUF
  BY <1>0 DEF RingShape
<1>4. Count > 0 /\ Count' = Count - 1
  BY <1>1, <1>2, <1>3, KBUFAssumption DEF Index
<1>5. \A i \in 1 .. Count - 1 : At(i)' = At(i + 1)
  <2> SUFFICES ASSUME NEW i \in 1 .. Count - 1 PROVE At(i)' = At(i + 1)
    OBVIOUS
  <2>1. i \in 1 .. KBUF /\ i + 1 \in 1 .. KBUF
    BY <1>3, KBUFAssumption
  <2>2. At(i + 1) = IF tail + i < KBUF THEN tail + i ELSE tail + i - KBUF
    <3>1. At(i + 1) = IF tail + (i + 1) - 1 < KBUF THEN tail + (i + 1) - 1
                                                   ELSE tail + (i + 1) - 1 - KBUF
      BY <1>0, <2>1 DEF RingShape
    <3> QED
      BY <1>1, <3>1, KBUFAssumption DEF Index
  <2>3. At(i)' = IF tail' + i - 1 < KBUF THEN tail' + i - 1 ELSE tail' + i - 1 - KBUF
    BY <1>0, <2>1 DEF RingShape
  <2> QED
    BY <1>1, <1>2, <1>3, <2>1, <2>2, <2>3, KBUFAssumption DEF Index
<1> DEFINE s == Contents
           t == Contents'
<1>6. s \in Seq(Chars) /\ Len(s) = Count /\ \A i \in 1 .. Count : s[i] = buf[At(i)]
  BY <1>0 DEF ContentsShape
<1>7. /\ t \in Seq(Chars) /\ Len(t) = Count - 1
      /\ \A i \in 1 .. Count - 1 : t[i] = buf[At(i)']
  BY <1>0, <1>1, <1>4 DEF ContentsShape
<1> HIDE DEF s, t
<1>8. \A i \in 1 .. Count - 1 : t[i] = s[i + 1]
  <2> SUFFICES ASSUME NEW i \in 1 .. Count - 1 PROVE t[i] = s[i + 1]
    OBVIOUS
  <2>1. i + 1 \in 1 .. Count
    BY <1>3
  <2> QED
    BY <1>5, <1>6, <1>7, <2>1, Zenon
<1>9. s # << >> /\ t = Tail(s)
  <2> DEFINE a == Tail(s)
  <2>1. /\ s # << >> /\ a \in Seq(Chars) /\ Len(a) = Count - 1
        /\ \A i \in 1 .. Count - 1 : a[i] = s[i + 1]
    BY <1>3, <1>4, <1>6
  <2> HIDE DEF a
  <2>2. t = a
    BY <1>7, <1>8, <2>1, SameSequence, Zenon
  <2> QED
    BY <2>1, <2>2 DEF a
<1> QED
  BY <1>9 DEF Fifo!Get, s, t

\* Every step is a step of the bounded queue or leaves its contents alone.
LEMMA StepRefines == IInv /\ IInv' /\ [Next]_vars => Fifo!Next \/ UNCHANGED Contents
<1> SUFFICES ASSUME IInv, IInv', [Next]_vars PROVE Fifo!Next \/ UNCHANGED Contents
  OBVIOUS
<1>1. CASE UNCHANGED ringVars
  BY <1>1 DEF ringVars, Contents, Count
<1>2. CASE kbd_irq
  <2>1. ASSUME NEW k \in Keys, KeyDown(k) PROVE Fifo!Next \/ UNCHANGED Contents
    <3>1. CASE push(CtrlC) \/ push(Translate(k))
      BY <3>1, Translated, PushRefines DEF Fifo!Next
    <3> QED
      BY <1>1, <2>1, <3>1 DEF KeyDown
  <2>2. ASSUME NEW m \in Modifiers, NEW release \in BOOLEAN, Modifier(m, release)
        PROVE  UNCHANGED ringVars
    BY <2>2 DEF Modifier, ringVars
  <2> QED
    BY <1>1, <1>2, <2>1, <2>2 DEF kbd_irq
<1>3. CASE getc_advance
  BY <1>3, AdvanceRefines DEF Fifo!Next
<1>4. CASE serial_arrives \/ getc_check \/ getc_read \/ console_key \/ console_serial
  BY <1>1, <1>4 DEF serial_arrives, getc_check, getc_read, console_key, console_serial, ringVars
<1>5. CASE UNCHANGED vars
  BY <1>1, <1>5 DEF vars, ringVars
<1> QED
  BY <1>2, <1>3, <1>4, <1>5 DEF Next, Console

\* Ring, interrupt handler and reader together are a bounded queue, for every
\* size of the ring: no character is lost once it is in, duplicated, reordered or
\* overwritten.
THEOREM Refinement == Spec => ImplementsFifo
BY InitRefines, StepRefines, Invariance, PTL DEF Spec, ImplementsFifo, Fifo!Spec

=============================================================================
