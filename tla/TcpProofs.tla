------------------------------ MODULE TcpProofs -----------------------------
(***************************************************************************)
(* Proofs about Tcp, for every size of the buffers, every limit of the     *)
(* polling loops, every first sequence number and every answer shorter     *)
(* than the sequence space.                                                *)
(***************************************************************************)
EXTENDS Tcp, SequenceTheorems, TLAPS

Units == Nat \X Nat

Conns == [state : {"CLOSED", "SYN_SENT", "EST", "CLOSE_WAIT"}, port : Nat, rcv_nxt : Nat,
          rx : Seq(Units), synack : BOOLEAN, fin : BOOLEAN]

TypeInv == /\ stream_len \in StreamLens /\ conn \in Conns
           /\ sent \in SUBSET ({"SYN", "GET"} \X Nat)
           /\ pc \in {"idle", "resolve", "connect", "send", "settle", "recv", "recv_check",
                      "close", "done"}
           /\ attempt \in Nat /\ left \in Nat /\ idle \in Nat
           /\ total \in Seq(Units) /\ result \in Seq(Units)
           /\ Len(total) <= MaxLen

\* s is the units after the first l of a stream.
Run(s, port, l) == \A i \in 1 .. Len(s) : s[i] = Unit(port, l + i)

\* The units of t and then those in rx_data are the first ones of the stream.
InOrder(c, t) == /\ Len(t) + Len(c.rx) <= stream_len
                 /\ Run(t, c.port, 0) /\ Run(c.rx, c.port, Len(t))

\* The connection after the units of t were taken from it, f having gone wrong.
\* rcv_nxt is the number of the next unit, or the one after the FIN.
Good(c, t, f) ==
    /\ Len(c.rx) <= RxSize
    /\ c.state \in {"CLOSED", "SYN_SENT"} => c.rx = << >> /\ ~c.fin
    /\ "overflow" \notin f => InOrder(c, t)
    /\ "overflow" \notin f /\ c.state \in {"EST", "CLOSE_WAIT"} =>
          c.rcv_nxt \in {Number(Len(t) + Len(c.rx) + 1), Number(stream_len + 2)}
    /\ c.fin /\ f \cap {"overflow", "gap"} = {} => Len(t) + Len(c.rx) = stream_len

\* Where http_get is tells what state the connection is in.
CallInv == /\ pc \in {"idle", "resolve", "connect", "send", "settle"} => total = << >>
           /\ pc \in {"idle", "resolve", "done"} => conn.state = "CLOSED"
           /\ pc = "connect" => conn.state = "SYN_SENT" /\ ~conn.synack
           /\ pc \in {"send", "settle", "recv", "recv_check", "close"} =>
                 conn.state \in {"EST", "CLOSE_WAIT"}
           /\ pc # "done" => result = << >>
           /\ pc = "close" /\ faults = {} => Len(total) = stream_len

IInv == TypeInv /\ CallInv /\ Good(conn, total, faults) /\ CompleteUnlessFault

-----------------------------------------------------------------------------
(* Arithmetic modulo the size of the sequence space *)

\* Division with remainder exists.
LEMMA Divided ==
    ASSUME NEW K \in Nat \ {0}, NEW a \in Nat
    PROVE  \E q \in Nat, r \in 0 .. K - 1 : a = K * q + r /\ r = a % K
<1>1. a \div K \in Nat /\ a % K \in 0 .. K - 1 /\ a = K * (a \div K) + (a % K)
  OBVIOUS
<1> QED
  BY <1>1, Zenon

\* Division with remainder is unique.
LEMMA DivisionUnique ==
    ASSUME NEW K \in Nat \ {0}, NEW q \in Int, NEW r \in 0 .. K - 1,
           NEW s \in Int, NEW t \in 0 .. K - 1, K * q + r = K * s + t
    PROVE  q = s /\ r = t
<1>1. K * (q - s) = t - r
  OBVIOUS
<1>2. ASSUME q - s >= 1 PROVE FALSE
  <2>1. K * (q - s) >= K
    BY <1>2
  <2> QED
    BY <1>1, <2>1
<1>3. ASSUME q - s <= -1 PROVE FALSE
  <2>1. K * (q - s) <= -K
    BY <1>3
  <2> QED
    BY <1>1, <2>1
<1> QED
  BY <1>1, <1>2, <1>3

\* Numbers less than K apart have different remainders.
LEMMA RemainderDiffers ==
    ASSUME NEW K \in Nat \ {0}, NEW a \in Nat, NEW b \in Nat, a < b, b - a < K
    PROVE  a % K # b % K
<1> SUFFICES ASSUME a % K = b % K PROVE FALSE
  OBVIOUS
<1>1. PICK q \in Nat, r \in 0 .. K - 1 : a = K * q + r /\ r = a % K
  BY Divided, Zenon
<1>2. PICK s \in Nat, t \in 0 .. K - 1 : b = K * s + t /\ t = b % K
  BY Divided, Zenon
<1>3. K * (s - q) + 0 = K * 0 + (b - a)
  BY <1>1, <1>2
<1> QED
  BY <1>3, DivisionUnique

\* The remainder of a sum, taken in two steps.
LEMMA RemainderOfSum ==
    ASSUME NEW K \in Nat \ {0}, NEW a \in Nat, NEW n \in Nat
    PROVE  ((a % K) + n) % K = (a + n) % K
<1>1. PICK q \in Nat, u \in 0 .. K - 1 : a = K * q + u /\ u = a % K
  BY Divided
<1>2. PICK x \in Nat, r \in 0 .. K - 1 : u + n = K * x + r /\ r = (u + n) % K
  <2>1. u + n \in Nat
    OBVIOUS
  <2> QED
    BY <2>1, Divided
<1>3. PICK y \in Nat, t \in 0 .. K - 1 : a + n = K * y + t /\ t = (a + n) % K
  <2>1. a + n \in Nat
    OBVIOUS
  <2> QED
    BY <2>1, Divided, Zenon
<1>4. K * (q + x) + r = K * y + t
  <2>1. K * (q + x) = K * q + K * x
    OBVIOUS
  <2>2. K * q \in Nat /\ K * x \in Nat /\ K * y \in Nat
    OBVIOUS
  <2>3. a = K * q + u /\ u + n = K * x + r /\ a + n = K * y + t
    BY <1>1, <1>2, <1>3
  <2> QED
    BY <2>1, <2>2, <2>3
<1>5. r = t
  BY <1>4, DivisionUnique
<1> QED
  BY <1>1, <1>2, <1>3, <1>5, Zenon

\* The constants of the sequence numbers have their types.
LEMMA SeqSpaceType == SeqSpace \in Nat \ {0} /\ ISS \in Nat
BY TcpAssumption

\* The numbers of a stream and of what surrounds it do not wrap onto each other.
LEMMA StreamFits ==
    ASSUME NEW len \in StreamLens PROVE len \in Nat \ {0} /\ len + 2 < SeqSpace
BY TcpAssumption

\* A sequence number is a natural number.
LEMMA NumberType == ASSUME NEW i \in Nat PROVE Number(i) \in Nat
<1>1. ISS + i \in Nat
  BY SeqSpaceType
<1> QED
  BY <1>1, SeqSpaceType, Divided DEF Number

\* Two units of a stream, or its end, have different numbers.
LEMMA NumberDiffers ==
    ASSUME NEW i \in Nat, NEW j \in Nat, i # j, i < j + SeqSpace, j < i + SeqSpace
    PROVE  Number(i) # Number(j)
<1>1. ISS + i \in Nat /\ ISS + j \in Nat
  BY SeqSpaceType
<1>2. CASE i < j
  <2>1. ISS + i < ISS + j /\ (ISS + j) - (ISS + i) < SeqSpace
    BY <1>2, SeqSpaceType
  <2> QED
    BY <1>1, <2>1, SeqSpaceType, RemainderDiffers, Zenon DEF Number
<1>3. CASE j < i
  <2>1. ISS + j < ISS + i /\ (ISS + i) - (ISS + j) < SeqSpace
    BY <1>3, SeqSpaceType
  <2> QED
    BY <1>1, <2>1, SeqSpaceType, RemainderDiffers, Zenon DEF Number
<1> QED
  BY <1>2, <1>3

\* Advancing a sequence number advances the position in the stream.
LEMMA NumberAdd ==
    ASSUME NEW i \in Nat, NEW n \in Nat
    PROVE  (Number(i) + n) % SeqSpace = Number(i + n)
<1> DEFINE a == ISS + i
<1>1. a \in Nat /\ a + n = ISS + (i + n)
  BY SeqSpaceType
<1>2. Number(i) = a % SeqSpace /\ Number(i + n) = (a + n) % SeqSpace
  BY <1>1 DEF Number
<1> HIDE DEF a
<1>3. ((a % SeqSpace) + n) % SeqSpace = (a + n) % SeqSpace
  <2> USE <1>1, SeqSpaceType
  <2> QED
    BY RemainderOfSum, Zenon
<1> QED
  BY <1>2, <1>3

-----------------------------------------------------------------------------
(* A segment *)

\* The minimum of two numbers.
LEMMA MinOfTwo ==
    ASSUME NEW a \in Int, NEW b \in Int
    PROVE  Min({a, b}) = IF a <= b THEN a ELSE b
BY DEF Min

\* Units first .. first + n - 1 of the stream under their number; or the SYN.
OfStream(seg, first, n) ==
    /\ first \in 0 .. stream_len + 1 /\ n \in 0 .. stream_len
    /\ seg.seq = Number(first) /\ seg.data \in Seq(Units) /\ Len(seg.data) = n
    /\ Run(seg.data, seg.port, first - 1)
    /\ seg.syn => first = 0 /\ n = 0 /\ ~seg.fin
    /\ ~seg.syn => first > 0
    /\ first + n <= stream_len + 1
    /\ seg.fin => first + n = stream_len + 1

\* What the network may deliver.
LEMMA FrameShape ==
    ASSUME TypeInv, NEW seg \in Frames
    PROVE  \E first, n \in Nat : OfStream(seg, first, n)
<1>1. stream_len \in Nat \ {0}
  BY TcpAssumption DEF TypeInv
<1>2. ASSUME NEW port \in Nat, NEW syn \in BOOLEAN, NEW fin \in BOOLEAN,
             NEW first \in 0 .. stream_len + 1, NEW n \in 0 .. stream_len,
             syn => first = 0 /\ n = 0 /\ ~fin,
             ~syn => first > 0,
             first + n <= stream_len + 1,
             fin => first + n = stream_len + 1,
             seg = Segment(port, syn, first, n, fin)
      PROVE  OfStream(seg, first, n)
  <2> DEFINE d == [k \in 1 .. n |-> Unit(port, first + k - 1)]
  <2>1. /\ seg.seq = Number(first) /\ seg.data = d
        /\ seg.syn = syn /\ seg.fin = fin /\ seg.port = port
    BY <1>2 DEF Segment
  <2>2. n \in Nat /\ \A k \in 1 .. n : Unit(port, first + k - 1) \in Units
    BY <1>1, <1>2 DEF Units, Unit
  <2>3. d \in Seq(Units) /\ Len(d) = n
    BY <2>2, IsASeq
  <2>4. Run(d, port, first - 1)
    <3>1. \A k \in 1 .. n : first + k - 1 = (first - 1) + k
      BY <1>1
    <3> QED
      BY <2>3, <3>1 DEF Run
  <2> HIDE DEF d
  <2> QED
    BY <1>2, <2>1, <2>3, <2>4 DEF OfStream
<1>3. ASSUME NEW s \in sent, seg = SynAck(s[2])
      PROVE  OfStream(seg, 0, 0)
  <2>1. s[2] \in Nat
    BY DEF TypeInv
  <2>2. 0 \in 0 .. stream_len + 1 /\ 0 \in 0 .. stream_len /\ 0 + 0 <= stream_len + 1
    BY <1>1
  <2> QED
    BY <1>2, <1>3, <2>1, <2>2, Zenon DEF SynAck
<1>4. ASSUME NEW s \in sent, NEW q \in Parts, seg = PartOf(s[2], q)
      PROVE  OfStream(seg, q.first, q.n)
  <2>1. s[2] \in Nat
    BY DEF TypeInv
  <2>2. PICK first \in 1 .. stream_len + 1, n \in 0 .. stream_len, fin \in BOOLEAN :
            /\ first = q.first /\ n = q.n /\ fin = q.fin
            /\ first + n <= stream_len + 1
            /\ fin => first + n = stream_len + 1
    BY DEF Parts
  <2>3. first \in 0 .. stream_len + 1 /\ first > 0
    BY <1>1, <2>2
  <2>4. seg = Segment(s[2], FALSE, first, n, fin)
    BY <1>4, <2>2 DEF PartOf
  <2>5. OfStream(seg, first, n)
    BY <1>2, <2>1, <2>2, <2>3, <2>4, Zenon
  <2> QED
    BY <2>2, <2>5
<1>5. (\E s \in sent : seg = SynAck(s[2])) \/ (\E s \in sent, q \in Parts : seg = PartOf(s[2], q))
  BY DEF Frames
<1>6. \A q \in Parts : q.first \in Nat /\ q.n \in Nat
  BY <1>1 DEF Parts
<1> QED
  BY <1>3, <1>4, <1>5, <1>6

-----------------------------------------------------------------------------
(* on_tcp *)

\* on_tcp ignores a segment, opens the connection or takes data and end.
LEMMA OnTcpCases ==
    ASSUME NEW c \in Conns, NEW seg
    PROVE  \/ on_tcp(c, seg) = c
           \/ /\ c.state = "SYN_SENT" /\ seg.port = c.port /\ seg.syn
              /\ on_tcp(c, seg) = [c EXCEPT !.state = "EST", !.synack = TRUE,
                                            !.rcv_nxt = (seg.seq + 1) % SeqSpace]
           \/ /\ c.state \in {"EST", "CLOSE_WAIT"} /\ seg.port = c.port
              /\ on_tcp(c, seg) = TakeFin(TakeData(c, seg), seg)
<1>1. CASE ~ForMe(c, seg)
  BY <1>1, Zenon DEF on_tcp
<1>2. CASE ForMe(c, seg) /\ c.state = "SYN_SENT"
  <2>1. on_tcp(c, seg) = IF seg.syn THEN [c EXCEPT !.state = "EST", !.synack = TRUE,
                                                   !.rcv_nxt = (seg.seq + 1) % SeqSpace]
                         ELSE c
    BY <1>2, Zenon DEF on_tcp
  <2> QED
    BY <1>2, <2>1, Zenon DEF ForMe
<1>3. CASE ForMe(c, seg) /\ c.state \in {"EST", "CLOSE_WAIT"}
  BY <1>3, Zenon DEF on_tcp, ForMe
<1>4. CASE ForMe(c, seg) /\ c.state = "CLOSED"
  BY <1>4, Zenon DEF on_tcp
<1> QED
  BY <1>1, <1>2, <1>3, <1>4 DEF Conns

\* What taking the data and the FIN of a segment does to an open connection: d
\* has m more units than c.
Taken(c, d, seg, first, n, m) ==
    /\ d.port = c.port /\ d.state \in {"EST", "CLOSE_WAIT"}
    /\ m \in 0 .. n /\ Len(d.rx) = Len(c.rx) + m /\ Len(d.rx) <= RxSize
    /\ \/ /\ n > 0 /\ c.rcv_nxt = Number(first)
          /\ d.rx = c.rx \o SubSeq(seg.data, 1, m)
          /\ d.rcv_nxt = Number(first + n)
       \/ /\ n = 0 \/ c.rcv_nxt # Number(first)
          /\ m = 0 /\ d.rx = c.rx
          /\ d.rcv_nxt \in {Number(stream_len + 2), c.rcv_nxt}

\* Appending the first m units to what was received.
LEMMA PrefixAppended ==
    ASSUME NEW S, NEW rx \in Seq(S), NEW data \in Seq(S), NEW m \in 0 .. Len(data)
    PROVE  /\ rx \o SubSeq(data, 1, m) \in Seq(S)
           /\ Len(rx \o SubSeq(data, 1, m)) = Len(rx) + m
<1>1. SubSeq(data, 1, m) \in Seq(S) /\ Len(SubSeq(data, 1, m)) = m
  OBVIOUS
<1> QED
  BY <1>1

\* What taking a segment of the stream does to the connection.
LEMMA TakeCases ==
    ASSUME NEW c \in Conns, Len(c.rx) <= RxSize, c.state \in {"EST", "CLOSE_WAIT"},
           stream_len \in StreamLens, NEW seg, NEW first \in Nat, NEW n \in Nat,
           OfStream(seg, first, n),
           NEW d, d = TakeFin(TakeData(c, seg), seg)
    PROVE  d \in Conns /\ \E m \in Nat : Taken(c, d, seg, first, n, m)
<1> DEFINE e == TakeData(c, seg)
<1>1. /\ seg.seq = Number(first) /\ seg.data \in Seq(Units) /\ Len(seg.data) = n
      /\ seg.fin => first + n = stream_len + 1
      /\ Number(first) \in Nat /\ SeqSpace \in Nat /\ RxSize \in Nat
      /\ stream_len \in Nat /\ n <= stream_len /\ stream_len + 2 < SeqSpace
  <2>1. Number(first) \in Nat /\ SeqSpace \in Nat /\ RxSize \in Nat
    BY NumberType, SeqSpaceType, TcpAssumption
  <2>2. stream_len \in Nat /\ stream_len + 2 < SeqSpace
    BY StreamFits
  <2> QED
    BY <2>1, <2>2 DEF OfStream
<1>2. /\ c.rx \in Seq(Units) /\ c.rcv_nxt \in Nat /\ c.fin \in BOOLEAN /\ c.port \in Nat
      /\ c.synack \in BOOLEAN /\ Len(c.rx) \in Nat
  BY DEF Conns
<1>3. CASE n > 0 /\ c.rcv_nxt = Number(first)
  <2> DEFINE room == RxSize - Len(c.rx)
             m == Min({n, room})
  <2>1. m \in 0 .. n /\ Len(c.rx) + m <= RxSize
    <3>1. room \in Nat
      BY <1>1, <1>2
    <3>2. m = IF n <= room THEN n ELSE room
      BY <3>1, MinOfTwo
    <3> QED
      BY <1>1, <1>2, <3>1, <3>2
  <2> HIDE DEF m
  <2>2. e = [c EXCEPT !.rx = @ \o SubSeq(seg.data, 1, m),
                      !.rcv_nxt = (seg.seq + Len(seg.data)) % SeqSpace]
    BY <1>1, <1>3 DEF TakeData, m
  <2>3. (seg.seq + Len(seg.data)) % SeqSpace = Number(first + n) /\ Number(first + n) \in Nat
    <3>1. seg.seq + Len(seg.data) = Number(first) + n /\ first + n \in Nat
      BY <1>1
    <3> QED
      BY <3>1, NumberAdd, NumberType
  <2> DEFINE rx == c.rx \o SubSeq(seg.data, 1, m)
  <2>4. rx \in Seq(Units) /\ Len(rx) = Len(c.rx) + m
    BY <1>1, <1>2, <2>1, PrefixAppended, ZenonT(30)
  <2> HIDE DEF e, rx
  <2>5. /\ e \in Conns /\ e.port = c.port /\ e.synack = c.synack /\ e.fin = c.fin
        /\ e.state = c.state /\ e.rx = rx /\ e.rcv_nxt = Number(first + n)
    <3>1. e = [c EXCEPT !.rx = rx, !.rcv_nxt = Number(first + n)]
      BY <2>2, <2>3, Zenon DEF rx
    <3> QED
      BY <1>2, <2>3, <2>4, <3>1, Zenon DEF Conns
  <2>6. seg.seq # e.rcv_nxt /\ seg.data # << >>
    <3>1. first + n \in Nat /\ first # first + n /\ first < (first + n) + SeqSpace
          /\ first + n < first + SeqSpace
      BY <1>1, <1>3
    <3> QED
      BY <1>1, <1>3, <2>5, <3>1, NumberDiffers
  <2>7. ASSUME d \in Conns, d.port = c.port, d.state \in {"EST", "CLOSE_WAIT"}, d.rx = rx,
               d.rcv_nxt = Number(first + n)
        PROVE  Taken(c, d, seg, first, n, m)
    BY <1>3, <2>1, <2>4, <2>7, Zenon DEF Taken, rx
  <2>8. CASE seg.fin
    <3>1. d = [e EXCEPT !.fin = TRUE, !.state = "CLOSE_WAIT", !.rcv_nxt = e.rcv_nxt]
      BY <2>6, <2>8, Zenon DEF TakeFin, e
    <3>2. /\ d \in Conns /\ d.port = c.port /\ d.state = "CLOSE_WAIT" /\ d.rx = rx
          /\ d.rcv_nxt = Number(first + n)
      BY <2>5, <3>1, Zenon DEF Conns
    <3> QED
      BY <2>1, <2>7, <3>2
  <2>9. CASE ~seg.fin
    <3>1. d = e
      BY <2>9 DEF TakeFin, e
    <3> QED
      BY <2>1, <2>5, <2>7, <3>1
  <2> QED
    BY <2>8, <2>9
<1>4. CASE n = 0 \/ c.rcv_nxt # Number(first)
  <2>1. e = c
    BY <1>1, <1>4 DEF TakeData
  <2>2. ASSUME d \in Conns, d.port = c.port, d.state \in {"EST", "CLOSE_WAIT"}, d.rx = c.rx,
               d.rcv_nxt \in {Number(stream_len + 2), c.rcv_nxt}
        PROVE  Taken(c, d, seg, first, n, 0)
    BY <1>2, <1>4, <2>2 DEF Taken
  <2>3. CASE seg.fin
    <3>1. seg.data = << >> <=> n = 0
      BY <1>1, EmptySeq
    <3>2. (seg.seq + Len(seg.data) + 1) % SeqSpace = Number(stream_len + 2)
          /\ Number(stream_len + 2) \in Nat
      <4>1. seg.seq + Len(seg.data) + 1 = Number(first) + (n + 1) /\ n + 1 \in Nat
            /\ first + (n + 1) = stream_len + 2
        BY <1>1, <2>3
      <4> QED
        BY <4>1, NumberAdd, NumberType
    <3>3. d = [c EXCEPT !.fin = TRUE, !.state = "CLOSE_WAIT",
                        !.rcv_nxt = IF n = 0 THEN Number(stream_len + 2) ELSE c.rcv_nxt]
      BY <1>1, <1>4, <2>1, <2>3, <3>1, <3>2, Zenon DEF TakeFin
    <3>4. /\ d \in Conns /\ d.port = c.port /\ d.state \in {"EST", "CLOSE_WAIT"} /\ d.rx = c.rx
          /\ d.rcv_nxt \in {Number(stream_len + 2), c.rcv_nxt}
      BY <1>2, <3>2, <3>3, Zenon DEF Conns
    <3> QED
      BY <2>2, <3>4
  <2>4. CASE ~seg.fin
    <3>1. d = c
      BY <2>1, <2>4 DEF TakeFin
    <3> QED
      BY <2>2, <3>1
  <2> QED
    BY <2>3, <2>4
<1>5. (n > 0 /\ c.rcv_nxt = Number(first)) \/ (n = 0 \/ c.rcv_nxt # Number(first))
  OBVIOUS
<1> QED
  BY <1>3, <1>4, <1>5, Zenon

\* Of the numbers of a stream only one is that of the next unit.
LEMMA NextNumber ==
    ASSUME NEW len \in StreamLens, NEW r \in 0 .. len, NEW first \in 1 .. len,
           Number(first) \in {Number(r + 1), Number(len + 2)}
    PROVE  first = r + 1
<1>1. len \in Nat /\ len + 2 < SeqSpace /\ SeqSpace \in Nat
  BY StreamFits, SeqSpaceType
<1>2. Number(first) # Number(len + 2)
  <2>1. /\ first \in Nat /\ len + 2 \in Nat /\ first # len + 2
        /\ first < (len + 2) + SeqSpace /\ len + 2 < first + SeqSpace
    BY <1>1
  <2> QED
    BY <2>1, NumberDiffers
<1>3. first \in Nat /\ r + 1 \in Nat /\ first < (r + 1) + SeqSpace /\ r + 1 < first + SeqSpace
  BY <1>1
<1> QED
  BY <1>2, <1>3, NumberDiffers

\* Data that are the next units continue the stream.
LEMMA Continued ==
    ASSUME NEW port, NEW l \in Nat, NEW rx \in Seq(Units), NEW data \in Seq(Units),
           Run(rx, port, l), Run(data, port, l + Len(rx))
    PROVE  Len(rx \o data) = Len(rx) + Len(data) /\ Run(rx \o data, port, l)
<1>1. /\ Len(rx) \in Nat /\ Len(data) \in Nat
      /\ Len(rx \o data) = Len(rx) + Len(data)
  OBVIOUS
<1>2. ASSUME NEW i \in 1 .. Len(rx) + Len(data) PROVE (rx \o data)[i] = Unit(port, l + i)
  <2>1. CASE i <= Len(rx)
    BY <1>1, <2>1 DEF Run
  <2>2. CASE i > Len(rx)
    <3> DEFINE k == i - Len(rx)
    <3>1. k \in 1 .. Len(data) /\ (l + Len(rx)) + k = l + i
      BY <1>1, <2>2
    <3>2. (rx \o data)[i] = data[k]
      BY <1>1, <2>2
    <3> HIDE DEF k
    <3> QED
      BY <3>1, <3>2 DEF Run
  <2> QED
    BY <1>1, <2>1, <2>2
<1> QED
  BY <1>1, <1>2 DEF Run

\* Data are taken under the number of the next unit only; if all of them fit,
\* the connection goes on in order.
LEMMA TakenInOrder ==
    ASSUME stream_len \in StreamLens, NEW t \in Seq(Units), NEW c \in Conns, NEW d \in Conns,
           NEW seg, NEW first \in Nat, NEW n \in Nat, NEW m \in Nat,
           OfStream(seg, first, n), seg.port = c.port, Taken(c, d, seg, first, n, m),
           n > 0 /\ c.rcv_nxt = Number(first) => m = n,
           InOrder(c, t),
           c.rcv_nxt \in {Number(Len(t) + Len(c.rx) + 1), Number(stream_len + 2)}
    PROVE  /\ InOrder(d, t)
           /\ d.rcv_nxt \in {Number(Len(t) + Len(d.rx) + 1), Number(stream_len + 2)}
<1> DEFINE rx == c.rx
           data == seg.data
           port == c.port
           l == Len(t)
<1>1. /\ rx \in Seq(Units) /\ Len(rx) \in Nat /\ port \in Nat /\ d.port = port
      /\ l \in Nat /\ stream_len \in Nat
  BY StreamFits DEF Conns, Taken
<1>2. /\ l + Len(rx) <= stream_len
      /\ Run(t, port, 0) /\ Run(rx, port, l)
      /\ c.rcv_nxt \in {Number(l + Len(rx) + 1), Number(stream_len + 2)}
  BY DEF InOrder
<1>3. CASE n > 0 /\ c.rcv_nxt = Number(first) /\ d.rx = rx \o SubSeq(data, 1, m)
           /\ d.rcv_nxt = Number(first + n)
  <2>1. /\ data \in Seq(Units) /\ Len(data) = n /\ first > 0 /\ first + n <= stream_len + 1
        /\ Run(data, port, first - 1)
    BY <1>3 DEF OfStream
  <2>2. d.rx = rx \o data
    <3>1. m = n /\ SubSeq(data, 1, n) = data
      BY <1>3, <2>1, SubSeqFull
    <3> QED
      BY <1>3, <3>1, Zenon
  <2> HIDE DEF rx, data, port, l
  <2>3. l + Len(rx) \in 0 .. stream_len /\ first \in 1 .. stream_len
    BY <1>1, <1>2, <1>3, <2>1
  <2>4. first = l + Len(rx) + 1
    BY <1>2, <1>3, <2>3, NextNumber
  <2>5. Len(d.rx) = Len(rx) + n /\ Run(d.rx, port, l)
    <3>1. first - 1 = l + Len(rx)
      BY <1>1, <2>4
    <3>2. Run(data, port, l + Len(rx)) /\ Run(rx, port, l)
      BY <1>2, <2>1, <3>1
    <3>3. Len(rx \o data) = Len(rx) + Len(data) /\ Run(rx \o data, port, l)
      <4>1. l \in Nat /\ rx \in Seq(Units) /\ data \in Seq(Units)
        BY <1>1, <2>1
      <4> QED
        BY <3>2, <4>1, Continued, Zenon
    <3> QED
      BY <2>1, <2>2, <3>3
  <2>6. l + Len(d.rx) <= stream_len /\ first + n = l + Len(d.rx) + 1
    <3>1. /\ first + n <= stream_len + 1 /\ first = l + Len(rx) + 1 /\ Len(d.rx) = Len(rx) + n
          /\ l \in Nat /\ Len(rx) \in Nat /\ stream_len \in Nat
      BY <1>1, <2>1, <2>4, <2>5
    <3> QED
      BY <3>1
  <2> QED
    BY <1>1, <1>2, <1>3, <2>5, <2>6 DEF InOrder, l
<1>4. CASE m = 0 /\ d.rx = rx /\ d.rcv_nxt \in {Number(stream_len + 2), c.rcv_nxt}
  BY <1>1, <1>2, <1>4, SMTT(20) DEF InOrder
<1> QED
  BY <1>3, <1>4, Zenon DEF Taken

\* A segment, any segment the network may come up with, leaves the connection
\* in order, or is recorded as a fault.
LEMMA SegmentGood ==
    ASSUME TypeInv, Good(conn, total, faults), conn.state = "SYN_SENT" => total = << >>,
           NEW seg \in Frames, NEW d, d = on_tcp(conn, seg)
    PROVE  /\ d \in Conns
           /\ Good(d, total, faults \cup SegmentFaults(conn, seg))
           /\ conn.state \in {"EST", "CLOSE_WAIT"} => d.state \in {"EST", "CLOSE_WAIT"}
           /\ conn.state = "SYN_SENT" => d = conn \/ (d.state = "EST" /\ d.synack)
<1> DEFINE g == faults \cup SegmentFaults(conn, seg)
<1>1. PICK first \in Nat, n \in Nat : OfStream(seg, first, n)
  BY FrameShape
<1>2. /\ conn \in Conns /\ total \in Seq(Units) /\ stream_len \in StreamLens
      /\ conn.rx \in Seq(Units) /\ Len(conn.rx) \in Nat /\ Len(total) \in Nat
      /\ stream_len \in Nat /\ RxSize \in Nat
  BY StreamFits, TcpAssumption DEF TypeInv, Conns
<1>3. CASE d = conn
  BY <1>2, <1>3 DEF Good
<1>4. CASE /\ conn.state = "SYN_SENT" /\ seg.port = conn.port /\ seg.syn
           /\ d = [conn EXCEPT !.state = "EST", !.synack = TRUE,
                               !.rcv_nxt = (seg.seq + 1) % SeqSpace]
  <2>1. (seg.seq + 1) % SeqSpace = Number(1) /\ Number(1) \in Nat
    <3>1. seg.seq = Number(0)
      BY <1>1, <1>4 DEF OfStream
    <3> QED
      BY <3>1, NumberAdd, NumberType
  <2>2. d = [conn EXCEPT !.state = "EST", !.synack = TRUE, !.rcv_nxt = Number(1)]
    BY <1>4, <2>1, Zenon
  <2>3. /\ d \in Conns /\ d.state = "EST" /\ d.rcv_nxt = Number(1) /\ d.rx = conn.rx
        /\ d.fin = conn.fin /\ d.port = conn.port
    BY <1>2, <2>1, <2>2, Zenon DEF Conns
  <2>4. d.synack
    BY <1>2, <2>2 DEF Conns
  <2>5. conn.rx = << >> /\ total = << >> /\ ~conn.fin
    BY <1>4 DEF Good
  <2>6. InOrder(d, total) /\ Len(total) + Len(d.rx) + 1 = 1 /\ Len(d.rx) <= RxSize
    BY <1>2, <2>3, <2>5 DEF InOrder, Run
  <2>7. Good(d, total, g)
    BY <2>3, <2>5, <2>6 DEF Good
  <2> QED
    BY <1>4, <2>3, <2>4, <2>7
<1>5. CASE /\ conn.state \in {"EST", "CLOSE_WAIT"} /\ seg.port = conn.port
           /\ d = TakeFin(TakeData(conn, seg), seg)
  <2>1. d \in Conns /\ \E m \in Nat : Taken(conn, d, seg, first, n, m)
    <3>1. Len(conn.rx) <= RxSize
      BY DEF Good
    <3> QED
      BY <1>1, <1>2, <1>5, <3>1, TakeCases
  <2>2. PICK m \in Nat : Taken(conn, d, seg, first, n, m)
    BY <2>1
  <2>3. /\ d.state \in {"EST", "CLOSE_WAIT"} /\ Len(d.rx) = Len(conn.rx) + m
        /\ Len(d.rx) <= RxSize /\ m <= n /\ d.rx \in Seq(Units) /\ Len(d.rx) \in Nat
    BY <2>1, <2>2 DEF Taken, Conns
  <2>4. ASSUME "overflow" \notin g
        PROVE  /\ InOrder(d, total)
               /\ d.rcv_nxt \in {Number(Len(total) + Len(d.rx) + 1), Number(stream_len + 2)}
    <3>1. /\ InOrder(conn, total)
          /\ conn.rcv_nxt \in {Number(Len(total) + Len(conn.rx) + 1), Number(stream_len + 2)}
      BY <1>5, <2>4 DEF Good
    <3>2. ASSUME n > 0, conn.rcv_nxt = Number(first) PROVE m = n
      <4>1. Len(seg.data) = n /\ n <= stream_len /\ seg.data # << >>
        BY <1>1, <1>2, <3>2 DEF OfStream
      <4>2. CASE d.rcv_nxt = Number(first + n)
        <5>1. d.rcv_nxt # conn.rcv_nxt
          <6>1. /\ first + n \in Nat /\ first # first + n /\ first < (first + n) + SeqSpace
                /\ first + n < first + SeqSpace
            BY <1>2, <3>2, <4>1, StreamFits, SeqSpaceType
          <6> QED
            BY <3>2, <4>2, <6>1, NumberDiffers
        <5>2. ~(Len(d.rx) - Len(conn.rx) < Len(seg.data))
          BY <1>5, <2>4, <4>1, <5>1, Zenon DEF SegmentFaults
        <5> QED
          BY <1>2, <2>3, <4>1, <5>2
      <4>3. CASE n = 0 \/ conn.rcv_nxt # Number(first)
        BY <3>2, <4>3
      <4> QED
        BY <2>2, <3>2, <4>2, <4>3, Zenon DEF Taken
    <3> QED
      BY <1>1, <1>2, <1>5, <2>1, <2>2, <3>1, <3>2, TakenInOrder, Zenon
  <2>5. ASSUME d.fin, g \cap {"overflow", "gap"} = {}
        PROVE  Len(total) + Len(d.rx) = stream_len
    <3>1. Len(total) + Len(d.rx) <= stream_len
      BY <2>4, <2>5 DEF InOrder
    <3>2. CASE conn.fin
      <4>1. Len(total) + Len(conn.rx) = stream_len
        BY <2>5, <3>2 DEF Good
      <4>2. /\ Len(d.rx) = Len(conn.rx) + m /\ Len(conn.rx) \in Nat
            /\ Len(total) \in Nat /\ stream_len \in Nat
        BY <1>2, <2>3
      <4> QED
        BY <3>1, <4>1, <4>2
    <3>3. CASE ~conn.fin
      <4>1. ~(Len(Received(d, total)) < stream_len)
        BY <1>5, <2>5, <3>3, Zenon DEF SegmentFaults
      <4>2. Len(Received(d, total)) = Len(total) + Len(d.rx)
        <5>1. total \in Seq(Units) /\ d.rx \in Seq(Units)
          BY <1>2, <2>3
        <5> QED
          BY <5>1, ConcatProperties DEF Received
      <4>3. Len(d.rx) \in Nat /\ Len(total) \in Nat /\ stream_len \in Nat
        BY <1>2, <2>3
      <4> QED
        BY <3>1, <4>1, <4>2, <4>3
    <3> QED
      BY <3>2, <3>3
  <2>6. Good(d, total, g)
    BY <2>3, <2>4, <2>5 DEF Good
  <2> QED
    BY <1>5, <2>1, <2>3, <2>6
<1> QED
  BY <1>2, <1>3, <1>4, <1>5, OnTcpCases, Zenon

-----------------------------------------------------------------------------
(* The invariant *)

\* A closed connection, or one that has sent its SYN.
LEMMA ClosedGood ==
    ASSUME stream_len \in StreamLens, NEW c \in Conns, c.state \in {"CLOSED", "SYN_SENT"},
           c.rx = << >>, ~c.fin, NEW t \in Seq(Units), NEW f,
           "overflow" \notin f => Len(t) <= stream_len /\ Run(t, c.port, 0)
    PROVE  Good(c, t, f)
<1>1. stream_len \in Nat /\ RxSize \in Nat /\ Len(c.rx) = 0 /\ Len(t) \in Nat
  BY StreamFits, TcpAssumption
<1>2. Run(c.rx, c.port, Len(t))
  BY <1>1 DEF Run
<1> QED
  BY <1>1, <1>2 DEF Good, InOrder

\* Nothing is the beginning of every stream.
LEMMA NothingReceived ==
    ASSUME stream_len \in StreamLens, NEW port
    PROVE  << >> \in Seq(Units) /\ Len(<< >>) = 0 /\ 0 <= stream_len /\ Run(<< >>, port, 0)
BY StreamFits DEF Run

\* Good of the next state, with the stream unchanged.
LEMMA GoodPrimed ==
    ASSUME stream_len' = stream_len, Good(conn', total', faults')
    PROVE  Good(conn, total, faults)'
BY DEF Good, InOrder

\* What an attempt has received is dropped with the attempt.
LEMMA FailsKeeps ==
    ASSUME IInv, pc # "done", AttemptFails, stream_len' = stream_len,
           sent' \in SUBSET ({"SYN", "GET"} \X Nat),
           conn' \in Conns, conn'.state = "CLOSED", conn'.rx = << >>, ~conn'.fin
    PROVE  IInv'
<1>1. /\ pc' \in {"resolve", "done"} /\ attempt' \in Nat /\ left' = 0 /\ idle' = 0
      /\ total' = << >> /\ result' = << >> /\ stream_len \in StreamLens
  BY DEF AttemptFails, IInv, TypeInv, CallInv
<1>2. Good(conn', total', faults')
  BY <1>1, NothingReceived, ClosedGood, Zenon
<1>3. TypeInv'
  BY <1>1, NothingReceived, TcpAssumption DEF TypeInv
<1>4. CallInv' /\ CompleteUnlessFault'
  BY <1>1 DEF CallInv, CompleteUnlessFault
<1> QED
  BY <1>2, <1>3, <1>4, GoodPrimed DEF IInv

\* What tcp_connect starts from.
LEMMA ClosedShape ==
    ASSUME NEW port \in Nat
    PROVE  /\ Closed(port) \in Conns /\ Closed(port).state = "CLOSED"
           /\ Closed(port).rx = << >> /\ ~Closed(port).fin /\ Closed(port).port = port
BY DEF Closed, Conns

\* What tcp_connect has when the SYN is sent.
LEMMA Opening ==
    ASSUME NEW r \in Conns, r.rx = << >>, ~r.fin, ~r.synack
    PROVE  LET c == [r EXCEPT !.state = "SYN_SENT"]
           IN  /\ c \in Conns /\ c.state = "SYN_SENT" /\ c.rx = << >>
               /\ ~c.fin /\ ~c.synack
BY DEF Conns

\* The invariant holds before http_get is called.
THEOREM InitIInv == Init => IInv
<1> SUFFICES ASSUME Init PROVE IInv
  OBVIOUS
<1>1. /\ stream_len \in StreamLens /\ conn \in Conns /\ conn.state = "CLOSED"
      /\ conn.rx = << >> /\ ~conn.fin /\ total = << >>
  BY ClosedShape DEF Init
<1>2. Good(conn, total, faults)
  BY <1>1, NothingReceived, ClosedGood, Zenon
<1>3. TypeInv
  BY <1>1, NothingReceived, TcpAssumption DEF Init, TypeInv
<1> QED
  BY <1>1, <1>2, <1>3 DEF Init, IInv, CallInv, CompleteUnlessFault

\* A poll, with whatever segment it delivers, keeps the connection good.
LEMMA PollGood ==
    ASSUME IInv, net_poll
    PROVE  /\ conn' \in Conns /\ Good(conn', total, faults')
           /\ conn.state \in {"EST", "CLOSE_WAIT"} => conn'.state \in {"EST", "CLOSE_WAIT"}
           /\ conn.state = "SYN_SENT" => conn' = conn \/ (conn'.state = "EST" /\ conn'.synack)
<1>1. /\ TypeInv /\ Good(conn, total, faults) /\ conn \in Conns
      /\ conn.state = "SYN_SENT" => total = << >>
  BY DEF IInv, TypeInv, CallInv
<1>2. CASE UNCHANGED <<conn, faults>>
  BY <1>1, <1>2
<1>3. ASSUME NEW seg \in Frames, conn' = on_tcp(conn, seg),
             faults' = faults \cup SegmentFaults(conn, seg)
      PROVE  /\ conn' \in Conns /\ Good(conn', total, faults')
             /\ conn.state \in {"EST", "CLOSE_WAIT"} => conn'.state \in {"EST", "CLOSE_WAIT"}
             /\ conn.state = "SYN_SENT" => conn' = conn \/ (conn'.state = "EST" /\ conn'.synack)
  <2> DEFINE d == on_tcp(conn, seg)
  <2>1. /\ d \in Conns
        /\ Good(d, total, faults \cup SegmentFaults(conn, seg))
        /\ conn.state \in {"EST", "CLOSE_WAIT"} => d.state \in {"EST", "CLOSE_WAIT"}
        /\ conn.state = "SYN_SENT" => d = conn \/ (d.state = "EST" /\ d.synack)
    BY <1>1, SegmentGood
  <2> QED
    BY <1>3, <2>1
<1> QED
  BY <1>2, <1>3 DEF net_poll

\* A poll in the middle of a loop.
LEMMA PollKeeps ==
    ASSUME IInv, net_poll, pc \in {"connect", "settle", "recv"},
           pc' \in {"connect", "send", "settle", "recv_check"},
           pc = "connect" => pc' = IF conn'.synack THEN "send" ELSE pc,
           pc = "settle" => pc' = pc, pc = "recv" => pc' = "recv_check",
           left' \in Nat,
           UNCHANGED <<stream_len, sent, attempt, idle, total, result>>
    PROVE  IInv'
<1>1. /\ conn' \in Conns /\ Good(conn', total, faults')
      /\ conn.state \in {"EST", "CLOSE_WAIT"} => conn'.state \in {"EST", "CLOSE_WAIT"}
      /\ conn.state = "SYN_SENT" => conn' = conn \/ (conn'.state = "EST" /\ conn'.synack)
  BY PollGood
<1>2. TypeInv'
  BY <1>1 DEF IInv, TypeInv
<1>3. CallInv' /\ CompleteUnlessFault'
  BY <1>1 DEF IInv, CallInv, CompleteUnlessFault
<1>4. Good(conn, total, faults)'
  BY <1>1, GoodPrimed
<1> QED
  BY <1>2, <1>3, <1>4 DEF IInv

\* Cutting what is in rx_data in two keeps the order.
LEMMA Cut ==
    ASSUME NEW port, NEW l \in Nat, NEW rx \in Seq(Units), NEW n \in 0 .. Len(rx), Run(rx, port, l)
    PROVE  /\ SubSeq(rx, 1, n) \in Seq(Units) /\ Len(SubSeq(rx, 1, n)) = n
           /\ SubSeq(rx, n + 1, Len(rx)) \in Seq(Units)
           /\ Len(SubSeq(rx, n + 1, Len(rx))) = Len(rx) - n
           /\ Run(SubSeq(rx, 1, n), port, l)
           /\ Run(SubSeq(rx, n + 1, Len(rx)), port, l + n)
<1>1. /\ SubSeq(rx, 1, n) \in Seq(Units) /\ Len(SubSeq(rx, 1, n)) = n
      /\ \A i \in 1 .. n : SubSeq(rx, 1, n)[i] = rx[i]
  OBVIOUS
<1>2. /\ SubSeq(rx, n + 1, Len(rx)) \in Seq(Units)
      /\ Len(SubSeq(rx, n + 1, Len(rx))) = Len(rx) - n
      /\ \A i \in 1 .. Len(rx) - n : SubSeq(rx, n + 1, Len(rx))[i] = rx[n + i]
  OBVIOUS
<1>3. Run(SubSeq(rx, 1, n), port, l)
  BY <1>1 DEF Run
<1>4. ASSUME NEW i \in 1 .. Len(rx) - n PROVE rx[n + i] = Unit(port, (l + n) + i)
  <2>1. n + i \in 1 .. Len(rx) /\ l + (n + i) = (l + n) + i
    OBVIOUS
  <2> QED
    BY <2>1 DEF Run
<1>5. Run(SubSeq(rx, n + 1, Len(rx)), port, l + n)
  BY <1>2, <1>4 DEF Run
<1> QED
  BY <1>1, <1>2, <1>3, <1>5

\* tcp_recv hands data on, as much as the caller has room for.
LEMMA DataKeeps ==
    ASSUME IInv, recv_data
    PROVE  IInv'
<1> DEFINE rx == conn.rx
           n == Min({Len(rx), MaxLen - Len(total)})
           head == SubSeq(rx, 1, n)
           rest == SubSeq(rx, n + 1, Len(rx))
<1>1. /\ pc = "recv_check" /\ stream_len \in StreamLens /\ stream_len \in Nat /\ conn \in Conns
      /\ rx \in Seq(Units) /\ total \in Seq(Units) /\ Len(rx) \in Nat /\ Len(total) \in Nat
      /\ Len(total) <= MaxLen /\ MaxLen \in Nat /\ RxSize \in Nat /\ RecvPolls \in Nat
  <2>1. /\ pc = "recv_check" /\ stream_len \in StreamLens /\ conn \in Conns
        /\ total \in Seq(Units) /\ Len(total) <= MaxLen
    BY DEF recv_data, IInv, TypeInv
  <2>2. stream_len \in Nat /\ MaxLen \in Nat /\ RxSize \in Nat /\ RecvPolls \in Nat
    BY <2>1, StreamFits, TcpAssumption
  <2>3. rx \in Seq(Units)
    BY <2>1 DEF Conns
  <2> HIDE DEF rx
  <2> QED
    BY <2>1, <2>2, <2>3
<1>2. n \in 0 .. Len(rx) /\ n <= MaxLen - Len(total)
  <2>1. n = IF Len(rx) <= MaxLen - Len(total) THEN Len(rx) ELSE MaxLen - Len(total)
    BY <1>1, MinOfTwo
  <2> QED
    BY <1>1, <2>1
<1> HIDE DEF n
<1>3. /\ total' = total \o head /\ conn' = [conn EXCEPT !.rx = rest]
      /\ pc' = IF Len(total) + n = MaxLen THEN "close" ELSE "recv"
      /\ faults' = IF Len(total) + n = MaxLen /\ MaxLen < stream_len
                   THEN faults \cup {"full"} ELSE faults
      /\ idle' = 0 /\ left' = RecvPolls
      /\ stream_len' = stream_len /\ sent' = sent /\ attempt' = attempt /\ result' = result
  BY DEF recv_data, n
<1>4. /\ head \in Seq(Units) /\ Len(head) = n /\ rest \in Seq(Units) /\ Len(rest) = Len(rx) - n
  <2>1. ASSUME NEW s \in Seq(Units), NEW k \in 0 .. Len(s)
        PROVE  /\ SubSeq(s, 1, k) \in Seq(Units) /\ Len(SubSeq(s, 1, k)) = k
               /\ SubSeq(s, k + 1, Len(s)) \in Seq(Units)
               /\ Len(SubSeq(s, k + 1, Len(s))) = Len(s) - k
    OBVIOUS
  <2> QED
    BY <1>1, <1>2, <2>1
<1>5. total' \in Seq(Units) /\ Len(total') = Len(total) + n
  BY <1>1, <1>3, <1>4, ConcatProperties
<1>6. /\ conn' \in Conns /\ conn'.rx = rest /\ conn'.port = conn.port /\ conn'.state = conn.state
      /\ conn'.fin = conn.fin /\ conn'.rcv_nxt = conn.rcv_nxt /\ Len(conn'.rx) \in Nat
  <2> HIDE DEF rest
  <2>1. /\ conn' \in Conns /\ conn'.rx = rest /\ conn'.port = conn.port
        /\ conn'.state = conn.state /\ conn'.fin = conn.fin /\ conn'.rcv_nxt = conn.rcv_nxt
    BY <1>1, <1>3, <1>4, Zenon DEF Conns
  <2> QED
    BY <1>4, <2>1
<1>7. Len(total') + Len(conn'.rx) = Len(total) + Len(rx) /\ Len(conn'.rx) <= Len(rx)
      /\ Len(total') <= MaxLen
  <2>1. Len(conn'.rx) = Len(rx) - n
    BY <1>4, <1>6
  <2>2. Len(rx) \in Nat /\ Len(total) \in Nat /\ MaxLen \in Nat /\ n \in Nat
        /\ Len(total') = Len(total) + n /\ n <= Len(rx) /\ n <= MaxLen - Len(total)
    BY <1>1, <1>2, <1>5
  <2> HIDE DEF rx, head, rest
  <2> QED
    BY <2>1, <2>2
<1>8. ASSUME InOrder(conn, total) PROVE InOrder(conn', total')
  <2> HIDE DEF rx
  <2>1. /\ Len(total) + Len(rx) <= stream_len /\ Run(total, conn.port, 0)
        /\ Run(rx, conn.port, Len(total))
    BY <1>8 DEF InOrder, rx
  <2>2. Run(head, conn.port, Len(total)) /\ Run(rest, conn.port, Len(total) + n)
    <3>1. rx \in Seq(Units) /\ Len(total) \in Nat
      BY <1>1
    <3> QED
      BY <1>2, <2>1, <3>1, Cut
  <2> HIDE DEF head, rest
  <2>3. Run(total', conn.port, 0)
    <3>1. Run(head, conn.port, 0 + Len(total))
      BY <1>1, <2>2
    <3>2. total \in Seq(Units) /\ head \in Seq(Units) /\ 0 \in Nat
      BY <1>1, <1>4
    <3>3. Run(total \o head, conn.port, 0)
      BY <2>1, <3>1, <3>2, Continued, Zenon
    <3> QED
      BY <1>3, <3>3
  <2>4. Run(conn'.rx, conn.port, Len(total'))
    BY <1>5, <1>6, <2>2
  <2> QED
    BY <1>6, <1>7, <2>1, <2>3, <2>4 DEF InOrder
<1>9. Good(conn', total', faults')
  <2>1. /\ "overflow" \in faults' <=> "overflow" \in faults
        /\ "gap" \in faults' <=> "gap" \in faults
    BY <1>3
  <2>2. Len(conn'.rx) <= RxSize
    <3>1. Len(rx) <= RxSize
      BY DEF IInv, Good
    <3>2. Len(rx) \in Nat /\ Len(conn'.rx) \in Nat /\ RxSize \in Nat /\ Len(conn'.rx) <= Len(rx)
      BY <1>1, <1>6, <1>7, Zenon
    <3> HIDE DEF rx
    <3> QED
      BY <3>1, <3>2
  <2>3. conn.state \in {"EST", "CLOSE_WAIT"}
    BY <1>1 DEF IInv, CallInv
  <2>4. "overflow" \notin faults' => InOrder(conn', total')
    BY <1>8, <2>1 DEF IInv, Good
  <2>5. "overflow" \notin faults' =>
          conn'.rcv_nxt \in {Number(Len(total') + Len(conn'.rx) + 1), Number(stream_len + 2)}
    BY <1>6, <1>7, <2>1, <2>3, Zenon DEF IInv, Good
  <2>6. conn'.fin /\ faults' \cap {"overflow", "gap"} = {} =>
          Len(total') + Len(conn'.rx) = stream_len
    BY <1>6, <1>7, <2>1, Zenon DEF IInv, Good
  <2> QED
    BY <1>6, <2>2, <2>3, <2>4, <2>5, <2>6, Zenon DEF Good
<1>10. ASSUME pc' = "close", faults' = {} PROVE Len(total') = stream_len
  <2>1. faults = {} /\ Len(total) + n = MaxLen /\ ~(MaxLen < stream_len)
    BY <1>3, <1>10, Zenon
  <2>2. Len(total') + Len(conn'.rx) <= stream_len
    BY <1>9, <1>10 DEF Good, InOrder
  <2>3. Len(conn'.rx) \in Nat /\ Len(total') = MaxLen /\ MaxLen \in Nat /\ stream_len \in Nat
    BY <1>1, <1>5, <1>6, <2>1, Zenon
  <2> HIDE DEF rx, head, rest
  <2> QED
    BY <2>1, <2>2, <2>3
<1>11. TypeInv'
  BY <1>1, <1>3, <1>5, <1>6, <1>7, Zenon DEF IInv, TypeInv
<1>12. CallInv' /\ CompleteUnlessFault'
  BY <1>1, <1>3, <1>6, <1>10, Zenon DEF IInv, CallInv, CompleteUnlessFault
<1> QED
  BY <1>3, <1>9, <1>11, <1>12, GoodPrimed DEF IInv

\* What http_get has received without a fault is the answer, all of it.
LEMMA WholeStream ==
    ASSUME NEW port, NEW t \in Seq(Units), Run(t, port, 0)
    PROVE  t = [i \in 1 .. Len(t) |-> Unit(port, i)]
<1>1. \A i \in 1 .. Len(t) : t[i] = Unit(port, i)
  <2>1. \A i \in 1 .. Len(t) : 0 + i = i
    OBVIOUS
  <2> QED
    BY <2>1 DEF Run
<1>2. DOMAIN t = 1 .. Len(t)
  OBVIOUS
<1> QED
  BY <1>1, <1>2

\* Closing the connection and returning keeps the invariant.
LEMMA CloseKeeps ==
    ASSUME IInv, http_close
    PROVE  IInv'
<1>1. /\ pc = "close" /\ conn' = Closed(conn.port) /\ stream_len' = stream_len /\ sent' = sent
      /\ faults' = faults /\ conn.port \in Nat /\ stream_len \in StreamLens
      /\ total \in Seq(Units)
  BY DEF http_close, tcp_close, IInv, TypeInv, Conns
<1>2. /\ conn' \in Conns /\ conn'.state = "CLOSED" /\ conn'.rx = << >> /\ ~conn'.fin
      /\ conn'.port = conn.port
  BY <1>1, ClosedShape
<1>3. CASE total = << >>
  <2>1. AttemptFails /\ sent' \in SUBSET ({"SYN", "GET"} \X Nat)
    BY <1>1, <1>3 DEF http_close, IInv, TypeInv
  <2> QED
    BY <1>1, <1>2, <2>1, FailsKeeps
<1>4. CASE total # << >>
  <2>1. /\ result' = Body(total) /\ pc' = "done" /\ left' = 0 /\ idle' = 0
        /\ attempt' = attempt /\ total' = total
    BY <1>4 DEF http_close
  <2>2. "overflow" \notin faults =>
            /\ Len(total) + Len(conn.rx) <= stream_len /\ Run(total, conn.port, 0)
    BY DEF IInv, Good, InOrder
  <2>3. "overflow" \notin faults => Len(total) <= stream_len /\ Run(total, conn.port, 0)
    <3>1. Len(conn.rx) \in Nat /\ Len(total) \in Nat /\ stream_len \in Nat
      <4>1. conn.rx \in Seq(Units)
        BY DEF IInv, TypeInv, Conns
      <4> QED
        BY <1>1, <4>1, StreamFits
    <3> QED
      BY <2>2, <3>1
  <2>4. Good(conn', total', faults')
    BY <1>1, <1>2, <2>1, <2>3, ClosedGood
  <2>5. Body(total) \in Seq(Units)
    <3>1. Tail(total) \in Seq(Units)
      BY <1>1, <1>4
    <3> QED
      BY <1>1, <3>1 DEF Body
  <2>6. TypeInv'
    BY <1>1, <1>2, <2>1, <2>5 DEF IInv, TypeInv
  <2>7. CallInv'
    BY <1>2, <2>1 DEF CallInv
  <2>8. ASSUME faults' = {} PROVE result' = Body(Stream)'
    <3>1. faults = {} /\ Len(total) = stream_len
      BY <1>1, <2>8 DEF IInv, CallInv
    <3>2. total = [i \in 1 .. Len(total) |-> Unit(conn.port, i)]
      BY <1>1, <2>3, <3>1, WholeStream
    <3>3. total = Stream'
      BY <1>1, <1>2, <3>1, <3>2 DEF Stream
    <3>4. Body(Stream)' = Body(Stream')
      BY DEF Body
    <3> QED
      BY <2>1, <3>3, <3>4
  <2>9. CompleteUnlessFault'
    BY <2>8 DEF CompleteUnlessFault
  <2> QED
    BY <1>1, <2>4, <2>6, <2>7, <2>9, GoodPrimed DEF IInv
<1> QED
  BY <1>3, <1>4

\* A step of http_get that leaves the connection and what it received alone.
LEMMA StepKeeps ==
    ASSUME IInv, UNCHANGED <<stream_len, conn, total, result>>, faults \subseteq faults',
           sent' \in SUBSET ({"SYN", "GET"} \X Nat),
           attempt' \in Nat, left' \in Nat, idle' \in Nat,
           "overflow" \in faults' => "overflow" \in faults,
           "gap" \in faults' => "gap" \in faults,
           CallInv', pc # "done", pc' # "done",
           pc' \in {"resolve", "connect", "send", "settle", "recv", "recv_check", "close"}
    PROVE  IInv'
<1>1. TypeInv'
  BY DEF IInv, TypeInv
<1>2. Good(conn', total', faults')
  <2>1. "overflow" \notin faults' => "overflow" \notin faults
    OBVIOUS
  <2>2. faults' \cap {"overflow", "gap"} = {} => faults \cap {"overflow", "gap"} = {}
    OBVIOUS
  <2> QED
    BY <2>1, <2>2 DEF IInv, Good
<1>3. CompleteUnlessFault'
  BY DEF CompleteUnlessFault
<1> QED
  BY <1>1, <1>2, <1>3, GoodPrimed DEF IInv

\* Every step of the client preserves the invariant.
THEOREM NextIInv == IInv /\ [Next]_vars => IInv'
<1> SUFFICES ASSUME IInv, [Next]_vars PROVE IInv'
  BY SMTT(20)
<1> USE DEF IInv
<1>1. CASE http_get
  <2>1. CallInv'
    BY <1>1, SMTT(20) DEF http_get, CallInv
  <2> QED
    BY <1>1, <2>1, StepKeeps DEF http_get, TypeInv
<1>2. CASE resolve_fails
  BY <1>2, FailsKeeps DEF resolve_fails, TypeInv, CallInv, Good
<1>3. ASSUME NEW ok \in BOOLEAN, tcp_connect(ok) PROVE IInv'
  <2>1. /\ pc = "resolve" /\ faults' = {} /\ stream_len' = stream_len /\ conn.port \in Nat
        /\ Port(conn) \in Nat /\ total = << >> /\ result = << >> /\ stream_len \in StreamLens
    BY <1>3 DEF tcp_connect, TypeInv, CallInv, Port, Conns
  <2>2. CASE ok
    <3> DEFINE c == [Closed(Port(conn)) EXCEPT !.state = "SYN_SENT"]
    <3>1. /\ conn' = c /\ sent' = sent \cup {<<"SYN", Port(conn)>>}
          /\ pc' = "connect" /\ left' = ConnectPolls
          /\ attempt' = attempt /\ idle' = idle /\ total' = total /\ result' = result
      BY <1>3, <2>2 DEF tcp_connect
    <3>2. /\ c \in Conns /\ c.state = "SYN_SENT" /\ c.rx = << >> /\ ~c.fin /\ ~c.synack
      <4>1. /\ Closed(Port(conn)) \in Conns /\ Closed(Port(conn)).rx = << >>
            /\ ~Closed(Port(conn)).fin /\ ~Closed(Port(conn)).synack
        BY <2>1, ClosedShape DEF Closed
      <4> QED
        BY <4>1, Opening
    <3> HIDE DEF c
    <3>3. Good(conn', total', faults')
      BY <2>1, <3>1, <3>2, NothingReceived, ClosedGood, Zenon
    <3>4. sent' \in SUBSET ({"SYN", "GET"} \X Nat) /\ left' \in Nat
      BY <2>1, <3>1, TcpAssumption, SMTT(20) DEF TypeInv
    <3>5. TypeInv' /\ CallInv' /\ CompleteUnlessFault'
      BY <2>1, <3>1, <3>2, <3>4 DEF TypeInv, CallInv, CompleteUnlessFault
    <3> QED
      BY <2>1, <3>3, <3>5, GoodPrimed
  <2>3. CASE ~ok
    <3>1. conn' = Closed(Port(conn)) /\ sent' = sent /\ AttemptFails
      BY <1>3, <2>3 DEF tcp_connect
    <3> QED
      BY <2>1, <3>1, ClosedShape, FailsKeeps DEF TypeInv
  <2> QED
    BY <2>2, <2>3
<1>4. ASSUME NEW ok \in BOOLEAN, tcp_send(ok) PROVE IInv'
  <2>1. /\ pc = "send" /\ stream_len' = stream_len /\ faults' = faults /\ conn.port \in Nat
    BY <1>4 DEF tcp_send, TypeInv, Conns
  <2>2. CASE ok
    <3>1. /\ sent' = sent \cup {<<"GET", conn.port>>} /\ pc' = "settle" /\ left' = SendPolls
          /\ conn' = conn /\ attempt' = attempt /\ idle' = idle /\ total' = total
          /\ result' = result
      BY <1>4, <2>2 DEF tcp_send
    <3>2. sent' \in SUBSET ({"SYN", "GET"} \X Nat) /\ left' \in Nat
      BY <2>1, <3>1, TcpAssumption, SMTT(20) DEF TypeInv
    <3>3. CallInv'
      BY <2>1, <3>1 DEF CallInv
    <3> QED
      BY <2>1, <3>1, <3>2, <3>3, StepKeeps DEF TypeInv
  <2>3. CASE ~ok
    <3>1. conn' = Closed(conn.port) /\ sent' = sent /\ AttemptFails
      BY <1>4, <2>3 DEF tcp_send, tcp_close
    <3> QED
      BY <2>1, <3>1, ClosedShape, FailsKeeps DEF TypeInv
  <2> QED
    BY <2>2, <2>3
<1>5. CASE connect_poll
  BY <1>5, PollKeeps DEF connect_poll, TypeInv
<1>6. CASE connect_timeout
  <2>1. conn.port \in Nat
    BY DEF TypeInv, Conns
  <2> QED
    BY <1>6, <2>1, ClosedShape, FailsKeeps DEF connect_timeout, TypeInv
<1>7. CASE settle
  BY <1>7, PollKeeps DEF settle, TypeInv
<1>8. CASE settled
  <2>1. CallInv' /\ left' \in Nat
    BY <1>8, TcpAssumption DEF settled, CallInv
  <2> QED
    BY <1>8, <2>1, StepKeeps, SMTT(20) DEF settled, TypeInv
<1>9. CASE recv_poll
  BY <1>9, PollKeeps DEF recv_poll, TypeInv
<1>10. CASE recv_data
  BY <1>10, DataKeeps
<1>11. CASE recv_end
  <2>1. faults = {} => Len(total) = stream_len
    <3>1. conn.rx = << >> /\ conn.fin /\ Len(total) \in Nat
      BY <1>11 DEF recv_end, TypeInv
    <3>2. faults = {} => Len(total) + Len(conn.rx) = stream_len
      BY <3>1 DEF Good
    <3> QED
      BY <3>1, <3>2
  <2>2. CallInv'
    BY <1>11, <2>1 DEF recv_end, CallInv
  <2> QED
    BY <1>11, <2>2, StepKeeps DEF recv_end, TypeInv
<1>12. CASE recv_nothing
  <2>1. CallInv'
    BY <1>12 DEF recv_nothing, CallInv
  <2> QED
    BY <1>12, <2>1, StepKeeps, SMTT(20) DEF recv_nothing, TypeInv
<1>13. CASE recv_timeout
  <2>1. left' \in Nat /\ idle' \in Nat
    BY <1>13, TcpAssumption DEF recv_timeout, TypeInv, Idle
  <2>2. CASE Idle >= IdleMax
    <3>1. pc' = "close" /\ faults' # {}
      BY <1>13, <2>2 DEF recv_timeout
    <3>2. CallInv'
      BY <1>13, <3>1 DEF recv_timeout, CallInv
    <3> QED
      BY <1>13, <2>1, <2>2, <3>2, StepKeeps DEF recv_timeout, TypeInv
  <2>3. CASE ~(Idle >= IdleMax)
    <3>1. pc' = "recv" /\ faults' = faults
      BY <1>13, <2>3 DEF recv_timeout
    <3>2. CallInv'
      BY <1>13, <3>1, SMTT(20) DEF recv_timeout, CallInv
    <3> QED
      BY <1>13, <2>1, <3>1, <3>2, StepKeeps DEF recv_timeout, TypeInv
  <2> QED
    BY <2>2, <2>3
<1>14. CASE http_close
  BY <1>14, CloseKeeps
<1>15. CASE UNCHANGED vars
  BY <1>15, Zenon DEF vars, TypeInv, CallInv, Good, InOrder, CompleteUnlessFault, Stream, Body
<1> QED
  BY <1>1, <1>2, <1>3, <1>4, <1>5, <1>6, <1>7, <1>8, <1>9, <1>10, <1>11, <1>12, <1>13, <1>14,
     <1>15 DEF Next

\* In every reachable state the invariant holds.
THEOREM Invariance == Spec => []IInv
<1> QED
  BY InitIInv, NextIInv, PTL DEF Spec

(***************************************************************************)
(* Unless the 16 KiB receive buffer overflowed, what http_get has of the   *)
(* answer is a prefix of what the server sent, however frames were lost,   *)
(* duplicated, delayed or reordered (on_tcp_segment, tcp_recv).            *)
(***************************************************************************)
THEOREM StreamInOrder == Spec => []StreamPrefix
<1>1. IInv => StreamPrefix
  <2> SUFFICES ASSUME IInv, "overflow" \notin faults
               PROVE  \E n \in 0 .. stream_len : Received(conn, total) = SubSeq(Stream, 1, n)
    BY DEF StreamPrefix
  <2> DEFINE n == Len(total) + Len(conn.rx)
             r == total \o conn.rx
  <2>1. /\ total \in Seq(Units) /\ conn.rx \in Seq(Units) /\ stream_len \in StreamLens
        /\ conn \in Conns
    BY DEF IInv, TypeInv, Conns
  <2>2. stream_len \in Nat
    BY <2>1, StreamFits
  <2>3. n <= stream_len /\ Run(total, conn.port, 0) /\ Run(conn.rx, conn.port, Len(total))
    BY DEF IInv, Good, InOrder
  <2>4. Len(r) = n /\ DOMAIN r = 1 .. n
    BY <2>1
  <2>5. \A i \in 1 .. n : r[i] = Unit(conn.port, i)
    <3> TAKE i \in 1 .. n
    <3>1. CASE i <= Len(total)
      <4>1. i \in 1 .. Len(total) /\ r[i] = total[i] /\ 0 + i = i
        BY <2>1, <3>1
      <4> QED
        BY <2>3, <4>1 DEF Run
    <3>2. CASE i > Len(total)
      <4>1. /\ i - Len(total) \in 1 .. Len(conn.rx) /\ r[i] = conn.rx[i - Len(total)]
            /\ Len(total) + (i - Len(total)) = i
        BY <2>1, <3>2
      <4> QED
        BY <2>3, <4>1 DEF Run
    <3> QED
      BY <2>1, <3>1, <3>2
  <2>6. n \in 0 .. stream_len
    BY <2>1, <2>2, <2>3
  <2>7. SubSeq(Stream, 1, n) = [i \in 1 .. n |-> Unit(conn.port, i)]
    <3>1. \A i \in 1 .. n : Stream[i] = Unit(conn.port, i)
      BY <2>2, <2>6 DEF Stream
    <3>2. SubSeq(Stream, 1, n) = [i \in 1 .. n |-> Stream[i]]
      BY <2>6
    <3> QED
      BY <3>1, <3>2
  <2>8. r = [i \in 1 .. n |-> Unit(conn.port, i)]
    <3>1. r \in Seq(Units)
      BY <2>1
    <3> HIDE DEF r, n
    <3> QED
      BY <2>4, <2>5, <3>1
  <2>9. Received(conn, total) = r
    BY DEF Received
  <2> QED
    BY <2>6, <2>7, <2>8, <2>9, Zenon
<1> QED
  BY <1>1, Invariance, PTL

(***************************************************************************)
(* http_get returns a body that is not the server's whole one only when    *)
(* rx_data overflowed, the end overtook data, the caller's buffer filled   *)
(* up, or the server fell silent for long: the paths on which the code     *)
(* returns what it has.                                                    *)
(***************************************************************************)
THEOREM CompleteAnswer == Spec => []CompleteUnlessFault
<1>1. IInv => CompleteUnlessFault
  BY DEF IInv
<1> QED
  BY <1>1, Invariance, PTL

=============================================================================
