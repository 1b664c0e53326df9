-------------------------------- MODULE Tcp ---------------------------------
(***************************************************************************)
(* The HTTP client, kernel/net/http.c, over the one TCP connection of      *)
(* kernel/net/tcp.c, against a server behind a network that loses,         *)
(* duplicates, delays and reorders.                                        *)
(*                                                                         *)
(* Nothing is acknowledged back to the model's server: it may send any     *)
(* part of its stream, cut in any way, at any time, and as often as it     *)
(* likes, and any segment it could have sent may arrive at any poll.  One  *)
(* poll of the card delivers at most one segment.  The counters of the     *)
(* polling loops are kept, with smaller limits.                            *)
(***************************************************************************)
EXTENDS Naturals, Sequences, FiniteSetsExt

CONSTANTS Attempts,        \* of http_get, 3 in the code
          ConnectPolls,    \* 400 in the code
          SendPolls,       \* settle(5) in tcp_send
          RecvPolls,       \* 120 in the code
          IdleMax,         \* 10 in the code
          RxSize,          \* sizeof(rx_data)
          MaxLen,          \* maxlen of the caller
          StreamLens,      \* lengths of what the server has to say
          SeqSpace, ISS      \* size of the sequence space; the server's first number

ASSUME TcpAssumption ==
    /\ {Attempts, ConnectPolls, RecvPolls, IdleMax, RxSize, MaxLen} \subseteq Nat \ {0}
    /\ SendPolls \in Nat /\ StreamLens \subseteq Nat \ {0}
    /\ SeqSpace \in Nat \ {0} /\ ISS \in 0 .. SeqSpace - 1
    /\ \A n \in StreamLens : n + 2 < SeqSpace

VARIABLES stream_len,   \* this server's
          conn,         \* the static variables of tcp.c
          sent,         \* the segments the client has sent that the server answers
          pc, attempt, left, idle,   \* where http_get is; its counters
          total,        \* what it has received
          result,       \* what it returns; << >> is failure
          faults        \* what went wrong in this attempt (history)

vars == <<stream_len, conn, sent, pc, attempt, left, idle, total, result, faults>>

Closed(port) == [state |-> "CLOSED", port |-> port, rcv_nxt |-> 0, rx |-> << >>,
                 synack |-> FALSE, fin |-> FALSE]

Init == /\ stream_len \in StreamLens
        /\ conn = Closed(0) /\ sent = {}
        /\ pc = "idle" /\ attempt = 0 /\ left = 0 /\ idle = 0
        /\ total = << >> /\ result = << >> /\ faults = {}

-----------------------------------------------------------------------------
(* The server *)

\* Unit i of the stream to a port; the first one is the header of the answer.
Unit(port, i) == <<port, i>>

Number(i) == (ISS + i) % SeqSpace

Segment(port, syn, first, n, fin) ==
    [port |-> port, syn |-> syn, seq |-> Number(first), fin |-> fin,
     data |-> [k \in 1 .. n |-> Unit(port, first + k - 1)]]

\* Units first .. first + n - 1 of the stream, with or without the end of it.
Parts == {p \in [first : 1 .. stream_len + 1, n : 0 .. stream_len, fin : BOOLEAN] :
             /\ p.first + p.n <= stream_len + 1
             /\ p.fin => p.first + p.n = stream_len + 1
             /\ p.n > 0 \/ p.fin}

SynAck(port) == Segment(port, TRUE, 0, 0, FALSE)
PartOf(port, p) == Segment(port, FALSE, p.first, p.n, p.fin)

Frames == {SynAck(s[2]) : s \in {x \in sent : x[1] = "SYN"}}
          \cup {PartOf(s[2], p) : s \in {x \in sent : x[1] = "GET"}, p \in Parts}

-----------------------------------------------------------------------------
(* on_tcp *)

\* Data in order is taken as far as there is room, and counts as received as a
\* whole; other data is answered with a duplicate acknowledgement.
TakeData(c, seg) ==
    IF Len(seg.data) > 0 /\ seg.seq = c.rcv_nxt
    THEN LET room == RxSize - Len(c.rx)
         IN [c EXCEPT !.rx = @ \o SubSeq(seg.data, 1, Min({Len(seg.data), room})),
                      !.rcv_nxt = (seg.seq + Len(seg.data)) % SeqSpace]
    ELSE c

\* FIN ends the stream wherever it stands in it.
TakeFin(c, seg) ==
    IF ~seg.fin THEN c
    ELSE [c EXCEPT !.fin = TRUE, !.state = "CLOSE_WAIT",
                   !.rcv_nxt = IF seg.seq = c.rcv_nxt \/ seg.data = << >>
                               THEN (seg.seq + Len(seg.data) + 1) % SeqSpace ELSE c.rcv_nxt]

ForMe_AnyPort(c, seg) == TRUE

\* Only the destination port tells one connection from the next.
ForMe(c, seg) == seg.port = c.port

on_tcp(c, seg) ==
    IF ~ForMe(c, seg) THEN c
    ELSE CASE c.state = "SYN_SENT" ->
                 IF seg.syn THEN [c EXCEPT !.state = "EST", !.synack = TRUE,
                                           !.rcv_nxt = (seg.seq + 1) % SeqSpace]
                 ELSE c
           [] c.state \in {"EST", "CLOSE_WAIT"} -> TakeFin(TakeData(c, seg), seg)
           [] OTHER -> c

\* All that has come in since the connection was made.
Received(c, t) == t \o c.rx

\* What may go wrong in taking a segment: more data than room, an end before
\* the rest.
SegmentFaults(c, seg) ==
    LET d == on_tcp(c, seg)
    IN (IF d.rcv_nxt # c.rcv_nxt /\ c.state # "SYN_SENT" /\ seg.data # << >>
           /\ Len(d.rx) - Len(c.rx) < Len(seg.data)
        THEN {"overflow"} ELSE {})
       \cup (IF d.fin /\ ~c.fin /\ Len(Received(d, total)) < stream_len THEN {"gap"} ELSE {})

\* net_poll: nothing there, or one segment.
net_poll == \/ UNCHANGED <<conn, faults>>
            \/ \E seg \in Frames : /\ conn' = on_tcp(conn, seg)
                                   /\ faults' = faults \cup SegmentFaults(conn, seg)

-----------------------------------------------------------------------------
(* http_get *)

AttemptFails ==
    /\ pc' = IF attempt < Attempts THEN "resolve" ELSE "done"
    /\ attempt' = IF attempt < Attempts THEN attempt + 1 ELSE attempt
    /\ left' = 0 /\ idle' = 0 /\ total' = << >> /\ UNCHANGED result

\* What tcp_close receives while it waits for the peer is thrown away.
tcp_close == conn' = Closed(conn.port)

http_get ==
    /\ pc = "idle" /\ pc' = "resolve" /\ attempt' = 1
    /\ UNCHANGED <<stream_len, conn, sent, left, idle, total, result, faults>>

\* dns_resolve fails.
resolve_fails ==
    /\ pc = "resolve" /\ AttemptFails
    /\ UNCHANGED <<stream_len, conn, sent, faults>>

\* next_port++
Port(c) == c.port + 1

\* The SYN is sent once.  Sending fails when no hardware address is known.
tcp_connect(ok) ==
    /\ pc = "resolve"
    /\ faults' = {}
    /\ IF ok THEN /\ conn' = [Closed(Port(conn)) EXCEPT !.state = "SYN_SENT"]
                  /\ sent' = sent \cup {<<"SYN", Port(conn)>>}
                  /\ pc' = "connect" /\ left' = ConnectPolls
                  /\ UNCHANGED <<attempt, idle, total, result>>
             ELSE conn' = Closed(Port(conn)) /\ UNCHANGED sent /\ AttemptFails
    /\ UNCHANGED stream_len

connect_poll ==
    /\ pc = "connect" /\ left > 0
    /\ net_poll
    /\ pc' = IF conn'.synack THEN "send" ELSE pc
    /\ left' = left - 1
    /\ UNCHANGED <<stream_len, sent, attempt, idle, total, result>>

connect_timeout ==
    /\ pc = "connect" /\ left = 0
    /\ conn' = Closed(conn.port) /\ AttemptFails
    /\ UNCHANGED <<stream_len, sent, faults>>

\* The request fits one segment; it is not sent again when it is lost.
tcp_send(ok) ==
    /\ pc = "send" /\ conn.state = "EST"
    /\ IF ok THEN /\ sent' = sent \cup {<<"GET", conn.port>>}
                  /\ pc' = "settle" /\ left' = SendPolls
                  /\ UNCHANGED <<conn, attempt, idle, total, result>>
             ELSE tcp_close /\ UNCHANGED sent /\ AttemptFails
    /\ UNCHANGED <<stream_len, faults>>

settle ==
    /\ pc = "settle" /\ left > 0
    /\ net_poll
    /\ left' = left - 1
    /\ UNCHANGED <<stream_len, sent, pc, attempt, idle, total, result>>

settled ==
    /\ pc = "settle" /\ left = 0
    /\ pc' = "recv" /\ left' = RecvPolls
    /\ UNCHANGED <<stream_len, conn, sent, attempt, idle, total, result, faults>>

\* One turn of the loop of tcp_recv.
recv_poll ==
    /\ pc = "recv" /\ left > 0
    /\ net_poll
    /\ left' = left - 1 /\ pc' = "recv_check"
    /\ UNCHANGED <<stream_len, sent, attempt, idle, total, result>>

recv_data ==
    /\ pc = "recv_check" /\ conn.rx # << >>
    /\ LET n == Min({Len(conn.rx), MaxLen - Len(total)})
       IN /\ total' = total \o SubSeq(conn.rx, 1, n)
          /\ conn' = [conn EXCEPT !.rx = SubSeq(@, n + 1, Len(@))]
          /\ pc' = IF Len(total) + n = MaxLen THEN "close" ELSE "recv"
          /\ faults' = IF Len(total) + n = MaxLen /\ MaxLen < stream_len
                       THEN faults \cup {"full"} ELSE faults
    /\ idle' = 0 /\ left' = RecvPolls
    /\ UNCHANGED <<stream_len, sent, attempt, result>>

recv_end_First ==
    /\ pc = "recv_check" /\ conn.fin
    /\ pc' = "close"
    /\ UNCHANGED <<stream_len, conn, sent, attempt, left, idle, total, result, faults>>

recv_end ==
    /\ pc = "recv_check" /\ conn.rx = << >> /\ conn.fin
    /\ pc' = "close"
    /\ UNCHANGED <<stream_len, conn, sent, attempt, left, idle, total, result, faults>>

recv_nothing ==
    /\ pc = "recv_check" /\ conn.rx = << >> /\ ~conn.fin
    /\ pc' = "recv"
    /\ UNCHANGED <<stream_len, conn, sent, attempt, left, idle, total, result, faults>>

Idle_Forever == idle

\* One more call of tcp_recv has timed out.
Idle == idle + 1

recv_timeout ==
    /\ pc = "recv" /\ left = 0
    /\ idle' = Idle
    /\ pc' = IF Idle >= IdleMax THEN "close" ELSE "recv"
    /\ left' = IF Idle >= IdleMax THEN 0 ELSE RecvPolls
    /\ faults' = IF Idle >= IdleMax THEN faults \cup {"idle"} ELSE faults
    /\ UNCHANGED <<stream_len, conn, sent, attempt, total, result>>

\* The body follows the header; without one all that came is taken for it.
Body(t) == IF Len(t) > 1 THEN Tail(t) ELSE t

http_close ==
    /\ pc = "close"
    /\ tcp_close
    /\ IF total = << >> THEN AttemptFails
       ELSE /\ result' = Body(total) /\ pc' = "done"
            /\ left' = 0 /\ idle' = 0
            /\ UNCHANGED <<attempt, total>>
    /\ UNCHANGED <<stream_len, sent, faults>>

-----------------------------------------------------------------------------

Next == \/ http_get \/ resolve_fails \/ (\E ok \in BOOLEAN : tcp_connect(ok) \/ tcp_send(ok))
        \/ connect_poll \/ connect_timeout \/ settle \/ settled
        \/ recv_poll \/ recv_data \/ recv_end \/ recv_nothing \/ recv_timeout \/ http_close

Spec == Init /\ [][Next]_vars

\* The kernel has no preemption: http_get runs until it returns.
FairSpec == Spec /\ WF_vars(Next)

-----------------------------------------------------------------------------
(* Properties *)

Stream == [i \in 1 .. stream_len |-> Unit(conn.port, i)]

\* What has been received is a prefix of what this server said on this
\* connection: nothing out of order, twice, or left over from an earlier
\* attempt, as long as rx_data has not overflowed.
StreamPrefix == "overflow" \notin faults =>
                    \E n \in 0 .. stream_len : Received(conn, total) = SubSeq(Stream, 1, n)

\* A successful http_get returns the body and all of it, unless rx_data
\* overflowed, the end overtook data, the caller's buffer filled up, or it gave up
\* waiting: those four are reported as success.
CompleteUnlessFault == (pc = "done" /\ result # << >> /\ faults = {}) => result = Body(Stream)

\* http_get returns, whatever the network does.
HttpEnds == pc = "resolve" ~> pc = "done"
=============================================================================
