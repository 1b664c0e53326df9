-------------------------------- MODULE Net ---------------------------------
(***************************************************************************)
(* Name resolution from the wire up: the receive ring of the NE2000,       *)
(* kernel/drivers/ne2k.c; net_poll, ARP and net_ipv4_send of               *)
(* kernel/net/net.c; the one-datagram mailbox of kernel/net/udp.c and      *)
(* dns_resolve of kernel/net/dns.c.                                        *)
(*                                                                         *)
(* The card stores frames while the driver works.  The network loses,      *)
(* duplicates, delays and reorders: any answer that can have been sent may *)
(* arrive at any time.  The limits of the polling loops are smaller than   *)
(* in the code.                                                            *)
(***************************************************************************)
EXTENDS Naturals, Sequences, FiniteSets

CONSTANTS PG_START, PG_STOP,   \* the pages of the ring
          ArpPolls,            \* 30 in the code
          PingPolls,           \* 40 in the code
          RecvPolls,           \* 40 in the code
          Ports,               \* local ports for queries, 256 in the code
          MaxQueries           \* bound: the number of queries

ASSUME NetAssumption == /\ {PG_START, PG_STOP, Ports, MaxQueries} \subseteq Nat
                        /\ {ArpPolls, PingPolls, RecvPolls} \subseteq Nat
                        /\ PG_START + 2 < PG_STOP /\ Ports > 0

VARIABLES bnry, curr, ring,    \* BNRY, CURR and the memory of the card
          poll,                \* where ne2k_poll is
          rxbuf,               \* the frame it has copied
          out,                 \* the frame it has returned
          arp, gw_mac_valid,   \* arp_ip of the last ARP reply, "" for none
          slot, udp_cb,        \* the mailbox of udp.c; whether on_udp is registered
          pc, left, dst,       \* where the caller is, its counter, its destination
          txid,                \* the last query of dns_resolve
          asked,               \* the queries that left
          answer               \* the query whose answer it returned, 0 for none

cardVars == <<bnry, curr, ring>>
pollVars == <<poll, rxbuf, out>>
netVars == <<arp, gw_mac_valid, slot, udp_cb>>
dnsVars == <<asked, txid, answer>>
callVars == <<pc, left, dst>>
vars == <<cardVars, pollVars, netVars, callVars, dnsVars>>

Pages == PG_START .. PG_STOP - 1

\* A frame, by what the code tells apart: an ARP reply from a host, the answer
\* to a query, and one whose header fails the checks of ne2k_poll.
Frame(kind, who) == [kind |-> kind, who |-> who]
ArpFrom(host) == Frame("arp", host)
AnswerTo(id) == Frame("udp", id)
Bad == Frame("bad", "")
Nothing == Frame("none", "")
Hosts == {"dns", "gw"}
AllFrames == {ArpFrom(h) : h \in Hosts} \cup {AnswerTo(i) : i \in 1 .. MaxQueries} \cup {Bad}

Unused == [frame |-> Nothing, next |-> PG_STOP]
NoSlot == [have |-> FALSE, port |-> 0, id |-> 0]

\* net_init has set up the card and asks for the gateway.
Init == /\ bnry = PG_START /\ curr = PG_START + 1 /\ ring = [p \in Pages |-> Unused]
        /\ poll = "no" /\ rxbuf = Nothing /\ out = Nothing
        /\ gw_mac_valid = FALSE /\ arp = ""
        /\ slot = NoSlot /\ udp_cb = FALSE
        /\ pc = "init" /\ left = ArpPolls /\ dst = "gw"
        /\ txid = 0 /\ asked = {} /\ answer = 0

-----------------------------------------------------------------------------
(* The card *)

Size == PG_STOP - PG_START
Wrap(p) == IF p >= PG_STOP THEN p - Size ELSE p

PagesOf(f) == IF f.kind = "udp" THEN 2 ELSE 1

\* The card stops short of BNRY.
Room == (bnry + Size - curr) % Size

\* A frame from the network; it is lost when there is no room.
receive(f) ==
    /\ PagesOf(f) < Room
    /\ f.kind = "udp" => f.who \in asked
    /\ LET next == Wrap(curr + PagesOf(f))
       IN /\ ring' = [ring EXCEPT ![curr] = [frame |-> f, next |-> next]]
          /\ curr' = next
    /\ UNCHANGED <<bnry, pollVars, netVars, callVars, dnsVars>>

-----------------------------------------------------------------------------
(* ne2k_poll and net_poll *)

Polling == pc \in {"init", "arp", "ping", "recv"} /\ left > 0

\* The page after BNRY, where the oldest frame starts.
NextPage == Wrap(bnry + 1)

poll_begin ==
    /\ Polling /\ poll = "no"
    /\ poll' = IF NextPage = curr THEN "done" ELSE "frame"
    /\ UNCHANGED <<cardVars, rxbuf, out, netVars, callVars, dnsVars>>

\* The header and the data, read while the card may store more behind them.
poll_frame ==
    /\ poll = "frame" /\ ring[NextPage].frame.kind \notin {"bad", "none"}
    /\ rxbuf' = ring[NextPage].frame
    /\ poll' = "bnry"
    /\ UNCHANGED <<cardVars, out, netVars, callVars, dnsVars>>

Before(p) == IF p = PG_START THEN PG_STOP - 1 ELSE p - 1

\* BNRY after ring_recover: just behind the page the card writes next.
Recovered == Before(curr)

\* Everything that waits is dropped.
ring_recover ==
    /\ poll = "frame" /\ ring[NextPage].frame.kind \in {"bad", "none"}
    /\ bnry' = Recovered
    /\ ring' = [p \in Pages |-> Unused]
    /\ poll' = "done"
    /\ UNCHANGED <<curr, rxbuf, out, netVars, callVars, dnsVars>>

NewBnry_Whole == Wrap(bnry + 1)

\* The last page of the frame that was read.
NewBnry == Before(ring[NextPage].next)

\* The pages are given back; what they held is forgotten, as nothing is to read
\* it again.
poll_bnry ==
    /\ poll = "bnry"
    /\ bnry' = NewBnry
    /\ ring' = [ring EXCEPT ![NextPage] = Unused]
    /\ out' = rxbuf /\ rxbuf' = Nothing
    /\ poll' = "handle"
    /\ UNCHANGED <<curr, netVars, callVars, dnsVars>>

PortOf(id) == id % Ports

\* The last ARP reply is kept, and whether the gateway has ever sent one.
handle_arp == /\ arp' = IF out.kind = "arp" THEN out.who ELSE arp
              /\ gw_mac_valid' = (gw_mac_valid \/ out = ArpFrom("gw"))

\* A datagram replaces the one in the mailbox, once on_udp is registered.
on_udp == slot' = IF out.kind = "udp" /\ udp_cb
                  THEN [have |-> TRUE, port |-> PortOf(out.who), id |-> out.who] ELSE slot

net_poll ==
    /\ poll = "handle"
    /\ handle_arp /\ on_udp
    /\ out' = Nothing
    /\ poll' = "done"
    /\ UNCHANGED <<cardVars, rxbuf, udp_cb, callVars, dnsVars>>

-----------------------------------------------------------------------------
(* net_init, net_ping and dns_resolve *)

\* net_ipv4_send: the address of the last ARP reply, if that was the
\* destination's, otherwise it is asked for.
net_ipv4_send(host) ==
    /\ dst' = host
    /\ pc' = IF arp = host THEN "send" ELSE "arp"
    /\ left' = IF arp = host THEN 0 ELSE ArpPolls

net_ping ==
    /\ pc = "idle" /\ net_ipv4_send("gw")
    /\ UNCHANGED <<cardVars, pollVars, netVars, dnsVars>>

dns_resolve ==
    /\ pc = "idle" /\ txid < MaxQueries
    /\ txid' = txid + 1 /\ answer' = 0
    /\ net_ipv4_send("dns")
    /\ UNCHANGED <<cardVars, pollVars, netVars, asked>>

Left_Never == left

\* One turn of a polling loop is over.
Left == left - 1

\* A turn of the loop of net_init, which ends with the gateway's address, or of
\* net_ping, which looks at nothing.
poll_check ==
    /\ pc \in {"init", "ping"} /\ poll = "done"
    /\ left' = IF pc = "init" /\ gw_mac_valid THEN 0 ELSE Left
    /\ poll' = "no"
    /\ UNCHANGED <<cardVars, rxbuf, out, netVars, pc, dst, dnsVars>>

\* A turn of the loop of net_ipv4_send.
arp_check ==
    /\ pc = "arp" /\ poll = "done"
    /\ pc' = IF arp = dst THEN "send" ELSE "arp"
    /\ left' = IF arp = dst THEN 0 ELSE Left
    /\ poll' = "no"
    /\ UNCHANGED <<cardVars, rxbuf, out, netVars, dst, dnsVars>>

\* Without an answer the packet goes to the gateway, if that is known.
arp_timeout ==
    /\ pc = "arp" /\ left = 0 /\ poll = "no"
    /\ pc' = IF gw_mac_valid THEN "send" ELSE "idle"
    /\ UNCHANGED <<cardVars, pollVars, netVars, left, dst, dnsVars>>

send_ping ==
    /\ pc = "send" /\ dst = "gw"
    /\ pc' = "ping" /\ left' = PingPolls
    /\ UNCHANGED <<cardVars, pollVars, netVars, dst, dnsVars>>

\* The card may fail to send; eth_send does not look at the result.
ne2k_send == asked' \in {asked, asked \cup {txid}}

\* The query leaves; only then does udp_recv register on_udp.
send_query ==
    /\ pc = "send" /\ dst = "dns"
    /\ ne2k_send
    /\ udp_cb' = TRUE
    /\ pc' = "recv" /\ left' = RecvPolls
    /\ UNCHANGED <<cardVars, pollVars, arp, gw_mac_valid, slot, dst, txid, answer>>

Mine_Any == slot.have

\* udp_recv compares the port and nothing else.
Mine == slot.have /\ slot.port = PortOf(txid)

\* A turn of the loop of udp_recv; the datagram may hold no address.
recv_check ==
    /\ pc = "recv" /\ poll = "done"
    /\ poll' = "no"
    /\ IF Mine THEN /\ answer' \in {slot.id, 0} /\ pc' = "idle" /\ left' = 0
                    /\ slot' = NoSlot
               ELSE left' = Left /\ UNCHANGED <<slot, pc, answer>>
    /\ UNCHANGED <<cardVars, rxbuf, out, arp, gw_mac_valid, udp_cb, dst, txid, asked>>

\* The counter of the last loop of a call has run out.
timeout ==
    /\ pc \in {"init", "ping", "recv"} /\ left = 0 /\ poll = "no"
    /\ pc' = "idle"
    /\ UNCHANGED <<cardVars, pollVars, netVars, left, dst, dnsVars>>

-----------------------------------------------------------------------------

Driver == poll_begin \/ poll_frame \/ ring_recover \/ poll_bnry \/ net_poll

Caller == \/ poll_check \/ arp_check \/ arp_timeout
          \/ send_ping \/ send_query \/ recv_check \/ timeout

Next == (\E f \in AllFrames : receive(f)) \/ Driver \/ net_ping \/ dns_resolve \/ Caller

Spec == Init /\ [][Next]_vars

\* The console thread polls on; nobody has to answer.
FairSpec == Spec /\ WF_vars(Driver \/ Caller)

-----------------------------------------------------------------------------
(* Properties *)

\* The frames from page p to CURR.
Pending ==
    LET from[n \in Nat, p \in Pages] ==
            IF n = 0 \/ p = curr THEN << >>
            ELSE IF ring[p].frame = Nothing THEN <<Nothing>>
            ELSE <<ring[p].frame>> \o from[n - 1, ring[p].next]
    IN from[Size, NextPage]

Queue == INSTANCE DeviceQueue WITH Items <- AllFrames, queue <- Pending

\* However the card's writes fall between the driver's accesses, and wherever
\* the ring wraps around, the ring is a queue: no frame is skipped, read twice
\* or overwritten, and only a bad frame makes the driver drop others.
RingIsQueue == Queue!Spec

\* An address dns_resolve returns answers its own query, not an earlier one whose
\* answer was late or doubled; as long as no port is used twice.
AnswersThisQuery == answer # 0 => answer = txid

\* net_init, net_ping and dns_resolve return, whatever arrives and whatever does
\* not.
CallsEnd == pc # "idle" ~> pc = "idle"
=============================================================================
