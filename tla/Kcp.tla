-------------------------------- MODULE Kcp --------------------------------
(***************************************************************************)
(* depends/lua-kcp/kcp/ikcp.c, the protocol that carries the messages of a *)
(* UDP connection: two ends number the fragments they send, acknowledge    *)
(* what they get, send again what is not acknowledged in time, and do not  *)
(* send more than the other end has said it has room for.                  *)
(*                                                                         *)
(* kcp[e] is the control block of end e.  Its lists of segments are sets,  *)
(* snd_buf and rcv_buf, as they are sorted by sn.  A message is a sequence *)
(* of bytes, a datagram a sequence of segments.  The network loses,        *)
(* repeats and reorders datagrams.                                         *)
(*                                                                         *)
(* The ikcp functions are operators on a control block, and the functions  *)
(* of src/lkcp.c that lua calls are the actions.                           *)
(*                                                                         *)
(* Clocks are left out: flush may find any set of timers due, those of     *)
(* segments in flight (resendts) and that of the window probe (ts_probe).  *)
(* Stream mode has no binding.                                             *)
(***************************************************************************)
EXTENDS Naturals, Sequences, FiniteSets, SequencesExt

CONSTANTS
  Lens,            \* lengths of messages
  Nocwnds,         \* the values of nocwnd: connlt.lua sets it, ikcp_create does not
  Senders,         \* the ends that send messages
  mss, mtu,        \* bytes of data in a segment; size of a datagram
  WND_RCV,         \* IKCP_WND_RCV: fragments a message has at most, plus one
  snd_wnd, rcv_wnd,
  fastresend, fastlimit,
  IKCP_THRESH_INIT, IKCP_THRESH_MIN,
  MaxMsgs, MaxNet, MaxAcks,   \* bounds: messages of an end, datagrams under way to
                              \* one, acknowledgements it has not sent,
  MaxFaults                   \* datagrams lost or repeated, and timers that run out
                              \* while a datagram is under way

Ends == {"a", "b"}

ASSUME WindowAssumption ==
  WND_RCV \in Nat \ {0} /\ snd_wnd \in Nat \ {0} /\ rcv_wnd \in Nat /\ rcv_wnd >= WND_RCV
ASSUME SizeAssumption == mss \in Nat \ {0} /\ mtu = mss + 1 /\ Lens \subseteq Nat
ASSUME EndsAssumption == Senders \subseteq Ends
ASSUME ResendAssumption ==
  /\ fastresend \in Nat /\ fastlimit \in Nat
  /\ IKCP_THRESH_INIT \in Nat /\ IKCP_THRESH_MIN \in Nat

VARIABLES
  kcp, net,
  faults,           \* how many there have been
  sent, received    \* history: messages an end has sent and received
vars == <<kcp, net, faults, sent, received>>

Peer(e) == IF e = "a" THEN "b" ELSE "a"
Smaller(x, y) == IF x <= y THEN x ELSE y

ikcp_create(nocwnd) ==
  [snd_queue |-> <<>>, rcv_queue |-> <<>>, snd_buf |-> {}, rcv_buf |-> {},
   snd_una |-> 0, snd_nxt |-> 0, rcv_nxt |-> 0, acklist |-> <<>>, probe |-> {},
   rmt_wnd |-> WND_RCV, probe_wait |-> FALSE,
   nocwnd |-> nocwnd, cwnd |-> 0, incr |-> 0, ssthresh |-> IKCP_THRESH_INIT]

Init ==
  /\ \E nocwnd \in Nocwnds : kcp = [e \in Ends |-> ikcp_create(nocwnd)]
  /\ net = {} /\ faults = 0
  /\ sent = [e \in Ends |-> <<>>] /\ received = [e \in Ends |-> <<>>]

-----------------------------------------------------------------------------
(* ikcp_send: a message becomes fragments, of which the last has frg 0;    *)
(* one with too many fragments is refused.                                 *)
Count(len) == IF len <= mss THEN 1 ELSE (len + mss - 1) \div mss

Fragments(data) ==
  LET count == Count(Len(data)) IN
  [i \in 1..count |-> [frg |-> count - i,
                       data |-> SubSeq(data, (i - 1) * mss + 1, Smaller(i * mss, Len(data)))]]

ikcp_send(k, data) == [k EXCEPT !.snd_queue = @ \o Fragments(data)]

lkcp_send(e, len) ==
  LET data == [i \in 1..len |-> <<Len(sent[e]) + 1, i>>] IN
  /\ Len(sent[e]) < MaxMsgs /\ Count(len) < WND_RCV
  /\ kcp' = [kcp EXCEPT ![e] = ikcp_send(@, data)]
  /\ sent' = [sent EXCEPT ![e] = Append(@, data)]
  /\ UNCHANGED <<net, faults, received>>

-----------------------------------------------------------------------------
(* The segments that are next go to rcv_queue as long as that has room.    *)
MoveAvailable(k) ==
  LET Ready(n) == \A i \in 0..n - 1 : \E s \in k.rcv_buf : s.sn = k.rcv_nxt + i
      room == IF Len(k.rcv_queue) < rcv_wnd THEN rcv_wnd - Len(k.rcv_queue) ELSE 0
      n == CHOOSE m \in 0..room : Ready(m) /\ (m = room \/ ~Ready(m + 1))
      Segment(sn) == CHOOSE s \in k.rcv_buf : s.sn = sn IN
  [k EXCEPT !.rcv_queue = @ \o [i \in 1..n |-> [frg |-> Segment(k.rcv_nxt + i - 1).frg,
                                                data |-> Segment(k.rcv_nxt + i - 1).data]],
            !.rcv_buf = {s \in @ : s.sn >= k.rcv_nxt + n},
            !.rcv_nxt = @ + n]

(* ikcp_peeksize: there is a whole message.                                *)
Peek(queue) == queue # <<>> /\ Len(queue) >= queue[1].frg + 1

(* The fragments up to one with frg 0 make a message.                      *)
End(queue) == CHOOSE i \in 1..Len(queue) : /\ queue[i].frg = 0 \/ i = Len(queue)
                                           /\ \A j \in 1..i - 1 : queue[j].frg # 0
Message(queue) == FoldLeft(LAMBDA m, f : m \o f.data, <<>>, SubSeq(queue, 1, End(queue)))

(* ikcp_recv: a message is taken.  An end that had no room tells the other *)
(* that it has some again.                                                 *)
ikcp_recv(k) ==
  LET after == MoveAvailable([k EXCEPT !.rcv_queue = SubSeq(@, End(@) + 1, Len(@))]) IN
  IF Len(k.rcv_queue) >= rcv_wnd /\ Len(after.rcv_queue) < rcv_wnd
  THEN [after EXCEPT !.probe = @ \cup {"ASK_TELL"}] ELSE after

lkcp_recv(e) ==
  /\ Peek(kcp[e].rcv_queue)
  /\ kcp' = [kcp EXCEPT ![e] = ikcp_recv(@)]
  /\ received' = [received EXCEPT ![e] = Append(@, Message(kcp[e].rcv_queue))]
  /\ UNCHANGED <<net, faults, sent>>

-----------------------------------------------------------------------------
(* ikcp_parse_una and ikcp_parse_ack take from snd_buf what the other end  *)
(* has; ikcp_shrink_buf moves snd_una to the first that is left.           *)
ikcp_shrink_buf(k) ==
  [k EXCEPT !.snd_una = IF k.snd_buf = {} THEN k.snd_nxt
                        ELSE CHOOSE n \in {s.sn : s \in k.snd_buf} :
                               \A s \in k.snd_buf : n <= s.sn]

(* Mutant: una is the next the other end waits for, not the last it has.   *)
UnaTooFar(k, una) == ikcp_shrink_buf([k EXCEPT !.snd_buf = {s \in @ : s.sn > una}])

ikcp_parse_una(k, una) == ikcp_shrink_buf([k EXCEPT !.snd_buf = {s \in @ : s.sn >= una}])

ikcp_parse_ack(k, sn) ==
  IF sn < k.snd_una \/ sn >= k.snd_nxt THEN k
  ELSE ikcp_shrink_buf([k EXCEPT !.snd_buf = {s \in @ : s.sn # sn}])

(* Segments sent before one that is acknowledged.  fastack is compared     *)
(* with fastresend only, and stays there.                                  *)
ikcp_parse_fastack(k, sn) ==
  IF sn < k.snd_una \/ sn >= k.snd_nxt THEN k
  ELSE [k EXCEPT !.snd_buf = {[s EXCEPT !.fastack = IF s.sn < sn THEN Smaller(@ + 1, fastresend)
                                                    ELSE @] : s \in @}]

(* ikcp_parse_data: a segment in the window that is not there yet.         *)
ikcp_parse_data(k, seg) ==
  IF seg.sn >= k.rcv_nxt + rcv_wnd \/ seg.sn < k.rcv_nxt THEN k
  ELSE MoveAvailable(IF \E s \in k.rcv_buf : s.sn = seg.sn THEN k
                     ELSE [k EXCEPT !.rcv_buf = @ \cup
                             {[sn |-> seg.sn, frg |-> seg.frg, data |-> seg.data]}])

(* Data is acknowledged if it is not beyond the window, although it may be *)
(* there already.                                                          *)
InputPush(k, seg) ==
  IF seg.sn >= k.rcv_nxt + rcv_wnd THEN k
  ELSE ikcp_parse_data([k EXCEPT !.acklist = Append(@, seg.sn)], seg)

(* One segment of a datagram.                                              *)
InputSegment(k, seg) ==
  LET heard == ikcp_parse_una([k EXCEPT !.rmt_wnd = seg.wnd], seg.una) IN
  CASE seg.cmd = "ACK" -> ikcp_parse_ack(heard, seg.sn)
    [] seg.cmd = "PUSH" -> InputPush(heard, seg)
    [] seg.cmd = "WASK" -> [heard EXCEPT !.probe = @ \cup {"ASK_TELL"}]
    [] OTHER -> heard

(* The congestion window opens when snd_una has moved: by one up to        *)
(* ssthresh, then by a segment for a window of them, and no further than   *)
(* the other end's window.                                                 *)
Widened(k) ==
  LET incr == IF k.incr < mss THEN mss ELSE k.incr
      more == incr + (mss * mss) \div incr + mss \div 16
      wider == IF k.cwnd < k.ssthresh THEN [k EXCEPT !.cwnd = @ + 1, !.incr = @ + mss]
               ELSE [k EXCEPT !.incr = more,
                              !.cwnd = IF (@ + 1) * mss <= more THEN (more + mss - 1) \div mss
                                       ELSE @] IN
  IF wider.cwnd > k.rmt_wnd
  THEN [wider EXCEPT !.cwnd = k.rmt_wnd, !.incr = k.rmt_wnd * mss] ELSE wider

ikcp_input(k, segs) ==
  LET acks == {segs[i].sn : i \in {j \in 1..Len(segs) : segs[j].cmd = "ACK"}}
      done == FoldLeft(InputSegment, k, segs)
      after == IF acks = {} THEN done
               ELSE ikcp_parse_fastack(done, CHOOSE maxack \in acks :
                                               \A sn \in acks : sn <= maxack) IN
  IF ~k.nocwnd /\ after.snd_una > k.snd_una /\ after.cwnd < after.rmt_wnd
  THEN Widened(after) ELSE after

-----------------------------------------------------------------------------
(* ikcp_flush, due being the segments whose time is up, and ask telling    *)
(* whether the time of the window probe is.                                *)

(* Mutant: nobody asks whether there is room again.                        *)
ProbeNever(k, ask) == k

(* If the other end has no room, it is asked for it after a while.         *)
Probe(k, ask) ==
  IF k.rmt_wnd # 0 THEN [k EXCEPT !.probe_wait = FALSE]
  ELSE IF ~k.probe_wait THEN [k EXCEPT !.probe_wait = TRUE]
  ELSE IF ask THEN [k EXCEPT !.probe = @ \cup {"ASK_SEND"}]
  ELSE k

(* What is waiting moves to snd_buf while it fits the windows.             *)
Window(k) == LET wnd == Smaller(snd_wnd, k.rmt_wnd)
             IN  IF k.nocwnd THEN wnd ELSE Smaller(k.cwnd, wnd)

Admit(k) ==
  LET end == k.snd_una + Window(k)
      n == IF k.snd_nxt < end THEN Smaller(end - k.snd_nxt, Len(k.snd_queue)) ELSE 0
      New(i) == [sn |-> k.snd_nxt + i - 1, frg |-> k.snd_queue[i].frg,
                 data |-> k.snd_queue[i].data, xmit |-> 0, fastack |-> 0] IN
  [k EXCEPT !.snd_queue = SubSeq(@, n + 1, Len(@)), !.snd_buf = @ \cup {New(i) : i \in 1..n},
            !.snd_nxt = @ + n]

ProbeIsSet(k) == k.rmt_wnd = 0 /\ k.probe_wait

(* Segments that are sent: for the first time, because their time is up,   *)
(* or because later ones were acknowledged.                                *)
Late(s, due) == s.xmit > 0 /\ s.sn \in due
Overtaken(s, due) ==
  /\ s.xmit > 0 /\ s.sn \notin due
  /\ fastresend > 0 /\ s.fastack >= fastresend /\ s.xmit <= fastlimit
NeedSend(s, due) == s.xmit = 0 \/ Late(s, due) \/ Overtaken(s, due)

(* xmit is compared with fastlimit only, and stays there.                  *)
Transmitted(s, due) ==
  IF ~NeedSend(s, due) THEN s
  ELSE [s EXCEPT !.xmit = Smaller(@ + 1, fastlimit + 1),
                 !.fastack = IF s.xmit = 0 \/ Overtaken(s, due) THEN 0 ELSE @]

(* Segments go into as few datagrams as their order allows; the header of  *)
(* one counts as one byte.                                                 *)
Size(segs) == FoldLeft(LAMBDA n, s : n + 1 + Len(s.data), 0, segs)
Datagrams(segs) ==
  FoldLeft(LAMBDA ds, s : IF ds # <<>> /\ Size(Append(Last(ds), s)) <= mtu
                          THEN Append(Front(ds), Append(Last(ds), s))
                          ELSE Append(ds, <<s>>), <<>>, segs)

(* The congestion window shrinks when something was overtaken, and more    *)
(* when something was late; it is never left empty.                        *)
Narrowed(k, cwnd, due) ==
  LET Half(n) == IF n \div 2 < IKCP_THRESH_MIN THEN IKCP_THRESH_MIN ELSE n \div 2
      fast == IF \E s \in k.snd_buf : Overtaken(s, due)
              THEN LET thresh == Half(k.snd_nxt - k.snd_una)
                   IN  [k EXCEPT !.ssthresh = thresh, !.cwnd = thresh + fastresend,
                                 !.incr = (thresh + fastresend) * mss]
              ELSE k
      slow == IF \E s \in k.snd_buf : Late(s, due)
              THEN [fast EXCEPT !.ssthresh = Half(cwnd), !.cwnd = 1, !.incr = mss] ELSE fast IN
  IF k.nocwnd THEN k
  ELSE IF slow.cwnd < 1 THEN [slow EXCEPT !.cwnd = 1, !.incr = mss] ELSE slow

ikcp_wnd_unused(k) == IF Len(k.rcv_queue) < rcv_wnd THEN rcv_wnd - Len(k.rcv_queue) ELSE 0

(* snd_buf is kept in the order of sn.                                     *)
InOrder(segs) ==
  LET n == Cardinality(segs) IN
  CHOOSE q \in [1..n -> segs] : \A i, j \in 1..n : i < j => q[i].sn < q[j].sn

Output(k, asked, due) ==
  LET Head0(cmd) == [cmd |-> cmd, frg |-> 0, wnd |-> ikcp_wnd_unused(k), sn |-> 0,
                     una |-> k.rcv_nxt, data |-> <<>>]
      acks == [i \in 1..Len(k.acklist) |-> [Head0("ACK") EXCEPT !.sn = k.acklist[i]]]
      Wins == [Head0("WINS") EXCEPT !.sn = IF acks = <<>> THEN 0 ELSE Last(acks).sn]
      Wask == [Wins EXCEPT !.cmd = "WASK"]
      needed == InOrder({s \in k.snd_buf : NeedSend(s, due)})
      data == [i \in 1..Len(needed) |->
                 [Head0("PUSH") EXCEPT !.sn = needed[i].sn, !.frg = needed[i].frg,
                                       !.data = needed[i].data]] IN
  Datagrams(acks \o (IF "ASK_SEND" \in asked THEN <<Wask>> ELSE <<>>)
                 \o (IF "ASK_TELL" \in asked THEN <<Wins>> ELSE <<>>) \o data)

ikcp_flush(k, due) ==
  [Narrowed(k, Window(k), due) EXCEPT !.acklist = <<>>,
                                      !.snd_buf = {Transmitted(s, due) : s \in @}]

(* The network loses some of what is put out.  A timer seldom runs out     *)
(* before what is under way has arrived.                                   *)
Flush(k, due, ask) ==
  LET asking == Probe(k, ask)
      admitted == Admit([asking EXCEPT !.probe = {}]) IN
  [kcp |-> ikcp_flush(admitted, due), out |-> Output(admitted, asking.probe, due)]

Packets(e, out) == {[to |-> Peer(e), segs |-> out[i]] : i \in 1..Len(out)}
HasRoom(e, n) == Cardinality({d \in n : d.to = Peer(e)}) <= MaxNet
InTime(due, ask) == net = {} \/ (due = {} /\ ~ask)

lkcp_flush(e, due, ask) ==
  LET flush == Flush(kcp[e], due, ask)
      packets == Packets(e, flush.out) IN
  /\ ask => ProbeIsSet(kcp[e])
  /\ kcp' = [kcp EXCEPT ![e] = flush.kcp]
  /\ \E drop \in SUBSET packets :
       /\ faults' = faults + Cardinality(drop) + (IF InTime(due, ask) THEN 0 ELSE 1)
       /\ faults' <= MaxFaults
       /\ net' = net \cup (packets \ drop) /\ HasRoom(e, net')
  /\ UNCHANGED <<sent, received>>

(* A datagram arrives, and may arrive again.                               *)
lkcp_input(d) ==
  /\ kcp' = [kcp EXCEPT ![d.to] = ikcp_input(@, d.segs)]
  /\ Len(kcp'[d.to].acklist) <= MaxAcks
  /\ \/ net' = net \ {d} /\ UNCHANGED faults
     \/ faults < MaxFaults /\ faults' = faults + 1 /\ UNCHANGED net
  /\ UNCHANGED <<sent, received>>

InFlight(e) == {s.sn : s \in kcp[e].snd_buf}

Next ==
  \/ \E e \in Senders, len \in Lens : lkcp_send(e, len)
  \/ \E e \in Ends : lkcp_recv(e)
  \/ \E e \in Ends : \E due \in SUBSET InFlight(e), ask \in BOOLEAN : lkcp_flush(e, due, ask)
  \/ \E d \in net : lkcp_input(d)

Spec == Init /\ [][Next]_vars

(* Both ends are updated again and again, timers run out, what is not lost *)
(* arrives, and the owners take what there is: weak and strong fairness of *)
(* the actions, with a guard in place of ENABLED.                          *)
Arriving == \E d \in net : Len(kcp[d.to].acklist) + Len(d.segs) <= MaxAcks
Acts(e, due, ask) ==
  LET flush == Flush(kcp[e], due, ask) IN
  /\ InTime(due, ask) /\ HasRoom(e, net \cup Packets(e, flush.out))
  /\ flush.kcp # kcp[e] \/ flush.out # <<>>

FairSpec ==
  /\ Spec /\ ([]<>~Arriving \/ []<><<\E d \in net : lkcp_input(d)>>_vars)
  /\ \A e \in Ends :
       /\ []<>~Peek(kcp[e].rcv_queue) \/ []<><<lkcp_recv(e)>>_vars
       /\ []<>~Acts(e, {}, FALSE) \/ []<><<lkcp_flush(e, {}, FALSE)>>_vars
       /\ \/ <>[]~Acts(e, InFlight(e), ProbeIsSet(kcp[e]))
          \/ []<><<lkcp_flush(e, InFlight(e), ProbeIsSet(kcp[e]))>>_vars

-----------------------------------------------------------------------------
Has(k, sn) == sn < k.rcv_nxt \/ \E s \in k.rcv_buf : s.sn = sn

(* What an end has received is what the other has sent, message by message *)
(* and in the order sent: nothing is missing, repeated or torn.            *)
StreamIsIntact == \A e \in Ends : IsPrefix(received[e], sent[Peer(e)])

(* A segment the sender has dropped from snd_buf, and one for which an     *)
(* acknowledgement is on its way, is at the other end; and neither end     *)
(* holds more than its window.                                             *)
NothingForgotten ==
  \A e \in Ends :
    LET k == kcp[e] p == kcp[Peer(e)] IN
    /\ \A sn \in 0..k.snd_nxt - 1 : Has(p, sn) \/ \E s \in k.snd_buf : s.sn = sn
    /\ \A i \in 1..Len(p.acklist) : Has(p, p.acklist[i])
    /\ p.rcv_nxt <= k.snd_nxt /\ k.snd_nxt <= k.snd_una + snd_wnd
    /\ Len(k.rcv_queue) <= rcv_wnd /\ Cardinality(k.rcv_buf) <= rcv_wnd

(* Both: what has been received, and what has yet to be.                   *)
NothingIsLost == StreamIsIntact /\ NothingForgotten

(* Everything that is sent is received in the end, although datagrams are  *)
(* lost, the windows close, and the word that one is open again is lost:   *)
(* as the number of messages is bounded, again and again there is nothing  *)
(* under way any more.                                                     *)
EverythingArrives == \A e \in Senders : []<>(received[Peer(e)] = sent[e])
=============================================================================
