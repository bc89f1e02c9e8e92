----------------------------- MODULE KcpProofs -----------------------------
(***************************************************************************)
(* Proofs about Kcp, for windows, segments, datagrams and messages of any  *)
(* size.                                                                   *)
(*                                                                         *)
(* There is for each end a stream F, the fragments of all the messages it  *)
(* has sent, which B cuts into messages.  What is in the queues and the    *)
(* buffers of both ends (Sending, Receiving) and in the datagrams under    *)
(* way (Good) is part of it, in its place.  A late or repeated datagram    *)
(* does no harm because it still is when both ends have gone on: what an   *)
(* end has only grows (Grown).                                             *)
(*                                                                         *)
(* First come lemmas about folds and sequences, then one for each function *)
(* of ikcp.c, then one for each action.                                    *)
(***************************************************************************)
EXTENDS Kcp, FiniteSetTheorems, FunctionTheorems, SequenceTheorems, WellFoundedInduction, TLAPS

-----------------------------------------------------------------------------
(* Every set of naturals that is not empty has a least element.            *)
Smaller2 == {p \in Nat \X Nat : p[1] < p[2]}

LEMMA LeastOf ==
  ASSUME NEW S \in SUBSET Nat, S # {}
  PROVE  \E x \in S : \A y \in S : x <= y
  <1>1. IsWellFoundedOn(Smaller2, Nat)
    BY NatLessThanWellFounded DEF OpToRel, Smaller2
  <1>2. PICK x \in S : \A y \in S : ~ (<<y, x>> \in Smaller2)
    BY <1>1, WFMin
  <1>3. x \in Nat /\ \A y \in S : y \in Nat /\ ~ (y < x)
    BY <1>2 DEF Smaller2
  <1> QED
    BY <1>3

-----------------------------------------------------------------------------
(* FoldLeft, with which Kcp puts a message together, packs datagrams and   *)
(* takes the segments of one.  What is folded:                             *)
Packed(ds, s) ==
  IF ds # <<>> /\ Size(Append(Last(ds), s)) <= mtu
  THEN Append(Front(ds), Append(Last(ds), s)) ELSE Append(ds, <<s>>)

Step(what, x, y) ==
  IF what = "message" THEN x \o y.data
  ELSE IF what = "datagrams" THEN Packed(x, y)
  ELSE InputSegment(x, y)

(* One step of the fold, and a table of its values on the subsets of S.    *)
FoldStep(what, base, seq, F, s) ==
  IF s = {} THEN base ELSE LET x == Max(s) IN Step(what, F[s \ {x}], seq[x])

IsFold(what, base, seq, S, F) ==
  F = [s \in SUBSET S |-> FoldStep(what, base, seq, F, s)]

Folded(what, base, seq) ==
  (CHOOSE F : IsFold(what, base, seq, DOMAIN seq, F))[DOMAIN seq]

(* A message is folded of its fragments.                                   *)
LEMMA MessageIsFolded ==
  ASSUME NEW seq PROVE FoldLeft(LAMBDA m, f : m \o f.data, <<>>, seq) = Folded("message", <<>>, seq)
  <1> DEFINE Is(F) == F = [s \in SUBSET DOMAIN seq |->
                            IF s = {} THEN <<>> ELSE LET x == Max(s) IN F[s \ {x}] \o seq[x].data]
  <1>1. ASSUME NEW F PROVE Is(F) <=> IsFold("message", <<>>, seq, DOMAIN seq, F)
    BY DEF IsFold, FoldStep, Step
  <1>2. FoldLeft(LAMBDA m, f : m \o f.data, <<>>, seq) = (CHOOSE F : Is(F))[DOMAIN seq]
    BY DEF FoldLeft, MapThenFoldSet
  <1> QED
    BY <1>1, <1>2 DEF Folded

(* Datagrams are folded of the segments in them.                           *)
LEMMA DatagramsAreFolded ==
  ASSUME NEW seq PROVE Datagrams(seq) = Folded("datagrams", <<>>, seq)
  <1> DEFINE Is(F) == F = [s \in SUBSET DOMAIN seq |->
                            IF s = {} THEN <<>> ELSE LET x == Max(s) IN Packed(F[s \ {x}], seq[x])]
  <1>1. ASSUME NEW F PROVE Is(F) <=> IsFold("datagrams", <<>>, seq, DOMAIN seq, F)
    BY DEF IsFold, FoldStep, Step
  <1>2. Datagrams(seq) = (CHOOSE F : Is(F))[DOMAIN seq]
    BY DEF Datagrams, FoldLeft, MapThenFoldSet, Packed
  <1> QED
    BY <1>1, <1>2 DEF Folded

(* A datagram that arrives is folded segment by segment.                   *)
LEMMA InputIsFolded ==
  ASSUME NEW k, NEW seq PROVE FoldLeft(InputSegment, k, seq) = Folded("input", k, seq)
  <1> DEFINE Is(F) == F = [s \in SUBSET DOMAIN seq |->
                            IF s = {} THEN k ELSE LET x == Max(s) IN InputSegment(F[s \ {x}], seq[x])]
  <1>1. ASSUME NEW F PROVE Is(F) <=> IsFold("input", k, seq, DOMAIN seq, F)
    BY DEF IsFold, FoldStep, Step
  <1>2. FoldLeft(InputSegment, k, seq) = (CHOOSE F : Is(F))[DOMAIN seq]
    BY DEF FoldLeft, MapThenFoldSet
  <1> QED
    BY <1>1, <1>2 DEF Folded

(* The largest of 1..n is n.                                               *)
LEMMA MaxOfRange ==
  ASSUME NEW m \in Nat, NEW s \in SUBSET (1..m+1), m+1 \in s
  PROVE Max(s) = m+1
  <1>1. \A y \in s : m + 1 >= y
    OBVIOUS
  <1>2. Max(s) \in s /\ \A y \in s : Max(s) >= y
    BY <1>1 DEF Max
  <1>3. Max(s) \in 1..m+1 /\ Max(s) >= m + 1
    BY <1>2
  <1> QED
    BY <1>3

(* The table exists: one more element adds the sets that hold it.          *)
LEMMA FoldExists ==
  ASSUME NEW what, NEW base, NEW seq, NEW n \in Nat
  PROVE \E F : IsFold(what, base, seq, 1..n, F)
  <1> DEFINE Bad == {m \in Nat : ~ \E F : IsFold(what, base, seq, 1..m, F)}
  <1>1. SUFFICES ASSUME Bad # {} PROVE FALSE
    OBVIOUS
  <1>2. PICK m \in Bad : \A y \in Bad : m <= y
    BY <1>1, LeastOf
  <1>3. CASE m = 0
    <2> DEFINE F == [s \in {{}} |-> base]
    <2>1. SUBSET (1..m) = {{}}
      BY <1>3
    <2>2. F = [s \in {{}} |-> FoldStep(what, base, seq, F, s)]
      BY DEF FoldStep
    <2>3. IsFold(what, base, seq, 1..m, F)
      BY <2>1, <2>2 DEF IsFold
    <2> QED
      BY <2>3
  <1>4. CASE m # 0
    <2> DEFINE l == m - 1
    <2>1. l \in Nat /\ m = l + 1 /\ l \notin Bad
      BY <1>2, <1>4
    <2> HIDE DEF l
    <2>2. PICK F : IsFold(what, base, seq, 1..l, F)
      BY <2>1
    <2> DEFINE G == [s \in SUBSET (1..m) |->
                       IF m \in s THEN Step(what, F[s \ {m}], seq[m]) ELSE F[s]]
    <2>3. \A s \in SUBSET (1..m) : s \ {m} \in SUBSET (1..l) /\ (m \notin s => s \in SUBSET (1..l))
      BY <2>1
    <2>4. \A s \in SUBSET (1..l) : s \in SUBSET (1..m) /\ m \notin s
      BY <2>1
    <2>5. \A s \in SUBSET (1..l) : G[s] = F[s]
      BY <2>4
    <2>6. ASSUME NEW s \in SUBSET (1..m), m \in s
          PROVE G[s] = FoldStep(what, base, seq, G, s)
      <3>1. Max(s) = m /\ s # {}
        BY <2>1, <2>6, MaxOfRange
      <3>2. G[s \ {m}] = F[s \ {m}]
        BY <2>3, <2>5
      <3>3. G[s] = Step(what, F[s \ {m}], seq[m])
        BY <2>6
      <3> HIDE DEF G
      <3> QED
        BY <3>1, <3>2, <3>3 DEF FoldStep
    <2>7. ASSUME NEW s \in SUBSET (1..m), m \notin s
          PROVE G[s] = FoldStep(what, base, seq, G, s)
      <3>1. s \in SUBSET (1..l) /\ s \ {Max(s)} \in SUBSET (1..l)
        BY <2>3, <2>7
      <3>2. F[s] = FoldStep(what, base, seq, F, s)
        BY <2>2, <3>1 DEF IsFold
      <3>3. G[s] = F[s] /\ G[s \ {Max(s)}] = F[s \ {Max(s)}]
        BY <2>5, <3>1
      <3> HIDE DEF G
      <3> QED
        BY <3>2, <3>3 DEF FoldStep
    <2>8. \A s \in SUBSET (1..m) : G[s] = FoldStep(what, base, seq, G, s)
      BY <2>6, <2>7
    <2>9. G = [s \in SUBSET (1..m) |-> G[s]]
      OBVIOUS
    <2> HIDE DEF G
    <2>10. IsFold(what, base, seq, 1..m, G)
      BY <2>8, <2>9 DEF IsFold
    <2> QED
      BY <1>2, <2>10
  <1> QED
    BY <1>3, <1>4

(* The values a fold goes through.                                         *)
Run(what, base, seq, h) ==
  /\ h[0] = base /\ h[Len(seq)] = Folded(what, base, seq)
  /\ \A i \in 1..Len(seq) : h[i] = Step(what, h[i - 1], seq[i])

LEMMA FoldRun ==
  ASSUME NEW what, NEW base, NEW S, NEW seq \in Seq(S)
  PROVE \E h : Run(what, base, seq, h)
  <1> DEFINE n == Len(seq)
             F == CHOOSE G : IsFold(what, base, seq, 1..n, G)
             h == [i \in 0..n |-> F[1..i]]
  <1>1. n \in Nat /\ DOMAIN seq = 1..n
    BY LenProperties
  <1>2. IsFold(what, base, seq, 1..n, F)
    BY <1>1, FoldExists
  <1>3. F[1..n] = Folded(what, base, seq)
    BY <1>1 DEF Folded
  <1> HIDE DEF n, F
  <1>4. ASSUME NEW i \in 0..n PROVE F[1..i] = FoldStep(what, base, seq, F, 1..i)
    <2>1. 1..i \in SUBSET (1..n)
      BY <1>1
    <2> QED
      BY <1>2, <2>1 DEF IsFold
  <1>5. h[0] = base
    <2>1. 1..0 = {} /\ 0 \in 0..n
      BY <1>1
    <2> QED
      BY <1>4, <2>1 DEF FoldStep
  <1>6. ASSUME NEW i \in 1..n PROVE h[i] = Step(what, h[i - 1], seq[i])
    <2> DEFINE l == i - 1
    <2>1. l \in Nat /\ i = l + 1 /\ l \in 0..n /\ i \in 0..n
      BY <1>1
    <2> HIDE DEF l
    <2>2. i \in 1..i
      BY <2>1
    <2>3. Max(1..i) = i
      BY <2>1, <2>2, MaxOfRange
    <2>4. (1..i) \ {i} = 1..l /\ 1..i # {}
      <3>1. \A j : j \in (1..i) \ {i} <=> j \in 1..l
        BY <2>1
      <3> QED
        BY <2>2, <3>1
    <2>5. F[1..i] = Step(what, F[1..l], seq[i])
      BY <1>4, <2>1, <2>3, <2>4 DEF FoldStep
    <2>6. h[i] = F[1..i] /\ h[l] = F[1..l]
      BY <2>1
    <2> QED
      BY <2>5, <2>6 DEF l
  <1>7. h[n] = Folded(what, base, seq)
    BY <1>1, <1>3
  <1>8. Run(what, base, seq, h)
    BY <1>5, <1>6, <1>7 DEF n, Run
  <1> QED
    BY <1>8

(* What every step of a fold keeps, the fold keeps.                        *)
LEMMA FoldKeeps ==
  ASSUME NEW what, NEW base, NEW S, NEW T, NEW seq \in Seq(S), base \in T,
         \A x \in T, y \in S : Step(what, x, y) \in T
  PROVE Folded(what, base, seq) \in T
  <1>0. PICK h : Run(what, base, seq, h)
    BY FoldRun
  <1>1. /\ h[0] = base /\ h[Len(seq)] = Folded(what, base, seq)
        /\ \A i \in 1..Len(seq) : h[i] = Step(what, h[i - 1], seq[i])
    BY <1>0 DEF Run
  <1> DEFINE Bad == {i \in 0..Len(seq) : h[i] \notin T}
  <1>2. SUFFICES Bad = {}
    BY <1>1, LenProperties
  <1>3. ASSUME Bad # {} PROVE FALSE
    <2>1. Bad \in SUBSET Nat
      BY LenProperties
    <2>2. PICK m \in Bad : \A y \in Bad : m <= y
      BY <1>3, <2>1, LeastOf
    <2>3. m # 0 /\ m \in 1..Len(seq) /\ m - 1 \in 0..Len(seq) /\ ~ (m <= m - 1)
      BY <1>1, <2>2, LenProperties
    <2>4. h[m - 1] \in T /\ seq[m] \in S
      BY <2>2, <2>3, ElementOfSeq
    <2> QED
      BY <1>1, <2>2, <2>3, <2>4
  <1> QED
    BY <1>3

-----------------------------------------------------------------------------
(* What a control block and a datagram hold.                               *)
Bytes == Nat \X Nat
Frag == [frg : Nat, data : Seq(Bytes)]
RcvSeg == [sn : Nat, frg : Nat, data : Seq(Bytes)]
SndSeg == [sn : Nat, frg : Nat, data : Seq(Bytes), xmit : Nat, fastack : Nat]
Segment == [cmd : {"ACK", "PUSH", "WASK", "WINS"}, frg : Nat, wnd : Nat, sn : Nat, una : Nat,
            data : Seq(Bytes)]
Block ==
  [snd_queue : Seq(Frag), rcv_queue : Seq(Frag), snd_buf : SUBSET SndSeg, rcv_buf : SUBSET RcvSeg,
   snd_una : Nat, snd_nxt : Nat, rcv_nxt : Nat, acklist : Seq(Nat),
   probe : SUBSET {"ASK_TELL", "ASK_SEND"}, rmt_wnd : Nat, probe_wait : BOOLEAN,
   nocwnd : Nocwnds, cwnd : Nat, incr : Nat, ssthresh : Nat]

-----------------------------------------------------------------------------
(* The stream F of an end: the fragments of the messages it has sent, one  *)
(* after the other; message m ends where B[m] says.                        *)
Streams == Seq(Frag)
Cut(msgs, F, B) ==
  /\ F \in Streams
  /\ B[0] = 0 /\ B[Len(msgs)] = Len(F)
  /\ \A m \in 0..Len(msgs) : B[m] \in Nat /\ B[m] <= Len(F)
  /\ \A m \in 1..Len(msgs) :
       /\ B[m] = B[m - 1] + Count(Len(msgs[m]))
       /\ \A i \in 1..Count(Len(msgs[m])) : F[B[m - 1] + i] = Fragments(msgs[m])[i]

(* A segment has the fragment of its number.                               *)
At(F, s) == s.sn < Len(F) /\ F[s.sn + 1] = [frg |-> s.frg, data |-> s.data]

(* What block k has of the stream F it sends to p: what is in its queue    *)
(* and its buffer, and that what is in neither is at p.                    *)
Sending(k, p, F) ==
  /\ k.snd_una <= k.snd_nxt /\ k.snd_nxt <= k.snd_una + snd_wnd /\ k.snd_nxt <= Len(F)
  /\ k.snd_queue = SubSeq(F, k.snd_nxt + 1, Len(F))
  /\ \A s \in k.snd_buf : k.snd_una <= s.sn /\ s.sn < k.snd_nxt /\ At(F, s)
  /\ \A s, t \in k.snd_buf : s.sn = t.sn => s = t
  /\ \A sn \in 0..k.snd_nxt - 1 : Has(p, sn) \/ \E s \in k.snd_buf : s.sn = sn

(* What block p has of the stream F, of which k has sent nxt fragments and *)
(* base are in messages already taken.                                     *)
Receiving(p, nxt, F, base) ==
  /\ base <= p.rcv_nxt /\ p.rcv_nxt <= nxt
  /\ p.rcv_queue = SubSeq(F, base + 1, p.rcv_nxt) /\ Len(p.rcv_queue) <= rcv_wnd
  /\ \A s \in p.rcv_buf : p.rcv_nxt <= s.sn /\ s.sn < p.rcv_nxt + rcv_wnd /\ s.sn < nxt /\ At(F, s)
  /\ \A i \in 1..Len(p.acklist) : Has(p, p.acklist[i])

(* What block q may have sent in a datagram, now or earlier: F is its      *)
(* stream.                                                                 *)
Good(q, F) ==
  {seg \in Segment :
     /\ seg.una <= q.rcv_nxt
     /\ seg.cmd = "ACK" => Has(q, seg.sn)
     /\ seg.cmd = "PUSH" => seg.sn < q.snd_nxt /\ At(F, seg)}

(* No part of what k knows is lost in l.                                   *)
Grown(k, l) ==
  /\ k.rcv_nxt <= l.rcv_nxt /\ k.snd_nxt <= l.snd_nxt
  /\ \A sn \in Nat : Has(k, sn) => Has(l, sn)

SameTx(k, l) ==
  /\ l.snd_queue = k.snd_queue /\ l.snd_buf = k.snd_buf
  /\ l.snd_una = k.snd_una /\ l.snd_nxt = k.snd_nxt
SameRx(k, l) ==
  /\ l.rcv_queue = k.rcv_queue /\ l.rcv_buf = k.rcv_buf
  /\ l.rcv_nxt = k.rcv_nxt /\ l.acklist = k.acklist

(* Changes of the probe and of the congestion window.                      *)
LEMMA Told ==
  ASSUME NEW k \in Block, NEW l, l = [k EXCEPT !.probe = @ \cup {"ASK_TELL"}]
  PROVE l \in Block /\ SameTx(k, l) /\ SameRx(k, l)
  <1>1. k.probe \cup {"ASK_TELL"} \in SUBSET {"ASK_TELL", "ASK_SEND"}
    BY DEF Block
  <1>2. l \in Block
    BY <1>1 DEF Block
  <1>3. SameTx(k, l)
    BY DEF Block, SameTx
  <1>4. SameRx(k, l)
    BY DEF Block, SameRx
  <1> QED
    BY <1>2, <1>3, <1>4

(* Another congestion window.                                              *)
LEMMA Paced ==
  ASSUME NEW k \in Block, NEW c \in Nat, NEW i \in Nat, NEW l,
         l = [k EXCEPT !.cwnd = c, !.incr = i]
  PROVE l \in Block /\ SameTx(k, l) /\ SameRx(k, l)
  <1>1. l \in Block
    BY DEF Block
  <1>2. SameTx(k, l)
    BY DEF Block, SameTx
  <1>3. SameRx(k, l)
    BY DEF Block, SameRx
  <1> QED
    BY <1>1, <1>2, <1>3

(* Nothing is changed.                                                     *)
LEMMA SameIsSame ==
  ASSUME NEW k PROVE SameTx(k, k) /\ SameRx(k, k)
  BY DEF SameTx, SameRx

(* What grows twice has grown.                                             *)
LEMMA GrownIsTransitive ==
  ASSUME NEW k \in Block, NEW l \in Block, NEW m \in Block, Grown(k, l), Grown(l, m)
  PROVE Grown(k, m)
  <1>1. /\ k.rcv_nxt \in Nat /\ l.rcv_nxt \in Nat /\ m.rcv_nxt \in Nat
        /\ k.snd_nxt \in Nat /\ l.snd_nxt \in Nat /\ m.snd_nxt \in Nat
    BY DEF Block
  <1> QED
    BY <1>1 DEF Grown

(* What is sent stays a part of the stream while the other end grows.      *)
LEMMA SendingIsKept ==
  ASSUME NEW k \in Block, NEW l \in Block, NEW p \in Block, NEW q \in Block, NEW F,
         Sending(k, p, F), SameTx(k, l), Grown(p, q)
  PROVE Sending(l, q, F)
  <1>1. \A sn \in 0..k.snd_nxt - 1 : sn \in Nat
    BY DEF Block
  <1> QED
    BY <1>1 DEF Sending, SameTx, Grown

(* An end has what its buffer and rcv_nxt say.                             *)
LEMMA SameHas ==
  ASSUME NEW k, NEW l, SameRx(k, l), NEW sn
  PROVE Has(k, sn) <=> Has(l, sn)
  BY DEF SameRx, Has

(* An end whose receiving half is left alone has lost nothing.             *)
LEMMA SameIsGrown ==
  ASSUME NEW k \in Block, NEW l \in Block, SameRx(k, l), k.snd_nxt <= l.snd_nxt
  PROVE Grown(k, l)
  <1>1. k.rcv_nxt \in Nat /\ l.rcv_nxt = k.rcv_nxt
    BY DEF Block, SameRx
  <1>2. \A sn \in Nat : Has(k, sn) => Has(l, sn)
    BY SameHas
  <1> QED
    BY <1>1, <1>2 DEF Grown

(* What is received stays a part of the stream while the other end sends   *)
(* more.                                                                   *)
LEMMA ReceivingIsKept ==
  ASSUME NEW k \in Block, NEW l \in Block, NEW n \in Nat, NEW m \in Nat, n <= m,
         NEW F, NEW base, Receiving(k, n, F, base), SameRx(k, l)
  PROVE Receiving(l, m, F, base)
  <1>1. k.rcv_nxt \in Nat /\ l.rcv_nxt = k.rcv_nxt /\ k.rcv_nxt <= n
    BY DEF Receiving, SameRx, Block
  <1>2. \A i \in 1..Len(l.acklist) : Has(l, l.acklist[i])
    BY SameHas DEF Receiving, SameRx
  <1>3. \A s \in l.rcv_buf : l.rcv_nxt <= s.sn /\ s.sn < l.rcv_nxt + rcv_wnd /\ s.sn < m /\ At(F, s)
    <2>1. \A s \in l.rcv_buf : s.sn \in Nat /\ s.sn < n
      BY DEF Receiving, SameRx, Block, RcvSeg
    <2> QED
      BY <2>1 DEF Receiving, SameRx
  <1>4. base <= l.rcv_nxt /\ l.rcv_nxt <= m
    BY <1>1 DEF Receiving
  <1> QED
    BY <1>2, <1>3, <1>4 DEF Receiving, SameRx

-----------------------------------------------------------------------------
(* The sender.  What is dropped from snd_buf is at the other end.          *)
LEMMA Shrunk ==
  ASSUME NEW k \in Block, NEW p, NEW F, Sending(k, p, F),
         NEW keep \in SUBSET k.snd_buf, \A s \in k.snd_buf \ keep : Has(p, s.sn),
         NEW l, l = ikcp_shrink_buf([k EXCEPT !.snd_buf = keep])
  PROVE l \in Block /\ Sending(l, p, F) /\ SameRx(k, l) /\ l.snd_nxt = k.snd_nxt
  <1> DEFINE sns == {s.sn : s \in keep}
             una == IF keep = {} THEN k.snd_nxt
                    ELSE CHOOSE n \in sns : \A s \in keep : n <= s.sn
  <1>1. /\ k.snd_una \in Nat /\ k.snd_nxt \in Nat /\ k.snd_buf \in SUBSET SndSeg
        /\ snd_wnd \in Nat
    BY WindowAssumption DEF Block
  <1>2. \A s \in keep : s.sn \in Nat /\ k.snd_una <= s.sn /\ s.sn < k.snd_nxt
    BY <1>1 DEF SndSeg, Sending
  <1>3. una \in Nat /\ k.snd_una <= una /\ una <= k.snd_nxt /\ \A s \in keep : una <= s.sn
    <2>1. CASE keep = {}
      BY <1>1, <2>1 DEF Sending
    <2>2. CASE keep # {}
      <3>1. sns \in SUBSET Nat /\ sns # {}
        BY <1>2, <2>2
      <3>2. \E x \in sns : \A y \in sns : x <= y
        BY <3>1, LeastOf
      <3>3. \E x \in sns : \A s \in keep : x <= s.sn
        BY <3>2
      <3>4. una \in sns /\ \A s \in keep : una <= s.sn
        BY <2>2, <3>3
      <3>5. PICK s \in keep : una = s.sn
        BY <3>4
      <3> QED
        BY <1>1, <1>2, <3>4, <3>5
    <2> QED
      BY <2>1, <2>2
  <1>4. l = [[k EXCEPT !.snd_buf = keep] EXCEPT !.snd_una = una]
    BY DEF ikcp_shrink_buf, Block
  <1> HIDE DEF una, sns
  <1>5. l \in Block
    BY <1>1, <1>3, <1>4 DEF Block
  <1>6. /\ l.snd_una = una /\ l.snd_buf = keep /\ l.snd_nxt = k.snd_nxt
        /\ l.snd_queue = k.snd_queue /\ SameRx(k, l)
    BY <1>4 DEF Block, SameRx
  <1>7. \A sn \in 0..k.snd_nxt - 1 : Has(p, sn) \/ \E s \in keep : s.sn = sn
    BY DEF Sending
  <1>8. k.snd_nxt <= una + snd_wnd
    BY <1>1, <1>3 DEF Sending
  <1> QED
    BY <1>2, <1>3, <1>5, <1>6, <1>7, <1>8 DEF Sending

(* ikcp_parse_una, for what the other end has.                             *)
LEMMA ParsedUna ==
  ASSUME NEW k \in Block, NEW p \in Block, NEW F, Sending(k, p, F),
         NEW una \in Nat, una <= p.rcv_nxt, NEW l, l = ikcp_parse_una(k, una)
  PROVE l \in Block /\ Sending(l, p, F) /\ SameRx(k, l) /\ l.snd_nxt = k.snd_nxt
  <1> DEFINE keep == {s \in k.snd_buf : s.sn >= una}
  <1>1. \A s \in k.snd_buf : s.sn \in Nat
    BY DEF Block, SndSeg
  <1>2. p.rcv_nxt \in Nat
    BY DEF Block
  <1>3. \A s \in k.snd_buf \ keep : Has(p, s.sn)
    BY <1>1, <1>2 DEF Has
  <1>4. l = ikcp_shrink_buf([k EXCEPT !.snd_buf = keep])
    BY DEF ikcp_parse_una, Block
  <1> QED
    BY <1>3, <1>4, Shrunk

(* ikcp_parse_ack, for a segment the other end has.                        *)
LEMMA ParsedAck ==
  ASSUME NEW k \in Block, NEW p \in Block, NEW F, Sending(k, p, F),
         NEW sn \in Nat, Has(p, sn), NEW l, l = ikcp_parse_ack(k, sn)
  PROVE l \in Block /\ Sending(l, p, F) /\ SameRx(k, l) /\ l.snd_nxt = k.snd_nxt
  <1>1. CASE sn < k.snd_una \/ sn >= k.snd_nxt
    BY <1>1 DEF ikcp_parse_ack, SameRx
  <1>2. CASE ~ (sn < k.snd_una \/ sn >= k.snd_nxt)
    <2> DEFINE keep == {s \in k.snd_buf : s.sn # sn}
    <2>1. \A s \in k.snd_buf \ keep : Has(p, s.sn)
      OBVIOUS
    <2>2. l = ikcp_shrink_buf([k EXCEPT !.snd_buf = keep])
      BY <1>2 DEF ikcp_parse_ack, Block
    <2> QED
      BY <2>1, <2>2, Shrunk
  <1> QED
    BY <1>1, <1>2

(* Counting in its segments does not change what snd_buf has: f gives the  *)
(* segment with its counters.                                              *)
LEMMA Recounted ==
  ASSUME NEW k \in Block, NEW l \in Block, NEW p, NEW F, Sending(k, p, F), NEW f,
         \A s \in k.snd_buf : f[s].sn = s.sn /\ f[s].frg = s.frg /\ f[s].data = s.data,
         l.snd_buf = {f[s] : s \in k.snd_buf}, l.snd_queue = k.snd_queue,
         l.snd_una = k.snd_una, l.snd_nxt = k.snd_nxt
  PROVE Sending(l, p, F)
  <1>1. ASSUME NEW s \in l.snd_buf
        PROVE k.snd_una <= s.sn /\ s.sn < k.snd_nxt /\ At(F, s)
    <2>1. PICK t \in k.snd_buf : s = f[t]
      OBVIOUS
    <2> QED
      BY <2>1 DEF Sending, At
  <1>2. ASSUME NEW s \in l.snd_buf, NEW t \in l.snd_buf, s.sn = t.sn
        PROVE s = t
    <2>1. PICK u \in k.snd_buf, v \in k.snd_buf : s = f[u] /\ t = f[v]
      OBVIOUS
    <2>2. u = v
      BY <1>2, <2>1 DEF Sending
    <2> QED
      BY <2>1, <2>2
  <1>3. \A sn \in 0..k.snd_nxt - 1 : Has(p, sn) \/ \E s \in l.snd_buf : s.sn = sn
    BY DEF Sending
  <1> QED
    BY <1>1, <1>2, <1>3 DEF Sending

-----------------------------------------------------------------------------
(* Parts of a sequence.                                                    *)
LEMMA Part ==
  ASSUME NEW S, NEW seq \in Seq(S), NEW m \in 1..Len(seq) + 1, NEW n \in m - 1..Len(seq)
  PROVE  /\ SubSeq(seq, m, n) \in Seq(S) /\ Len(SubSeq(seq, m, n)) = n - m + 1
         /\ \A i \in 1..n - m + 1 : SubSeq(seq, m, n)[i] = seq[m + i - 1]
  <1>1. Len(seq) \in Nat /\ m \in Int /\ n \in Int /\ m \in Nat /\ n \in Nat
    BY LenProperties
  <1>2. \A i \in m..n : seq[i] \in S
    BY <1>1, ElementOfSeq
  <1>3. /\ SubSeq(seq, m, n) \in Seq(S)
        /\ Len(SubSeq(seq, m, n)) = IF m <= n THEN n - m + 1 ELSE 0
        /\ \A i \in 1..n - m + 1 : SubSeq(seq, m, n)[i] = seq[m + i - 1]
    BY <1>1, <1>2, SubSeqProperties
  <1> QED
    BY <1>1, <1>3

(* Sequences are equal that have the same elements.                        *)
LEMMA SameSequence ==
  ASSUME NEW S, NEW T, NEW s \in Seq(S), NEW t \in Seq(T), Len(s) = Len(t),
         \A i \in 1..Len(s) : s[i] = t[i]
  PROVE s = t
  OBVIOUS

(* A part of a part of a sequence.                                         *)
LEMMA PartOfPart ==
  ASSUME NEW S, NEW seq \in Seq(S), NEW m \in 1..Len(seq) + 1, NEW n \in m - 1..Len(seq),
         NEW a \in 1..n - m + 2, NEW b \in a - 1..n - m + 1
  PROVE SubSeq(SubSeq(seq, m, n), a, b) = SubSeq(seq, m + a - 1, m + b - 1)
  <1> DEFINE t == SubSeq(seq, m, n)
             u == SubSeq(t, a, b)
             v == SubSeq(seq, m + a - 1, m + b - 1)
  <1>1. /\ Len(seq) \in Nat /\ m \in Nat /\ n \in Nat /\ a \in Nat /\ b \in Nat
        /\ m >= 1 /\ m <= Len(seq) + 1 /\ n >= m - 1 /\ n <= Len(seq)
        /\ a >= 1 /\ a <= n - m + 2 /\ b >= a - 1 /\ b <= n - m + 1
    BY LenProperties
  <1>2. t \in Seq(S) /\ Len(t) = n - m + 1 /\ \A i \in 1..n - m + 1 : t[i] = seq[m + i - 1]
    BY Part
  <1>3. m + a - 1 \in 1..Len(seq) + 1 /\ m + b - 1 \in (m + a - 1) - 1..Len(seq)
    BY <1>1
  <1>4. /\ v \in Seq(S) /\ Len(v) = (m + b - 1) - (m + a - 1) + 1
        /\ \A i \in 1..(m + b - 1) - (m + a - 1) + 1 : v[i] = seq[(m + a - 1) + i - 1]
    BY <1>3, Part
  <1> HIDE DEF t, v
  <1>5. a \in 1..Len(t) + 1 /\ b \in a - 1..Len(t)
    BY <1>1, <1>2
  <1>6. /\ u \in Seq(S) /\ Len(u) = b - a + 1
        /\ \A i \in 1..b - a + 1 : u[i] = t[a + i - 1]
    BY <1>2, <1>5, Part
  <1> HIDE DEF u
  <1>7. Len(u) = Len(v)
    BY <1>1, <1>4, <1>6
  <1>8. ASSUME NEW i \in 1..Len(u) PROVE u[i] = v[i]
    <2>1. i \in 1..b - a + 1 /\ i \in 1..(m + b - 1) - (m + a - 1) + 1 /\ a + i - 1 \in 1..n - m + 1
      BY <1>1, <1>6
    <2>2. u[i] = seq[m + (a + i - 1) - 1] /\ v[i] = seq[(m + a - 1) + i - 1]
      BY <1>2, <1>4, <1>6, <2>1
    <2>3. m + (a + i - 1) - 1 = (m + a - 1) + i - 1
      BY <1>1
    <2> QED
      BY <2>2, <2>3
  <1>9. u = v
    BY <1>4, <1>6, <1>7, <1>8, SameSequence
  <1> QED
    BY <1>9 DEF u, v, t

(* A part of a sequence without its first elements.                        *)
LEMMA TailOfPart ==
  ASSUME NEW S, NEW seq \in Seq(S), NEW x \in 0..Len(seq), NEW n \in 0..Len(seq) - x
  PROVE SubSeq(SubSeq(seq, x + 1, Len(seq)), n + 1, Len(seq) - x) = SubSeq(seq, x + n + 1, Len(seq))
  <1> DEFINE N == Len(seq)
             m == x + 1
             a == n + 1
             b == N - x
  <1>1. N \in Nat /\ x \in Nat /\ n \in Nat /\ x <= N /\ n <= N - x
    BY LenProperties
  <1>2. m \in 1..N + 1 /\ N \in m - 1..N /\ a \in 1..N - m + 2 /\ b \in a - 1..N - m + 1
        /\ m + a - 1 = x + n + 1 /\ m + b - 1 = N
    BY <1>1
  <1> HIDE DEF m, a, b
  <1>3. SubSeq(SubSeq(seq, m, N), a, b) = SubSeq(seq, m + a - 1, m + b - 1)
    BY <1>2, PartOfPart
  <1> QED
    BY <1>2, <1>3 DEF m, a, b

-----------------------------------------------------------------------------
(* The receiver.  The n segments that MoveAvailable moves are all there,   *)
(* and have room.                                                          *)
Room(k) == IF Len(k.rcv_queue) < rcv_wnd THEN rcv_wnd - Len(k.rcv_queue) ELSE 0
ReadyTo(k, n) == \A i \in 0..n - 1 : \E s \in k.rcv_buf : s.sn = k.rcv_nxt + i
ToMove(k) == CHOOSE m \in 0..Room(k) : ReadyTo(k, m) /\ (m = Room(k) \/ ~ReadyTo(k, m + 1))
SegmentOf(k, sn) == CHOOSE s \in k.rcv_buf : s.sn = sn
MovedSegs(k) == [i \in 1..ToMove(k) |-> [frg |-> SegmentOf(k, k.rcv_nxt + i - 1).frg,
                                         data |-> SegmentOf(k, k.rcv_nxt + i - 1).data]]

(* MoveAvailable with its parts named.                                     *)
LEMMA MoveIs ==
  ASSUME NEW k
  PROVE MoveAvailable(k) =
          [k EXCEPT !.rcv_queue = @ \o MovedSegs(k),
                    !.rcv_buf = {s \in @ : s.sn >= k.rcv_nxt + ToMove(k)},
                    !.rcv_nxt = @ + ToMove(k)]
  BY DEF MoveAvailable, MovedSegs, ToMove, SegmentOf, ReadyTo, Room

(* How many segments are moved.                                            *)
LEMMA MoveCount ==
  ASSUME NEW k \in Block
  PROVE ToMove(k) \in 0..Room(k) /\ Room(k) \in Nat /\ ReadyTo(k, ToMove(k))
  <1> DEFINE Ends2 == {m \in 0..Room(k) : m = Room(k) \/ ~ReadyTo(k, m + 1)}
  <1>1. Room(k) \in Nat
    BY WindowAssumption, LenProperties DEF Room, Block
  <1>2. Room(k) \in Ends2 /\ Ends2 \in SUBSET Nat
    BY <1>1
  <1>3. PICK m \in Ends2 : \A y \in Ends2 : m <= y
    BY <1>2, LeastOf
  <1>4. ReadyTo(k, m)
    <2>1. CASE m = 0
      BY <2>1 DEF ReadyTo
    <2>2. CASE m # 0
      <3>1. m - 1 \in 0..Room(k) /\ m - 1 + 1 = m /\ ~ (m <= m - 1)
        BY <1>1, <2>2
      <3> QED
        BY <1>3, <3>1
    <2> QED
      BY <2>1, <2>2
  <1>5. m \in 0..Room(k) /\ ReadyTo(k, m) /\ (m = Room(k) \/ ~ReadyTo(k, m + 1))
    BY <1>3, <1>4
  <1> QED
    BY <1>1, <1>5 DEF ToMove

(* MoveAvailable: rcv_queue stays a part of the stream, up to the new      *)
(* rcv_nxt.                                                                *)
LEMMA Moved ==
  ASSUME NEW k \in Block, NEW nxt \in Nat, NEW F \in Streams, nxt <= Len(F), NEW base \in Nat,
         Receiving(k, nxt, F, base), NEW l, l = MoveAvailable(k)
  PROVE l \in Block /\ Receiving(l, nxt, F, base) /\ SameTx(k, l) /\ Grown(k, l)
  <1> DEFINE n == ToMove(k)
             x == k.rcv_nxt
             q == k.rcv_queue
             moved == MovedSegs(k)
             left == {s \in k.rcv_buf : s.sn >= x + n}
  <1>1. /\ n \in 0..Room(k) /\ Room(k) \in Nat /\ ReadyTo(k, n) /\ n \in Nat
    BY MoveCount
  <1>2. /\ x \in Nat /\ q \in Seq(Frag) /\ k.rcv_buf \in SUBSET RcvSeg /\ rcv_wnd \in Nat
        /\ Len(F) \in Nat /\ F \in Seq(Frag) /\ Len(q) \in Nat
    BY WindowAssumption, LenProperties DEF Block, Streams
  <1>3. \A s \in k.rcv_buf : s.sn \in Nat /\ x <= s.sn /\ s.sn < x + rcv_wnd /\ s.sn < nxt /\ At(F, s)
    BY <1>2 DEF Receiving, RcvSeg
  <1>4. ASSUME NEW i \in 1..n
        PROVE x + i <= nxt /\ moved[i] = F[x + i]
    <2> DEFINE s == SegmentOf(k, x + i - 1)
    <2>1. i - 1 \in 0..n - 1 /\ x + (i - 1) = x + i - 1
      BY <1>1, <1>2
    <2>2. \E t \in k.rcv_buf : t.sn = x + i - 1
      BY <1>1, <2>1 DEF ReadyTo
    <2>3. s \in k.rcv_buf /\ s.sn = x + i - 1
      BY <2>2 DEF SegmentOf
    <2>4. moved[i] = [frg |-> s.frg, data |-> s.data]
      BY DEF MovedSegs
    <2> HIDE DEF s, moved
    <2>5. F[s.sn + 1] = [frg |-> s.frg, data |-> s.data] /\ s.sn < nxt
      BY <1>3, <2>3 DEF At
    <2>6. x + i - 1 + 1 = x + i /\ x + i - 1 \in Nat
      BY <1>2
    <2> QED
      BY <2>3, <2>4, <2>5, <2>6
  <1>5. x + n <= nxt /\ x + n <= Len(F) /\ x + n \in Nat
    <2>1. x <= nxt
      BY DEF Receiving
    <2>2. n # 0 => n \in 1..n
      BY <1>1
    <2> QED
      BY <1>1, <1>2, <1>4, <2>1, <2>2
  <1>5a. moved = [i \in 1..n |-> moved[i]]
    BY DEF MovedSegs
  <1> HIDE DEF n, moved, left
  <1>6. moved = SubSeq(F, x + 1, x + n)
    <2>1. moved \in Seq(Frag) /\ Len(moved) = n
      <3>2. \A i \in 1..n : x + i \in 1..Len(F)
        BY <1>1, <1>2, <1>5
      <3>3. \A i \in 1..n : moved[i] \in Frag
        BY <1>2, <1>4, <3>2, ElementOfSeq
      <3> QED
        BY <1>1, <1>5a, <3>3
    <2>2. x + 1 \in 1..Len(F) + 1 /\ x + n \in (x + 1) - 1..Len(F) /\ (x + n) - (x + 1) + 1 = n
      BY <1>1, <1>2, <1>5
    <2>3. /\ SubSeq(F, x + 1, x + n) \in Seq(Frag) /\ Len(SubSeq(F, x + 1, x + n)) = n
          /\ \A i \in 1..n : SubSeq(F, x + 1, x + n)[i] = F[x + 1 + i - 1]
      <3> DEFINE a == x + 1
                 b == x + n
      <3>1. /\ F \in Seq(Frag) /\ a \in 1..Len(F) + 1 /\ b \in a - 1..Len(F) /\ b - a + 1 = n
        BY <1>2, <2>2
      <3> HIDE DEF a, b
      <3>2. /\ SubSeq(F, a, b) \in Seq(Frag) /\ Len(SubSeq(F, a, b)) = n
            /\ \A i \in 1..n : SubSeq(F, a, b)[i] = F[a + i - 1]
        BY <3>1, Part
      <3> QED
        BY <3>2 DEF a, b
    <2>4. \A i \in 1..n : x + 1 + i - 1 = x + i
      BY <1>2
    <2> DEFINE part == SubSeq(F, x + 1, x + n)
    <2> HIDE DEF part
    <2>5. \A i \in 1..n : moved[i] = part[i]
      BY <1>4, <2>3, <2>4 DEF part
    <2>6. part \in Seq(Frag) /\ Len(moved) = Len(part) /\ \A i \in 1..Len(moved) : moved[i] = part[i]
      BY <2>1, <2>3, <2>5 DEF part
    <2>7. moved = part
      BY <2>1, <2>6, SameSequence
    <2> QED
      BY <2>7 DEF part
  <1>7. l = [k EXCEPT !.rcv_queue = q \o moved, !.rcv_buf = left, !.rcv_nxt = x + n]
    BY MoveIs DEF Block, n, moved, left
  <1>8. /\ l.rcv_queue = q \o moved /\ l.rcv_buf = left /\ l.rcv_nxt = x + n
        /\ l.acklist = k.acklist /\ SameTx(k, l)
    BY <1>7 DEF SameTx, Block
  <1>9. q = SubSeq(F, base + 1, x) /\ base <= x /\ Len(q) <= rcv_wnd
    BY DEF Receiving
  <1>10. l.rcv_queue = SubSeq(F, base + 1, x + n)
    <2>1. base + 1 \in 1..Len(F) + 1 /\ x \in (base + 1) - 1..Len(F) /\ x + n \in x..Len(F)
      BY <1>1, <1>2, <1>5, <1>9
    <2> QED
      BY <1>2, <1>6, <1>8, <1>9, <2>1, ConcatAdjacentSubSeq
  <1>11. moved \in Seq(Frag) /\ Len(moved) = n
    <2>1. x + 1 \in 1..Len(F) + 1 /\ x + n \in (x + 1) - 1..Len(F) /\ (x + n) - (x + 1) + 1 = n
      BY <1>1, <1>2, <1>5
    <2> QED
      BY <1>2, <1>6, <2>1, Part
  <1>12. l.rcv_queue \in Seq(Frag) /\ Len(l.rcv_queue) = Len(q) + n
    <2>1. q \o moved \in Seq(Frag) /\ Len(q \o moved) = Len(q) + Len(moved)
      BY <1>2, <1>11, ConcatProperties
    <2> QED
      BY <1>8, <1>11, <2>1
  <1>13. l \in Block
    <2>1. left \in SUBSET RcvSeg
      BY <1>2 DEF left
    <2> QED
      BY <1>5, <1>7, <1>8, <1>12, <2>1 DEF Block
  <1>14. Len(l.rcv_queue) <= rcv_wnd
    BY <1>1, <1>2, <1>9, <1>12 DEF Room
  <1>15. ASSUME NEW sn \in Nat, Has(k, sn) PROVE Has(l, sn)
    <2>1. CASE sn < x + n
      BY <1>8, <2>1 DEF Has
    <2>2. CASE ~ (sn < x + n)
      <3>1. ~ (sn < x) /\ sn >= x + n
        BY <1>1, <1>2, <1>5, <2>2
      <3>2. PICK s \in k.rcv_buf : s.sn = sn
        BY <1>15, <3>1 DEF Has
      <3>3. s \in left
        BY <3>1, <3>2 DEF left
      <3> QED
        BY <1>8, <3>2, <3>3 DEF Has
    <2> QED
      BY <2>1, <2>2
  <1>16. Grown(k, l)
    BY <1>1, <1>2, <1>8, <1>15 DEF Grown, SameTx, Block
  <1>17. ASSUME NEW s \in left
         PROVE x + n <= s.sn /\ s.sn < x + n + rcv_wnd /\ s.sn < nxt /\ At(F, s)
    <2>1. s \in k.rcv_buf /\ s.sn >= x + n
      BY DEF left
    <2> QED
      BY <1>1, <1>2, <1>3, <2>1
  <1>18. \A i \in 1..Len(k.acklist) : Has(l, k.acklist[i])
    <2>1. \A i \in 1..Len(k.acklist) : k.acklist[i] \in Nat
      BY ElementOfSeq DEF Block
    <2> QED
      BY <1>15, <2>1 DEF Receiving
  <1>19. base <= x + n
    BY <1>1, <1>2, <1>9
  <1> QED
    BY <1>5, <1>8, <1>10, <1>13, <1>14, <1>16, <1>17, <1>18, <1>19 DEF Receiving

(* InputPush, for a segment of the stream, late, repeated or new.          *)
LEMMA Pushed ==
  ASSUME NEW k \in Block, NEW nxt \in Nat, NEW F \in Streams, nxt <= Len(F), NEW base \in Nat,
         Receiving(k, nxt, F, base),
         NEW seg \in Segment, seg.sn < nxt, At(F, seg), NEW l, l = InputPush(k, seg)
  PROVE l \in Block /\ Receiving(l, nxt, F, base) /\ SameTx(k, l) /\ Grown(k, l)
  <1> DEFINE sn == seg.sn
             x == k.rcv_nxt
             heard == [k EXCEPT !.acklist = Append(@, sn)]
             new == [sn |-> seg.sn, frg |-> seg.frg, data |-> seg.data]
             there == \E s \in k.rcv_buf : s.sn = sn
             held == [heard EXCEPT !.rcv_buf = @ \cup {new}]
  <1>1. /\ sn \in Nat /\ x \in Nat /\ rcv_wnd \in Nat /\ new \in RcvSeg /\ k.acklist \in Seq(Nat)
        /\ k.rcv_buf \in SUBSET RcvSeg /\ Len(k.acklist) \in Nat /\ k.snd_nxt \in Nat
    BY WindowAssumption, LenProperties DEF Segment, RcvSeg, Block
  <1>2. CASE sn >= x + rcv_wnd
    BY <1>1, <1>2 DEF InputPush, SameTx, Grown, Block
  <1>3. CASE ~ (sn >= x + rcv_wnd)
    <2>1. l = ikcp_parse_data(heard, seg)
      BY <1>3 DEF InputPush
    <2>2. /\ heard.acklist = Append(k.acklist, sn) /\ heard.rcv_queue = k.rcv_queue
          /\ heard.rcv_buf = k.rcv_buf /\ heard.rcv_nxt = x /\ SameTx(k, heard) /\ heard \in Block
      <3>1. Append(k.acklist, sn) \in Seq(Nat)
        BY <1>1, AppendProperties
      <3> QED
        BY <3>1 DEF Block, SameTx
    <2>3. /\ held.acklist = Append(k.acklist, sn) /\ held.rcv_queue = k.rcv_queue
          /\ held.rcv_buf = k.rcv_buf \cup {new} /\ held.rcv_nxt = x /\ SameTx(k, held)
          /\ held \in Block
      <3>1. Append(k.acklist, sn) \in Seq(Nat)
        BY <1>1, AppendProperties
      <3>2. k.rcv_buf \cup {new} \in SUBSET RcvSeg
        BY <1>1
      <3> QED
        BY <3>1, <3>2 DEF Block, SameTx
    <2>4. ASSUME NEW h \in Block, h.acklist = Append(k.acklist, sn), h.rcv_nxt = x,
                 h.rcv_queue = k.rcv_queue, SameTx(k, h), Has(h, sn),
                 k.rcv_buf \subseteq h.rcv_buf, h.rcv_buf \subseteq k.rcv_buf \cup {new},
                 sn >= x \/ h.rcv_buf = k.rcv_buf
          PROVE Receiving(h, nxt, F, base) /\ Grown(k, h)
      <3>1. \A n \in Nat : Has(k, n) => Has(h, n)
        BY <2>4 DEF Has
      <3>2. Grown(k, h)
        <4>1. x <= h.rcv_nxt /\ k.snd_nxt <= h.snd_nxt
          BY <1>1, <2>4 DEF SameTx
        <4> QED
          BY <3>1, <4>1 DEF Grown
      <3>3. \A s \in h.rcv_buf : x <= s.sn /\ s.sn < x + rcv_wnd /\ s.sn < nxt /\ At(F, s)
        <4>1. \A s \in k.rcv_buf : x <= s.sn /\ s.sn < x + rcv_wnd /\ s.sn < nxt /\ At(F, s)
          BY DEF Receiving
        <4>2. sn >= x => x <= new.sn /\ new.sn < x + rcv_wnd /\ new.sn < nxt /\ At(F, new)
          BY <1>1, <1>3 DEF At
        <4> QED
          BY <2>4, <4>1, <4>2
      <3>4. ASSUME NEW i \in 1..Len(h.acklist) PROVE Has(h, h.acklist[i])
        <4>1. Len(h.acklist) = Len(k.acklist) + 1 /\ h.acklist[Len(k.acklist) + 1] = sn
              /\ \A j \in 1..Len(k.acklist) : h.acklist[j] = k.acklist[j]
          BY <1>1, <2>4, AppendProperties
        <4>2. CASE i = Len(k.acklist) + 1
          BY <2>4, <4>1, <4>2
        <4>3. CASE i # Len(k.acklist) + 1
          <5>1. i \in 1..Len(k.acklist)
            BY <1>1, <4>1, <4>3
          <5>2. Has(k, k.acklist[i]) /\ k.acklist[i] \in Nat
            BY <1>1, <5>1, ElementOfSeq DEF Receiving
          <5> QED
            BY <3>1, <4>1, <5>1, <5>2
        <4> QED
          BY <4>2, <4>3
      <3> QED
        BY <2>4, <3>2, <3>3, <3>4 DEF Receiving
    <2> HIDE DEF heard, held, new
    <2>5. CASE sn < x
      <3>1. l = heard
        BY <2>1, <2>2, <2>5 DEF ikcp_parse_data
      <3>2. Has(heard, sn)
        BY <2>2, <2>5 DEF Has
      <3> QED
        BY <2>2, <2>4, <3>1, <3>2
    <2>6. CASE ~ (sn < x) /\ there
      <3>1. l = MoveAvailable(heard)
        BY <1>3, <2>1, <2>2, <2>6 DEF ikcp_parse_data
      <3>2. Has(heard, sn)
        BY <2>2, <2>6 DEF Has
      <3>3. Receiving(heard, nxt, F, base) /\ Grown(k, heard)
        BY <2>2, <2>4, <3>2
      <3>4. l \in Block /\ Receiving(l, nxt, F, base) /\ SameTx(heard, l) /\ Grown(heard, l)
        BY <2>2, <3>1, <3>3, Moved
      <3>5. Grown(k, l)
        BY <2>2, <3>3, <3>4, GrownIsTransitive
      <3> QED
        BY <2>2, <3>4, <3>5 DEF SameTx
    <2>7. CASE ~ (sn < x) /\ ~ there
      <3>1. l = MoveAvailable(held)
        BY <1>3, <2>1, <2>2, <2>7 DEF ikcp_parse_data, held, new
      <3>2. new.sn = sn
        BY DEF new
      <3>3. Has(held, sn)
        BY <2>3, <3>2 DEF Has
      <3>4. sn >= x
        BY <1>1, <2>7
      <3>5. Receiving(held, nxt, F, base) /\ Grown(k, held)
        BY <2>3, <2>4, <3>3, <3>4
      <3>6. l \in Block /\ Receiving(l, nxt, F, base) /\ SameTx(held, l) /\ Grown(held, l)
        BY <2>3, <3>1, <3>5, Moved
      <3>7. Grown(k, l)
        BY <2>3, <3>5, <3>6, GrownIsTransitive
      <3> QED
        BY <2>3, <3>6, <3>7 DEF SameTx
    <2> QED
      BY <2>5, <2>6, <2>7
  <1> QED
    BY <1>2, <1>3

-----------------------------------------------------------------------------
(* A datagram.  While q and its stream G stand still, what block k is      *)
(* after the segments it has looked at so far:                             *)
Heard(k, q, F, G, base) ==
  {l \in Block : /\ Sending(l, q, F) /\ Receiving(l, q.snd_nxt, G, base)
                 /\ Grown(k, l) /\ l.snd_nxt = k.snd_nxt}

(* InputSegment, for a segment that q may have sent.                       *)
LEMMA OneSegment ==
  ASSUME NEW k \in Block, NEW q \in Block, NEW F, NEW G \in Streams, q.snd_nxt <= Len(G),
         NEW base \in Nat, NEW l \in Heard(k, q, F, G, base), NEW seg \in Good(q, G)
  PROVE InputSegment(l, seg) \in Heard(k, q, F, G, base)
  <1> DEFINE wide == [l EXCEPT !.rmt_wnd = seg.wnd]
             heard == ikcp_parse_una(wide, seg.una)
             out == InputSegment(l, seg)
  <1>1. /\ l \in Block /\ Sending(l, q, F) /\ Receiving(l, q.snd_nxt, G, base)
        /\ Grown(k, l) /\ l.snd_nxt = k.snd_nxt
    BY DEF Heard
  <1>2. /\ seg \in Segment /\ seg.una <= q.rcv_nxt /\ seg.cmd \in {"ACK", "PUSH", "WASK", "WINS"}
        /\ seg.cmd = "ACK" => Has(q, seg.sn)
        /\ seg.cmd = "PUSH" => seg.sn < q.snd_nxt /\ At(G, seg)
        /\ seg.una \in Nat /\ seg.sn \in Nat /\ seg.wnd \in Nat
    BY DEF Good, Segment
  <1>3. q.snd_nxt \in Nat /\ k.snd_nxt \in Nat /\ Grown(q, q)
    <2>1. q.snd_nxt \in Nat /\ k.snd_nxt \in Nat
      BY DEF Block
    <2> QED
      BY <2>1, SameIsGrown DEF SameRx
  <1>4. wide \in Block /\ SameTx(l, wide) /\ SameRx(l, wide)
    BY <1>1, <1>2 DEF Block, SameTx, SameRx
  <1>5. Sending(wide, q, F)
    BY <1>1, <1>3, <1>4, SendingIsKept
  <1> HIDE DEF wide
  <1>6. heard \in Block /\ Sending(heard, q, F) /\ SameRx(wide, heard) /\ heard.snd_nxt = wide.snd_nxt
    BY <1>2, <1>4, <1>5, ParsedUna
  <1> HIDE DEF heard
  <1>7. SameRx(l, heard) /\ heard.snd_nxt = k.snd_nxt
    BY <1>1, <1>4, <1>6 DEF SameRx, SameTx
  <1>8. Receiving(heard, q.snd_nxt, G, base)
    BY <1>1, <1>3, <1>6, <1>7, ReceivingIsKept
  <1>9. Grown(l, heard)
    BY <1>1, <1>3, <1>6, <1>7, SameIsGrown
  <1>10. Grown(k, heard)
    BY <1>1, <1>6, <1>9, GrownIsTransitive
  <1>11. out = CASE seg.cmd = "ACK" -> ikcp_parse_ack(heard, seg.sn)
                 [] seg.cmd = "PUSH" -> InputPush(heard, seg)
                 [] seg.cmd = "WASK" -> [heard EXCEPT !.probe = @ \cup {"ASK_TELL"}]
                 [] OTHER -> heard
    BY DEF InputSegment, heard, wide
  <1> HIDE DEF out
  <1>12. SUFFICES /\ out \in Block /\ Sending(out, q, F) /\ Receiving(out, q.snd_nxt, G, base)
                  /\ Grown(heard, out) /\ out.snd_nxt = heard.snd_nxt
    BY <1>6, <1>7, <1>10, GrownIsTransitive DEF Heard, out
  <1>13. CASE seg.cmd = "ACK"
    <2>1. out = ikcp_parse_ack(heard, seg.sn)
      BY <1>11, <1>13
    <2>2. out \in Block /\ Sending(out, q, F) /\ SameRx(heard, out) /\ out.snd_nxt = heard.snd_nxt
      BY <1>2, <1>6, <1>13, <2>1, ParsedAck
    <2>3. Receiving(out, q.snd_nxt, G, base)
      BY <1>3, <1>6, <1>8, <2>2, ReceivingIsKept
    <2>4. Grown(heard, out)
      BY <1>3, <1>6, <1>7, <2>2, SameIsGrown
    <2> QED
      BY <2>2, <2>3, <2>4
  <1>14. CASE seg.cmd = "PUSH"
    <2>1. out = InputPush(heard, seg)
      BY <1>11, <1>14
    <2>2. /\ out \in Block /\ Receiving(out, q.snd_nxt, G, base) /\ SameTx(heard, out)
          /\ Grown(heard, out)
      BY <1>2, <1>3, <1>6, <1>8, <1>14, <2>1, Pushed
    <2>3. Sending(out, q, F)
      BY <1>3, <1>6, <2>2, SendingIsKept
    <2> QED
      BY <2>2, <2>3 DEF SameTx
  <1>15. CASE seg.cmd \in {"WASK", "WINS"}
    <2>1. out = heard \/ out = [heard EXCEPT !.probe = @ \cup {"ASK_TELL"}]
      BY <1>11, <1>15
    <2>2. out \in Block /\ SameTx(heard, out) /\ SameRx(heard, out)
      BY <1>6, <2>1, Told, SameIsSame
    <2>3. Sending(out, q, F) /\ out.snd_nxt = heard.snd_nxt
      BY <1>3, <1>6, <2>2, SendingIsKept DEF SameTx
    <2>4. Receiving(out, q.snd_nxt, G, base)
      BY <1>3, <1>6, <1>8, <2>2, ReceivingIsKept
    <2>5. Grown(heard, out)
      BY <1>3, <1>6, <1>7, <2>2, <2>3, SameIsGrown
    <2> QED
      BY <2>2, <2>3, <2>4, <2>5
  <1> QED
    BY <1>2, <1>13, <1>14, <1>15

(* ikcp_parse_fastack, which only counts.                                  *)
LEMMA FastAcked ==
  ASSUME NEW k \in Block, NEW p, NEW F, Sending(k, p, F), NEW sn,
         NEW l, l = ikcp_parse_fastack(k, sn)
  PROVE l \in Block /\ Sending(l, p, F) /\ SameRx(k, l) /\ l.snd_nxt = k.snd_nxt
  <1> DEFINE f == [s \in k.snd_buf |-> [s EXCEPT !.fastack = IF s.sn < sn THEN Smaller(@ + 1, fastresend)
                                                             ELSE @]]
             buf == {f[s] : s \in k.snd_buf}
  <1>1. CASE sn < k.snd_una \/ sn >= k.snd_nxt
    BY <1>1 DEF ikcp_parse_fastack, SameRx
  <1>2. CASE ~ (sn < k.snd_una \/ sn >= k.snd_nxt)
    <2>1. l = [k EXCEPT !.snd_buf = buf]
      BY <1>2 DEF ikcp_parse_fastack, Block
    <2>2. ASSUME NEW s \in k.snd_buf
          PROVE f[s] \in SndSeg /\ f[s].sn = s.sn /\ f[s].frg = s.frg /\ f[s].data = s.data
      <3>1. s \in SndSeg
        BY DEF Block
      <3>2. Smaller(s.fastack + 1, fastresend) \in Nat
        BY <3>1, ResendAssumption DEF Smaller, SndSeg
      <3> QED
        BY <3>1, <3>2 DEF SndSeg
    <2> HIDE DEF f
    <2>3. buf \in SUBSET SndSeg
      BY <2>2
    <2>4. /\ l \in Block /\ l.snd_buf = buf /\ l.snd_queue = k.snd_queue
          /\ l.snd_una = k.snd_una /\ l.snd_nxt = k.snd_nxt /\ SameRx(k, l)
      BY <2>1, <2>3 DEF Block, SameRx
    <2>5. Sending(l, p, F)
      BY <2>2, <2>4, Recounted
    <2> QED
      BY <2>4, <2>5
  <1> QED
    BY <1>1, <1>2

(* The congestion window stays a number, and nothing else moves.           *)
LEMMA Division ==
  ASSUME NEW a \in Nat, NEW b \in Nat \ {0}
  PROVE a \div b \in Nat
  OBVIOUS

(* Widened, which only changes the congestion window.                      *)
LEMMA WidenedIs ==
  ASSUME NEW k \in Block, NEW l, l = Widened(k)
  PROVE l \in Block /\ SameTx(k, l) /\ SameRx(k, l)
  <1> DEFINE incr == IF k.incr < mss THEN mss ELSE k.incr
             more == incr + (mss * mss) \div incr + mss \div 16
             wider == IF k.cwnd < k.ssthresh THEN [k EXCEPT !.cwnd = @ + 1, !.incr = @ + mss]
                      ELSE [k EXCEPT !.incr = more,
                                     !.cwnd = IF (@ + 1) * mss <= more THEN (more + mss - 1) \div mss
                                              ELSE @]
  <1>1. mss \in Nat \ {0} /\ k.incr \in Nat /\ k.cwnd \in Nat /\ k.rmt_wnd \in Nat
    BY SizeAssumption DEF Block
  <1>2. incr \in Nat \ {0} /\ mss * mss \in Nat
    BY <1>1
  <1> HIDE DEF incr
  <1>3. (mss * mss) \div incr \in Nat /\ mss \div 16 \in Nat
    BY <1>1, <1>2, Division
  <1>4. more \in Nat
    BY <1>2, <1>3
  <1> HIDE DEF more
  <1>5. more + mss - 1 \in Nat
    BY <1>1, <1>4
  <1>6. (more + mss - 1) \div mss \in Nat
    BY <1>1, <1>5, Division
  <1>7. k.cwnd + 1 \in Nat /\ k.incr + mss \in Nat /\ k.rmt_wnd * mss \in Nat
    BY <1>1
  <1>8. wider \in Block /\ SameTx(k, wider) /\ SameRx(k, wider)
    <2>1. CASE k.cwnd < k.ssthresh
      BY <1>7, <2>1 DEF Block, SameTx, SameRx
    <2>2. CASE ~ (k.cwnd < k.ssthresh)
      <3>1. PICK c \in Nat : wider = [k EXCEPT !.incr = more, !.cwnd = c]
        BY <1>1, <1>6, <2>2 DEF Block
      <3> QED
        BY <1>4, <3>1 DEF Block, SameTx, SameRx
    <2> QED
      BY <2>1, <2>2
  <1>9. l = IF wider.cwnd > k.rmt_wnd
            THEN [wider EXCEPT !.cwnd = k.rmt_wnd, !.incr = k.rmt_wnd * mss] ELSE wider
    BY DEF Widened, more, incr
  <1> HIDE DEF wider
  <1>10. CASE l = wider
    BY <1>8, <1>10
  <1>11. CASE l = [wider EXCEPT !.cwnd = k.rmt_wnd, !.incr = k.rmt_wnd * mss]
    <2>1. l \in Block /\ SameTx(wider, l) /\ SameRx(wider, l)
      BY <1>1, <1>7, <1>8, <1>11, Paced
    <2> QED
      BY <1>8, <2>1 DEF SameTx, SameRx
  <1> QED
    BY <1>9, <1>10, <1>11

(* ikcp_input, for a datagram that q may have sent.                        *)
LEMMA Input ==
  ASSUME NEW k \in Block, NEW q \in Block, NEW F, NEW G \in Streams, q.snd_nxt <= Len(G),
         NEW base \in Nat, Sending(k, q, F), Receiving(k, q.snd_nxt, G, base),
         NEW segs \in Seq(Good(q, G)), NEW l, l = ikcp_input(k, segs)
  PROVE l \in Heard(k, q, F, G, base)
  <1> DEFINE acks == {segs[i].sn : i \in {j \in 1..Len(segs) : segs[j].cmd = "ACK"}}
             maxack == CHOOSE m \in acks : \A sn \in acks : sn <= m
             done == FoldLeft(InputSegment, k, segs)
             after == IF acks = {} THEN done ELSE ikcp_parse_fastack(done, maxack)
  <1>1. q.snd_nxt \in Nat /\ k.snd_nxt \in Nat /\ k.rcv_nxt \in Nat /\ q.rcv_nxt \in Nat
    BY DEF Block
  <1>2. Grown(k, k) /\ Grown(q, q)
    BY <1>1 DEF Grown
  <1>3. k \in Heard(k, q, F, G, base)
    BY <1>2 DEF Heard
  <1>4. \A x \in Heard(k, q, F, G, base), y \in Good(q, G) :
          Step("input", x, y) \in Heard(k, q, F, G, base)
    BY OneSegment DEF Step
  <1>5. Folded("input", k, segs) \in Heard(k, q, F, G, base)
    BY <1>3, <1>4, FoldKeeps
  <1>6. done \in Heard(k, q, F, G, base)
    BY <1>5, InputIsFolded
  <1>7. l = IF ~k.nocwnd /\ after.snd_una > k.snd_una /\ after.cwnd < after.rmt_wnd
            THEN Widened(after) ELSE after
    BY DEF ikcp_input
  <1> HIDE DEF done, maxack, acks
  <1>8. ASSUME NEW x \in Heard(k, q, F, G, base), NEW y \in Block, Sending(y, q, F),
               SameRx(x, y), y.snd_nxt = x.snd_nxt
        PROVE y \in Heard(k, q, F, G, base)
    <2>1. /\ x \in Block /\ Receiving(x, q.snd_nxt, G, base) /\ Grown(k, x)
          /\ x.snd_nxt = k.snd_nxt
      BY DEF Heard
    <2>2. Receiving(y, q.snd_nxt, G, base)
      BY <1>1, <1>8, <2>1, ReceivingIsKept
    <2>3. Grown(x, y)
      BY <1>1, <1>8, <2>1, SameIsGrown
    <2>4. Grown(k, y)
      BY <2>1, <2>3, GrownIsTransitive
    <2> QED
      BY <1>8, <2>1, <2>2, <2>4 DEF Heard
  <1>9. after \in Heard(k, q, F, G, base)
    <2>1. done \in Block /\ Sending(done, q, F)
      BY <1>6 DEF Heard
    <2> DEFINE y == ikcp_parse_fastack(done, maxack)
    <2>2. y \in Block /\ Sending(y, q, F) /\ SameRx(done, y) /\ y.snd_nxt = done.snd_nxt
      BY <2>1, FastAcked
    <2> HIDE DEF y
    <2>3. y \in Heard(k, q, F, G, base)
      BY <1>6, <1>8, <2>2
    <2> QED
      BY <1>6, <2>3 DEF y
  <1> HIDE DEF after
  <1>10. Widened(after) \in Heard(k, q, F, G, base)
    <2> DEFINE y == Widened(after)
    <2>1. after \in Block /\ Sending(after, q, F)
      BY <1>9 DEF Heard
    <2>2. y \in Block /\ SameTx(after, y) /\ SameRx(after, y)
      BY <2>1, WidenedIs
    <2> HIDE DEF y
    <2>3. Sending(y, q, F) /\ y.snd_nxt = after.snd_nxt
      BY <1>2, <2>1, <2>2, SendingIsKept DEF SameTx
    <2>4. y \in Heard(k, q, F, G, base)
      BY <1>8, <1>9, <2>2, <2>3
    <2> QED
      BY <2>4 DEF y
  <1> QED
    BY <1>7, <1>9, <1>10

-----------------------------------------------------------------------------
(* What flush does before it sends.                                        *)
LEMMA Probed ==
  ASSUME NEW k \in Block, NEW ask, NEW l, l = Probe(k, ask)
  PROVE /\ l \in Block /\ SameTx(k, l) /\ SameRx(k, l)
        /\ [l EXCEPT !.probe = {}] \in Block
        /\ SameTx(k, [l EXCEPT !.probe = {}]) /\ SameRx(k, [l EXCEPT !.probe = {}])
  <1>1. l \in Block /\ SameTx(k, l) /\ SameRx(k, l)
    BY DEF Probe, Block, SameTx, SameRx
  <1> QED
    BY <1>1 DEF Block, SameTx, SameRx

(* A window is a number.                                                   *)
LEMMA WindowIs ==
  ASSUME NEW k \in Block
  PROVE Window(k) \in Nat /\ Window(k) <= snd_wnd
  <1>1. k.cwnd \in Nat /\ k.rmt_wnd \in Nat /\ snd_wnd \in Nat
    BY WindowAssumption DEF Block
  <1> QED
    BY <1>1 DEF Window, Smaller

(* Admit: what leaves snd_queue is in snd_buf, within the window.          *)
LEMMA Admitted ==
  ASSUME NEW k \in Block, NEW p, NEW F \in Streams, Sending(k, p, F), NEW l, l = Admit(k)
  PROVE l \in Block /\ Sending(l, p, F) /\ SameRx(k, l) /\ k.snd_nxt <= l.snd_nxt
  <1> DEFINE x == k.snd_nxt
             una == k.snd_una
             w == Window(k)
             N == Len(F)
             m == Len(k.snd_queue)
             end == una + w
             n == IF x < end THEN Smaller(end - x, m) ELSE 0
             New(i) == [sn |-> x + i - 1, frg |-> k.snd_queue[i].frg,
                        data |-> k.snd_queue[i].data, xmit |-> 0, fastack |-> 0]
             new == {New(i) : i \in 1..n}
             q == SubSeq(k.snd_queue, n + 1, m)
  <1>1. k.snd_queue \in Seq(Frag) /\ k.snd_buf \in SUBSET SndSeg /\ F \in Seq(Frag)
    BY DEF Block, Streams
  <1>2. x \in Nat /\ una \in Nat /\ N \in Nat /\ m \in Nat /\ snd_wnd \in Nat
    BY <1>1, WindowAssumption, LenProperties DEF Block
  <1>3. w \in Nat /\ w <= snd_wnd
    BY WindowIs
  <1>4. una <= x /\ x <= una + snd_wnd /\ x <= N /\ k.snd_queue = SubSeq(F, x + 1, N)
    BY DEF Sending
  <1>5. /\ \A s \in k.snd_buf : una <= s.sn /\ s.sn < x /\ At(F, s)
        /\ \A s, t \in k.snd_buf : s.sn = t.sn => s = t
        /\ \A sn \in 0..x - 1 : Has(p, sn) \/ \E s \in k.snd_buf : s.sn = sn
    BY DEF Sending
  <1>6. l = [k EXCEPT !.snd_queue = q, !.snd_buf = @ \cup new, !.snd_nxt = x + n]
    BY DEF Admit, Block
  <1>7. /\ \A i : New(i).sn = x + i - 1 /\ New(i).frg = k.snd_queue[i].frg
                  /\ New(i).data = k.snd_queue[i].data
        /\ \A i : x + i - 1 \in Nat /\ k.snd_queue[i] \in Frag => New(i) \in SndSeg
    BY DEF SndSeg, Frag
  <1>8. k.snd_nxt = x /\ k.snd_una = una
    OBVIOUS
  <1> HIDE DEF x, una, w, N, New
  <1>9. x + 1 \in 1..N + 1 /\ N \in (x + 1) - 1..N /\ N - (x + 1) + 1 = N - x
    BY <1>2, <1>4
  <1>10. m = N - x /\ \A i \in 1..m : k.snd_queue[i] = F[x + 1 + i - 1]
    <2>1. /\ Len(SubSeq(F, x + 1, N)) = N - (x + 1) + 1
          /\ \A i \in 1..N - (x + 1) + 1 : SubSeq(F, x + 1, N)[i] = F[x + 1 + i - 1]
      BY <1>1, <1>9, Part DEF N
    <2> QED
      BY <1>4, <1>9, <2>1
  <1> HIDE DEF m
  <1>11. n \in Nat /\ n <= m /\ x + n <= una + snd_wnd
    BY <1>2, <1>3, <1>4 DEF Smaller
  <1> HIDE DEF n
  <1>12. ASSUME NEW i \in 1..n
         PROVE /\ New(i) \in SndSeg /\ New(i).sn = x + i - 1 /\ New(i).sn \in Nat
               /\ x <= New(i).sn /\ New(i).sn < x + n /\ At(F, New(i))
    <2>1. i \in 1..m /\ x + i - 1 \in Nat /\ x + 1 + i - 1 = (x + i - 1) + 1
          /\ x + i - 1 < N /\ x <= x + i - 1 /\ x + i - 1 < x + n
      BY <1>2, <1>4, <1>10, <1>11
    <2>2. k.snd_queue[i] \in Frag
      BY <1>1, <2>1, ElementOfSeq DEF m
    <2>3. k.snd_queue[i] = F[(x + i - 1) + 1]
      BY <1>10, <2>1
    <2>4. k.snd_queue[i] = [frg |-> New(i).frg, data |-> New(i).data]
      BY <1>7, <2>2 DEF Frag
    <2> QED
      BY <1>7, <2>1, <2>2, <2>3, <2>4 DEF At, N
  <1>13. new \in SUBSET SndSeg
    BY <1>12
  <1>14. q = SubSeq(F, x + n + 1, N) /\ q \in Seq(Frag)
    <2>1. n + 1 \in 1..m + 1 /\ m \in (n + 1) - 1..m
      BY <1>2, <1>4, <1>10, <1>11
    <2>2. x \in 0..Len(F) /\ n \in 0..Len(F) - x
      BY <1>2, <1>4, <1>10, <1>11 DEF N
    <2>5. SubSeq(SubSeq(F, x + 1, Len(F)), n + 1, Len(F) - x) = SubSeq(F, x + n + 1, Len(F))
      BY <1>1, <2>2, TailOfPart
    <2>3. q = SubSeq(F, x + n + 1, N)
      BY <1>4, <1>10, <2>5 DEF N
    <2>4. q \in Seq(Frag)
      BY <1>1, <2>1, Part DEF m
    <2> QED
      BY <2>3, <2>4
  <1> HIDE DEF q
  <1>15. /\ l \in Block /\ l.snd_queue = q /\ l.snd_buf = k.snd_buf \cup new /\ l.snd_nxt = x + n
         /\ l.snd_una = una /\ SameRx(k, l)
    <2>1. k.snd_buf \cup new \in SUBSET SndSeg /\ x + n \in Nat
      BY <1>1, <1>2, <1>11, <1>13
    <2> HIDE DEF new
    <2> QED
      BY <1>6, <1>8, <1>14, <2>1 DEF Block, SameRx
  <1>16. ASSUME NEW s \in new
         PROVE una <= s.sn /\ x <= s.sn /\ s.sn < x + n /\ s.sn \in Nat /\ At(F, s)
    <2>1. PICK i \in 1..n : s = New(i)
      OBVIOUS
    <2> QED
      BY <1>2, <1>4, <1>12, <2>1
  <1>17. ASSUME NEW s \in new, NEW t \in new, s.sn = t.sn PROVE s = t
    <2>1. PICK i \in 1..n, j \in 1..n : s = New(i) /\ t = New(j)
      OBVIOUS
    <2>2. x + i - 1 = x + j - 1
      BY <1>12, <1>17, <2>1
    <2>3. i = j
      BY <1>2, <2>2
    <2> QED
      BY <2>1, <2>3
  <1>18. \A s \in k.snd_buf : s.sn \in Nat
    BY <1>1 DEF SndSeg
  <1>19. \A s \in k.snd_buf : s.sn < x + n
    BY <1>2, <1>5, <1>11, <1>18
  <1>20. \A s \in k.snd_buf, t \in new : s.sn # t.sn
    BY <1>2, <1>5, <1>16, <1>18
  <1>21. ASSUME NEW sn \in 0..x + n - 1
         PROVE Has(p, sn) \/ \E s \in k.snd_buf \cup new : s.sn = sn
    <2>1. CASE sn < x
      <3>1. sn \in 0..x - 1
        BY <1>2, <2>1
      <3> QED
        BY <1>5, <3>1
    <2>2. CASE ~ (sn < x)
      <3>1. sn - x + 1 \in 1..n /\ x + (sn - x + 1) - 1 = sn
        BY <1>2, <1>11, <2>2
      <3>2. New(sn - x + 1).sn = sn /\ New(sn - x + 1) \in new
        BY <1>12, <3>1
      <3> QED
        BY <3>2
    <2> QED
      BY <2>1, <2>2
  <1> HIDE DEF new
  <1>22. una <= x + n /\ x + n <= una + snd_wnd /\ x + n <= N
    BY <1>2, <1>4, <1>10, <1>11
  <1>23. \A s \in k.snd_buf \cup new : una <= s.sn /\ s.sn < x + n /\ At(F, s)
    BY <1>5, <1>16, <1>19
  <1>24. \A s, t \in k.snd_buf \cup new : s.sn = t.sn => s = t
    BY <1>5, <1>17, <1>20
  <1>25. Sending(l, p, F)
    <2>1. l.snd_queue = SubSeq(F, l.snd_nxt + 1, Len(F))
      BY <1>14, <1>15 DEF N
    <2>2. l.snd_una <= l.snd_nxt /\ l.snd_nxt <= l.snd_una + snd_wnd /\ l.snd_nxt <= Len(F)
      BY <1>15, <1>22 DEF N
    <2>3. /\ \A s \in l.snd_buf : l.snd_una <= s.sn /\ s.sn < l.snd_nxt /\ At(F, s)
          /\ \A s, t \in l.snd_buf : s.sn = t.sn => s = t
      BY <1>15, <1>23, <1>24
    <2>4. \A sn \in 0..l.snd_nxt - 1 : Has(p, sn) \/ \E s \in l.snd_buf : s.sn = sn
      <3>1. l.snd_nxt = x + n /\ l.snd_buf = k.snd_buf \cup new
        BY <1>15
      <3>2. \A sn \in 0..x + n - 1 : Has(p, sn) \/ \E s \in k.snd_buf \cup new : s.sn = sn
        BY <1>21
      <3>3. 0..l.snd_nxt - 1 = 0..x + n - 1
        BY <1>2, <1>11, <3>1
      <3> QED
        BY <3>1, <3>2, <3>3
    <2> QED
      BY <2>1, <2>2, <2>3, <2>4 DEF Sending
  <1>26. x <= x + n
    BY <1>2, <1>11
  <1> QED
    BY <1>15, <1>25, <1>26 DEF x

(* Narrowed, which only changes the congestion window.                     *)
LEMMA NarrowedIs ==
  ASSUME NEW k \in Block, NEW cwnd \in Nat, NEW due, NEW l, l = Narrowed(k, cwnd, due)
  PROVE l \in Block /\ SameTx(k, l) /\ SameRx(k, l)
  <1> DEFINE Half(n) == IF n \div 2 < IKCP_THRESH_MIN THEN IKCP_THRESH_MIN ELSE n \div 2
             thresh == Half(k.snd_nxt - k.snd_una)
             overtaken == \E s \in k.snd_buf : Overtaken(s, due)
             late == \E s \in k.snd_buf : Late(s, due)
             fast == IF overtaken
                     THEN [k EXCEPT !.ssthresh = thresh, !.cwnd = thresh + fastresend,
                                    !.incr = (thresh + fastresend) * mss]
                     ELSE k
             slow == IF late THEN [fast EXCEPT !.ssthresh = Half(cwnd), !.cwnd = 1, !.incr = mss]
                     ELSE fast
  <1>1. /\ mss \in Nat /\ fastresend \in Nat /\ IKCP_THRESH_MIN \in Nat
        /\ k.snd_nxt \in Nat /\ k.snd_una \in Nat
    BY SizeAssumption, ResendAssumption DEF Block
  <1>2. ASSUME NEW n \in Int PROVE Half(n) \in Nat
    <2>1. n \div 2 \in Int
      OBVIOUS
    <2> QED
      BY <1>1, <2>1
  <1>3. l = IF k.nocwnd THEN k
            ELSE IF slow.cwnd < 1 THEN [slow EXCEPT !.cwnd = 1, !.incr = mss] ELSE slow
    BY DEF Narrowed
  <1>4. thresh \in Nat /\ Half(cwnd) \in Nat
    BY <1>1, <1>2
  <1> HIDE DEF thresh, Half, overtaken, late
  <1>5. thresh + fastresend \in Nat /\ (thresh + fastresend) * mss \in Nat
    BY <1>1, <1>4
  <1>6. fast \in Block /\ SameTx(k, fast) /\ SameRx(k, fast)
    BY <1>4, <1>5 DEF Block, SameTx, SameRx
  <1> HIDE DEF fast
  <1>7. slow \in Block /\ SameTx(k, slow) /\ SameRx(k, slow)
    BY <1>1, <1>4, <1>6 DEF Block, SameTx, SameRx
  <1> HIDE DEF slow
  <1> DEFINE least == [slow EXCEPT !.cwnd = 1, !.incr = mss]
  <1>8. least \in Block /\ SameTx(k, least) /\ SameRx(k, least)
    BY <1>1, <1>7 DEF Block, SameTx, SameRx
  <1>9. SameTx(k, k) /\ SameRx(k, k)
    BY DEF SameTx, SameRx
  <1> HIDE DEF least
  <1>10. l = k \/ l = least \/ l = slow
    BY <1>3 DEF least
  <1> QED
    BY <1>7, <1>8, <1>9, <1>10

(* ikcp_flush, which counts transmissions and forgets the acknowledgements *)
(* that were sent.                                                         *)
LEMMA Flushed ==
  ASSUME NEW k \in Block, NEW p, NEW F, Sending(k, p, F),
         NEW nxt \in Nat, NEW G, NEW base, Receiving(k, nxt, G, base),
         NEW due, NEW l, l = ikcp_flush(k, due)
  PROVE /\ l \in Block /\ Sending(l, p, F) /\ Receiving(l, nxt, G, base)
        /\ Grown(k, l) /\ l.snd_nxt = k.snd_nxt
  <1> DEFINE m == Narrowed(k, Window(k), due)
             f == [s \in k.snd_buf |-> Transmitted(s, due)]
             buf == {f[s] : s \in k.snd_buf}
  <1>1. m \in Block /\ SameTx(k, m) /\ SameRx(k, m)
    BY WindowIs, NarrowedIs
  <1>2. l = [m EXCEPT !.acklist = <<>>, !.snd_buf = buf]
    <2>1. l = [m EXCEPT !.acklist = <<>>, !.snd_buf = {Transmitted(s, due) : s \in m.snd_buf}]
      BY <1>1 DEF ikcp_flush, Block
    <2>2. {Transmitted(s, due) : s \in m.snd_buf} = buf
      BY <1>1 DEF SameTx
    <2> QED
      BY <2>1, <2>2
  <1> HIDE DEF m
  <1>3. ASSUME NEW s \in k.snd_buf
        PROVE f[s] \in SndSeg /\ f[s].sn = s.sn /\ f[s].frg = s.frg /\ f[s].data = s.data
    <2>1. s \in SndSeg
      BY DEF Block
    <2>2. Smaller(s.xmit + 1, fastlimit + 1) \in Nat
      BY <2>1, ResendAssumption DEF Smaller, SndSeg
    <2> QED
      BY <2>1, <2>2 DEF Transmitted, SndSeg
  <1> HIDE DEF f
  <1>4. buf \in SUBSET SndSeg /\ <<>> \in Seq(Nat)
    BY <1>3
  <1>5. /\ l \in Block /\ l.snd_buf = buf /\ l.snd_queue = k.snd_queue
        /\ l.snd_una = k.snd_una /\ l.snd_nxt = k.snd_nxt
        /\ l.rcv_queue = k.rcv_queue /\ l.rcv_buf = k.rcv_buf /\ l.rcv_nxt = k.rcv_nxt
        /\ l.acklist = <<>>
    <2> HIDE DEF buf
    <2> QED
      BY <1>1, <1>2, <1>4 DEF Block, SameTx, SameRx
  <1>6. Sending(l, p, F)
    BY <1>3, <1>5, Recounted
  <1>7. Receiving(l, nxt, G, base)
    <2>1. 1..Len(l.acklist) = {}
      BY <1>5
    <2> QED
      BY <1>5, <2>1 DEF Receiving
  <1>8. k.rcv_nxt \in Nat /\ k.snd_nxt \in Nat
    BY DEF Block
  <1>9. Grown(k, l)
    BY <1>5, <1>8 DEF Grown, Has
  <1> QED
    BY <1>5, <1>6, <1>7, <1>9

-----------------------------------------------------------------------------
(* The order of snd_buf.                                                   *)
Sorted(S, q, n) == q \in [1..n -> S] /\ \A i, j \in 1..n : i < j => q[i].sn < q[j].sn
Sortable(S) == IsFiniteSet(S) /\ \E q : Sorted(S, q, Cardinality(S))
Numbered(S, b) ==
  /\ S \in SUBSET SndSeg /\ \A s \in S : s.sn < b
  /\ \A s, t \in S : s.sn = t.sn => s = t

(* A set of segments of different numbers can be put in order, by induction*)
(* over how many numbers there are.                                        *)
LEMMA NumberedIsSortable ==
  ASSUME NEW b \in Nat, NEW S, Numbered(S, b)
  PROVE Sortable(S)
  <1> DEFINE Bad == {c \in Nat : \E T : Numbered(T, c) /\ ~Sortable(T)}
  <1>1. SUFFICES ASSUME Bad # {} PROVE FALSE
    OBVIOUS
  <1>2. PICK c \in Bad : \A y \in Bad : c <= y
    BY <1>1, LeastOf
  <1>3. PICK T : Numbered(T, c) /\ ~Sortable(T)
    BY <1>2
  <1>4. CASE c = 0
    <2>1. T = {}
      BY <1>3, <1>4 DEF Numbered, SndSeg
    <2>2. IsFiniteSet({}) /\ Cardinality({}) = 0
      BY FS_EmptySet
    <2>3. Sorted({}, [i \in 1..0 |-> {}], 0)
      BY DEF Sorted
    <2> QED
      BY <1>3, <2>1, <2>2, <2>3 DEF Sortable
  <1>5. CASE c # 0
    <2> DEFINE d == c - 1
               U == {s \in T : s.sn < d}
    <2>1. d \in Nat /\ c = d + 1 /\ d \notin Bad
      BY <1>2, <1>5
    <2> HIDE DEF d
    <2>2. Numbered(U, d)
      BY <1>3 DEF Numbered
    <2>3. Sortable(U)
      BY <2>1, <2>2
    <2>4. PICK q : Sorted(U, q, Cardinality(U))
      BY <2>3 DEF Sortable
    <2>5. CASE T = U
      BY <1>3, <2>3, <2>5
    <2>6. CASE T # U
      <3>1. PICK t \in T : ~ (t.sn < d)
        BY <2>6
      <3>2. t.sn = d /\ t \notin U
        <4>1. t.sn \in Nat /\ t.sn < c
          BY <1>3 DEF Numbered, SndSeg
        <4> QED
          BY <2>1, <3>1, <4>1
      <3>3. T = U \cup {t}
        <4>1. ASSUME NEW s \in T, s \notin U PROVE s = t
          <5>1. s.sn \in Nat /\ s.sn < c /\ ~ (s.sn < d)
            BY <1>3, <4>1 DEF Numbered, SndSeg
          <5>2. s.sn = d
            BY <2>1, <5>1
          <5> QED
            BY <1>3, <3>2, <5>2 DEF Numbered
        <4> QED
          BY <4>1
      <3> DEFINE n == Cardinality(U)
                 r == [i \in 1..n + 1 |-> IF i = n + 1 THEN t ELSE q[i]]
      <3>4. n \in Nat /\ IsFiniteSet(T) /\ Cardinality(T) = n + 1
        <4>1. IsFiniteSet(U)
          BY <2>3 DEF Sortable
        <4> HIDE DEF U
        <4>2. n \in Nat
          BY <4>1, FS_CardinalityType
        <4>3. IsFiniteSet(U \cup {t}) /\ Cardinality(U \cup {t}) = n + 1
          BY <3>2, <4>1, FS_AddElement
        <4> QED
          BY <3>3, <4>2, <4>3
      <3> HIDE DEF n
      <3>5. q \in [1..n -> U] /\ \A i, j \in 1..n : i < j => q[i].sn < q[j].sn
        BY <2>4 DEF Sorted, n
      <3>6. \A i \in 1..n + 1 : i = n + 1 \/ i \in 1..n
        BY <3>4
      <3>7. r \in [1..n + 1 -> T]
        BY <3>3, <3>5, <3>6
      <3>8. ASSUME NEW i \in 1..n + 1, NEW j \in 1..n + 1, i < j PROVE r[i].sn < r[j].sn
        <4>1. i # n + 1 /\ i \in 1..n
          BY <3>4, <3>8
        <4>2. r[i] = q[i] /\ q[i] \in U
          BY <3>5, <4>1
        <4>3. CASE j = n + 1
          BY <3>2, <4>2, <4>3
        <4>4. CASE j # n + 1
          <5>1. j \in 1..n
            BY <3>6, <4>4
          <5>2. r[j] = q[j] /\ q[i].sn < q[j].sn
            BY <3>5, <3>8, <4>1, <4>4, <5>1
          <5> QED
            BY <4>2, <5>2
        <4> QED
          BY <4>3, <4>4
      <3>9. Sorted(T, r, Cardinality(T))
        <4> HIDE DEF r
        <4> QED
          BY <3>4, <3>7, <3>8 DEF Sorted
      <3> QED
        BY <1>3, <3>4, <3>9 DEF Sortable
    <2> QED
      BY <2>5, <2>6
  <1> QED
    BY <1>4, <1>5

(* InOrder gives segments of the set.                                      *)
LEMMA InOrderIs ==
  ASSUME NEW b \in Nat, NEW S, Numbered(S, b)
  PROVE InOrder(S) \in Seq(S)
  <1> DEFINE n == Cardinality(S)
  <1>1. IsFiniteSet(S) /\ \E q : Sorted(S, q, n)
    BY NumberedIsSortable DEF Sortable
  <1>2. n \in Nat
    BY <1>1, FS_CardinalityType
  <1> HIDE DEF n
  <1>3. \E q \in [1..n -> S] : \A i, j \in 1..n : i < j => q[i].sn < q[j].sn
    BY <1>1 DEF Sorted
  <1>4. InOrder(S) = CHOOSE q \in [1..n -> S] : \A i, j \in 1..n : i < j => q[i].sn < q[j].sn
    BY DEF InOrder, n
  <1>5. InOrder(S) \in [1..n -> S]
    BY <1>3, <1>4
  <1> QED
    BY <1>2, <1>5

-----------------------------------------------------------------------------
(* What is put out.                                                        *)
LEMMA DatagramsAre ==
  ASSUME NEW S, NEW seq \in Seq(S)
  PROVE Datagrams(seq) \in Seq(Seq(S))
  <1>1. ASSUME NEW ds \in Seq(Seq(S)), NEW s \in S PROVE Packed(ds, s) \in Seq(Seq(S))
    <2>1. CASE ds # <<>>
      <3>1. Len(ds) \in Nat /\ Len(ds) # 0
        BY <2>1, LenProperties, EmptySeq
      <3>2. ds[Len(ds)] \in Seq(S)
        BY <3>1, ElementOfSeq
      <3>3. Append(Last(ds), s) \in Seq(S)
        BY <3>2, AppendProperties DEF Last
      <3>4. 1 \in 1..Len(ds) + 1 /\ Len(ds) - 1 \in 1 - 1..Len(ds)
        BY <3>1
      <3>5. Front(ds) \in Seq(Seq(S))
        BY <3>4, Part DEF Front
      <3>6. Append(Front(ds), Append(Last(ds), s)) \in Seq(Seq(S))
        BY <3>3, <3>5, AppendProperties
      <3>7. Append(ds, <<s>>) \in Seq(Seq(S))
        OBVIOUS
      <3> QED
        BY <3>6, <3>7 DEF Packed
    <2>2. CASE ds = <<>>
      BY <2>2 DEF Packed
    <2> QED
      BY <2>1, <2>2
  <1>2. \A x \in Seq(Seq(S)), y \in S : Step("datagrams", x, y) \in Seq(Seq(S))
    BY <1>1 DEF Step
  <1>3. Folded("datagrams", <<>>, seq) \in Seq(Seq(S))
    <2> DEFINE T == Seq(Seq(S))
    <2>1. <<>> \in T /\ \A x \in T, y \in S : Step("datagrams", x, y) \in T
      BY <1>2
    <2> HIDE DEF T
    <2>2. Folded("datagrams", <<>>, seq) \in T
      BY <2>1, FoldKeeps
    <2> QED
      BY <2>2 DEF T
  <1> QED
    BY <1>3, DatagramsAreFolded

(* What an end may have sent it may still have sent when it has grown and  *)
(* its stream is longer.                                                   *)
LEMMA GoodIsKept ==
  ASSUME NEW k \in Block, NEW l \in Block, Grown(k, l), NEW F \in Streams, NEW H \in Streams,
         Len(F) <= Len(H), \A i \in 1..Len(F) : H[i] = F[i]
  PROVE Good(k, F) \subseteq Good(l, H)
  <1> SUFFICES ASSUME NEW seg \in Good(k, F) PROVE seg \in Good(l, H)
    OBVIOUS
  <1>1. /\ seg \in Segment /\ seg.una <= k.rcv_nxt
        /\ seg.cmd = "ACK" => Has(k, seg.sn)
        /\ seg.cmd = "PUSH" => seg.sn < k.snd_nxt /\ At(F, seg)
        /\ seg.sn \in Nat /\ seg.una \in Nat
    BY DEF Good, Segment
  <1>2. /\ k.rcv_nxt \in Nat /\ l.rcv_nxt \in Nat /\ k.snd_nxt \in Nat /\ l.snd_nxt \in Nat
        /\ Len(F) \in Nat /\ Len(H) \in Nat
    BY LenProperties DEF Block, Streams
  <1>3. seg.una <= l.rcv_nxt /\ (seg.cmd = "ACK" => Has(l, seg.sn))
    <2>1. k.rcv_nxt <= l.rcv_nxt /\ \A sn \in Nat : Has(k, sn) => Has(l, sn)
      BY DEF Grown
    <2>2. seg.una <= l.rcv_nxt
      BY <1>1, <1>2, <2>1
    <2> QED
      BY <1>1, <2>1, <2>2
  <1>4. ASSUME seg.cmd = "PUSH" PROVE seg.sn < l.snd_nxt /\ At(H, seg)
    <2>1. seg.sn < Len(F) /\ F[seg.sn + 1] = [frg |-> seg.frg, data |-> seg.data]
      BY <1>1, <1>4 DEF At
    <2>2. seg.sn + 1 \in 1..Len(F) /\ seg.sn < Len(H)
      BY <1>1, <1>2, <2>1
    <2>3. H[seg.sn + 1] = F[seg.sn + 1]
      BY <2>2
    <2>4. seg.sn < l.snd_nxt
      BY <1>1, <1>2, <1>4 DEF Grown
    <2> QED
      BY <2>1, <2>2, <2>3, <2>4 DEF At
  <1> QED
    BY <1>1, <1>3, <1>4 DEF Good

(* What is put out is part of the stream, and acknowledges what the end    *)
(* has.                                                                    *)
LEMMA OutputIs ==
  ASSUME NEW k \in Block, NEW p, NEW F, Sending(k, p, F),
         NEW nxt, NEW G, NEW base, Receiving(k, nxt, G, base), NEW asked, NEW due
  PROVE Output(k, asked, due) \in Seq(Seq(Good(k, F)))
  <1> DEFINE Head0(cmd) == [cmd |-> cmd, frg |-> 0, wnd |-> ikcp_wnd_unused(k), sn |-> 0,
                            una |-> k.rcv_nxt, data |-> <<>>]
             acks == [i \in 1..Len(k.acklist) |-> [Head0("ACK") EXCEPT !.sn = k.acklist[i]]]
             Wins == [Head0("WINS") EXCEPT !.sn = IF acks = <<>> THEN 0 ELSE Last(acks).sn]
             Wask == [Wins EXCEPT !.cmd = "WASK"]
             buf == {s \in k.snd_buf : NeedSend(s, due)}
             needed == InOrder(buf)
             data == [i \in 1..Len(needed) |->
                        [Head0("PUSH") EXCEPT !.sn = needed[i].sn, !.frg = needed[i].frg,
                                              !.data = needed[i].data]]
             one == IF "ASK_SEND" \in asked THEN <<Wask>> ELSE <<>>
             two == IF "ASK_TELL" \in asked THEN <<Wins>> ELSE <<>>
             T == Good(k, F)
  <1>1. /\ k.rcv_nxt \in Nat /\ k.snd_nxt \in Nat /\ k.acklist \in Seq(Nat) /\ k.rcv_queue \in Seq(Frag)
        /\ k.snd_buf \in SUBSET SndSeg /\ Len(k.acklist) \in Nat /\ <<>> \in Seq(Bytes)
    BY LenProperties DEF Block
  <1>2. ikcp_wnd_unused(k) \in Nat
    BY <1>1, WindowAssumption, LenProperties DEF ikcp_wnd_unused
  <1>3. ASSUME NEW i \in 1..Len(k.acklist) PROVE acks[i] \in T /\ acks[i].sn \in Nat
    <2>1. k.acklist[i] \in Nat /\ Has(k, k.acklist[i])
      BY <1>1, ElementOfSeq DEF Receiving
    <2>2. acks[i] = [cmd |-> "ACK", frg |-> 0, wnd |-> ikcp_wnd_unused(k), sn |-> k.acklist[i],
                     una |-> k.rcv_nxt, data |-> <<>>]
      OBVIOUS
    <2> HIDE DEF acks
    <2> QED
      BY <1>1, <1>2, <2>1, <2>2 DEF Good, Segment
  <1>4. acks \in Seq(T) /\ Len(acks) = Len(k.acklist)
    <2> DEFINE n == Len(k.acklist)
    <2>1. acks \in [1..n -> T] /\ n \in Nat
      BY <1>1, <1>3
    <2> HIDE DEF acks, T, n
    <2>2. acks \in Seq(T) /\ Len(acks) = n
      BY <2>1
    <2> QED
      BY <2>2 DEF n
  <1> HIDE DEF acks
  <1>5. Wins \in T /\ Wask \in T
    <2>1. (IF acks = <<>> THEN 0 ELSE Last(acks).sn) \in Nat
      <3>1. CASE acks = <<>>
        BY <3>1
      <3>2. CASE acks # <<>>
        <4>1. Len(acks) # 0
          BY <1>4, <3>2, EmptySeq
        <4>2. Len(acks) \in 1..Len(k.acklist)
          BY <1>1, <1>4, <4>1
        <4> QED
          BY <1>3, <3>2, <4>2 DEF Last
      <3> QED
        BY <3>1, <3>2
    <2>2. PICK n \in Nat : n = IF acks = <<>> THEN 0 ELSE Last(acks).sn
      BY <2>1
    <2>3. Wins = [cmd |-> "WINS", frg |-> 0, wnd |-> ikcp_wnd_unused(k), sn |-> n,
                  una |-> k.rcv_nxt, data |-> <<>>]
      BY <2>2
    <2>4. Wask = [cmd |-> "WASK", frg |-> 0, wnd |-> ikcp_wnd_unused(k), sn |-> n,
                  una |-> k.rcv_nxt, data |-> <<>>]
      <3> HIDE DEF Wins
      <3> QED
        BY <2>3
    <2> HIDE DEF Wins, Wask
    <2> QED
      BY <1>1, <1>2, <2>3, <2>4 DEF Good, Segment
  <1> HIDE DEF Wins, Wask
  <1>6. needed \in Seq(buf)
    <2>1. Numbered(buf, k.snd_nxt)
      BY <1>1 DEF Numbered, Sending
    <2> HIDE DEF buf
    <2> QED
      BY <1>1, <2>1, InOrderIs
  <1> HIDE DEF needed
  <1>7. ASSUME NEW i \in 1..Len(needed) PROVE data[i] \in T
    <2>1. needed[i] \in buf
      BY <1>6, ElementOfSeq
    <2>2. /\ needed[i] \in SndSeg /\ needed[i].sn < k.snd_nxt /\ At(F, needed[i])
          /\ needed[i].sn \in Nat /\ needed[i].frg \in Nat /\ needed[i].data \in Seq(Bytes)
      BY <1>1, <2>1 DEF Sending, SndSeg
    <2>3. data[i] = [cmd |-> "PUSH", frg |-> needed[i].frg, wnd |-> ikcp_wnd_unused(k),
                     sn |-> needed[i].sn, una |-> k.rcv_nxt, data |-> needed[i].data]
      OBVIOUS
    <2> HIDE DEF data
    <2> QED
      BY <1>1, <1>2, <2>2, <2>3 DEF Good, Segment, At
  <1>8. data \in Seq(T)
    <2>1. data \in [1..Len(needed) -> T]
      BY <1>7
    <2>2. Len(needed) \in Nat
      BY <1>6, LenProperties
    <2> HIDE DEF data, T
    <2> QED
      BY <2>1, <2>2
  <1> HIDE DEF data, T
  <1>9. one \in Seq(T) /\ two \in Seq(T)
    BY <1>5
  <1> HIDE DEF one, two
  <1>10. acks \o one \o two \o data \in Seq(T)
    BY <1>4, <1>8, <1>9, ConcatProperties
  <1>11. Output(k, asked, due) = Datagrams(acks \o one \o two \o data)
    BY DEF Output, acks, one, two, data, needed, Wins, Wask
  <1> QED
    BY <1>10, <1>11, DatagramsAre DEF T

(* Flush, put together.                                                    *)
LEMMA FlushIs ==
  ASSUME NEW k \in Block, NEW q \in Block, NEW F \in Streams, NEW nxt \in Nat, NEW G, NEW base,
         Sending(k, q, F), Receiving(k, nxt, G, base), NEW due, NEW ask
  PROVE  LET l == Flush(k, due, ask).kcp IN
         /\ l \in Block /\ Sending(l, q, F) /\ Receiving(l, nxt, G, base) /\ Grown(k, l)
         /\ Flush(k, due, ask).out \in Seq(Seq(Good(l, F)))
  <1> DEFINE asking == Probe(k, ask)
             quiet == [asking EXCEPT !.probe = {}]
             admitted == Admit(quiet)
             l == ikcp_flush(admitted, due)
             out == Output(admitted, asking.probe, due)
  <1>1. Flush(k, due, ask) = [kcp |-> l, out |-> out]
    BY DEF Flush
  <1>2. quiet \in Block /\ SameTx(k, quiet) /\ SameRx(k, quiet)
    BY Probed
  <1> HIDE DEF asking, quiet
  <1>3. k.snd_nxt \in Nat /\ k.rcv_nxt \in Nat /\ q.snd_nxt \in Nat /\ q.rcv_nxt \in Nat
    BY DEF Block
  <1>4. Grown(q, q)
    BY <1>3 DEF Grown
  <1>5. Sending(quiet, q, F) /\ quiet.snd_nxt = k.snd_nxt
    BY <1>2, <1>4, SendingIsKept DEF SameTx
  <1>6. Receiving(quiet, nxt, G, base)
    <2>1. nxt <= nxt
      OBVIOUS
    <2> QED
      BY <1>2, <2>1, ReceivingIsKept
  <1>7. /\ admitted \in Block /\ Sending(admitted, q, F) /\ SameRx(quiet, admitted)
        /\ quiet.snd_nxt <= admitted.snd_nxt
    BY <1>2, <1>5, Admitted
  <1> HIDE DEF admitted
  <1>8. Receiving(admitted, nxt, G, base)
    <2>1. nxt <= nxt
      OBVIOUS
    <2> QED
      BY <1>2, <1>6, <1>7, <2>1, ReceivingIsKept
  <1>9. Grown(k, admitted)
    <2>1. SameRx(k, admitted) /\ k.snd_nxt <= admitted.snd_nxt
      BY <1>2, <1>5, <1>7 DEF SameRx
    <2> QED
      BY <1>7, <2>1, SameIsGrown
  <1>10. /\ l \in Block /\ Sending(l, q, F) /\ Receiving(l, nxt, G, base)
         /\ Grown(admitted, l)
    BY <1>7, <1>8, Flushed
  <1>11. out \in Seq(Seq(Good(admitted, F)))
    BY <1>7, <1>8, OutputIs
  <1> HIDE DEF l, out
  <1>12. Good(admitted, F) \subseteq Good(l, F)
    <2>1. Len(F) <= Len(F)
      BY LenProperties DEF Streams
    <2> QED
      BY <1>7, <1>10, <2>1, GoodIsKept
  <1>13. out \in Seq(Seq(Good(l, F)))
    <2>1. \A S, T : S \subseteq T => Seq(S) \subseteq Seq(T)
      OBVIOUS
    <2>2. Seq(Good(admitted, F)) \subseteq Seq(Good(l, F))
      BY <1>12, <2>1
    <2> QED
      BY <1>11, <2>1, <2>2
  <1>14. Grown(k, l)
    BY <1>7, <1>9, <1>10, GrownIsTransitive
  <1> QED
    BY <1>1, <1>10, <1>13, <1>14

-----------------------------------------------------------------------------
(* Messages.  What Fragments cuts, Message puts together.                  *)
LEMMA CountIs ==
  ASSUME NEW n \in Nat
  PROVE  /\ Count(n) \in Nat \ {0} /\ n <= Count(n) * mss
         /\ \A i \in 1..Count(n) : i # Count(n) => i * mss <= n
         /\ n # 0 => (Count(n) - 1) * mss < n
  <1>1. mss \in Nat \ {0}
    BY SizeAssumption
  <1>2. CASE n <= mss
    <2>1. Count(n) = 1
      BY <1>2 DEF Count
    <2> QED
      BY <1>1, <1>2, <2>1
  <1>3. CASE ~ (n <= mss)
    <2> DEFINE c == (n + mss - 1) \div mss
    <2>1. Count(n) = c
      BY <1>3 DEF Count
    <2>2. c \in Nat /\ c * mss <= n + mss - 1 /\ n + mss - 1 < c * mss + mss
      BY <1>1
    <2> HIDE DEF c
    <2>3. n <= c * mss /\ c # 0
      BY <1>1, <1>3, <2>2
    <2>4. (c - 1) * mss = c * mss - mss
      BY <1>1, <2>2
    <2>5. (c - 1) * mss < n
      BY <1>1, <2>2, <2>4
    <2>6. ASSUME NEW i \in 1..c, i # c PROVE i * mss <= n
      <3>1. i \in Nat /\ i <= c - 1 /\ c - 1 \in Nat
        BY <2>2, <2>3, <2>6
      <3>2. i * mss <= (c - 1) * mss
        BY <1>1, <3>1
      <3>3. i * mss \in Nat /\ (c - 1) * mss \in Nat
        BY <1>1, <3>1
      <3> QED
        BY <2>5, <3>2, <3>3
    <2> QED
      BY <2>1, <2>2, <2>3, <2>5, <2>6
  <1> QED
    BY <1>2, <1>3

(* Where fragment i of n bytes begins and ends.                            *)
LEMMA Borders ==
  ASSUME NEW n \in Nat, NEW i \in 1..Count(n)
  PROVE  /\ (i - 1) * mss \in Nat /\ (i - 1) * mss <= n
         /\ Smaller(i * mss, n) \in Nat /\ (i - 1) * mss <= Smaller(i * mss, n)
         /\ Smaller(i * mss, n) <= n
  <1>1. /\ mss \in Nat \ {0} /\ Count(n) \in Nat \ {0} /\ n <= Count(n) * mss
        /\ \A j \in 1..Count(n) : j # Count(n) => j * mss <= n
    BY SizeAssumption, CountIs
  <1>2. i \in Nat /\ i - 1 \in Nat /\ i * mss \in Nat /\ (i - 1) * mss \in Nat
        /\ (i - 1) * mss <= i * mss
    BY <1>1
  <1>3. (i - 1) * mss <= n
    <2>1. CASE i = 1
      <3>1. (i - 1) * mss = 0
        BY <1>1, <2>1
      <3> QED
        BY <3>1
    <2>2. CASE i # 1
      <3>1. i - 1 \in 1..Count(n) /\ i - 1 # Count(n)
        BY <1>1, <2>2
      <3> QED
        BY <1>1, <3>1
    <2> QED
      BY <2>1, <2>2
  <1> QED
    BY <1>2, <1>3 DEF Smaller

(* The fragments of a message are numbered down to 0, and hold its bytes in*)
(* order.                                                                  *)
LEMMA FragmentsAre ==
  ASSUME NEW data \in Seq(Bytes)
  PROVE  /\ Fragments(data) \in Seq(Frag) /\ Len(Fragments(data)) = Count(Len(data))
         /\ \A i \in 1..Count(Len(data)) :
              /\ Fragments(data)[i].frg = Count(Len(data)) - i
              /\ Fragments(data)[i].data = SubSeq(data, (i - 1) * mss + 1, Smaller(i * mss, Len(data)))
  <1> DEFINE n == Len(data)
             c == Count(n)
             f == Fragments(data)
  <1>1. n \in Nat /\ c \in Nat /\ c # 0
    BY LenProperties, CountIs
  <1>2. f = [i \in 1..c |-> [frg |-> c - i,
                             data |-> SubSeq(data, (i - 1) * mss + 1, Smaller(i * mss, n))]]
    BY DEF Fragments
  <1>3. ASSUME NEW i \in 1..c PROVE f[i] \in Frag
    <2>1. /\ (i - 1) * mss \in Nat /\ (i - 1) * mss <= n
          /\ Smaller(i * mss, n) \in Nat /\ (i - 1) * mss <= Smaller(i * mss, n)
          /\ Smaller(i * mss, n) <= n
      BY <1>1, Borders
    <2> DEFINE a == (i - 1) * mss
               b == Smaller(i * mss, n)
    <2>2. f[i] = [frg |-> c - i, data |-> SubSeq(data, a + 1, b)]
      BY <1>2
    <2> HIDE DEF a, b
    <2>3. a + 1 \in 1..n + 1 /\ b \in (a + 1) - 1..n
      BY <1>1, <2>1 DEF a, b
    <2>4. SubSeq(data, a + 1, b) \in Seq(Bytes)
      BY <2>3, Part
    <2>5. c - i \in Nat
      BY <1>1
    <2> QED
      BY <2>2, <2>4, <2>5 DEF Frag
  <1> HIDE DEF f, c
  <1>4. f \in Seq(Frag) /\ Len(f) = c
    <2>1. f \in [1..c -> Frag]
      <3>1. DOMAIN f = 1..c /\ f = [i \in 1..c |-> f[i]]
        BY <1>2
      <3> QED
        BY <1>3, <3>1
    <2> QED
      BY <1>1, <2>1
  <1>5. \A i \in 1..c : /\ f[i].frg = c - i
                        /\ f[i].data = SubSeq(data, (i - 1) * mss + 1, Smaller(i * mss, n))
    BY <1>2
  <1> QED
    BY <1>4, <1>5 DEF f, c

(* The bytes of the fragments of a message, one after the other, are the   *)
(* message.                                                                *)
LEMMA Reassembled ==
  ASSUME NEW data \in Seq(Bytes)
  PROVE Folded("message", <<>>, Fragments(data)) = data
  <1> DEFINE n == Len(data)
             c == Count(n)
             f == Fragments(data)
             Part0(i) == SubSeq(data, 1, Smaller(i * mss, n))
  <1>1. /\ n \in Nat /\ c \in Nat /\ c # 0 /\ mss \in Nat /\ f \in Seq(Frag) /\ Len(f) = c
        /\ n <= c * mss /\ c * mss \in Nat
        /\ \A i \in 1..c : f[i].data = SubSeq(data, (i - 1) * mss + 1, Smaller(i * mss, n))
    <2>1. n \in Nat /\ mss \in Nat
      BY SizeAssumption, LenProperties
    <2>2. c \in Nat /\ c # 0 /\ n <= c * mss
      BY <2>1, CountIs
    <2>3. c * mss \in Nat
      BY <2>1, <2>2
    <2>4. /\ f \in Seq(Frag) /\ Len(f) = c
          /\ \A i \in 1..c : f[i].data = SubSeq(data, (i - 1) * mss + 1, Smaller(i * mss, n))
      BY FragmentsAre
    <2> QED
      BY <2>1, <2>2, <2>3, <2>4
  <1> HIDE DEF c, f
  <1>2a. PICK h : Run("message", <<>>, f, h)
    BY <1>1, FoldRun
  <1>2. /\ h[0] = <<>> /\ h[Len(f)] = Folded("message", <<>>, f)
        /\ \A i \in 1..Len(f) : h[i] = Step("message", h[i - 1], f[i])
    BY <1>2a DEF Run
  <1> DEFINE Bad == {i \in 0..c : h[i] # Part0(i)}
  <1>3. Bad = {}
    <2>1. SUFFICES ASSUME Bad # {} PROVE FALSE
      OBVIOUS
    <2>5. Bad \in SUBSET Nat
      BY <1>1
    <2>2. PICK i \in Bad : \A y \in Bad : i <= y
      BY <2>1, <2>5, LeastOf
    <2>3. CASE i = 0
      <3>1. i * mss = 0
        BY <1>1, <2>3
      <3>2. Smaller(i * mss, n) = 0
        BY <1>1, <3>1 DEF Smaller
      <3>3. Part0(i) = <<>>
        BY <3>2, SubSeqEmpty
      <3> QED
        BY <1>2, <2>2, <2>3, <3>3
    <2>4. CASE i # 0
      <3> DEFINE a == (i - 1) * mss
                 b == Smaller(i * mss, n)
      <3>1. i \in 1..c /\ i - 1 \in 0..c /\ i \in Nat /\ i - 1 \in Nat
        BY <1>1, <2>2, <2>4
      <3>2. a \in Nat /\ a <= n /\ b \in Nat /\ a <= b /\ b <= n
        BY <1>1, <3>1, Borders DEF c
      <3>3. i - 1 \notin Bad
        BY <2>2, <3>1
      <3>4. h[i - 1] = SubSeq(data, 1, a)
        <4>1. h[i - 1] = SubSeq(data, 1, Smaller((i - 1) * mss, n))
          BY <3>1, <3>3
        <4>2. Smaller((i - 1) * mss, n) = a
          BY <3>2 DEF Smaller
        <4> QED
          BY <4>1, <4>2
      <3>5. h[i] = h[i - 1] \o f[i].data
        BY <1>1, <1>2, <3>1 DEF Step
      <3>6. f[i].data = SubSeq(data, a + 1, b)
        BY <1>1, <3>1
      <3>7. h[i] # SubSeq(data, 1, b)
        BY <2>2
      <3> HIDE DEF a, b
      <3>8. 1 \in 1..n + 1 /\ a \in 1 - 1..n /\ b \in a..n
        BY <1>1, <3>2
      <3>9. SubSeq(data, 1, a) \o SubSeq(data, a + 1, b) = SubSeq(data, 1, b)
        BY <3>8, ConcatAdjacentSubSeq
      <3> QED
        BY <3>4, <3>5, <3>6, <3>7, <3>9
    <2> QED
      BY <2>3, <2>4
  <1>4. h[c] = Part0(c)
    <2>1. c \in 0..c
      BY <1>1
    <2>2. c \notin Bad
      BY <1>3, Zenon
    <2> QED
      BY <2>1, <2>2
  <1>5. Smaller(c * mss, n) = n
    BY <1>1 DEF Smaller
  <1>6. Part0(c) = data
    BY <1>5, SubSeqFull
  <1>7. Folded("message", <<>>, f) = data
    BY <1>1, <1>2, <1>4, <1>6
  <1> QED
    BY <1>7 DEF f

(* What is taken from a queue that begins with the fragments of a message  *)
(* is that message.                                                        *)
LEMMA MessageIs ==
  ASSUME NEW queue \in Seq(Frag), NEW data \in Seq(Bytes), Count(Len(data)) <= Len(queue),
         \A i \in 1..Count(Len(data)) : queue[i] = Fragments(data)[i]
  PROVE End(queue) = Count(Len(data)) /\ Message(queue) = data
  <1> DEFINE c == Count(Len(data))
             f == Fragments(data)
             m == Len(queue)
  <1>1. /\ m \in Nat /\ c \in Nat /\ c # 0 /\ c <= m /\ f \in Seq(Frag) /\ Len(f) = c
        /\ \A i \in 1..c : queue[i] = f[i] /\ f[i].frg = c - i
    BY LenProperties, CountIs, FragmentsAre
  <1>2. End(queue) = CHOOSE i \in 1..m : /\ queue[i].frg = 0 \/ i = m
                                         /\ \A j \in 1..i - 1 : queue[j].frg # 0
    BY DEF End
  <1> HIDE DEF c, f, m
  <1>3. \A i \in 1..c : queue[i].frg = c - i
    BY <1>1
  <1>4. c \in 1..m /\ queue[c].frg = 0 /\ \A j \in 1..c - 1 : queue[j].frg # 0
    BY <1>1, <1>3
  <1>5. ASSUME NEW i \in 1..m, queue[i].frg = 0 \/ i = m, \A j \in 1..i - 1 : queue[j].frg # 0
        PROVE i = c
    <2>1. ~ (i > c)
      <3>1. i > c => c \in 1..i - 1
        BY <1>1
      <3> QED
        BY <1>4, <1>5, <3>1
    <2>2. ~ (i < c)
      <3>1. i < c => i \in 1..c /\ i # m /\ c - i # 0
        BY <1>1
      <3> QED
        BY <1>3, <1>5, <3>1
    <2> QED
      BY <1>1, <2>1, <2>2
  <1>6. End(queue) = c
    BY <1>2, <1>4, <1>5
  <1>7. SubSeq(queue, 1, c) = f
    <2>1. 1 \in 1..m + 1 /\ c \in 1 - 1..m
      BY <1>1
    <2>2. /\ SubSeq(queue, 1, c) \in Seq(Frag) /\ Len(SubSeq(queue, 1, c)) = c - 1 + 1
          /\ \A i \in 1..c - 1 + 1 : SubSeq(queue, 1, c)[i] = queue[1 + i - 1]
      BY <2>1, Part DEF m
    <2>3. \A i \in 1..c : SubSeq(queue, 1, c)[i] = f[i]
      <3>1. \A i \in 1..c : i \in 1..c - 1 + 1 /\ 1 + i - 1 = i
        BY <1>1
      <3> QED
        BY <1>1, <2>2, <3>1
    <2>4. Len(SubSeq(queue, 1, c)) = Len(f)
      BY <1>1, <2>2
    <2> QED
      BY <1>1, <2>2, <2>3, <2>4, SameSequence
  <1>8. Message(queue) = Folded("message", <<>>, f)
    BY <1>6, <1>7, MessageIsFolded DEF Message
  <1> QED
    BY <1>6, <1>8, Reassembled DEF c, f

-----------------------------------------------------------------------------
(* One more message makes the stream longer.                               *)
Extends(F, H) == Len(F) <= Len(H) /\ \A i \in 1..Len(F) : H[i] = F[i]

(* H is F and the fragments of data.                                       *)
Continues(F, H, data) ==
  /\ H \in Streams /\ Extends(F, H) /\ Len(H) = Len(F) + Count(Len(data))
  /\ \A i \in 1..Count(Len(data)) : H[Len(F) + i] = Fragments(data)[i]

(* A part of a stream is the same part of a longer one.                    *)
LEMMA SamePart ==
  ASSUME NEW F \in Streams, NEW H \in Streams, Extends(F, H),
         NEW m \in 1..Len(F) + 1, NEW n \in m - 1..Len(F)
  PROVE SubSeq(F, m, n) = SubSeq(H, m, n)
  <1> DEFINE s == SubSeq(F, m, n)
             t == SubSeq(H, m, n)
  <1>1. /\ F \in Seq(Frag) /\ H \in Seq(Frag) /\ Len(F) \in Nat /\ Len(H) \in Nat
        /\ m \in Nat /\ n \in Nat /\ Len(F) <= Len(H)
    BY LenProperties DEF Streams, Extends
  <1>2. m \in 1..Len(H) + 1 /\ n \in m - 1..Len(H)
    BY <1>1
  <1>3. s \in Seq(Frag) /\ Len(s) = n - m + 1 /\ \A i \in 1..n - m + 1 : s[i] = F[m + i - 1]
    BY <1>1, Part
  <1>4. t \in Seq(Frag) /\ Len(t) = n - m + 1 /\ \A i \in 1..n - m + 1 : t[i] = H[m + i - 1]
    BY <1>1, <1>2, Part
  <1> HIDE DEF s, t
  <1>5. \A i \in 1..n - m + 1 : m + i - 1 \in 1..Len(F)
    BY <1>1
  <1>6. \A i \in 1..Len(s) : s[i] = t[i]
    BY <1>3, <1>4, <1>5 DEF Extends
  <1>7. s = t
    BY <1>3, <1>4, <1>6, SameSequence
  <1> QED
    BY <1>7 DEF s, t

(* A segment of a stream is one of a longer one.                           *)
LEMMA SameAt ==
  ASSUME NEW F \in Streams, NEW H \in Streams, Extends(F, H), NEW s, s.sn \in Nat, At(F, s)
  PROVE At(H, s)
  <1>1. Len(F) \in Nat /\ Len(H) \in Nat /\ Len(F) <= Len(H) /\ s.sn < Len(F)
    BY LenProperties DEF Streams, Extends, At
  <1>2. s.sn + 1 \in 1..Len(F) /\ s.sn < Len(H)
    BY <1>1
  <1> QED
    BY <1>2 DEF At, Extends

(* What is received is a part of the longer stream, too.                   *)
LEMMA ReceivingOfMore ==
  ASSUME NEW k \in Block, NEW F \in Streams, NEW H \in Streams, Extends(F, H),
         NEW nxt \in Nat, nxt <= Len(F), NEW base \in Nat, Receiving(k, nxt, F, base)
  PROVE Receiving(k, nxt, H, base)
  <1>1. k.rcv_nxt \in Nat /\ Len(F) \in Nat /\ k.rcv_nxt <= nxt /\ base <= k.rcv_nxt
    BY LenProperties DEF Block, Receiving, Streams
  <1>2. base + 1 \in 1..Len(F) + 1 /\ k.rcv_nxt \in (base + 1) - 1..Len(F)
    BY <1>1
  <1>3. SubSeq(F, base + 1, k.rcv_nxt) = SubSeq(H, base + 1, k.rcv_nxt)
    BY <1>2, SamePart
  <1>4. \A s \in k.rcv_buf : At(H, s)
    BY SameAt DEF Receiving, Block, RcvSeg
  <1> QED
    BY <1>3, <1>4 DEF Receiving

(* ikcp_send makes the stream longer by the fragments of a message.        *)
LEMMA SendIs ==
  ASSUME NEW k \in Block, NEW q \in Block, NEW F \in Streams, Sending(k, q, F),
         NEW data \in Seq(Bytes), NEW l, l = ikcp_send(k, data)
  PROVE LET H == F \o Fragments(data) IN
        /\ Continues(F, H, data)
        /\ l \in Block /\ Sending(l, q, H) /\ SameRx(k, l) /\ l.snd_nxt = k.snd_nxt
  <1> DEFINE f == Fragments(data)
             c == Count(Len(data))
             H == F \o f
             x == k.snd_nxt
             N == Len(F)
  <1>1. f \in Seq(Frag) /\ Len(f) = c /\ c \in Nat
    BY FragmentsAre, CountIs, LenProperties
  <1>2. F \in Seq(Frag) /\ N \in Nat /\ x \in Nat /\ k.snd_queue \in Seq(Frag)
    BY LenProperties DEF Streams, Block
  <1>3. /\ k.snd_una <= x /\ x <= k.snd_una + snd_wnd /\ x <= N
        /\ k.snd_queue = SubSeq(F, x + 1, N)
        /\ \A s \in k.snd_buf : k.snd_una <= s.sn /\ s.sn < x /\ At(F, s)
        /\ \A s, t \in k.snd_buf : s.sn = t.sn => s = t
        /\ \A sn \in 0..x - 1 : Has(q, sn) \/ \E s \in k.snd_buf : s.sn = sn
    BY DEF Sending
  <1>4. l = [k EXCEPT !.snd_queue = k.snd_queue \o f]
    BY DEF ikcp_send, Block
  <1>4a. k.snd_nxt = x
    OBVIOUS
  <1> HIDE DEF f, c, N, x
  <1>5. /\ H \in Seq(Frag) /\ Len(H) = N + c
        /\ \A i \in 1..N + c : H[i] = IF i <= N THEN F[i] ELSE f[i - N]
    BY <1>1, <1>2, ConcatProperties DEF N
  <1> HIDE DEF H
  <1>6. \A i \in 1..N : H[i] = F[i]
    <2>1. \A i \in 1..N : i \in 1..N + c /\ i <= N
      BY <1>1, <1>2
    <2> QED
      BY <1>5, <2>1
  <1>7. \A i \in 1..c : H[N + i] = f[i]
    <2> SUFFICES ASSUME NEW i \in 1..c PROVE H[N + i] = f[i]
      OBVIOUS
    <2> DEFINE j == N + i
    <2>1. j \in 1..N + c /\ ~ (j <= N) /\ j - N = i
      BY <1>1, <1>2
    <2> HIDE DEF j
    <2>2. H[j] = f[j - N]
      BY <1>5, <2>1
    <2> QED
      BY <2>1, <2>2 DEF j
  <1>8. N <= N + c /\ N + c \in Nat
    BY <1>1, <1>2
  <1>9. H \in Streams /\ Extends(F, H)
    BY <1>5, <1>6, <1>8 DEF Streams, Extends, N
  <1>10. SubSeq(F, x + 1, N) = SubSeq(H, x + 1, N)
    <2>1. x + 1 \in 1..Len(F) + 1 /\ N \in (x + 1) - 1..Len(F)
      BY <1>2, <1>3 DEF N
    <2> QED
      BY <1>9, <2>1, SamePart
  <1>11. SubSeq(H, N + 1, N + c) = f
    <2> DEFINE t == SubSeq(H, N + 1, N + c)
    <2>1. N + 1 \in 1..Len(H) + 1 /\ N + c \in (N + 1) - 1..Len(H) /\ (N + c) - (N + 1) + 1 = c
      BY <1>1, <1>2, <1>5
    <2>2. t \in Seq(Frag) /\ Len(t) = c /\ \A i \in 1..c : t[i] = H[N + 1 + i - 1]
      <3>1. /\ t \in Seq(Frag) /\ Len(t) = (N + c) - (N + 1) + 1
            /\ \A i \in 1..(N + c) - (N + 1) + 1 : t[i] = H[N + 1 + i - 1]
        BY <1>5, <2>1, Part
      <3> QED
        BY <2>1, <3>1
    <2>3. \A i \in 1..c : N + 1 + i - 1 = N + i
      BY <1>2
    <2> HIDE DEF t
    <2>4. \A i \in 1..Len(t) : t[i] = f[i]
      BY <1>7, <2>2, <2>3
    <2>5. t = f
      BY <1>1, <2>2, <2>4, SameSequence
    <2> QED
      BY <2>5 DEF t
  <1>12. k.snd_queue \o f = SubSeq(H, x + 1, N + c)
    <2>1. x + 1 \in 1..Len(H) + 1 /\ N \in (x + 1) - 1..Len(H) /\ N + c \in N..Len(H)
      BY <1>1, <1>2, <1>3, <1>5
    <2>2. SubSeq(H, x + 1, N) \o SubSeq(H, N + 1, N + c) = SubSeq(H, x + 1, N + c)
      BY <1>5, <2>1, ConcatAdjacentSubSeq
    <2> QED
      BY <1>3, <1>10, <1>11, <2>2
  <1>13. k.snd_queue \o f \in Seq(Frag)
    BY <1>1, <1>2, ConcatProperties
  <1>14. /\ l \in Block /\ SameRx(k, l) /\ l.snd_nxt = x /\ l.snd_una = k.snd_una
         /\ l.snd_buf = k.snd_buf /\ l.snd_queue = k.snd_queue \o f
    BY <1>4, <1>4a, <1>13 DEF Block, SameRx
  <1>15. \A s \in k.snd_buf : At(H, s)
    BY <1>3, <1>9, SameAt DEF Block, SndSeg
  <1>16. x <= N + c
    BY <1>1, <1>2, <1>3
  <1>17. Sending(l, q, H)
    <2>1. l.snd_queue = SubSeq(H, l.snd_nxt + 1, Len(H))
      BY <1>5, <1>12, <1>14
    <2>2. l.snd_una <= l.snd_nxt /\ l.snd_nxt <= l.snd_una + snd_wnd /\ l.snd_nxt <= Len(H)
      BY <1>3, <1>5, <1>14, <1>16
    <2>3. /\ \A s \in l.snd_buf : l.snd_una <= s.sn /\ s.sn < l.snd_nxt /\ At(H, s)
          /\ \A s, t \in l.snd_buf : s.sn = t.sn => s = t
      BY <1>3, <1>14, <1>15
    <2>4. \A sn \in 0..l.snd_nxt - 1 : Has(q, sn) \/ \E s \in l.snd_buf : s.sn = sn
      BY <1>3, <1>14
    <2> QED
      BY <2>1, <2>2, <2>3, <2>4 DEF Sending
  <1> QED
    BY <1>5, <1>7, <1>9, <1>14, <1>17, <1>4a DEF Continues, H, N, c, f

(* The longer stream is cut after the new message.                         *)
LEMMA CutMore ==
  ASSUME NEW msgs \in Seq(Seq(Bytes)), NEW F, NEW B, Cut(msgs, F, B),
         NEW data \in Seq(Bytes), NEW H, Continues(F, H, data)
  PROVE \E C : /\ Cut(Append(msgs, data), H, C)
               /\ \A m \in 0..Len(msgs) : C[m] = B[m]
  <1> DEFINE n == Len(msgs)
             c == Count(Len(data))
             C == [m \in 0..n + 1 |-> IF m = n + 1 THEN Len(H) ELSE B[m]]
             more == Append(msgs, data)
  <1>0. /\ H \in Streams /\ Extends(F, H) /\ Len(H) = Len(F) + c
        /\ \A i \in 1..c : H[Len(F) + i] = Fragments(data)[i]
    BY DEF Continues
  <1>1. n \in Nat /\ c \in Nat /\ Len(F) \in Nat /\ Len(H) \in Nat
    BY <1>0, LenProperties, CountIs DEF Cut, Streams
  <1>2. Len(more) = n + 1 /\ more[n + 1] = data /\ \A m \in 1..n : more[m] = msgs[m]
    BY AppendProperties
  <1>3. C[n + 1] = Len(H) /\ \A m \in 0..n : C[m] = B[m] /\ m # n + 1
    BY <1>1
  <1>4. /\ B[0] = 0 /\ B[n] = Len(F)
        /\ \A m \in 0..n : B[m] \in Nat /\ B[m] <= Len(F)
        /\ \A m \in 1..n :
             /\ B[m] = B[m - 1] + Count(Len(msgs[m]))
             /\ \A i \in 1..Count(Len(msgs[m])) : F[B[m - 1] + i] = Fragments(msgs[m])[i]
    BY DEF Cut
  <1>5. \A m \in 1..n : Count(Len(msgs[m])) \in Nat
    BY ElementOfSeq, LenProperties, CountIs
  <1> HIDE DEF n, c, C, more
  <1>6. \A m \in 0..n + 1 : C[m] \in Nat /\ C[m] <= Len(H)
    <2>1. \A m \in 0..n + 1 : m = n + 1 \/ m \in 0..n
      BY <1>1
    <2>2. \A m \in 0..n : C[m] \in Nat /\ C[m] <= Len(F)
      BY <1>3, <1>4
    <2>3. Len(F) <= Len(H)
      BY <1>0 DEF Extends
    <2> QED
      BY <1>1, <1>3, <2>1, <2>2, <2>3
  <1>7. ASSUME NEW m \in 1..n + 1
        PROVE /\ C[m] = C[m - 1] + Count(Len(more[m]))
              /\ \A i \in 1..Count(Len(more[m])) : H[C[m - 1] + i] = Fragments(more[m])[i]
    <2>1. m - 1 \in 0..n /\ C[m - 1] = B[m - 1]
      BY <1>1, <1>3
    <2>2. CASE m = n + 1
      <3>1. m - 1 = n /\ B[m - 1] = Len(F) /\ more[m] = data /\ C[m] = Len(H)
        BY <1>1, <1>2, <1>3, <1>4, <2>2
      <3> QED
        BY <1>0, <2>1, <3>1 DEF c
    <2>3. CASE m # n + 1
      <3>1. m \in 1..n /\ m \in 0..n /\ more[m] = msgs[m] /\ C[m] = B[m]
        BY <1>1, <1>2, <1>3, <2>3
      <3>2. ASSUME NEW i \in 1..Count(Len(msgs[m])) PROVE H[B[m - 1] + i] = F[B[m - 1] + i]
        <4>1. B[m - 1] \in Nat /\ B[m] <= Len(F) /\ B[m] = B[m - 1] + Count(Len(msgs[m]))
          BY <1>4, <2>1, <3>1
        <4>2. Count(Len(msgs[m])) \in Nat /\ i \in Nat /\ 1 <= i /\ i <= Count(Len(msgs[m]))
          BY <1>5, <3>1
        <4>3. B[m - 1] + i \in 1..Len(F)
          <5> DEFINE x == B[m - 1]
                     y == Count(Len(msgs[m]))
                     N == Len(F)
          <5>1. x \in Nat /\ y \in Nat /\ N \in Nat /\ i \in Nat /\ 1 <= i /\ i <= y /\ x + y <= N
            BY <1>1, <4>1, <4>2
          <5> HIDE DEF x, y, N
          <5>2. x + i \in 1..N
            BY <5>1
          <5> QED
            BY <5>2 DEF x, N
        <4> QED
          BY <1>0, <4>3 DEF Extends
      <3> QED
        BY <1>4, <2>1, <3>1, <3>2
    <2> QED
      BY <2>2, <2>3
  <1>8. C[0] = 0
    BY <1>1, <1>3, <1>4
  <1>9. Cut(more, H, C)
    BY <1>0, <1>2, <1>3, <1>6, <1>7, <1>8 DEF Cut
  <1> QED
    BY <1>3, <1>9 DEF more, n

(* Taking the message that is next.                                        *)
LEMMA Taken ==
  ASSUME NEW k \in Block, NEW nxt \in Nat, NEW F, nxt <= Len(F),
         NEW msgs \in Seq(Seq(Bytes)), NEW B, Cut(msgs, F, B), NEW r \in 0..Len(msgs),
         Receiving(k, nxt, F, B[r]), Peek(k.rcv_queue), NEW l, l = ikcp_recv(k)
  PROVE /\ r + 1 \in 1..Len(msgs) /\ Message(k.rcv_queue) = msgs[r + 1]
        /\ l \in Block /\ Receiving(l, nxt, F, B[r + 1]) /\ SameTx(k, l) /\ Grown(k, l)
  <1> DEFINE x == k.rcv_nxt
             q == k.rcv_queue
             base == B[r]
             data == msgs[r + 1]
             c == Count(Len(data))
             N == Len(F)
             n == Len(msgs)
  <1>1. /\ x \in Nat /\ q \in Seq(Frag) /\ Len(q) \in Nat /\ F \in Seq(Frag) /\ N \in Nat
        /\ n \in Nat /\ r \in Nat /\ rcv_wnd \in Nat /\ F \in Streams
    BY LenProperties, WindowAssumption DEF Block, Cut, Streams
  <1>2. /\ base <= x /\ x <= nxt /\ q = SubSeq(F, base + 1, x) /\ Len(q) <= rcv_wnd
    BY DEF Receiving
  <1>3. base \in Nat /\ base <= N /\ B[n] = N
    BY DEF Cut
  <1>3a. q # <<>> /\ Len(q) >= q[1].frg + 1
    BY DEF Peek
  <1> HIDE DEF x, q, base, N, n
  <1>4. x <= N /\ base + 1 \in 1..N + 1 /\ x \in (base + 1) - 1..N /\ x - (base + 1) + 1 = x - base
    BY <1>1, <1>2, <1>3 DEF N
  <1>5. Len(q) = x - base /\ \A i \in 1..x - base : q[i] = F[base + i]
    <2>1. /\ Len(q) = x - (base + 1) + 1
          /\ \A i \in 1..x - (base + 1) + 1 : q[i] = F[base + 1 + i - 1]
      BY <1>1, <1>2, <1>4, Part DEF N
    <2>2. \A i \in 1..x - base : base + 1 + i - 1 = base + i
      BY <1>3
    <2> QED
      BY <1>4, <2>1, <2>2
  <1>6. Len(q) # 0
    BY <1>1, <1>3a, EmptySeq
  <1>7. r # n
    BY <1>1, <1>3, <1>4, <1>5, <1>6 DEF base
  <1>8. r + 1 \in 1..n /\ r + 1 - 1 = r
    BY <1>1, <1>7 DEF n
  <1>9. data \in Seq(Bytes)
    BY <1>8, ElementOfSeq DEF n
  <1>10. /\ B[r + 1] = base + c /\ \A i \in 1..c : F[base + i] = Fragments(data)[i]
    BY <1>8 DEF Cut, base, n
  <1>11. c \in Nat /\ c # 0 /\ \A i \in 1..c : Fragments(data)[i].frg = c - i
    BY <1>9, FragmentsAre, CountIs, LenProperties
  <1> HIDE DEF data, c
  <1>12. c <= Len(q)
    <2>1. 1 \in 1..c /\ 1 \in 1..x - base
      BY <1>1, <1>3, <1>5, <1>6, <1>11
    <2>2. q[1] = Fragments(data)[1] /\ q[1].frg = c - 1
      BY <1>5, <1>10, <1>11, <2>1
    <2> QED
      BY <1>1, <1>3a, <1>11, <2>2
  <1>13. \A i \in 1..c : q[i] = Fragments(data)[i]
    <2>1. \A i \in 1..c : i \in 1..x - base
      BY <1>1, <1>3, <1>5, <1>11, <1>12
    <2> QED
      BY <1>5, <1>10, <2>1
  <1>14. End(q) = c /\ Message(q) = data
    BY <1>1, <1>9, <1>12, <1>13, MessageIs DEF c
  <1> DEFINE rest == SubSeq(q, c + 1, Len(q))
             k1 == [k EXCEPT !.rcv_queue = rest]
             after == MoveAvailable(k1)
  <1>15. rest = SubSeq(F, base + c + 1, x) /\ rest \in Seq(Frag) /\ Len(rest) <= rcv_wnd
    <2>1. c + 1 \in 1..Len(q) + 1 /\ Len(q) \in (c + 1) - 1..Len(q) /\ Len(q) - (c + 1) + 1 <= rcv_wnd
      BY <1>1, <1>2, <1>11, <1>12
    <2>2. rest \in Seq(Frag) /\ Len(rest) = Len(q) - (c + 1) + 1
      BY <1>1, <2>1, Part
    <2> DEFINE m == base + 1
               a == c + 1
               b == Len(q)
    <2>3. /\ m \in 1..Len(F) + 1 /\ x \in m - 1..Len(F) /\ a \in 1..x - m + 2
          /\ b \in a - 1..x - m + 1 /\ m + a - 1 = base + c + 1 /\ m + b - 1 = x
      BY <1>1, <1>3, <1>4, <1>5, <1>11, <1>12 DEF N
    <2> HIDE DEF m, a, b
    <2>4. SubSeq(SubSeq(F, m, x), a, b) = SubSeq(F, m + a - 1, m + b - 1)
      BY <1>1, <2>3, PartOfPart
    <2>5. rest = SubSeq(F, base + c + 1, x)
      BY <1>2, <2>3, <2>4 DEF m, a, b
    <2> QED
      BY <2>1, <2>2, <2>5
  <1> HIDE DEF rest
  <1>16. /\ k1 \in Block /\ k1.rcv_queue = rest /\ k1.rcv_buf = k.rcv_buf /\ k1.rcv_nxt = x
         /\ k1.acklist = k.acklist /\ SameTx(k, k1)
    BY <1>15 DEF Block, SameTx, x
  <1>17. \A sn : Has(k, sn) <=> Has(k1, sn)
    BY <1>16 DEF Has, x
  <1> HIDE DEF k1
  <1>18. base + c \in Nat /\ base + c <= x
    BY <1>1, <1>3, <1>5, <1>11, <1>12
  <1>19. Receiving(k1, nxt, F, base + c)
    <2>1. k1.rcv_queue = SubSeq(F, base + c + 1, k1.rcv_nxt) /\ Len(k1.rcv_queue) <= rcv_wnd
      BY <1>15, <1>16
    <2>2. \A s \in k1.rcv_buf :
            k1.rcv_nxt <= s.sn /\ s.sn < k1.rcv_nxt + rcv_wnd /\ s.sn < nxt /\ At(F, s)
      BY <1>16 DEF Receiving, x
    <2>3. \A i \in 1..Len(k1.acklist) : Has(k1, k1.acklist[i])
      BY <1>16, <1>17 DEF Receiving
    <2> QED
      BY <1>2, <1>16, <1>18, <2>1, <2>2, <2>3 DEF Receiving
  <1>20. Grown(k, k1)
    <2>1. k.snd_nxt \in Nat /\ k.rcv_nxt = x
      BY DEF Block, x
    <2> QED
      BY <1>1, <1>16, <1>17, <2>1 DEF Grown, SameTx
  <1>21. after \in Block /\ Receiving(after, nxt, F, base + c) /\ SameTx(k1, after) /\ Grown(k1, after)
    BY <1>1, <1>16, <1>18, <1>19, Moved
  <1>22. l = after \/ l = [after EXCEPT !.probe = @ \cup {"ASK_TELL"}]
    <2>1. k1 = [k EXCEPT !.rcv_queue = SubSeq(@, End(@) + 1, Len(@))]
      BY <1>14 DEF k1, rest, q
    <2> QED
      BY <2>1 DEF ikcp_recv
  <1> HIDE DEF after
  <1>23. l \in Block /\ SameTx(after, l) /\ SameRx(after, l)
    BY <1>21, <1>22, Told, SameIsSame
  <1>24. Receiving(l, nxt, F, base + c)
    <2>1. nxt <= nxt
      OBVIOUS
    <2> QED
      BY <1>21, <1>23, <2>1, ReceivingIsKept
  <1>25. Grown(k, l)
    <2>1. after.snd_nxt \in Nat /\ l.snd_nxt = after.snd_nxt
      BY <1>21, <1>23 DEF Block, SameTx
    <2>2. Grown(after, l)
      BY <1>21, <1>23, <2>1, SameIsGrown
    <2>3. Grown(k, after)
      BY <1>16, <1>20, <1>21, GrownIsTransitive
    <2> QED
      BY <1>21, <1>23, <2>2, <2>3, GrownIsTransitive
  <1>26. SameTx(k, l)
    BY <1>16, <1>21, <1>23 DEF SameTx
  <1> QED
    BY <1>8, <1>10, <1>14, <1>23, <1>24, <1>25, <1>26 DEF n, q, data

-----------------------------------------------------------------------------
(* The invariant: there is a stream for each end, cut into the messages    *)
(* the end has sent, of which the two control blocks and the datagrams     *)
(* hold parts.                                                             *)
Types ==
  /\ kcp \in [Ends -> Block]
  /\ sent \in [Ends -> Seq(Seq(Bytes))] /\ received \in [Ends -> Seq(Seq(Bytes))]

AtEnd(e, F, B) ==
  LET p == Peer(e) IN
  /\ Cut(sent[e], F[e], B[e])
  /\ Sending(kcp[e], kcp[p], F[e])
  /\ Receiving(kcp[e], kcp[p].snd_nxt, F[p], B[p][Len(received[e])])
  /\ Extends(received[e], sent[p])

InNet(d, F) == d.to \in Ends /\ d.segs \in Seq(Good(kcp[Peer(d.to)], F[Peer(d.to)]))

Streaming(F, B) == (\A e \in Ends : AtEnd(e, F, B)) /\ \A d \in net : InNet(d, F)

Inv == Types /\ \E F, B : Streaming(F, B)

(* There are two ends.                                                     *)
LEMMA PeerIs ==
  ASSUME NEW e \in Ends
  PROVE  /\ Peer(e) \in Ends /\ Peer(e) # e /\ Peer(Peer(e)) = e
         /\ \A x \in Ends : x = e \/ x = Peer(e)
  BY DEF Ends, Peer

(* What an action of end e must do: its block becomes l, its stream H, cut *)
(* at C.                                                                   *)
Moves(e, F, B, l, H, C) ==
  LET p == Peer(e) IN
  /\ l \in Block /\ kcp' = [kcp EXCEPT ![e] = l] /\ Grown(kcp[e], l)
  /\ H \in Streams /\ Extends(F[e], H) /\ Sending(l, kcp[p], H)
  /\ (\A m \in 0..Len(sent[e]) : C[m] = B[e][m]) /\ Cut(sent'[e], H, C)
  /\ sent' \in [Ends -> Seq(Seq(Bytes))] /\ received' \in [Ends -> Seq(Seq(Bytes))]
  /\ sent'[p] = sent[p] /\ Extends(sent[e], sent'[e])
  /\ received'[p] = received[p] /\ Extends(received'[e], sent[p])
  /\ Receiving(l, kcp[p].snd_nxt, F[p], B[p][Len(received'[e])])
  /\ \A d \in net' : d \in net \/ (d.to = p /\ d.segs \in Seq(Good(l, H)))

(* Such an action keeps the invariant.                                     *)
LEMMA EndMoves ==
  ASSUME Types, NEW F, NEW B, Streaming(F, B), NEW e \in Ends, NEW l, NEW H, NEW C,
         Moves(e, F, B, l, H, C)
  PROVE Inv'
  <1> DEFINE p == Peer(e)
             k == kcp[e]
             q == kcp[p]
             F2 == [x \in Ends |-> IF x = e THEN H ELSE F[x]]
             B2 == [x \in Ends |-> IF x = e THEN C ELSE B[x]]
  <1>0. /\ l \in Block /\ kcp' = [kcp EXCEPT ![e] = l] /\ Grown(k, l)
        /\ H \in Streams /\ Extends(F[e], H) /\ Sending(l, q, H)
        /\ (\A m \in 0..Len(sent[e]) : C[m] = B[e][m]) /\ Cut(sent'[e], H, C)
        /\ sent' \in [Ends -> Seq(Seq(Bytes))] /\ received' \in [Ends -> Seq(Seq(Bytes))]
        /\ sent'[p] = sent[p] /\ Extends(sent[e], sent'[e])
        /\ received'[p] = received[p] /\ Extends(received'[e], sent[p])
        /\ Receiving(l, q.snd_nxt, F[p], B[p][Len(received'[e])])
        /\ \A d \in net' : d \in net \/ (d.to = p /\ d.segs \in Seq(Good(l, H)))
    BY DEF Moves
  <1>1. p \in Ends /\ p # e /\ Peer(p) = e /\ \A x \in Ends : x = e \/ x = p
    BY PeerIs
  <1>2. k \in Block /\ q \in Block
    BY <1>1 DEF Types
  <1>3. kcp'[e] = l /\ kcp'[p] = q /\ kcp' \in [Ends -> Block]
    BY <1>0, <1>1 DEF Types
  <1>4. F2[e] = H /\ F2[p] = F[p] /\ B2[e] = C /\ B2[p] = B[p]
    BY <1>1
  <1>5. /\ Cut(sent[p], F[p], B[p]) /\ Sending(q, k, F[p]) /\ Extends(received[p], sent[e])
        /\ Receiving(q, k.snd_nxt, F[e], B[e][Len(received[p])])
        /\ Cut(sent[e], F[e], B[e]) /\ Sending(k, q, F[e])
    BY <1>1 DEF Streaming, AtEnd
  <1>6. F[e] \in Streams /\ F[p] \in Streams
    BY <1>5 DEF Cut
  <1> HIDE DEF p, k, q, F2, B2
  <1>7. AtEnd(e, F2, B2)'
    BY <1>0, <1>3, <1>4 DEF AtEnd, p, q
  <1>8. AtEnd(p, F2, B2)'
    <2>1. Sending(q, l, F[p])
      <3>1. SameTx(q, q)
        BY DEF SameTx
      <3> QED
        BY <1>0, <1>2, <1>5, <3>1, SendingIsKept
    <2>2. /\ Len(received[p]) \in 0..Len(sent[e])
          /\ Len(received[p]) <= Len(sent'[e])
          /\ \A i \in 1..Len(received[p]) : i \in 1..Len(sent[e])
      <3>1. received[p] \in Seq(Seq(Bytes)) /\ sent[e] \in Seq(Seq(Bytes)) /\ sent'[e] \in Seq(Seq(Bytes))
        BY <1>0, <1>1 DEF Types
      <3>2. Len(received[p]) \in Nat /\ Len(sent[e]) \in Nat /\ Len(sent'[e]) \in Nat
        BY <3>1, LenProperties
      <3>3. Len(received[p]) <= Len(sent[e]) /\ Len(sent[e]) <= Len(sent'[e])
        BY <1>0, <1>5 DEF Extends
      <3> QED
        BY <3>2, <3>3
    <2>3. Extends(received[p], sent'[e])
      BY <1>0, <1>5, <2>2 DEF Extends
    <2>4. Receiving(q, l.snd_nxt, H, C[Len(received[p])])
      <3> DEFINE base == B[e][Len(received[p])]
      <3>1. base = C[Len(received[p])] /\ base \in Nat
        BY <1>0, <1>5, <2>2 DEF Cut
      <3>2. k.snd_nxt \in Nat /\ l.snd_nxt \in Nat /\ k.snd_nxt <= l.snd_nxt
        BY <1>0, <1>2 DEF Block, Grown
      <3>3. k.snd_nxt <= Len(F[e])
        BY <1>5 DEF Sending
      <3>4. Receiving(q, k.snd_nxt, F[e], base)
        BY <1>5
      <3> HIDE DEF base
      <3>5. Receiving(q, k.snd_nxt, H, base)
        BY <1>0, <1>2, <1>6, <3>1, <3>2, <3>3, <3>4, ReceivingOfMore
      <3>6. SameRx(q, q)
        BY DEF SameRx
      <3> QED
        BY <1>2, <3>1, <3>2, <3>5, <3>6, ReceivingIsKept
    <2>5. received'[p] = received[p] /\ sent'[p] = sent[p]
      BY <1>0
    <2> QED
      BY <1>1, <1>3, <1>4, <1>5, <2>1, <2>3, <2>4, <2>5 DEF AtEnd
  <1>9. ASSUME NEW d \in net' PROVE InNet(d, F2)'
    <2>1. Good(k, F[e]) \subseteq Good(l, H)
      BY <1>0, <1>2, <1>6, GoodIsKept DEF Extends
    <2>2. CASE d \in net
      <3>1. d.to \in Ends /\ d.segs \in Seq(Good(kcp[Peer(d.to)], F[Peer(d.to)]))
        BY <2>2 DEF Streaming, InNet
      <3>2. CASE d.to = e
        <4>1. Peer(d.to) = p
          BY <3>2 DEF p
        <4> QED
          BY <1>3, <1>4, <3>1, <4>1 DEF InNet, q
      <3>3. CASE d.to = p
        <4>1. Peer(d.to) = e
          BY <1>1, <3>3
        <4>2. d.segs \in Seq(Good(k, F[e]))
          BY <3>1, <4>1 DEF k
        <4>3. d.segs \in Seq(Good(l, H))
          BY <2>1, <4>2, SeqDef
        <4> QED
          BY <1>3, <1>4, <3>1, <4>1, <4>3 DEF InNet
      <3> QED
        BY <1>1, <3>1, <3>2, <3>3
    <2>3. CASE d.to = p /\ d.segs \in Seq(Good(l, H))
      BY <1>1, <1>3, <1>4, <2>3 DEF InNet
    <2> QED
      BY <1>0, <2>2, <2>3
  <1>10. Types'
    BY <1>0, <1>3 DEF Types
  <1>11. Streaming(F2, B2)'
    BY <1>1, <1>7, <1>8, <1>9 DEF Streaming
  <1> QED
    BY <1>10, <1>11 DEF Inv

(* At first both streams are empty.                                        *)
LEMMA InitInv == Init => Inv
  <1> SUFFICES ASSUME Init PROVE Inv
    OBVIOUS
  <1>1. PICK nocwnd \in Nocwnds : kcp = [e \in Ends |-> ikcp_create(nocwnd)]
    BY DEF Init
  <1> DEFINE k == ikcp_create(nocwnd)
             none == [e \in Ends |-> <<>>]
             cuts == [e \in Ends |-> [m \in {0} |-> 0]]
  <1>2. net = {} /\ sent = none /\ received = none
    BY DEF Init
  <1>3. \A T : <<>> \in Seq(T) /\ Len(<<>>) = 0
    BY EmptySeq
  <1>4. k \in Block
    BY <1>3, WindowAssumption, ResendAssumption DEF ikcp_create, Block
  <1>5. Types
    BY <1>1, <1>2, <1>3, <1>4 DEF Types
  <1>6. SubSeq(<<>>, 1, 0) = <<>>
    BY <1>3
  <1>7. Sending(k, k, <<>>)
    BY <1>3, <1>6, WindowAssumption DEF Sending, ikcp_create, Has
  <1>8. Receiving(k, 0, <<>>, 0)
    BY <1>3, <1>6, WindowAssumption DEF Receiving, ikcp_create, Has
  <1>9. k.snd_nxt = 0
    BY DEF ikcp_create
  <1>10. Cut(<<>>, <<>>, [m \in {0} |-> 0])
    BY <1>3 DEF Cut, Streams
  <1>11. Extends(<<>>, <<>>)
    BY <1>3 DEF Extends
  <1> HIDE DEF k
  <1>12. \A e \in Ends : AtEnd(e, none, cuts)
    BY <1>1, <1>2, <1>3, <1>7, <1>8, <1>9, <1>10, <1>11, PeerIs DEF AtEnd, k
  <1> QED
    BY <1>2, <1>5, <1>12 DEF Inv, Streaming

(* The actions.                                                            *)
LEMMA SendKeeps ==
  ASSUME Inv, NEW e \in Senders, NEW len \in Lens, lkcp_send(e, len)
  PROVE  Inv'
  <1> DEFINE p == Peer(e)
             data == [i \in 1..len |-> <<Len(sent[e]) + 1, i>>]
  <1>1. PICK F, B : Streaming(F, B)
    BY DEF Inv
  <1>2. Types
    BY DEF Inv
  <1>3. e \in Ends /\ p \in Ends /\ p # e
    BY PeerIs, EndsAssumption
  <1>4. /\ kcp[e] \in Block /\ kcp[p] \in Block /\ sent[e] \in Seq(Seq(Bytes))
        /\ Len(sent[e]) \in Nat
    BY <1>2, <1>3, LenProperties DEF Types
  <1>5. data \in Seq(Bytes)
    <2>1. len \in Nat
      BY SizeAssumption
    <2>2. \A i \in 1..len : <<Len(sent[e]) + 1, i>> \in Bytes
      BY <1>4 DEF Bytes
    <2> QED
      BY <2>1, <2>2, SeqDef
  <1> DEFINE l == ikcp_send(kcp[e], data)
             H == F[e] \o Fragments(data)
  <1>6. /\ Cut(sent[e], F[e], B[e]) /\ Sending(kcp[e], kcp[p], F[e])
        /\ Receiving(kcp[e], kcp[p].snd_nxt, F[p], B[p][Len(received[e])])
        /\ Extends(received[e], sent[p]) /\ Sending(kcp[p], kcp[e], F[p])
    BY <1>1, <1>3, PeerIs DEF Streaming, AtEnd
  <1>7. F[e] \in Streams /\ F[p] \in Streams
    BY <1>1, <1>3 DEF Streaming, AtEnd, Cut
  <1>8. /\ kcp' = [kcp EXCEPT ![e] = l] /\ sent' = [sent EXCEPT ![e] = Append(@, data)]
        /\ net' = net /\ received' = received
    BY DEF lkcp_send
  <1> HIDE DEF data
  <1>9. /\ Continues(F[e], H, data) /\ H \in Streams /\ Extends(F[e], H)
        /\ l \in Block /\ Sending(l, kcp[p], H) /\ SameRx(kcp[e], l) /\ l.snd_nxt = kcp[e].snd_nxt
    <2> DEFINE k == kcp[e]
               q == kcp[p]
               f == F[e]
    <2>1. k \in Block /\ q \in Block /\ f \in Streams /\ Sending(k, q, f) /\ data \in Seq(Bytes)
      BY <1>4, <1>5, <1>6, <1>7
    <2>2. l = ikcp_send(k, data) /\ H = f \o Fragments(data)
      OBVIOUS
    <2> HIDE DEF k, q, f, l, H
    <2>3. /\ Continues(f, H, data)
          /\ l \in Block /\ Sending(l, q, H) /\ SameRx(k, l) /\ l.snd_nxt = k.snd_nxt
      BY <2>1, <2>2, SendIs
    <2> QED
      BY <2>3 DEF Continues, k, q, f
  <1> HIDE DEF l, H, p
  <1>10. PICK C : /\ Cut(Append(sent[e], data), H, C)
                  /\ \A m \in 0..Len(sent[e]) : C[m] = B[e][m]
    <2> DEFINE msgs == sent[e]
               f == F[e]
               b == B[e]
    <2>1. /\ msgs \in Seq(Seq(Bytes)) /\ Cut(msgs, f, b) /\ data \in Seq(Bytes)
          /\ Continues(f, H, data)
      BY <1>4, <1>5, <1>6, <1>9
    <2> HIDE DEF msgs, f, b
    <2>2. \E C : Cut(Append(msgs, data), H, C) /\ \A m \in 0..Len(msgs) : C[m] = b[m]
      BY <2>1, CutMore
    <2> QED
      BY <2>2 DEF msgs, b
  <1>11. /\ Append(sent[e], data) \in Seq(Seq(Bytes))
         /\ Len(sent[e]) <= Len(Append(sent[e], data))
         /\ \A i \in 1..Len(sent[e]) : Append(sent[e], data)[i] = sent[e][i]
    BY <1>4, <1>5, AppendProperties
  <1>12. /\ sent'[e] = Append(sent[e], data) /\ sent'[p] = sent[p]
         /\ sent' \in [Ends -> Seq(Seq(Bytes))] /\ Extends(sent[e], sent'[e])
    BY <1>2, <1>3, <1>8, <1>11 DEF Types, Extends
  <1>13. Grown(kcp[e], l)
    <2>1. kcp[e].snd_nxt \in Nat
      BY <1>4 DEF Block
    <2> QED
      BY <1>4, <1>9, <2>1, SameIsGrown
  <1>14. Receiving(l, kcp[p].snd_nxt, F[p], B[p][Len(received'[e])])
    <2>1. kcp[p].snd_nxt \in Nat
      BY <1>4 DEF Block
    <2> QED
      BY <1>4, <1>6, <1>8, <1>9, <2>1, ReceivingIsKept
  <1>15. received' \in [Ends -> Seq(Seq(Bytes))] /\ Extends(received'[e], sent[p])
    BY <1>2, <1>6, <1>8 DEF Types
  <1>16. /\ \A m \in 0..Len(sent[e]) : C[m] = B[e][m]
         /\ Cut(sent'[e], H, C)
    BY <1>10, <1>12
  <1>17. \A d \in net' : d \in net \/ (d.to = p /\ d.segs \in Seq(Good(l, H)))
    BY <1>8
  <1>18. received'[p] = received[p] /\ kcp' = [kcp EXCEPT ![e] = l]
    BY <1>8
  <1> HIDE DEF p
  <1>19. Moves(e, F, B, l, H, C)
    BY <1>9, <1>12, <1>13, <1>14, <1>15, <1>16, <1>17, <1>18 DEF Moves, p
  <1> QED
    BY <1>1, <1>2, <1>3, <1>19, EndMoves

(* The next message is taken.                                              *)
LEMMA RecvKeeps ==
  ASSUME Inv, NEW e \in Ends, lkcp_recv(e)
  PROVE  Inv'
  <1> DEFINE p == Peer(e)
             k == kcp[e]
             l == ikcp_recv(k)
             message == Message(k.rcv_queue)
             r == Len(received[e])
  <1>1. PICK F, B : Streaming(F, B)
    BY DEF Inv
  <1>2. Types
    BY DEF Inv
  <1>3. p \in Ends /\ p # e
    BY PeerIs
  <1>4. /\ k \in Block /\ kcp[p] \in Block /\ kcp[p].snd_nxt \in Nat
        /\ sent[e] \in Seq(Seq(Bytes)) /\ sent[p] \in Seq(Seq(Bytes))
        /\ received[e] \in Seq(Seq(Bytes)) /\ r \in Nat /\ Len(sent[p]) \in Nat
    BY <1>2, <1>3, LenProperties DEF Types, Block
  <1>5. /\ Cut(sent[e], F[e], B[e]) /\ Sending(k, kcp[p], F[e])
        /\ Receiving(k, kcp[p].snd_nxt, F[p], B[p][r])
        /\ Extends(received[e], sent[p]) /\ Cut(sent[p], F[p], B[p])
        /\ Sending(kcp[p], k, F[p])
    BY <1>1, <1>3, PeerIs DEF Streaming, AtEnd
  <1>6. F[e] \in Streams /\ F[p] \in Streams /\ kcp[p].snd_nxt <= Len(F[p])
    BY <1>5 DEF Cut, Sending
  <1>7. /\ Peek(k.rcv_queue) /\ kcp' = [kcp EXCEPT ![e] = l]
        /\ received' = [received EXCEPT ![e] = Append(@, message)]
        /\ net' = net /\ sent' = sent
    BY DEF lkcp_recv
  <1>8. r \in 0..Len(sent[p])
    BY <1>4, <1>5 DEF Extends
  <1> HIDE DEF p, k, r
  <1>9. /\ r + 1 \in 1..Len(sent[p]) /\ message = sent[p][r + 1]
        /\ l \in Block /\ Receiving(l, kcp[p].snd_nxt, F[p], B[p][r + 1])
        /\ SameTx(k, l) /\ Grown(k, l)
    <2> DEFINE nxt == kcp[p].snd_nxt
               f == F[p]
               b == B[p]
               msgs == sent[p]
    <2>1. /\ k \in Block /\ nxt \in Nat /\ nxt <= Len(f) /\ msgs \in Seq(Seq(Bytes))
          /\ Cut(msgs, f, b) /\ r \in 0..Len(msgs) /\ Receiving(k, nxt, f, b[r])
          /\ Peek(k.rcv_queue)
      BY <1>4, <1>5, <1>6, <1>7, <1>8
    <2>2. l = ikcp_recv(k)
      OBVIOUS
    <2> HIDE DEF nxt, f, b, msgs, l
    <2>3. /\ r + 1 \in 1..Len(msgs) /\ Message(k.rcv_queue) = msgs[r + 1]
          /\ l \in Block /\ Receiving(l, nxt, f, b[r + 1]) /\ SameTx(k, l) /\ Grown(k, l)
      BY <2>1, <2>2, Taken
    <2> QED
      BY <2>3 DEF nxt, f, b, msgs
  <1> HIDE DEF l, message
  <1>10. message \in Seq(Bytes)
    BY <1>4, <1>9, ElementOfSeq
  <1>11. /\ Append(received[e], message) \in Seq(Seq(Bytes))
         /\ Len(Append(received[e], message)) = r + 1
         /\ Append(received[e], message)[r + 1] = message
         /\ \A i \in 1..r : Append(received[e], message)[i] = received[e][i]
    BY <1>4, <1>10, AppendProperties DEF r
  <1>12. /\ received' \in [Ends -> Seq(Seq(Bytes))] /\ received'[p] = received[p]
         /\ received'[e] = Append(received[e], message)
    BY <1>2, <1>3, <1>7, <1>11 DEF Types
  <1>13. Extends(received'[e], sent[p])
    <2>1. \A i \in 1..r + 1 : i \in 1..r \/ i = r + 1
      BY <1>4
    <2>2. \A i \in 1..r : received[e][i] = sent[p][i]
      BY <1>5 DEF Extends, r
    <2> QED
      BY <1>4, <1>9, <1>11, <1>12, <2>1, <2>2 DEF Extends
  <1>14. Sending(l, kcp[p], F[e])
    <2>1. Grown(kcp[p], kcp[p])
      <3>1. SameRx(kcp[p], kcp[p]) /\ kcp[p].snd_nxt <= kcp[p].snd_nxt
        BY <1>4 DEF SameRx
      <3> QED
        BY <1>4, <3>1, SameIsGrown
    <2> QED
      BY <1>4, <1>5, <1>9, <2>1, SendingIsKept
  <1>15. /\ Extends(F[e], F[e]) /\ Extends(sent[e], sent[e])
         /\ \A m \in 0..Len(sent[e]) : B[e][m] = B[e][m]
    <2>1. Len(F[e]) \in Nat /\ Len(sent[e]) \in Nat
      BY <1>4, <1>6, LenProperties DEF Streams
    <2> QED
      BY <2>1 DEF Extends
  <1>16. sent' \in [Ends -> Seq(Seq(Bytes))]
    BY <1>2, <1>7 DEF Types
  <1>17. Moves(e, F, B, l, F[e], B[e])
    BY <1>5, <1>6, <1>7, <1>9, <1>11, <1>12, <1>13, <1>14, <1>15, <1>16 DEF Moves, p, k
  <1> QED
    BY <1>1, <1>2, <1>17, EndMoves

(* flush and input leave the streams as they are.                          *)
LEMMA BlockMoves ==
  ASSUME Types, NEW F, NEW B, Streaming(F, B), NEW e \in Ends, NEW l \in Block,
         kcp' = [kcp EXCEPT ![e] = l], Grown(kcp[e], l), UNCHANGED <<sent, received>>,
         Sending(l, kcp[Peer(e)], F[e]),
         Receiving(l, kcp[Peer(e)].snd_nxt, F[Peer(e)], B[Peer(e)][Len(received[e])]),
         \A d \in net' : d \in net \/ (d.to = Peer(e) /\ d.segs \in Seq(Good(l, F[e])))
  PROVE Inv'
  <1>1. Peer(e) \in Ends
    BY PeerIs
  <1>2. Cut(sent[e], F[e], B[e]) /\ Extends(received[e], sent[Peer(e)])
    BY DEF Streaming, AtEnd
  <1>3. F[e] \in Streams
    BY <1>2 DEF Cut
  <1>4. Extends(F[e], F[e]) /\ Extends(sent[e], sent[e])
    <2>1. sent[e] \in Seq(Seq(Bytes)) /\ F[e] \in Seq(Frag)
      BY <1>3 DEF Types, Streams
    <2>2. Len(F[e]) \in Nat /\ Len(sent[e]) \in Nat
      BY <2>1, LenProperties
    <2> QED
      BY <2>2 DEF Extends
  <1>5. /\ sent' \in [Ends -> Seq(Seq(Bytes))] /\ received' \in [Ends -> Seq(Seq(Bytes))]
        /\ sent' = sent /\ received' = received
    BY DEF Types
  <1>6. Moves(e, F, B, l, F[e], B[e])
    BY <1>1, <1>2, <1>3, <1>4, <1>5 DEF Moves
  <1> QED
    BY <1>6, EndMoves

(* An end is flushed, and the network loses some of what it puts out.      *)
LEMMA FlushKeeps ==
  ASSUME Inv, NEW e \in Ends, NEW due, NEW ask, lkcp_flush(e, due, ask)
  PROVE  Inv'
  <1> DEFINE p == Peer(e)
             k == kcp[e]
             q == kcp[p]
             flush == Flush(k, due, ask)
             l == flush.kcp
             out == flush.out
  <1>1. PICK F, B : Streaming(F, B)
    BY DEF Inv
  <1>2. Types
    BY DEF Inv
  <1>3. p \in Ends
    BY PeerIs
  <1>4. k \in Block /\ q \in Block /\ q.snd_nxt \in Nat
    BY <1>2, <1>3 DEF Types, Block
  <1>5. /\ Cut(sent[e], F[e], B[e]) /\ Sending(k, q, F[e])
        /\ Receiving(k, q.snd_nxt, F[p], B[p][Len(received[e])])
    BY <1>1 DEF Streaming, AtEnd
  <1>6. F[e] \in Streams
    BY <1>5 DEF Cut
  <1>7. /\ kcp' = [kcp EXCEPT ![e] = l] /\ UNCHANGED <<sent, received>>
        /\ net' \subseteq net \cup Packets(e, out)
    BY DEF lkcp_flush
  <1>8. /\ l \in Block /\ Sending(l, q, F[e]) /\ Grown(k, l) /\ out \in Seq(Seq(Good(l, F[e])))
        /\ Receiving(l, q.snd_nxt, F[p], B[p][Len(received[e])])
    <2> DEFINE f == F[e]
               g == F[p]
               base == B[p][Len(received[e])]
               nxt == q.snd_nxt
    <2>1. /\ k \in Block /\ q \in Block /\ f \in Streams /\ nxt \in Nat
          /\ Sending(k, q, f) /\ Receiving(k, nxt, g, base)
      BY <1>4, <1>5, <1>6
    <2> HIDE DEF f, g, base, nxt, k, q
    <2>2. /\ l \in Block /\ Sending(l, q, f) /\ Receiving(l, nxt, g, base) /\ Grown(k, l)
          /\ out \in Seq(Seq(Good(l, f)))
      BY <2>1, FlushIs
    <2> QED
      BY <2>2 DEF f, g, base, nxt
  <1> HIDE DEF flush, l, out
  <1>9. ASSUME NEW d \in net' PROVE d \in net \/ (d.to = p /\ d.segs \in Seq(Good(l, F[e])))
    <2>1. CASE d \in Packets(e, out)
      <3>1. PICK i \in 1..Len(out) : d = [to |-> p, segs |-> out[i]]
        BY <2>1 DEF Packets
      <3> QED
        BY <1>8, <3>1, ElementOfSeq
    <2> QED
      BY <1>7, <2>1
  <1> QED
    BY <1>1, <1>2, <1>7, <1>8, <1>9, BlockMoves DEF p, k, q

(* A datagram arrives, or arrives and stays.                               *)
LEMMA InputKeeps ==
  ASSUME Inv, NEW d \in net, lkcp_input(d)
  PROVE  Inv'
  <1> DEFINE e == d.to
             p == Peer(e)
             k == kcp[e]
             q == kcp[p]
             l == ikcp_input(k, d.segs)
  <1>1. PICK F, B : Streaming(F, B)
    BY DEF Inv
  <1>2. Types
    BY DEF Inv
  <1>3. e \in Ends /\ d.segs \in Seq(Good(q, F[p]))
    BY <1>1 DEF Streaming, InNet
  <1>4. p \in Ends /\ Peer(p) = e
    BY <1>3, PeerIs
  <1>5. k \in Block /\ q \in Block /\ received[e] \in Seq(Seq(Bytes)) /\ sent[p] \in Seq(Seq(Bytes))
    BY <1>2, <1>3, <1>4 DEF Types
  <1>6. /\ Sending(k, q, F[e]) /\ Receiving(k, q.snd_nxt, F[p], B[p][Len(received[e])])
        /\ Cut(sent[p], F[p], B[p]) /\ Sending(q, k, F[p]) /\ Extends(received[e], sent[p])
    BY <1>1, <1>3, <1>4 DEF Streaming, AtEnd
  <1>7. F[p] \in Streams /\ q.snd_nxt <= Len(F[p]) /\ B[p][Len(received[e])] \in Nat
    <2>1. Len(received[e]) \in 0..Len(sent[p])
      BY <1>5, <1>6, LenProperties DEF Extends
    <2> QED
      BY <1>6, <2>1 DEF Cut, Sending
  <1>8. /\ kcp' = [kcp EXCEPT ![e] = l] /\ UNCHANGED <<sent, received>>
        /\ net' \subseteq net
    BY DEF lkcp_input
  <1>9. /\ l \in Block /\ Sending(l, q, F[e]) /\ Grown(k, l)
        /\ Receiving(l, q.snd_nxt, F[p], B[p][Len(received[e])])
    <2> DEFINE f == F[e]
               g == F[p]
               base == B[p][Len(received[e])]
               segs == d.segs
    <2>1. /\ k \in Block /\ q \in Block /\ g \in Streams /\ q.snd_nxt <= Len(g) /\ base \in Nat
          /\ Sending(k, q, f) /\ Receiving(k, q.snd_nxt, g, base) /\ segs \in Seq(Good(q, g))
      BY <1>3, <1>5, <1>6, <1>7
    <2>2. l = ikcp_input(k, segs)
      OBVIOUS
    <2> HIDE DEF f, g, base, segs, k, q, l
    <2>3. l \in Heard(k, q, f, g, base)
      BY <2>1, <2>2, Input
    <2> QED
      BY <2>3 DEF Heard, f, g, base
  <1> HIDE DEF l
  <1>10. \A c \in net' : c \in net \/ (c.to = p /\ c.segs \in Seq(Good(l, F[e])))
    BY <1>8
  <1> HIDE DEF e
  <1> QED
    BY <1>1, <1>2, <1>3, <1>8, <1>9, <1>10, BlockMoves DEF p, k, q

(* Nothing happens.                                                        *)
LEMMA StutterKeeps ==
  ASSUME Inv, UNCHANGED vars
  PROVE  Inv'
  <1>1. PICK F, B : Streaming(F, B)
    BY DEF Inv
  <1>2. Streaming(F, B)'
    BY <1>1 DEF vars, Streaming, AtEnd, InNet
  <1>3. Types'
    BY DEF Inv, Types, vars
  <1> QED
    BY <1>2, <1>3 DEF Inv

(* What the invariant says of a window.                                    *)
LEMMA FewInBuffer ==
  ASSUME NEW k \in Block, NEW nxt, NEW F, NEW base, Receiving(k, nxt, F, base)
  PROVE  Cardinality(k.rcv_buf) <= rcv_wnd
  <1> DEFINE S == k.rcv_buf
             x == k.rcv_nxt
             T == x..(x + rcv_wnd - 1)
             f == [s \in S |-> s.sn]
  <1>1. S \in SUBSET RcvSeg /\ x \in Nat /\ rcv_wnd \in Nat
    BY WindowAssumption DEF Block
  <1>2. \A s \in S : s.sn \in Nat /\ x <= s.sn /\ s.sn < x + rcv_wnd /\ At(F, s)
    BY <1>1 DEF Receiving, RcvSeg
  <1> HIDE DEF S, x
  <1>3. IsFiniteSet(T) /\ Cardinality(T) = rcv_wnd
    <2>1. x \in Int /\ x + rcv_wnd - 1 \in Int
      BY <1>1
    <2>2. IsFiniteSet(T) /\ Cardinality(T) = IF x > x + rcv_wnd - 1 THEN 0
                                             ELSE (x + rcv_wnd - 1) - x + 1
      BY <2>1, FS_Interval
    <2> QED
      BY <1>1, <2>2
  <1>4. f \in [S -> T]
    BY <1>1, <1>2
  <1>5. ASSUME NEW s \in S, NEW t \in S, f[s] = f[t] PROVE s = t
    <2>1. s.sn = t.sn
      BY <1>5
    <2>2. /\ F[s.sn + 1] = [frg |-> s.frg, data |-> s.data]
          /\ F[t.sn + 1] = [frg |-> t.frg, data |-> t.data]
      BY <1>2 DEF At
    <2>3. s.frg = t.frg /\ s.data = t.data
      BY <2>1, <2>2
    <2> QED
      BY <1>1, <2>1, <2>3 DEF RcvSeg
  <1>6. f \in Injection(S, T)
    BY <1>4, <1>5, Fun_IsInj
  <1>7. Cardinality(S) <= Cardinality(T)
    BY <1>3, <1>6, FS_Injection
  <1> QED
    BY <1>3, <1>7 DEF S

(* Every step keeps the invariant.                                         *)
LEMMA NextInv == Inv /\ [Next]_vars => Inv'
  <1> SUFFICES ASSUME Inv, [Next]_vars PROVE Inv'
    OBVIOUS
  <1>1. ASSUME NEW e \in Senders, NEW len \in Lens, lkcp_send(e, len) PROVE Inv'
    BY <1>1, SendKeeps
  <1>2. ASSUME NEW e \in Ends, lkcp_recv(e) PROVE Inv'
    BY <1>2, RecvKeeps
  <1>3. ASSUME NEW e \in Ends, NEW due \in SUBSET InFlight(e), NEW ask \in BOOLEAN,
               lkcp_flush(e, due, ask)
        PROVE Inv'
    BY <1>3, FlushKeeps
  <1>4. ASSUME NEW d \in net, lkcp_input(d) PROVE Inv'
    BY <1>4, InputKeeps
  <1>5. CASE UNCHANGED vars
    BY <1>5, StutterKeeps
  <1> QED
    BY <1>1, <1>2, <1>3, <1>4, <1>5 DEF Next

(* The invariant says what is promised.                                    *)
LEMMA InvImplies == Inv => NothingIsLost
  <1> SUFFICES ASSUME Inv PROVE NothingIsLost
    OBVIOUS
  <1>1. PICK F, B : Streaming(F, B)
    BY DEF Inv
  <1>2. \A e \in Ends : /\ kcp[e] \in Block
                        /\ sent[e] \in Seq(Seq(Bytes)) /\ received[e] \in Seq(Seq(Bytes))
    BY DEF Inv, Types
  <1>3. ASSUME NEW e \in Ends
        PROVE /\ Sending(kcp[e], kcp[Peer(e)], F[e]) /\ Extends(received[e], sent[Peer(e)])
              /\ Receiving(kcp[e], kcp[Peer(e)].snd_nxt, F[Peer(e)], B[Peer(e)][Len(received[e])])
              /\ Receiving(kcp[Peer(e)], kcp[e].snd_nxt, F[e], B[e][Len(received[Peer(e)])])
    BY <1>1, PeerIs DEF Streaming, AtEnd
  <1>4. ASSUME NEW e \in Ends PROVE IsPrefix(received[e], sent[Peer(e)])
    <2> DEFINE r == received[e]
               s == sent[Peer(e)]
               n == Len(r)
    <2>1. r \in Seq(Seq(Bytes)) /\ s \in Seq(Seq(Bytes)) /\ Extends(r, s)
      BY <1>2, <1>3, PeerIs
    <2> HIDE DEF r, s
    <2>2. n \in Nat /\ n <= Len(s) /\ Len(s) \in Nat /\ \A i \in 1..n : s[i] = r[i]
      BY <2>1, LenProperties DEF Extends
    <2>3. 1 \in 1..n + 1 /\ n \in 1 - 1..n /\ 1 \in 1..Len(s) + 1 /\ n \in 1 - 1..Len(s)
      BY <2>2
    <2>4. \A m : \A i \in 1..m : 1 + i - 1 = i
      OBVIOUS
    <2>5. SubSeq(r, 1, n) = SubSeq(s, 1, n)
      <3> DEFINE a == SubSeq(r, 1, n)
                 b == SubSeq(s, 1, n)
      <3>1. a \in Seq(Seq(Bytes)) /\ Len(a) = n /\ \A i \in 1..n : a[i] = r[i]
        BY <2>1, <2>2, SubSeqProperties
      <3>2. b \in Seq(Seq(Bytes)) /\ Len(b) = n /\ \A i \in 1..n : b[i] = s[i]
        BY <2>1, <2>2, SubSeqProperties
      <3> HIDE DEF a, b
      <3>3. \A i \in 1..Len(a) : a[i] = b[i]
        BY <2>2, <3>1, <3>2
      <3>4. a = b
        BY <3>1, <3>2, <3>3, SeqEqual
      <3> QED
        BY <3>4 DEF a, b
    <2>6. IsPrefix(r, s)
      BY <2>2, <2>5 DEF IsPrefix
    <2> QED
      BY <2>6 DEF r, s
  <1>5. ASSUME NEW e \in Ends
        PROVE LET k == kcp[e] p == kcp[Peer(e)] IN
              /\ \A sn \in 0..k.snd_nxt - 1 : Has(p, sn) \/ \E s \in k.snd_buf : s.sn = sn
              /\ \A i \in 1..Len(p.acklist) : Has(p, p.acklist[i])
              /\ p.rcv_nxt <= k.snd_nxt /\ k.snd_nxt <= k.snd_una + snd_wnd
              /\ Len(k.rcv_queue) <= rcv_wnd /\ Cardinality(k.rcv_buf) <= rcv_wnd
    <2>1. Cardinality(kcp[e].rcv_buf) <= rcv_wnd
      BY <1>2, <1>3, FewInBuffer
    <2> QED
      BY <1>3, <2>1 DEF Sending, Receiving
  <1> QED
    BY <1>4, <1>5 DEF NothingIsLost, StreamIsIntact, NothingForgotten

(* Types and the invariant of the streams hold all along.                  *)
THEOREM Invariance == Spec => []Inv
  BY InitInv, NextInv, PTL DEF Spec

(* Whatever is lost, repeated, late or out of order: what an end receives  *)
(* is what the other has sent, message by message, and nothing that is     *)
(* sent is dropped before it is at the other end, nor acknowledged when it *)
(* is not; and no window is exceeded.                                      *)
THEOREM NothingLost == Spec => []NothingIsLost
  BY Invariance, InvImplies, PTL
=============================================================================
