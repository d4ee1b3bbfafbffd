----------------------------- MODULE GmacProofs -----------------------------
(***************************************************************************)
(* The descriptor rings of the Ethernet driver stay sound, for rings of    *)
(* any size and however many frames go either way.  For the transmit ring  *)
(* the handshake of tcpip_thread and etx has to be carried along: a new    *)
(* frame has a larger number than any in the ring.  For the receive ring   *)
(* every buffer is in one descriptor, or lost.                             *)
(***************************************************************************)
EXTENDS Gmac, FiniteSetTheorems, TLAPS

Descriptor == [own : BOOLEAN, buf : Nat \cup {None}, good : BOOLEAN]

\* The frame last handed to etx is on its way and not in the ring yet.
Fresh == etxmb # {} \/ etx \in {"test", "set"}

\* tcpip_thread hands over one frame at a time: while it runs nothing is on its
\* way, and while it waits either the mail, or etx, or the ack is.
Handshake ==
  /\ tcpip \in {"run", "ack"} /\ etx \in {"recv", "test", "set", "reclaim"}
  /\ tx_ack \in {0, 1} /\ frames \in Nat
  /\ tcpip = "run" => etxmb = {} /\ etx = "recv" /\ tx_ack = 0
  /\ etxmb # {} => etx = "recv" /\ tx_ack = 0
  /\ etx # "recv" => tx_ack = 0

\* The frames in the ring, and the ones that left it, are older than a new one.
Older ==
  /\ wire \in Nat /\ wire <= frames
  /\ \A i \in TxIndex : tx[i].buf # None => tx[i].buf <= frames
  /\ Fresh => wire < frames /\ \A i \in TxIndex : tx[i].buf # None => tx[i].buf < frames

TxInv ==
  /\ tx \in [TxIndex -> Descriptor]
  /\ TxNext \in TxIndex /\ TxBusy \in TxIndex /\ dma_tx \in TxIndex
  /\ \A i \in TxIndex : tx[i].own => tx[i].buf # None
  /\ Handshake /\ Older /\ TxRing

\* The receive ring: a buffer is named by the descriptor it was first in.
RxInv ==
  /\ rx \in [RxIndex -> Descriptor]
  /\ RxNext \in RxIndex /\ RxBusy \in RxIndex /\ dma_rx \in RxIndex
  /\ \A i \in RxIndex : rx[i].own => rx[i].buf # None
  /\ \A i, j \in RxIndex : rx[i].buf # None /\ rx[i].buf = rx[j].buf => i = j
  /\ \A i \in RxIndex : rx[i].buf # None => rx[i].buf \in RxIndex
  /\ lost \subseteq RxIndex
  /\ RxRing

-----------------------------------------------------------------------------
\* Leaves go to Zenon unless they name the SMT solver; the time is ample.
USE ZenonT(60)

\* Spans of a ring.

\* After stays in the ring.
LEMMA AfterIndex ==
  ASSUME NEW c \in Nat \ {0}, NEW i \in 0 .. c - 1
  PROVE  After(i, c) \in 0 .. c - 1
  BY SMTT(60) DEF After

\* A span that is not the whole ring gets the descriptor at its end.
LEMMA SpanAppend ==
  ASSUME NEW c \in Nat \ {0}, NEW i \in 0 .. c - 1, NEW j \in 0 .. c - 1,
         NEW f \in BOOLEAN, NEW g \in BOOLEAN,
         i = j => ~ f, i = After(j, c) => g
  PROVE  Span(i, After(j, c), c, g) = Span(i, j, c, f) \cup {j}
  BY SMTT(60) DEF Span, After

\* A span that is not empty loses the descriptor at its start.
LEMMA SpanTail ==
  ASSUME NEW c \in Nat \ {0}, NEW i \in 0 .. c - 1, NEW j \in 0 .. c - 1,
         NEW f \in BOOLEAN, NEW g \in BOOLEAN,
         i = j => f, After(i, c) = j => ~ g
  PROVE  Span(After(i, c), j, c, g) = Span(i, j, c, f) \ {i}
  BY SMTT(60) DEF Span, After

\* A span holds its start, unless it is empty, and its end when it is the ring.
LEMMA SpanStart ==
  ASSUME NEW c \in Nat \ {0}, NEW i \in 0 .. c - 1, NEW j \in 0 .. c - 1, NEW f \in BOOLEAN
  PROVE  /\ Span(i, j, c, f) \subseteq 0 .. c - 1
         /\ i \in Span(i, j, c, f) <=> (i = j => f)
         /\ j \in Span(i, j, c, f) <=> (i = j /\ f)
         /\ After(j, c) = i /\ (i = j => ~ f) => Span(i, j, c, f) = (0 .. c - 1) \ {j}
         /\ After(i, c) = j /\ (i = j => f) => Span(i, j, c, f) = {i}
  BY SMTT(60) DEF Span, After

\* The descriptor behind a span is farther from its start than those in it,
\* and every other distance shrinks by one when the start advances.
LEMMA DistanceFacts ==
  ASSUME NEW c \in Nat \ {0}, NEW b \in 0 .. c - 1, NEW n \in 0 .. c - 1, NEW f \in BOOLEAN
  PROVE  /\ \A i \in 0 .. c - 1 : Distance(b, i, c) \in Nat
         /\ (b = n => ~ f) =>
              \A i \in Span(b, n, c, f) : Distance(b, i, c) < Distance(b, n, c)
         /\ \A i \in (0 .. c - 1) \ {b} : Distance(After(b, c), i, c) = Distance(b, i, c) - 1
         /\ \A i \in (0 .. c - 1) \ {b} : Distance(b, b, c) < Distance(b, i, c)
  BY SMTT(60) DEF Span, Distance, After

\* Within a span, the descriptors from d on are farther from its start than d.
LEMMA DistanceOrder ==
  ASSUME NEW c \in Nat \ {0}, NEW b \in 0 .. c - 1, NEW d \in 0 .. c - 1,
         NEW n \in 0 .. c - 1, NEW f \in BOOLEAN, NEW g \in BOOLEAN,
         Span(d, n, c, g) \subseteq Span(b, n, c, f),
         NEW i \in Span(d, n, c, g), i # d
  PROVE  Distance(b, d, c) < Distance(b, i, c)
<1>1. d \in Span(b, n, c, f) \/ Span(d, n, c, g) = {}
  BY SpanStart, SMTT(60) DEF Span
<1>2. d \in Span(b, n, c, f)
  BY <1>1
<1>3. g => (d = n => b = n)
  BY <1>2, SMTT(60) DEF Span
<1> QED BY <1>2, <1>3, SMTT(60) DEF Span, Distance

-----------------------------------------------------------------------------
\* The transmit ring.

\* The transmit ring has at least one descriptor, numbered from 0.
LEMMA TxCounts == TxDescCount \in Nat \ {0} /\ TxIndex = 0 .. TxDescCount - 1
  BY GmacAssumption DEF TxIndex

\* What the driver and the DMA engine may do to a descriptor.
LEMMA DescriptorFacts ==
  /\ Empty \in Descriptor /\ Empty.buf = None /\ Empty.own = FALSE
  /\ \A b \in Nat : Owned(b) \in Descriptor /\ Owned(b).buf = b /\ Owned(b).own = TRUE
                      /\ Owned(b).buf # None
  BY GmacAssumption DEF Empty, Owned, Descriptor

\* rt_eth_tx fills the descriptor at TxNext with a frame newer than the others.
LEMMA TxFill ==
  ASSUME TxInv, Fresh, tx[TxNext].buf = None,
         tx' = [tx EXCEPT ![TxNext] = Owned(frames)],
         TxNext' = After(TxNext, TxDescCount), live' = live \cup {frames},
         UNCHANGED <<TxBusy, dma_tx, wire, frames>>
  PROVE  /\ tx' \in [TxIndex -> Descriptor] /\ TxNext' \in TxIndex
         /\ \A i \in TxIndex : tx'[i].own => tx'[i].buf # None
         /\ \A i \in TxIndex : tx'[i].buf # None => tx'[i].buf <= frames
         /\ TxRing'
<1> DEFINE full == tx[TxBusy].buf # None
           used == Span(TxBusy, TxNext, TxDescCount, full)
           full1 == tx'[TxBusy].buf # None
           used1 == Span(TxBusy, TxNext', TxDescCount, full1)
           sent == Span(dma_tx, TxNext, TxDescCount, tx[dma_tx].own)
           sent1 == Span(dma_tx, TxNext', TxDescCount, tx'[dma_tx].own)
<1>1. /\ frames \in Nat /\ Owned(frames) \in Descriptor /\ Owned(frames).buf = frames
      /\ Owned(frames).own = TRUE /\ frames # None
  BY DescriptorFacts, GmacAssumption DEF TxInv, Handshake
<1>2. /\ tx \in [TxIndex -> Descriptor] /\ TxNext \in TxIndex /\ TxBusy \in TxIndex
      /\ dma_tx \in TxIndex /\ TxNext' \in TxIndex
      /\ \A i \in TxIndex : tx[i].own \in BOOLEAN /\ tx[i].buf \in Nat \cup {None}
      /\ \A i \in TxIndex : tx[i].own => tx[i].buf # None
      /\ wire \in Nat /\ wire < frames
      /\ \A i \in TxIndex : tx[i].buf # None => tx[i].buf < frames
  BY AfterIndex, TxCounts DEF TxInv, Older, Descriptor
<1>3. /\ tx' \in [TxIndex -> Descriptor] /\ tx'[TxNext] = Owned(frames)
      /\ \A i \in TxIndex \ {TxNext} : tx'[i] = tx[i]
  BY <1>1, <1>2
<1>4. /\ {i \in TxIndex : tx[i].buf # None} = used
      /\ {i \in TxIndex : tx[i].own} = sent
      /\ \A i, j \in used :
           Distance(TxBusy, i, TxDescCount) < Distance(TxBusy, j, TxDescCount)
             => tx[i].buf < tx[j].buf
      /\ live = {tx[i].buf : i \in used}
      /\ \A i \in TxIndex : tx[i].own => wire < tx[i].buf
  BY DEF TxInv, TxRing
<1>5. TxNext \notin used /\ TxNext \notin sent
  BY <1>2, <1>4
<1>6. used1 = used \cup {TxNext}
  <2>1. TxBusy = TxNext => ~ full
    BY <1>2
  <2>2. TxBusy = After(TxNext, TxDescCount) => full1
    <3>1. CASE TxBusy = TxNext
      BY <3>1, <1>1, <1>3
    <3>2. CASE TxBusy # TxNext
      <4>1. TxBusy \in used
        BY <3>2, <1>2, SpanStart, TxCounts
      <4> QED BY <4>1, <3>2, <1>2, <1>3, <1>4
    <3> QED BY <3>1, <3>2
  <2>3. full \in BOOLEAN /\ full1 \in BOOLEAN
    OBVIOUS
  <2> HIDE DEF full, full1
  <2> QED BY <2>1, <2>2, <2>3, <1>2, SpanAppend, TxCounts, SMTT(60)
<1>7. sent1 = sent \cup {TxNext}
  <2>1. dma_tx = TxNext => ~ tx[dma_tx].own
    BY <1>2
  <2>2. dma_tx = After(TxNext, TxDescCount) => tx'[dma_tx].own
    <3>1. CASE dma_tx = TxNext
      BY <3>1, <1>1, <1>3
    <3>2. CASE dma_tx # TxNext
      <4>1. dma_tx \in sent
        BY <3>2, <1>2, SpanStart, TxCounts
      <4> QED BY <4>1, <3>2, <1>2, <1>3, <1>4
    <3> QED BY <3>1, <3>2
  <2>3. tx[dma_tx].own \in BOOLEAN /\ tx'[dma_tx].own \in BOOLEAN
    BY <1>1, <1>2, <1>3
  <2> QED BY <2>1, <2>2, <2>3, <1>2, SpanAppend, TxCounts, SMTT(60)
<1>8. /\ {i \in TxIndex : tx'[i].buf # None} = used1
      /\ {i \in TxIndex : tx'[i].own} = sent1
  BY <1>1, <1>2, <1>3, <1>4, <1>6, <1>7, SMTT(60)
<1>9. \A i \in used : tx'[i] = tx[i] /\ i \in TxIndex /\ tx[i].buf # None /\ tx[i].buf < frames
  BY <1>2, <1>3, <1>4, <1>5
<1>10. \A i, j \in used1 :
         Distance(TxBusy, i, TxDescCount) < Distance(TxBusy, j, TxDescCount)
           => tx'[i].buf < tx'[j].buf
  <2>1. \A i \in used : /\ Distance(TxBusy, i, TxDescCount) < Distance(TxBusy, TxNext, TxDescCount)
                        /\ Distance(TxBusy, i, TxDescCount) \in Nat
    <3>1. TxBusy = TxNext => ~ full
      BY <1>2
    <3> QED BY <3>1, <1>2, <1>9, DistanceFacts, TxCounts
  <2>2. Distance(TxBusy, TxNext, TxDescCount) \in Nat
    BY <1>2, DistanceFacts, TxCounts
  <2> HIDE DEF used, used1
  <2>3. \A i \in used : tx'[i].buf < tx'[TxNext].buf
    BY <1>1, <1>3, <1>9
  <2> QED BY <1>4, <1>6, <1>9, <2>1, <2>2, <2>3, SMTT(60)
<1>11. live' = {tx'[i].buf : i \in used1}
  <2> HIDE DEF used, used1
  <2> QED BY <1>1, <1>3, <1>4, <1>6, <1>9, SMTT(60)
<1>12. \A i \in TxIndex : tx'[i].own => wire < tx'[i].buf
  BY <1>1, <1>2, <1>3, <1>4
<1>13. TxRing'
  BY <1>8, <1>10, <1>11, <1>12 DEF TxRing
<1>14. \A i \in TxIndex : tx'[i].own => tx'[i].buf # None
  BY <1>1, <1>2, <1>3
<1>15. \A i \in TxIndex : tx'[i].buf # None => tx'[i].buf <= frames
  BY <1>1, <1>2, <1>3, SMTT(60)
<1> QED BY <1>2, <1>3, <1>13, <1>14, <1>15

\* synopGMAC_get_tx_qptr takes the descriptor at TxBusy back: its frame was
\* sent, and the oldest of the ring.
LEMMA TxReclaim ==
  ASSUME TxInv, ~ tx[TxBusy].own, tx[TxBusy].buf # None,
         tx' = [tx EXCEPT ![TxBusy] = Empty],
         TxBusy' = After(TxBusy, TxDescCount), live' = live \ {tx[TxBusy].buf},
         UNCHANGED <<TxNext, dma_tx, wire, frames>>
  PROVE  /\ tx' \in [TxIndex -> Descriptor] /\ TxBusy' \in TxIndex
         /\ \A i \in TxIndex : tx'[i].own => tx'[i].buf # None
         /\ \A i \in TxIndex : tx'[i].buf # None => tx'[i].buf = tx[i].buf
         /\ TxRing'
<1> DEFINE full == tx[TxBusy].buf # None
           used == Span(TxBusy, TxNext, TxDescCount, full)
           full1 == tx'[TxBusy'].buf # None
           used1 == Span(TxBusy', TxNext, TxDescCount, full1)
           sent == Span(dma_tx, TxNext, TxDescCount, tx[dma_tx].own)
<1>1. /\ tx \in [TxIndex -> Descriptor] /\ TxNext \in TxIndex /\ TxBusy \in TxIndex
      /\ dma_tx \in TxIndex /\ TxBusy' \in TxIndex
      /\ \A i \in TxIndex : tx[i].own \in BOOLEAN /\ tx[i].buf \in Nat \cup {None}
      /\ \A i \in TxIndex : tx[i].own => tx[i].buf # None
  BY AfterIndex, TxCounts DEF TxInv, Descriptor
<1>2. /\ tx' \in [TxIndex -> Descriptor] /\ tx'[TxBusy].buf = None /\ ~ tx'[TxBusy].own
      /\ \A i \in TxIndex \ {TxBusy} : tx'[i] = tx[i]
  BY <1>1, DescriptorFacts
<1>3. /\ {i \in TxIndex : tx[i].buf # None} = used
      /\ {i \in TxIndex : tx[i].own} = sent
      /\ \A i, j \in used :
           Distance(TxBusy, i, TxDescCount) < Distance(TxBusy, j, TxDescCount)
             => tx[i].buf < tx[j].buf
      /\ live = {tx[i].buf : i \in used}
      /\ \A i \in TxIndex : tx[i].own => wire < tx[i].buf
  BY DEF TxInv, TxRing
<1>4. used1 = used \ {TxBusy}
  <2>1. TxBusy = TxNext => full
    OBVIOUS
  <2>2. After(TxBusy, TxDescCount) = TxNext => ~ full1
    <3>1. CASE TxBusy' = TxBusy
      BY <3>1, <1>2
    <3>2. CASE TxBusy' # TxBusy /\ TxBusy' = TxNext
      <4>1. used = {TxBusy}
        <5>1. full = TRUE
          OBVIOUS
        <5> HIDE DEF full
        <5> QED BY <5>1, <3>2, <1>1, TxCounts, SMTT(60) DEF Span, After
      <4> QED BY <4>1, <3>2, <1>1, <1>2, <1>3
    <3> QED BY <3>1, <3>2
  <2>3. full \in BOOLEAN /\ full1 \in BOOLEAN
    OBVIOUS
  <2> HIDE DEF full, full1
  <2> QED BY <2>1, <2>2, <2>3, <1>1, SpanTail, TxCounts, SMTT(60)
<1>5. {i \in TxIndex : tx'[i].buf # None} = used1
  BY <1>1, <1>2, <1>3, <1>4
<1>6. {i \in TxIndex : tx'[i].own} = Span(dma_tx, TxNext, TxDescCount, tx'[dma_tx].own)
  <2>1. \A i \in TxIndex : tx'[i].own = tx[i].own
    BY <1>1, <1>2, DescriptorFacts
  <2> QED BY <1>1, <1>3, <2>1
<1>7. /\ \A i \in used : i \in TxIndex /\ tx[i].buf \in Nat
      /\ \A i \in used \ {TxBusy} : tx'[i] = tx[i]
      /\ TxBusy \in used
  BY <1>1, <1>2, <1>3
<1>8. /\ \A i \in used : Distance(TxBusy, i, TxDescCount) \in Nat
      /\ \A i \in used \ {TxBusy} :
           /\ Distance(TxBusy', i, TxDescCount) = Distance(TxBusy, i, TxDescCount) - 1
           /\ Distance(TxBusy, TxBusy, TxDescCount) < Distance(TxBusy, i, TxDescCount)
  BY <1>1, <1>7, DistanceFacts, TxCounts
<1> HIDE DEF used, used1, full, full1
<1>9. \A i, j \in used1 :
        Distance(TxBusy', i, TxDescCount) < Distance(TxBusy', j, TxDescCount)
          => tx'[i].buf < tx'[j].buf
  BY <1>3, <1>4, <1>7, <1>8, SMTT(60)
<1>10. live' = {tx'[i].buf : i \in used1}
  <2>1. \A i \in used \ {TxBusy} : tx[i].buf # tx[TxBusy].buf
    BY <1>3, <1>7, <1>8, SMTT(60)
  <2> QED BY <1>3, <1>4, <1>7, <2>1, SMTT(60)
<1>11. \A i \in TxIndex : tx'[i].own => wire < tx'[i].buf
  BY <1>1, <1>2, <1>3
<1>12. TxRing'
  BY <1>5, <1>6, <1>9, <1>10, <1>11 DEF TxRing, used1, full1
<1> QED BY <1>1, <1>2, <1>12

\* The DMA engine sends the oldest frame it owns and gives the descriptor back.
LEMMA TxTransmit ==
  ASSUME TxInv, tx[dma_tx].own,
         tx' = [tx EXCEPT ![dma_tx].own = FALSE], wire' = tx[dma_tx].buf,
         dma_tx' = After(dma_tx, TxDescCount),
         UNCHANGED <<TxNext, TxBusy, live, frames>>
  PROVE  /\ tx' \in [TxIndex -> Descriptor] /\ dma_tx' \in TxIndex
         /\ \A i \in TxIndex : tx'[i].own => tx'[i].buf # None
         /\ \A i \in TxIndex : tx'[i].buf = tx[i].buf
         /\ wire' \in Nat
         /\ TxRing'
<1> DEFINE full == tx[TxBusy].buf # None
           used == Span(TxBusy, TxNext, TxDescCount, full)
           own == tx[dma_tx].own
           sent == Span(dma_tx, TxNext, TxDescCount, own)
           own1 == tx'[dma_tx'].own
           sent1 == Span(dma_tx', TxNext, TxDescCount, own1)
<1>1. /\ tx \in [TxIndex -> Descriptor] /\ TxNext \in TxIndex /\ TxBusy \in TxIndex
      /\ dma_tx \in TxIndex /\ dma_tx' \in TxIndex
      /\ \A i \in TxIndex : tx[i].own \in BOOLEAN /\ tx[i].buf \in Nat \cup {None}
      /\ \A i \in TxIndex : tx[i].own => tx[i].buf # None
  BY AfterIndex, TxCounts DEF TxInv, Descriptor
<1>2. /\ tx' \in [TxIndex -> Descriptor] /\ ~ tx'[dma_tx].own
      /\ \A i \in TxIndex \ {dma_tx} : tx'[i] = tx[i]
      /\ \A i \in TxIndex : tx'[i].buf = tx[i].buf
  BY <1>1 DEF Descriptor
<1>3. /\ {i \in TxIndex : tx[i].buf # None} = used
      /\ {i \in TxIndex : tx[i].own} = sent
      /\ \A i, j \in used :
           Distance(TxBusy, i, TxDescCount) < Distance(TxBusy, j, TxDescCount)
             => tx[i].buf < tx[j].buf
      /\ live = {tx[i].buf : i \in used}
      /\ \A i \in TxIndex : tx[i].own => wire < tx[i].buf
  BY DEF TxInv, TxRing
<1>4. sent1 = sent \ {dma_tx}
  <2>1. dma_tx = TxNext => own
    OBVIOUS
  <2>2. After(dma_tx, TxDescCount) = TxNext => ~ own1
    <3>1. CASE dma_tx' = dma_tx
      BY <3>1, <1>2
    <3>2. CASE dma_tx' # dma_tx /\ dma_tx' = TxNext
      <4>1. sent = {dma_tx}
        <5>1. own = TRUE
          BY <1>1
        <5> HIDE DEF own
        <5> QED BY <5>1, <3>2, <1>1, TxCounts, SMTT(60) DEF Span, After
      <4> QED BY <4>1, <3>2, <1>1, <1>2, <1>3
    <3> QED BY <3>1, <3>2
  <2>3. own \in BOOLEAN /\ own1 \in BOOLEAN
    BY <1>1, <1>2 DEF Descriptor
  <2> HIDE DEF own, own1
  <2> QED BY <2>1, <2>2, <2>3, <1>1, SpanTail, TxCounts, SMTT(60)
<1>5. {i \in TxIndex : tx'[i].own} = sent1
  BY <1>1, <1>2, <1>3, <1>4
<1>6. /\ {i \in TxIndex : tx'[i].buf # None} = used
      /\ Span(TxBusy', TxNext', TxDescCount, tx'[TxBusy'].buf # None) = used
  BY <1>1, <1>2, <1>3
<1>7. \A i \in sent \ {dma_tx} :
        Distance(TxBusy, dma_tx, TxDescCount) < Distance(TxBusy, i, TxDescCount)
  <2>1. sent \subseteq used /\ full \in BOOLEAN /\ own \in BOOLEAN
    BY <1>1, <1>3
  <2> HIDE DEF full, own
  <2> QED BY <1>1, <2>1, DistanceOrder, TxCounts
<1>8. \A i \in sent : i \in TxIndex /\ i \in used /\ dma_tx \in used
  BY <1>1, <1>3
<1> HIDE DEF used, sent, sent1
<1>9. \A i \in TxIndex : tx'[i].own => wire' < tx'[i].buf
  BY <1>2, <1>3, <1>4, <1>5, <1>7, <1>8
<1>10. TxRing'
  <2>1. {tx'[i].buf : i \in used} = {tx[i].buf : i \in used}
    BY <1>1, <1>2, <1>3, SMTT(60)
  <2>2. \A i, j \in used :
          Distance(TxBusy, i, TxDescCount) < Distance(TxBusy, j, TxDescCount)
            => tx'[i].buf < tx'[j].buf
    BY <1>2, <1>3
  <2>3. Span(dma_tx', TxNext', TxDescCount, tx'[dma_tx'].own) = sent1
    BY DEF sent1
  <2> QED BY <1>3, <1>5, <1>6, <1>9, <2>1, <2>2, <2>3 DEF TxRing
<1>11. wire' \in Nat
  BY <1>1
<1>12. \A i \in TxIndex : tx'[i].own => tx'[i].buf # None
  BY <1>1, <1>2
<1> QED BY <1>1, <1>2, <1>10, <1>11, <1>12

\* A step that leaves the ring, the frames and the place of the new one alone.
LEMMA TxKeep ==
  ASSUME TxInv, UNCHANGED <<txvars, dma_tx, wire>>, Handshake', Older'
  PROVE  TxInv'
  BY DEF TxInv, TxRing, txvars

\* The mail, etx and the ack carry one frame at a time from tcpip_thread to the
\* ring, and nothing but rt_eth_tx and the DMA engine touches the ring.
LEMMA TxStep ==
  ASSUME TxInv, [Next]_vars
  PROVE  TxInv'
<1>1. /\ Handshake /\ Older /\ frames \in Nat /\ tx_ack \in {0, 1} /\ wire \in Nat
      /\ \A i \in TxIndex : tx[i].buf \in Nat \cup {None}
  BY DEF TxInv, Handshake, Older, Descriptor
<1>2. CASE ethernetif_linkoutput
  <2>1. Handshake'
    BY <1>1, <1>2, SMTT(60) DEF ethernetif_linkoutput, Handshake
  <2>2. Older'
    BY <1>1, <1>2, GmacAssumption, SMTT(60) DEF ethernetif_linkoutput, Older, txvars
  <2> QED BY <1>2, <2>1, <2>2, TxKeep DEF ethernetif_linkoutput
<1>3. CASE linkoutput_acked
  <2>1. Handshake'
    BY <1>1, <1>3, SMTT(60) DEF linkoutput_acked, Handshake
  <2>2. Older'
    BY <1>1, <1>3 DEF linkoutput_acked, Older, Fresh, txvars
  <2> QED BY <1>3, <2>1, <2>2, TxKeep DEF linkoutput_acked
<1>4. CASE eth_tx_thread_entry
  <2>1. Handshake'
    BY <1>1, <1>4 DEF eth_tx_thread_entry, Handshake
  <2>2. Older'
    BY <1>1, <1>4 DEF eth_tx_thread_entry, Older, Fresh, txvars
  <2> QED BY <1>4, <2>1, <2>2, TxKeep DEF eth_tx_thread_entry
<1>5. CASE rt_eth_tx
  <2>1. Handshake'
    BY <1>1, <1>5 DEF rt_eth_tx, Handshake
  <2>2. Older'
    BY <1>1, <1>5 DEF rt_eth_tx, Older, Fresh, txvars
  <2> QED BY <1>5, <2>1, <2>2, TxKeep DEF rt_eth_tx
<1>6. CASE set_tx_qptr
  <2>1. CASE Refuse
    <3>1. Handshake'
      BY <1>1, <1>6, <2>1, SMTT(60) DEF set_tx_qptr, Refuse, Handshake
    <3>2. Older'
      BY <1>1, <1>6, <2>1 DEF set_tx_qptr, Refuse, Older, Fresh, txvars
    <3> QED BY <1>6, <2>1, <3>1, <3>2, TxKeep DEF set_tx_qptr, Refuse
  <2>2. CASE ~ Refuse
    <3>1. /\ tx[TxNext].buf = None /\ tx' = [tx EXCEPT ![TxNext] = Owned(frames)]
          /\ TxNext' = After(TxNext, TxDescCount) /\ live' = live \cup {frames}
          /\ UNCHANGED <<TxBusy, dma_tx, wire, frames>> /\ Fresh
          /\ etx' = "reclaim" /\ UNCHANGED <<tx_ack, etxmb, tcpip>>
      BY <1>6, <2>2 DEF set_tx_qptr, Fresh
    <3>2. Handshake' /\ ~ Fresh'
      BY <1>1, <1>6, <3>1 DEF set_tx_qptr, Handshake, Fresh
    <3>3. /\ tx' \in [TxIndex -> Descriptor] /\ TxNext' \in TxIndex
          /\ \A i \in TxIndex : tx'[i].own => tx'[i].buf # None
          /\ \A i \in TxIndex : tx'[i].buf # None => tx'[i].buf <= frames
          /\ TxRing'
      BY <3>1, TxFill
    <3> QED BY <1>1, <3>1, <3>2, <3>3 DEF TxInv, Older
  <2> QED BY <2>1, <2>2
<1>7. CASE get_tx_qptr
  <2>1. CASE tx[TxBusy].own \/ tx[TxBusy].buf = None
    <3>1. Handshake'
      BY <1>1, <1>7, <2>1, SMTT(60) DEF get_tx_qptr, Handshake
    <3>2. Older'
      BY <1>1, <1>7, <2>1 DEF get_tx_qptr, Older, Fresh, txvars
    <3> QED BY <1>7, <2>1, <3>1, <3>2, TxKeep DEF get_tx_qptr
  <2>2. CASE ~ (tx[TxBusy].own \/ tx[TxBusy].buf = None)
    <3>1. /\ ~ tx[TxBusy].own /\ tx[TxBusy].buf # None /\ tx' = [tx EXCEPT ![TxBusy] = Empty]
          /\ TxBusy' = After(TxBusy, TxDescCount) /\ live' = live \ {tx[TxBusy].buf}
          /\ UNCHANGED <<TxNext, dma_tx, wire, frames>>
          /\ UNCHANGED <<etx, tx_ack, etxmb, tcpip>>
      BY <1>7, <2>2 DEF get_tx_qptr
    <3>2. Handshake' /\ Fresh' = Fresh
      BY <1>1, <3>1 DEF Handshake, Fresh
    <3>3. /\ tx' \in [TxIndex -> Descriptor] /\ TxBusy' \in TxIndex
          /\ \A i \in TxIndex : tx'[i].own => tx'[i].buf # None
          /\ \A i \in TxIndex : tx'[i].buf # None => tx'[i].buf = tx[i].buf
          /\ TxRing'
      BY <3>1, TxReclaim
    <3> QED BY <1>1, <3>1, <3>2, <3>3 DEF TxInv, Older
  <2> QED BY <2>1, <2>2
<1>8. CASE dma_transmit
  <2>1. /\ tx[dma_tx].own /\ tx' = [tx EXCEPT ![dma_tx].own = FALSE] /\ wire' = tx[dma_tx].buf
        /\ dma_tx' = After(dma_tx, TxDescCount) /\ UNCHANGED <<TxNext, TxBusy, live, frames>>
        /\ UNCHANGED <<etx, tx_ack, etxmb, tcpip>>
    BY <1>8 DEF dma_transmit
  <2>2. Handshake' /\ Fresh' = Fresh
    BY <1>1, <2>1 DEF Handshake, Fresh
  <2>3. /\ tx' \in [TxIndex -> Descriptor] /\ dma_tx' \in TxIndex
        /\ \A i \in TxIndex : tx'[i].own => tx'[i].buf # None
        /\ \A i \in TxIndex : tx'[i].buf = tx[i].buf
        /\ wire' \in Nat
        /\ TxRing'
    BY <2>1, TxTransmit
  <2>4. tx[dma_tx].buf # None /\ dma_tx \in TxIndex
    BY <2>1 DEF TxInv
  <2> QED BY <1>1, <2>1, <2>2, <2>3, <2>4 DEF TxInv, Older
<1>9. CASE UNCHANGED <<txvars, dma_tx, wire, tcpip, etx, etxmb, tx_ack, frames>>
  <2>1. Handshake'
    BY <1>1, <1>9 DEF Handshake
  <2>2. Older'
    BY <1>1, <1>9 DEF Older, Fresh, txvars
  <2> QED BY <1>9, <2>1, <2>2, TxKeep
<1>10. CASE \/ netifapi_netif_set_link_up \/ Erx \/ dma_receive \/ eth_rx_irq
            \/ eth_device_linkchange \/ UNCHANGED vars
  BY <1>9, <1>10 DEF netifapi_netif_set_link_up, Erx, eth_rx_thread_entry, rt_eth_rx,
                     dma_receive, eth_rx_irq, eth_device_linkchange, vars
<1> QED BY <1>2, <1>3, <1>4, <1>5, <1>6, <1>7, <1>8, <1>10 DEF Next, Etx

-----------------------------------------------------------------------------
\* The receive ring.

\* The receive ring has at least one descriptor, numbered from 0.
LEMMA RxCounts == RxDescCount \in Nat \ {0} /\ RxIndex = 0 .. RxDescCount - 1
  BY GmacAssumption DEF RxIndex

\* A ring without two equal buffers has as many buffers as descriptors with one.
LEMMA RxImage ==
  ASSUME NEW S \in SUBSET RxIndex, NEW r,
         \A i, j \in S : r[i].buf = r[j].buf => i = j
  PROVE  IsFiniteSet(S) /\ Cardinality({r[i].buf : i \in S}) = Cardinality(S)
<1>1. IsFiniteSet(RxIndex)
  BY RxCounts, FS_Interval, SMTT(60)
<1>2. IsFiniteSet(S)
  BY <1>1, FS_Subset
<1> DEFINE T == {r[i].buf : i \in S}
           f == [i \in S |-> r[i].buf]
<1>3. f \in Surjection(S, T) /\ f \in Injection(S, T)
  BY DEF Surjection, Injection, IsInjective
<1> HIDE DEF T, f
<1>4. Cardinality(T) = Cardinality(S)
  BY <1>2, <1>3, FS_Surjection
<1> QED BY <1>2, <1>4 DEF T

\* The ring as the steps see it: the set of the descriptors with a buffer.
RxHeld == {i \in RxIndex : rx[i].buf # None}

\* What the receive invariant says of descriptors, buffers and their numbers.
LEMMA RxFacts ==
  ASSUME RxInv
  PROVE  /\ rx \in [RxIndex -> Descriptor] /\ RxHeld \subseteq RxIndex
         /\ \A i \in RxIndex : rx[i].own \in BOOLEAN /\ rx[i].buf \in Nat \cup {None}
         /\ \A i \in RxHeld : rx[i].buf \in RxIndex /\ rx[i].buf \in Nat /\ rx[i].buf \notin lost
         /\ IsFiniteSet(RxHeld) /\ IsFiniteSet(lost)
         /\ Cardinality(RxHeld) \in Nat /\ Cardinality(lost) \in Nat
         /\ Cardinality(RxHeld) + Cardinality(lost) = RxDescCount
         /\ RxIndex \ RxHeld = Span(RxNext, RxBusy, RxDescCount, RxHeld = {})
         /\ {i \in RxIndex : rx[i].own} = Span(dma_rx, RxNext, RxDescCount, rx[dma_rx].own)
<1>1. IsFiniteSet(RxIndex)
  BY RxCounts, FS_Interval, SMTT(60)
<1>2. lost \in SUBSET RxIndex /\ RxHeld \in SUBSET RxIndex
  BY DEF RxInv, RxHeld
<1>3. IsFiniteSet(RxHeld) /\ IsFiniteSet(lost)
  BY <1>1, <1>2, FS_Subset
<1>4. Cardinality(RxHeld) \in Nat /\ Cardinality(lost) \in Nat
  BY <1>3, FS_CardinalityType
<1>5. RxIndex \subseteq Nat
  BY RxCounts, SMTT(60)
<1>6. \A i \in RxHeld : rx[i].buf \notin lost
  BY DEF RxInv, RxRing, RxHeld
<1>7. /\ rx \in [RxIndex -> Descriptor]
      /\ \A i \in RxIndex : rx[i].own \in BOOLEAN /\ rx[i].buf \in Nat \cup {None}
      /\ \A i \in RxHeld : rx[i].buf \in RxIndex
  BY DEF RxInv, Descriptor, RxHeld
<1>8. /\ Cardinality(RxHeld) + Cardinality(lost) = RxDescCount
      /\ RxIndex \ RxHeld = Span(RxNext, RxBusy, RxDescCount, RxHeld = {})
      /\ {i \in RxIndex : rx[i].own} = Span(dma_rx, RxNext, RxDescCount, rx[dma_rx].own)
  BY DEF RxInv, RxRing, RxHeld
<1> QED BY <1>2, <1>3, <1>4, <1>5, <1>6, <1>7, <1>8

\* What is left to show of a step, once the sets of descriptors are known.
LEMMA RxBuild ==
  ASSUME rx' \in [RxIndex -> Descriptor],
         RxNext' \in RxIndex, RxBusy' \in RxIndex, dma_rx' \in RxIndex,
         \A i \in RxIndex : rx'[i].own => rx'[i].buf # None,
         \A i, j \in RxIndex : rx'[i].buf # None /\ rx'[i].buf = rx'[j].buf => i = j,
         \A i \in RxIndex : rx'[i].buf # None => rx'[i].buf \in RxIndex /\ rx'[i].buf \notin lost',
         lost' \subseteq RxIndex,
         Cardinality(RxHeld') + Cardinality(lost') = RxDescCount,
         RxIndex \ RxHeld' = Span(RxNext', RxBusy', RxDescCount, RxHeld' = {}),
         {i \in RxIndex : rx'[i].own} = Span(dma_rx', RxNext', RxDescCount, rx'[dma_rx'].own)
  PROVE  RxInv'
<1>1. RxHeld' \in SUBSET RxIndex /\ \A i, j \in RxHeld' : rx'[i].buf = rx'[j].buf => i = j
  BY DEF RxHeld
<1>2. Cardinality({rx'[i].buf : i \in RxHeld'}) = Cardinality(RxHeld')
  BY <1>1, RxImage, SMTT(60)
<1>3. RxRing'
  BY <1>2, SMTT(60) DEF RxRing, RxHeld
<1> QED BY <1>3 DEF RxInv

\* The DMA engine fills the descriptor it is at and gives it back.
LEMMA RxReceive ==
  ASSUME RxInv, NEW g \in BOOLEAN, rx[dma_rx].own,
         rx' = [rx EXCEPT ![dma_rx].own = FALSE, ![dma_rx].good = g],
         dma_rx' = After(dma_rx, RxDescCount),
         UNCHANGED <<RxNext, RxBusy, lost>>
  PROVE  RxInv'
<1> DEFINE own == rx[dma_rx].own
           sent == Span(dma_rx, RxNext, RxDescCount, own)
           own1 == rx'[dma_rx'].own
           sent1 == Span(dma_rx', RxNext, RxDescCount, own1)
<1>1. /\ RxNext \in RxIndex /\ RxBusy \in RxIndex /\ dma_rx \in RxIndex /\ dma_rx' \in RxIndex
      /\ \A i \in RxIndex : rx[i].own => rx[i].buf # None
      /\ rx \in [RxIndex -> Descriptor] /\ {i \in RxIndex : rx[i].own} = sent
      /\ \A i \in RxIndex : rx[i].own \in BOOLEAN
  BY AfterIndex, RxCounts, RxFacts DEF RxInv
<1>2. /\ rx' \in [RxIndex -> Descriptor] /\ ~ rx'[dma_rx].own
      /\ \A i \in RxIndex \ {dma_rx} : rx'[i] = rx[i]
      /\ \A i \in RxIndex : rx'[i].buf = rx[i].buf
  BY <1>1 DEF Descriptor
<1>3. sent1 = sent \ {dma_rx}
  <2>1. own /\ own \in BOOLEAN
    BY <1>1
  <2>2. After(dma_rx, RxDescCount) = RxNext => ~ own1
    <3>1. CASE dma_rx' = dma_rx
      BY <3>1, <1>2
    <3>2. CASE dma_rx' # dma_rx /\ dma_rx' = RxNext
      <4>1. sent = {dma_rx}
        <5> HIDE DEF own
        <5> QED BY <2>1, <3>2, <1>1, RxCounts, SMTT(60) DEF Span, After
      <4> QED BY <4>1, <3>2, <1>1, <1>2
    <3> QED BY <3>1, <3>2
  <2>3. own \in BOOLEAN /\ own1 \in BOOLEAN
    BY <1>1, <1>2 DEF Descriptor
  <2>4. dma_rx = RxNext => own
    BY <2>1
  <2> HIDE DEF own, own1
  <2> QED BY <2>2, <2>3, <2>4, <1>1, SpanTail, RxCounts, SMTT(60)
<1>4. {i \in RxIndex : rx'[i].own} = sent1
  BY <1>1, <1>2, <1>3
<1>5. RxHeld' = RxHeld
  BY <1>2 DEF RxHeld
<1>6. /\ Cardinality(RxHeld') + Cardinality(lost') = RxDescCount
      /\ RxIndex \ RxHeld' = Span(RxNext', RxBusy', RxDescCount, RxHeld' = {})
  BY <1>5, RxFacts
<1>7. /\ \A i, j \in RxIndex : rx'[i].buf # None /\ rx'[i].buf = rx'[j].buf => i = j
      /\ \A i \in RxIndex : rx'[i].buf # None => rx'[i].buf \in RxIndex /\ rx'[i].buf \notin lost'
      /\ lost' \subseteq RxIndex
  <2>1. \A i \in RxIndex : rx[i].buf # None => rx[i].buf \in RxIndex /\ rx[i].buf \notin lost
    BY RxFacts DEF RxHeld
  <2> QED BY <1>2, <2>1, SMTT(60) DEF RxInv
<1>8. \A i \in RxIndex : rx'[i].own => rx'[i].buf # None
  BY <1>1, <1>2
<1> QED BY <1>1, <1>2, <1>4, <1>6, <1>7, <1>8, RxBuild

\* rt_eth_rx takes a buffer out of the ring and finds no place for its data.
LEMMA RxLose ==
  ASSUME RxInv, ~ rx[RxBusy].own, rx[RxBusy].buf # None,
         rx' = [rx EXCEPT ![RxBusy] = Empty], lost' = lost \cup {rx[RxBusy].buf},
         RxBusy' = After(RxBusy, RxDescCount), UNCHANGED <<RxNext, dma_rx>>
  PROVE  RxInv'
<1>1. /\ RxNext \in RxIndex /\ RxBusy \in RxIndex /\ dma_rx \in RxIndex /\ RxBusy' \in RxIndex
      /\ \A i \in RxIndex : rx[i].own => rx[i].buf # None
      /\ rx \in [RxIndex -> Descriptor]
      /\ \A i \in RxIndex : rx[i].own \in BOOLEAN
  BY AfterIndex, RxCounts, RxFacts DEF RxInv
<1>2. /\ rx' \in [RxIndex -> Descriptor] /\ rx'[RxBusy].buf = None /\ rx'[RxBusy].own = FALSE
      /\ \A i \in RxIndex \ {RxBusy} : rx'[i] = rx[i]
  BY <1>1, DescriptorFacts
<1>3. RxBusy \in RxHeld /\ RxHeld' = RxHeld \ {RxBusy}
  BY <1>1, <1>2 DEF RxHeld
<1>4. Cardinality(RxHeld') + Cardinality(lost') = RxDescCount
  <2>1. Cardinality(RxHeld') = Cardinality(RxHeld) - 1
    BY <1>3, RxFacts, FS_RemoveElement
  <2>2. rx[RxBusy].buf \notin lost
    BY <1>3, RxFacts
  <2>3. Cardinality(lost') = Cardinality(lost) + 1
    BY <2>2, RxFacts, FS_AddElement
  <2> QED BY <2>1, <2>3, RxFacts, RxCounts, SMTT(60)
<1>5. RxIndex \ RxHeld' = Span(RxNext', RxBusy', RxDescCount, RxHeld' = {})
  <2> DEFINE none == RxHeld = {}
             none1 == RxHeld' = {}
  <2>1. RxIndex \ RxHeld = Span(RxNext, RxBusy, RxDescCount, none)
    BY RxFacts
  <2>2. ~ none /\ none \in BOOLEAN
    BY <1>3
  <2>3. RxNext = After(RxBusy, RxDescCount) => none1
    <3>1. ASSUME RxNext = After(RxBusy, RxDescCount) PROVE RxIndex \ RxHeld = RxIndex \ {RxBusy}
      <4> HIDE DEF none
      <4>1. Span(RxNext, RxBusy, RxDescCount, none) = RxIndex \ {RxBusy}
        BY <2>2, <3>1, <1>1, RxCounts, SMTT(60) DEF Span, After
      <4> QED BY <2>1, <4>1
    <3>2. RxHeld \subseteq RxIndex
      BY DEF RxHeld
    <3> QED BY <3>1, <3>2, <1>3
  <2>4. none1 \in BOOLEAN
    OBVIOUS
  <2>5. RxIndex \ RxHeld' = (RxIndex \ RxHeld) \cup {RxBusy}
    BY <1>1, <1>3
  <2> HIDE DEF none, none1
  <2>6. Span(RxNext, RxBusy', RxDescCount, none1) = Span(RxNext, RxBusy, RxDescCount, none) \cup {RxBusy}
    BY <1>1, <2>2, <2>3, <2>4, SpanAppend, RxCounts, SMTT(60)
  <2>7. RxIndex \ RxHeld' = Span(RxNext', RxBusy', RxDescCount, none1)
    BY <2>1, <2>5, <2>6
  <2> QED BY <2>7 DEF none1
<1>6. {i \in RxIndex : rx'[i].own} = Span(dma_rx', RxNext', RxDescCount, rx'[dma_rx'].own)
  <2>1. \A i \in RxIndex : rx'[i].own = rx[i].own
    BY <1>1, <1>2
  <2> QED BY <1>1, <2>1, RxFacts
<1>7. /\ \A i, j \in RxIndex : rx'[i].buf # None /\ rx'[i].buf = rx'[j].buf => i = j
      /\ \A i \in RxIndex : rx'[i].buf # None => rx'[i].buf \in RxIndex /\ rx'[i].buf \notin lost'
      /\ lost' \subseteq RxIndex
  BY <1>1, <1>2, <1>3, RxFacts, SMTT(60) DEF RxInv, RxHeld
<1>8. \A i \in RxIndex : rx'[i].own => rx'[i].buf # None
  BY <1>1, <1>2
<1> QED BY <1>1, <1>2, <1>4, <1>5, <1>6, <1>7, <1>8, RxBuild

\* rt_eth_rx gives the buffer back at RxNext: that descriptor is empty, for it
\* is the one just emptied or one that has lost its buffer before.
LEMMA RxReturn ==
  ASSUME RxInv, ~ rx[RxBusy].own, rx[RxBusy].buf # None,
         rx' = [[rx EXCEPT ![RxBusy] = Empty] EXCEPT ![RxNext] = Owned(rx[RxBusy].buf)],
         RxBusy' = After(RxBusy, RxDescCount), RxNext' = After(RxNext, RxDescCount),
         UNCHANGED <<lost, dma_rx>>
  PROVE  RxInv'
<1> DEFINE b == rx[RxBusy].buf
           sent == Span(dma_rx, RxNext, RxDescCount, rx[dma_rx].own)
<1>1. /\ RxNext \in RxIndex /\ RxBusy \in RxIndex /\ dma_rx \in RxIndex
      /\ RxBusy' \in RxIndex /\ RxNext' \in RxIndex
      /\ \A i \in RxIndex : rx[i].own => rx[i].buf # None
      /\ rx \in [RxIndex -> Descriptor]
      /\ \A i \in RxIndex : rx[i].own \in BOOLEAN
      /\ {i \in RxIndex : rx[i].own} = sent
  BY AfterIndex, RxCounts, RxFacts DEF RxInv
<1>2. RxBusy \in RxHeld
  BY <1>1 DEF RxHeld
<1>3. b \in Nat /\ b \in RxIndex /\ b \notin lost /\ b # None
  BY <1>2, RxFacts
<1>4. RxNext = RxBusy \/ RxNext \notin RxHeld
  <2> DEFINE none == RxHeld = {}
  <2>1. RxIndex \ RxHeld = Span(RxNext, RxBusy, RxDescCount, none) /\ none \in BOOLEAN
    BY RxFacts
  <2> HIDE DEF none
  <2> QED BY <1>1, <2>1, SpanStart, RxCounts
<1>5. /\ rx' \in [RxIndex -> Descriptor]
      /\ rx'[RxNext].buf = b /\ rx'[RxNext].own = TRUE
      /\ RxBusy # RxNext => rx'[RxBusy].buf = None /\ rx'[RxBusy].own = FALSE
      /\ \A i \in RxIndex \ {RxBusy, RxNext} : rx'[i] = rx[i]
  <2>1. Owned(b) \in Descriptor /\ Owned(b).buf = b /\ Owned(b).own = TRUE
    BY <1>3, DescriptorFacts
  <2>2. Empty \in Descriptor /\ Empty.buf = None /\ Empty.own = FALSE
    BY DescriptorFacts
  <2> QED BY <1>1, <2>1, <2>2
<1>6. RxHeld' = (RxHeld \ {RxBusy}) \cup {RxNext}
  BY <1>1, <1>3, <1>5 DEF RxHeld
<1>7. Cardinality(RxHeld') + Cardinality(lost') = RxDescCount
  <2>1. IsFiniteSet(RxHeld \ {RxBusy}) /\ Cardinality(RxHeld \ {RxBusy}) = Cardinality(RxHeld) - 1
    BY <1>2, RxFacts, FS_RemoveElement
  <2>2. RxNext \notin RxHeld \ {RxBusy}
    BY <1>4
  <2>3. Cardinality(RxHeld') = Cardinality(RxHeld \ {RxBusy}) + 1
    BY <1>6, <2>1, <2>2, FS_AddElement
  <2> QED BY <2>1, <2>3, RxFacts, RxCounts, SMTT(60)
<1>8. RxIndex \ RxHeld' = Span(RxNext', RxBusy', RxDescCount, RxHeld' = {})
  <2> DEFINE none == RxHeld = {}
             none1 == RxHeld' = {}
  <2>1. RxIndex \ RxHeld = Span(RxNext, RxBusy, RxDescCount, none)
    BY RxFacts
  <2>2. ~ none /\ none \in BOOLEAN /\ ~ none1 /\ none1 \in BOOLEAN
    BY <1>2, <1>6
  <2>3. RxIndex \ RxHeld' = ((RxIndex \ RxHeld) \cup {RxBusy}) \ {RxNext}
    BY <1>1, <1>6
  <2> HIDE DEF none, none1
  <2>4. Span(RxNext', RxBusy', RxDescCount, none1)
          = (Span(RxNext, RxBusy, RxDescCount, none) \cup {RxBusy}) \ {RxNext}
    BY <1>1, <2>2, RxCounts, SMTT(60) DEF Span, After
  <2>5. RxIndex \ RxHeld' = Span(RxNext', RxBusy', RxDescCount, none1)
    BY <2>1, <2>3, <2>4
  <2> QED BY <2>5 DEF none1
<1>9. {i \in RxIndex : rx'[i].own} = Span(dma_rx', RxNext', RxDescCount, rx'[dma_rx'].own)
  <2> DEFINE own == rx[dma_rx].own
             own1 == rx'[dma_rx].own
  <2>1. ~ rx[RxNext].own
    BY <1>1, <1>4 DEF RxHeld
  <2>2. dma_rx = RxNext => ~ own
    BY <2>1
  <2>3. \A i \in RxIndex \ {RxNext} : rx'[i].own = rx[i].own
    BY <1>1, <1>5
  <2>4. dma_rx = After(RxNext, RxDescCount) => own1
    <3>1. CASE dma_rx = RxNext
      BY <3>1, <1>5
    <3>2. CASE dma_rx # RxNext
      <4>1. dma_rx \in sent
        BY <3>2, <1>1, SpanStart, RxCounts
      <4> QED BY <4>1, <3>2, <1>1, <2>3
    <3> QED BY <3>1, <3>2
  <2>5. own \in BOOLEAN /\ own1 \in BOOLEAN
    BY <1>1, <1>5 DEF Descriptor
  <2>6. {i \in RxIndex : rx'[i].own} = sent \cup {RxNext}
    BY <1>1, <1>5, <2>3
  <2> HIDE DEF own1
  <2>7. Span(dma_rx, RxNext', RxDescCount, own1) = sent \cup {RxNext}
    <3> HIDE DEF own
    <3> QED BY <1>1, <2>2, <2>4, <2>5, SpanAppend, RxCounts, SMTT(60) DEF own
  <2> QED BY <2>6, <2>7 DEF own1
<1>10. \A i, j \in RxIndex : rx'[i].buf # None /\ rx'[i].buf = rx'[j].buf => i = j
  <2>1. \A i \in RxIndex \ {RxBusy} : rx[i].buf # b
    BY <1>1, <1>3 DEF RxInv
  <2> QED BY <1>1, <1>3, <1>5, <2>1, SMTT(60) DEF RxInv
<1>11. \A i \in RxIndex : rx'[i].buf # None => rx'[i].buf \in RxIndex /\ rx'[i].buf \notin lost'
  <2>1. \A i \in RxIndex : rx[i].buf # None => rx[i].buf \in RxIndex /\ rx[i].buf \notin lost
    BY RxFacts DEF RxHeld
  <2> QED BY <1>1, <1>3, <1>5, <2>1
<1>12. /\ lost' \subseteq RxIndex
       /\ \A i \in RxIndex : rx'[i].own => rx'[i].buf # None
  BY <1>1, <1>3, <1>5 DEF RxInv
<1> QED BY <1>1, <1>5, <1>7, <1>8, <1>9, <1>10, <1>11, <1>12, RxBuild

\* Only rt_eth_rx and the DMA engine touch the receive ring.
LEMMA RxStep ==
  ASSUME RxInv, [Next]_vars
  PROVE  RxInv'
<1>1. CASE UNCHANGED <<rxvars, dma_rx>>
  BY <1>1, SMTT(60) DEF RxInv, RxRing, rxvars
<1>2. CASE dma_receive
  <2>1. CASE rx[dma_rx].own
    <3>1. PICK g \in BOOLEAN : rx' = [rx EXCEPT ![dma_rx].own = FALSE, ![dma_rx].good = g]
      BY <1>2, <2>1 DEF dma_receive
    <3>2. dma_rx' = After(dma_rx, RxDescCount) /\ UNCHANGED <<RxNext, RxBusy, lost>>
      BY <1>2, <2>1 DEF dma_receive
    <3> QED BY <2>1, <3>1, <3>2, RxReceive
  <2>2. CASE ~ rx[dma_rx].own
    BY <1>1, <1>2, <2>2 DEF dma_receive, rxvars
  <2> QED BY <2>1, <2>2
<1>3. CASE rt_eth_rx
  <2> DEFINE d == rx[RxBusy]
             cleared == [rx EXCEPT ![RxBusy] = Empty]
  <2>1. CASE d.own \/ d.buf = None
    BY <1>1, <1>3, <2>1 DEF rt_eth_rx
  <2>2. CASE ~ (d.own \/ d.buf = None)
    <3>1. /\ ~ d.own /\ d.buf # None /\ UNCHANGED dma_rx
          /\ RxBusy' = After(RxBusy, RxDescCount)
          /\ \/ rx' = cleared /\ lost' = lost \cup {d.buf} /\ UNCHANGED RxNext
             \/ /\ rx' = [cleared EXCEPT ![RxNext] = Owned(d.buf)]
                /\ RxNext' = After(RxNext, RxDescCount) /\ UNCHANGED lost
      BY <1>3, <2>2 DEF rt_eth_rx
    <3> QED BY <3>1, RxLose, RxReturn
  <2> QED BY <2>1, <2>2
<1>4. CASE \/ ethernetif_linkoutput \/ linkoutput_acked \/ netifapi_netif_set_link_up \/ Etx
           \/ eth_rx_thread_entry \/ dma_transmit \/ eth_rx_irq \/ eth_device_linkchange
           \/ UNCHANGED vars
  BY <1>1, <1>4 DEF ethernetif_linkoutput, linkoutput_acked, netifapi_netif_set_link_up, Etx,
       eth_tx_thread_entry, rt_eth_tx, set_tx_qptr, get_tx_qptr, eth_rx_thread_entry,
       dma_transmit, eth_rx_irq, eth_device_linkchange, vars
<1> QED BY <1>2, <1>3, <1>4 DEF Next, Erx

-----------------------------------------------------------------------------
\* init_eth leaves an empty transmit ring and a full receive ring.
LEMMA RingsInit ==
  ASSUME Init
  PROVE  TxInv /\ RxInv
<1>1. TxInv
  <2>1. /\ 0 \in TxIndex /\ tx \in [TxIndex -> Descriptor]
        /\ \A i \in TxIndex : tx[i].buf = None /\ tx[i].own = FALSE
    BY DescriptorFacts, TxCounts, SMTT(60) DEF Init
  <2>2. Span(0, 0, TxDescCount, FALSE) = {}
    BY SMTT(60) DEF Span
  <2>3. TxRing
    BY <2>1, <2>2 DEF Init, TxRing
  <2>4. Handshake /\ Older
    BY <2>1, SMTT(60) DEF Init, Handshake, Older, Fresh
  <2> QED BY <2>1, <2>3, <2>4 DEF TxInv, Init
<1>2. RxInv
  <2>1. 0 \in RxIndex /\ RxIndex \subseteq Nat
    BY RxCounts, SMTT(60)
  <2>2. /\ rx \in [RxIndex -> Descriptor]
        /\ \A i \in RxIndex : rx[i].buf = i /\ rx[i].own = TRUE /\ rx[i].buf # None
    BY <2>1, DescriptorFacts DEF Init
  <2>3. RxHeld = RxIndex /\ RxHeld # {}
    BY <2>1, <2>2 DEF RxHeld
  <2>4. Cardinality(RxHeld) + Cardinality(lost) = RxDescCount
    <3>1. Cardinality(RxIndex) = RxDescCount
      BY RxCounts, FS_Interval, SMTT(60)
    <3> QED BY <2>3, <3>1, FS_EmptySet, RxCounts, SMTT(60) DEF Init
  <2>5. RxIndex \ RxHeld = Span(RxNext, RxBusy, RxDescCount, RxHeld = {})
    BY <2>3, SMTT(60) DEF Init, Span
  <2>6. {i \in RxIndex : rx[i].own} = Span(dma_rx, RxNext, RxDescCount, rx[dma_rx].own)
    BY <2>1, <2>2, RxCounts, SMTT(60) DEF Init, Span
  <2>7. Cardinality({rx[i].buf : i \in RxHeld}) = Cardinality(RxHeld)
    BY <2>2, <2>3, RxImage, SMTT(60)
  <2>8. lost = {}
    BY DEF Init
  <2>9. RxRing
    BY <2>4, <2>5, <2>6, <2>7, <2>8 DEF RxRing, RxHeld
  <2> QED BY <2>1, <2>2, <2>8, <2>9, SMTT(60) DEF RxInv, Init
<1> QED BY <1>1, <1>2

\* For transmit rings of every size: the frames are in the descriptors from
\* TxBusy to TxNext in their order, the DMA engine owns those from its place on,
\* and the buffers not yet freed are the ones in the ring.  rt_eth_tx frees each
\* one once and after it was sent, and frames leave in order.
THEOREM TransmitRing == Spec => []TxRing
<1>1. Init => TxInv
  BY RingsInit
<1>2. TxInv /\ [Next]_vars => TxInv'
  BY TxStep
<1>3. TxInv => TxRing
  BY DEF TxInv
<1> QED BY <1>1, <1>2, <1>3, PTL DEF Spec

\* For receive rings of every size: each buffer is in one descriptor or was
\* lost for want of a pbuf, and the descriptors without one are those from
\* RxNext to RxBusy, so that rt_eth_rx can always give a buffer back.
THEOREM ReceiveRing == Spec => []RxRing
<1>1. Init => RxInv
  BY RingsInit
<1>2. RxInv /\ [Next]_vars => RxInv'
  BY RxStep
<1>3. RxInv => RxRing
  BY DEF RxInv
<1> QED BY <1>1, <1>2, <1>3, PTL DEF Spec

=============================================================================
