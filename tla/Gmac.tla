-------------------------------- MODULE Gmac --------------------------------
(***************************************************************************)
(* The Ethernet driver: the descriptor rings that net/synMain.c and        *)
(* synopGMAC_Dev.c share with the DMA engine, and the threads etx and erx  *)
(* of ethernetif.c that call the driver for tcpip_thread.  The DMA engine  *)
(* (external) works through each ring in order and stops at a descriptor   *)
(* that it does not own.  It runs between any two accesses of the driver.  *)
(*                                                                         *)
(* A descriptor is empty (buf = None), owned by the DMA engine (own), or   *)
(* finished and not yet taken back.  A frame to be sent stands for the     *)
(* buffer that rt_eth_tx allocates for it; a received frame is good or     *)
(* not.  A fatal bus error and a stopped transmitter, after which          *)
(* eth_rx_irq clears descriptors, are left out.                            *)
(***************************************************************************)
EXTENDS Integers, FiniteSets

CONSTANTS TxDescCount, RxDescCount,  \* descriptors of the two rings
          MailCap,                   \* slots of erxmb
          Frames,                    \* bound: the frames tcpip_thread sends
          Arrivals,                  \* bound: the frames that arrive
          None

ASSUME GmacAssumption ==
  /\ TxDescCount \in Nat \ {0} /\ RxDescCount \in Nat \ {0}
  /\ MailCap \in Nat \ {0} /\ Frames \in Nat /\ Arrivals \in Nat
  /\ None \notin Nat

TxIndex == 0 .. TxDescCount - 1
RxIndex == 0 .. RxDescCount - 1

VARIABLES tx, TxNext, TxBusy,  \* the transmit ring, where it is filled, and reclaimed
          rx, RxNext, RxBusy,  \* the receive ring
          dma_tx, dma_rx,      \* where the DMA engine is in the rings
          sem_lock,            \* the value of sem_lock
          tx_ack,              \* the value of tx_ack
          etxmb, erxmb,        \* the mails in the two mailboxes
          irq,                 \* a receive interrupt is pending
          tcpip,               \* tcpip_thread: "run", or "ack" in rt_sem_take
          etx, erx,            \* where the two Ethernet threads are
          link_changed,        \* link_changed of the device; None before the end
                               \* of hw_eth_init_thread_entry
          frames, arrivals,    \* the frames sent and arrived so far
          live,                \* history: the transmit buffers not yet freed
          wire,                \* history: the last frame that left
          lost                 \* history: the receive buffers no descriptor has

txvars == <<tx, TxNext, TxBusy, live>>
rxvars == <<rx, RxNext, RxBusy, lost>>
vars == <<txvars, rxvars, dma_tx, dma_rx, sem_lock, tx_ack, etxmb, erxmb, irq,
          tcpip, etx, erx, link_changed, frames, arrivals, wire>>

Empty == [own |-> FALSE, buf |-> None, good |-> FALSE]
Owned(b) == [own |-> TRUE, buf |-> b, good |-> FALSE]

\* synopGMAC_is_last_tx_desc, synopGMAC_is_last_rx_desc: the ring closes
After(i, count) == IF i = count - 1 THEN 0 ELSE i + 1

\* init_eth: the transmit ring is empty, every receive descriptor has a buffer.
Init ==
  /\ tx = [i \in TxIndex |-> Empty] /\ TxNext = 0 /\ TxBusy = 0 /\ live = {}
  /\ rx = [i \in RxIndex |-> Owned(i)] /\ RxNext = 0 /\ RxBusy = 0 /\ lost = {}
  /\ dma_tx = 0 /\ dma_rx = 0
  /\ sem_lock = 1 /\ tx_ack = 0 /\ etxmb = {} /\ erxmb = 0 /\ irq = FALSE
  /\ tcpip = "run" /\ etx = "recv" /\ erx = "recv" /\ link_changed = None
  /\ frames = 0 /\ arrivals = 0 /\ wire = 0

-----------------------------------------------------------------------------
\* tcpip_thread sends a frame: a mail to etx, and the wait for its ack.
ethernetif_linkoutput ==
  /\ tcpip = "run" /\ frames < Frames
  /\ frames' = frames + 1
  /\ etxmb' = {frames + 1}
  /\ tcpip' = "ack"
  /\ UNCHANGED <<txvars, rxvars, dma_tx, dma_rx, sem_lock, tx_ack, erxmb, irq,
                 etx, erx, link_changed, arrivals, wire>>

\* The end of its rt_sem_take.
linkoutput_acked ==
  /\ tcpip = "ack" /\ tx_ack > 0
  /\ tx_ack' = tx_ack - 1
  /\ tcpip' = "run"
  /\ UNCHANGED <<txvars, rxvars, dma_tx, dma_rx, sem_lock, etxmb, erxmb, irq,
                 etx, erx, link_changed, frames, arrivals, wire>>

\* etx receives the mail, and rt_eth_tx takes sem_lock.
eth_tx_thread_entry ==
  /\ etx = "recv" /\ etxmb # {} /\ sem_lock = 1
  /\ sem_lock' = 0
  /\ etxmb' = {}
  /\ etx' = "test"
  /\ UNCHANGED <<txvars, rxvars, dma_tx, dma_rx, tx_ack, erxmb, irq, tcpip,
                 erx, link_changed, frames, arrivals, wire>>

\* rt_eth_tx: the next descriptor is the driver's or the frame is dropped.
rt_eth_tx ==
  /\ etx = "test"
  /\ etx' = IF tx[TxNext].own THEN "reclaim" ELSE "set"
  /\ UNCHANGED <<txvars, rxvars, dma_tx, dma_rx, sem_lock, tx_ack, etxmb,
                 erxmb, irq, tcpip, erx, link_changed, frames, arrivals, wire>>

\* It returns an error to etx, which sends the ack: sem_lock stays taken.
Refuse ==
  /\ tx_ack' = tx_ack + 1
  /\ etx' = "recv"
  /\ UNCHANGED txvars

\* synopGMAC_set_tx_qptr with a copy of the frame, unless there is no memory
\* for the copy or the descriptor has not been reclaimed.
set_tx_qptr_NoTest ==
  /\ etx = "set"
  /\ \/ Refuse
     \/ /\ tx' = [tx EXCEPT ![TxNext] = Owned(frames)]
        /\ TxNext' = After(TxNext, TxDescCount)
        /\ live' = live \cup {frames}
        /\ etx' = "reclaim"
        /\ UNCHANGED <<TxBusy, tx_ack>>
  /\ UNCHANGED <<rxvars, dma_tx, dma_rx, sem_lock, etxmb, erxmb, irq, tcpip,
                 erx, link_changed, frames, arrivals, wire>>

set_tx_qptr ==
  /\ etx = "set"
  /\ \/ Refuse
     \/ /\ tx[TxNext].buf = None
        /\ tx' = [tx EXCEPT ![TxNext] = Owned(frames)]
        /\ TxNext' = After(TxNext, TxDescCount)
        /\ live' = live \cup {frames}
        /\ etx' = "reclaim"
        /\ UNCHANGED <<TxBusy, tx_ack>>
  /\ UNCHANGED <<rxvars, dma_tx, dma_rx, sem_lock, etxmb, erxmb, irq, tcpip,
                 erx, link_changed, frames, arrivals, wire>>

\* The loop over synopGMAC_get_tx_qptr frees what has been sent, then sem_lock
\* and the ack are released.
get_tx_qptr_NoInit ==
  /\ etx = "reclaim"
  /\ IF tx[TxBusy].own \/ tx[TxBusy].buf = None
     THEN /\ sem_lock' = sem_lock + 1 /\ tx_ack' = tx_ack + 1
          /\ etx' = "recv"
          /\ UNCHANGED txvars
     ELSE /\ TxBusy' = After(TxBusy, TxDescCount)
          /\ live' = live \ {tx[TxBusy].buf}
          /\ UNCHANGED <<tx, TxNext, sem_lock, tx_ack, etx>>
  /\ UNCHANGED <<rxvars, dma_tx, dma_rx, etxmb, erxmb, irq, tcpip, erx,
                 link_changed, frames, arrivals, wire>>

get_tx_qptr ==
  /\ etx = "reclaim"
  /\ IF tx[TxBusy].own \/ tx[TxBusy].buf = None
     THEN /\ sem_lock' = sem_lock + 1 /\ tx_ack' = tx_ack + 1
          /\ etx' = "recv"
          /\ UNCHANGED txvars
     ELSE /\ tx' = [tx EXCEPT ![TxBusy] = Empty]
          /\ TxBusy' = After(TxBusy, TxDescCount)
          /\ live' = live \ {tx[TxBusy].buf}
          /\ UNCHANGED <<TxNext, sem_lock, tx_ack, etx>>
  /\ UNCHANGED <<rxvars, dma_tx, dma_rx, etxmb, erxmb, irq, tcpip, erx,
                 link_changed, frames, arrivals, wire>>

-----------------------------------------------------------------------------
\* The DMA engine (external): a frame leaves, a frame arrives.

dma_transmit ==
  /\ tx[dma_tx].own
  /\ tx' = [tx EXCEPT ![dma_tx].own = FALSE]
  /\ wire' = tx[dma_tx].buf
  /\ dma_tx' = After(dma_tx, TxDescCount)
  /\ UNCHANGED <<TxNext, TxBusy, live, rxvars, dma_rx, sem_lock, tx_ack, etxmb,
                 erxmb, irq, tcpip, etx, erx, link_changed, frames, arrivals>>

dma_receive ==
  /\ arrivals < Arrivals
  /\ arrivals' = arrivals + 1
  /\ IF rx[dma_rx].own
     THEN /\ \E g \in BOOLEAN :
               rx' = [rx EXCEPT ![dma_rx].own = FALSE, ![dma_rx].good = g]
          /\ dma_rx' = After(dma_rx, RxDescCount)
          /\ irq' = TRUE
     ELSE UNCHANGED <<rx, dma_rx, irq>>
  /\ UNCHANGED <<txvars, RxNext, RxBusy, lost, dma_tx, sem_lock, tx_ack, etxmb,
                 erxmb, tcpip, etx, erx, link_changed, frames, wire>>

\* eth_rx_irq: a mail to erx, lost when the mailbox is full
eth_rx_irq ==
  /\ irq
  /\ irq' = FALSE
  /\ erxmb' = IF erxmb < MailCap THEN erxmb + 1 ELSE erxmb
  /\ UNCHANGED <<txvars, rxvars, dma_tx, dma_rx, sem_lock, tx_ack, etxmb,
                 tcpip, etx, erx, link_changed, frames, arrivals, wire>>

-----------------------------------------------------------------------------
\* The end of hw_eth_init_thread_entry: the link is up, and a mail for erx.
eth_device_linkchange ==
  /\ link_changed = None
  /\ link_changed' = TRUE
  /\ erxmb' = IF erxmb < MailCap THEN erxmb + 1 ELSE erxmb
  /\ UNCHANGED <<txvars, rxvars, dma_tx, dma_rx, sem_lock, tx_ack, etxmb, irq,
                 tcpip, etx, erx, frames, arrivals, wire>>

\* erx receives a mail; if the link changed it has tcpip_thread call
\* netif_set_link_up and waits for that.
eth_rx_thread_entry ==
  /\ erx = "recv" /\ erxmb > 0
  /\ erxmb' = erxmb - 1
  /\ erx' = IF link_changed = TRUE THEN "link" ELSE "rx"
  /\ link_changed' = IF link_changed = TRUE THEN FALSE ELSE link_changed
  /\ UNCHANGED <<txvars, rxvars, dma_tx, dma_rx, sem_lock, tx_ack, etxmb, irq,
                 tcpip, etx, frames, arrivals, wire>>

\* tcpip_thread serves erx between two frames of its own.
netifapi_netif_set_link_up ==
  /\ erx = "link" /\ tcpip = "run"
  /\ erx' = "rx"
  /\ UNCHANGED <<txvars, rxvars, dma_tx, dma_rx, sem_lock, tx_ack, etxmb,
                 erxmb, irq, tcpip, etx, link_changed, frames, arrivals, wire>>

\* erx calls rt_eth_rx until it returns no frame.
\* rt_eth_rx, between sem_lock and its release: synopGMAC_get_rx_qptr takes
\* the frame; the buffer goes back to the ring (synopGMAC_set_rx_qptr) or is
\* freed, unless there was no pbuf for a good frame: then nobody has it.
rt_eth_rx_KeepNext ==
  /\ erx = "rx" /\ sem_lock = 1
  /\ LET d == rx[RxBusy]
         cleared == [rx EXCEPT ![RxBusy] = Empty]
     IN  IF d.own \/ d.buf = None
         THEN erx' = "recv" /\ UNCHANGED rxvars
         ELSE /\ RxBusy' = After(RxBusy, RxDescCount)
              /\ \/ /\ d.good
                    /\ erx' = "recv"
                    /\ rx' = cleared /\ lost' = lost \cup {d.buf}
                    /\ RxNext' = After(RxNext, RxDescCount)
                 \/ /\ erx' = IF d.good THEN "rx" ELSE "recv"
                    /\ IF cleared[RxNext].buf = None
                       THEN /\ rx' = [cleared EXCEPT ![RxNext] = Owned(d.buf)]
                            /\ RxNext' = After(RxNext, RxDescCount)
                            /\ UNCHANGED lost
                       ELSE rx' = cleared /\ lost' = lost \cup {d.buf} /\ UNCHANGED RxNext
  /\ UNCHANGED <<txvars, dma_tx, dma_rx, sem_lock, tx_ack, etxmb, erxmb, irq,
                 tcpip, etx, link_changed, frames, arrivals, wire>>

rt_eth_rx ==
  /\ erx = "rx" /\ sem_lock = 1
  /\ LET d == rx[RxBusy]
         cleared == [rx EXCEPT ![RxBusy] = Empty]
     IN  IF d.own \/ d.buf = None
         THEN erx' = "recv" /\ UNCHANGED rxvars
         ELSE /\ RxBusy' = After(RxBusy, RxDescCount)
              /\ \/ /\ d.good
                    /\ erx' = "recv"
                    /\ rx' = cleared /\ lost' = lost \cup {d.buf}
                    /\ UNCHANGED RxNext
                 \/ /\ erx' = IF d.good THEN "rx" ELSE "recv"
                    /\ IF cleared[RxNext].buf = None
                       THEN /\ rx' = [cleared EXCEPT ![RxNext] = Owned(d.buf)]
                            /\ RxNext' = After(RxNext, RxDescCount)
                            /\ UNCHANGED lost
                       ELSE rx' = cleared /\ lost' = lost \cup {d.buf} /\ UNCHANGED RxNext
  /\ UNCHANGED <<txvars, dma_tx, dma_rx, sem_lock, tx_ack, etxmb, erxmb, irq,
                 tcpip, etx, link_changed, frames, arrivals, wire>>

-----------------------------------------------------------------------------
Etx == eth_tx_thread_entry \/ rt_eth_tx \/ set_tx_qptr \/ get_tx_qptr
Erx == eth_rx_thread_entry \/ rt_eth_rx

Next ==
  \/ ethernetif_linkoutput \/ linkoutput_acked \/ netifapi_netif_set_link_up
  \/ Etx \/ Erx
  \/ dma_transmit \/ dma_receive \/ eth_rx_irq \/ eth_device_linkchange

\* The threads and the interrupt handler run when they can, and tcpip_thread,
\* whose mailbox is a FIFO, serves erx although it has frames to send.  The DMA
\* engine and the network need not go on.
Spec ==
  /\ Init /\ [][Next]_vars
  /\ WF_vars(Etx) /\ WF_vars(Erx) /\ WF_vars(eth_rx_irq)
  /\ WF_vars(linkoutput_acked) /\ SF_vars(netifapi_netif_set_link_up)

-----------------------------------------------------------------------------
\* The descriptors from i on to j, in the order of the ring; a ring with i = j
\* is full or empty.
Span(i, j, count, full) ==
  IF i < j THEN i .. j - 1
  ELSE IF i = j THEN (IF full THEN 0 .. count - 1 ELSE {})
  ELSE (i .. count - 1) \cup (0 .. j - 1)

\* How far descriptor i is from descriptor j
Distance(j, i, count) == IF i >= j THEN i - j ELSE i + count - j

\* The descriptors in use are the ones from TxBusy to TxNext and hold the frames
\* in the order they were given in; the DMA engine owns the ones from its place
\* on.  So a buffer is freed exactly once, after it was sent and never while the
\* DMA engine may read it, and frames leave in order.
TxRing ==
  LET full == tx[TxBusy].buf # None
      used == Span(TxBusy, TxNext, TxDescCount, full)
  IN  /\ {i \in TxIndex : tx[i].buf # None} = used
      /\ {i \in TxIndex : tx[i].own} = Span(dma_tx, TxNext, TxDescCount, tx[dma_tx].own)
      /\ \A i, j \in used :
           Distance(TxBusy, i, TxDescCount) < Distance(TxBusy, j, TxDescCount)
             => tx[i].buf < tx[j].buf
      /\ live = {tx[i].buf : i \in used}
      /\ \A i \in TxIndex : tx[i].own => wire < tx[i].buf

\* A receive buffer is in one descriptor or lost, and lost only when a pbuf
\* could not be allocated; the descriptors without a buffer are the ones from
\* RxNext to RxBusy, as many as buffers are lost, and the DMA engine owns the
\* ones from its place to RxNext.  So rt_eth_rx always finds an empty descriptor
\* to give the buffer back to, even after the ring has drifted.
RxRing ==
  LET held == {i \in RxIndex : rx[i].buf # None}
  IN  /\ Cardinality(held) + Cardinality(lost) = RxDescCount
      /\ {rx[i].buf : i \in held} \cap lost = {}
      /\ Cardinality({rx[i].buf : i \in held}) = Cardinality(held)
      /\ RxIndex \ held = Span(RxNext, RxBusy, RxDescCount, held = {})
      /\ {i \in RxIndex : rx[i].own} = Span(dma_rx, RxNext, RxDescCount, rx[dma_rx].own)

\* sem_lock was not given back: rt_eth_tx has returned with it.
LockLost == sem_lock = 0 /\ etx = "recv"

\* Nobody waits for ever: each frame that tcpip_thread hands to etx is
\* acknowledged, sent, dropped or refused, and erx gets its answer from
\* tcpip_thread, unless a call of rt_eth_tx returned an error and kept sem_lock.
NobodyStarves ==
  /\ tcpip = "ack" ~> tcpip = "run" \/ LockLost
  /\ erx = "link" ~> erx # "link" \/ LockLost

=============================================================================
