-------------------------------- MODULE Tftp --------------------------------
(***************************************************************************)
(* The TFTP client of os/filesys/tftplib.c over a network that loses,      *)
(* duplicates, delays and reorders packets, with the thread that uses it:  *)
(*   "update"  tftpOpenEntry of os/filesys/filesys.c, which reads a file   *)
(*             and programs it into flash,                                 *)
(*   "load"    the loaders, which read and seek, and close after an error, *)
(*   "write"   a thread that writes a file.                                *)
(* A byte is its position in the file, from 1.  The server is external: it *)
(* opens a session, with a port of its own, for every request it receives, *)
(* so a repeated request may leave two sessions serving one transfer.      *)
(*                                                                         *)
(* A packet in net may be received at any time or never: that is delay,    *)
(* reordering and loss.  A receive that leaves the packet in net           *)
(* duplicates it.  One thread uses the client.                             *)
(* A definition Op_Word is Op with a plausible mistake, as in Kernel.      *)
(***************************************************************************)
EXTENDS Integers, Sequences, FiniteSetsExt

CONSTANTS SEGSIZE,       \* bytes of a block, 512 in the code
          BlockRange,    \* block numbers are u_short: 2^16 values
          MaxRexmt,      \* timeouts a tftprrq bears, 100 in the code
          Lengths,       \* lengths of the file
          Reads, Seeks,  \* sizes of a read or write, and offsets of a seek
          Session,       \* bound: the server's sessions, as ports from 1
          Extra          \* bound: duplicates and server retransmissions

ASSUME TftpAssumption ==
  /\ SEGSIZE \in Nat \ {0} /\ BlockRange \in Nat \ {0} /\ MaxRexmt \in Nat
  /\ Lengths \subseteq Nat /\ Reads \subseteq Nat \ {0} /\ Seeks \subseteq Nat
  /\ Session \subseteq Nat \ {0} /\ Extra \in Nat

VARIABLES user, len,     \* who uses the file, and its length
          pc,            \* where that thread is
          caller,        \* the function that called tftprrq or tftpwrq
          tfp,           \* struct tftpfile
          req, rexmt,    \* the packet to send, and the timeouts so far
          nb,            \* bytes still to read or write
          at, dst,       \* where a read began, and the bytes it stored
          image,         \* recvBuf of tftpOpenEntry
          failed,        \* a call has returned an error
          net,           \* packets on the way
          server,        \* the server's sessions
          extra          \* duplicates and retransmissions left

vars == <<user, len, pc, caller, tfp, req, rexmt, nb, at, dst, image, failed,
          net, server, extra>>
local == <<user, len, image>>
reading == <<nb, at, dst>>

Bytes(i, j) == [n \in 1 .. j - i |-> i + n]
Reader == user \in {"update", "load"}

Packet(kind, block, data) == [kind |-> kind, block |-> block, data |-> data]
NoPacket == Packet("none", 0, <<>>)

Init ==
  /\ user \in {"update", "load", "write"} /\ len \in Lengths
  /\ pc = "start" /\ caller = "open" /\ req = NoPacket /\ rexmt = 0
  /\ tfp = [block |-> 0, port |-> 0, eof |-> FALSE, start |-> 0, end |-> 0,
            foffs |-> 0, buf |-> <<>>]
  /\ nb = 0 /\ at = 0 /\ dst = <<>> /\ image = <<>> /\ failed = FALSE
  /\ net = {} /\ extra = Extra
  /\ server = [s \in Session |-> [st |-> "free", block |-> 0, stored |-> <<>>]]

-----------------------------------------------------------------------------
\* A step sends by adding to net; port 0 is the port of the service.
Sent(p, to) == [packet |-> p, to |-> to, from |-> 0]
Answer(p, s) == [packet |-> p, to |-> -1, from |-> s]

tftpnxtblk(f) == [f EXCEPT !.block = (@ + 1) % BlockRange]

\* tftprrq or tftpwrq is called by c to send p.
Request(c, p) ==
  /\ pc' = "send" /\ caller' = c /\ req' = p /\ rexmt' = 0

Goes(where, f) == pc' = where /\ tfp' = f /\ UNCHANGED <<caller, req, rexmt>>

\* What its callers do with an error: tftpopen gives the file up, tftpclose
\* ignores it, a read or write fails.
Error_Ignored(f) == Goes(IF caller \in {"read", "write"} THEN caller ELSE "end", f)
Error(f) == Goes(IF caller \in {"read", "write"} THEN "failed" ELSE "end", f)

\* A full block was written: tftpwrite starts the next one.
NextBlock_KeepEnd(f) == Goes("write", f)
NextBlock(f) == Goes("write", [f EXCEPT !.end = 0, !.buf = <<>>])

\* tftprrq or tftpwrq returns n to its caller; f is the file it leaves.
Return(n, f) ==
  /\ failed' = (failed \/ n < 0)
  /\ \/ n < 0 /\ Error(f)
     \/ /\ n >= 0 /\ caller = "open"
        /\ Goes("user", IF Reader THEN [f EXCEPT !.end = f.start + n] ELSE f)
     \/ /\ n >= 0 /\ caller = "read"
        /\ Goes("read", [f EXCEPT !.start = f.end, !.end = f.end + n])
     \/ n >= 0 /\ caller = "write" /\ NextBlock(f)
     \/ /\ n >= 0 /\ caller = "close" /\ f.end = SEGSIZE
        /\ tfp' = tftpnxtblk(f) /\ Request("last", Packet("DATA", tfp'.block, <<>>))
     \/ n >= 0 /\ caller = "close" /\ f.end < SEGSIZE /\ Goes("end", f)
     \/ n >= 0 /\ caller = "last" /\ Goes("end", f)

-----------------------------------------------------------------------------
\* tftprrq and tftpwrq, one turn of their loop in three steps.

\* sendto; at the end of the file the acknowledgement is not waited for.
sendto ==
  /\ pc = "send"
  /\ net' = net \cup {Sent(req, tfp.port)}
  /\ IF Reader /\ tfp.eof THEN Return(0, tfp)
     ELSE pc' = "select" /\ UNCHANGED <<caller, tfp, req, rexmt, failed>>
  /\ UNCHANGED <<local, reading, server, extra>>

\* sendto, select or recvfrom fails.
SocketFails ==
  /\ pc \in {"send", "select"}
  /\ Return(-1, tfp)
  /\ UNCHANGED <<local, reading, net, server, extra>>

\* select times out.  Only tftprrq gives up: the limit of tftpwrq is 2^31 - 1.
Timeout_NoLimit ==
  /\ pc = "select"
  /\ pc' = "send"
  /\ UNCHANGED <<caller, tfp, req, rexmt, failed, local, reading, net, server, extra>>

Timeout ==
  /\ pc = "select"
  /\ \/ Reader /\ rexmt + 1 > MaxRexmt /\ Return(-2, tfp)
     \/ /\ Reader => rexmt + 1 <= MaxRexmt
        /\ pc' = "send" /\ rexmt' = IF Reader THEN rexmt + 1 ELSE 0
        /\ UNCHANGED <<caller, tfp, req, failed>>
  /\ UNCHANGED <<local, reading, net, server, extra>>

\* A received packet leaves net, or a duplicate stays behind.
Consume(m) ==
  \/ net' = net \ {m} /\ UNCHANGED extra
  \/ extra > 0 /\ extra' = extra - 1 /\ UNCHANGED net

\* The turn ends without a result: the request is sent again.
Again(f) == Goes("send", f) /\ UNCHANGED failed

\* The packet that answers the request, for tftprrq and tftpwrq.
Wanted == IF Reader THEN "DATA" ELSE "ACK"

\* synchnet, called for another block, tests a variable that nobody sets: ioctl
\* is the one of filesys.c, which does not write it.  If it happens to be 0
\* synchnet returns at once, else never.
Synch(f) == Goes("synch", f) /\ UNCHANGED failed

\* What is done with packet p once its sender's port is accepted.
Take_Previous(p, f) ==
  \/ p.kind = "ERROR" /\ Return(-1, f)
  \/ /\ p.kind = Wanted /\ p.block \in {f.block, f.block - 1}
     /\ IF Reader THEN Return(Len(p.data), [f EXCEPT !.eof = Len(p.data) < SEGSIZE])
        ELSE Return(Len(req.data), f)
  \/ p.kind = Wanted /\ p.block \notin {f.block, f.block - 1} /\ Return(-1, f)

Take(p, f) ==
  \/ p.kind = "ERROR" /\ Return(-1, f)
  \/ /\ p.kind = Wanted /\ p.block = f.block
     /\ IF Reader THEN Return(Len(p.data), [f EXCEPT !.eof = Len(p.data) < SEGSIZE])
        ELSE Return(Len(req.data), f)
  \/ p.kind = Wanted /\ p.block # f.block /\ Synch(f)
  \/ p.kind = Wanted /\ p.block = f.block - 1 /\ Again(f)
  \/ p.kind = Wanted /\ p.block \notin {f.block, f.block - 1} /\ Return(-1, f)

\* recvfrom: tftprrq receives into the buffer of the file.  The first answer
\* tells the server's port; an answer of another port is passed over.
recvfrom ==
  /\ pc = "select"
  /\ \E m \in net :
       LET p == m.packet
           first == IF Reader THEN tfp.block <= 1 ELSE tfp.block = 0
           f == [tfp EXCEPT !.buf = IF Reader THEN p.data ELSE @,
                            !.port = IF first THEN m.from ELSE @]
       IN  /\ m.to = -1 /\ Consume(m)
           /\ IF f.port = m.from THEN Take(p, f) ELSE Again(f)
  /\ UNCHANGED <<local, reading, server>>

\* The loop of synchnet receives and throws away.
synchnet ==
  /\ pc = "synch"
  /\ \E m \in net : m.to = -1 /\ Consume(m)
  /\ UNCHANGED <<pc, caller, tfp, req, rexmt, failed, local, reading, server>>

-----------------------------------------------------------------------------
\* The file operations.

tftpopen ==
  /\ pc = "start"
  /\ tfp' = [tfp EXCEPT !.block = IF Reader THEN 1 ELSE 0]
  /\ Request("open", Packet(IF Reader THEN "RRQ" ELSE "WRQ", 0, <<>>))
  /\ UNCHANGED <<local, reading, failed, net, server, extra>>

\* A read of n bytes begins.
tftpread(n) ==
  /\ pc = "user" /\ Reader
  /\ pc' = "read" /\ nb' = n /\ at' = tfp.foffs /\ dst' = <<>>
  /\ UNCHANGED <<caller, tfp, req, rexmt, failed, local, net, server, extra>>

\* One turn of its loop: copy what the buffer has, and when it is used up
\* acknowledge it and ask for the next block.
Copy ==
  LET n == IF tfp.foffs \in tfp.start .. tfp.end - 1 THEN Min({tfp.end - tfp.foffs, nb}) ELSE 0
      f == [tfp EXCEPT !.foffs = @ + n]
      from == tfp.foffs - tfp.start
  IN  /\ pc = "read" /\ nb # 0 /\ tfp.start < tfp.end
      /\ nb' = nb - n /\ dst' = dst \o SubSeq(tfp.buf, from + 1, from + n)
      /\ \/ /\ f.foffs >= f.end /\ tfp' = tftpnxtblk(f)
            /\ Request("read", Packet("ACK", f.block, <<>>))
         \/ f.foffs < f.end /\ Goes("read", f)
      /\ UNCHANGED <<local, at, failed, net, server, extra>>

\* The read returns.
ReadReturns ==
  /\ pc = "read" /\ (nb = 0 \/ tfp.start >= tfp.end)
  /\ pc' = IF user = "update" THEN "got" ELSE "user"
  /\ UNCHANGED <<caller, tfp, req, rexmt, failed, local, reading, net, server, extra>>

\* A seek back beyond the buffer fails and changes nothing.
tftplseek(offs) ==
  /\ pc = "user" /\ user = "load" /\ offs >= tfp.start
  /\ tfp' = [tfp EXCEPT !.foffs = offs]
  /\ UNCHANGED <<pc, caller, req, rexmt, failed, local, reading, net, server, extra>>

\* A write of n bytes begins, of the ones the file still lacks.
tftpwrite(n) ==
  /\ pc = "user" /\ user = "write" /\ tfp.foffs + n <= len
  /\ pc' = "write" /\ nb' = n
  /\ UNCHANGED <<caller, tfp, req, rexmt, at, dst, failed, local, net, server, extra>>

\* One turn of its loop: fill the buffer, and send it when it is full.
Fill ==
  LET n == Min({SEGSIZE - tfp.end, nb})
      f == [tfp EXCEPT !.end = @ + n, !.foffs = @ + n,
                       !.buf = @ \o Bytes(tfp.foffs, tfp.foffs + n)]
  IN  /\ pc = "write" /\ nb # 0 /\ nb' = nb - n
      /\ \/ /\ f.end = SEGSIZE /\ tfp' = tftpnxtblk(f)
            /\ Request("write", Packet("DATA", tfp'.block, f.buf))
         \/ f.end < SEGSIZE /\ Goes("write", f)
      /\ UNCHANGED <<local, at, dst, failed, net, server, extra>>

WriteReturns ==
  /\ pc = "write" /\ nb = 0 /\ pc' = "user"
  /\ UNCHANGED <<caller, tfp, req, rexmt, failed, local, reading, net, server, extra>>

\* tftpclose: a writer sends the rest, a reader that is not at the end of the
\* file an error, which stops the server.
tftpclose(done) ==
  /\ \/ /\ ~ Reader /\ tfp' = tftpnxtblk(tfp)
        /\ Request("close", Packet("DATA", tfp'.block, SubSeq(tfp.buf, 1, tfp.end)))
        /\ UNCHANGED net
     \/ /\ Reader /\ Goes(done, tfp)
        /\ net' = IF tfp.foffs < tfp.end \/ ~ tfp.eof
                  THEN net \cup {Sent(Packet("ERROR", 0, <<>>), tfp.port)} ELSE net
  /\ UNCHANGED <<local, reading, failed, server, extra>>

\* The users close after an error; loaders and writers also when they please.
Close == (pc = "failed" \/ (pc = "user" /\ user # "update")) /\ tftpclose("end")

\* tftpOpenEntry after a read: an empty one ends the file, which is closed
\* and programmed into flash.
tftpOpenEntry ==
  \/ pc = "got" /\ dst = <<>> /\ tftpclose("flashed")
  \/ /\ pc = "got" /\ dst # <<>> /\ pc' = "user" /\ image' = image \o dst
     /\ UNCHANGED <<caller, tfp, req, rexmt, failed, user, len, reading, net, server, extra>>

-----------------------------------------------------------------------------
\* The server.

Block(b) == Bytes((b - 1) * SEGSIZE, Min({b * SEGSIZE, len}))
Data(b) == Packet("DATA", b % BlockRange, Block(b))
Ack(b) == Packet("ACK", b % BlockRange, <<>>)

\* Session s receives m and answers with the packets of out.
Serve(s, m, session, out) ==
  /\ m \in net /\ net' = (net \ {m}) \cup {Answer(p, s) : p \in out}
  /\ server' = [server EXCEPT ![s] = session]
  /\ UNCHANGED <<pc, caller, tfp, req, rexmt, failed, local, reading, extra>>

\* A request opens a session, or is refused.
Open(s) ==
  /\ server[s].st = "free"
  /\ \E m \in net :
       /\ m.to = 0
       /\ \/ m.packet.kind = "RRQ"
             /\ Serve(s, m, [server[s] EXCEPT !.st = "open", !.block = 1], {Data(1)})
          \/ m.packet.kind = "WRQ" /\ Serve(s, m, [server[s] EXCEPT !.st = "open"], {Ack(0)})
          \/ Serve(s, m, [server[s] EXCEPT !.st = "done"], {Packet("ERROR", 0, <<>>)})

\* The acknowledgement of the last block sent, the next block written, a
\* repeated block, or an error; anything else is passed over.
Serves(s) ==
  LET b == server[s].block
      more == [server[s] EXCEPT !.block = b + 1]
  IN  \E m \in net : LET p == m.packet IN
       /\ m.to = s
       /\ \/ /\ p.kind = "ACK" /\ p.block = b % BlockRange /\ server[s].st = "open"
             /\ IF Len(Block(b)) < SEGSIZE THEN Serve(s, m, [server[s] EXCEPT !.st = "done"], {})
                ELSE Serve(s, m, more, {Data(b + 1)})
          \/ /\ p.kind = "DATA" /\ p.block = (b + 1) % BlockRange /\ server[s].st = "open"
             /\ Serve(s, m, [more EXCEPT !.stored = @ \o p.data,
                               !.st = IF Len(p.data) < SEGSIZE THEN "done" ELSE @], {Ack(b + 1)})
          \/ p.kind = "DATA" /\ p.block = b % BlockRange /\ Serve(s, m, server[s], {Ack(b)})
          \/ p.kind = "ERROR" /\ Serve(s, m, [server[s] EXCEPT !.st = "done"], {})

\* A session repeats what it sent last.
Repeat(s) ==
  /\ server[s].st = "open" /\ extra > 0
  /\ net' = net \cup {Answer(IF Reader THEN Data(server[s].block) ELSE Ack(server[s].block), s)}
  /\ extra' = extra - 1
  /\ UNCHANGED <<pc, caller, tfp, req, rexmt, failed, local, reading, server>>

-----------------------------------------------------------------------------
\* What the client's thread does without a choice of its own.
Step ==
  \/ tftpopen \/ sendto \/ Timeout \/ recvfrom \/ synchnet \/ Copy \/ ReadReturns
  \/ Fill \/ WriteReturns \/ tftpOpenEntry
  \/ user = "update" /\ (Close \/ \E n \in Reads : tftpread(n))

Next ==
  \/ Step \/ SocketFails \/ Close
  \/ \E n \in Reads : tftpread(n) \/ tftpwrite(n)
  \/ \E offs \in Seeks : tftplseek(offs)
  \/ \E s \in Session : Open(s) \/ Serves(s) \/ Repeat(s)

\* The client's thread runs; nothing is assumed of network and server.
Spec == Init /\ [][Next]_vars /\ WF_vars(Step)

-----------------------------------------------------------------------------
\* What a read stores are the bytes of the file from the offset on, and a
\* read that returns fewer than it was asked for has met the end of the file,
\* whatever was lost, repeated, late or sent by a second session.
ReadExact ==
  /\ dst = Bytes(at, at + Len(dst))
  /\ Reader /\ pc \in {"user", "got"} /\ nb # 0 => tfp.foffs >= len

\* tftpOpenEntry programs the whole file into flash, or nothing.
FlashedWhole == pc = "flashed" => image = Bytes(0, len)

\* As long as no call failed, the session a writer talks to holds what was
\* written, without holes or repetitions; after tftpclose it holds all of it.
StoredExact ==
  user = "write" /\ ~ failed /\ tfp.port # 0 =>
    LET stored == server[tfp.port].stored
    IN  /\ stored = Bytes(0, Len(stored)) /\ Len(stored) <= tfp.foffs
        /\ pc = "end" => Len(stored) = tfp.foffs /\ server[tfp.port].st = "done"

\* An update ends, with an error if need be, even when the server is silent:
\* what a timeout counts is not undone by late, repeated or foreign packets.
\* The one place that may hold it for ever is synchnet, after a block with
\* another number than the one that was asked for.
UpdateEnds == user = "update" ~> pc \in {"end", "flashed", "synch"}

=============================================================================
