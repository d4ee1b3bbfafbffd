----------------------------- MODULE TftpProofs -----------------------------
(***************************************************************************)
(* The TFTP client of os/filesys/tftplib.c reads, programs and writes the  *)
(* bytes of the file, for every network that loses, repeats, delays and    *)
(* reorders packets, any number of sessions of the server and every file   *)
(* that does not use up the block numbers.  A longer one is out of reach:  *)
(* a block that is late by BlockRange blocks passes for the current one.   *)
(***************************************************************************)
EXTENDS Tftp, TLAPS

\* The files have fewer blocks than there are block numbers: 32 MB.
Unwrapped == \A l \in Lengths : l < (BlockRange - 2) * SEGSIZE

\* The bytes of b blocks.
Off(b) == b * SEGSIZE

\* The file has a block b: the last one is short, and may be empty.
Valid(b) == b \in Nat /\ 1 <= b /\ Off(b - 1) <= len

\* The end of block b.
Upto(b) == IF Off(b) <= len THEN Off(b) ELSE len

Asking == pc \in {"send", "select", "synch"}
InRead == pc = "read" \/ (Asking /\ caller = "read")

\* The client's file and its other state have their types.
IsFile(f) ==
  /\ f = [block |-> f.block, port |-> f.port, eof |-> f.eof, start |-> f.start,
          end |-> f.end, foffs |-> f.foffs, buf |-> f.buf]
  /\ f.block \in Nat /\ f.port \in Session \cup {0} /\ f.eof \in BOOLEAN
  /\ f.start \in Nat /\ f.end \in Nat /\ f.foffs \in Nat

Types ==
  /\ IsFile(tfp)
  /\ nb \in Nat /\ at \in Nat /\ dst \in Seq(Nat) /\ image \in Seq(Nat)
  /\ failed \in BOOLEAN

Sessions == server \in [Session -> [st : {"free", "open", "done"}, block : Nat, stored : Seq(Nat)]]

-----------------------------------------------------------------------------
\* A reader.

\* The client's packets ask for a file and acknowledge; the sessions' packets
\* hold blocks of the file.
ReaderNet ==
  /\ Sessions
  /\ \A m \in net :
       \/ m.to \in Session \cup {0} /\ m.packet.kind \in {"RRQ", "ACK", "ERROR"}
       \/ /\ m.to = -1 /\ m.from \in Session
          /\ m.packet.kind = "ERROR" \/ \E b \in 1 .. BlockRange : Valid(b) /\ m.packet = Data(b)
  /\ \A s \in Session : server[s].st = "open" => Valid(server[s].block)

\* Where no request is pending, the buffer holds a block or the file is over.
ReaderHolds ==
  pc \in {"user", "read", "got"} =>
    /\ tfp.start <= tfp.foffs
    /\ \/ /\ Valid(tfp.block)
          /\ tfp.start = Off(tfp.block - 1) /\ tfp.end = Upto(tfp.block)
          /\ tfp.buf = Block(tfp.block) /\ tfp.eof = (len < Off(tfp.block))
       \/ tfp.start = len /\ tfp.end = len

\* A pending request is for the block that follows the bytes copied so far.
ReaderAsks ==
  Asking =>
    /\ req.kind \in {"RRQ", "ACK"}
    /\ pc = "select" => ~ tfp.eof
    /\ \/ caller = "open" /\ tfp.block = 1 /\ tfp.start = 0 /\ tfp.foffs = 0 /\ ~ tfp.eof
       \/ /\ caller = "read" /\ tfp.end <= tfp.foffs
          /\ \/ tfp.eof /\ tfp.end = len
             \/ ~ tfp.eof /\ Valid(tfp.block) /\ tfp.end = Off(tfp.block - 1)

ReaderGets ==
  /\ dst = Bytes(at, at + Len(dst))
  /\ InRead \/ pc = "got" => tfp.foffs = at + Len(dst) /\ 0 < nb + Len(dst)
  /\ pc \in {"user", "got"} /\ nb # 0 => tfp.end <= tfp.start

\* tftpOpenEntry has the file up to the offset.
Updates ==
  user = "update" =>
    /\ image = Bytes(0, Len(image))
    /\ pc \in {"start", "user"} \/ (Asking /\ caller = "open") => tfp.foffs = Len(image)
    /\ InRead \/ pc = "got" => at = Len(image)
    /\ pc \in {"user", "read", "got"} \/ (Asking /\ caller = "read") => tfp.foffs <= tfp.end
    /\ pc = "flashed" => image = Bytes(0, len)

ReaderStart ==
  /\ pc = "start" => /\ tfp.start = 0 /\ tfp.foffs = 0 /\ ~ tfp.eof /\ nb = 0
  /\ Asking /\ caller = "open" => nb = 0
  /\ pc \in {"got", "flashed"} => user = "update"
  /\ pc # "write"

ReaderClient ==
  Types /\ ReaderHolds /\ ReaderAsks /\ ReaderGets /\ Updates /\ ReaderStart

ReaderInv == Reader => ReaderClient /\ ReaderNet

-----------------------------------------------------------------------------
\* A writer, as long as no call failed.

\* The session it talks to, and whether that has n bytes in b blocks.
Peer == server[tfp.port]
Has(b, n) == Peer.block = b /\ Peer.stored = Bytes(0, n)

\* The client's packets ask to write and hold blocks, the one with the highest
\* number the block it waits for; the sessions' packets acknowledge.
WriterPacket(m) ==
  \/ m.to = 0 /\ m.packet.kind = "WRQ"
  \/ /\ m.to = tfp.port /\ tfp.port # 0 /\ m.packet.kind = "DATA"
     /\ m.packet.block \in 1 .. tfp.block
     /\ m.packet.block = tfp.block => m.packet = req
  \/ m.to = -1 /\ m.from \in Session /\ m.packet.kind = "ERROR"
  \/ /\ m.to = -1 /\ m.from \in Session
     /\ server[m.from].st = "open" \/ 1 <= server[m.from].block
     /\ \E b \in 0 .. server[m.from].block : m.packet = Ack(b)

WriterNet == \A m \in net : WriterPacket(m)

\* Only the session it talks to gets data.
WriterRest ==
  \A s \in Session : s # tfp.port => server[s].block = 0 /\ server[s].stored = <<>>

\* tftpopen has not been called, or its request is not answered.
Fresh ==
  /\ tfp.port = 0 /\ tfp.block = 0 /\ tfp.end = 0 /\ tfp.buf = <<>> /\ tfp.foffs = 0
Unopened ==
  pc = "start" /\ net = {} /\ (\A s \in Session : server[s].st = "free") /\ Fresh
Opening == Asking /\ caller = "open" /\ req = Packet("WRQ", 0, <<>>) /\ Fresh

\* The session has all full blocks, the buffer the rest.
Filling ==
  /\ pc \in {"user", "write"} /\ tfp.port # 0
  /\ tfp.end < SEGSIZE /\ tfp.foffs = Off(tfp.block) + tfp.end
  /\ tfp.buf = Bytes(Off(tfp.block), tfp.foffs)
  /\ tfp.foffs <= len /\ (pc = "write" => tfp.foffs + nb <= len)
  /\ Has(tfp.block, Off(tfp.block)) /\ Peer.st = "open"

\* A block is sent, full or by tftpclose; the session has it or not.
Sending ==
  /\ Asking /\ tfp.port # 0 /\ 1 <= tfp.block
  /\ \/ caller = "write" /\ tfp.foffs = Off(tfp.block) /\ tfp.foffs + nb <= len
     \/ caller = "close" /\ tfp.foffs < Off(tfp.block) /\ tfp.foffs <= len
  /\ Off(tfp.block - 1) <= tfp.foffs /\ tfp.end = tfp.foffs - Off(tfp.block - 1)
  /\ req = Packet("DATA", tfp.block, Bytes(Off(tfp.block - 1), tfp.foffs))
  /\ \/ Has(tfp.block - 1, Off(tfp.block - 1)) /\ Peer.st = "open"
     \/ /\ Has(tfp.block, tfp.foffs)
        /\ Peer.st = IF caller = "close" THEN "done" ELSE "open"

Stored == pc = "end" /\ tfp.port # 0 /\ Has(tfp.block, tfp.foffs) /\ Peer.st = "done"

WriterAt == Unopened \/ Opening \/ Filling \/ Sending \/ Stored

WriterState == Types /\ Sessions /\ WriterNet /\ WriterRest /\ WriterAt

\* A writer reads nothing.
WriterReads ==
  /\ dst = <<>> /\ at = 0 /\ failed \in BOOLEAN
  /\ caller # "read" /\ pc \notin {"read", "got", "flashed"}

WriterInv == user = "write" => WriterReads /\ (failed \/ WriterState)

TftpInv ==
  /\ user \in {"update", "load", "write"} /\ len \in Lengths
  /\ ReaderInv /\ WriterInv

-----------------------------------------------------------------------------
\* Blocks and bytes.

\* The offset of a block grows by SEGSIZE with the block number.
LEMMA OffFacts ==
  /\ SEGSIZE \in Nat /\ 0 < SEGSIZE /\ Off(0) = 0
  /\ \A b \in Nat : Off(b) \in Nat /\ Off(b + 1) = Off(b) + SEGSIZE
  /\ \A a, b \in Nat : a <= b => Off(a) <= Off(b)
<1>1. SEGSIZE \in Nat /\ 0 < SEGSIZE
  BY TftpAssumption
<1>2. \A b \in Nat : Off(b) \in Nat /\ Off(b + 1) = Off(b) + SEGSIZE
  BY <1>1 DEF Off
<1>3. ASSUME NEW a \in Nat, NEW b \in Nat, a <= b PROVE Off(a) <= Off(b)
  <2>1. PICK d \in Nat : b = a + d
    BY <1>3
  <2>2. d * SEGSIZE \in Nat /\ (a + d) * SEGSIZE = a * SEGSIZE + d * SEGSIZE
        /\ a * SEGSIZE \in Nat
    BY <1>1
  <2> QED BY <2>1, <2>2 DEF Off
<1>4. Off(0) = 0
  BY <1>1 DEF Off
<1> QED BY <1>1, <1>2, <1>3, <1>4

\* The offset of the block that follows block c.
LEMMA OffNext ==
  ASSUME NEW c \in Nat, NEW b, b = c + 1
  PROVE  /\ Off(c) \in Nat /\ Off(b) \in Nat /\ Off(b) = Off(c) + SEGSIZE
         /\ SEGSIZE \in Nat /\ 0 < SEGSIZE /\ b \in Nat /\ b - 1 = c
<1>1. SEGSIZE \in Nat /\ 0 < SEGSIZE
  BY TftpAssumption
<1>2. Off(c) \in Nat /\ Off(c + 1) = Off(c) + SEGSIZE
  BY OffFacts
<1> QED BY <1>1, <1>2

\* The number of a block of the file, and the one behind it, are not wrapped.
LEMMA Numbered ==
  ASSUME Unwrapped, len \in Lengths, NEW b \in Nat, Off(b) <= len
  PROVE  b + 2 < BlockRange /\ b % BlockRange = b /\ (b + 1) % BlockRange = b + 1
<1>1. BlockRange \in Nat /\ 0 < BlockRange /\ SEGSIZE \in Nat /\ len \in Nat
  BY TftpAssumption
<1>2. b * SEGSIZE < (BlockRange - 2) * SEGSIZE
  <2>1. PICK x \in Int : x = (BlockRange - 2) * SEGSIZE
    BY <1>1
  <2>2. PICK y \in Int : y = b * SEGSIZE
    BY <1>1
  <2>3. len < x /\ y <= len
    BY <2>1, <2>2 DEF Unwrapped, Off
  <2> QED BY <1>1, <2>1, <2>2, <2>3
<1>3. b + 2 < BlockRange
  <2>1. SUFFICES ASSUME b >= BlockRange - 2 PROVE FALSE
    BY <1>1
  <2>2. PICK d \in Nat : b = (BlockRange - 2) + d
    BY <1>1, <2>1
  <2>3. d * SEGSIZE \in Nat /\ b * SEGSIZE = (BlockRange - 2) * SEGSIZE + d * SEGSIZE
        /\ (BlockRange - 2) * SEGSIZE \in Int /\ b * SEGSIZE \in Int
    BY <1>1, <2>2
  <2> QED BY <1>2, <2>3
<1> QED BY <1>1, <1>3

\* The smaller of two numbers.
LEMMA MinTwo ==
  ASSUME NEW a \in Nat, NEW b \in Nat
  PROVE  Min({a, b}) = IF a <= b THEN a ELSE b
<1>1. \E x \in {a, b} : \A y \in {a, b} : x =< y
  OBVIOUS
<1>2. Min({a, b}) \in {a, b} /\ \A y \in {a, b} : Min({a, b}) =< y
  BY <1>1 DEF Min
<1> QED BY <1>2

\* The bytes of the file from offset i up to j.
LEMMA BytesFacts ==
  ASSUME NEW i \in Nat, NEW j \in Nat, i <= j
  PROVE  /\ Bytes(i, j) \in Seq(Nat) /\ Len(Bytes(i, j)) = j - i
         /\ \A n \in 1 .. j - i : Bytes(i, j)[n] = i + n
<1>1. j - i \in Nat
  OBVIOUS
<1> QED BY <1>1 DEF Bytes

\* There are none from i up to i.
LEMMA BytesEmpty ==
  ASSUME NEW i \in Nat
  PROVE  Bytes(i, i) = <<>>
BY BytesFacts

\* Two sequences of bytes are equal when their bytes are.
LEMMA SameBytes ==
  ASSUME NEW s \in Seq(Nat), NEW t \in Seq(Nat), Len(s) = Len(t),
         \A i \in 1 .. Len(s) : s[i] = t[i]
  PROVE  s = t
  OBVIOUS

\* Two adjacent runs of bytes make one.
LEMMA BytesJoin ==
  ASSUME NEW i \in Nat, NEW j \in Nat, NEW k \in Nat, i <= j, j <= k
  PROVE  Bytes(i, j) \o Bytes(j, k) = Bytes(i, k)
<1>1. PICK s \in Seq(Nat) : s = Bytes(i, j) /\ Len(s) = j - i /\ \A n \in 1 .. j - i : s[n] = i + n
  BY BytesFacts
<1>2. PICK t \in Seq(Nat) : t = Bytes(j, k) /\ Len(t) = k - j /\ \A n \in 1 .. k - j : t[n] = j + n
  BY BytesFacts
<1>3. PICK u \in Seq(Nat) : u = Bytes(i, k) /\ Len(u) = k - i /\ \A n \in 1 .. k - i : u[n] = i + n
  <2>1. i <= k
    OBVIOUS
  <2> QED BY <2>1, BytesFacts
<1>4. /\ s \o t \in Seq(Nat) /\ Len(s \o t) = k - i
      /\ \A n \in 1 .. k - i : (s \o t)[n] = IF n <= j - i THEN s[n] ELSE t[n - (j - i)]
  BY <1>1, <1>2, SMTT(60)
<1>5. ASSUME NEW n \in 1 .. k - i PROVE (s \o t)[n] = u[n]
  <2>1. CASE n <= j - i
    BY <2>1, <1>1, <1>3, <1>4
  <2>2. CASE ~ (n <= j - i)
    <3>1. PICK m \in 1 .. k - j : m = n - (j - i)
      BY <2>2
    <3>2. t[m] = j + m /\ j + m = i + n
      BY <1>2, <3>1
    <3> QED BY <2>2, <3>1, <3>2, <1>3, <1>4
  <2> QED BY <2>1, <2>2
<1>6. s \o t = u
  <2>1. PICK w \in Seq(Nat) : w = s \o t /\ Len(w) = k - i
    BY <1>4
  <2>2. Len(w) = Len(u) /\ \A n \in 1 .. Len(w) : w[n] = u[n]
    BY <1>3, <1>5, <2>1
  <2>3. w = u
    BY <2>2, SameBytes
  <2> QED BY <2>1, <2>3
<1> QED BY <1>1, <1>2, <1>3, <1>6

\* A part of a run of bytes is a run of bytes.
LEMMA BytesCut ==
  ASSUME NEW i \in Nat, NEW j \in Nat, NEW a \in Nat, NEW n \in Nat, i + a + n <= j
  PROVE  SubSeq(Bytes(i, j), a + 1, a + n) = Bytes(i + a, i + a + n)
<1>1. PICK s \in Seq(Nat) : s = Bytes(i, j) /\ Len(s) = j - i /\ \A m \in 1 .. j - i : s[m] = i + m
  <2>1. i <= j
    OBVIOUS
  <2> QED BY <2>1, BytesFacts
<1>2. PICK u \in Seq(Nat) : /\ u = Bytes(i + a, i + a + n) /\ Len(u) = n
                            /\ \A m \in 1 .. n : u[m] = i + a + m
  <2>1. i + a \in Nat /\ i + a + n \in Nat /\ i + a <= i + a + n /\ (i + a + n) - (i + a) = n
    OBVIOUS
  <2>2. /\ Bytes(i + a, i + a + n) \in Seq(Nat) /\ Len(Bytes(i + a, i + a + n)) = n
        /\ \A m \in 1 .. n : Bytes(i + a, i + a + n)[m] = (i + a) + m
    BY <2>1, BytesFacts
  <2> QED BY <2>2
<1>3. PICK v : v = SubSeq(s, a + 1, a + n)
  OBVIOUS
<1>4. v \in Seq(Nat) /\ Len(v) = n /\ \A m \in 1 .. n : v[m] = s[a + m]
  BY <1>1, <1>3
<1>5. ASSUME NEW m \in 1 .. n PROVE v[m] = u[m]
  <2>1. PICK l \in 1 .. j - i : l = a + m
    OBVIOUS
  <2>2. v[m] = s[l] /\ s[l] = i + l /\ i + l = i + a + m
    BY <2>1, <1>1, <1>4
  <2> QED BY <2>2, <1>2
<1>6. v = u
  BY <1>2, <1>4, <1>5
<1> QED BY <1>1, <1>2, <1>3, <1>6

\* Block b of the file, as the server sends it.
LEMMA BlockFacts ==
  ASSUME len \in Nat, NEW b, Valid(b)
  PROVE  /\ b \in Nat /\ b - 1 \in Nat /\ Off(b - 1) \in Nat /\ Off(b) \in Nat
         /\ Off(b) = Off(b - 1) + SEGSIZE /\ Upto(b) \in Nat
         /\ Off(b - 1) <= Upto(b) /\ Upto(b) <= Off(b) /\ Upto(b) <= len
         /\ Block(b) = Bytes(Off(b - 1), Upto(b))
         /\ Block(b) \in Seq(Nat) /\ Len(Block(b)) = Upto(b) - Off(b - 1)
         /\ Len(Block(b)) < SEGSIZE <=> len < Off(b)
<1>1. b \in Nat /\ b - 1 \in Nat /\ (b - 1) + 1 = b /\ Off(b - 1) <= len
  BY DEF Valid
<1>2. /\ Off(b - 1) \in Nat /\ Off(b) \in Nat /\ Off(b) = Off(b - 1) + SEGSIZE
      /\ SEGSIZE \in Nat
  BY <1>1, OffFacts
<1>3. /\ Upto(b) \in Nat /\ Off(b - 1) <= Upto(b) /\ Upto(b) <= Off(b) /\ Upto(b) <= len
      /\ Min({Off(b), len}) = Upto(b)
  BY <1>1, <1>2, MinTwo DEF Upto
<1>4. Block(b) = Bytes(Off(b - 1), Upto(b))
  BY <1>3 DEF Block, Off
<1>5. Block(b) \in Seq(Nat) /\ Len(Block(b)) = Upto(b) - Off(b - 1)
  BY <1>2, <1>3, <1>4, BytesFacts
<1>6. Len(Block(b)) < SEGSIZE <=> len < Off(b)
  BY <1>1, <1>2, <1>5 DEF Upto
<1> QED BY <1>1, <1>2, <1>3, <1>4, <1>5, <1>6

\* The file does not change.
LEMMA SameFile ==
  ASSUME len' = len
  PROVE  \A b : /\ Valid(b)' <=> Valid(b) /\ Upto(b)' = Upto(b)
                /\ Block(b)' = Block(b) /\ Data(b)' = Data(b)
BY DEF Valid, Upto, Block, Data, Packet

-----------------------------------------------------------------------------
\* The changes of struct tftpfile that the functions make.

SetBlock(f, b) == [f EXCEPT !.block = b]
SetEnd(f, e) == [f EXCEPT !.end = e]
SetTurn(f, s, e) == [f EXCEPT !.start = s, !.end = e]
SetHeard(f, d, p) == [f EXCEPT !.buf = d, !.port = p]
SetEof(f, x) == [f EXCEPT !.eof = x]
SetOffset(f, o) == [f EXCEPT !.foffs = o]
SetNext(f, e, d) == [f EXCEPT !.end = e, !.buf = d]
SetFill(f, e, o, d) == [f EXCEPT !.end = e, !.foffs = o, !.buf = d]

\* Leaves go to Zenon unless they name the SMT solver; the time is ample.
USE ZenonT(60)

\* Setting the block number leaves the other fields of the handle alone.
LEMMA FileBlock ==
  ASSUME NEW f, IsFile(f), NEW b \in Nat, NEW g, g = SetBlock(f, b)
  PROVE  /\ IsFile(g) /\ g.block = b /\ g.port = f.port /\ g.eof = f.eof /\ g.start = f.start
         /\ g.end = f.end /\ g.foffs = f.foffs /\ g.buf = f.buf
<1>1. /\ g.block = b /\ g.port = f.port /\ g.start = f.start
      /\ g.end = f.end /\ g.foffs = f.foffs /\ g.buf = f.buf
  BY DEF IsFile, SetBlock
<1>2. g.eof = f.eof
  BY DEF IsFile, SetBlock
<1>3. g = [block |-> g.block, port |-> g.port, eof |-> g.eof, start |-> g.start,
           end |-> g.end, foffs |-> g.foffs, buf |-> g.buf]
  BY DEF IsFile, SetBlock
<1>4. IsFile(g)
  BY <1>1, <1>2, <1>3 DEF IsFile
<1> QED BY <1>1, <1>2, <1>4

\* So does setting the end of the data in the buffer.
LEMMA FileEnd ==
  ASSUME NEW f, IsFile(f), NEW e \in Nat, NEW g, g = SetEnd(f, e)
  PROVE  /\ IsFile(g) /\ g.block = f.block /\ g.port = f.port /\ g.eof = f.eof /\ g.start = f.start
         /\ g.end = e /\ g.foffs = f.foffs /\ g.buf = f.buf
<1>1. /\ g.block = f.block /\ g.port = f.port /\ g.start = f.start
      /\ g.end = e /\ g.foffs = f.foffs /\ g.buf = f.buf
  BY DEF IsFile, SetEnd
<1>2. g.eof = f.eof
  BY DEF IsFile, SetEnd
<1>3. g = [block |-> g.block, port |-> g.port, eof |-> g.eof, start |-> g.start,
           end |-> g.end, foffs |-> g.foffs, buf |-> g.buf]
  BY DEF IsFile, SetEnd
<1>4. IsFile(g)
  BY <1>1, <1>2, <1>3 DEF IsFile
<1> QED BY <1>1, <1>2, <1>4

\* So does setting where that data starts and ends.
LEMMA FileTurn ==
  ASSUME NEW f, IsFile(f), NEW s \in Nat, NEW e \in Nat, NEW g, g = SetTurn(f, s, e)
  PROVE  /\ IsFile(g) /\ g.block = f.block /\ g.port = f.port /\ g.eof = f.eof /\ g.start = s
         /\ g.end = e /\ g.foffs = f.foffs /\ g.buf = f.buf
<1>1. /\ g.block = f.block /\ g.port = f.port /\ g.start = s
      /\ g.end = e /\ g.foffs = f.foffs /\ g.buf = f.buf
  BY DEF IsFile, SetTurn
<1>2. g.eof = f.eof
  BY DEF IsFile, SetTurn
<1>3. g = [block |-> g.block, port |-> g.port, eof |-> g.eof, start |-> g.start,
           end |-> g.end, foffs |-> g.foffs, buf |-> g.buf]
  BY DEF IsFile, SetTurn
<1>4. IsFile(g)
  BY <1>1, <1>2, <1>3 DEF IsFile
<1> QED BY <1>1, <1>2, <1>4

\* So does setting the buffer and the port of the server.
LEMMA FileHeard ==
  ASSUME NEW f, IsFile(f), NEW d, NEW p \in Session \cup {0}, NEW g, g = SetHeard(f, d, p)
  PROVE  /\ IsFile(g) /\ g.block = f.block /\ g.port = p /\ g.eof = f.eof /\ g.start = f.start
         /\ g.end = f.end /\ g.foffs = f.foffs /\ g.buf = d
<1>1. /\ g.block = f.block /\ g.port = p /\ g.start = f.start
      /\ g.end = f.end /\ g.foffs = f.foffs /\ g.buf = d
  BY DEF IsFile, SetHeard
<1>2. g.eof = f.eof
  BY DEF IsFile, SetHeard
<1>3. g = [block |-> g.block, port |-> g.port, eof |-> g.eof, start |-> g.start,
           end |-> g.end, foffs |-> g.foffs, buf |-> g.buf]
  BY DEF IsFile, SetHeard
<1>4. IsFile(g)
  BY <1>1, <1>2, <1>3 DEF IsFile
<1> QED BY <1>1, <1>2, <1>4

\* So does setting the end-of-file flag.
LEMMA FileEof ==
  ASSUME NEW f, IsFile(f), NEW x \in BOOLEAN, NEW g, g = SetEof(f, x)
  PROVE  /\ IsFile(g) /\ g.block = f.block /\ g.port = f.port /\ g.eof = x /\ g.start = f.start
         /\ g.end = f.end /\ g.foffs = f.foffs /\ g.buf = f.buf
<1>1. /\ g.block = f.block /\ g.port = f.port /\ g.start = f.start
      /\ g.end = f.end /\ g.foffs = f.foffs /\ g.buf = f.buf
  BY DEF IsFile, SetEof
<1>2. g.eof = x
  BY DEF IsFile, SetEof
<1>3. g = [block |-> g.block, port |-> g.port, eof |-> g.eof, start |-> g.start,
           end |-> g.end, foffs |-> g.foffs, buf |-> g.buf]
  BY DEF IsFile, SetEof
<1>4. IsFile(g)
  BY <1>1, <1>2, <1>3 DEF IsFile
<1> QED BY <1>1, <1>2, <1>4

\* So does setting the file offset.
LEMMA FileOffset ==
  ASSUME NEW f, IsFile(f), NEW o \in Nat, NEW g, g = SetOffset(f, o)
  PROVE  /\ IsFile(g) /\ g.block = f.block /\ g.port = f.port /\ g.eof = f.eof /\ g.start = f.start
         /\ g.end = f.end /\ g.foffs = o /\ g.buf = f.buf
<1>1. /\ g.block = f.block /\ g.port = f.port /\ g.start = f.start
      /\ g.end = f.end /\ g.foffs = o /\ g.buf = f.buf
  BY DEF IsFile, SetOffset
<1>2. g.eof = f.eof
  BY DEF IsFile, SetOffset
<1>3. g = [block |-> g.block, port |-> g.port, eof |-> g.eof, start |-> g.start,
           end |-> g.end, foffs |-> g.foffs, buf |-> g.buf]
  BY DEF IsFile, SetOffset
<1>4. IsFile(g)
  BY <1>1, <1>2, <1>3 DEF IsFile
<1> QED BY <1>1, <1>2, <1>4

\* So does setting the buffer and its end.
LEMMA FileNext ==
  ASSUME NEW f, IsFile(f), NEW e \in Nat, NEW d, NEW g, g = SetNext(f, e, d)
  PROVE  /\ IsFile(g) /\ g.block = f.block /\ g.port = f.port /\ g.eof = f.eof /\ g.start = f.start
         /\ g.end = e /\ g.foffs = f.foffs /\ g.buf = d
<1>1. /\ g.block = f.block /\ g.port = f.port /\ g.start = f.start
      /\ g.end = e /\ g.foffs = f.foffs /\ g.buf = d
  BY DEF IsFile, SetNext
<1>2. g.eof = f.eof
  BY DEF IsFile, SetNext
<1>3. g = [block |-> g.block, port |-> g.port, eof |-> g.eof, start |-> g.start,
           end |-> g.end, foffs |-> g.foffs, buf |-> g.buf]
  BY DEF IsFile, SetNext
<1>4. IsFile(g)
  BY <1>1, <1>2, <1>3 DEF IsFile
<1> QED BY <1>1, <1>2, <1>4

\* So does setting the buffer, its end and the file offset.
LEMMA FileFill ==
  ASSUME NEW f, IsFile(f), NEW e \in Nat, NEW o \in Nat, NEW d, NEW g, g = SetFill(f, e, o, d)
  PROVE  /\ IsFile(g) /\ g.block = f.block /\ g.port = f.port /\ g.eof = f.eof /\ g.start = f.start
         /\ g.end = e /\ g.foffs = o /\ g.buf = d
<1>1. /\ g.block = f.block /\ g.port = f.port /\ g.start = f.start
      /\ g.end = e /\ g.foffs = o /\ g.buf = d
  BY DEF IsFile, SetFill
<1>2. g.eof = f.eof
  BY DEF IsFile, SetFill
<1>3. g = [block |-> g.block, port |-> g.port, eof |-> g.eof, start |-> g.start,
           end |-> g.end, foffs |-> g.foffs, buf |-> g.buf]
  BY DEF IsFile, SetFill
<1>4. IsFile(g)
  BY <1>1, <1>2, <1>3 DEF IsFile
<1> QED BY <1>1, <1>2, <1>4

-----------------------------------------------------------------------------
\* A reader's client.

\* A call of tftprrq fails.
LEMMA ReaderFails ==
  ASSUME Reader, len \in Nat, ReaderClient, Asking, NEW n \in Int, n < 0, NEW f, IsFile(f),
         Return(n, f), UNCHANGED <<local, reading>>
  PROVE  ReaderClient'
<1>1. /\ tfp' = f /\ pc' \in {"failed", "end"} /\ failed' \in BOOLEAN /\ ~ Asking'
      /\ user' = user /\ len' = len /\ image' = image /\ nb' = nb /\ at' = at /\ dst' = dst
  <2>1. ~ (n >= 0)
    BY SMTT(60)
  <2>2. Error(f) /\ failed' \in BOOLEAN
    BY <2>1 DEF Return
  <2> QED BY <2>2 DEF Error, Goes, Asking, local, reading
<1>2. Types'
  BY <1>1 DEF ReaderClient, Types
<1> QED BY <1>1, <1>2 DEF ReaderClient, ReaderHolds, ReaderAsks, ReaderGets, Updates, ReaderStart,
                          InRead

\* The block that was asked for has come.
LEMMA ReaderReceives ==
  ASSUME Reader, len \in Nat, ReaderClient, Asking, ~ tfp.eof, NEW f, IsFile(f),
         Valid(tfp.block), f.block = tfp.block, f.start = tfp.start, f.end = tfp.end,
         f.foffs = tfp.foffs, f.buf = Block(tfp.block), f.eof = (Len(f.buf) < SEGSIZE),
         Return(Len(f.buf), f), UNCHANGED <<local, reading>>
  PROVE  ReaderClient'
<1> DEFINE b == tfp.block
<1>1. /\ Off(b - 1) \in Nat /\ Off(b) \in Nat /\ Upto(b) \in Nat /\ Off(b - 1) <= Upto(b)
      /\ Upto(b) <= len /\ Len(f.buf) = Upto(b) - Off(b - 1) /\ Len(f.buf) \in Nat
      /\ f.eof = (len < Off(b))
  BY BlockFacts, SMTT(60)
<1>2. \/ caller = "open" /\ b = 1 /\ tfp.start = 0 /\ tfp.foffs = 0
      \/ caller = "read" /\ tfp.end <= tfp.foffs /\ tfp.end = Off(b - 1)
  BY DEF ReaderClient, ReaderAsks
<1>3. PICK g : /\ tfp' = g /\ IsFile(g) /\ g.block = b /\ g.start = Off(b - 1)
               /\ g.end = Upto(b) /\ g.foffs = f.foffs /\ g.buf = Block(b) /\ g.eof = f.eof
               /\ pc' = IF caller = "open" THEN "user" ELSE "read"
  <2>1. CASE caller = "open"
    <3>1. PICK g : g = [f EXCEPT !.end = f.start + Len(f.buf)]
      OBVIOUS
    <3>2. tfp' = g /\ pc' = "user"
      BY <1>1, <2>1, <3>1, SMTT(60) DEF Return, Goes
    <3>3. Off(b - 1) = 0 /\ f.start = 0
      <4>1. b - 1 = 0
        BY <1>2, <2>1, SMTT(60)
      <4> QED BY <1>2, <2>1, <4>1, OffFacts
    <3>4. /\ IsFile(g) /\ g.block = f.block /\ g.start = f.start /\ g.end = f.start + Len(f.buf)
          /\ g.foffs = f.foffs /\ g.buf = f.buf /\ g.eof = f.eof
      <4>1. PICK e \in Nat : e = f.start + Len(f.buf)
        BY <1>1, <3>3, SMTT(60)
      <4>2. g = SetEnd(f, e)
        BY <3>1, <4>1 DEF SetEnd
      <4>3. /\ IsFile(g) /\ g.block = f.block /\ g.start = f.start /\ g.end = e
            /\ g.foffs = f.foffs /\ g.buf = f.buf /\ g.eof = f.eof
        BY <4>2, FileEnd, SMTT(60)
      <4> QED BY <4>1, <4>3
    <3> QED BY <1>1, <2>1, <3>2, <3>3, <3>4, SMTT(60)
  <2>2. CASE caller = "read"
    <3>1. PICK g : g = [f EXCEPT !.start = f.end, !.end = f.end + Len(f.buf)]
      OBVIOUS
    <3>2. tfp' = g /\ pc' = "read"
      BY <1>1, <2>2, <3>1, SMTT(60) DEF Return, Goes
    <3>3. f.end = Off(b - 1)
      BY <1>2, <2>2
    <3>4. /\ IsFile(g) /\ g.block = f.block /\ g.start = f.end /\ g.end = f.end + Len(f.buf)
          /\ g.foffs = f.foffs /\ g.buf = f.buf /\ g.eof = f.eof
      <4>1. PICK c \in Nat : c = f.end
        BY <1>1, <3>3
      <4>2. PICK e \in Nat : e = f.end + Len(f.buf)
        BY <1>1, <3>3, SMTT(60)
      <4>3. g = SetTurn(f, c, e)
        BY <3>1, <4>1, <4>2 DEF SetTurn
      <4>4. /\ IsFile(g) /\ g.block = f.block /\ g.start = c /\ g.end = e
            /\ g.foffs = f.foffs /\ g.buf = f.buf /\ g.eof = f.eof
        BY ONLY <4>3, IsFile(f), c \in Nat, e \in Nat, FileTurn
      <4> QED BY <4>1, <4>2, <4>4
    <3> QED BY <1>1, <2>2, <3>2, <3>3, <3>4, SMTT(60)
  <2> QED BY <1>2, <2>1, <2>2
<1>4. /\ user' = user /\ len' = len /\ image' = image /\ nb' = nb /\ at' = at /\ dst' = dst
      /\ failed' = failed /\ ~ Asking'
  BY <1>1, <1>3, SMTT(60) DEF Return, local, reading, Asking, ReaderClient, Types
<1>5. Types'
  BY <1>3, <1>4 DEF ReaderClient, Types
<1>6. ReaderHolds'
  <2>1. g.start <= g.foffs
    <3>1. CASE caller = "open"
      <4>1. b - 1 = 0
        BY <1>2, <3>1, SMTT(60)
      <4>2. Off(b - 1) = 0
        BY <4>1, OffFacts
      <4> QED BY <1>2, <1>3, <3>1, <4>2, SMTT(60)
    <3>2. CASE caller # "open"
      BY <1>2, <1>3, <3>2
    <3> QED BY <3>1, <3>2
  <2>2. /\ Valid(g.block) /\ g.start = Off(g.block - 1) /\ g.end = Upto(g.block)
        /\ g.buf = Block(g.block) /\ g.eof = (len < Off(g.block))
    BY <1>1, <1>3
  <2>3. /\ Valid(g.block)' /\ g.end = Upto(g.block)' /\ g.buf = Block(g.block)'
        /\ g.eof = (len' < Off(g.block))
    BY <1>4, <2>2 DEF Valid, Upto, Block
  <2> QED BY <1>3, <2>1, <2>2, <2>3 DEF ReaderHolds
<1>7. ReaderAsks' /\ ReaderStart'
  BY <1>3, <1>4 DEF ReaderAsks, ReaderStart
<1>8. ReaderGets'
  BY <1>1, <1>2, <1>3, <1>4 DEF ReaderGets, ReaderClient, InRead, ReaderStart
<1>9. Updates'
  <2>1. user = "update" /\ caller = "read" => tfp.foffs <= tfp.end
    BY DEF ReaderClient, Updates
  <2>2. user = "update" => g.foffs <= g.end
    <3>1. f.foffs \in Nat /\ Off(b - 1) <= Upto(b)
      BY <1>1 DEF IsFile
    <3> QED BY <1>1, <1>2, <1>3, <2>1, <3>1, SMTT(60)
  <2> QED BY <1>2, <1>3, <1>4, <2>2 DEF Updates, ReaderClient, InRead
<1> QED BY <1>5, <1>6, <1>7, <1>8, <1>9 DEF ReaderClient

\* The last block was acknowledged.
LEMMA ReaderEnds ==
  ASSUME Reader, len \in Nat, ReaderClient, pc = "send", tfp.eof, Return(0, tfp),
         UNCHANGED <<local, reading>>
  PROVE  ReaderClient'
<1>1. caller = "read" /\ tfp.end = len /\ tfp.end <= tfp.foffs /\ Asking /\ IsFile(tfp)
  BY DEF ReaderClient, ReaderAsks, Asking, Types
<1>2. PICK g : g = [tfp EXCEPT !.start = tfp.end, !.end = tfp.end + 0]
  OBVIOUS
<1>3. tfp' = g /\ pc' = "read"
  BY <1>1, <1>2, SMTT(60) DEF Return, Goes
<1>4. /\ IsFile(g) /\ g.start = len /\ g.end = len /\ g.foffs = tfp.foffs
  <2>1. tfp.end + 0 = len
    BY <1>1, SMTT(60)
  <2>2. g = SetTurn(tfp, len, len)
    BY <1>1, <1>2, <2>1 DEF SetTurn
  <2> QED BY <1>1, <2>2, FileTurn, SMTT(60)
<1>5. /\ user' = user /\ len' = len /\ image' = image /\ nb' = nb /\ at' = at /\ dst' = dst
      /\ failed' = failed /\ ~ Asking'
  BY <1>3, SMTT(60) DEF Return, local, reading, Asking, ReaderClient, Types
<1>6. Types'
  BY <1>3, <1>4, <1>5 DEF ReaderClient, Types
<1>7. ReaderHolds' /\ ReaderAsks' /\ ReaderStart'
  BY <1>1, <1>3, <1>4, <1>5 DEF ReaderHolds, ReaderAsks, ReaderStart
<1>8. ReaderGets' /\ Updates'
  BY <1>1, <1>3, <1>4, <1>5 DEF ReaderGets, Updates, ReaderClient, InRead
<1> QED BY <1>6, <1>7, <1>8 DEF ReaderClient

\* The request is sent again or synchnet is called, with another buffer or port.
LEMMA ReaderAgain ==
  ASSUME Reader, ReaderClient, pc = "select", NEW f, IsFile(f),
         f.block = tfp.block, f.start = tfp.start, f.end = tfp.end,
         f.foffs = tfp.foffs, f.eof = tfp.eof, Again(f) \/ Synch(f),
         UNCHANGED <<local, reading>>
  PROVE  ReaderClient'
<1>1. /\ tfp' = f /\ pc' \in {"send", "synch"} /\ caller' = caller /\ req' = req
      /\ failed' = failed /\ user' = user /\ len' = len /\ image' = image
      /\ nb' = nb /\ at' = at /\ dst' = dst /\ Asking /\ Asking'
  BY DEF Again, Synch, Goes, local, reading, Asking
<1>2. Types'
  BY <1>1 DEF ReaderClient, Types
<1>3. ReaderAsks'
  BY <1>1 DEF ReaderClient, ReaderAsks, Valid
<1> QED BY <1>1, <1>2, <1>3 DEF ReaderClient, ReaderHolds, ReaderGets, Updates, ReaderStart, InRead

\* A packet that reaches a reading client keeps its invariant.
LEMMA ReaderHears ==
  ASSUME Unwrapped, Reader, len \in Lengths, ReaderClient, ReaderNet, recvfrom
  PROVE  ReaderClient'
<1>1. /\ pc = "select" /\ Asking /\ IsFile(tfp) /\ ~ tfp.eof /\ len \in Nat
      /\ UNCHANGED <<local, reading>>
  BY TftpAssumption DEF recvfrom, Asking, ReaderClient, Types, ReaderAsks
<1>2. PICK m \in net : \E f :
        /\ f = [tfp EXCEPT !.buf = IF Reader THEN m.packet.data ELSE @,
                           !.port = IF (IF Reader THEN tfp.block <= 1 ELSE tfp.block = 0)
                                    THEN m.from ELSE @]
        /\ m.to = -1
        /\ IF f.port = m.from THEN Take(m.packet, f) ELSE Again(f)
  BY DEF recvfrom
<1>10. PICK f :
        /\ f = [tfp EXCEPT !.buf = IF Reader THEN m.packet.data ELSE @,
                           !.port = IF (IF Reader THEN tfp.block <= 1 ELSE tfp.block = 0)
                                    THEN m.from ELSE @]
        /\ m.to = -1
        /\ IF f.port = m.from THEN Take(m.packet, f) ELSE Again(f)
  BY <1>2
<1> DEFINE p == m.packet
<1>3. /\ m.from \in Session
      /\ p.kind = "ERROR" \/ \E b \in 1 .. BlockRange : Valid(b) /\ p = Data(b)
  BY <1>2, TftpAssumption, SMTT(60) DEF ReaderNet
<1>4. PICK q \in Session \cup {0} : f = SetHeard(tfp, p.data, q)
  BY <1>1, <1>10, <1>3 DEF SetHeard, IsFile
<1>5. /\ IsFile(f) /\ f.block = tfp.block /\ f.eof = tfp.eof /\ f.start = tfp.start
      /\ f.end = tfp.end /\ f.foffs = tfp.foffs /\ f.buf = p.data
  BY <1>1, <1>4, FileHeard, SMTT(60)
<1> HIDE DEF p
<1>6. CASE Again(f) \/ Synch(f)
  BY <1>1, <1>5, <1>6, ReaderAgain
<1>7. CASE Return(-1, f)
  BY <1>1, <1>5, <1>7, ReaderFails, SMTT(60)
<1>8. CASE /\ p.kind = "DATA" /\ p.block = f.block
           /\ Return(Len(p.data), [f EXCEPT !.eof = Len(p.data) < SEGSIZE])
  <2>1. PICK b \in 1 .. BlockRange : Valid(b) /\ p = Data(b)
    BY <1>3, <1>8
  <2>2. b % BlockRange = b /\ p.block = b % BlockRange /\ p.data = Block(b)
    <3>1. b - 1 \in Nat /\ Off(b - 1) <= len /\ (b - 1) + 1 = b
      BY <2>1, SMTT(60) DEF Valid
    <3> QED BY <2>1, <3>1, Numbered DEF Data, Packet
  <2>3. b = tfp.block
    BY <1>5, <1>8, <2>2
  <2> DEFINE x == Len(p.data) < SEGSIZE
  <2>4. x \in BOOLEAN
    BY SMTT(60)
  <2>5. PICK g : g = SetEof(f, x)
    OBVIOUS
  <2>6. Return(Len(p.data), g)
    BY <1>8, <2>5 DEF SetEof
  <2> HIDE DEF x
  <2>7. /\ IsFile(g) /\ g.block = f.block /\ g.eof = x /\ g.start = f.start
        /\ g.end = f.end /\ g.foffs = f.foffs /\ g.buf = f.buf
    BY <1>5, <2>4, <2>5, FileEof, SMTT(60)
  <2>8. /\ Valid(tfp.block) /\ g.block = tfp.block /\ g.start = tfp.start /\ g.end = tfp.end
        /\ g.foffs = tfp.foffs /\ g.buf = Block(tfp.block) /\ Return(Len(g.buf), g)
    BY <1>5, <2>1, <2>2, <2>3, <2>6, <2>7
  <2>9. g.eof = (Len(g.buf) < SEGSIZE)
    BY <1>5, <2>7 DEF x
  <2> QED BY <1>1, <2>7, <2>8, <2>9, ReaderReceives
<1>9. Wanted = "DATA"
  BY DEF Wanted
<1> QED BY <1>10, <1>6, <1>7, <1>8, <1>9 DEF Take, p

\* So does a packet the client sends.
LEMMA ReaderSends ==
  ASSUME Reader, len \in Nat, ReaderClient, sendto
  PROVE  ReaderClient'
<1>1. pc = "send" /\ Asking /\ UNCHANGED <<local, reading>> /\ IsFile(tfp)
  BY DEF sendto, Asking, ReaderClient, Types
<1>2. CASE tfp.eof
  BY <1>1, <1>2, ReaderEnds DEF sendto
<1>3. CASE ~ tfp.eof
  <2>1. /\ pc' = "select" /\ UNCHANGED <<caller, tfp, req, rexmt, failed>>
        /\ user' = user /\ len' = len /\ image' = image /\ nb' = nb /\ at' = at /\ dst' = dst
        /\ Asking'
    BY <1>1, <1>3 DEF sendto, local, reading, Asking
  <2> QED BY <1>1, <1>3, <2>1 DEF ReaderClient, Types, ReaderHolds, ReaderAsks, ReaderGets, Updates,
                                  ReaderStart, InRead, Valid
<1> QED BY <1>2, <1>3

\* So does a socket error or a timeout.
LEMMA ReaderBreaks ==
  ASSUME Reader, len \in Nat, ReaderClient, SocketFails \/ Timeout
  PROVE  ReaderClient'
<1>1. Asking /\ UNCHANGED <<local, reading>> /\ IsFile(tfp)
  BY DEF SocketFails, Timeout, Asking, ReaderClient, Types
<1>2. CASE Return(-1, tfp) \/ Return(-2, tfp)
  BY <1>1, <1>2, ReaderFails, SMTT(60)
<1>3. CASE pc = "select" /\ pc' = "send" /\ UNCHANGED <<caller, tfp, req, failed>>
  <2>1. /\ user' = user /\ len' = len /\ image' = image /\ nb' = nb /\ at' = at /\ dst' = dst
        /\ Asking'
    BY <1>1, <1>3 DEF local, reading, Asking
  <2> QED BY <1>1, <1>3, <2>1 DEF ReaderClient, Types, ReaderHolds, ReaderAsks, ReaderGets, Updates,
                                  ReaderStart, InRead, Valid
<1> QED BY <1>2, <1>3 DEF SocketFails, Timeout

\* So does the call of tftpopen.
LEMMA ReaderOpens ==
  ASSUME Reader, ReaderClient, tftpopen
  PROVE  ReaderClient'
<1>1. /\ pc = "start" /\ pc' = "send" /\ caller' = "open" /\ failed' = failed /\ IsFile(tfp)
      /\ user' = user /\ len' = len /\ image' = image /\ nb' = nb /\ at' = at /\ dst' = dst
      /\ tfp' = SetBlock(tfp, 1) /\ Asking' /\ req' = Packet("RRQ", 0, <<>>)
  BY DEF tftpopen, Request, local, reading, Asking, SetBlock, ReaderClient, Types
<1>2. /\ IsFile(tfp') /\ tfp'.block = 1 /\ tfp'.eof = tfp.eof /\ tfp'.start = tfp.start
      /\ tfp'.end = tfp.end /\ tfp'.foffs = tfp.foffs
  BY <1>1, FileBlock, SMTT(60)
<1>3. req'.kind = "RRQ"
  BY <1>1 DEF Packet
<1>4. Types'
  BY <1>1, <1>2 DEF ReaderClient, Types
<1> QED BY <1>1, <1>2, <1>3, <1>4 DEF ReaderClient, ReaderHolds, ReaderAsks, ReaderGets, Updates,
                                      ReaderStart, InRead

\* So does the call of tftpread.
LEMMA ReaderBegins ==
  ASSUME Reader, ReaderClient, NEW n \in Reads, tftpread(n)
  PROVE  ReaderClient'
<1>1. /\ pc = "user" /\ pc' = "read" /\ tfp' = tfp /\ IsFile(tfp) /\ failed' = failed
      /\ user' = user /\ len' = len /\ image' = image
      /\ nb' = n /\ at' = tfp.foffs /\ dst' = <<>> /\ n \in Nat /\ 0 < n /\ ~ Asking'
  BY TftpAssumption, SMTT(60) DEF tftpread, local, Asking, ReaderClient, Types
<1>2. tfp.foffs \in Nat /\ Len(dst') = 0 /\ dst' \in Seq(Nat) /\ tfp.foffs + 0 = tfp.foffs
  BY <1>1, SMTT(60) DEF IsFile
<1>3. dst' = Bytes(at', at' + Len(dst'))
  BY <1>1, <1>2, BytesEmpty
<1>4. Types'
  BY <1>1, <1>2 DEF ReaderClient, Types
<1>5. ReaderHolds'
  BY <1>1 DEF ReaderClient, ReaderHolds, Valid, Upto, Block
<1>6. ReaderGets'
  BY <1>1, <1>2, <1>3, SMTT(60) DEF ReaderGets
<1> QED BY <1>1, <1>4, <1>5, <1>6 DEF ReaderClient, ReaderAsks, Updates, ReaderStart, InRead

\* So does the return of tftpread.
LEMMA ReaderReturns ==
  ASSUME Reader, len \in Nat, ReaderClient, ReadReturns
  PROVE  ReaderClient'
<1>1. /\ pc = "read" /\ (nb = 0 \/ tfp.start >= tfp.end) /\ tfp' = tfp /\ IsFile(tfp)
      /\ pc' = (IF user = "update" THEN "got" ELSE "user") /\ failed' = failed
      /\ user' = user /\ len' = len /\ image' = image /\ nb' = nb /\ at' = at /\ dst' = dst
      /\ ~ Asking'
  BY DEF ReadReturns, local, reading, Asking, ReaderClient, Types
<1>2. Types'
  BY <1>1 DEF ReaderClient, Types
<1>3. ReaderHolds'
  BY <1>1 DEF ReaderClient, ReaderHolds, Valid, Upto, Block
<1>4. ReaderGets'
  BY <1>1 DEF ReaderClient, ReaderGets, InRead, IsFile
<1> QED BY <1>1, <1>2, <1>3, <1>4 DEF ReaderClient, ReaderAsks, Updates, ReaderStart, InRead

\* So does the call of tftplseek.
LEMMA ReaderSeeks ==
  ASSUME Reader, ReaderClient, NEW offs \in Seeks, tftplseek(offs)
  PROVE  ReaderClient'
<1>1. /\ pc = "user" /\ pc' = pc /\ tfp' = SetOffset(tfp, offs) /\ IsFile(tfp) /\ offs \in Nat
      /\ user = "load" /\ offs >= tfp.start /\ failed' = failed /\ ~ Asking'
      /\ user' = user /\ len' = len /\ image' = image /\ nb' = nb /\ at' = at /\ dst' = dst
  BY TftpAssumption DEF tftplseek, local, reading, Asking, ReaderClient, Types, SetOffset
<1>2. /\ IsFile(tfp') /\ tfp'.block = tfp.block /\ tfp'.eof = tfp.eof /\ tfp'.start = tfp.start
      /\ tfp'.end = tfp.end /\ tfp'.foffs = offs /\ tfp'.buf = tfp.buf
  BY <1>1, FileOffset, SMTT(60)
<1>3. Types'
  BY <1>1, <1>2 DEF ReaderClient, Types
<1>4. ReaderHolds'
  <2>1. tfp'.start <= tfp'.foffs
    BY <1>1, <1>2 DEF IsFile
  <2> QED BY <1>1, <1>2, <2>1 DEF ReaderClient, ReaderHolds, Valid, Upto, Block
<1> QED BY <1>1, <1>2, <1>3, <1>4 DEF ReaderClient, ReaderAsks, ReaderGets, Updates, ReaderStart,
                                      InRead

\* So does closing the file.
LEMMA ReaderCloses ==
  ASSUME Reader, ReaderClient, Close
  PROVE  ReaderClient'
<1>1. /\ pc' = "end" /\ tfp' = tfp /\ failed' = failed /\ ~ Asking'
      /\ user' = user /\ len' = len /\ image' = image /\ nb' = nb /\ at' = at /\ dst' = dst
  BY DEF Close, tftpclose, Goes, local, reading, Asking
<1>2. Types'
  BY <1>1 DEF ReaderClient, Types
<1> QED BY <1>1, <1>2 DEF ReaderClient, ReaderHolds, ReaderAsks, ReaderGets, Updates, ReaderStart,
                          InRead

\* An empty read of tftpOpenEntry is the end of the file.
LEMMA ReaderFlashes ==
  ASSUME Reader, len \in Nat, ReaderClient, tftpOpenEntry
  PROVE  ReaderClient'
<1>1. pc = "got" /\ user = "update" /\ IsFile(tfp) /\ Types
  BY DEF tftpOpenEntry, ReaderClient, ReaderStart, Types
<1>2. /\ image = Bytes(0, Len(image)) /\ at = Len(image) /\ tfp.foffs = at + Len(dst)
      /\ tfp.foffs <= tfp.end /\ tfp.start <= tfp.foffs /\ dst = Bytes(at, at + Len(dst))
      /\ Len(image) \in Nat /\ Len(dst) \in Nat /\ at \in Nat
  BY <1>1, SMTT(60) DEF ReaderClient, Updates, ReaderGets, ReaderHolds, Types
<1>3. CASE dst = <<>> /\ tftpclose("flashed")
  <2>1. /\ pc' = "flashed" /\ tfp' = tfp /\ failed' = failed /\ ~ Asking'
        /\ user' = user /\ len' = len /\ image' = image /\ nb' = nb /\ at' = at /\ dst' = dst
    BY <1>3 DEF tftpclose, Goes, local, reading, Asking
  <2>2. Len(dst) = 0 /\ nb # 0 /\ tfp.end <= tfp.start
    BY <1>1, <1>3, SMTT(60) DEF ReaderClient, ReaderGets, Types
  <2>3. tfp.start = len /\ tfp.end = len
    <3>1. CASE tfp.start = len /\ tfp.end = len
      BY <3>1
    <3>2. CASE /\ Valid(tfp.block)
               /\ tfp.start = Off(tfp.block - 1) /\ tfp.end = Upto(tfp.block)
      <4>1. /\ Off(tfp.block - 1) \in Nat /\ Off(tfp.block) \in Nat /\ SEGSIZE \in Nat /\ 0 < SEGSIZE
            /\ Off(tfp.block) = Off(tfp.block - 1) + SEGSIZE /\ Off(tfp.block - 1) <= len
        BY <3>2, BlockFacts, OffFacts DEF Valid
      <4>2. CASE Off(tfp.block) <= len
        BY <2>2, <3>2, <4>1, <4>2, SMTT(60) DEF Upto
      <4>3. CASE ~ (Off(tfp.block) <= len)
        <5>1. tfp.end = len /\ len <= Off(tfp.block - 1)
          BY <2>2, <3>2, <4>3 DEF Upto
        <5> QED BY <3>2, <4>1, <5>1, SMTT(60)
      <4> QED BY <4>2, <4>3
    <3> QED BY <1>1, <3>1, <3>2 DEF ReaderClient, ReaderHolds
  <2>4. Len(image) = len
    BY <1>2, <2>2, <2>3, SMTT(60)
  <2>5. Types'
    BY <1>1, <2>1 DEF Types
  <2> QED BY <1>1, <1>2, <2>1, <2>4, <2>5 DEF ReaderClient, ReaderHolds, ReaderAsks, ReaderGets, Updates,
                                  ReaderStart, InRead
<1>4. CASE /\ dst # <<>> /\ pc' = "user" /\ image' = image \o dst
           /\ UNCHANGED <<caller, tfp, req, rexmt, failed, user, len, reading, net, server, extra>>
  <2>1. /\ tfp' = tfp /\ failed' = failed /\ ~ Asking' /\ user' = user /\ len' = len
        /\ nb' = nb /\ at' = at /\ dst' = dst
    BY <1>4 DEF reading, Asking
  <2>2. image' = Bytes(0, tfp.foffs)
    <3>1. 0 <= at /\ at <= at + Len(dst) /\ at + Len(dst) \in Nat
      BY <1>2, SMTT(60)
    <3>2. Bytes(0, at) \o Bytes(at, at + Len(dst)) = Bytes(0, at + Len(dst))
      BY <1>2, <3>1, BytesJoin
    <3> QED BY <1>2, <1>4, <3>2
  <2>3. image' \in Seq(Nat) /\ Len(image') = tfp.foffs
    <3>1. tfp.foffs \in Nat /\ 0 <= tfp.foffs /\ tfp.foffs - 0 = tfp.foffs
      BY <1>1, SMTT(60) DEF IsFile
    <3> QED BY <2>2, <3>1, BytesFacts
  <2>4. Types'
    BY <1>1, <2>1, <2>3 DEF Types
  <2>5. ReaderHolds'
    BY <1>1, <1>4, <2>1 DEF ReaderClient, ReaderHolds, Valid, Upto, Block
  <2> QED BY <1>1, <1>2, <1>4, <2>1, <2>2, <2>3, <2>4, <2>5
          DEF ReaderClient, ReaderAsks, ReaderGets, Updates, ReaderStart, InRead
<1> QED BY <1>3, <1>4 DEF tftpOpenEntry

\* One turn of tftpread's loop stores the bytes from the offset on.
LEMMA ReaderCopies ==
  ASSUME Unwrapped, len \in Lengths, Reader, ReaderClient, Copy
  PROVE  ReaderClient'
<1> DEFINE k == IF tfp.foffs \in tfp.start .. tfp.end - 1 THEN Min({tfp.end - tfp.foffs, nb}) ELSE 0
           from == tfp.foffs - tfp.start
           f == SetOffset(tfp, tfp.foffs + k)
<1>1. /\ pc = "read" /\ nb # 0 /\ tfp.start < tfp.end /\ failed' = failed /\ IsFile(tfp)
      /\ user' = user /\ len' = len /\ image' = image /\ at' = at /\ nb \in Nat /\ at \in Nat
      /\ dst \in Seq(Nat) /\ len \in Nat
  BY TftpAssumption DEF Copy, local, ReaderClient, Types
<1>2. /\ nb' = nb - k /\ dst' = dst \o SubSeq(tfp.buf, from + 1, from + k)
      /\ \/ /\ f.foffs >= f.end /\ tfp' = tftpnxtblk(f) /\ Request("read", Packet("ACK", f.block, <<>>))
         \/ f.foffs < f.end /\ Goes("read", f)
  BY DEF Copy, SetOffset
<1>3. /\ tfp.start \in Nat /\ tfp.end \in Nat /\ tfp.foffs \in Nat /\ tfp.block \in Nat
      /\ tfp.start <= tfp.foffs
  BY <1>1 DEF IsFile, ReaderClient, ReaderHolds
<1>4. /\ Valid(tfp.block) /\ tfp.start = Off(tfp.block - 1) /\ tfp.end = Upto(tfp.block)
      /\ tfp.buf = Block(tfp.block) /\ tfp.eof = (len < Off(tfp.block))
  BY <1>1, <1>3, SMTT(60) DEF ReaderClient, ReaderHolds
<1>5. /\ k \in Nat /\ k <= nb
      /\ tfp.foffs < tfp.end => tfp.foffs + k <= tfp.end /\ 0 < k /\ (k = nb \/ tfp.foffs + k = tfp.end)
      /\ tfp.end <= tfp.foffs => k = 0
  <2>1. CASE tfp.foffs < tfp.end
    <3>1. tfp.foffs \in tfp.start .. tfp.end - 1 /\ tfp.end - tfp.foffs \in Nat
      BY <1>3, <2>1, SMTT(60)
    <3>2. k = IF tfp.end - tfp.foffs <= nb THEN tfp.end - tfp.foffs ELSE nb
      BY <1>1, <3>1, MinTwo
    <3> QED BY <1>1, <1>3, <2>1, <3>2, SMTT(60)
  <2>2. CASE tfp.end <= tfp.foffs
    <3>1. k = 0
      BY <1>3, <2>2, SMTT(60)
    <3> QED BY <1>1, <1>3, <2>2, <3>1, SMTT(60)
  <2> QED BY <1>3, <2>1, <2>2, SMTT(60)
<1>6. SubSeq(tfp.buf, from + 1, from + k) = Bytes(tfp.foffs, tfp.foffs + k)
  <2>1. from \in Nat /\ tfp.start + from = tfp.foffs
    BY <1>3, SMTT(60)
  <2>2. tfp.buf = Bytes(tfp.start, tfp.end)
    BY <1>1, <1>4, BlockFacts
  <2> HIDE DEF k, from
  <2>3. CASE tfp.foffs < tfp.end
    <3>1. tfp.start + from + k <= tfp.end
      BY <1>3, <1>5, <2>1, <2>3
    <3>2. SubSeq(Bytes(tfp.start, tfp.end), from + 1, from + k)
            = Bytes(tfp.start + from, tfp.start + from + k)
      BY <1>3, <1>5, <2>1, <3>1, BytesCut, SMTT(60)
    <3> QED BY <2>1, <2>2, <3>2
  <2>4. CASE tfp.end <= tfp.foffs
    <3>1. k = 0 /\ tfp.foffs + k = tfp.foffs /\ from + 1 \in Int /\ from + k \in Int /\ from + k < from + 1
      BY <1>3, <1>5, <2>1, <2>4, SMTT(60)
    <3>2. SubSeq(tfp.buf, from + 1, from + k) = <<>>
      BY <3>1, SMTT(60)
    <3> QED BY <1>3, <3>1, <3>2, BytesEmpty
  <2> QED BY <1>3, <2>3, <2>4, SMTT(60)
<1>7. k \in Nat /\ k <= nb /\ tfp.foffs + k \in Nat
  BY <1>3, <1>5, SMTT(60)
<1> HIDE DEF k, from
<1>8. /\ tfp.foffs = at + Len(dst) /\ dst = Bytes(at, at + Len(dst)) /\ Len(dst) \in Nat
      /\ 0 < nb + Len(dst)
  BY <1>1, SMTT(60) DEF ReaderClient, ReaderGets, InRead
<1>9. /\ dst' = Bytes(at, tfp.foffs + k) /\ dst' \in Seq(Nat) /\ tfp.foffs + k = at + Len(dst')
      /\ Len(dst') = Len(dst) + k
  <2>1. at <= tfp.foffs /\ tfp.foffs <= tfp.foffs + k /\ at <= tfp.foffs + k
    BY <1>1, <1>3, <1>7, <1>8, SMTT(60)
  <2>2. dst' = Bytes(at, tfp.foffs) \o Bytes(tfp.foffs, tfp.foffs + k)
    BY <1>2, <1>6, <1>8
  <2>3. dst' = Bytes(at, tfp.foffs + k)
    BY <1>1, <1>3, <1>7, <2>1, <2>2, BytesJoin
  <2>4. dst' \in Seq(Nat) /\ Len(dst') = (tfp.foffs + k) - at
    BY <1>1, <1>7, <2>1, <2>3, BytesFacts
  <2> QED BY <1>1, <1>3, <1>7, <1>8, <2>3, <2>4, SMTT(60)
<1>10. /\ IsFile(f) /\ f.block = tfp.block /\ f.port = tfp.port /\ f.eof = tfp.eof
       /\ f.start = tfp.start /\ f.end = tfp.end /\ f.foffs = tfp.foffs + k /\ f.buf = tfp.buf
  <2>1. PICK o \in Nat : o = tfp.foffs + k
    BY <1>7
  <2>2. PICK g : g = SetOffset(tfp, o)
    OBVIOUS
  <2>3. /\ IsFile(g) /\ g.block = tfp.block /\ g.port = tfp.port /\ g.eof = tfp.eof
        /\ g.start = tfp.start /\ g.end = tfp.end /\ g.foffs = o /\ g.buf = tfp.buf
    BY ONLY <1>1, <2>2, FileOffset
  <2> QED BY <2>1, <2>2, <2>3
<1>11. nb' \in Nat /\ nb' + Len(dst') = nb + Len(dst)
  <2>1. nb' = nb - k /\ Len(dst') = Len(dst) + k /\ k \in Nat /\ k <= nb /\ nb \in Nat /\ Len(dst) \in Nat
    BY <1>1, <1>2, <1>7, <1>8, <1>9
  <2> QED BY ONLY <2>1
<1>12. ReaderGets' \/ ~ (tfp'.foffs = tfp.foffs + k /\ (pc' = "read" \/ (Asking' /\ caller' = "read")))
  BY <1>1, <1>8, <1>9, <1>11 DEF ReaderGets, Asking
<1>13. user = "update" => tfp.foffs + k <= tfp.end /\ image = Bytes(0, Len(image)) /\ at = Len(image)
  <2>1. user = "update" => tfp.foffs <= tfp.end /\ image = Bytes(0, Len(image)) /\ at = Len(image)
    BY <1>1 DEF ReaderClient, Updates, InRead
  <2> QED BY <1>3, <1>5, <1>7, <2>1, SMTT(60) DEF k
<1> HIDE DEF f
<1>14. CASE f.foffs >= f.end /\ tfp' = tftpnxtblk(f) /\ Request("read", Packet("ACK", f.block, <<>>))
  <2>1. (tfp.block + 1) % BlockRange = tfp.block + 1 /\ tfp.block + 1 \in Nat
    <3>1. PICK b \in Nat : b + 1 = tfp.block /\ Off(b) <= len
      <4>1. tfp.block - 1 \in Nat /\ (tfp.block - 1) + 1 = tfp.block
        BY <1>3, <1>4, SMTT(60) DEF Valid
      <4> QED BY <1>4, <4>1 DEF Valid
    <3>2. b + 2 < BlockRange
      BY <3>1, Numbered
    <3> QED BY <3>1, <3>2, TftpAssumption, SMTT(60)
  <2>2. tfp' = SetBlock(f, tfp.block + 1)
    BY <1>10, <1>14, <2>1 DEF tftpnxtblk, SetBlock
  <2>3. /\ IsFile(tfp') /\ tfp'.block = tfp.block + 1 /\ tfp'.port = tfp.port /\ tfp'.eof = tfp.eof
        /\ tfp'.start = tfp.start /\ tfp'.end = tfp.end /\ tfp'.foffs = tfp.foffs + k
    BY <1>10, <2>1, <2>2, FileBlock, SMTT(60)
  <2>4. /\ pc' = "send" /\ caller' = "read" /\ Asking' /\ req'.kind = "ACK" /\ tfp.end <= tfp.foffs + k
    BY <1>10, <1>14, <1>3, <1>7 DEF Request, Packet, Asking
  <2>5. /\ tfp.eof => tfp.end = len
        /\ ~ tfp.eof => Valid(tfp.block + 1) /\ tfp.end = Off(tfp.block)
        /\ (tfp.block + 1) - 1 = tfp.block
    <3>1. Off(tfp.block) \in Nat /\ tfp.block \in Nat
      BY <1>1, <1>4, BlockFacts
    <3>2. (tfp.block + 1) - 1 = tfp.block /\ 1 <= tfp.block + 1
      BY <3>1, SMTT(60)
    <3>3. CASE len < Off(tfp.block)
      <4>1. ~ (Off(tfp.block) <= len)
        BY <1>1, <3>1, <3>3, SMTT(60)
      <4> QED BY <1>4, <3>2, <3>3, <4>1 DEF Upto
    <3>4. CASE ~ (len < Off(tfp.block))
      <4>1. Off(tfp.block) <= len
        BY <1>1, <3>1, <3>4, SMTT(60)
      <4> QED BY <1>4, <2>1, <3>2, <3>4, <4>1 DEF Upto, Valid
    <3> QED BY <3>3, <3>4
  <2>6. Types'
    BY <1>1, <1>9, <1>11, <2>3 DEF ReaderClient, Types
  <2>7. ReaderAsks'
    <3>1. tfp'.block - 1 = tfp.block
      BY <2>3, <2>5
    <3>2. tfp.eof \in BOOLEAN
      BY <1>1 DEF IsFile
    <3>4. CASE tfp.eof
      BY <2>3, <2>4, <2>5, <3>4, <1>1 DEF ReaderAsks
    <3>5. CASE ~ tfp.eof
      BY <2>3, <2>4, <2>5, <3>1, <3>5, <1>1 DEF ReaderAsks, Valid
    <3> QED BY <3>2, <3>4, <3>5
  <2>8. ReaderGets'
    BY <1>12, <2>3, <2>4
  <2>9. Updates'
    BY <1>1, <1>13, <2>3, <2>4 DEF Updates, InRead
  <2> QED BY <1>1, <2>4, <2>6, <2>7, <2>8, <2>9 DEF ReaderClient, ReaderHolds, ReaderStart
<1>15. CASE f.foffs < f.end /\ Goes("read", f)
  <2>1. tfp' = f /\ pc' = "read" /\ ~ Asking'
    BY <1>15 DEF Goes, Asking
  <2>2. Types'
    BY <1>1, <1>9, <1>10, <1>11, <2>1 DEF ReaderClient, Types
  <2>3. ReaderGets'
    BY <1>12, <1>10, <2>1
  <2>4. ReaderHolds'
    <3>1. f.start <= f.foffs
      BY <1>3, <1>7, <1>10, SMTT(60)
    <3> QED BY <1>1, <1>4, <1>10, <2>1, <3>1 DEF ReaderHolds, Valid, Upto, Block
  <2>5. Updates'
    BY <1>1, <1>10, <1>13, <2>1 DEF Updates, InRead
  <2> QED BY <1>1, <2>1, <2>2, <2>3, <2>4, <2>5 DEF ReaderClient, ReaderAsks, ReaderStart
<1> QED BY <1>2, <1>14, <1>15

-----------------------------------------------------------------------------
\* What is on the way to and from a reader.

ReaderPacket(m) ==
  \/ m.to \in Session \cup {0} /\ m.packet.kind \in {"RRQ", "ACK", "ERROR"}
  \/ /\ m.to = -1 /\ m.from \in Session
     /\ m.packet.kind = "ERROR" \/ \E b \in 1 .. BlockRange : Valid(b) /\ m.packet = Data(b)

OpenValid == \A s \in Session : server[s].st = "open" => Valid(server[s].block)

Record == [st : {"free", "open", "done"}, block : Nat, stored : Seq(Nat)]
SetSt(r, x) == [r EXCEPT !.st = x]
SetCount(r, b) == [r EXCEPT !.block = b]
SetOpen(r, x, b) == [r EXCEPT !.st = x, !.block = b]

\* Setting the state of a session leaves its block and what it stored alone.
LEMMA RecordSt ==
  ASSUME NEW r \in Record, NEW x \in {"free", "open", "done"}, NEW g, g = SetSt(r, x)
  PROVE  g \in Record /\ g.st = x /\ g.block = r.block /\ g.stored = r.stored
BY DEF SetSt, Record

\* So does setting its block leave the rest.
LEMMA RecordCount ==
  ASSUME NEW r \in Record, NEW b \in Nat, NEW g, g = SetCount(r, b)
  PROVE  g \in Record /\ g.st = r.st /\ g.block = b /\ g.stored = r.stored
BY DEF SetCount, Record

\* So does setting both leave what it stored.
LEMMA RecordOpen ==
  ASSUME NEW r \in Record, NEW x \in {"free", "open", "done"}, NEW b \in Nat,
         NEW g, g = SetOpen(r, x, b)
  PROVE  g \in Record /\ g.st = x /\ g.block = b /\ g.stored = r.stored
BY DEF SetOpen, Record

\* The invariant of the network and the server, packet by packet.
LEMMA NetOf ==
  /\ ReaderNet <=> /\ Sessions /\ \A m \in net : ReaderPacket(m)
                   /\ OpenValid
  /\ len' = len => \A m : ReaderPacket(m)' <=> ReaderPacket(m)
<1>1. ReaderNet <=> /\ Sessions /\ \A m \in net : ReaderPacket(m)
                    /\ OpenValid
  BY DEF ReaderNet, ReaderPacket, OpenValid
<1>2. ASSUME len' = len, NEW m PROVE ReaderPacket(m)' <=> ReaderPacket(m)
  BY <1>2 DEF ReaderPacket, Valid, Data, Block
<1> QED BY <1>1, <1>2

\* A step of the client that adds only packets a reader sends keeps it.
LEMMA NetClient ==
  ASSUME ReaderNet, len' = len, server' = server, \A m \in net' : m \in net \/ ReaderPacket(m)
  PROVE  ReaderNet'
<1>1. \A m \in net' : ReaderPacket(m)
  BY NetOf
<1>2. \A m \in net' : ReaderPacket(m)'
  BY <1>1, NetOf
<1>3. Sessions'
  BY DEF ReaderNet, Sessions
<1>4. OpenValid'
  BY DEF ReaderNet, OpenValid, Valid
<1> QED BY <1>2, <1>3, <1>4 DEF ReaderNet, ReaderPacket, OpenValid

\* So does a step of the server that answers with valid blocks or an error.
LEMMA NetServer ==
  ASSUME ReaderNet, len' = len, NEW s \in Session, NEW m, NEW r \in Record, NEW out,
         r.st = "open" => Valid(r.block),
         \A p \in out : p.kind = "ERROR" \/ \E b \in 1 .. BlockRange : Valid(b) /\ p = Data(b),
         Serve(s, m, r, out)
  PROVE  ReaderNet'
<1>1. server \in [Session -> Record] /\ \A x \in Session : server[x].st = "open" => Valid(server[x].block)
  BY DEF ReaderNet, Sessions, Record
<1>2. /\ net' = (net \ {m}) \cup {Answer(p, s) : p \in out} /\ server' = [server EXCEPT ![s] = r]
  BY DEF Serve
<1>3. server' \in [Session -> Record]
  BY <1>1, <1>2
<1>4. ASSUME NEW x \in Session, server'[x].st = "open" PROVE Valid(server'[x].block)
  <2>1. server'[x] = IF x = s THEN r ELSE server[x]
    BY <1>1, <1>2
  <2> QED BY <1>1, <1>4, <2>1
<1>5. ASSUME NEW x \in net' PROVE ReaderPacket(x)'
  <2>1. CASE x \in net
    BY <2>1, NetOf
  <2>2. CASE \E p \in out : x = Answer(p, s)
    <3>1. PICK p \in out : x = Answer(p, s)
      BY <2>2
    <3>2. x.to = -1 /\ x.from = s /\ x.packet = p
      BY <3>1 DEF Answer
    <3>3. ReaderPacket(x)
      BY <3>2 DEF ReaderPacket
    <3> QED BY <3>3, NetOf
  <2> QED BY <1>2, <2>1, <2>2
<1>6. Sessions'
  BY <1>3 DEF Sessions, Record
<1>7. OpenValid'
  BY <1>4 DEF OpenValid, Valid
<1> QED BY <1>5, <1>6, <1>7 DEF ReaderNet, ReaderPacket, OpenValid

\* A reader's packet to the server's side.
LEMMA ToServer ==
  ASSUME ReaderNet, NEW m \in net, m.to \in Session \cup {0}
  PROVE  m.packet.kind \in {"RRQ", "ACK", "ERROR"}
<1>1. m.to # -1
  BY TftpAssumption, SMTT(60)
<1> QED BY <1>1 DEF ReaderNet

\* So does the server opening a session.
LEMMA NetOpens ==
  ASSUME Unwrapped, len \in Lengths, ReaderNet, NEW s \in Session, Open(s)
  PROVE  ReaderNet'
<1>1. len \in Nat /\ server[s] \in Record
  BY TftpAssumption DEF ReaderNet, Sessions, Record
<1>2. PICK m \in net :
        /\ m.to = 0
        /\ \/ m.packet.kind = "RRQ"
              /\ Serve(s, m, [server[s] EXCEPT !.st = "open", !.block = 1], {Data(1)})
           \/ m.packet.kind = "WRQ" /\ Serve(s, m, [server[s] EXCEPT !.st = "open"], {Ack(0)})
           \/ Serve(s, m, [server[s] EXCEPT !.st = "done"], {Packet("ERROR", 0, <<>>)})
  BY DEF Open
<1>3. m.packet.kind # "WRQ"
  BY <1>2, ToServer
<1>4. CASE Serve(s, m, [server[s] EXCEPT !.st = "open", !.block = 1], {Data(1)})
  <2>1. PICK r : r = SetOpen(server[s], "open", 1)
    OBVIOUS
  <2>4. r \in Record /\ r.block = 1
    <3>1. PICK o \in Nat : o = 1
      OBVIOUS
    <3>2. r = SetOpen(server[s], "open", o) /\ server[s] \in Record
      BY <1>1, <2>1, <3>1
    <3> QED BY ONLY <3>1, <3>2, RecordOpen
  <2>2. Valid(1) /\ 1 \in 1 .. BlockRange
    <3>1. Off(1 - 1) = 0
      BY OffFacts, SMTT(60)
    <3> QED BY <1>1, <3>1, TftpAssumption, SMTT(60) DEF Valid
  <2>3. len' = len /\ Serve(s, m, r, {Data(1)})
    BY <1>4, <2>1 DEF Serve, local, SetOpen
  <2> QED BY <2>2, <2>3, <2>4, NetServer
<1>5. CASE Serve(s, m, [server[s] EXCEPT !.st = "done"], {Packet("ERROR", 0, <<>>)})
  <2>1. PICK r : r = SetSt(server[s], "done")
    OBVIOUS
  <2>4. r \in Record /\ r.st = "done"
    BY <1>1, <2>1, RecordSt
  <2>2. Packet("ERROR", 0, <<>>).kind = "ERROR"
    BY DEF Packet
  <2>3. len' = len /\ Serve(s, m, r, {Packet("ERROR", 0, <<>>)})
    BY <1>5, <2>1 DEF Serve, local, SetSt
  <2> QED BY <2>2, <2>3, <2>4, NetServer
<1> QED BY <1>2, <1>3, <1>4, <1>5

\* So does the server answering an acknowledgement.
LEMMA NetServes ==
  ASSUME Unwrapped, len \in Lengths, ReaderNet, NEW s \in Session, Serves(s)
  PROVE  ReaderNet'
<1> DEFINE b == server[s].block
           more == [server[s] EXCEPT !.block = b + 1]
<1>1. len \in Nat /\ server[s] \in Record /\ b \in Nat /\ b + 1 \in Nat
  BY TftpAssumption, SMTT(60) DEF ReaderNet, Sessions, Record
<1>2. PICK m \in net :
       /\ m.to = s
       /\ \/ /\ m.packet.kind = "ACK" /\ server[s].st = "open"
             /\ IF Len(Block(b)) < SEGSIZE THEN Serve(s, m, [server[s] EXCEPT !.st = "done"], {})
                ELSE Serve(s, m, more, {Data(b + 1)})
          \/ m.packet.kind = "DATA"
          \/ m.packet.kind = "ERROR" /\ Serve(s, m, [server[s] EXCEPT !.st = "done"], {})
  BY DEF Serves
<1>3. m.packet.kind # "DATA"
  BY <1>2, ToServer
<1>4. CASE Serve(s, m, [server[s] EXCEPT !.st = "done"], {})
  <2>1. PICK r : r = SetSt(server[s], "done")
    OBVIOUS
  <2>4. r \in Record /\ r.st = "done"
    BY <1>1, <2>1, RecordSt
  <2>2. PICK out : out = {}
    OBVIOUS
  <2>3. len' = len /\ Serve(s, m, r, out)
    BY <1>4, <2>1, <2>2 DEF Serve, local, SetSt
  <2> QED BY <2>2, <2>3, <2>4, NetServer, SMTT(60)
<1>5. CASE server[s].st = "open" /\ ~ (Len(Block(b)) < SEGSIZE) /\ Serve(s, m, more, {Data(b + 1)})
  <2>1. PICK r : r = SetCount(server[s], b + 1)
    OBVIOUS
  <2>7. r \in Record /\ r.block = b + 1
    BY <1>1, <2>1, RecordCount
  <2>2. Valid(b)
    BY <1>5 DEF ReaderNet
  <2>3. Off(b) <= len
    BY <1>1, <1>5, <2>2, BlockFacts, SMTT(60)
  <2>4. (b + 1) - 1 = b /\ b + 1 \in 1 .. BlockRange
    <3>1. b + 2 < BlockRange /\ BlockRange \in Nat
      BY <1>1, <2>3, Numbered, TftpAssumption
    <3> QED BY <1>1, <3>1, SMTT(60)
  <2>5. Valid(b + 1)
    BY <1>1, <2>3, <2>4, SMTT(60) DEF Valid
  <2>6. len' = len /\ Serve(s, m, r, {Data(b + 1)})
    BY <1>5, <2>1 DEF Serve, local, SetCount
  <2> HIDE DEF b
  <2> QED BY <2>4, <2>5, <2>6, <2>7, NetServer
<1> QED BY <1>2, <1>3, <1>4, <1>5

\* So does the server repeating a block.
LEMMA NetRepeats ==
  ASSUME Unwrapped, len \in Lengths, Reader, ReaderNet, NEW s \in Session, Repeat(s)
  PROVE  ReaderNet'
<1> DEFINE b == server[s].block
<1>1. len \in Nat /\ b \in Nat /\ Valid(b) /\ len' = len /\ server' = server
      /\ net' = net \cup {Answer(Data(b), s)}
  BY TftpAssumption DEF ReaderNet, Sessions, Repeat, local
<1>2. b \in 1 .. BlockRange
  <2>1. PICK c \in Nat : b = c + 1 /\ Off(c) <= len
    <3>1. b - 1 \in Nat /\ b = (b - 1) + 1
      BY <1>1, SMTT(60) DEF Valid
    <3> QED BY <1>1, <3>1 DEF Valid
  <2>2. c + 2 < BlockRange /\ BlockRange \in Nat
    BY <2>1, Numbered, TftpAssumption
  <2> QED BY <2>1, <2>2, SMTT(60)
<1> HIDE DEF b
<1>3. ReaderPacket(Answer(Data(b), s))
  <2>1. PICK x : x = Answer(Data(b), s)
    OBVIOUS
  <2>2. x.to = -1 /\ x.from = s /\ x.packet = Data(b)
    BY <2>1 DEF Answer
  <2>3. ReaderPacket(x)
    BY <1>1, <1>2, <2>2 DEF ReaderPacket
  <2> QED BY <2>1, <2>3
<1> QED BY <1>1, <1>3, NetClient

\* A step that leaves the client alone keeps the invariant of the reader.
LEMMA ReaderKeeps ==
  ASSUME ReaderClient, UNCHANGED <<pc, caller, tfp, req, failed, local, reading>>
  PROVE  ReaderClient'
<1>1. /\ pc' = pc /\ caller' = caller /\ tfp' = tfp /\ req' = req /\ failed' = failed
      /\ user' = user /\ len' = len /\ image' = image /\ nb' = nb /\ at' = at /\ dst' = dst
  BY DEF local, reading
<1>2. Types' /\ ReaderStart'
  BY <1>1 DEF ReaderClient, Types, ReaderStart, Asking
<1>3. ReaderHolds'
  BY <1>1 DEF ReaderClient, ReaderHolds, Valid, Upto, Block
<1>4. ReaderAsks'
  BY <1>1 DEF ReaderClient, ReaderAsks, Asking, Valid
<1>5. ReaderGets'
  BY <1>1 DEF ReaderClient, ReaderGets, InRead, Asking
<1>6. Updates'
  BY <1>1 DEF ReaderClient, Updates, InRead, Asking
<1> QED BY <1>2, <1>3, <1>4, <1>5, <1>6 DEF ReaderClient

\* The client puts requests and errors on the net.
LEMMA NetSends ==
  ASSUME ReaderNet, len' = len, server' = server, ReaderClient,
         NEW p, p.kind \in {"RRQ", "ACK", "ERROR"}, net' = net \cup {Sent(p, tfp.port)}
  PROVE  ReaderNet'
<1>1. PICK x : x = Sent(p, tfp.port)
  OBVIOUS
<1>2. x.packet = p /\ x.to = tfp.port /\ tfp.port \in Session \cup {0}
  BY <1>1 DEF Sent, ReaderClient, Types, IsFile
<1>3. ReaderPacket(x)
  BY <1>2 DEF ReaderPacket
<1> QED BY <1>1, <1>3, NetClient

\* No step of a reading client breaks the invariant of the network.
LEMMA ReaderNetSteps ==
  ASSUME ReaderNet, Reader, ReaderClient,
         \/ tftpopen \/ sendto \/ Timeout \/ recvfrom \/ synchnet \/ Copy \/ ReadReturns
         \/ tftpOpenEntry \/ SocketFails \/ Close
         \/ \E n \in Reads : tftpread(n)
         \/ \E offs \in Seeks : tftplseek(offs)
  PROVE  ReaderNet' /\ user' = user /\ len' = len
<1>1. user' = user /\ len' = len /\ server' = server
  BY DEF tftpopen, sendto, Timeout, recvfrom, synchnet, Copy, ReadReturns, tftpOpenEntry,
         SocketFails, Close, tftpclose, tftpread, tftplseek, local
<1>2. CASE net' \subseteq net
  BY <1>1, <1>2, NetClient
<1>3. CASE sendto
  <2>1. req.kind \in {"RRQ", "ACK", "ERROR"} /\ net' = net \cup {Sent(req, tfp.port)}
    BY <1>3 DEF sendto, ReaderClient, ReaderAsks, Asking
  <2> QED BY <1>1, <2>1, NetSends, SMTT(60)
<1>4. CASE Close \/ tftpOpenEntry
  <2>1. net' = net \/ net' = net \cup {Sent(Packet("ERROR", 0, <<>>), tfp.port)}
    BY <1>4 DEF Close, tftpOpenEntry, tftpclose
  <2>2. PICK p : p = Packet("ERROR", 0, <<>>)
    OBVIOUS
  <2>3. p.kind = "ERROR"
    BY <2>2 DEF Packet
  <2> QED BY <1>1, <1>2, <2>1, <2>2, <2>3, NetSends, SMTT(60)
<1>5. CASE recvfrom \/ synchnet
  <2>1. net' \subseteq net
    BY <1>5 DEF recvfrom, synchnet, Consume
  <2> QED BY <1>2, <2>1
<1>6. CASE \/ tftpopen \/ Timeout \/ Copy \/ ReadReturns \/ SocketFails
           \/ \E n \in Reads : tftpread(n)
           \/ \E offs \in Seeks : tftplseek(offs)
  <2>1. net' = net
    BY <1>6 DEF tftpopen, Timeout, Copy, ReadReturns, SocketFails, tftpread, tftplseek
  <2> QED BY <1>2, <2>1
<1> QED BY <1>1, <1>3, <1>4, <1>5, <1>6

\* No step at all breaks either invariant while the user reads.
LEMMA ReaderStep ==
  ASSUME Unwrapped, len \in Lengths, Reader, ReaderClient, ReaderNet, Next
  PROVE  ReaderClient' /\ ReaderNet' /\ user' = user /\ len' = len
<1>1. len \in Nat /\ pc # "write" /\ user # "write"
  BY TftpAssumption DEF ReaderClient, ReaderStart, Reader
<1>2. ~ Fill /\ ~ WriteReturns /\ \A n \in Reads : ~ tftpwrite(n)
  BY <1>1 DEF Fill, WriteReturns, tftpwrite
<1>3. CASE tftpopen
  BY <1>3, ReaderOpens, ReaderNetSteps
<1>4. CASE sendto
  BY <1>1, <1>4, ReaderSends, ReaderNetSteps
<1>5. CASE Timeout \/ SocketFails
  BY <1>1, <1>5, ReaderBreaks, ReaderNetSteps
<1>6. CASE recvfrom
  BY <1>1, <1>6, ReaderHears, ReaderNetSteps
<1>7. CASE Copy
  BY <1>7, ReaderCopies, ReaderNetSteps
<1>8. CASE ReadReturns
  BY <1>1, <1>8, ReaderReturns, ReaderNetSteps
<1>9. CASE tftpOpenEntry
  BY <1>1, <1>9, ReaderFlashes, ReaderNetSteps
<1>10. CASE Close
  BY <1>10, ReaderCloses, ReaderNetSteps
<1>11. CASE \E n \in Reads : tftpread(n)
  BY <1>11, ReaderBegins, ReaderNetSteps
<1>12. CASE \E offs \in Seeks : tftplseek(offs)
  BY <1>12, ReaderSeeks, ReaderNetSteps
<1>13. CASE \E s \in Session : Open(s) \/ Serves(s) \/ Repeat(s)
  <2>1. PICK s \in Session : Open(s) \/ Serves(s) \/ Repeat(s)
    BY <1>13
  <2>2. UNCHANGED <<pc, caller, tfp, req, failed, local, reading>>
    BY <2>1 DEF Open, Serves, Repeat, Serve
  <2>3. ReaderNet'
    BY <2>1, NetOpens, NetServes, NetRepeats
  <2> QED BY <2>2, <2>3, ReaderKeeps DEF local
<1>14. CASE synchnet
  <2>1. UNCHANGED <<pc, caller, tfp, req, failed, local, reading>>
    BY <1>14 DEF synchnet
  <2> QED BY <1>14, <2>1, ReaderKeeps, ReaderNetSteps
<1> QED BY <1>2, <1>3, <1>4, <1>5, <1>6, <1>7, <1>8, <1>9, <1>10, <1>11, <1>12, <1>13, <1>14
        DEF Next, Step

-----------------------------------------------------------------------------
\* A writer's steps.

\* The types that the writer's invariant gives.
LEMMA WriterFile ==
  ASSUME WriterState
  PROVE  /\ IsFile(tfp) /\ tfp.block \in Nat /\ tfp.port \in Session \cup {0} /\ tfp.start \in Nat
         /\ tfp.end \in Nat /\ tfp.foffs \in Nat /\ nb \in Nat /\ server \in [Session -> Record]
BY DEF WriterState, Types, IsFile, Sessions, Record

\* A step that keeps the port, the block and the request.
LEMMA PacketsStay ==
  ASSUME WriterNet, tfp'.port = tfp.port, tfp'.block = tfp.block, req' = req, server' = server,
         \A m \in net' : m \in net \/ WriterPacket(m)
  PROVE  WriterNet'
<1>1. \A m \in net' : WriterPacket(m)
  BY DEF WriterNet
<1> QED BY <1>1 DEF WriterNet, WriterPacket, Ack, Packet

\* A step that goes on to the next block.
LEMMA PacketsAge ==
  ASSUME WriterNet, tfp.block \in Nat, tfp'.port = tfp.port, tfp'.block = tfp.block + 1,
         server' = server, net' = net
  PROVE  WriterNet'
<1> SUFFICES ASSUME NEW m \in net' PROVE WriterPacket(m)'
  BY DEF WriterNet
<1>1. WriterPacket(m)
  BY DEF WriterNet
<1>2. CASE /\ m.to = tfp.port /\ tfp.port # 0 /\ m.packet.kind = "DATA"
           /\ m.packet.block \in 1 .. tfp.block
  <2>1. m.packet.block \in 1 .. tfp'.block /\ m.packet.block # tfp'.block
    BY <1>2, SMTT(60)
  <2> QED BY <1>2, <2>1 DEF WriterPacket
<1>3. CASE ~ (m.to = tfp.port /\ tfp.port # 0 /\ m.packet.kind = "DATA" /\ m.packet.block \in 1 .. tfp.block)
  BY <1>1, <1>3 DEF WriterPacket, Ack, Packet
<1> QED BY <1>2, <1>3

\* The call of tftpopen keeps the writer's invariant.
LEMMA WriterOpens ==
  ASSUME user = "write", WriterState, tftpopen
  PROVE  WriterState'
<1>1. /\ pc = "start" /\ Unopened /\ tfp' = SetBlock(tfp, 0) /\ Asking' /\ caller' = "open"
      /\ req' = Packet("WRQ", 0, <<>>) /\ net' = {} /\ server' = server
      /\ nb' = nb /\ at' = at /\ dst' = dst /\ image' = image /\ failed' = failed
  BY DEF WriterState, WriterAt, Unopened, Opening, Filling, Sending, Stored, tftpopen, Request,
         Reader, Asking, SetBlock, local, reading
<1>2. /\ IsFile(tfp') /\ tfp'.block = 0 /\ tfp'.port = tfp.port
      /\ tfp'.end = tfp.end /\ tfp'.foffs = tfp.foffs /\ tfp'.buf = tfp.buf
  <2>1. PICK o \in Nat : o = 0
    OBVIOUS
  <2>2. tfp' = SetBlock(tfp, o) /\ IsFile(tfp)
    BY <1>1, <2>1, WriterFile
  <2> QED BY ONLY <2>1, <2>2, FileBlock
<1>3. Opening'
  BY <1>1, <1>2 DEF Unopened, Fresh, Opening
<1>4. Types' /\ Sessions'
  BY <1>1, <1>2 DEF WriterState, Types, Sessions
<1>5. WriterRest' /\ WriterNet'
  BY <1>1, <1>2 DEF WriterState, WriterRest, WriterNet
<1> QED BY <1>3, <1>4, <1>5 DEF WriterState, WriterAt

\* The client waits and sends again.
LEMMA WriterAsks ==
  ASSUME WriterState, Asking, pc' \in {"send", "select", "synch"}, caller' = caller,
         tfp' = tfp, req' = req, failed' = failed, server' = server, len' = len, UNCHANGED <<local, reading>>,
         \A m \in net' : m \in net \/ WriterPacket(m)
  PROVE  WriterState'
<1>1. /\ Asking' /\ nb' = nb /\ at' = at /\ dst' = dst /\ image' = image
  BY DEF Asking, local, reading
<1>2. Types' /\ Sessions' /\ WriterRest'
  BY <1>1 DEF WriterState, Types, Sessions, WriterRest
<1>3. WriterNet'
  BY PacketsStay DEF WriterState
<1>4. Opening \/ Sending
  BY DEF WriterState, WriterAt, Unopened, Filling, Stored, Asking
<1>5. CASE Opening
  BY <1>1, <1>2, <1>3, <1>5 DEF WriterState, WriterAt, Opening, Fresh
<1>6. CASE Sending
  <2>1. Sending'
    BY <1>1, <1>6 DEF Sending, Has, Peer
  <2> QED BY <1>2, <1>3, <2>1 DEF WriterState, WriterAt
<1> QED BY <1>4, <1>5, <1>6

\* So does a packet the client sends.
LEMMA WriterSends ==
  ASSUME user = "write", WriterState, sendto
  PROVE  WriterState'
<1>1. /\ Asking /\ pc' = "select" /\ caller' = caller /\ tfp' = tfp /\ req' = req
      /\ failed' = failed /\ server' = server /\ len' = len /\ UNCHANGED <<local, reading>>
      /\ net' = net \cup {Sent(req, tfp.port)}
  BY DEF sendto, Reader, Asking, local
<1>2. PICK x : x = Sent(req, tfp.port)
  OBVIOUS
<1>3. x.to = tfp.port /\ x.packet = req
  BY <1>2 DEF Sent
<1>4. WriterPacket(x)
  <2>1. CASE Opening
    <3>1. req.kind = "WRQ" /\ tfp.port = 0
      BY <2>1 DEF Opening, Fresh, Packet
    <3> QED BY <1>3, <3>1 DEF WriterPacket
  <2>2. CASE Sending
    <3>1. req.kind = "DATA" /\ req.block = tfp.block /\ tfp.port # 0 /\ tfp.block \in 1 .. tfp.block
      BY <2>2, WriterFile, SMTT(60) DEF Sending, Packet
    <3> QED BY <1>3, <3>1 DEF WriterPacket
  <2> QED BY <1>1, <2>1, <2>2 DEF WriterState, WriterAt, Unopened, Filling, Stored, Asking
<1> QED BY <1>1, <1>2, <1>4, WriterAsks

\* A call that returns a negative number has failed.
LEMMA ReturnFails ==
  ASSUME NEW n \in Int, n < 0, NEW f, Return(n, f)
  PROVE  failed' = TRUE
<1>1. failed' = (failed \/ n < 0)
  BY DEF Return
<1> QED BY <1>1

\* A timeout or a socket error fails the transfer or keeps the invariant.
LEMMA WriterBreaks ==
  ASSUME user = "write", WriterState, Timeout \/ SocketFails
  PROVE  failed' \/ WriterState'
<1>1. CASE SocketFails
  <2>1. PICK n \in Int : n = -1 /\ n < 0
    BY SMTT(60)
  <2>2. Return(n, tfp)
    BY <1>1, <2>1 DEF SocketFails
  <2> QED BY <2>1, <2>2, ReturnFails
<1>2. CASE Timeout
  <2>1. /\ Asking /\ pc' = "send" /\ caller' = caller /\ tfp' = tfp /\ req' = req
        /\ failed' = failed /\ server' = server /\ len' = len /\ UNCHANGED <<local, reading>>
        /\ net' = net
    BY <1>2 DEF Timeout, Reader, Asking, local
  <2> QED BY <2>1, WriterAsks
<1> QED BY <1>1, <1>2

\* The call and the return of tftpwrite keep it.
LEMMA WriterBegins ==
  ASSUME user = "write", WriterState,
         WriteReturns \/ \E n \in Reads : tftpwrite(n)
  PROVE  WriterState'
<1>1. /\ pc \in {"user", "write"} /\ pc' \in {"user", "write"} /\ nb' \in Nat
      /\ pc' = "write" => tfp.foffs + nb' <= len
  <2>1. CASE WriteReturns
    BY <2>1, WriterFile DEF WriteReturns, reading
  <2>2. CASE \E n \in Reads : tftpwrite(n)
    BY <2>2, TftpAssumption DEF tftpwrite
  <2> QED BY <2>1, <2>2
<1>2. /\ tfp' = tfp /\ req' = req /\ failed' = failed /\ server' = server /\ net' = net
      /\ len' = len /\ at' = at /\ dst' = dst /\ image' = image
  BY DEF WriteReturns, tftpwrite, local, reading
<1>3. Types' /\ Sessions' /\ WriterRest'
  BY <1>1, <1>2 DEF WriterState, Types, Sessions, WriterRest
<1>4. WriterNet'
  BY <1>2, PacketsStay DEF WriterState
<1>5. Filling
  BY <1>1 DEF WriterState, WriterAt, Unopened, Opening, Sending, Stored, Asking
<1>6. Filling'
  BY <1>1, <1>2, <1>5 DEF Filling, Has, Peer
<1> QED BY <1>3, <1>4, <1>6 DEF WriterState, WriterAt

\* The session a writer talks to has a full block less than the file.
LEMMA NextNumber ==
  ASSUME Unwrapped, len \in Lengths, NEW b \in Nat, Off(b) <= len
  PROVE  /\ (b + 1) % BlockRange = b + 1 /\ b + 1 \in Nat /\ (b + 1) - 1 = b
         /\ Off(b) \in Nat /\ Off(b + 1) = Off(b) + SEGSIZE
BY Numbered, OffFacts, SMTT(60)

\* So does closing the file, which sends what the buffer holds.
LEMMA WriterCloses ==
  ASSUME Unwrapped, len \in Lengths, user = "write", WriterState, Close
  PROVE  WriterState'
<1>1. Filling /\ pc = "user"
  BY DEF WriterState, WriterAt, Unopened, Opening, Filling, Sending, Stored, Asking, Close
<1>2. PICK b \in Nat : b = tfp.block
  BY WriterFile
<1>3. /\ IsFile(tfp) /\ tfp.end \in Nat /\ tfp.foffs \in Nat /\ tfp.end < SEGSIZE /\ len \in Nat
      /\ tfp.foffs = Off(b) + tfp.end /\ tfp.foffs <= len /\ tfp.buf = Bytes(Off(b), tfp.foffs)
      /\ Off(b) \in Nat /\ SEGSIZE \in Nat /\ tfp.port # 0 /\ Has(b, Off(b)) /\ Peer.st = "open"
  BY <1>1, <1>2, WriterFile, OffFacts, TftpAssumption DEF Filling
<1>4. Off(b) <= len /\ Off(b) <= tfp.foffs
  BY ONLY <1>3
<1>5. /\ (b + 1) % BlockRange = b + 1 /\ b + 1 \in Nat /\ (b + 1) - 1 = b
      /\ Off(b + 1) = Off(b) + SEGSIZE
  BY <1>4, NextNumber
<1>6. /\ Asking' /\ caller' = "close" /\ tfp' = SetBlock(tfp, b + 1)
      /\ req' = Packet("DATA", tfp'.block, SubSeq(tfp.buf, 1, tfp.end))
      /\ failed' = failed /\ server' = server /\ net' = net
      /\ len' = len /\ nb' = nb /\ at' = at /\ dst' = dst /\ image' = image
  BY <1>2, <1>5 DEF Close, tftpclose, Reader, tftpnxtblk, SetBlock, Request, Asking, local, reading
<1>7. /\ IsFile(tfp') /\ tfp'.block = b + 1 /\ tfp'.port = tfp.port /\ tfp'.eof = tfp.eof
      /\ tfp'.start = tfp.start /\ tfp'.end = tfp.end /\ tfp'.foffs = tfp.foffs /\ tfp'.buf = tfp.buf
  <2>1. PICK c \in Nat : c = b + 1
    BY <1>5
  <2>2. tfp' = SetBlock(tfp, c) /\ IsFile(tfp)
    BY <1>3, <1>6, <2>1
  <2>3. /\ IsFile(tfp') /\ tfp'.block = c /\ tfp'.port = tfp.port /\ tfp'.eof = tfp.eof
        /\ tfp'.start = tfp.start /\ tfp'.end = tfp.end /\ tfp'.foffs = tfp.foffs
        /\ tfp'.buf = tfp.buf
    BY ONLY <2>1, <2>2, FileBlock
  <2> QED BY <2>1, <2>3
<1>8. SubSeq(tfp.buf, 1, tfp.end) = Bytes(Off(b), tfp.foffs)
  <2>1. PICK i \in Nat, j \in Nat : i = Off(b) /\ j = tfp.foffs
    BY <1>3
  <2>2. i <= j /\ j - i = tfp.end
    BY <1>3, <2>1, SMTT(60)
  <2>3. PICK t \in Seq(Nat) : t = Bytes(i, j) /\ Len(t) = tfp.end
    BY <2>2, BytesFacts
  <2>4. SubSeq(t, 1, Len(t)) = t
    BY ONLY <2>3
  <2> QED BY <1>3, <2>1, <2>3, <2>4
<1>9. Sending'
  <2>1. 1 <= b + 1 /\ tfp.foffs < Off(b + 1) /\ tfp.end = tfp.foffs - Off(b)
    BY <1>3, <1>5, SMTT(60)
  <2>2. tfp'.block - 1 = b
    BY <1>5, <1>7
  <2>3. Has(b, Off(b))' /\ Peer'.st = "open"
    BY <1>3, <1>6, <1>7 DEF Has, Peer
  <2>4. Off(tfp'.block - 1) = Off(b) /\ Off(tfp'.block) = Off(b + 1)
    BY <1>7, <2>2
  <2>5. req' = Packet("DATA", tfp'.block, Bytes(Off(tfp'.block - 1), tfp'.foffs))
    BY <1>6, <1>7, <1>8, <2>4
  <2>6. (Has(tfp.block - 1, Off(tfp.block - 1)))'
    BY <2>2, <2>3, <2>4 DEF Has, Peer
  <2> QED BY <1>3, <1>4, <1>6, <1>7, <2>1, <2>3, <2>4, <2>5, <2>6 DEF Sending
<1>10. Types' /\ Sessions' /\ WriterRest'
  BY <1>6, <1>7 DEF WriterState, Types, Sessions, WriterRest
<1>11. WriterNet'
  BY <1>2, <1>6, <1>7, PacketsAge DEF WriterState
<1> QED BY <1>9, <1>10, <1>11 DEF WriterState, WriterAt

\* So does filling the buffer, which is sent when it is full.
LEMMA WriterFills ==
  ASSUME Unwrapped, len \in Lengths, user = "write", WriterState, Fill
  PROVE  WriterState'
<1> DEFINE k == Min({SEGSIZE - tfp.end, nb})
           f == SetFill(tfp, tfp.end + k, tfp.foffs + k, tfp.buf \o Bytes(tfp.foffs, tfp.foffs + k))
<1>1. Filling /\ pc = "write" /\ nb # 0
  BY DEF WriterState, WriterAt, Unopened, Opening, Filling, Sending, Stored, Asking, Fill
<1>2. PICK b \in Nat : b = tfp.block
  BY WriterFile
<1>3. /\ IsFile(tfp) /\ tfp.end \in Nat /\ tfp.foffs \in Nat /\ tfp.end < SEGSIZE /\ len \in Nat
      /\ tfp.foffs = Off(b) + tfp.end /\ tfp.foffs <= len /\ tfp.buf = Bytes(Off(b), tfp.foffs)
      /\ Off(b) \in Nat /\ SEGSIZE \in Nat /\ tfp.port # 0 /\ Has(b, Off(b)) /\ Peer.st = "open"
      /\ nb \in Nat /\ tfp.foffs + nb <= len
  BY <1>1, <1>2, WriterFile, OffFacts, TftpAssumption DEF Filling
<1>4. Off(b) <= len /\ Off(b) <= tfp.foffs
  BY ONLY <1>3
<1>5. /\ (b + 1) % BlockRange = b + 1 /\ b + 1 \in Nat /\ (b + 1) - 1 = b
      /\ Off(b + 1) = Off(b) + SEGSIZE
  BY <1>4, NextNumber
<1>6. k \in Nat /\ k <= nb /\ k <= SEGSIZE - tfp.end
  <2>1. SEGSIZE - tfp.end \in Nat
    BY <1>3, SMTT(60)
  <2>2. k = IF SEGSIZE - tfp.end <= nb THEN SEGSIZE - tfp.end ELSE nb
    BY <1>3, <2>1, MinTwo
  <2> QED BY <1>3, <2>1, <2>2, SMTT(60)
<1>7. /\ nb' = nb - k /\ failed' = failed /\ server' = server /\ net' = net
      /\ len' = len /\ at' = at /\ dst' = dst /\ image' = image
      /\ \/ /\ f.end = SEGSIZE /\ tfp' = tftpnxtblk(f)
            /\ Request("write", Packet("DATA", tfp'.block, f.buf))
         \/ f.end < SEGSIZE /\ Goes("write", f)
  BY DEF Fill, SetFill, local
<1> HIDE DEF k
<1>8. tfp.buf \o Bytes(tfp.foffs, tfp.foffs + k) = Bytes(Off(b), tfp.foffs + k)
  <2>1. tfp.foffs + k \in Nat /\ tfp.foffs <= tfp.foffs + k
    BY <1>3, <1>6, SMTT(60)
  <2>2. Bytes(Off(b), tfp.foffs) \o Bytes(tfp.foffs, tfp.foffs + k) = Bytes(Off(b), tfp.foffs + k)
    BY <1>3, <1>4, <2>1, BytesJoin
  <2> QED BY <1>3, <2>2
<1>9. /\ IsFile(f) /\ f.block = b /\ f.port = tfp.port /\ f.end = tfp.end + k
      /\ f.foffs = tfp.foffs + k /\ f.buf = Bytes(Off(b), tfp.foffs + k)
  <2>1. PICK e \in Nat : e = tfp.end + k
    BY <1>3, <1>6, SMTT(60)
  <2>2. PICK o \in Nat : o = tfp.foffs + k
    BY <1>3, <1>6, SMTT(60)
  <2>3. PICK d : d = tfp.buf \o Bytes(tfp.foffs, tfp.foffs + k)
    OBVIOUS
  <2>4. PICK g : g = SetFill(tfp, e, o, d)
    OBVIOUS
  <2>5. IsFile(g) /\ g.block = tfp.block /\ g.port = tfp.port /\ g.end = e /\ g.foffs = o /\ g.buf = d
    BY ONLY <1>3, <2>4, FileFill
  <2>6. f = g
    BY <2>1, <2>2, <2>3, <2>4
  <2> QED BY <1>2, <1>8, <2>1, <2>2, <2>3, <2>5, <2>6
<1> HIDE DEF f
<1>10. /\ nb' \in Nat /\ (tfp.foffs + k) + nb' <= len /\ tfp.foffs + k \in Nat
       /\ tfp.foffs + k <= len /\ tfp.end + k \in Nat
       /\ tfp.foffs + k = Off(b) + (tfp.end + k) /\ Off(b) <= tfp.foffs + k
  <2>1. nb' = nb - k
    BY <1>7
  <2> QED BY ONLY <1>3, <1>6, <2>1
<1>11. Sessions'
  BY <1>7 DEF WriterState, Sessions
<1>12. CASE f.end = SEGSIZE /\ tfp' = tftpnxtblk(f) /\ Request("write", Packet("DATA", tfp'.block, f.buf))
  <2>1. tfp' = SetBlock(f, b + 1)
    BY <1>5, <1>9, <1>12 DEF tftpnxtblk, SetBlock
  <2>2. /\ IsFile(tfp') /\ tfp'.block = b + 1 /\ tfp'.port = tfp.port /\ tfp'.end = tfp.end + k
        /\ tfp'.foffs = tfp.foffs + k /\ tfp'.buf = f.buf
    <3>1. PICK c \in Nat : c = b + 1
      BY <1>5
    <3>2. tfp' = SetBlock(f, c)
      BY <2>1, <3>1
    <3>3. /\ IsFile(tfp') /\ tfp'.block = c /\ tfp'.port = f.port /\ tfp'.end = f.end
          /\ tfp'.foffs = f.foffs /\ tfp'.buf = f.buf
      BY ONLY <1>9, <3>2, FileBlock
    <3> QED BY <1>9, <3>1, <3>3
  <2>3. Asking' /\ caller' = "write" /\ req' = Packet("DATA", tfp'.block, f.buf)
    BY <1>12 DEF Request, Asking
  <2>4. tfp.foffs + k = Off(b + 1) /\ 1 <= b + 1 /\ tfp.end + k = (tfp.foffs + k) - Off(b)
    BY <1>3, <1>5, <1>9, <1>10, <1>12, SMTT(60)
  <2>5. tfp'.block - 1 = b
    BY <1>5, <2>2
  <2>6. Has(b, Off(b))' /\ Peer'.st = "open"
    BY <1>3, <1>7, <2>2 DEF Has, Peer
  <2>7. Off(tfp'.block - 1) = Off(b) /\ Off(tfp'.block) = Off(b + 1)
    BY <2>2, <2>5
  <2>8. req' = Packet("DATA", tfp'.block, Bytes(Off(tfp'.block - 1), tfp'.foffs))
    BY <1>9, <2>2, <2>3, <2>7
  <2>9. (Has(tfp.block - 1, Off(tfp.block - 1)))'
    BY <2>5, <2>6, <2>7 DEF Has, Peer
  <2>10. Sending'
    BY <1>3, <1>7, <1>10, <2>2, <2>3, <2>4, <2>6, <2>7, <2>8, <2>9 DEF Sending
  <2>11. WriterNet'
    BY <1>2, <1>7, <2>2, PacketsAge DEF WriterState
  <2>12. Types' /\ WriterRest'
    BY <1>7, <1>10, <2>2 DEF WriterState, Types, WriterRest
  <2> QED BY <1>11, <2>10, <2>11, <2>12 DEF WriterState, WriterAt
<1>13. CASE f.end < SEGSIZE /\ Goes("write", f)
  <2>1. pc' = "write" /\ tfp' = f /\ req' = req
    BY <1>13 DEF Goes
  <2>2. Has(b, Off(b))' /\ Peer'.st = "open"
    BY <1>3, <1>7, <1>9, <2>1 DEF Has, Peer
  <2>3. (Has(tfp.block, Off(tfp.block)))'
    BY <1>9, <2>1, <2>2 DEF Has, Peer
  <2>4. Filling'
    BY <1>3, <1>7, <1>9, <1>10, <1>13, <2>1, <2>2, <2>3 DEF Filling
  <2>5. WriterNet'
    BY <1>2, <1>7, <1>9, <2>1, PacketsStay DEF WriterState
  <2>6. Types' /\ WriterRest'
    BY <1>7, <1>9, <1>10, <2>1 DEF WriterState, Types, WriterRest
  <2> QED BY <1>11, <2>4, <2>5, <2>6 DEF WriterState, WriterAt
<1> QED BY <1>7, <1>12, <1>13

\* Two handles that agree on every field are equal.
LEMMA SameFields ==
  ASSUME NEW f, NEW g, IsFile(f), IsFile(g), f.block = g.block, f.port = g.port, f.eof = g.eof,
         f.start = g.start, f.end = g.end, f.foffs = g.foffs, f.buf = g.buf
  PROVE  f = g
BY DEF IsFile

\* tftpopen hears of the session that answered first.
LEMMA WriterConnects ==
  ASSUME len \in Nat, user = "write", WriterState, Opening, NEW q \in Session, NEW f, IsFile(f),
         f.port = q, f.block = tfp.block, f.end = tfp.end, f.foffs = tfp.foffs, f.buf = tfp.buf,
         server[q].st = "open" \/ 1 <= server[q].block,
         failed' = failed, Goes("user", f), server' = server, net' \subseteq net,
         UNCHANGED <<local, reading>>
  PROVE  WriterState'
<1>1. /\ tfp' = f /\ pc' = "user" /\ req' = req /\ len' = len
      /\ nb' = nb /\ at' = at /\ dst' = dst /\ image' = image
  BY DEF Goes, local, reading
<1>2. /\ q # 0 /\ tfp.port = 0 /\ f.block = 0 /\ f.end = 0 /\ f.buf = <<>> /\ f.foffs = 0
  BY TftpAssumption DEF Opening, Fresh
<1>3. \A s \in Session : server[s].block = 0 /\ server[s].stored = <<>>
  BY <1>2, TftpAssumption DEF WriterState, WriterRest
<1>4. server[q].st = "open"
  BY <1>3, SMTT(60)
<1>5. Off(0) = 0 /\ Bytes(0, 0) = <<>> /\ SEGSIZE \in Nat /\ 0 < SEGSIZE
  BY OffFacts, BytesEmpty
<1>6. Filling'
  <2>1. /\ tfp'.port = q /\ tfp'.block = 0 /\ tfp'.end = 0 /\ tfp'.foffs = 0 /\ tfp'.buf = <<>>
        /\ Off(tfp'.block) = 0
    BY <1>1, <1>2, <1>5
  <2>2. Peer' = server[q]
    BY <2>1 DEF Peer
  <2>3. (Has(tfp.block, Off(tfp.block)))' /\ Peer'.st = "open"
    BY <1>3, <1>4, <1>5, <2>1, <2>2 DEF Has
  <2> QED BY <1>1, <1>2, <1>5, <2>1, <2>3, SMTT(60) DEF Filling
<1>7. WriterNet'
  <2> SUFFICES ASSUME NEW m \in net' PROVE WriterPacket(m)'
    BY DEF WriterNet
  <2>1. WriterPacket(m) /\ tfp.port = 0
    BY <1>2 DEF WriterState, WriterNet
  <2> QED BY <2>1 DEF WriterPacket, Ack, Packet
<1>8. Types' /\ Sessions' /\ WriterRest'
  BY <1>1, <1>3 DEF WriterState, Types, Sessions, WriterRest
<1> QED BY <1>6, <1>7, <1>8 DEF WriterState, WriterAt

\* The block that was sent is acknowledged.
LEMMA WriterGoesOn ==
  ASSUME len \in Nat, user = "write", WriterState, Sending, Has(tfp.block, tfp.foffs),
         Peer.st = IF caller = "close" THEN "done" ELSE "open",
         Return(Len(req.data), tfp), server' = server, net' \subseteq net, UNCHANGED <<local, reading>>
  PROVE  WriterState'
<1>1. len' = len /\ nb' = nb /\ at' = at /\ dst' = dst /\ image' = image
  BY DEF local, reading
<1>2. PICK c \in Nat : c = tfp.block - 1 /\ tfp.block = c + 1
  BY WriterFile, SMTT(60) DEF Sending
<1>3. /\ Off(c) \in Nat /\ Off(tfp.block) = Off(c) + SEGSIZE /\ SEGSIZE \in Nat /\ 0 < SEGSIZE
      /\ Off(tfp.block) \in Nat
  BY <1>2, OffNext
<1>4. /\ IsFile(tfp) /\ tfp.foffs \in Nat /\ tfp.port # 0 /\ nb \in Nat
      /\ Off(c) <= tfp.foffs /\ tfp.end = tfp.foffs - Off(c)
      /\ \/ caller = "write" /\ tfp.foffs = Off(tfp.block) /\ tfp.foffs + nb <= len
         \/ caller = "close" /\ tfp.foffs < Off(tfp.block) /\ tfp.foffs <= len
  BY <1>2, WriterFile DEF Sending
<1>5. PICK n \in Nat : n = Len(req.data)
  <2>1. req.data = Bytes(Off(c), tfp.foffs)
    BY <1>2 DEF Sending, Packet
  <2>2. Len(Bytes(Off(c), tfp.foffs)) = tfp.foffs - Off(c)
    BY <1>3, <1>4, BytesFacts
  <2> QED BY <1>3, <1>4, <2>1, <2>2, SMTT(60)
<1>6. ~ (n < 0) /\ Return(n, tfp)
  BY <1>5, SMTT(60)
<1>7. failed' = failed
  <2>1. failed' = (failed \/ n < 0) /\ failed \in BOOLEAN
    BY <1>6 DEF Return, WriterState, Types
  <2> QED BY <1>6, <2>1
<1>8. CASE caller = "write"
  <2>1. NextBlock(tfp)
    BY <1>6, <1>8 DEF Return
  <2>2. pc' = "write" /\ req' = req /\ tfp' = SetNext(tfp, 0, <<>>)
    BY <2>1 DEF NextBlock, Goes, SetNext
  <2>3. /\ IsFile(tfp') /\ tfp'.block = tfp.block /\ tfp'.port = tfp.port
        /\ tfp'.end = 0 /\ tfp'.foffs = tfp.foffs /\ tfp'.buf = <<>>
    <3>1. PICK z \in Nat : z = 0
      OBVIOUS
    <3>2. PICK d : d = <<>>
      OBVIOUS
    <3>3. tfp' = SetNext(tfp, z, d) /\ IsFile(tfp)
      BY <1>4, <2>2, <3>1, <3>2
    <3>4. /\ IsFile(tfp') /\ tfp'.block = tfp.block /\ tfp'.port = tfp.port
          /\ tfp'.end = z /\ tfp'.foffs = tfp.foffs /\ tfp'.buf = d
      BY ONLY <3>3, FileNext
    <3> QED BY <3>1, <3>2, <3>4
  <2>4. tfp.foffs = Off(tfp.block) /\ tfp.foffs + nb <= len /\ tfp.foffs <= len
    BY <1>3, <1>4, <1>8, SMTT(60)
  <2>5. Bytes(Off(tfp.block), tfp.foffs) = <<>> /\ tfp.foffs = Off(tfp.block) + 0
    BY <1>3, <2>4, BytesEmpty, SMTT(60)
  <2>6. (Has(tfp.block, Off(tfp.block)))' /\ Peer'.st = "open"
    BY <1>8, <2>3, <2>4 DEF Has, Peer
  <2>7. Filling'
    BY <1>1, <1>3, <1>4, <2>2, <2>3, <2>4, <2>5, <2>6 DEF Filling
  <2>8. WriterNet'
    BY <2>2, <2>3, PacketsStay DEF WriterState
  <2>9. Types' /\ Sessions' /\ WriterRest'
    BY <1>1, <1>7, <2>3 DEF WriterState, Types, Sessions, WriterRest
  <2> QED BY <2>7, <2>8, <2>9 DEF WriterState, WriterAt
<1>9. CASE caller = "close"
  <2>1. tfp.end < SEGSIZE
    BY <1>3, <1>4, <1>9, SMTT(60)
  <2>2. tfp.end # SEGSIZE
    BY <1>3, <1>4, <2>1, SMTT(60)
  <2>3. Goes("end", tfp)
    BY <1>6, <1>9, <2>2 DEF Return
  <2>4. pc' = "end" /\ req' = req /\ tfp' = tfp
    BY <2>3 DEF Goes
  <2>5. Stored'
    BY <1>4, <1>9, <2>4 DEF Stored, Has, Peer
  <2>6. WriterNet'
    BY <2>4, PacketsStay DEF WriterState
  <2>7. Types' /\ Sessions' /\ WriterRest'
    BY <1>1, <1>7, <2>4 DEF WriterState, Types, Sessions, WriterRest
  <2> QED BY <2>5, <2>6, <2>7 DEF WriterState, WriterAt
<1> QED BY <1>4, <1>8, <1>9

\* A packet that reaches a writing client fails the transfer or keeps the invariant.
LEMMA WriterHears ==
  ASSUME Unwrapped, len \in Lengths, user = "write", WriterState, recvfrom
  PROVE  failed' \/ WriterState'
<1>1. /\ pc = "select" /\ Asking /\ IsFile(tfp) /\ server' = server /\ len' = len /\ len \in Nat
      /\ UNCHANGED <<local, reading>> /\ ~ Reader /\ Wanted = "ACK"
  BY WriterFile, TftpAssumption DEF recvfrom, Asking, Reader, Wanted, local
<1>2. PICK m \in net : \E f :
        /\ f = [tfp EXCEPT !.buf = IF Reader THEN m.packet.data ELSE @,
                           !.port = IF (IF Reader THEN tfp.block <= 1 ELSE tfp.block = 0)
                                    THEN m.from ELSE @]
        /\ m.to = -1 /\ Consume(m)
        /\ IF f.port = m.from THEN Take(m.packet, f) ELSE Again(f)
  BY DEF recvfrom
<1>3. PICK f :
        /\ f = [tfp EXCEPT !.buf = IF Reader THEN m.packet.data ELSE @,
                           !.port = IF (IF Reader THEN tfp.block <= 1 ELSE tfp.block = 0)
                                    THEN m.from ELSE @]
        /\ IF f.port = m.from THEN Take(m.packet, f) ELSE Again(f)
  BY <1>2
<1> DEFINE p == m.packet
<1>4. net' \subseteq net /\ m.to = -1
  BY <1>2 DEF Consume
<1>5. /\ m.from \in Session
      /\ \/ p.kind = "ERROR"
         \/ /\ server[m.from].st = "open" \/ 1 <= server[m.from].block
            /\ \E b \in 0 .. server[m.from].block : p = Ack(b)
  <2>1. WriterPacket(m) /\ tfp.port # -1
    BY WriterFile, TftpAssumption, SMTT(60) DEF WriterState, WriterNet
  <2> QED BY <1>4, <2>1, SMTT(60) DEF WriterPacket
<1>6. PICK q \in Session \cup {0} :
        f = SetHeard(tfp, tfp.buf, q) /\ q = IF tfp.block = 0 THEN m.from ELSE tfp.port
  BY <1>1, <1>3, <1>5 DEF SetHeard, IsFile
<1>7. /\ IsFile(f) /\ f.block = tfp.block /\ f.eof = tfp.eof /\ f.start = tfp.start
      /\ f.end = tfp.end /\ f.foffs = tfp.foffs /\ f.buf = tfp.buf /\ f.port = q
  BY <1>1, <1>6, FileHeard, SMTT(60)
<1>8. tfp.block # 0 => f = tfp
  BY <1>1, <1>6, <1>7, SameFields
<1> HIDE DEF p
<1>9. CASE Return(-1, f)
  <2>1. PICK n \in Int : n = -1 /\ n < 0
    BY SMTT(60)
  <2>2. Return(n, f)
    BY <1>9, <2>1
  <2> QED BY <2>1, <2>2, ReturnFails
<1>10. CASE tfp.block # 0 /\ (Again(f) \/ Synch(f))
  <2>1. /\ pc' \in {"send", "synch"} /\ caller' = caller /\ tfp' = tfp /\ req' = req
        /\ failed' = failed
    BY <1>8, <1>10 DEF Again, Synch, Goes
  <2>2. \A x \in net' : x \in net \/ WriterPacket(x)
    BY <1>4
  <2> QED BY <1>1, <2>1, <2>2, WriterAsks
<1>11. CASE tfp.block = 0 /\ f.port # m.from
  BY <1>6, <1>7, <1>11
<1>12. CASE p.kind = "ACK" /\ f.port = m.from /\ Take(p, f)
  <2>1. PICK b \in 0 .. server[m.from].block : p = Ack(b)
    BY <1>5, <1>12
  <2>2. server[m.from].st = "open" \/ 1 <= server[m.from].block
    BY <1>5, <1>12
  <2>3. p.block = b % BlockRange /\ server[m.from].block \in Nat
    BY <1>5, <2>1, WriterFile DEF Ack, Packet, Record
  <2>4. CASE Opening
    <3>1. tfp.block = 0 /\ caller = "open" /\ req.data = <<>>
      BY <2>4 DEF Opening, Fresh, Packet
    <3>2. server[m.from].block = 0
      BY <1>5, <2>4, TftpAssumption DEF Opening, Fresh, WriterState, WriterRest
    <3>3. b = 0 /\ p.block = 0
      BY <2>3, <3>2, TftpAssumption, SMTT(60)
    <3>4. Return(Len(req.data), f)
      BY <1>1, <1>7, <1>12, <3>1, <3>3, SMTT(60) DEF Take
    <3>5. Return(0, f)
      BY <3>1, <3>4
    <3>6. Goes("user", f)
      BY <1>1, <3>1, <3>5, SMTT(60) DEF Return
    <3>7. failed' = failed
      <4>1. failed' = (failed \/ 0 < 0) /\ failed \in BOOLEAN
        BY <3>5 DEF Return, WriterState, Types
      <4> QED BY <4>1, SMTT(60)
    <3>8. f.port = m.from
      BY <1>12
    <3> QED BY <1>1, <1>4, <1>5, <1>7, <2>2, <2>4, <3>6, <3>7, <3>8, WriterConnects
  <2>5. CASE Sending
    <3>1. PICK c \in Nat : c = tfp.block - 1 /\ tfp.block = c + 1
      BY <2>5, WriterFile, SMTT(60) DEF Sending
    <3>2. /\ tfp.block # 0 /\ f = tfp /\ tfp.port = m.from /\ Off(c) <= len
      <4>1. tfp.block # 0
        BY <3>1, SMTT(60)
      <4>2. Off(c) <= tfp.foffs /\ tfp.foffs <= len /\ tfp.foffs \in Nat
        BY <1>1, <2>5, <3>1, WriterFile, SMTT(60) DEF Sending
      <4>3. Off(c) <= len
        <5>1. Off(c) \in Nat
          BY <3>1, OffNext
        <5> QED BY <1>1, <4>2, <5>1, SMTT(60)
      <4> QED BY <1>8, <1>12, <4>1, <4>3
    <3>3. Peer = server[m.from] /\ Peer.block \in {c, c + 1}
      BY <2>5, <3>1, <3>2 DEF Sending, Has, Peer
    <3>4. b \in Nat /\ b <= c + 1 /\ c + 2 < BlockRange /\ BlockRange \in Nat
      BY <2>3, <3>1, <3>2, <3>3, Numbered, TftpAssumption, SMTT(60)
    <3>5. p.block = b
      BY <2>3, <3>4, SMTT(60)
    <3>6. CASE b = c + 1
      <4>1. Peer.block = tfp.block
        BY <2>3, <3>1, <3>3, <3>6, SMTT(60)
      <4>2. Has(tfp.block, tfp.foffs) /\ Peer.st = IF caller = "close" THEN "done" ELSE "open"
        BY <2>5, <3>1, <4>1, SMTT(60) DEF Sending, Has
      <4>3. Return(Len(req.data), tfp)
        <5>1. /\ p.kind = "ACK" /\ p.block = tfp.block /\ p.block # tfp.block - 1
              /\ p.block \in {tfp.block, tfp.block - 1}
          BY <1>12, <3>1, <3>5, <3>6, SMTT(60)
        <5>2. Take(p, tfp)
          BY <1>12, <3>2
        <5> QED BY <1>1, <5>1, <5>2 DEF Take
      <4> QED BY <1>1, <1>4, <2>5, <4>2, <4>3, WriterGoesOn
    <3>7. CASE b # c + 1
      <4>1. Return(-1, f) \/ Again(f) \/ Synch(f)
        BY <1>1, <1>12, <3>1, <3>2, <3>5, <3>7 DEF Take
      <4> QED BY <1>9, <1>10, <3>2, <4>1
    <3> QED BY <3>6, <3>7
  <2> QED BY <1>1, <2>4, <2>5 DEF WriterState, WriterAt, Unopened, Filling, Stored
<1>13. CASE p.kind = "ERROR" /\ f.port = m.from /\ Take(p, f)
  BY <1>1, <1>9, <1>13 DEF Take
<1>14. p.kind = "ACK" \/ p.kind = "ERROR"
  BY <1>5, SMTT(60) DEF Ack, Packet
<1> QED BY <1>3, <1>10, <1>11, <1>12, <1>13, <1>14 DEF p

\* What synchnet throws away matters to nobody.
LEMMA WriterSynchs ==
  ASSUME WriterState, synchnet
  PROVE  WriterState'
<1>1. /\ Asking /\ pc' = "synch" /\ caller' = caller /\ tfp' = tfp /\ req' = req
      /\ failed' = failed /\ server' = server /\ len' = len /\ UNCHANGED <<local, reading>>
  BY DEF synchnet, Asking, local
<1>2. net' \subseteq net
  BY DEF synchnet, Consume
<1> QED BY <1>1, <1>2, WriterAsks

-----------------------------------------------------------------------------
\* The server's steps for a writer.

SetBoth(r, b, d, x) == [[r EXCEPT !.block = b] EXCEPT !.stored = d, !.st = x]

\* A session other than the one it talks to changes nothing of the writer.
LEMMA OthersServe ==
  ASSUME WriterState, NEW s \in Session, s # tfp.port, NEW r \in Record, r.block = 0, r.stored = <<>>,
         server' = [server EXCEPT ![s] = r], pc # "start",
         UNCHANGED <<pc, caller, tfp, req, failed, local, reading>>
  PROVE  Types' /\ Sessions' /\ WriterRest' /\ WriterAt'
<1>1. /\ pc' = pc /\ caller' = caller /\ tfp' = tfp /\ req' = req /\ failed' = failed
      /\ len' = len /\ image' = image /\ nb' = nb /\ at' = at /\ dst' = dst
  BY DEF local, reading
<1>2. /\ server \in [Session -> Record] /\ server' \in [Session -> Record]
      /\ \A x \in Session : server'[x] = IF x = s THEN r ELSE server[x]
  BY WriterFile
<1>3. Types' /\ Sessions'
  BY <1>1, <1>2 DEF WriterState, Types, Sessions, Record
<1>4. WriterRest'
  BY <1>1, <1>2 DEF WriterState, WriterRest
<1>5. tfp.port # 0 => Peer' = Peer
  BY <1>1, <1>2, WriterFile DEF Peer
<1>6. CASE Opening
  BY <1>1, <1>3, <1>4, <1>6 DEF Opening, Fresh, Asking, WriterAt
<1>7. CASE Filling
  <2>1. Filling'
    BY <1>1, <1>5, <1>7 DEF Filling, Has
  <2> QED BY <1>3, <1>4, <2>1 DEF WriterAt
<1>8. CASE Sending
  <2>1. Sending'
    BY <1>1, <1>5, <1>8 DEF Sending, Has, Asking
  <2> QED BY <1>3, <1>4, <2>1 DEF WriterAt
<1>9. CASE Stored
  <2>1. Stored'
    BY <1>1, <1>5, <1>9 DEF Stored, Has
  <2> QED BY <1>3, <1>4, <2>1 DEF WriterAt
<1> QED BY <1>6, <1>7, <1>8, <1>9 DEF WriterState, WriterAt, Unopened

\* The server opening a session keeps it.
LEMMA WriterOpened ==
  ASSUME user = "write", WriterState, NEW s \in Session, Open(s)
  PROVE  WriterState'
<1>1. PICK m \in net :
        /\ m.to = 0
        /\ \/ m.packet.kind = "RRQ"
           \/ m.packet.kind = "WRQ" /\ Serve(s, m, [server[s] EXCEPT !.st = "open"], {Ack(0)})
           \/ Serve(s, m, [server[s] EXCEPT !.st = "done"], {Packet("ERROR", 0, <<>>)})
  BY DEF Open
<1>2. m.packet.kind # "RRQ" /\ pc # "start" /\ server[s].st = "free" /\ server[s] \in Record
  BY <1>1, WriterFile, SMTT(60) DEF WriterState, WriterNet, WriterPacket, WriterAt, Unopened, Opening,
                          Filling, Sending, Stored, Asking, Open
<1>3. s # tfp.port
  <2>1. CASE tfp.port = 0
    BY <2>1, TftpAssumption
  <2>2. CASE tfp.port # 0
    <3>1. Peer.st \in {"open", "done"}
      BY <1>2, <2>2 DEF WriterState, WriterAt, Unopened, Opening, Fresh, Filling, Sending, Stored
    <3> QED BY <1>2, <3>1 DEF Peer
  <2> QED BY <2>1, <2>2
<1>4. server[s].block = 0 /\ server[s].stored = <<>>
  BY <1>3 DEF WriterState, WriterRest
<1>12. PICK x \in {"open", "done"} : \E y :
        /\ Serve(s, m, SetSt(server[s], x), {y})
        /\ y.kind = "ERROR" \/ (x = "open" /\ y = Ack(0))
  <2>1. CASE Serve(s, m, [server[s] EXCEPT !.st = "open"], {Ack(0)})
    BY <2>1 DEF SetSt
  <2>2. CASE Serve(s, m, [server[s] EXCEPT !.st = "done"], {Packet("ERROR", 0, <<>>)})
    <3>1. PICK y : y = Packet("ERROR", 0, <<>>)
      OBVIOUS
    <3>2. y.kind = "ERROR"
      BY <3>1 DEF Packet
    <3> QED BY <2>2, <3>1, <3>2 DEF SetSt
  <2> QED BY <1>1, <1>2, <2>1, <2>2
<1>5. PICK y : /\ Serve(s, m, SetSt(server[s], x), {y})
               /\ y.kind = "ERROR" \/ (x = "open" /\ y = Ack(0))
  BY <1>12
<1>6. PICK r : r = SetSt(server[s], x)
  OBVIOUS
<1>7. r \in Record /\ r.st = x /\ r.block = 0 /\ r.stored = <<>>
  BY <1>2, <1>4, <1>6, RecordSt, SMTT(60)
<1>8. /\ net' = (net \ {m}) \cup {Answer(y, s)} /\ server' = [server EXCEPT ![s] = r]
      /\ UNCHANGED <<pc, caller, tfp, req, failed, local, reading>>
  BY <1>5, <1>6 DEF Serve
<1>9. Types' /\ Sessions' /\ WriterRest' /\ WriterAt'
  BY <1>2, <1>3, <1>7, <1>8, OthersServe
<1>10. /\ server \in [Session -> Record] /\ tfp' = tfp /\ req' = req
       /\ \A z \in Session : server'[z] = IF z = s THEN r ELSE server[z]
  BY <1>8, WriterFile
<1>11. WriterNet'
  <2> SUFFICES ASSUME NEW z \in net' PROVE WriterPacket(z)'
    BY DEF WriterNet
  <2>1. CASE z = Answer(y, s)
    <3>1. z.to = -1 /\ z.from = s /\ z.packet = y
      BY <2>1 DEF Answer
    <3>2. CASE y.kind = "ERROR"
      BY <3>1, <3>2 DEF WriterPacket
    <3>3. CASE x = "open" /\ y = Ack(0)
      <4>1. server'[z.from].st = "open" /\ 0 \in 0 .. server'[z.from].block
        BY <1>7, <1>10, <3>1, <3>3, SMTT(60)
      <4>2. z.packet = Ack(0)
        BY <3>1, <3>3
      <4> QED BY <3>1, <4>1, <4>2 DEF WriterPacket, Ack, Packet
    <3> QED BY <1>5, <3>2, <3>3
  <2>2. CASE z \in net
    <3>1. WriterPacket(z)
      BY <2>2 DEF WriterState, WriterNet
    <3>2. CASE ~ (z.to = -1)
      BY <1>10, <3>1, <3>2 DEF WriterPacket
    <3>3. CASE z.to = -1 /\ z.packet.kind = "ERROR"
      BY <1>10, <3>1, <3>3, WriterFile, TftpAssumption DEF WriterPacket
    <3>4. CASE z.to = -1 /\ z.packet.kind # "ERROR"
      <4>1. /\ z.from \in Session
            /\ server[z.from].st = "open" \/ 1 <= server[z.from].block
            /\ \E b \in 0 .. server[z.from].block : z.packet = Ack(b)
        BY <3>1, <3>4, WriterFile, TftpAssumption, SMTT(60) DEF WriterPacket
      <4>2. z.from # s
        BY <1>2, <1>4, <4>1, SMTT(60)
      <4>3. server'[z.from] = server[z.from]
        BY <1>10, <4>1, <4>2
      <4> QED BY <3>4, <4>1, <4>3 DEF WriterPacket, Ack, Packet
    <3> QED BY <3>2, <3>3, <3>4
  <2> QED BY <1>8, <2>1, <2>2
<1> QED BY <1>9, <1>11 DEF WriterState

\* An acknowledgement of a session's own blocks is on the way from it.
LEMMA AckSent ==
  ASSUME WriterNet, NEW s \in Session, server' = server, tfp' = tfp, req' = req,
         server[s].block \in Nat, server[s].st = "open" \/ 1 <= server[s].block,
         \A z \in net' : z \in net \/ z = Answer(Ack(server[s].block), s)
  PROVE  WriterNet'
<1>1. ASSUME NEW z, z = Answer(Ack(server[s].block), s) PROVE WriterPacket(z)
  <2>1. z.to = -1 /\ z.from = s /\ z.packet = Ack(server[s].block)
    BY <1>1 DEF Answer
  <2>2. server[s].block \in 0 .. server[s].block
    BY SMTT(60)
  <2> QED BY <2>1, <2>2 DEF WriterPacket
<1> QED BY <1>1, PacketsStay


\* A step that leaves the client and the sessions alone keeps all but the network part.
LEMMA WriterKept ==
  ASSUME WriterState, server' = server, pc # "start",
         UNCHANGED <<pc, caller, tfp, req, failed, local, reading>>
  PROVE  Types' /\ Sessions' /\ WriterRest' /\ WriterAt'
<1>1. /\ pc' = pc /\ caller' = caller /\ tfp' = tfp /\ req' = req /\ failed' = failed
      /\ len' = len /\ image' = image /\ nb' = nb /\ at' = at /\ dst' = dst
  BY DEF local, reading
<1>2. Types' /\ Sessions' /\ WriterRest'
  BY <1>1 DEF WriterState, Types, Sessions, WriterRest
<1>3. Opening => Opening'
  BY <1>1 DEF Opening, Fresh, Asking
<1>4. Filling => Filling'
  BY <1>1 DEF Filling, Has, Peer
<1>5. Sending => Sending'
  BY <1>1 DEF Sending, Has, Peer, Asking
<1>6. Stored => Stored'
  BY <1>1 DEF Stored, Has, Peer
<1> QED BY <1>2, <1>3, <1>4, <1>5, <1>6 DEF WriterState, WriterAt, Unopened

\* The server repeating an acknowledgement keeps the invariant.
LEMMA WriterRepeated ==
  ASSUME user = "write", WriterState, NEW s \in Session, Repeat(s)
  PROVE  WriterState'
<1>1. /\ server[s].st = "open" /\ net' = net \cup {Answer(Ack(server[s].block), s)}
      /\ server' = server /\ UNCHANGED <<pc, caller, tfp, req, failed, local, reading>>
  BY DEF Repeat, Reader
<1>2. server[s].block \in Nat
  BY WriterFile DEF Record
<1>3. WriterNet'
  BY <1>1, <1>2, AckSent DEF WriterState
<1>4. pc # "start"
  BY <1>1 DEF WriterState, WriterAt, Unopened, Opening, Filling, Sending, Stored, Asking
<1> QED BY <1>1, <1>3, <1>4, WriterKept DEF WriterState

\* The session gets the block that is sent.
LEMMA WriterStores ==
  ASSUME len \in Nat, WriterState, Sending, NEW s \in Session, s = tfp.port,
         NEW c \in Nat, tfp.block = c + 1, Has(c, Off(c)), Peer.st = "open", NEW m,
         Serve(s, m, SetBoth(server[s], c + 1, server[s].stored \o req.data,
                             IF Len(req.data) < SEGSIZE THEN "done" ELSE server[s].st), {Ack(c + 1)})
  PROVE  WriterState'
<1>1. /\ pc' = pc /\ caller' = caller /\ tfp' = tfp /\ req' = req /\ failed' = failed
      /\ len' = len /\ image' = image /\ nb' = nb /\ at' = at /\ dst' = dst
      /\ net' = (net \ {m}) \cup {Answer(Ack(c + 1), s)}
  BY DEF Serve, local, reading
<1>2. /\ Off(c) \in Nat /\ Off(tfp.block) = Off(c) + SEGSIZE /\ SEGSIZE \in Nat /\ 0 < SEGSIZE
      /\ Off(tfp.block) \in Nat /\ (c + 1) - 1 = c
  BY OffNext
<1>3. /\ tfp.foffs \in Nat /\ tfp.port # 0 /\ nb \in Nat /\ Off(c) <= tfp.foffs
      /\ req.data = Bytes(Off(c), tfp.foffs) /\ server[s] \in Record
      /\ server[s].block = c /\ server[s].stored = Bytes(0, Off(c)) /\ server[s].st = "open"
      /\ \/ caller = "write" /\ tfp.foffs = Off(tfp.block)
         \/ caller = "close" /\ tfp.foffs < Off(tfp.block)
  BY <1>2, WriterFile DEF Sending, Packet, Has, Peer
<1>4. /\ Bytes(Off(c), tfp.foffs) \in Seq(Nat) /\ Len(req.data) = tfp.foffs - Off(c)
      /\ Bytes(0, tfp.foffs) \in Seq(Nat)
      /\ server[s].stored \o req.data = Bytes(0, tfp.foffs)
  <2>1. PICK i \in Nat, j \in Nat : i = Off(c) /\ j = tfp.foffs
    BY <1>2, <1>3
  <2>2. i <= j /\ 0 <= i /\ 0 <= j
    BY <1>3, <2>1, SMTT(60)
  <2>3. Bytes(i, j) \in Seq(Nat) /\ Len(Bytes(i, j)) = j - i
    BY <2>2, BytesFacts
  <2>4. Bytes(0, j) \in Seq(Nat)
    BY <2>2, BytesFacts
  <2>5. Bytes(0, i) \o Bytes(i, j) = Bytes(0, j)
    BY <2>2, BytesJoin
  <2> QED BY <1>3, <2>1, <2>3, <2>4, <2>5
<1>5. PICK x \in {"open", "done"} : /\ x = IF Len(req.data) < SEGSIZE THEN "done" ELSE server[s].st
                                    /\ x = IF caller = "close" THEN "done" ELSE "open"
  <2>1. CASE caller = "write"
    <3>1. ~ (Len(req.data) < SEGSIZE)
      BY <1>2, <1>3, <1>4, <2>1, SMTT(60)
    <3> QED BY <1>3, <2>1, <3>1
  <2>2. CASE caller = "close"
    <3>1. Len(req.data) < SEGSIZE
      BY <1>2, <1>3, <1>4, <2>2, SMTT(60)
    <3> QED BY <2>2, <3>1
  <2> QED BY <1>3, <2>1, <2>2
<1>6. PICK d \in Seq(Nat) : d = server[s].stored \o req.data /\ d = Bytes(0, tfp.foffs)
  BY <1>4
<1>7. PICK r : r = SetBoth(server[s], c + 1, d, x)
  OBVIOUS
<1>8. r \in Record /\ r.st = x /\ r.block = c + 1 /\ r.stored = d
  <2>1. PICK e \in Nat : e = c + 1
    BY SMTT(60)
  <2>2. r = SetBoth(server[s], e, d, x) /\ server[s] \in Record
    BY <1>3, <1>7, <2>1
  <2>3. r \in Record /\ r.st = x /\ r.block = e /\ r.stored = d
    <3>1. x \in {"free", "open", "done"}
      OBVIOUS
    <3> QED BY <2>2, <3>1 DEF SetBoth, Record
  <2> QED BY <2>1, <2>3
<1>9. server' = [server EXCEPT ![s] = r]
  BY <1>5, <1>6, <1>7 DEF Serve
<1>10. /\ server' \in [Session -> Record]
       /\ \A z \in Session : server'[z] = IF z = s THEN r ELSE server[z]
  BY <1>8, <1>9, WriterFile
<1>11. Types' /\ Sessions' /\ WriterRest'
  BY <1>1, <1>10 DEF WriterState, Types, Sessions, WriterRest, Record
<1>12. Sending'
  <2>1. Peer' = r
    BY <1>1, <1>10 DEF Peer
  <2>2. (Has(tfp.block, tfp.foffs))'
    BY <1>1, <1>6, <1>8, <2>1 DEF Has
  <2>3. Peer'.st = IF caller' = "close" THEN "done" ELSE "open"
    BY <1>1, <1>5, <1>8, <2>1
  <2> QED BY <1>1, <2>2, <2>3 DEF Sending, Asking
<1>13. WriterNet'
  <2> SUFFICES ASSUME NEW z \in net' PROVE WriterPacket(z)'
    BY DEF WriterNet
  <2>1. CASE z = Answer(Ack(c + 1), s)
    <3>1. z.to = -1 /\ z.from = s /\ z.packet = Ack(c + 1)
      BY <2>1 DEF Answer
    <3>2. server'[z.from].block = c + 1 /\ c + 1 \in 0 .. c + 1 /\ 1 <= c + 1
      BY <1>8, <1>10, <3>1, SMTT(60)
    <3>3. c + 1 \in 0 .. server'[z.from].block /\ 1 <= server'[z.from].block
      BY <3>2
    <3> QED BY <3>1, <3>3 DEF WriterPacket, Ack, Packet
  <2>2. CASE z \in net
    <3>1. WriterPacket(z)
      BY <2>2 DEF WriterState, WriterNet
    <3>2. CASE ~ (z.to = -1)
      BY <1>1, <3>1, <3>2 DEF WriterPacket
    <3>3. CASE z.to = -1 /\ z.packet.kind = "ERROR"
      BY <1>1, <3>1, <3>3, WriterFile, TftpAssumption DEF WriterPacket
    <3>4. CASE z.to = -1 /\ z.packet.kind # "ERROR"
      <4>1. /\ z.from \in Session
            /\ server[z.from].st = "open" \/ 1 <= server[z.from].block
            /\ \E b \in 0 .. server[z.from].block : z.packet = Ack(b)
        BY <3>1, <3>4, WriterFile, TftpAssumption, SMTT(60) DEF WriterPacket
      <4>2. CASE z.from # s
        <5>1. server'[z.from] = server[z.from]
          BY <1>10, <4>1, <4>2
        <5> QED BY <3>4, <4>1, <5>1 DEF WriterPacket, Ack, Packet
      <4>3. CASE z.from = s
        <5>1. PICK b \in 0 .. c : z.packet = Ack(b)
          BY <1>3, <4>1, <4>3
        <5>2. server'[z.from].block = c + 1
          BY <1>8, <1>10, <4>3
        <5>3. b \in 0 .. server'[z.from].block /\ 1 <= server'[z.from].block
          BY <5>2, SMTT(60)
        <5> QED BY <3>4, <4>1, <5>1, <5>3 DEF WriterPacket, Ack, Packet
      <4> QED BY <4>2, <4>3
    <3> QED BY <3>2, <3>3, <3>4
  <2> QED BY <1>1, <2>1, <2>2
<1> QED BY <1>11, <1>12, <1>13 DEF WriterState, WriterAt

\* So does the server storing a block and acknowledging it.
LEMMA WriterServed ==
  ASSUME Unwrapped, len \in Lengths, user = "write", WriterState, NEW s \in Session, Serves(s)
  PROVE  WriterState'
<1> DEFINE b == server[s].block
<1> DEFINE more == [server[s] EXCEPT !.block = b + 1]
           with(d) == [more EXCEPT !.stored = @ \o d,
                                   !.st = IF Len(d) < SEGSIZE THEN "done" ELSE @]
<1>6. PICK m \in net :
        /\ m.to = s
        /\ \/ m.packet.kind = "ACK" \/ m.packet.kind = "ERROR"
           \/ /\ m.packet.kind = "DATA" /\ m.packet.block = (b + 1) % BlockRange
              /\ server[s].st = "open" /\ Serve(s, m, with(m.packet.data), {Ack(b + 1)})
           \/ /\ m.packet.kind = "DATA" /\ m.packet.block = b % BlockRange
              /\ Serve(s, m, server[s], {Ack(b)})
  BY DEF Serves
<1>7. PICK d : d = m.packet.data
  OBVIOUS
<1>8. with(d) = SetBoth(server[s], b + 1, server[s].stored \o d,
                        IF Len(d) < SEGSIZE THEN "done" ELSE server[s].st)
  <2>1. server[s] \in Record
    BY WriterFile
  <2> QED BY <2>1 DEF SetBoth, Record
<1> HIDE DEF more, with
<1>1. /\ m.to = s
      /\ \/ m.packet.kind = "ACK" \/ m.packet.kind = "ERROR"
         \/ /\ m.packet.kind = "DATA" /\ m.packet.block = (b + 1) % BlockRange
            /\ server[s].st = "open"
            /\ Serve(s, m, SetBoth(server[s], b + 1, server[s].stored \o d,
                             IF Len(d) < SEGSIZE THEN "done" ELSE server[s].st), {Ack(b + 1)})
         \/ /\ m.packet.kind = "DATA" /\ m.packet.block = b % BlockRange
            /\ Serve(s, m, server[s], {Ack(b)})
  BY <1>6, <1>7, <1>8
<1>2. /\ s = tfp.port /\ m.packet.kind = "DATA" /\ m.packet.block \in 1 .. tfp.block
      /\ m.packet.block = tfp.block => m.packet = req
  <2>1. WriterPacket(m) /\ s # 0 /\ s # -1
    BY TftpAssumption, SMTT(60) DEF WriterState, WriterNet
  <2> QED BY <1>1, <2>1 DEF WriterPacket
<1>3. /\ pc # "start" /\ tfp.port # 0 /\ len \in Nat /\ b \in Nat /\ tfp.block \in Nat
      /\ server[s] \in Record /\ Peer = server[s] /\ tfp.foffs \in Nat
  BY <1>2, WriterFile, TftpAssumption DEF WriterState, WriterAt, Unopened, Peer, Record, Opening, Filling,
                                    Sending, Stored, Asking
<1>4. CASE /\ m.packet.block = b % BlockRange /\ Serve(s, m, server[s], {Ack(b)})
  <2>1. server' = server
    BY <1>3, <1>4, WriterFile DEF Serve
  <2>2. /\ UNCHANGED <<pc, caller, tfp, req, failed, local, reading>>
        /\ \A z \in net' : z \in net \/ z = Answer(Ack(b), s)
    BY <1>4 DEF Serve
  <2>3. server[s].st = "open" \/ 1 <= b
    <3>1. 1 <= tfp.block
      BY <1>2, <1>3, SMTT(60)
    <3> QED BY <1>3, <3>1 DEF WriterState, WriterAt, Unopened, Opening, Fresh, Filling, Sending,
                              Stored, Has
  <2>4. WriterNet'
    BY <1>3, <2>1, <2>2, <2>3, AckSent DEF WriterState
  <2> QED BY <1>3, <2>1, <2>2, <2>4, WriterKept DEF WriterState
<1>5. CASE /\ m.packet.block = (b + 1) % BlockRange /\ server[s].st = "open"
           /\ Serve(s, m, SetBoth(server[s], b + 1, server[s].stored \o d,
                      IF Len(d) < SEGSIZE THEN "done" ELSE server[s].st), {Ack(b + 1)})
  <2>1. CASE Filling
    <3>1. b = tfp.block /\ Off(b) \in Nat /\ tfp.foffs = Off(b) + tfp.end /\ tfp.foffs <= len
          /\ tfp.end \in Nat
      BY <1>3, <2>1, OffFacts, WriterFile DEF Filling, Has
    <3>2. Off(b) <= len
      BY ONLY <1>3, <3>1
    <3>3. (b + 1) % BlockRange = b + 1
      BY <1>3, <3>2, NextNumber
    <3> QED BY <1>2, <1>3, <1>5, <3>1, <3>3, SMTT(60)
  <2>2. CASE Sending
    <3>1. PICK c \in Nat : c = tfp.block - 1 /\ tfp.block = c + 1
      BY <1>3, <2>2, SMTT(60) DEF Sending
    <3>2. Off(c) <= len
      <4>1. Off(c) <= tfp.foffs /\ tfp.foffs <= len
        BY <1>3, <2>2, <3>1, WriterFile, SMTT(60) DEF Sending
      <4>2. Off(c) \in Nat
        BY <3>1, OffNext
      <4> QED BY <1>3, <4>1, <4>2, SMTT(60)
    <3>3. c + 2 < BlockRange /\ BlockRange \in Nat
      BY <1>3, <3>1, <3>2, Numbered, TftpAssumption
    <3>4. b \in {c, c + 1} /\ (b + 1) % BlockRange = b + 1
      <4>1. b \in {c, c + 1}
        BY <1>3, <2>2, <3>1 DEF Sending, Has
      <4> QED BY <3>3, <4>1, SMTT(60)
    <3>5. b = c
      BY <1>2, <1>3, <1>5, <3>1, <3>4, SMTT(60)
    <3>6. m.packet = req
      BY <1>2, <1>5, <3>1, <3>4, <3>5
    <3>7. Has(c, Off(c)) /\ Peer.st = "open"
      BY <1>3, <2>2, <3>1, <3>5, SMTT(60) DEF Sending, Has
    <3>8. Serve(s, m, SetBoth(server[s], c + 1, server[s].stored \o req.data,
                      IF Len(req.data) < SEGSIZE THEN "done" ELSE server[s].st), {Ack(c + 1)})
      BY <1>5, <1>7, <3>5, <3>6
    <3> QED BY <1>2, <1>3, <2>2, <3>1, <3>7, <3>8, WriterStores
  <2>3. CASE Stored
    BY <1>3, <1>5, <2>3 DEF Stored
  <2>4. CASE Opening
    BY <1>3, <2>4 DEF Opening, Fresh
  <2> QED BY <1>3, <2>1, <2>2, <2>3, <2>4 DEF WriterState, WriterAt, Unopened
<1> QED BY <1>1, <1>2, <1>4, <1>5

-----------------------------------------------------------------------------
\* The invariant.

\* A writer does not come to read, and a failure is not forgotten.
LEMMA WriterPlain ==
  ASSUME user = "write", WriterReads, Next
  PROVE  WriterReads' /\ (failed => failed') /\ user' = user /\ len' = len
<1>1. /\ ~ Reader /\ ~ Copy /\ ~ ReadReturns /\ ~ tftpOpenEntry
      /\ (\A n \in Reads : ~ tftpread(n)) /\ (\A offs \in Seeks : ~ tftplseek(offs))
  BY DEF Reader, Copy, ReadReturns, tftpOpenEntry, tftpread, tftplseek, WriterReads
<1>2. ASSUME NEW n \in Int, NEW f, Return(n, f), dst' = dst, at' = at
      PROVE  WriterReads' /\ (failed => failed')
  <2>1. failed' = (failed \/ n < 0)
    BY <1>2 DEF Return
  <2>2. failed' \in BOOLEAN /\ (failed => failed')
    BY <2>1 DEF WriterReads
  <2>3. caller' # "read" /\ pc' \notin {"read", "got", "flashed"}
    BY <1>2 DEF Return, Error, NextBlock, Goes, Request, WriterReads
  <2> QED BY <1>2, <2>2, <2>3 DEF WriterReads
<1>3. CASE tftpopen \/ Fill \/ Close
  BY <1>1, <1>3 DEF tftpopen, Fill, Close, tftpclose, Request, Goes, WriterReads, local, reading
<1>4. CASE sendto \/ WriteReturns \/ \E n \in Reads : tftpwrite(n)
  BY <1>1, <1>4 DEF sendto, WriteReturns, tftpwrite, WriterReads, local, reading
<1>5. CASE SocketFails
  <2>1. -1 \in Int /\ Return(-1, tfp) /\ dst' = dst /\ at' = at /\ user' = user /\ len' = len
    BY <1>5, SMTT(60) DEF SocketFails, local, reading
  <2> QED BY <1>2, <2>1
<1>6. CASE Timeout
  BY <1>1, <1>6 DEF Timeout, WriterReads, local, reading
<1>7. CASE recvfrom
  <2>1. dst' = dst /\ at' = at /\ user' = user /\ len' = len
    BY <1>7 DEF recvfrom, local, reading
  <2>2. PICK m \in net : \E f : IF f.port = m.from THEN Take(m.packet, f) ELSE Again(f)
    BY <1>7 DEF recvfrom
  <2>3. PICK f : Take(m.packet, f) \/ Again(f)
    BY <2>2
  <2>4. CASE Again(f) \/ Synch(f)
    BY <2>1, <2>4 DEF Again, Synch, Goes, WriterReads
  <2>5. CASE Return(-1, f)
    <3>1. -1 \in Int
      BY SMTT(60)
    <3> QED BY <1>2, <2>1, <2>5, <3>1
  <2>6. CASE Return(Len(req.data), f)
    <3>1. failed' = (failed \/ Len(req.data) < 0)
      BY <2>6 DEF Return
    <3>2. failed' \in BOOLEAN /\ (failed => failed')
      BY <3>1 DEF WriterReads
    <3>3. caller' # "read" /\ pc' \notin {"read", "got", "flashed"}
      BY <2>6 DEF Return, Error, NextBlock, Goes, Request, WriterReads
    <3> QED BY <2>1, <3>2, <3>3 DEF WriterReads
  <2> QED BY <1>1, <2>1, <2>3, <2>4, <2>5, <2>6 DEF Take
<1>8. CASE \E s \in Session : Open(s) \/ Serves(s) \/ Repeat(s)
  <2>1. PICK s \in Session : Open(s) \/ Serves(s) \/ Repeat(s)
    BY <1>8
  <2>2. UNCHANGED <<pc, caller, tfp, req, failed, local, reading>>
    BY <2>1 DEF Open, Serves, Repeat, Serve
  <2> QED BY <2>2 DEF WriterReads, local, reading
<1>9. CASE synchnet
  BY <1>9 DEF synchnet, WriterReads, local, reading
<1> QED BY <1>1, <1>3, <1>4, <1>5, <1>6, <1>7, <1>8, <1>9 DEF Next, Step

\* Every step fails the transfer or keeps the invariant while the user writes.
LEMMA WriterStep ==
  ASSUME Unwrapped, len \in Lengths, user = "write", WriterReads, failed \/ WriterState, Next
  PROVE  WriterReads' /\ (failed' \/ WriterState') /\ user' = user /\ len' = len
<1>1. WriterReads' /\ (failed => failed') /\ user' = user /\ len' = len
  BY WriterPlain
<1>2. ASSUME WriterState PROVE failed' \/ WriterState'
  <2>1. /\ ~ Reader /\ ~ Copy /\ ~ ReadReturns /\ ~ tftpOpenEntry
        /\ (\A n \in Reads : ~ tftpread(n)) /\ (\A offs \in Seeks : ~ tftplseek(offs))
    BY DEF Reader, Copy, ReadReturns, tftpOpenEntry, tftpread, tftplseek, WriterReads
  <2>2. CASE tftpopen
    BY <1>2, <2>2, WriterOpens
  <2>3. CASE sendto
    BY <1>2, <2>3, WriterSends
  <2>4. CASE Timeout \/ SocketFails
    BY <1>2, <2>4, WriterBreaks
  <2>5. CASE recvfrom
    BY <1>2, <2>5, WriterHears
  <2>6. CASE Fill
    BY <1>2, <2>6, WriterFills
  <2>7. CASE Close
    BY <1>2, <2>7, WriterCloses
  <2>8. CASE WriteReturns \/ \E n \in Reads : tftpwrite(n)
    BY <1>2, <2>8, WriterBegins
  <2>9. CASE \E s \in Session : Open(s) \/ Serves(s) \/ Repeat(s)
    BY <1>2, <2>9, WriterOpened, WriterServed, WriterRepeated
  <2>10. CASE synchnet
    BY <1>2, <2>10, WriterSynchs
  <2> QED BY <2>1, <2>2, <2>3, <2>4, <2>5, <2>6, <2>7, <2>8, <2>9, <2>10 DEF Next, Step
<1> QED BY <1>1, <1>2

\* The invariant holds at the start.
LEMMA TftpStart ==
  ASSUME Init
  PROVE  TftpInv
<1>1. /\ user \in {"update", "load", "write"} /\ len \in Lengths
      /\ pc = "start" /\ caller = "open" /\ req = NoPacket /\ rexmt = 0
      /\ nb = 0 /\ at = 0 /\ dst = <<>> /\ image = <<>> /\ failed = FALSE
      /\ net = {} /\ server = [s \in Session |-> [st |-> "free", block |-> 0, stored |-> <<>>]]
  BY DEF Init
<1>2. /\ IsFile(tfp) /\ Fresh /\ tfp.start = 0 /\ ~ tfp.eof
  BY DEF Init, IsFile, Fresh
<1>3. Types
  <2>1. failed \in BOOLEAN /\ dst \in Seq(Nat) /\ image \in Seq(Nat)
    <3>1. failed = FALSE
      BY <1>1
    <3>2. failed \in BOOLEAN
      BY ONLY <3>1
    <3> QED BY <1>1, <3>2, SMTT(60)
  <2> QED BY <1>1, <1>2, <2>1 DEF Types
<1>4. Sessions /\ \A s \in Session : server[s].st = "free" /\ server[s].block = 0 /\ server[s].stored = <<>>
  BY <1>1, SMTT(60) DEF Sessions
<1>5. ReaderNet
  BY <1>1, <1>4 DEF ReaderNet
<1>6. Bytes(0, 0) = <<>> /\ Len(dst) = 0 /\ Len(image) = 0 /\ 0 + 0 = 0
  BY <1>1, BytesEmpty, SMTT(60)
<1>7. ReaderClient
  BY <1>1, <1>2, <1>3, <1>6 DEF ReaderClient, ReaderHolds, ReaderAsks, ReaderGets, Updates,
                                ReaderStart, InRead, Asking, Fresh
<1>8. WriterState
  BY <1>1, <1>2, <1>3, <1>4 DEF WriterState, WriterNet, WriterRest, WriterAt, Unopened
<1>9. WriterReads
  BY <1>1 DEF WriterReads
<1> QED BY <1>1, <1>5, <1>7, <1>8, <1>9 DEF TftpInv, ReaderInv, WriterInv

\* Every step keeps it.
LEMMA TftpStep ==
  ASSUME Unwrapped, TftpInv, [Next]_vars
  PROVE  TftpInv'
<1>1. CASE Next
  <2>1. CASE Reader
    <3>1. ReaderClient' /\ ReaderNet' /\ user' = user /\ len' = len
      BY <1>1, <2>1, ReaderStep DEF TftpInv, ReaderInv
    <3> QED BY <2>1, <3>1 DEF TftpInv, ReaderInv, WriterInv, Reader
  <2>2. CASE ~ Reader
    <3>1. user = "write"
      BY <2>2 DEF TftpInv, Reader
    <3>2. WriterReads' /\ (failed' \/ WriterState') /\ user' = user /\ len' = len
      BY <1>1, <3>1, WriterStep DEF TftpInv, WriterInv
    <3> QED BY <3>1, <3>2 DEF TftpInv, ReaderInv, WriterInv, Reader
  <2> QED BY <2>1, <2>2
<1>2. CASE UNCHANGED vars
  <2>1. /\ UNCHANGED <<pc, caller, tfp, req, failed, local, reading>> /\ server' = server
        /\ net' = net /\ user' = user /\ len' = len
    BY <1>2 DEF vars, local, reading
  <2>2. CASE Reader
    <3>1. ReaderClient' /\ ReaderNet'
      BY <2>1, <2>2, ReaderKeeps, NetClient DEF TftpInv, ReaderInv
    <3> QED BY <2>1, <2>2, <3>1 DEF TftpInv, ReaderInv, WriterInv, Reader
  <2>3. CASE ~ Reader
    <3>1. user = "write" /\ WriterReads /\ (failed \/ WriterState)
      BY <2>3 DEF TftpInv, Reader, WriterInv
    <3>2. WriterReads' /\ failed' = failed
      BY <2>1, <3>1 DEF WriterReads, reading
    <3>3. WriterState => WriterState'
      <4>1. ASSUME WriterState, pc # "start" PROVE WriterState'
        BY <2>1, <4>1, WriterKept, PacketsStay DEF WriterState
      <4>2. ASSUME WriterState, pc = "start" PROVE WriterState'
        <5>1. Unopened
          BY <4>2 DEF WriterState, WriterAt, Opening, Filling, Sending, Stored, Asking
        <5>2. Unopened'
          BY <2>1, <5>1 DEF Unopened, Fresh
        <5>3. Types' /\ Sessions' /\ WriterRest'
          BY <2>1, <4>2 DEF WriterState, Types, Sessions, WriterRest, local, reading
        <5>4. WriterNet'
          BY <2>1, <4>2, PacketsStay DEF WriterState
        <5> QED BY <5>2, <5>3, <5>4 DEF WriterState, WriterAt
      <4> QED BY <4>1, <4>2
    <3> QED BY <2>1, <3>1, <3>2, <3>3, SMTT(60) DEF TftpInv, ReaderInv, WriterInv, Reader
  <2> QED BY <2>2, <2>3
<1> QED BY <1>1, <1>2

\* So it holds in every state, while block numbers do not wrap.
LEMMA TftpInductive ==
  ASSUME Unwrapped
  PROVE  Spec => []TftpInv
BY TftpStart, TftpStep, PTL DEF Spec

-----------------------------------------------------------------------------
\* The bytes tftpread stores are the ones of the file from the offset on, and
\* a short read has met its end, whatever the network does with the packets.
THEOREM ReadsAlwaysExact ==
  ASSUME Unwrapped
  PROVE  Spec => []ReadExact
<1>1. ASSUME TftpInv PROVE ReadExact
  <2>1. dst = Bytes(at, at + Len(dst))
    <3>1. CASE Reader
      BY <1>1, <3>1 DEF TftpInv, ReaderInv, ReaderClient, ReaderGets
    <3>2. CASE ~ Reader
      <4>1. dst = <<>> /\ at = 0
        BY <1>1, <3>2 DEF TftpInv, WriterInv, WriterReads, Reader
      <4>2. Bytes(0, 0) = <<>> /\ Len(<<>>) = 0 /\ 0 + 0 = 0
        BY BytesEmpty, SMTT(60)
      <4> QED BY <4>1, <4>2
    <3> QED BY <3>1, <3>2
  <2>2. ASSUME Reader, pc \in {"user", "got"}, nb # 0 PROVE tfp.foffs >= len
    <3>1. ReaderClient /\ len \in Nat
      BY <1>1, <2>2, TftpAssumption DEF TftpInv, ReaderInv
    <3>2. tfp.start \in Nat /\ tfp.end \in Nat /\ tfp.foffs \in Nat
      BY <3>1 DEF ReaderClient, Types, IsFile
    <3>3. tfp.end <= tfp.start /\ tfp.start <= tfp.foffs
      BY <2>2, <3>1 DEF ReaderClient, ReaderGets, ReaderHolds
    <3>4. CASE tfp.start = len /\ tfp.end = len
      BY <3>1, <3>2, <3>3, <3>4
    <3>5. CASE /\ Valid(tfp.block)
               /\ tfp.start = Off(tfp.block - 1) /\ tfp.end = Upto(tfp.block)
      <4>1. /\ Off(tfp.block) = Off(tfp.block - 1) + SEGSIZE /\ SEGSIZE \in Nat /\ 0 < SEGSIZE
        BY <3>1, <3>5, BlockFacts, OffFacts
      <4>2. ~ (Off(tfp.block) <= len)
        BY <3>2, <3>3, <3>5, <4>1, SMTT(60) DEF Upto
      <4>3. tfp.end = len
        BY <3>5, <4>2 DEF Upto
      <4> QED BY <3>1, <3>2, <3>3, <4>3, SMTT(60)
    <3> QED BY <2>2, <3>1, <3>4, <3>5 DEF ReaderClient, ReaderHolds
  <2> QED BY <2>1, <2>2 DEF ReadExact
<1> QED BY <1>1, TftpInductive, PTL

\* tftpOpenEntry programs the whole file into flash or nothing of it.
THEOREM AlwaysFlashedWhole ==
  ASSUME Unwrapped
  PROVE  Spec => []FlashedWhole
<1>1. ASSUME TftpInv PROVE FlashedWhole
  <2>1. SUFFICES ASSUME pc = "flashed" PROVE image = Bytes(0, len)
    BY DEF FlashedWhole
  <2>2. Reader
    BY <1>1, <2>1 DEF TftpInv, WriterInv, WriterReads, Reader
  <2>3. user = "update"
    BY <1>1, <2>1, <2>2 DEF TftpInv, ReaderInv, ReaderClient, ReaderStart, Reader
  <2> QED BY <1>1, <2>1, <2>2, <2>3 DEF TftpInv, ReaderInv, ReaderClient, Updates
<1> QED BY <1>1, TftpInductive, PTL

\* As long as no call failed, the session a writer talks to holds what was
\* written, and after tftpclose all of it.
THEOREM AlwaysStoredExact ==
  ASSUME Unwrapped
  PROVE  Spec => []StoredExact
<1>1. ASSUME TftpInv PROVE StoredExact
  <2>1. SUFFICES ASSUME user = "write", ~ failed, tfp.port # 0
                 PROVE  /\ Peer.stored = Bytes(0, Len(Peer.stored)) /\ Len(Peer.stored) <= tfp.foffs
                        /\ pc = "end" => Len(Peer.stored) = tfp.foffs /\ Peer.st = "done"
    BY DEF StoredExact, Peer
  <2>2. WriterState
    BY <1>1, <2>1 DEF TftpInv, WriterInv
  <2>3. tfp.foffs \in Nat /\ tfp.block \in Nat /\ tfp.end \in Nat
    BY <2>2, WriterFile
  <2>4. ASSUME NEW n \in Nat, Peer.stored = Bytes(0, n)
        PROVE  Peer.stored = Bytes(0, Len(Peer.stored)) /\ Len(Peer.stored) = n
    <3>1. 0 <= n /\ n - 0 = n
      BY SMTT(60)
    <3>2. Len(Bytes(0, n)) = n
      BY <3>1, BytesFacts
    <3> QED BY <2>4, <3>2
  <2>5. CASE Filling
    <3>1. /\ Off(tfp.block) \in Nat /\ Off(tfp.block) <= tfp.foffs /\ pc # "end"
          /\ Peer.stored = Bytes(0, Off(tfp.block))
      <4>1. /\ pc # "end" /\ Peer.stored = Bytes(0, Off(tfp.block))
            /\ tfp.foffs = Off(tfp.block) + tfp.end
        BY <2>5 DEF Filling, Has
      <4>2. Off(tfp.block) \in Nat
        BY <2>3, OffFacts
      <4> QED BY <2>3, <4>1, <4>2, SMTT(60)
    <3> QED BY <2>4, <3>1
  <2>6. CASE Sending
    <3>1. PICK c \in Nat : c = tfp.block - 1
      BY <2>3, <2>6, SMTT(60) DEF Sending
    <3>2. /\ pc # "end" /\ Off(c) \in Nat /\ Off(c) <= tfp.foffs
          /\ Peer.stored = Bytes(0, Off(c)) \/ Peer.stored = Bytes(0, tfp.foffs)
      BY <2>6, <3>1, OffFacts DEF Sending, Has, Asking
    <3> QED BY <2>3, <2>4, <3>2, SMTT(60)
  <2>7. CASE Stored
    <3>1. Peer.stored = Bytes(0, tfp.foffs) /\ Peer.st = "done"
      BY <2>7 DEF Stored, Has
    <3> QED BY <2>3, <2>4, <3>1, SMTT(60)
  <2>8. ~ Unopened /\ ~ Opening
    BY <2>1 DEF Unopened, Opening, Fresh
  <2> QED BY <2>2, <2>5, <2>6, <2>7, <2>8 DEF WriterState, WriterAt
<1> QED BY <1>1, TftpInductive, PTL

=============================================================================
