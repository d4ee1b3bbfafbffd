--------------------------- MODULE EnvFlashProofs ---------------------------
(***************************************************************************)
(* The environment of os/env.c survives power failures, for every set of   *)
(* names, values and defaults and every size of the table and the sector.  *)
(* The proofs follow the sector that will be there when the write in       *)
(* progress, if any, is over.                                              *)
(***************************************************************************)
EXTENDS EnvFlash, WellFoundedInduction, FiniteSetTheorems, TLAPS

Image == [kind : {"ok", "erased", "torn", "open"}, entries : Seq(Entry)]

Types ==
  /\ rom \in Image
  /\ rom.kind \in {"erased", "torn"} => rom.entries = <<>>
  /\ envvar \in [Name -> Value \cup {None}]
  /\ kept \in [Name -> Value \cup {None}]
  /\ job \in Entry \cup {None}
  /\ todo \in Seq(Entry)
  /\ cleared \in BOOLEAN /\ overrun \in BOOLEAN

\* The last string of s with name n has value v.
Final(s, n, v) ==
  \E i \in 1 .. Len(s) :
    /\ s[i] = [name |-> n, value |-> v]
    /\ \A j \in i + 1 .. Len(s) : s[j].name # n

\* Every value of the table has its last string in s, but for the names X.
InSector(s, table, X) ==
  \A n \in Name \ X : table[n] # None => Final(s, n, table[n])

\* A write of the sector is in progress.
Busy == pc \in {"erase", "write", "writing"}

\* What is written, and where the program goes on.
Writes ==
  Busy =>
    /\ put.data \in Image /\ put.data.kind \in {"ok", "open"}
    /\ put.then \in {"defaults", "idle", "unset", "append", "lost"}
    /\ put.then = "lost" <=> put.data.kind = "open"
    /\ put.then = "lost" => overrun /\ kept = Nothing
    /\ put.then = "unset" => put.data = Formatted /\ job # None /\ overrun
    /\ put.then = "append" => nvram_invalid = 0 /\ job # None
    /\ put.then \in {"idle", "defaults"} =>
         \/ job = None /\ put.data = Formatted
         \/ job # None /\ nvram_invalid = 0 /\ Final(put.data.entries, job.name, job.value)

\* What is known of the sector and of the entry to store, by place.
Places ==
  /\ pc \in {"off", "map", "defaults", "idle"} => job = None
  /\ pc \in {"set", "unset", "append"} => job # None
  /\ pc \in {"unset", "append"} => nvram_invalid = 0
  /\ pc = "map" => envvar = Nothing
  /\ pc \in {"set", "unset", "append", "defaults", "idle"} /\ nvram_invalid = 0 =>
       rom.kind = "ok" \/ (rom.kind = "erased" /\ cleared)
  /\ rom.kind = "open" => overrun
  /\ \/ nvram_invalid = 0 \/ overrun \/ pc = "off"
     \/ Busy /\ put.data = Formatted /\ put.then = "defaults" /\ job = None

\* The values that were stored are in the sector, and in the one to come.
Survive ==
  /\ rom.kind = "ok" => InSector(rom.entries, kept, {})
  /\ Busy /\ put.data.kind = "ok" => InSector(put.data.entries, kept, {})
  /\ ~ Busy /\ rom.kind # "ok" => kept = Nothing
  /\ nvram_invalid # 0 => kept = Nothing
  /\ job # None => kept[job.name] = None

\* The names whose value need not be in the sector: the one that is being
\* stored, and those with a value that is too long.
Pending ==
  {n \in Name : \/ <<n, envvar[n]>> \in TooLong
                \/ job # None /\ n = job.name}

Agree ==
  /\ job # None => envvar[job.name] \in {None, job.value}
  /\ pc \notin {"off", "map", "lost"} /\ ~ cleared /\ ~ overrun =>
       InSector(IF Busy THEN put.data.entries ELSE rom.entries, envvar, Pending)

\* The names of a table, and whether they are as many as it has slots.
Taken(table) == {n \in Name : table[n] # None}
NoSlot(table) == Cardinality(Taken(table)) >= NVAR

\* Every name of s is in the table, unless that has no slot left.
HasNames(s, table) ==
  \A i \in 1 .. Len(s) : table[s[i].name] # None \/ NoSlot(table)

Slots ==
  pc \notin {"off", "map"} =>
    /\ HasNames(IF Busy THEN put.data.entries ELSE rom.entries, envvar)
    /\ job # None => envvar[job.name] # None \/ NoSlot(envvar)

EnvInv == Types /\ Writes /\ Places /\ Survive /\ Agree /\ Slots

-----------------------------------------------------------------------------
\* Leaves go to Zenon unless they name the SMT solver; the time is ample.
USE ZenonT(60)

\* Sequences of strings.

\* Every set of naturals that is not empty has a least element.
LEMMA LeastIndex ==
  ASSUME NEW S \in SUBSET Nat, S # {}
  PROVE  \E n \in S : \A m \in S : n <= m
<1>1. PICK Q : IsWellFoundedOn(Q, Nat) /\ \A x, y \in Nat : x < y => <<x, y>> \in Q
  <2> DEFINE L == OpToRel(<, Nat)
  <2>1. IsWellFoundedOn(L, Nat)
    BY NatLessThanWellFounded
  <2>2. \A x, y \in Nat : x < y => <<x, y>> \in L
    BY DEF OpToRel
  <2> HIDE DEF L
  <2> QED BY <2>1, <2>2
<1>2. S \subseteq Nat /\ IsWellFoundedOn(Q, Nat)
  BY <1>1
<1>3. PICK n \in S : \A m \in S : ~ (<<m, n>> \in Q)
  BY ONLY <1>2, S # {}, WFMin, Zenon
<1>4. \A m \in S : m \in Nat /\ n \in Nat /\ ~ (m < n)
  BY <1>1, <1>3
<1> QED BY <1>4, SMTT(60)

\* A string written behind the others is the last of its name and leaves the
\* last strings of the other names.
LEMMA WithFinal ==
  ASSUME NEW s \in Seq(Entry), NEW e \in Entry
  PROVE  /\ With(s, e) \in Seq(Entry) /\ Final(With(s, e), e.name, e.value)
         /\ \A n, v : n # e.name /\ Final(s, n, v) => Final(With(s, e), n, v)
         /\ \A i \in 1 .. Len(With(s, e)) :
              With(s, e)[i] = e \/ \E j \in 1 .. Len(s) : With(s, e)[i] = s[j]
<1> DEFINE r == Append(s, e)
<1>1. /\ r \in Seq(Entry) /\ Len(r) = Len(s) + 1 /\ Len(s) \in Nat /\ r[Len(s) + 1] = e
      /\ \A i \in 1 .. Len(s) : r[i] = s[i]
  BY SMTT(60)
<1>2. e = [name |-> e.name, value |-> e.value]
  BY DEF Entry
<1> HIDE DEF r
<1>3. Final(r, e.name, e.value)
  BY <1>1, <1>2, SMTT(60) DEF Final
<1>4. ASSUME NEW n, NEW v, n # e.name, Final(s, n, v) PROVE Final(r, n, v)
  <2>1. PICK i \in 1 .. Len(s) : /\ s[i] = [name |-> n, value |-> v]
                                 /\ \A j \in i + 1 .. Len(s) : s[j].name # n
    BY <1>4 DEF Final
  <2>2. \A j \in i + 1 .. Len(r) : r[j].name # n
    <3>1. ASSUME NEW j \in i + 1 .. Len(r) PROVE r[j].name # n
      <4>1. CASE j = Len(s) + 1
        BY <4>1, <1>1, <1>4
      <4>2. CASE j # Len(s) + 1
        <5>1. j \in i + 1 .. Len(s) /\ j \in 1 .. Len(s)
          BY <4>2, <1>1, SMTT(60)
        <5> QED BY <5>1, <1>1, <2>1
      <4> QED BY <4>1, <4>2
    <3> QED BY <3>1
  <2>3. i \in 1 .. Len(r) /\ r[i] = s[i]
    BY <1>1, SMTT(60)
  <2> QED BY <2>1, <2>2, <2>3 DEF Final
<1>5. \A i \in 1 .. Len(r) : r[i] = e \/ \E j \in 1 .. Len(s) : r[i] = s[j]
  <2>1. \A i \in 1 .. Len(r) : i = Len(s) + 1 \/ i \in 1 .. Len(s)
    BY <1>1, SMTT(60)
  <2> QED BY <1>1, <2>1
<1> QED BY <1>1, <1>3, <1>4, <1>5 DEF With, r

\* Taking out a string of name n leaves the last strings of the other names.
LEMMA WithoutFinal ==
  ASSUME NEW s \in Seq(Entry), NEW n
  PROVE  /\ Without(s, n) \in Seq(Entry)
         /\ s = <<>> => Without(s, n) = s
         /\ \A m, v : m # n /\ Final(s, m, v) => Final(Without(s, n), m, v)
         /\ \A i \in 1 .. Len(Without(s, n)) :
              \E j \in 1 .. Len(s) : Without(s, n)[i] = s[j]
<1>1. CASE ~ \E i \in DOMAIN s : s[i].name = n
  BY <1>1 DEF Without
<1>2. CASE \E i \in DOMAIN s : s[i].name = n
  <2> DEFINE first(i) == s[i].name = n /\ \A j \in 1 .. i - 1 : s[j].name # n
  <2>1. \E i \in DOMAIN s : first(i)
    <3> DEFINE S == {i \in DOMAIN s : s[i].name = n}
    <3>1. S \subseteq Nat /\ S # {} /\ DOMAIN s = 1 .. Len(s)
      BY <1>2, SMTT(60)
    <3>2. PICK i \in S : \A j \in S : i <= j
      BY <3>1, LeastIndex
    <3>3. \A j \in 1 .. i - 1 : s[j].name # n
      BY <3>1, <3>2, SMTT(60)
    <3> QED BY <3>2, <3>3
  <2>2. PICK k \in DOMAIN s : s[k].name = n /\ Without(s, n) = RemoveAt(s, k)
    BY <1>2, <2>1 DEF Without
  <2> DEFINE r == RemoveAt(s, k)
  <2>3. k \in 1 .. Len(s) /\ Len(s) \in Nat /\ k \in Nat
    BY <2>2, SMTT(60)
  <2>4. /\ r \in Seq(Entry) /\ Len(r) = Len(s) - 1
        /\ \A i \in 1 .. Len(s) - 1 : r[i] = IF i < k THEN s[i] ELSE s[i + 1]
    <3>1. PICK a : a = SubSeq(s, 1, k - 1)
      OBVIOUS
    <3>2. PICK c : c = SubSeq(s, k + 1, Len(s))
      OBVIOUS
    <3>3. a \in Seq(Entry) /\ Len(a) = k - 1 /\ \A i \in 1 .. k - 1 : a[i] = s[i]
      BY <2>3, <3>1, SMTT(60)
    <3>4. /\ c \in Seq(Entry) /\ Len(c) = Len(s) - k
          /\ \A i \in 1 .. Len(s) - k : c[i] = s[k + i]
      BY <2>3, <3>2, SMTT(60)
    <3>5. r = a \o c
      BY <3>1, <3>2 DEF RemoveAt
    <3>6. /\ r \in Seq(Entry) /\ Len(r) = Len(s) - 1
          /\ \A i \in 1 .. Len(r) : r[i] = IF i <= k - 1 THEN a[i] ELSE c[i - (k - 1)]
      BY <2>3, <3>3, <3>4, <3>5, SMTT(60)
    <3>7. ASSUME NEW i \in 1 .. Len(s) - 1 PROVE r[i] = IF i < k THEN s[i] ELSE s[i + 1]
      <4>1. CASE i < k
        BY <4>1, <2>3, <3>3, <3>6, SMTT(60)
      <4>2. CASE ~ (i < k)
        <5>1. i - (k - 1) \in 1 .. Len(s) - k /\ k + (i - (k - 1)) = i + 1
          BY <4>2, <2>3, SMTT(60)
        <5>2. c[i - (k - 1)] = s[i + 1]
          <6>1. PICK l \in 1 .. Len(s) - k : l = i - (k - 1) /\ k + l = i + 1
            BY <5>1
          <6> QED BY <6>1, <3>4
        <5>3. r[i] = c[i - (k - 1)]
          <6>1. i \in 1 .. Len(r) /\ ~ (i <= k - 1)
            BY <4>2, <2>3, <3>6, SMTT(60)
          <6> QED BY <3>6, <6>1
        <5> QED BY <4>2, <5>2, <5>3
      <4> QED BY <4>1, <4>2
    <3> QED BY <3>6, <3>7
  <2>5. s # <<>>
    BY <2>3, SMTT(60)
  <2> HIDE DEF r
  <2>6. ASSUME NEW m, NEW v, m # n, Final(s, m, v) PROVE Final(r, m, v)
    <3>1. PICK i \in 1 .. Len(s) : /\ s[i] = [name |-> m, value |-> v]
                                   /\ \A j \in i + 1 .. Len(s) : s[j].name # m
      BY <2>6 DEF Final
    <3>2. i # k
      BY <2>2, <2>6, <3>1, SMTT(60)
    <3>3. PICK l : l = IF i < k THEN i ELSE i - 1
      OBVIOUS
    <3>4. l \in 1 .. Len(r) /\ r[l] = s[i]
      BY <2>3, <2>4, <3>2, <3>3, SMTT(60)
    <3>5. ASSUME NEW j \in l + 1 .. Len(r) PROVE r[j].name # m
      <4>1. CASE j < k
        BY <4>1, <2>3, <2>4, <3>1, <3>2, <3>3, SMTT(60)
      <4>2. CASE ~ (j < k)
        <5>1. r[j] = s[j + 1] /\ j + 1 \in i + 1 .. Len(s)
          BY <4>2, <2>3, <2>4, <3>2, <3>3, <3>4, SMTT(60)
        <5> QED BY <5>1, <3>1
      <4> QED BY <4>1, <4>2
    <3> QED BY <3>1, <3>4, <3>5 DEF Final
  <2>7. \A i \in 1 .. Len(r) : \E j \in 1 .. Len(s) : r[i] = s[j]
    <3>1. \A i \in 1 .. Len(r) : i \in 1 .. Len(s) /\ i + 1 \in 1 .. Len(s)
      BY <2>3, <2>4, SMTT(60)
    <3>2. \A i \in 1 .. Len(r) : r[i] = s[i] \/ r[i] = s[i + 1]
      BY <2>4
    <3> QED BY <3>1, <3>2
  <2> QED BY <2>2, <2>4, <2>5, <2>6, <2>7 DEF r
<1> QED BY <1>1, <1>2

-----------------------------------------------------------------------------
\* The start.

Row(s, table, f, n) ==
  f = [i \in 0 .. n |-> IF i = 0 THEN table ELSE set_mem_env(f[i - 1], s[i])]

\* The recursion of Load has a solution.
LEMMA RowExists ==
  ASSUME NEW s, NEW table
  PROVE  \A n \in Nat : \E f : Row(s, table, f, n)
<1> DEFINE S == {n \in Nat : ~ \E f : Row(s, table, f, n)}
<1>1. SUFFICES ASSUME S # {} PROVE FALSE
  OBVIOUS
<1>2. PICK n \in S : \A m \in S : n <= m
  BY <1>1, LeastIndex
<1>3. n \in Nat /\ ~ \E f : Row(s, table, f, n)
  OBVIOUS
<1>4. CASE n = 0
  <2> DEFINE f == [i \in 0 .. n |-> table]
  <2>1. f = [i \in 0 .. n |-> IF i = 0 THEN table ELSE set_mem_env(f[i - 1], s[i])]
    BY <1>4, SMTT(60)
  <2>2. Row(s, table, f, n)
    BY <2>1 DEF Row
  <2> QED BY <2>2, <1>3
<1>5. CASE n # 0
  <2>1. n - 1 \in Nat /\ n - 1 \notin S
    BY <1>2, <1>3, <1>5, SMTT(60)
  <2>2. PICK g : Row(s, table, g, n - 1)
    BY <2>1
  <2>3. \A i \in 0 .. n - 1 : g[i] = IF i = 0 THEN table ELSE set_mem_env(g[i - 1], s[i])
    BY <2>2 DEF Row
  <2>4. PICK f : f = [i \in 0 .. n |-> IF i = n THEN set_mem_env(g[n - 1], s[n]) ELSE g[i]]
    OBVIOUS
  <2>5. ASSUME NEW i \in 0 .. n
        PROVE  f[i] = IF i = 0 THEN table ELSE set_mem_env(f[i - 1], s[i])
    <3>1. CASE i = 0
      BY <3>1, <1>3, <1>5, <2>3, <2>4, SMTT(60)
    <3>2. CASE i # 0 /\ i # n
      <4>1. i \in 0 .. n - 1 /\ i - 1 \in 0 .. n /\ i - 1 # n /\ f[i] = g[i] /\ f[i - 1] = g[i - 1]
        BY <3>2, <1>3, <2>4, SMTT(60)
      <4> QED BY <4>1, <3>2, <2>3
    <3>3. CASE i = n
      <4>1. n - 1 \in 0 .. n /\ n - 1 # n /\ f[n - 1] = g[n - 1]
        BY <1>3, <1>5, <2>4, SMTT(60)
      <4>2. f[n] = set_mem_env(g[n - 1], s[n])
        BY <1>3, <2>4, SMTT(60)
      <4> QED BY <3>3, <4>1, <4>2, <1>5
    <3> QED BY <3>1, <3>2, <3>3
  <2>6. f = [i \in 0 .. n |-> IF i = 0 THEN table ELSE set_mem_env(f[i - 1], s[i])]
    <3>1. f = [i \in 0 .. n |-> f[i]]
      BY <2>4
    <3> QED BY <2>5, <3>1
  <2>7. Row(s, table, f, n)
    BY <2>6 DEF Row
  <2> QED BY <2>7, <1>3
<1> QED BY <1>4, <1>5

\* Loading a sequence of entries folds them into the table one by one.
LEMMA LoadRow ==
  ASSUME NEW s \in Seq(Entry), NEW table
  PROVE  \E f : Row(s, table, f, Len(s)) /\ Load(s, table) = f[Len(s)]
<1>1. \E f : Row(s, table, f, Len(s))
  <2>1. Len(s) \in Nat
    BY SMTT(60)
  <2> QED BY <2>1, RowExists
<1> QED BY <1>1 DEF Load, Row

\* A table that grows has no fewer names.
LEMMA TableGrows ==
  ASSUME NEW t, NEW u, \A n \in Name : t[n] # None => u[n] # None
  PROVE  /\ Cardinality(Taken(t)) \in Nat /\ Cardinality(Taken(u)) \in Nat
         /\ NoSlot(t) => NoSlot(u)
<1>1. /\ Taken(t) \in SUBSET Taken(u) /\ Taken(u) \in SUBSET Name
      /\ IsFiniteSet(Name) /\ NVAR \in Nat
  BY EnvAssumption DEF Taken
<1>2. IsFiniteSet(Taken(u))
  BY <1>1, FS_Subset
<1>3. IsFiniteSet(Taken(t)) /\ Cardinality(Taken(t)) <= Cardinality(Taken(u))
  BY <1>1, <1>2, FS_Subset
<1>4. Cardinality(Taken(t)) \in Nat /\ Cardinality(Taken(u)) \in Nat
  BY <1>2, <1>3, FS_CardinalityType
<1>5. NoSlot(t) => NoSlot(u)
  BY <1>1, <1>3, <1>4, SMTT(60) DEF NoSlot
<1> QED BY <1>4, <1>5

\* The value that set_mem_env leaves in a table: the name gets a slot unless
\* all are taken, and no name loses its slot.
LEMMA TableSet ==
  ASSUME NEW table \in [Name -> Value \cup {None}], NEW e \in Entry
  PROVE  /\ set_mem_env(table, e) \in [Name -> Value \cup {None}]
         /\ \A n \in Name \ {e.name} : set_mem_env(table, e)[n] = table[n]
         /\ set_mem_env(table, e)[e.name] \in {None, e.value}
         /\ \A n \in Name : table[n] # None => set_mem_env(table, e)[n] # None
         /\ set_mem_env(table, e)[e.name] # None \/ NoSlot(table)
         /\ NoSlot(table) => NoSlot(set_mem_env(table, e))
<1>1. e.name \in Name /\ e.value \in Value /\ e.value # None
  BY EnvAssumption DEF Entry
<1>2. /\ set_mem_env(table, e) \in [Name -> Value \cup {None}]
      /\ \A n \in Name \ {e.name} : set_mem_env(table, e)[n] = table[n]
      /\ set_mem_env(table, e)[e.name] \in {None, e.value}
      /\ table[e.name] # None => set_mem_env(table, e)[e.name] # None
  BY <1>1 DEF set_mem_env
<1>3. \A n \in Name : table[n] # None => set_mem_env(table, e)[n] # None
  BY <1>2
<1>4. NoSlot(table) => NoSlot(set_mem_env(table, e))
  BY <1>3, TableGrows
<1>5. set_mem_env(table, e)[e.name] # None \/ NoSlot(table)
  <2>1. CASE Cardinality(Taken(table)) < NVAR
    BY <1>1, <2>1 DEF set_mem_env, Taken
  <2>2. CASE ~ (Cardinality(Taken(table)) < NVAR)
    <3>1. Cardinality(Taken(table)) \in Nat /\ NVAR \in Nat
      BY TableGrows, EnvAssumption
    <3> QED BY <2>2, <3>1, SMTT(60) DEF NoSlot
  <2> QED BY <2>1, <2>2
<1> QED BY <1>2, <1>3, <1>4, <1>5

\* Name n stands in s behind as many other names as the table has slots.
Behind(s, n) ==
  \E i \in 1 .. Len(s) :
    s[i].name = n /\ Cardinality({s[j].name : j \in 1 .. i - 1} \ {n}) >= NVAR

\* A name has one last string.
LEMMA FinalUnique ==
  ASSUME NEW s \in Seq(Entry), NEW n, NEW v, NEW w, Final(s, n, v), Final(s, n, w)
  PROVE  v = w
<1>1. PICK i \in 1 .. Len(s) : /\ s[i] = [name |-> n, value |-> v]
                               /\ \A j \in i + 1 .. Len(s) : s[j].name # n
  BY DEF Final
<1>2. PICK k \in 1 .. Len(s) : /\ s[k] = [name |-> n, value |-> w]
                               /\ \A j \in k + 1 .. Len(s) : s[j].name # n
  BY DEF Final
<1>3. s[i].name = n /\ s[k].name = n /\ s[i].value = v /\ s[k].value = w
  BY <1>1, <1>2, SMTT(60)
<1>4. i \notin k + 1 .. Len(s) /\ k \notin i + 1 .. Len(s)
  BY <1>1, <1>2, <1>3
<1>5. i = k
  <2>1. Len(s) \in Nat
    BY SMTT(60)
  <2> QED BY <1>4, <2>1, SMTT(60)
<1> QED BY <1>3, <1>5

\* Each value that a start loads is that of the last string of its name: a name
\* that got no slot gets none later, as no slot becomes free.  The names it does
\* not load are behind others that took every slot.
LEMMA LoadFinal ==
  ASSUME NEW s \in Seq(Entry)
  PROVE  /\ Load(s, Nothing) \in [Name -> Value \cup {None}]
         /\ InSector(s, Load(s, Nothing), {})
         /\ HasNames(s, Load(s, Nothing))
         /\ \A n \in Name : \A v : Final(s, n, v) =>
              \/ Load(s, Nothing)[n] = v
              \/ Load(s, Nothing)[n] = None /\ Behind(s, n)
<1>1. PICK f : Row(s, Nothing, f, Len(s)) /\ Load(s, Nothing) = f[Len(s)]
  BY LoadRow
<1>2. /\ Len(s) \in Nat /\ f[0] = Nothing
      /\ \A i \in 1 .. Len(s) : f[i] = set_mem_env(f[i - 1], s[i]) /\ s[i] \in Entry
  BY <1>1, SMTT(60) DEF Row
<1> DEFINE Good(k) ==
      /\ f[k] \in [Name -> Value \cup {None}]
      /\ \A n \in Name : f[k][n] # None =>
           \E i \in 1 .. k : /\ s[i] = [name |-> n, value |-> f[k][n]]
                             /\ \A j \in i + 1 .. k : s[j].name # n
      /\ \A i \in 0 .. k : \A n \in Name : f[i][n] # None => f[k][n] # None
    S == {k \in 0 .. Len(s) : ~ Good(k)}
<1>3. Good(0)
  <2>1. \A i \in 0 .. 0 : i = 0
    BY SMTT(60)
  <2> QED BY <1>2, <2>1 DEF Nothing
<1>4. ASSUME NEW k \in 1 .. Len(s), Good(k - 1) PROVE Good(k)
  <2>1. PICK t : t = f[k - 1]
    OBVIOUS
  <2>2. PICK e \in Entry : e = s[k]
    BY <1>2
  <2>3. /\ t \in [Name -> Value \cup {None}] /\ f[k] = set_mem_env(t, e) /\ k \in Nat /\ k >= 1
    BY <1>2, <1>4, <2>1, <2>2, SMTT(60)
  <2>4. /\ f[k] \in [Name -> Value \cup {None}]
        /\ \A n \in Name \ {e.name} : f[k][n] = t[n]
        /\ f[k][e.name] \in {None, e.value}
        /\ \A n \in Name : t[n] # None => f[k][n] # None
    <3>1. /\ set_mem_env(t, e) \in [Name -> Value \cup {None}]
          /\ \A n \in Name \ {e.name} : set_mem_env(t, e)[n] = t[n]
          /\ set_mem_env(t, e)[e.name] \in {None, e.value}
          /\ \A n \in Name : t[n] # None => set_mem_env(t, e)[n] # None
      BY <2>2, <2>3, TableSet
    <3> QED BY <2>3, <3>1
  <2>5. ASSUME NEW n \in Name, f[k][n] # None
        PROVE  \E i \in 1 .. k : /\ s[i] = [name |-> n, value |-> f[k][n]]
                                 /\ \A j \in i + 1 .. k : s[j].name # n
    <3>1. CASE n = e.name
      <4>1. s[k] = [name |-> n, value |-> f[k][n]]
        BY <2>2, <2>4, <2>5, <3>1 DEF Entry
      <4> QED BY <4>1, <2>3, SMTT(60)
    <3>2. CASE n # e.name
      <4>1. PICK i \in 1 .. k - 1 : /\ s[i] = [name |-> n, value |-> t[n]]
                                    /\ \A j \in i + 1 .. k - 1 : s[j].name # n
        BY <1>4, <2>1, <2>4, <2>5, <3>2
      <4>2. \A j \in i + 1 .. k : s[j].name # n
        BY <2>2, <2>3, <3>2, <4>1, SMTT(60)
      <4> QED BY <2>3, <2>4, <3>2, <4>1, <4>2, SMTT(60)
    <3> QED BY <3>1, <3>2
  <2>6. ASSUME NEW i \in 0 .. k, NEW n \in Name, f[i][n] # None PROVE f[k][n] # None
    <3>1. i = k \/ i \in 0 .. k - 1
      BY <2>3, SMTT(60)
    <3>2. CASE i \in 0 .. k - 1
      <4>1. t[n] # None
        BY <1>4, <2>1, <2>6, <3>2
      <4> QED BY <2>4, <4>1
    <3> QED BY <2>6, <3>1, <3>2
  <2> QED BY <2>4, <2>5, <2>6
<1>5. S = {}
  <2>1. SUFFICES ASSUME S # {} PROVE FALSE
    OBVIOUS
  <2>2. S \subseteq Nat
    BY <1>2, SMTT(60)
  <2>3. PICK k \in S : \A m \in S : k <= m
    BY <2>1, <2>2, LeastIndex
  <2> HIDE DEF Good
  <2>4. k \in 1 .. Len(s) /\ k - 1 \in 0 .. Len(s) /\ k - 1 \notin S
    BY <1>2, <1>3, <2>3, SMTT(60)
  <2>5. Good(k - 1)
    BY <2>4
  <2> QED BY <1>4, <2>3, <2>4, <2>5
<1>6. \A k \in 0 .. Len(s) : Good(k)
  BY <1>5
<1>7. Len(s) \in 0 .. Len(s) /\ \A i \in 1 .. Len(s) : i \in 0 .. Len(s) /\ i - 1 \in 0 .. Len(s)
  BY <1>2, SMTT(60)
<1>8. PICK l : l = f[Len(s)]
  OBVIOUS
<1>9. /\ l \in [Name -> Value \cup {None}] /\ InSector(s, l, {})
      /\ \A i \in 0 .. Len(s) : \A n \in Name : f[i][n] # None => l[n] # None
  <2>1. Good(Len(s))
    BY <1>6, <1>7
  <2> QED BY <1>8, <2>1 DEF InSector, Final
<1>10. ASSUME NEW i \in 1 .. Len(s)
       PROVE  /\ s[i] \in Entry /\ s[i].name \in Name
              /\ f[i - 1] \in [Name -> Value \cup {None}]
              /\ \A n \in Name : f[i - 1][n] # None =>
                   l[n] # None /\ \E j \in 1 .. i - 1 : s[j].name = n
              /\ f[i - 1][s[i].name] # None => f[i][s[i].name] # None
              /\ f[i][s[i].name] # None => l[s[i].name] # None
              /\ f[i][s[i].name] # None \/ NoSlot(f[i - 1])
  <2>1. Good(i - 1) /\ i \in 0 .. Len(s) /\ i - 1 \in 0 .. Len(s)
    BY <1>6, <1>7
  <2>2. s[i] \in Entry /\ s[i].name \in Name /\ f[i] = set_mem_env(f[i - 1], s[i])
    BY <1>2 DEF Entry
  <2>3. f[i - 1] \in [Name -> Value \cup {None}]
    BY <2>1
  <2>4. \A n \in Name : f[i - 1][n] # None => \E j \in 1 .. i - 1 : s[j].name = n
    <3>1. ASSUME NEW n \in Name, f[i - 1][n] # None PROVE \E j \in 1 .. i - 1 : s[j].name = n
      <4>1. PICK j \in 1 .. i - 1 : s[j] = [name |-> n, value |-> f[i - 1][n]]
        BY <2>1, <3>1
      <4>2. s[j].name = n
        BY <4>1, SMTT(60)
      <4> QED BY <4>2
    <3> QED BY <3>1
  <2>5. /\ f[i - 1][s[i].name] # None => f[i][s[i].name] # None
        /\ f[i][s[i].name] # None \/ NoSlot(f[i - 1])
    <3>1. PICK t \in [Name -> Value \cup {None}] : t = f[i - 1]
      BY <2>3
    <3>2. PICK e \in Entry : e = s[i]
      BY <2>2
    <3>3. /\ \A n \in Name : t[n] # None => set_mem_env(t, e)[n] # None
          /\ set_mem_env(t, e)[e.name] # None \/ NoSlot(t)
      BY TableSet
    <3> QED BY <2>2, <3>1, <3>2, <3>3
  <2> HIDE DEF Good
  <2> QED BY <1>9, <2>1, <2>2, <2>3, <2>4, <2>5
<1> HIDE DEF Good
<1>11. HasNames(s, l)
  <2>1. ASSUME NEW i \in 1 .. Len(s), l[s[i].name] = None PROVE NoSlot(l)
    <3>1. NoSlot(f[i - 1]) /\ \A n \in Name : f[i - 1][n] # None => l[n] # None
      BY <1>10, <2>1
    <3> QED BY <3>1, TableGrows
  <2> QED BY <2>1 DEF HasNames
<1>12. ASSUME NEW n \in Name, NEW v, Final(s, n, v)
       PROVE  l[n] = v \/ (l[n] = None /\ Behind(s, n))
  <2>1. CASE l[n] # None
    BY <1>9, <1>12, <2>1, FinalUnique DEF InSector
  <2>2. CASE l[n] = None
    <3>1. PICK i \in 1 .. Len(s) : s[i].name = n
      <4>1. PICK i \in 1 .. Len(s) : s[i] = [name |-> n, value |-> v]
        BY <1>12 DEF Final
      <4>2. s[i].name = n
        BY <4>1, SMTT(60)
      <4> QED BY <4>2
    <3>2. PICK t : t = f[i - 1]
      OBVIOUS
    <3>3. t[n] = None /\ NoSlot(t) /\ \A m \in Name : t[m] # None => \E j \in 1 .. i - 1 : s[j].name = m
      BY <1>10, <2>2, <3>1, <3>2
    <3>4. PICK D : D = {s[j].name : j \in 1 .. i - 1} \ {n}
      OBVIOUS
    <3>5. \A j \in 1 .. i - 1 : j \in 1 .. Len(s)
      BY <1>2, SMTT(60)
    <3>6. D \in SUBSET Name /\ Taken(t) \in SUBSET D
      <4>1. \A j \in 1 .. i - 1 : s[j].name \in Name
        BY <1>10, <3>5
      <4>2. D \in SUBSET Name
        BY <3>4, <4>1
      <4>3. ASSUME NEW m \in Taken(t) PROVE m \in D
        <5>1. m \in Name /\ t[m] # None
          BY <4>3 DEF Taken
        <5>2. m # n /\ \E j \in 1 .. i - 1 : s[j].name = m
          BY <3>3, <5>1
        <5> QED BY <3>4, <5>2
      <4> QED BY <4>2, <4>3
    <3>7. IsFiniteSet(D)
      BY <3>6, FS_Subset, EnvAssumption
    <3>8. /\ Cardinality(Taken(t)) <= Cardinality(D) /\ Cardinality(D) \in Nat
          /\ Cardinality(Taken(t)) \in Nat /\ NVAR \in Nat
      BY <3>6, <3>7, FS_Subset, FS_CardinalityType, EnvAssumption
    <3>9. Cardinality(D) >= NVAR
      BY <3>3, <3>8, SMTT(60) DEF NoSlot
    <3> QED BY <2>2, <3>1, <3>4, <3>9 DEF Behind
  <2> QED BY <2>1, <2>2
<1> QED BY <1>1, <1>8, <1>9, <1>11, <1>12

-----------------------------------------------------------------------------
\* The steps.

\* The empty table is found in every sector, and a formatted sector is valid and empty.
LEMMA SectorFacts ==
  /\ \A s, X : InSector(s, Nothing, X)
  /\ \A s, X, Y, t : X \subseteq Y /\ InSector(s, t, X) => InSector(s, t, Y)
  /\ Formatted \in Image /\ Formatted.kind = "ok" /\ Formatted.entries = <<>>
  /\ Nothing \in [Name -> Value \cup {None}]
BY SMTT(60) DEF InSector, Nothing, Formatted, Image

\* An empty sector has no name that is not in the table.
LEMMA FormattedNames ==
  ASSUME NEW table
  PROVE  HasNames(<<>>, table) /\ HasNames(Formatted.entries, table)
<1>1. \A i \in 1 .. Len(<<>>) : FALSE
  BY SMTT(60)
<1> QED BY <1>1, SectorFacts DEF HasNames

\* The invariant holds when the board starts.
LEMMA EnvInit ==
  ASSUME Init
  PROVE  EnvInv
<1>1. Types
  BY SectorFacts DEF Init, Types, Image
<1>2. Writes /\ Places
  BY DEF Init, Writes, Places, Busy
<1>3. Survive /\ Agree
  BY SectorFacts DEF Init, Survive, Agree, Busy
<1>4. Slots
  BY DEF Init, Slots
<1> QED BY <1>1, <1>2, <1>3, <1>4 DEF EnvInv

\* A step inside a write: only the sector changes, and it is not whole.
LEMMA WriteKeeps ==
  ASSUME EnvInv, Busy, pc' \in {"write", "writing"}, rom' \in Image,
         rom'.kind \in {"erased", "torn"}, rom'.entries = <<>>,
         UNCHANGED <<envvar, nvram_invalid, job, put, todo, cleared, overrun, kept>>
  PROVE  EnvInv'
<1>1. Types'
  BY DEF EnvInv, Types
<1>2. Writes' /\ Places'
  BY DEF EnvInv, Writes, Places, Busy
<1>3. Survive' /\ Agree'
  BY DEF EnvInv, Survive, Agree, Busy, Pending
<1>4. Slots'
  BY DEF EnvInv, Slots, Busy
<1> QED BY <1>1, <1>2, <1>3, <1>4 DEF EnvInv

\* Erasing or programming the flash sector keeps the invariant.
LEMMA EraseKeeps ==
  ASSUME EnvInv, spi_flash_erase_sector \/ spi_flash_write_byte
  PROVE  EnvInv'
<1>1. /\ Busy /\ pc' \in {"write", "writing"} /\ rom' \in Image
      /\ rom'.kind \in {"erased", "torn"} /\ rom'.entries = <<>>
      /\ UNCHANGED <<envvar, nvram_invalid, job, put, todo, cleared, overrun, kept>>
  <2>1. PICK k \in {"erased", "torn"} : rom' = [kind |-> k, entries |-> <<>>]
    BY DEF spi_flash_erase_sector, spi_flash_write_byte
  <2>2. <<>> \in Seq(Entry)
    BY SMTT(60)
  <2>3. rom' \in Image /\ rom'.kind \in {"erased", "torn"} /\ rom'.entries = <<>>
    BY <2>1, <2>2 DEF Image
  <2> QED BY <2>3 DEF spi_flash_erase_sector, spi_flash_write_byte, Busy
<1> QED BY <1>1, WriteKeeps

\* The last byte: the sector is the one that was to come.
LEMMA WriteAreaKeeps ==
  ASSUME EnvInv, spi_flash_write_area
  PROVE  EnvInv'
<1> DEFINE done == put.then \in {"idle", "defaults"}
<1>1. /\ Busy /\ ~ Busy' /\ rom' = put.data /\ pc' = put.then
      /\ nvram_invalid' = IF put.data = Formatted THEN 0 ELSE nvram_invalid
      /\ kept' = IF done /\ job # None THEN [kept EXCEPT ![job.name] = job.value] ELSE kept
      /\ job' = IF done THEN None ELSE job
      /\ UNCHANGED <<envvar, put, todo, cleared, overrun>>
  BY DEF spi_flash_write_area, Busy, EnvInv, Writes
<1>2. Types /\ Writes /\ Places /\ Survive /\ Agree /\ Slots
  BY DEF EnvInv
<1>3. job # None => job \in Entry /\ job.name \in Name /\ job.value \in Value
  BY <1>2 DEF Types, Entry
<1>4. /\ put.data \in Image /\ put.data.kind \in {"ok", "open"}
      /\ put.then \in {"defaults", "idle", "unset", "append", "lost"}
      /\ put.then = "lost" <=> put.data.kind = "open"
      /\ put.then = "lost" => overrun /\ kept = Nothing
      /\ put.then = "unset" => put.data = Formatted /\ job # None /\ overrun
      /\ put.then = "append" => nvram_invalid = 0 /\ job # None
      /\ done => \/ job = None /\ put.data = Formatted
                 \/ /\ job # None /\ nvram_invalid = 0
                    /\ Final(put.data.entries, job.name, job.value)
  BY <1>1, <1>2 DEF Writes
<1>5. kept' \in [Name -> Value \cup {None}]
  BY <1>1, <1>2, <1>3 DEF Types
<1>6. Types'
  BY <1>1, <1>2, <1>4, <1>5 DEF Types
<1>7. Writes' /\ Places'
  BY <1>1, <1>2, <1>4 DEF Writes, Places, Busy
<1>8. put.data.kind = "ok" => InSector(put.data.entries, kept', {})
  BY <1>1, <1>2, <1>3, <1>4 DEF Survive, InSector, Types
<1>9. Survive'
  BY <1>1, <1>2, <1>4, <1>8 DEF Survive
<1>10. Agree'
  <2>1. job' # None => envvar'[job'.name] \in {None, job'.value}
    BY <1>1, <1>2 DEF Agree
  <2>2. ASSUME ~ cleared, ~ overrun, pc' # "lost", pc' \notin {"off", "map"}
        PROVE  InSector(put.data.entries, envvar, Pending')
    <3>1. InSector(put.data.entries, envvar, Pending)
      BY <1>1, <1>2, <2>2 DEF Agree, Busy
    <3>2. ASSUME NEW n \in Name \ Pending', envvar[n] # None
          PROVE  Final(put.data.entries, n, envvar[n])
      <4>1. CASE n \in Pending
        <5>1. job # None /\ n = job.name /\ done
          BY <1>1, <3>2, <4>1 DEF Pending
        <5>2. envvar[n] = job.value
          BY <1>2, <3>2, <5>1 DEF Agree
        <5> QED BY <1>4, <5>1, <5>2
      <4>2. CASE n \notin Pending
        BY <3>1, <3>2, <4>2 DEF InSector
      <4> QED BY <4>1, <4>2
    <3> QED BY <3>2 DEF InSector
  <2> QED BY <1>1, <2>1, <2>2 DEF Agree
<1>11. Slots'
  BY <1>1, <1>2 DEF Slots, Busy
<1> QED BY <1>6, <1>7, <1>9, <1>10, <1>11 DEF EnvInv

\* The first part of do_setenv, for a call of set and for a default.
LEMMA StoreKeeps ==
  ASSUME EnvInv, pc \in {"idle", "defaults"}, NEW e \in Entry, Store(e), todo' \in Seq(Entry),
         UNCHANGED <<rom, nvram_invalid, put, cleared, overrun>>
  PROVE  EnvInv'
<1>1. Types /\ Writes /\ Places /\ Survive /\ Agree /\ Slots /\ job = None /\ ~ Busy
  BY DEF EnvInv, Places, Busy
<1>2. CASE UNCHANGED <<envvar, pc, job, kept>>
  BY <1>1, <1>2 DEF EnvInv, Types, Writes, Places, Survive, Agree, Slots, Busy, Pending
<1>3. CASE /\ envvar' = set_mem_env(envvar, e)
           /\ kept' = [kept EXCEPT ![e.name] = None]
           /\ \/ <<e.name, e.value>> \in TooLong /\ UNCHANGED <<pc, job>>
              \/ pc' = "set" /\ job' = e
  <2>1. /\ envvar' \in [Name -> Value \cup {None}]
        /\ \A n \in Name \ {e.name} : envvar'[n] = envvar[n]
        /\ envvar'[e.name] \in {None, e.value} /\ e.name \in Name
    <3>1. envvar \in [Name -> Value \cup {None}] /\ e.name \in Name
      BY <1>1 DEF Types, Entry
    <3> QED BY <1>3, <3>1, TableSet
  <2>2. Types' /\ ~ Busy'
    BY <1>1, <1>3, <2>1 DEF Types, Busy
  <2>3. Writes' /\ Places'
    BY <1>1, <1>3, <2>2, EnvAssumption DEF Writes, Places, Busy
  <2>4. Survive'
    <3>1. kept'[e.name] = None /\ \A n \in Name : kept'[n] = kept[n] \/ kept'[n] = None
      BY <1>1, <1>3, <2>1 DEF Types
    <3>2. kept = Nothing => kept' = Nothing
      BY <1>3 DEF Nothing
    <3> QED BY <1>1, <1>3, <2>2, <3>1, <3>2 DEF Survive, InSector
  <2>5. Agree'
    <3>1. job' # None => envvar'[job'.name] \in {None, job'.value}
      BY <1>1, <1>3, <2>1
    <3>2. ASSUME ~ cleared, ~ overrun PROVE InSector(rom.entries, envvar', Pending')
      <4>1. InSector(rom.entries, envvar, Pending)
        BY <1>1, <3>2 DEF Agree, Busy
      <4>2. ASSUME NEW n \in Name \ Pending', envvar'[n] # None
            PROVE  Final(rom.entries, n, envvar'[n])
        <5>1. n # e.name
          BY <1>1, <1>3, <2>1, <4>2, EnvAssumption DEF Pending
        <5>2. n \notin Pending /\ envvar'[n] = envvar[n]
          BY <1>1, <2>1, <4>2, <5>1 DEF Pending
        <5> QED BY <4>1, <4>2, <5>2 DEF InSector
      <4> QED BY <4>2 DEF InSector
    <3> QED BY <2>2, <3>1, <3>2 DEF Agree
  <2>6. Slots'
    <3>1. /\ HasNames(rom.entries, envvar)
          /\ \A n \in Name : envvar[n] # None => envvar'[n] # None
          /\ envvar'[e.name] # None \/ NoSlot(envvar)
          /\ NoSlot(envvar) => NoSlot(envvar')
      BY <1>1, <1>3, TableSet DEF Types, Slots, Busy
    <3>2. HasNames(rom.entries, envvar')
      <4>1. \A i \in 1 .. Len(rom.entries) : rom.entries[i].name \in Name
        <5>1. \A i \in 1 .. Len(rom.entries) : rom.entries[i] \in Entry
          BY <1>1, SMTT(60) DEF Types, Image
        <5> QED BY <5>1 DEF Entry
      <4> QED BY <3>1, <4>1 DEF HasNames
    <3> QED BY <1>1, <1>3, <2>2, <3>1, <3>2 DEF Slots
  <2> QED BY <2>2, <2>3, <2>4, <2>5, <2>6 DEF EnvInv
<1> QED BY <1>2, <1>3 DEF Store

\* So does the first step of setenv.
LEMMA SetEnvKeeps ==
  ASSUME EnvInv, NEW n \in Name, NEW v \in Value, do_setenv([name |-> n, value |-> v])
  PROVE  EnvInv'
<1>1. PICK e \in Entry : e = [name |-> n, value |-> v]
  BY DEF Entry
<1>2. do_setenv(e)
  BY <1>1
<1> QED BY <1>2, StoreKeeps DEF do_setenv, EnvInv, Types

\* So does the loop of envinit over the defaults.
LEMMA DefaultKeeps ==
  ASSUME EnvInv, set_default
  PROVE  EnvInv'
<1>1. Types /\ Writes /\ Places /\ Survive /\ Agree /\ Slots /\ job = None /\ ~ Busy
      /\ pc = "defaults" /\ UNCHANGED <<rom, nvram_invalid, put, cleared, overrun>>
  BY DEF EnvInv, Places, Busy, set_default
<1>2. CASE todo = <<>>
  <2>1. pc' = "idle" /\ UNCHANGED <<envvar, job, todo, kept>>
    BY <1>2 DEF set_default
  <2> QED BY <1>1, <2>1 DEF EnvInv, Types, Writes, Places, Survive, Agree, Slots, Busy, Pending
<1>3. CASE todo # <<>>
  <2>1. todo' \in Seq(Entry) /\ Head(todo) \in Entry
    BY <1>1, <1>3, SMTT(60) DEF set_default, Types
  <2>2. CASE Store(Head(todo))
    BY <1>1, <2>1, <2>2, StoreKeeps
  <2>3. CASE UNCHANGED <<envvar, pc, job, kept>>
    BY <1>1, <2>1, <2>3 DEF EnvInv, Types, Writes, Places, Survive, Agree, Slots, Busy, Pending
  <2> QED BY <1>3, <2>2, <2>3 DEF set_default
<1> QED BY <1>2, <1>3

\* A sector that was found invalid at the start is formatted first.
LEMMA SetRomKeeps ==
  ASSUME EnvInv, set_rom_env
  PROVE  EnvInv'
<1>1. /\ Types /\ Writes /\ Places /\ Survive /\ Agree /\ Slots /\ job # None /\ ~ Busy /\ pc = "set"
      /\ UNCHANGED <<rom, envvar, nvram_invalid, job, todo, cleared, overrun, kept>>
  BY DEF EnvInv, Places, Busy, set_rom_env
<1>2. CASE nvram_invalid # 0
  <2>1. pc' = "erase" /\ put' = [data |-> Formatted, then |-> "unset"] /\ Busy'
    BY <1>2 DEF set_rom_env, Put, Busy
  <2>2. put'.data = Formatted /\ put'.then = "unset"
    BY <2>1
  <2>3. overrun /\ kept = Nothing
    BY <1>1, <1>2 DEF Places, Survive, Busy
  <2>4. Types' /\ Writes' /\ Places'
    BY <1>1, <2>1, <2>2, <2>3, SectorFacts DEF Types, Writes, Places, Busy
  <2>5. Survive' /\ Agree'
    BY <1>1, <2>1, <2>2, <2>3, SectorFacts DEF Survive, Agree
  <2>6. Slots'
    BY <1>1, <2>1, <2>2, FormattedNames DEF Slots
  <2> QED BY <2>4, <2>5, <2>6 DEF EnvInv
<1>3. CASE nvram_invalid = 0
  <2>1. pc' = "unset"
    BY <1>3 DEF set_rom_env
  <2> QED BY <1>1, <1>3, <2>1 DEF EnvInv, Types, Writes, Places, Survive, Agree, Slots, Busy, Pending
<1> QED BY <1>2, <1>3

\* So does unset_rom_env, which removes the old entry from the sector.
LEMMA UnsetKeeps ==
  ASSUME EnvInv, unset_rom_env
  PROVE  EnvInv'
<1>1. /\ Types /\ Writes /\ Places /\ Survive /\ Agree /\ Slots /\ job # None /\ ~ Busy /\ pc = "unset"
      /\ nvram_invalid = 0
      /\ UNCHANGED <<rom, envvar, nvram_invalid, job, todo, cleared, overrun, kept>>
  BY DEF EnvInv, Places, Busy, unset_rom_env
<1>2. CASE pc' = "append"
  BY <1>1, <1>2 DEF EnvInv, Types, Writes, Places, Survive, Agree, Slots, Busy, Pending
<1>3. CASE /\ Without(rom.entries, job.name) # rom.entries
           /\ Put([rom EXCEPT !.entries = Without(rom.entries, job.name)], "append")
  <2>1. PICK r : r = Without(rom.entries, job.name)
    OBVIOUS
  <2>2. rom \in Image /\ rom.entries \in Seq(Entry)
    BY <1>1 DEF Types, Image
  <2>3. /\ r \in Seq(Entry) /\ rom.entries # <<>>
        /\ \A n, v : n # job.name /\ Final(rom.entries, n, v) => Final(r, n, v)
        /\ \A i \in 1 .. Len(r) : \E j \in 1 .. Len(rom.entries) : r[i] = rom.entries[j]
    BY <1>3, <2>1, <2>2, WithoutFinal
  <2>4. rom.kind = "ok"
    BY <1>1, <2>3 DEF Types, Places
  <2>5. PICK d : d = [rom EXCEPT !.entries = r]
    OBVIOUS
  <2>6. d \in Image /\ d.kind = "ok" /\ d.entries = r
    BY <2>2, <2>3, <2>4, <2>5 DEF Image
  <2>7. pc' = "erase" /\ put' = [data |-> d, then |-> "append"] /\ Busy'
    BY <1>3, <2>1, <2>5 DEF Put, Busy
  <2>8. put'.data = d /\ put'.then = "append"
    BY <2>7
  <2>9. Types' /\ Writes' /\ Places'
    BY <1>1, <2>6, <2>7, <2>8 DEF Types, Writes, Places, Busy
  <2>10. InSector(r, kept, {})
    BY <1>1, <2>3, <2>4 DEF Survive, InSector
  <2>11. Survive'
    BY <1>1, <2>6, <2>7, <2>8, <2>10 DEF Survive
  <2>12. ~ cleared /\ ~ overrun => InSector(r, envvar, Pending)
    BY <1>1, <2>3 DEF Agree, InSector, Pending
  <2>13. Agree'
    BY <1>1, <2>6, <2>7, <2>8, <2>12 DEF Agree, Pending
  <2>14. HasNames(r, envvar)
    BY <1>1, <2>3 DEF Slots, HasNames
  <2>15. Slots'
    BY <1>1, <2>6, <2>7, <2>8, <2>14 DEF Slots
  <2> QED BY <2>9, <2>11, <2>13, <2>15 DEF EnvInv
<1> QED BY <1>2, <1>3 DEF unset_rom_env

\* So does the second half of set_rom_env, which appends the new entry.
LEMMA AppendKeeps ==
  ASSUME EnvInv, set_rom_env_append
  PROVE  EnvInv'
<1>1. /\ Types /\ Writes /\ Places /\ Survive /\ Agree /\ Slots /\ job # None /\ ~ Busy /\ pc = "append"
      /\ nvram_invalid = 0 /\ job \in Entry /\ job.name \in Name
      /\ UNCHANGED <<rom, envvar, nvram_invalid, job, todo, cleared>>
  BY DEF EnvInv, Places, Busy, set_rom_env_append, Types, Entry
<1>2. rom \in Image /\ rom.entries \in Seq(Entry)
  BY <1>1 DEF Types, Image
<1>3. CASE /\ rom.kind = "ok" /\ UNCHANGED <<overrun, kept>>
           /\ Put([rom EXCEPT !.entries = With(rom.entries, job)], Resting)
  <2>1. PICK r : r = With(rom.entries, job)
    OBVIOUS
  <2>2. /\ r \in Seq(Entry) /\ Final(r, job.name, job.value)
        /\ \A n, v : n # job.name /\ Final(rom.entries, n, v) => Final(r, n, v)
        /\ \A i \in 1 .. Len(r) : r[i] = job \/ \E j \in 1 .. Len(rom.entries) : r[i] = rom.entries[j]
    BY <1>1, <1>2, <2>1, WithFinal
  <2>3. PICK d : d = [rom EXCEPT !.entries = r]
    OBVIOUS
  <2>4. d \in Image /\ d.kind = "ok" /\ d.entries = r
    BY <1>2, <1>3, <2>2, <2>3 DEF Image
  <2>5. PICK l \in {"idle", "defaults"} : l = Resting
    BY DEF Resting
  <2>6. pc' = "erase" /\ put' = [data |-> d, then |-> l] /\ Busy'
    BY <1>3, <2>1, <2>3, <2>5 DEF Put, Busy
  <2>7. put'.data = d /\ put'.then = l
    BY <2>6
  <2>8. Types' /\ Writes' /\ Places'
    BY <1>1, <1>3, <2>2, <2>4, <2>6, <2>7 DEF Types, Writes, Places, Busy
  <2>9. InSector(r, kept, {})
    BY <1>1, <1>3, <2>2 DEF Survive, InSector
  <2>10. Survive'
    BY <1>1, <1>3, <2>4, <2>6, <2>7, <2>9 DEF Survive
  <2>11. ~ cleared /\ ~ overrun => InSector(r, envvar, Pending)
    BY <1>1, <2>2 DEF Agree, InSector, Pending
  <2>12. Agree'
    BY <1>1, <1>3, <2>4, <2>6, <2>7, <2>11 DEF Agree, Pending
  <2>13. HasNames(r, envvar)
    BY <1>1, <2>2 DEF Slots, HasNames
  <2>14. Slots'
    BY <1>1, <2>4, <2>6, <2>7, <2>13 DEF Slots
  <2> QED BY <2>8, <2>10, <2>12, <2>14 DEF EnvInv
<1>4. CASE Put([rom EXCEPT !.kind = "open"], "lost") /\ overrun' = TRUE /\ kept' = Nothing
  <2>1. PICK d : d = [rom EXCEPT !.kind = "open"]
    OBVIOUS
  <2>2. d \in Image /\ d.kind = "open" /\ d.entries = rom.entries
    BY <1>2, <2>1 DEF Image
  <2>3. pc' = "erase" /\ put' = [data |-> d, then |-> "lost"] /\ Busy'
    BY <1>4, <2>1 DEF Put, Busy
  <2>4. put'.data = d /\ put'.then = "lost"
    BY <2>3
  <2>5. Types' /\ Writes' /\ Places'
    BY <1>1, <1>4, <2>2, <2>3, <2>4, SectorFacts DEF Types, Writes, Places, Busy
  <2>6. Survive' /\ Agree'
    BY <1>1, <1>4, <2>2, <2>3, <2>4, SectorFacts DEF Survive, Agree, Nothing
  <2>7. Slots'
    BY <1>1, <2>2, <2>3, <2>4 DEF Slots
  <2> QED BY <2>5, <2>6, <2>7 DEF EnvInv
<1> QED BY <1>3, <1>4 DEF set_rom_env_append

\* So does clearEnv.
LEMMA ClearKeeps ==
  ASSUME EnvInv, clearEnv
  PROVE  EnvInv'
<1>1. /\ Types /\ Writes /\ Places /\ job = None /\ pc = "idle" /\ pc' = pc /\ cleared' = TRUE
      /\ kept' = Nothing /\ rom' = [kind |-> "erased", entries |-> <<>>]
      /\ UNCHANGED <<envvar, nvram_invalid, job, put, todo, overrun>>
  BY DEF EnvInv, Places, clearEnv
<1>2. rom' \in Image /\ rom'.kind = "erased" /\ rom'.entries = <<>>
  <2>1. <<>> \in Seq(Entry)
    BY SMTT(60)
  <2> QED BY <1>1, <2>1 DEF Image
<1>3. Types' /\ Writes' /\ Places'
  BY <1>1, <1>2, SectorFacts DEF Types, Writes, Places, Busy
<1>4. Survive' /\ Agree'
  BY <1>1, <1>2, SectorFacts DEF Survive, Agree, Busy
<1>5. Slots'
  BY <1>1, <1>2, FormattedNames, SectorFacts DEF Slots, Busy
<1> QED BY <1>3, <1>4, <1>5 DEF EnvInv

\* A loss of power at any step keeps the invariant.
LEMMA PowerLossKeeps ==
  ASSUME EnvInv, PowerLoss
  PROVE  EnvInv'
<1>1. /\ Types /\ Writes /\ Places /\ Survive /\ job' = None /\ pc' = "off" /\ ~ Busy'
      /\ kept' = IF rom.kind = "ok" THEN kept ELSE Nothing
      /\ UNCHANGED <<rom, envvar, nvram_invalid, put, todo, cleared, overrun>>
  BY DEF EnvInv, PowerLoss, Busy
<1>2. Types' /\ Writes' /\ Places'
  BY <1>1, SectorFacts DEF Types, Writes, Places
<1>3. Survive' /\ Agree'
  BY <1>1 DEF Survive, Agree
<1>4. Slots'
  BY <1>1 DEF Slots
<1> QED BY <1>2, <1>3, <1>4 DEF EnvInv

\* So does envinit, which reads the sector at boot.
LEMMA BootKeeps ==
  ASSUME EnvInv, envinit
  PROVE  EnvInv'
<1>1. /\ Types /\ Writes /\ Places /\ Survive /\ job = None /\ pc = "off" /\ pc' = "map"
      /\ ~ Busy /\ ~ Busy' /\ envvar' = Nothing /\ nvram_invalid' = 0 /\ todo' = stdenvtab
      /\ cleared' = FALSE /\ UNCHANGED <<rom, job, put, overrun, kept>>
  BY DEF EnvInv, Places, envinit, Busy
<1>2. Types' /\ Writes' /\ Places'
  BY <1>1, SectorFacts, EnvAssumption DEF Types, Writes, Places
<1>3. Survive' /\ Agree'
  BY <1>1 DEF Survive, Agree
<1>4. Slots'
  BY <1>1 DEF Slots
<1> QED BY <1>2, <1>3, <1>4 DEF EnvInv

\* So does map_rom_env, which loads the entries and formats a sector that is not whole.
LEMMA MapKeeps ==
  ASSUME EnvInv, map_rom_env
  PROVE  EnvInv'
<1>1. /\ Types /\ Writes /\ Places /\ Survive /\ job = None /\ pc = "map" /\ ~ Busy
      /\ envvar = Nothing /\ envvar' = Load(rom.entries, Nothing)
      /\ rom \in Image /\ rom.entries \in Seq(Entry)
      /\ UNCHANGED <<rom, job, todo, cleared, overrun, kept>>
  BY DEF EnvInv, Places, map_rom_env, Busy, Types, Image
<1>2. envvar' \in [Name -> Value \cup {None}] /\ InSector(rom.entries, envvar', {})
      /\ HasNames(rom.entries, envvar')
  BY <1>1, LoadFinal
<1>3. InSector(rom.entries, envvar', Pending')
  BY <1>2 DEF InSector
<1>4. CASE /\ rom.kind \in {"erased", "torn"} /\ nvram_invalid' = 1
           /\ Put(Formatted, "defaults")
  <2>1. pc' = "erase" /\ put' = [data |-> Formatted, then |-> "defaults"] /\ Busy'
    BY <1>4 DEF Put, Busy
  <2>2. put'.data = Formatted /\ put'.then = "defaults" /\ rom.entries = <<>> /\ kept = Nothing
    BY <1>1, <1>4, <2>1 DEF Types, Survive
  <2>3. Types' /\ Writes' /\ Places'
    BY <1>1, <1>2, <1>4, <2>1, <2>2, SectorFacts DEF Types, Writes, Places
  <2>4. Survive' /\ Agree'
    BY <1>1, <1>3, <1>4, <2>1, <2>2, SectorFacts DEF Survive, Agree
  <2>5. Slots'
    BY <1>1, <2>1, <2>2, FormattedNames DEF Slots
  <2> QED BY <2>3, <2>4, <2>5 DEF EnvInv
<1>5. CASE /\ rom.kind = "ok" /\ nvram_invalid' = nvram_invalid /\ pc' = "defaults"
  BY <1>1, <1>2, <1>3, <1>5 DEF EnvInv, Types, Writes, Places, Survive, Agree, Slots, Busy
<1>6. CASE /\ rom.kind = "open" /\ nvram_invalid' = 2 /\ pc' = "defaults"
  BY <1>1, <1>2, <1>3, <1>6, SMTT(60) DEF EnvInv, Types, Writes, Places, Survive, Agree, Slots, Busy
<1>7. rom.kind \in {"ok", "erased", "torn", "open"}
  BY <1>1 DEF Image
<1>8. CASE rom.kind \in {"erased", "torn"}
  BY <1>4, <1>8 DEF map_rom_env
<1>9. CASE rom.kind = "ok"
  BY <1>5, <1>9 DEF map_rom_env
<1>10. CASE rom.kind = "open"
  BY <1>6, <1>10 DEF map_rom_env
<1> QED BY <1>7, <1>8, <1>9, <1>10

-----------------------------------------------------------------------------
\* The theorems.

\* At every step of the program and of a power failure the sector, the one that
\* is being written and the table fit together.  What the runs check follows.
LEMMA EnvInductive == Spec => []EnvInv
<1>1. EnvInv /\ [Next]_vars => EnvInv'
  <2> SUFFICES ASSUME EnvInv, [Next]_vars PROVE EnvInv'
    OBVIOUS
  <2>1. CASE UNCHANGED vars
    BY <2>1, SMTT(60) DEF vars, EnvInv, Types, Writes, Places, Survive, Agree, Slots, Busy, Pending
  <2>2. CASE Step
    BY <2>2, BootKeeps, MapKeeps, DefaultKeeps, SetRomKeeps, UnsetKeeps, AppendKeeps,
       EraseKeeps, WriteAreaKeeps DEF Step
  <2>3. CASE \E n \in Name, v \in Value : do_setenv([name |-> n, value |-> v])
    BY <2>3, SetEnvKeeps
  <2> QED BY <2>1, <2>2, <2>3, ClearKeeps, PowerLossKeeps DEF Next
<1> QED BY <1>1, EnvInit, PTL DEF Spec

\* set_rom_env and unset_rom_env only ever search a sector that has an end: map_rom_env
\* formats one that a power failure left erased or torn.
THEOREM AlwaysReadFormatted == Spec => []UpdatesReadFormatted
<1>1. EnvInv => UpdatesReadFormatted
  BY DEF EnvInv, Places, UpdatesReadFormatted
<1> QED BY <1>1, EnvInductive, PTL

\* In terms of the sector: what LoadFinal says of the next start.
LEMMA NextStart ==
  ASSUME EnvInv
  PROVE  /\ InSector(rom.entries, Loaded, {})
         /\ \A n \in Name : \A v : Final(rom.entries, n, v) =>
              Loaded[n] = v \/ (Loaded[n] = None /\ Crowded(n))
<1>1. rom.entries \in Seq(Entry)
  BY DEF EnvInv, Types, Image
<1>2. DOMAIN rom.entries = 1 .. Len(rom.entries)
  BY <1>1, SMTT(60)
<1>3. \A n : Behind(rom.entries, n) => Crowded(n)
  BY <1>2 DEF Behind, Crowded
<1> QED BY <1>1, <1>3, LoadFinal DEF Loaded

\* The value of a do_setenv that returned is what the next start loads, through
\* other updates and any number of power failures, unless power fails while the
\* sector is not whole or other names fill the table before it.
THEOREM AlwaysDurable == Spec => []Durable
<1>1. ASSUME EnvInv PROVE Durable
  <2>1. ASSUME rom.kind = "ok", NEW n \in Name, kept[n] # None
        PROVE  Final(rom.entries, n, kept[n])
    BY <1>1, <2>1 DEF EnvInv, Survive, InSector
  <2> QED BY <1>1, <2>1, NextStart DEF Durable
<1> QED BY <1>1, EnvInductive, PTL

\* While the shell waits, the table in memory is the one that the next start
\* loads, name by name, but for values that are too long and names without a slot.
THEOREM MemoryAlwaysAgrees == Spec => []MemoryAgrees
<1>1. ASSUME EnvInv PROVE MemoryAgrees
  <2> SUFFICES ASSUME pc = "idle", ~ cleared, ~ overrun, NEW n \in Name,
                      envvar[n] # Loaded[n], <<n, envvar[n]>> \notin TooLong
               PROVE  \/ envvar[n] # None /\ Loaded[n] = None /\ Crowded(n)
                      \/ envvar[n] = None /\ Loaded[n] # None /\ Full
    BY DEF MemoryAgrees
  <2>1. job = None /\ ~ Busy
    BY <1>1 DEF EnvInv, Places, Busy
  <2>2. CASE envvar[n] # None
    <3>1. Final(rom.entries, n, envvar[n])
      BY <1>1, <2>1, <2>2 DEF EnvInv, Agree, InSector, Pending
    <3> QED BY <1>1, <2>2, <3>1, NextStart
  <2>3. CASE envvar[n] = None
    <3>1. PICK i \in 1 .. Len(rom.entries) : rom.entries[i].name = n
      <4>1. Final(rom.entries, n, Loaded[n])
        BY <1>1, <2>3, NextStart DEF InSector
      <4>2. PICK i \in 1 .. Len(rom.entries) : rom.entries[i] = [name |-> n, value |-> Loaded[n]]
        BY <4>1 DEF Final
      <4>3. rom.entries[i].name = n
        BY <4>2, SMTT(60)
      <4> QED BY <4>3
    <3>2. HasNames(rom.entries, envvar)
      BY <1>1, <2>1 DEF EnvInv, Slots
    <3>3. Full
      BY <2>3, <3>1, <3>2 DEF HasNames, NoSlot, Taken, Full
    <3> QED BY <2>3, <3>3
  <2> QED BY <2>2, <2>3
<1> QED BY <1>1, EnvInductive, PTL

=============================================================================
