------------------------------ MODULE EnvFlash ------------------------------
(***************************************************************************)
(* The environment variables of os/env.c: a table in memory, and a copy in *)
(* one sector of the NOR flash that is erased and written as a whole.      *)
(* Power may fail at any step; at the next start envinit reads the sector  *)
(* back, formats it if its checksum is wrong, and stores the defaults that *)
(* are missing.                                                            *)
(*                                                                         *)
(* The sector is a record: entries are the name=value strings in order,    *)
(* and kind is "ok", "erased", "torn" (erased and written in part: its     *)
(* checksum is wrong) or "open" (the checksum is right but no string ends  *)
(* the list).  Every malloc of the module succeeds here, and the 16-bit    *)
(* checksum tells a torn sector.                                           *)
(***************************************************************************)
EXTENDS Integers, Sequences, FiniteSets, SequencesExt

CONSTANTS Name, Value,     \* the names and the values of variables
          None,            \* no value
          Refused,         \* the <<name, value>> that check_mac_format rejects
          TooLong,         \* the <<name, value>> that need more than 255 bytes
          stdenvtab,       \* the defaults: a sequence of [name, value]
          NVAR,            \* slots of the table in memory
          Room,            \* entries that fit in the sector
          Sets, Failures   \* bounds: calls of set, and power failures

Entry == [name : Name, value : Value]

ASSUME EnvAssumption ==
  /\ None \notin Value /\ None \notin Entry
  /\ Refused \subseteq Name \X Value /\ TooLong \subseteq Name \X Value
  /\ stdenvtab \in Seq(Entry)
  /\ IsFiniteSet(Name) /\ NVAR \in Nat /\ Room \in Nat /\ Sets \in Nat /\ Failures \in Nat

VARIABLES rom,            \* the sector
          envvar,         \* the table in memory: the value of each name
          nvram_invalid,
          pc,             \* where the program is; "off" without power
          job,            \* the entry that do_setenv is storing
          put,            \* what nvram_put writes and where it returns to
          todo,           \* the defaults that envinit has not looked at
          sets, failures, \* the calls of set and power failures so far
          cleared,        \* history: clearEnv was called since the start
          overrun,        \* history: a string was written beyond the buffer
          kept            \* history: the value of each name whose last
                          \* do_setenv returned, until power fails while the
                          \* sector is not whole

vars == <<rom, envvar, nvram_invalid, pc, job, put, todo, sets, failures,
          cleared, overrun, kept>>

Formatted == [kind |-> "ok", entries |-> <<>>]
Nothing == [n \in Name |-> None]

-----------------------------------------------------------------------------
\* set_mem_env_New only ever fills a free slot.
set_mem_env_New(table, e) ==
  IF table[e.name] = None /\ Cardinality({n \in Name : table[n] # None}) < NVAR
  THEN [table EXCEPT ![e.name] = e.value] ELSE table

\* set_mem_env: the value of a name that has a slot, or that gets a free one
set_mem_env(table, e) ==
  LET taken == {n \in Name : table[n] # None}
  IN  IF e.name \in taken \/ Cardinality(taken) < NVAR
      THEN [table EXCEPT ![e.name] = e.value] ELSE table

\* What map_rom_env makes of the strings of a sector, one after the other.
Load(s, table) ==
  LET loaded[i \in 0 .. Len(s)] ==
        IF i = 0 THEN table ELSE set_mem_env(loaded[i - 1], s[i])
  IN  loaded[Len(s)]

\* unset_rom_env takes out the first string with the name.
Without_Rest(s, n) ==
  IF \E i \in DOMAIN s : s[i].name = n
  THEN SubSeq(s, 1, (CHOOSE i \in DOMAIN s : s[i].name = n) - 1)
  ELSE s

Without(s, n) ==
  IF \E i \in DOMAIN s : s[i].name = n
  THEN RemoveAt(s, CHOOSE i \in DOMAIN s :
                     s[i].name = n /\ \A j \in 1 .. i - 1 : s[j].name # n)
  ELSE s

\* set_rom_env writes the new string behind the others.
With(s, e) == Append(s, e)

-----------------------------------------------------------------------------
\* nvram_put of sector data; the program goes on at label then.
Put(data, then) ==
  /\ pc' = "erase"
  /\ put' = [data |-> data, then |-> then]

\* spi_flash_erase_sector
spi_flash_erase_sector ==
  /\ pc = "erase"
  /\ pc' = "write"
  /\ rom' = [kind |-> "erased", entries |-> <<>>]
  /\ UNCHANGED <<envvar, nvram_invalid, job, put, todo, sets, failures,
                 cleared, overrun, kept>>

\* spi_flash_write_area: byte after byte, and the last byte.
spi_flash_write_byte ==
  /\ pc = "write"
  /\ pc' = "writing"
  /\ rom' = [kind |-> "torn", entries |-> <<>>]
  /\ UNCHANGED <<envvar, nvram_invalid, job, put, todo, sets, failures,
                 cleared, overrun, kept>>

\* do_setenv is over: envinit goes on, or the shell.
Resting == IF todo = <<>> THEN "idle" ELSE "defaults"

spi_flash_write_area ==
  /\ pc = "writing"
  /\ rom' = put.data
  /\ pc' = put.then
  /\ nvram_invalid' = IF put.data = Formatted THEN 0 ELSE nvram_invalid
  /\ kept' = IF put.then \in {"idle", "defaults"} /\ job # None
             THEN [kept EXCEPT ![job.name] = job.value] ELSE kept
  /\ job' = IF put.then \in {"idle", "defaults"} THEN None ELSE job
  /\ UNCHANGED <<envvar, put, todo, sets, failures, cleared, overrun>>

-----------------------------------------------------------------------------
\* do_setenv, called by set and by envinit

Store(e) ==
  IF <<e.name, e.value>> \in Refused THEN UNCHANGED <<envvar, pc, job, kept>>
  ELSE /\ envvar' = set_mem_env(envvar, e)
       /\ kept' = [kept EXCEPT ![e.name] = None]
       /\ IF <<e.name, e.value>> \in TooLong THEN UNCHANGED <<pc, job>>
          ELSE pc' = "set" /\ job' = e

do_setenv(e) ==
  /\ pc = "idle" /\ sets < Sets
  /\ sets' = sets + 1
  /\ Store(e)
  /\ UNCHANGED <<rom, nvram_invalid, put, todo, failures, cleared, overrun>>

\* resetNorEnvSpace, if the sector was found invalid at the start
set_rom_env ==
  /\ pc = "set"
  /\ IF nvram_invalid # 0 THEN Put(Formatted, "unset") ELSE pc' = "unset" /\ UNCHANGED put
  /\ UNCHANGED <<rom, envvar, nvram_invalid, job, todo, sets, failures,
                 cleared, overrun, kept>>

\* The search ends at the end of the buffer.
unset_rom_env ==
  /\ pc = "unset"
  /\ LET rest == Without(rom.entries, job.name)
     IN  IF nvram_invalid = 0 /\ rest # rom.entries
         THEN Put([rom EXCEPT !.entries = rest], "append")
         ELSE pc' = "append" /\ UNCHANGED put
  /\ UNCHANGED <<rom, envvar, nvram_invalid, job, todo, sets, failures,
                 cleared, overrun, kept>>

\* set_rom_env looks for the end of the list.  It finds it beyond the buffer if
\* the sector has none, and writes beyond the buffer if the sector is full: the
\* test of the remaining space compares a constant.
set_rom_env_append ==
  /\ pc = "append"
  /\ IF rom.kind = "ok" /\ Len(rom.entries) < Room
     THEN /\ Put([rom EXCEPT !.entries = With(rom.entries, job)], Resting)
          /\ UNCHANGED <<overrun, kept>>
     ELSE /\ Put([rom EXCEPT !.kind = "open"], "lost")
          /\ overrun' = TRUE
          /\ kept' = Nothing
  /\ UNCHANGED <<rom, envvar, nvram_invalid, job, todo, sets, failures, cleared>>

\* The command clearEnv erases the sector and leaves the table in memory.
clearEnv ==
  /\ pc = "idle" /\ sets < Sets
  /\ sets' = sets + 1
  /\ rom' = [kind |-> "erased", entries |-> <<>>]
  /\ cleared' = TRUE
  /\ kept' = Nothing
  /\ UNCHANGED <<envvar, nvram_invalid, pc, job, put, todo, failures, overrun>>

-----------------------------------------------------------------------------
\* Power fails, at any step, and comes back.

PowerLoss ==
  /\ pc # "off" /\ failures < Failures
  /\ failures' = failures + 1
  /\ pc' = "off"
  /\ job' = None
  /\ kept' = IF rom.kind = "ok" THEN kept ELSE Nothing
  /\ UNCHANGED <<rom, envvar, nvram_invalid, put, todo, sets, cleared, overrun>>

\* The start of envinit
envinit ==
  /\ pc = "off"
  /\ pc' = "map"
  /\ envvar' = Nothing
  /\ nvram_invalid' = 0
  /\ todo' = stdenvtab
  /\ cleared' = FALSE
  /\ UNCHANGED <<rom, job, put, sets, failures, overrun, kept>>

map_rom_env_NoReset ==
  /\ pc = "map"
  /\ envvar' = Load(rom.entries, envvar)
  /\ pc' = "defaults" /\ UNCHANGED <<put, nvram_invalid>>
  /\ UNCHANGED <<rom, job, todo, sets, failures, cleared, overrun, kept>>

map_rom_env_Again ==
  /\ pc = "map"
  /\ envvar' = Load(rom.entries, envvar)
  /\ CASE rom.kind \in {"erased", "torn"} -> Put(Formatted, "off") /\ nvram_invalid' = 1
       [] rom.kind = "ok" -> pc' = "defaults" /\ UNCHANGED <<put, nvram_invalid>>
       [] rom.kind = "open" -> pc' = "map" /\ nvram_invalid' = 2 /\ UNCHANGED put
  /\ UNCHANGED <<rom, job, todo, sets, failures, cleared, overrun, kept>>

map_rom_env ==
  /\ pc = "map"
  /\ envvar' = Load(rom.entries, envvar)
  /\ CASE rom.kind \in {"erased", "torn"} -> Put(Formatted, "defaults") /\ nvram_invalid' = 1
       [] rom.kind = "ok" -> pc' = "defaults" /\ UNCHANGED <<put, nvram_invalid>>
       [] rom.kind = "open" -> pc' = "defaults" /\ nvram_invalid' = 2 /\ UNCHANGED put
  /\ UNCHANGED <<rom, job, todo, sets, failures, cleared, overrun, kept>>

\* The loop of envinit over the defaults.  getenv has no return statement for a
\* name that is not in the table, so either outcome of its test is possible.
set_default ==
  /\ pc = "defaults"
  /\ IF todo = <<>> THEN pc' = "idle" /\ UNCHANGED <<envvar, job, todo, kept>>
     ELSE /\ todo' = Tail(todo)
          /\ \/ envvar[Head(todo).name] = None /\ Store(Head(todo))
             \/ UNCHANGED <<envvar, pc, job, kept>>
  /\ UNCHANGED <<rom, nvram_invalid, put, sets, failures, cleared, overrun>>

-----------------------------------------------------------------------------
\* The sector of a new board is erased.
Init ==
  /\ rom = [kind |-> "erased", entries |-> <<>>]
  /\ envvar = Nothing /\ nvram_invalid = 0
  /\ pc = "off" /\ job = None /\ todo = <<>>
  /\ put = [data |-> Formatted, then |-> "off"]
  /\ sets = 0 /\ failures = 0
  /\ cleared = FALSE /\ overrun = FALSE /\ kept = Nothing

Step ==
  \/ envinit \/ map_rom_env \/ set_default
  \/ set_rom_env \/ unset_rom_env \/ set_rom_env_append
  \/ spi_flash_erase_sector \/ spi_flash_write_byte \/ spi_flash_write_area

Next ==
  \/ Step
  \/ \E n \in Name, v \in Value : do_setenv([name |-> n, value |-> v])
  \/ clearEnv
  \/ PowerLoss

\* The program goes on as long as there is power.
Spec == Init /\ [][Next]_vars /\ WF_vars(Step)

-----------------------------------------------------------------------------
\* What the next start loads from the sector.
Loaded == Load(rom.entries, Nothing)

\* Name n is in the sector, but behind NVAR other names, which fill the table
\* of the next start before it comes to n.
Crowded(n) ==
  \E i \in DOMAIN rom.entries :
    /\ rom.entries[i].name = n
    /\ Cardinality({rom.entries[j].name : j \in 1 .. i - 1} \ {n}) >= NVAR

\* The table in memory has no slot left.
Full == Cardinality({n \in Name : envvar[n] # None}) >= NVAR

\* set_rom_env and unset_rom_env search a sector that has an end, whatever a
\* power failure left behind, unless clearEnv erased it after the start.
UpdatesReadFormatted ==
  pc \in {"unset", "append"} /\ rom.kind # "ok" => cleared \/ overrun

\* A value whose do_setenv returned is what the next start loads, whatever is
\* set after it and wherever power fails, unless power fails between the
\* erasure and the last byte of a sector, or NVAR other names stand before it:
\* the sector has room for more names than the table has slots.
Durable ==
  rom.kind = "ok" =>
    \A n \in Name : kept[n] # None =>
      Loaded[n] = kept[n] \/ (Loaded[n] = None /\ Crowded(n))

\* While the shell waits for a command, the table in memory is the one that the
\* next start loads: no variable appears, disappears or changes at a restart,
\* but for a value too long for the sector, a name that found the table full,
\* now or at the next start, and after clearEnv.
MemoryAgrees ==
  pc = "idle" /\ ~ cleared /\ ~ overrun =>
    \A n \in Name :
      \/ envvar[n] = Loaded[n]
      \/ <<n, envvar[n]>> \in TooLong
      \/ envvar[n] # None /\ Loaded[n] = None /\ Crowded(n)
      \/ envvar[n] = None /\ Loaded[n] # None /\ Full

\* However power failed before, a start that is not interrupted ends with the
\* shell, or with a write beyond the buffer: formatting the sector and storing
\* the defaults cannot go round in circles.
Boots == pc = "off" ~> pc \in {"idle", "lost"}

=============================================================================
