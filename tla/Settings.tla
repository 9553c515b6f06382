------------------------------ MODULE Settings ------------------------------
(***************************************************************************)
(* Administration (api/admin.py) and what services read of it              *)
(* (shared/config.py): commands check a value, read the old one, put the   *)
(* new one and record both on the ADMIN chain, in separate calls; readers  *)
(* keep what they read for a while. Environment reset is in Console.       *)
(***************************************************************************)
EXTENDS Integers, Sequences, SequencesExt

CONSTANTS
  Admins,     \* commands served at the same time
  Requests,   \* bound: commands, [key, value, other]; `other`: the rest of it is valid
  Seeded,     \* entries of the rate card and approvers that were seeded
  Readers,    \* instances of services, each with a cache of its own
  CacheTime,  \* CACHE_SECONDS, in ticks
  Lag,        \* ticks a read takes and may be behind
  MaxNow,     \* bound: ticks
  Used,       \* bound: settings the readers use
  MaxAsks     \* bound: commands

VARIABLES
  now,
  asked,      \* counts commands
  puts,       \* what each key's item has been, oldest first: [value, at]; <<>> when absent
  command,    \* what each command has done: [step, request, old]
  trail,      \* ADMIN chain: [key, old, new]
  cache,      \* what each reader holds of each key: [value, at]
  seen        \* what each reader used last: [key, value, at]

ASSUME TimesAreNumbers == CacheTime \in Nat \ {0} /\ Lag \in Nat /\ MaxNow \in Nat

settingsVars == <<now, asked, puts, command, trail, cache, seen>>

Ratios == {"ratio"}
Numbers == {"ratio", "number"}
CONFIG_DEFAULTS == [ratio |-> 1, number |-> 2, switch |-> 0]
Replaced == {"rate", "approver"}       \* entries that must be there already
Set == {"freight", "priority"}
SettingKeys == DOMAIN CONFIG_DEFAULTS \cup Replaced \cup Set

ASSUME UsedAreSettings == Used \subseteq SettingKeys
ASSUME ValuesAreNumbers == \A q \in Requests : q.value \in Int

Unset == -9
NoEntry == [value |-> Unset, at |-> -9]
NoCommand == [step |-> "none", request |-> [key |-> "none", value |-> Unset, other |-> TRUE],
              old |-> Unset]

SettingsInit ==
  /\ now = 0 /\ asked = 0
  /\ puts = [k \in SettingKeys |-> IF k \in Replaced \cap Seeded THEN <<[value |-> 1, at |-> 0]>> ELSE <<>>]
  /\ command = [a \in Admins |-> NoCommand]
  /\ trail = <<>>
  /\ cache = [r \in Readers |-> [k \in Used |-> NoEntry]]
  /\ seen = [key |-> "none", value |-> Unset, at |-> 0]

-----------------------------------------------------------------------------
(* Admin *)

\* What an item says, or the catalogue when there is none.
OrDefault(k, value) ==
  IF value = Unset /\ k \in DOMAIN CONFIG_DEFAULTS THEN CONFIG_DEFAULTS[k] ELSE value
_current(k) == OrDefault(k, IF puts[k] = <<>> THEN Unset ELSE Last(puts[k]).value)

set_config(q) == /\ q.key \in Numbers /\ q.value >= 0
                 /\ q.key \in Ratios => q.value <= 1
kill_switch(q) == q.key = "switch" /\ q.value \in {0, 1}
\* Validity ordered, fields known
set_rate(q) == q.key = "rate" /\ q.value >= 0 /\ q.other
set_approver(q) == q.key = "approver" /\ q.value >= 0 /\ q.other
set_portfolio_input(q) ==
  \/ q.key = "freight" /\ q.value >= 0 /\ q.other
  \/ q.key = "priority" /\ q.value \in 1..3
Valid(q) ==
  \/ set_config(q) \/ kill_switch(q) \/ set_portfolio_input(q)
  \/ (set_rate(q) \/ set_approver(q)) /\ puts[q.key] # <<>>

\* Read the old value; an invalid request is answered 400.
Ask(a, q) ==
  /\ command[a] = NoCommand /\ Valid(q) /\ asked < MaxAsks
  /\ asked' = asked + 1
  /\ command' = [command EXCEPT ![a] = [step |-> "put", request |-> q, old |-> _current(q.key)]]
  /\ UNCHANGED <<now, puts, trail, cache, seen>>

Put(a) ==
  /\ command[a].step = "put"
  /\ LET q == command[a].request IN
     puts' = [puts EXCEPT ![q.key] = Append(@, [value |-> q.value, at |-> now])]
  /\ command' = [command EXCEPT ![a].step = "record"]
  /\ UNCHANGED <<now, asked, trail, cache, seen>>

Record(a) ==
  /\ command[a].step = "record"
  /\ trail' = Append(trail, [key |-> command[a].request.key, old |-> command[a].old,
                             new |-> command[a].request.value])
  /\ command' = [command EXCEPT ![a] = NoCommand]
  /\ UNCHANGED <<now, asked, puts, cache, seen>>

StopCommand(a) ==
  /\ command[a] # NoCommand
  /\ command' = [command EXCEPT ![a] = NoCommand]
  /\ UNCHANGED <<now, asked, puts, trail, cache, seen>>

-----------------------------------------------------------------------------
(* Config.get *)

\* What key k was at some time from t on
Since(k, t) ==
  LET p == puts[k] IN
  {OrDefault(k, Unset) : i \in {j \in {1} : p = <<>> \/ p[1].at >= t}}
    \cup {p[i].value : i \in {j \in DOMAIN p : j = Len(p) \/ p[j + 1].at >= t}}

Fresh(r, k) == cache[r][k] # NoEntry /\ now - cache[r][k].at < CacheTime
Keeps(r, k, v) == cache' = [cache EXCEPT ![r][k] = [value |-> v, at |-> now]]

\* Mutant: using a value keeps it fresh.
MHit(r, k) == Fresh(r, k) /\ Keeps(r, k, cache[r][k].value)
Hit(r, k) == Fresh(r, k) /\ UNCHANGED cache

Get(r, k) ==
  /\ \/ /\ Hit(r, k)
        /\ seen' = [key |-> k, value |-> cache[r][k].value, at |-> now]
     \/ /\ ~Fresh(r, k)
        /\ \E v \in Since(k, now - Lag) :
             Keeps(r, k, v) /\ seen' = [key |-> k, value |-> v, at |-> now]
  /\ UNCHANGED <<now, asked, puts, command, trail>>

Tick ==
  /\ now < MaxNow
  /\ now' = now + 1
  /\ UNCHANGED <<asked, puts, command, trail, cache, seen>>

SettingsNext ==
  \/ Tick
  \/ \E a \in Admins : Put(a) \/ Record(a) \/ StopCommand(a) \/ \E q \in Requests : Ask(a, q)
  \/ \E r \in Readers, k \in Used : Get(r, k)

SettingsSpec == SettingsInit /\ [][SettingsNext]_settingsVars

-----------------------------------------------------------------------------

\* "Services see the change within a minute" (config.py): what a service uses was the value
\* less than the cache's time and one read ago, whoever changed it and however often it is
\* read.
SeenInTime ==
  seen.key \in DOMAIN CONFIG_DEFAULTS =>
    seen.value \in Since(seen.key, seen.at - (CacheTime - 1) - Lag)

\* "Every change is audited on the ADMIN chain with the old and new value" (admin.py): the
\* records of a key follow on one another, and the last one has its value.
TrailTellsChanges ==
  \A k \in SettingKeys :
    LET rs == SelectSeq(trail, LAMBDA e : e.key = k) IN
    /\ \A i \in 1..(Len(rs) - 1) : rs[i + 1].old = rs[i].new
    /\ (rs # <<>> /\ \A a \in Admins : command[a] = NoCommand) => Last(rs).new = _current(k)
=============================================================================
