------------------------------ MODULE Settings ------------------------------
(***************************************************************************)
(* The settings: the file on the SD card, the configuration it is loaded   *)
(* into, and the settings list that shows and changes it, over any number  *)
(* of runs of the application.  The device may lose its power at any time, *)
(* in the middle of a save too, and the card may be written elsewhere.     *)
(*                                                                         *)
(* An enumeration is its number, as in C, and so is a bool: the byte of    *)
(* auto_type is taken from the file as it is.                              *)
(***************************************************************************)
EXTENDS Naturals

CONSTANTS
  OutputCount, TerminatorCount,   \* ANTLIA_OUTPUT_COUNT, ..._TERMINATOR_COUNT
  KeyDelayCount, KeyDelay,        \* antlia_key_delay_values
  Defaults,                       \* antlia_config_set_defaults
  FileOutputs, FileTerminators,   \* what the fields of a file may hold
  FileFlags, FileDelays,
  Unusable        \* no file, or one that saved_struct_load does not take

Outputs     == 0..(OutputCount - 1)
Terminators == 0..(TerminatorCount - 1)
DelayItems  == 0..(KeyDelayCount - 1)
Delays      == {KeyDelay[i] : i \in DelayItems}

Records == [output: FileOutputs, terminator: FileTerminators,
            auto_type: FileFlags, key_delay_ms: FileDelays]
Configs == [output: Outputs, terminator: Terminators,
            auto_type: FileFlags, key_delay_ms: Delays]
\* What the user can choose: as the code asks of auto_type only whether it is
\* true.
Selections == [output: Outputs, terminator: Terminators,
            auto_type: BOOLEAN, key_delay_ms: Delays]

ASSUME CountAssumption ==
  /\ OutputCount \in Nat \ {0} /\ TerminatorCount \in Nat \ {0}
  /\ KeyDelayCount \in Nat \ {0, 1}
ASSUME DelayAssumption ==
  /\ KeyDelay \in [DelayItems -> Nat]
  /\ \A i, j \in DelayItems : KeyDelay[i] = KeyDelay[j] => i = j
ASSUME FileAssumption ==
  /\ Outputs \subseteq FileOutputs /\ FileOutputs \subseteq Nat
  /\ Terminators \subseteq FileTerminators /\ FileTerminators \subseteq Nat
  /\ {0, 1} \subseteq FileFlags /\ FileFlags \subseteq Nat
  /\ Delays \subseteq FileDelays /\ FileDelays \subseteq Nat
ASSUME DefaultsAssumption == Defaults \in Configs /\ Defaults.auto_type = 1
ASSUME UnusableAssumption == Unusable \notin Records \cup Selections

VARIABLES
  app,      \* "off", "running", or "saving": the file is open for writing
  card,     \* the settings file
  config,   \* Antlia.config; as it was, when off
  items     \* the value index of each item of the settings list, and whether
            \* the text of "Auto type" says On; likewise

settingsVars == <<app, card, config, items>>
-----------------------------------------------------------------------------
\* Mutant: one too many outputs.
ClampedLate(file) ==
  [output |-> IF file.output <= OutputCount
              THEN file.output ELSE Defaults.output,
   terminator |-> IF file.terminator < TerminatorCount
                  THEN file.terminator ELSE Defaults.terminator,
   auto_type |-> file.auto_type,
   key_delay_ms |-> IF file.key_delay_ms \in Delays
                    THEN file.key_delay_ms ELSE Defaults.key_delay_ms]

\* Mutant: a delay is anything up to the longest.
ClampedByLongest(file) ==
  [output |-> IF file.output < OutputCount
              THEN file.output ELSE Defaults.output,
   terminator |-> IF file.terminator < TerminatorCount
                  THEN file.terminator ELSE Defaults.terminator,
   auto_type |-> file.auto_type,
   key_delay_ms |-> IF file.key_delay_ms <= KeyDelay[KeyDelayCount - 1]
                    THEN file.key_delay_ms ELSE Defaults.key_delay_ms]

\* Each field is taken, or replaced by its default, on its own.
Clamped(file) ==
  [output |-> IF file.output < OutputCount
              THEN file.output ELSE Defaults.output,
   terminator |-> IF file.terminator < TerminatorCount
                  THEN file.terminator ELSE Defaults.terminator,
   auto_type |-> file.auto_type,
   key_delay_ms |-> IF file.key_delay_ms \in Delays
                    THEN file.key_delay_ms ELSE Defaults.key_delay_ms]

\* What reading a bool may yield whose byte is neither 0 nor 1 is undefined:
\* the byte, or true.
BoolOf(byte) == IF byte \in {0, 1} THEN {byte} ELSE {byte, 1}

\* Mutant: the structure is filled with zeros and not with the defaults.
LoadedOverZeros(file) ==
  IF file = Unusable
  THEN {[output |-> 0, terminator |-> 0, auto_type |-> 0,
         key_delay_ms |-> Defaults.key_delay_ms]}
  ELSE {[Clamped(file) EXCEPT !.auto_type = flag] : flag \in BoolOf(file.auto_type)}

\* antlia_config_load
Loaded(file) ==
  IF file = Unusable
  THEN {Defaults}
  ELSE {[Clamped(file) EXCEPT !.auto_type = flag] : flag \in BoolOf(file.auto_type)}

\* The index of a delay in the table; the second one if it is not there.
DelayItem(delay) ==
  IF delay \in Delays
  THEN CHOOSE i \in DelayItems : KeyDelay[i] = delay
  ELSE 1

\* antlia_settings_build
ItemsOf(c) ==
  {[output |-> c.output, terminator |-> c.terminator, auto_type |-> flag,
    says_on |-> c.auto_type # 0, key_delay |-> DelayItem(c.key_delay_ms)] :
     flag \in BoolOf(c.auto_type)}

Start ==
  /\ app = "off" /\ app' = "running"
  /\ config' \in Loaded(card)
  /\ items' \in ItemsOf(config')
  /\ UNCHANGED card

\* The list moves an item by one place within its choices, and then calls back.
Moved(item, count) == {i \in {item - 1, item + 1} : i >= 0 /\ (i < item \/ i < count)}

ChangeOutput ==
  /\ app = "running"
  /\ \E index \in Moved(items.output, OutputCount) :
       /\ items'  = [items EXCEPT !.output = index]
       /\ config' = [config EXCEPT !.output = index]
  /\ UNCHANGED <<app, card>>

ChangeTerminator ==
  /\ app = "running"
  /\ \E index \in Moved(items.terminator, TerminatorCount) :
       /\ items'  = [items EXCEPT !.terminator = index]
       /\ config' = [config EXCEPT !.terminator = index]
  /\ UNCHANGED <<app, card>>

ChangeAutoType ==
  /\ app = "running"
  /\ \E index \in Moved(items.auto_type, 2) :
       /\ items'  = [items EXCEPT !.auto_type = index, !.says_on = index = 1]
       /\ config' = [config EXCEPT !.auto_type = IF index = 1 THEN 1 ELSE 0]
  /\ UNCHANGED <<app, card>>

ChangeKeyDelay ==
  /\ app = "running"
  /\ \E index \in Moved(items.key_delay, KeyDelayCount) :
       /\ items'  = [items EXCEPT !.key_delay = index]
       /\ config' = [config EXCEPT !.key_delay_ms = KeyDelay[index]]
  /\ UNCHANGED <<app, card>>

\* The ordinary exit saves first.  Opening the file empties it, or fails and
\* leaves it alone; the application ends either way.
OpenFile ==
  /\ app = "running"
  /\ \/ app' = "saving" /\ card' = Unusable
     \/ app' = "off" /\ UNCHANGED card
  /\ UNCHANGED <<config, items>>

\* Writing may fail, which is only logged.
WriteFile ==
  /\ app = "saving" /\ app' = "off"
  /\ card' \in {config, Unusable}
  /\ UNCHANGED <<config, items>>

PowerLoss ==
  /\ app # "off" /\ app' = "off"
  /\ UNCHANGED <<card, config, items>>

\* The card is written, swapped or taken out.  Out of an open file it is the
\* same as a write that fails.
CardReplaced ==
  /\ app # "saving"
  /\ card' \in Records \cup {Unusable}
  /\ UNCHANGED <<app, config, items>>

SettingsInit ==
  /\ app = "off"
  /\ card \in Records \cup {Unusable}
  /\ config = Defaults
  /\ items \in ItemsOf(Defaults)

SettingsNext ==
  \/ Start \/ OpenFile \/ WriteFile
  \/ ChangeOutput \/ ChangeTerminator \/ ChangeAutoType \/ ChangeKeyDelay
  \/ PowerLoss \/ CardReplaced

SettingsSpec == SettingsInit /\ [][SettingsNext]_settingsVars
-----------------------------------------------------------------------------
(* Properties.                                                             *)

\* Every variable has its type: whatever file was found, the output and the
\* terminator in force index the tables of names (antlia.c:81, :86) and the
\* delay is one of the table's.
SettingsTypeOK ==
  /\ app \in {"off", "running", "saving"}
  /\ card \in Records \cup {Unusable}
  /\ config \in Configs
  /\ items \in [output: Outputs, terminator: Terminators,
                auto_type: Nat, says_on: BOOLEAN, key_delay: DelayItems]

\* The list shows the settings in force, through every load and change: the two
\* searches of the delay table, in the load and in the list, agree, and an item
\* whose delay were not in the table would show another one (antlia.c:92-99).
ListShowsConfig ==
  /\ items.output = config.output
  /\ items.terminator = config.terminator
  /\ items.says_on = (config.auto_type # 0)
  /\ KeyDelay[items.key_delay] = config.key_delay_ms

\* The choice a configuration stands for.
Meaning(c) ==
  [output |-> c.output, terminator |-> c.terminator,
   auto_type |-> c.auto_type # 0, key_delay_ms |-> c.key_delay_ms]

Preference == INSTANCE Preferences WITH
  Values  <- Selections,
  Default <- Meaning(Defaults),
  Nothing <- Unusable,
  phase   <- CASE app = "off"     -> "closed"
               [] app = "running" -> "open"
               [] app = "saving"  -> "closing",
  chosen  <- Meaning(config),
  kept    <- IF card = Unusable THEN Unusable ELSE Meaning(Clamped(card))

\* The settings are preferences: a start finds what the last ordinary exit kept
\* or the defaults, and whatever is cut short leaves no settings that nobody
\* chose (antlia_config.c:39-41).
ImplementsPreferences == Preference!Spec
=============================================================================
