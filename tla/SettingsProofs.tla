--------------------------- MODULE SettingsProofs ---------------------------
(***************************************************************************)
(* Proofs about module Settings, for tables of every length and files with *)
(* anything in their fields.                                               *)
(***************************************************************************)
EXTENDS Settings, TLAPS

\* Clamping a file's record yields a configuration.
LEMMA ClampedIsConfig ==
  ASSUME NEW file \in Records
  PROVE  Clamped(file) \in Configs
<1>1. /\ file.output \in FileOutputs /\ file.terminator \in FileTerminators
      /\ file.auto_type \in FileFlags
  BY DEF Records
<1>2. Defaults \in Configs
  BY DefaultsAssumption
<1>3. /\ Defaults.output \in Outputs /\ Defaults.terminator \in Terminators
      /\ Defaults.key_delay_ms \in Delays
  BY <1>2 DEF Configs
<1>. OutputCount \in Nat \ {0} /\ TerminatorCount \in Nat \ {0}
  BY CountAssumption
<1>. file.output \in Nat /\ file.terminator \in Nat
  BY <1>1, FileAssumption
<1>4. (IF file.output < OutputCount THEN file.output ELSE Defaults.output) \in Outputs
  <2>1. CASE file.output < OutputCount
    BY <2>1 DEF Outputs
  <2>2. QED
    BY <1>3, <2>1
<1>5. (IF file.terminator < TerminatorCount
       THEN file.terminator ELSE Defaults.terminator) \in Terminators
  <2>1. CASE file.terminator < TerminatorCount
    BY <2>1 DEF Terminators
  <2>2. QED
    BY <1>3, <2>1
<1>6. (IF file.key_delay_ms \in Delays
       THEN file.key_delay_ms ELSE Defaults.key_delay_ms) \in Delays
  BY <1>3
<1>7. QED
  BY <1>1, <1>4, <1>5, <1>6 DEF Clamped, Configs

\* A bool read from a byte is a byte a file may hold, and it is true if the
\* byte is not zero.
LEMMA BoolOfByte ==
  ASSUME NEW byte \in FileFlags
  PROVE  /\ BoolOf(byte) \subseteq FileFlags
         /\ \A flag \in BoolOf(byte) : (flag # 0) = (byte # 0)
BY FileAssumption DEF BoolOf

\* Loading always ends in a configuration that means what the clamped file
\* means, or in the defaults.
LEMMA LoadedIsConfig ==
  ASSUME NEW file \in Records \cup {Unusable}, NEW c \in Loaded(file)
  PROVE  /\ c \in Configs
         /\ Meaning(c) = IF file = Unusable
                         THEN Meaning(Defaults) ELSE Meaning(Clamped(file))
<1>1. CASE file = Unusable
  BY <1>1, DefaultsAssumption DEF Loaded
<1>2. CASE file # Unusable
  <2>1. file \in Records /\ Clamped(file) \in Configs
    BY <1>2, ClampedIsConfig
  <2>2. Clamped(file).auto_type = file.auto_type /\ file.auto_type \in FileFlags
    BY <2>1 DEF Clamped, Records
  <2>3. PICK flag \in BoolOf(file.auto_type) :
          c = [Clamped(file) EXCEPT !.auto_type = flag]
    BY <1>2 DEF Loaded
  <2>4. flag \in FileFlags /\ (flag # 0) = (file.auto_type # 0)
    BY <2>2, <2>3, BoolOfByte
  <2>5. c \in Configs
    BY <2>1, <2>3, <2>4 DEF Configs
  <2>6. /\ c.output = Clamped(file).output /\ c.auto_type = flag
        /\ c.terminator = Clamped(file).terminator
        /\ c.key_delay_ms = Clamped(file).key_delay_ms
    BY <2>1, <2>3 DEF Configs
  <2>7. QED
    BY <1>2, <2>2, <2>4, <2>5, <2>6 DEF Meaning
<1>3. QED
  BY <1>1, <1>2

\* A configuration is clamped to itself: what the application saves is what
\* it loads.
LEMMA ConfigSurvives ==
  ASSUME NEW c \in Configs
  PROVE  c \in Records /\ Clamped(c) = c
<1>1. /\ c.output \in Outputs /\ c.terminator \in Terminators
      /\ c.auto_type \in FileFlags /\ c.key_delay_ms \in Delays
      /\ c = [output |-> c.output, terminator |-> c.terminator,
              auto_type |-> c.auto_type, key_delay_ms |-> c.key_delay_ms]
  BY DEF Configs
<1>2. c.output < OutputCount /\ c.terminator < TerminatorCount
  BY <1>1, CountAssumption DEF Outputs, Terminators
<1>3. c \in Records
  BY <1>1, FileAssumption DEF Records
<1>4. QED
  BY <1>1, <1>2, <1>3 DEF Clamped

\* The table's search finds the delay it is asked for.
LEMMA DelayIsFound ==
  ASSUME NEW delay \in Delays
  PROVE  DelayItem(delay) \in DelayItems /\ KeyDelay[DelayItem(delay)] = delay
<1>1. \E i \in DelayItems : KeyDelay[i] = delay
  BY DEF Delays
<1>2. QED
  BY <1>1 DEF DelayItem

\* The list is built as the configuration is.
LEMMA BuiltAsConfig ==
  ASSUME NEW c \in Configs, NEW list \in ItemsOf(c)
  PROVE  /\ list \in [output: Outputs, terminator: Terminators,
                      auto_type: Nat, says_on: BOOLEAN, key_delay: DelayItems]
         /\ list.output = c.output /\ list.terminator = c.terminator
         /\ list.says_on = (c.auto_type # 0)
         /\ KeyDelay[list.key_delay] = c.key_delay_ms
<1>1. /\ c.output \in Outputs /\ c.terminator \in Terminators
      /\ c.auto_type \in FileFlags /\ c.key_delay_ms \in Delays
  BY DEF Configs
<1>2. PICK flag \in BoolOf(c.auto_type) :
        list = [output |-> c.output, terminator |-> c.terminator,
                auto_type |-> flag, says_on |-> c.auto_type # 0,
                key_delay |-> DelayItem(c.key_delay_ms)]
  BY DEF ItemsOf
<1>3. flag \in Nat
  BY <1>1, <1>2, BoolOfByte, FileAssumption
<1>4. QED
  BY <1>1, <1>2, <1>3, DelayIsFound

\* An item that is moved stays within its choices.
LEMMA MovedIsChoice ==
  ASSUME NEW count \in Nat, NEW item \in 0..count, NEW index \in Moved(item, count)
  PROVE  index \in 0..(count - 1)
BY DEF Moved

\* A file that is open for writing is empty: nothing is lost by a write that
\* fails but what opening lost.
OpenIsEmpty == app = "saving" => card = Unusable

Inv == SettingsTypeOK /\ ListShowsConfig /\ OpenIsEmpty

\* The parts of the invariant hold together: the list is changed from what it
\* shows, and what it shows is in the tables.
THEOREM InvHolds == SettingsSpec => []Inv
<1>1. SettingsInit => Inv
  <2> SUFFICES ASSUME SettingsInit PROVE Inv
    OBVIOUS
  <2>1. Defaults \in Configs
    BY DefaultsAssumption
  <2>2. items \in ItemsOf(Defaults) /\ config = Defaults
    BY DEF SettingsInit
  <2>3. QED
    BY <2>1, <2>2, BuiltAsConfig DEF SettingsInit, Inv, SettingsTypeOK, ListShowsConfig, OpenIsEmpty
<1>2. Inv /\ [SettingsNext]_settingsVars => Inv'
  <2> SUFFICES ASSUME Inv, [SettingsNext]_settingsVars PROVE Inv'
    OBVIOUS
  <2> USE DEF Inv, SettingsTypeOK, ListShowsConfig, OpenIsEmpty
  <2>1. CASE Start
    <3>1. config' \in Configs
      BY <2>1, LoadedIsConfig DEF Start
    <3>2. items' \in ItemsOf(config')
      BY <2>1 DEF Start
    <3>3. QED
      BY <2>1, <3>1, <3>2, BuiltAsConfig DEF Start
  <2>2. CASE ChangeOutput
    <3>1. PICK index \in Moved(items.output, OutputCount) :
            /\ items' = [items EXCEPT !.output = index]
            /\ config' = [config EXCEPT !.output = index]
      BY <2>2 DEF ChangeOutput
    <3>2. index \in Outputs
      BY <3>1, CountAssumption, MovedIsChoice DEF Outputs
    <3>3. config' \in Configs
      BY <3>1, <3>2 DEF Configs
    <3>4. QED
      BY <2>2, <3>1, <3>2, <3>3 DEF ChangeOutput, Configs
  <2>3. CASE ChangeTerminator
    <3>1. PICK index \in Moved(items.terminator, TerminatorCount) :
            /\ items' = [items EXCEPT !.terminator = index]
            /\ config' = [config EXCEPT !.terminator = index]
      BY <2>3 DEF ChangeTerminator
    <3>2. index \in Terminators
      BY <3>1, CountAssumption, MovedIsChoice DEF Terminators
    <3>3. config' \in Configs
      BY <3>1, <3>2 DEF Configs
    <3>4. QED
      BY <2>3, <3>1, <3>2, <3>3 DEF ChangeTerminator, Configs
  <2>4. CASE ChangeAutoType
    <3>1. PICK index \in Moved(items.auto_type, 2) :
            /\ items' = [items EXCEPT !.auto_type = index, !.says_on = index = 1]
            /\ config' = [config EXCEPT !.auto_type = IF index = 1 THEN 1 ELSE 0]
      BY <2>4 DEF ChangeAutoType
    <3>2. index \in Nat
      BY <3>1 DEF Moved
    <3>3. /\ items' \in [output: Outputs, terminator: Terminators,
                         auto_type: Nat, says_on: BOOLEAN, key_delay: DelayItems]
          /\ items'.says_on = (index = 1)
          /\ items'.output = items.output /\ items'.terminator = items.terminator
          /\ items'.key_delay = items.key_delay
      BY <3>1, <3>2
    <3>4. /\ config' \in Configs
          /\ config'.auto_type = IF index = 1 THEN 1 ELSE 0
          /\ config'.output = config.output
          /\ config'.terminator = config.terminator
          /\ config'.key_delay_ms = config.key_delay_ms
      BY <3>1, FileAssumption DEF Configs
    <3>5. QED
      BY <2>4, <3>3, <3>4 DEF ChangeAutoType
  <2>5. CASE ChangeKeyDelay
    <3>1. PICK index \in Moved(items.key_delay, KeyDelayCount) :
            /\ items' = [items EXCEPT !.key_delay = index]
            /\ config' = [config EXCEPT !.key_delay_ms = KeyDelay[index]]
      BY <2>5 DEF ChangeKeyDelay
    <3>2. index \in DelayItems /\ KeyDelay[index] \in Delays
      BY <3>1, CountAssumption, MovedIsChoice DEF DelayItems, Delays
    <3>3. config' \in Configs
      BY <3>1, <3>2 DEF Configs
    <3>4. QED
      BY <2>5, <3>1, <3>2, <3>3 DEF ChangeKeyDelay, Configs
  <2>6. CASE OpenFile
    BY <2>6 DEF OpenFile
  <2>7. CASE WriteFile
    BY <2>7, ConfigSurvives DEF WriteFile
  <2>8. CASE PowerLoss
    BY <2>8 DEF PowerLoss
  <2>9. CASE CardReplaced
    BY <2>9 DEF CardReplaced
  <2>10. CASE UNCHANGED settingsVars
    BY <2>10 DEF settingsVars
  <2>11. QED
    BY <2>1, <2>2, <2>3, <2>4, <2>5, <2>6, <2>7, <2>8, <2>9, <2>10 DEF SettingsNext
<1>3. QED
  BY <1>1, <1>2, PTL DEF SettingsSpec

\* Every variable has its type.
THEOREM TypeCorrect == SettingsSpec => []SettingsTypeOK
BY InvHolds, PTL DEF Inv

\* The list shows the settings in force.
THEOREM ListIsTrue == SettingsSpec => []ListShowsConfig
BY InvHolds, PTL DEF Inv
-----------------------------------------------------------------------------
\* A configuration stands for a choice, which is not mistaken for no file.
LEMMA MeaningIsChoice ==
  ASSUME NEW c \in Configs
  PROVE  Meaning(c) \in Selections /\ Meaning(c) # Unusable
<1>1. Meaning(c) \in Selections
  BY DEF Meaning, Configs, Selections
<1>2. QED
  BY <1>1, UnusableAssumption

\* Every step of the settings is a step of Preferences, or a replaced card
\* nobody can tell: a save keeps what was chosen, because what is saved is
\* clamped to itself; a save cut short keeps nothing.
THEOREM SettingsImplementPreferences == SettingsSpec => ImplementsPreferences
<1> DEFINE Kept == IF card = Unusable THEN Unusable ELSE Meaning(Clamped(card))
           Phase == CASE app = "off"     -> "closed"
                      [] app = "running" -> "open"
                      [] app = "saving"  -> "closing"
<1>1. SettingsInit => Preference!Init
  <2> SUFFICES ASSUME SettingsInit PROVE Preference!Init
    OBVIOUS
  <2>1. Phase = "closed" /\ Meaning(config) = Meaning(Defaults)
    BY DEF SettingsInit
  <2>2. Kept \in Selections \cup {Unusable}
    BY ClampedIsConfig, MeaningIsChoice DEF SettingsInit
  <2>3. QED
    BY <2>1, <2>2 DEF Preference!Init
<1>2. Inv /\ SettingsTypeOK' /\ [SettingsNext]_settingsVars => [Preference!Next]_Preference!vars
  <2> SUFFICES ASSUME Inv, SettingsTypeOK', [SettingsNext]_settingsVars
               PROVE  Preference!Next \/ UNCHANGED Preference!vars
    BY DEF Preference!vars
  <2>1. /\ config \in Configs /\ config' \in Configs
        /\ card \in Records \cup {Unusable} /\ card' \in Records \cup {Unusable}
        /\ app \in {"off", "running", "saving"}
    BY DEF Inv, SettingsTypeOK
  <2>2. /\ Meaning(config) \in Selections /\ Meaning(config') \in Selections
        /\ Meaning(config) # Unusable
    BY <2>1, MeaningIsChoice
  <2>3. Kept \in Selections \cup {Unusable} /\ (Kept = Unusable <=> card = Unusable)
    BY <2>1, ClampedIsConfig, MeaningIsChoice
  <2>4. Kept' \in Selections \cup {Unusable}
    BY <2>1, ClampedIsConfig, MeaningIsChoice
  <2>5. CASE Start
    <3>1. Meaning(config') = IF card = Unusable
                             THEN Meaning(Defaults) ELSE Meaning(Clamped(card))
      BY <2>1, <2>5, LoadedIsConfig DEF Start
    <3>2. Meaning(config)' = IF Kept = Unusable THEN Meaning(Defaults) ELSE Kept
      BY <2>3, <3>1 DEF Meaning
    <3>3. Phase = "closed" /\ Phase' = "open" /\ Kept' = Kept
      BY <2>5 DEF Start
    <3>4. Preference!Open
      BY <3>2, <3>3 DEF Preference!Open
    <3>5. QED
      BY <3>4 DEF Preference!Next
  <2>6. CASE ChangeOutput \/ ChangeTerminator \/ ChangeAutoType \/ ChangeKeyDelay
    <3>1. app = "running" /\ app' = app /\ card' = card
      BY <2>6
      DEF ChangeOutput, ChangeTerminator, ChangeAutoType, ChangeKeyDelay
    <3>2. Phase = "open" /\ Phase' = Phase /\ Kept' = Kept
      BY <3>1
    <3>3. Meaning(config)' \in Selections
      BY <2>2
    <3>4. Preference!Choose
      BY <3>2, <3>3 DEF Preference!Choose
    <3>5. QED
      BY <3>4 DEF Preference!Next
  <2>7. CASE OpenFile
    <3>1. config' = config /\ Phase = "open"
      BY <2>7 DEF OpenFile
    <3>2. CASE app' = "saving" /\ card' = Unusable
      <4>1. Preference!Close
        BY <3>1, <3>2 DEF Preference!Close
      <4>2. QED
        BY <4>1 DEF Preference!Next
    <3>3. CASE app' = "off" /\ card' = card
      <4>1. Preference!CutShort
        BY <3>1, <3>3 DEF Preference!CutShort
      <4>2. QED
        BY <4>1 DEF Preference!Next
    <3>4. QED
      BY <2>7, <3>2, <3>3 DEF OpenFile
  <2>8. CASE WriteFile
    <3>1. /\ config' = config /\ Phase = "closing" /\ Phase' = "closed"
          /\ app = "saving"
      BY <2>8 DEF WriteFile
    <3>2. CASE card' = config
      <4>1. Clamped(config) = config /\ config \in Records
        BY <2>1, ConfigSurvives
      <4>2. card' # Unusable
        BY <3>2, <4>1, UnusableAssumption
      <4>3. Kept' = Meaning(config)
        BY <3>2, <4>1, <4>2
      <4>4. Preference!Keep
        BY <3>1, <4>3 DEF Preference!Keep
      <4>5. QED
        BY <4>4 DEF Preference!Next
    <3>3. CASE card' = Unusable
      <4>1. Kept' = Unusable
        BY <3>3
      <4>2. Kept = Unusable
        BY <3>1 DEF Inv, OpenIsEmpty
      <4>3. Preference!CutShort
        BY <3>1, <4>1, <4>2 DEF Preference!CutShort
      <4>4. QED
        BY <4>3 DEF Preference!Next
    <3>4. QED
      BY <2>8, <3>2, <3>3 DEF WriteFile
  <2>9. CASE PowerLoss
    <3>1. /\ config' = config /\ Phase # "closed" /\ Phase' = "closed"
          /\ Kept' = Kept
      BY <2>1, <2>9 DEF PowerLoss
    <3>2. Preference!CutShort
      BY <3>1 DEF Preference!CutShort
    <3>3. QED
      BY <3>2 DEF Preference!Next
  <2>10. CASE CardReplaced
    <3>1. config' = config /\ Phase # "closing" /\ Phase' = Phase
      BY <2>1, <2>10 DEF CardReplaced
    <3>2. Preference!Replace
      BY <2>4, <3>1 DEF Preference!Replace
    <3>3. QED
      BY <3>2 DEF Preference!Next
  <2>11. CASE UNCHANGED settingsVars
    BY <2>11 DEF settingsVars, Preference!vars
  <2>12. QED
    BY <2>5, <2>6, <2>7, <2>8, <2>9, <2>10, <2>11 DEF SettingsNext
<1>3. QED
  BY <1>1, <1>2, InvHolds, TypeCorrect, PTL
  DEF SettingsSpec, ImplementsPreferences, Preference!Spec
=============================================================================
