----------------------------- MODULE Sequential -----------------------------
(***************************************************************************)
(* What runs on one thread: the uses of src/lib, and the life of the       *)
(* settings.  They share nothing, so what one of them does is looked at    *)
(* with the other at rest.                                                 *)
(***************************************************************************)
EXTENDS Library, Settings

LibraryAtRest ==
  WalkAtRest /\ CodecAtRest /\ PagesAtRest /\ LabelAtRest /\ UriAtRest
SettingsAtRest == SettingsInit /\ card = Unusable

SequentialInit ==
  \/ LibraryInit /\ SettingsAtRest
  \/ SettingsInit /\ LibraryAtRest

SequentialNext ==
  \/ LibraryNext /\ UNCHANGED settingsVars
  \/ LibraryAtRest /\ SettingsNext /\ UNCHANGED libraryVars

SequentialSpec ==
  /\ SequentialInit /\ [][SequentialNext]_<<libraryVars, settingsVars>>
  /\ WF_libraryVars(Walk)
=============================================================================
