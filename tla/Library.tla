------------------------------ MODULE Library ------------------------------
(***************************************************************************)
(* src/lib as a whole: what its callers may do with it.  A behaviour is    *)
(* one use: a tag is walked, a URI is written to a tag and read back, the  *)
(* pages the bridge has read are walked, a label is copied, or a URI is    *)
(* looked through for a code.  What a use does not touch is at rest.       *)
(***************************************************************************)
EXTENDS PageWalk, Label, UriRule

libraryVars == <<vars, codecVars, pageVars, labelVars, uriVars>>

WalkAtRest ==
  /\ data = <<>> /\ pc = "done" /\ tlv = 0
  /\ start = 0 /\ message_size = 0 /\ at = 0
  /\ found = NoUri
CodecAtRest == uri = <<>> /\ written = 0
PagesAtRest == pages = <<>> /\ count = 0
LabelAtRest ==
  /\ id = <<>> /\ prefix = <<>> /\ text = <<>>
  /\ slips = 0 /\ changes = MaxChanges
UriAtRest == address = <<>> /\ room = 0

LibraryInit ==
  \/ Init /\ CodecAtRest /\ PagesAtRest /\ LabelAtRest /\ UriAtRest
  \/ CodecInit /\ PagesAtRest /\ LabelAtRest /\ UriAtRest
  \/ PageInit /\ CodecAtRest /\ LabelAtRest /\ UriAtRest
  \/ LabelInit /\ WalkAtRest /\ CodecAtRest /\ PagesAtRest /\ UriAtRest
  \/ UriInit /\ WalkAtRest /\ CodecAtRest /\ PagesAtRest /\ LabelAtRest

Walk == Next /\ UNCHANGED <<codecVars, pageVars, labelVars, uriVars>>

LibraryNext ==
  \/ Walk
  \/ Build /\ UNCHANGED <<pageVars, labelVars, uriVars>>
  \/ LabelNext /\ UNCHANGED <<vars, codecVars, pageVars, uriVars>>
  \/ UriNext /\ UNCHANGED <<vars, codecVars, pageVars, labelVars>>

\* The walk is a loop on one thread and waits for nothing.
LibrarySpec == LibraryInit /\ [][LibraryNext]_libraryVars /\ WF_libraryVars(Walk)
=============================================================================
