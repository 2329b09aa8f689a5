------------------------------- MODULE Wedge -------------------------------
(***************************************************************************)
(* The wedge: the application's own thread running the views (gui), the    *)
(* scan worker, the self-test worker, and the USB interface they share.    *)
(*                                                                         *)
(* The application thread runs every view callback, so the callbacks do    *)
(* not interleave with each other, only with the workers and with the      *)
(* outside world: a user at the keys, tags on the reader, a USB host.      *)
(* A with_view_model block holds the model's lock from end to end and      *)
(* waits for nothing, so a block is one step.  Delays are left out.        *)
(***************************************************************************)
EXTENDS Naturals

CONSTANTS
  Tags, NoTag,            \* tags, told apart by their UID
  Ids, NoId,              \* valid short IDs
  Unreadable, ReadError,  \* a poll that yields no ID, a poll that fails
  Reading,                \* what polling each tag can yield
  Interfaces, Hid,        \* USB interfaces, the keyboard among them
  NoInterface,            \* NULL
  Outputs, SelfTest,      \* the forms an ID is typed in; the test string
  Terminators, NoTerminator,
  TextLen,                \* keys in a text that is not empty
  WaitTicks               \* polls of the host before the typing starts anyway

ASSUME NoTagAssumption == NoTag \notin Tags
ASSUME IdAssumption ==
  /\ NoId \notin Ids
  /\ {Unreadable, ReadError} \cap Ids = {}
  /\ Unreadable # ReadError
ASSUME ReadingAssumption ==
  Reading \in [Tags -> (SUBSET (Ids \cup {Unreadable, ReadError})) \ {{}}]
ASSUME InterfaceAssumption == Hid \in Interfaces /\ NoInterface \notin Interfaces
ASSUME OutputAssumption == SelfTest \notin Outputs
ASSUME TerminatorAssumption == NoTerminator \in Terminators
ASSUME LengthAssumption == TextLen \in Nat \ {0} /\ WaitTicks \in Nat

VARIABLES
  view,             \* the view the dispatcher shows
  gui,              \* where the application thread is in a callback
  pc,               \* where each worker is; "none" when it does not exist
  worker_running, type_requested, config,      \* fields of Antlia
  model, test_state,                           \* the two views' models
  last_handled, last_unknown, got,             \* locals of the scan worker
  job,              \* each worker's call of antlia_hid_type
  claimed, previous,                           \* AntliaHid
  usb, held,        \* the interface the device runs; a key is down
  field, connected, \* the tag on the reader; the host has enumerated
  seen,             \* history: what the poll before this one yielded
  alerted,          \* history: handling that poll sounded the error alert
  original,         \* history: the interface when the application started
  refused           \* history: a set_config that was to give it back failed

scanVars  == <<last_handled, last_unknown, got, seen, alerted>>
hidVars   == <<claimed, previous, usb, original, refused>>
worldVars == <<field, connected>>
flagVars  == <<worker_running, type_requested>>
vars == <<view, gui, pc, flagVars, config, model, test_state, scanVars, job,
          hidVars, held, worldVars>>

Threads == {"scan", "test"}
Configs == [output: Outputs, terminator: Terminators, auto_type: BOOLEAN]
Texts   == [form: Outputs \cup {SelfTest}, id: Ids \cup {NoId}]
Polls   == [tag: Tags \cup {NoTag}, what: Ids \cup {Unreadable, ReadError}]

Blank     == [state |-> "Waiting", id |-> NoId, ready |-> FALSE]
NoPoll    == [tag |-> NoTag, what |-> ReadError]
TestText  == [form |-> SelfTest, id |-> NoId]
Job(text) == [text |-> text, sent |-> 0, waited |-> 0,
              entered |-> FALSE, typed |-> FALSE]
NoJob     == Job(TestText)

\* The ID fields of a refused tag are blank, and blank is what its text is.
Length(text) == IF text.id = NoId /\ text.form # SelfTest THEN 0 ELSE TextLen

hid_ready == claimed /\ connected
-----------------------------------------------------------------------------
(* antlia_hid.c: the lease on the USB interface.                           *)

Claim ==
  /\ IF claimed
     THEN UNCHANGED <<claimed, previous, usb>>
     ELSE \/ claimed' = TRUE  /\ previous' = usb         /\ usb' = Hid
          \/ claimed' = FALSE /\ previous' = NoInterface /\ usb' = usb
  /\ UNCHANGED <<original, refused>>

\* Mutant: previous is cleared before it is used.
ReleaseForgetsFirst ==
  IF ~claimed
  THEN UNCHANGED <<hidVars, held>>
  ELSE /\ held' = FALSE
       /\ claimed' = FALSE /\ previous' = NoInterface
       /\ \/ usb' = NoInterface /\ UNCHANGED refused
          \/ usb' = usb         /\ refused' = TRUE
       /\ UNCHANGED original

\* The result of the set_config that gives the interface back is not looked at.
Release ==
  IF ~claimed
  THEN UNCHANGED <<hidVars, held>>
  ELSE /\ held' = FALSE
       /\ claimed' = FALSE /\ previous' = NoInterface
       /\ \/ usb' = previous /\ UNCHANGED refused
          \/ usb' = usb      /\ refused' = TRUE
       /\ UNCHANGED original
-----------------------------------------------------------------------------
(* The application thread: antlia.c and the views' callbacks.              *)

\* antlia_alloc: the structure is zeroed, then the settings are loaded.
Launch ==
  /\ view = "closed"
  /\ view' = "menu" /\ gui' = "idle"
  /\ config' \in Configs
  /\ model' = Blank /\ test_state' = "Typing"
  /\ worker_running' = FALSE /\ type_requested' = FALSE
  /\ claimed' = FALSE /\ previous' = NoInterface
  /\ original' = usb /\ refused' = FALSE
  /\ UNCHANGED <<pc, scanVars, job, usb, held, worldVars>>

\* The scan worker's locals as it starts.
NoScanLocals ==
  /\ last_handled' = NoId /\ last_unknown' = NoTag
  /\ got' = NoPoll /\ seen' = NoPoll /\ alerted' = FALSE

\* Mutant: an old request is left standing.
OpenScanKeepsRequest ==
  /\ view = "menu" /\ gui = "idle"
  /\ view' = "scan"
  /\ model' = Blank
  /\ Claim
  /\ worker_running' = TRUE
  /\ pc' = [pc EXCEPT !["scan"] = "top"]
  /\ NoScanLocals
  /\ UNCHANGED <<gui, type_requested, config, test_state, job, held, worldVars>>

OpenScan ==
  /\ view = "menu" /\ gui = "idle"
  /\ view' = "scan"
  /\ model' = Blank
  /\ Claim
  /\ type_requested' = FALSE /\ worker_running' = TRUE
  /\ pc' = [pc EXCEPT !["scan"] = "top"]
  /\ NoScanLocals
  /\ UNCHANGED <<gui, config, test_state, job, held, worldVars>>

\* OK: the state is looked at under the model's lock, the request made after it.
PressOk ==
  /\ view = "scan" /\ gui = "idle"
  /\ model.state = "Holding"
  /\ gui' = "ok"
  /\ UNCHANGED <<view, pc, flagVars, config, model, test_state, scanVars, job,
                 hidVars, held, worldVars>>

RequestTyping ==
  /\ gui = "ok"
  /\ type_requested' = TRUE
  /\ gui' = "idle"
  /\ UNCHANGED <<view, pc, worker_running, config, model, test_state, scanVars,
                 job, hidVars, held, worldVars>>

\* Mutant: the worker is told to stop and not waited for.
LeaveScanUnjoined ==
  /\ view = "scan" /\ gui = "idle"
  /\ worker_running' = FALSE
  /\ view' = "menu"
  /\ Release
  /\ UNCHANGED <<gui, pc, type_requested, config, model, test_state, scanVars,
                 job, worldVars>>

LeaveScan ==
  /\ view = "scan" /\ gui = "idle"
  /\ worker_running' = FALSE
  /\ gui' = "join"
  /\ UNCHANGED <<view, pc, type_requested, config, model, test_state, scanVars,
                 job, hidVars, held, worldVars>>

OpenTest ==
  /\ view = "menu" /\ gui = "idle"
  /\ view' = "test"
  /\ test_state' = "Typing"
  /\ Claim
  /\ pc' = [pc EXCEPT !["test"] = "wait"]
  /\ job' = [job EXCEPT !["test"] = Job(TestText)]
  /\ UNCHANGED <<gui, flagVars, config, model, scanVars, held, worldVars>>

LeaveTest ==
  /\ view = "test" /\ gui = "idle"
  /\ gui' = "join"
  /\ UNCHANGED <<view, pc, flagVars, config, model, test_state, scanVars, job,
                 hidVars, held, worldVars>>

\* furi_thread_join returns: the thread is freed, its locals are gone, and the
\* interface is released.
Joined(t) ==
  /\ gui = "join" /\ view = t
  /\ pc[t] = "ended"
  /\ pc' = [pc EXCEPT ![t] = "none"]
  /\ Release
  /\ gui' = "idle" /\ view' = "menu"
  /\ NoScanLocals
  /\ UNCHANGED <<flagVars, config, model, test_state, job, worldVars>>

OpenPage(page) ==
  /\ view = "menu" /\ gui = "idle"
  /\ view' = page
  /\ UNCHANGED <<gui, pc, flagVars, config, model, test_state, scanVars, job,
                 hidVars, held, worldVars>>

LeavePage ==
  /\ view \in {"settings", "about"}
  /\ view' = "menu"
  /\ UNCHANGED <<gui, pc, flagVars, config, model, test_state, scanVars, job,
                 hidVars, held, worldVars>>

ChangeSetting ==
  /\ view = "settings"
  /\ \/ \E o \in Outputs :     config' = [config EXCEPT !.output = o]
     \/ \E e \in Terminators : config' = [config EXCEPT !.terminator = e]
     \/ \E a \in BOOLEAN :     config' = [config EXCEPT !.auto_type = a]
  /\ UNCHANGED <<view, gui, pc, flagVars, model, test_state, scanVars, job,
                 hidVars, held, worldVars>>

\* antlia_free; the settings file it saves is module Settings's subject.
Quit ==
  /\ view = "menu" /\ gui = "idle"
  /\ view' = "closed"
  /\ Release
  /\ UNCHANGED <<gui, pc, flagVars, config, model, test_state, scanVars, job,
                 worldVars>>
-----------------------------------------------------------------------------
(* antlia_hid_type, called by either worker.                               *)

\* The call returns typed.
Return(t, typed) ==
  /\ pc' = [pc EXCEPT ![t] = "report"]
  /\ job' = [job EXCEPT ![t].typed = typed]

\* Mutants: the wait is one poll too long; it has no end; the claim is not checked.
WaitForHostOnceMore(t) ==
  /\ pc[t] = "wait"
  /\ IF ~claimed THEN Return(t, FALSE)
     ELSE IF connected \/ job[t].waited > WaitTicks
     THEN pc' = [pc EXCEPT ![t] = "keys"] /\ UNCHANGED job
     ELSE job' = [job EXCEPT ![t].waited = @ + 1] /\ UNCHANGED pc
  /\ UNCHANGED <<view, gui, flagVars, config, model, test_state, scanVars,
                 hidVars, held, worldVars>>

WaitForHostForever(t) ==
  /\ pc[t] = "wait"
  /\ IF ~claimed THEN Return(t, FALSE)
     ELSE connected /\ pc' = [pc EXCEPT ![t] = "keys"] /\ UNCHANGED job
  /\ UNCHANGED <<view, gui, flagVars, config, model, test_state, scanVars,
                 hidVars, held, worldVars>>

WaitForHostUnclaimed(t) ==
  /\ pc[t] = "wait"
  /\ IF connected \/ job[t].waited >= WaitTicks
     THEN pc' = [pc EXCEPT ![t] = "keys"] /\ UNCHANGED job
     ELSE job' = [job EXCEPT ![t].waited = @ + 1] /\ UNCHANGED pc
  /\ UNCHANGED <<view, gui, flagVars, config, model, test_state, scanVars,
                 hidVars, held, worldVars>>

WaitForHost(t) ==
  /\ pc[t] = "wait"
  /\ IF ~claimed THEN Return(t, FALSE)
     ELSE IF connected \/ job[t].waited >= WaitTicks
     THEN pc' = [pc EXCEPT ![t] = "keys"] /\ UNCHANGED job
     ELSE job' = [job EXCEPT ![t].waited = @ + 1] /\ UNCHANGED pc
  /\ UNCHANGED <<view, gui, flagVars, config, model, test_state, scanVars,
                 hidVars, held, worldVars>>

\* A key of the text: pressed and let go; not pressed, for want of a keycode or
\* of a host; or pressed and not let go.
TypeKey(t) ==
  /\ pc[t] = "keys" /\ job[t].sent < Length(job[t].text)
  /\ \/ /\ job' = [job EXCEPT ![t].sent = @ + 1]
        /\ UNCHANGED <<pc, held>>
     \/ Return(t, FALSE) /\ held' = FALSE
     \/ /\ pc' = [pc EXCEPT ![t] = "report"]
        /\ job' = [job EXCEPT ![t].sent = @ + 1, ![t].typed = FALSE]
        /\ held' = FALSE
  /\ UNCHANGED <<view, gui, flagVars, config, model, test_state, scanVars,
                 hidVars, worldVars>>

\* Mutant: a text that broke off is ended like a whole one.
TypeTerminatorAnyway(t) ==
  /\ pc[t] = "keys"
  /\ pc' = [pc EXCEPT ![t] = "report"]
  /\ \E pressed, released \in BOOLEAN :
       /\ config.terminator = NoTerminator => released /\ ~pressed
       /\ config.terminator # NoTerminator => (released => pressed)
       /\ job' = [job EXCEPT ![t].entered = pressed, ![t].typed = released]
       /\ held' = IF pressed THEN ~released ELSE held
  /\ UNCHANGED <<view, gui, flagVars, config, model, test_state, scanVars,
                 hidVars, worldVars>>

\* No terminator; the terminator's key; the key not pressed; or not let go,
\* and then nothing lets go of it.
TypeTerminator(t) ==
  /\ pc[t] = "keys" /\ job[t].sent = Length(job[t].text)
  /\ pc' = [pc EXCEPT ![t] = "report"]
  /\ \E pressed, released \in BOOLEAN :
       /\ config.terminator = NoTerminator => released /\ ~pressed
       /\ config.terminator # NoTerminator => (released => pressed)
       /\ job' = [job EXCEPT ![t].entered = pressed, ![t].typed = released]
       /\ held' = IF pressed THEN ~released ELSE held
  /\ UNCHANGED <<view, gui, flagVars, config, model, test_state, scanVars,
                 hidVars, worldVars>>

Typing(t) == WaitForHost(t) \/ TypeKey(t) \/ TypeTerminator(t)
-----------------------------------------------------------------------------
(* antlia_scan_worker.                                                     *)

CheckRunning ==
  /\ pc["scan"] = "top"
  /\ pc' = [pc EXCEPT !["scan"] = IF worker_running THEN "poll" ELSE "ended"]
  /\ UNCHANGED <<view, gui, flagVars, config, model, test_state, scanVars, job,
                 hidVars, held, worldVars>>

\* Mutant: the request is not cleared.
TakeRequestKeepsFlag ==
  /\ pc["scan"] = "poll" /\ type_requested
  /\ pc' = [pc EXCEPT !["scan"] = "copy"]
  /\ UNCHANGED <<view, gui, flagVars, config, model, test_state, scanVars,
                 job, hidVars, held, worldVars>>

TakeRequest ==
  /\ pc["scan"] = "poll" /\ type_requested
  /\ type_requested' = FALSE
  /\ pc' = [pc EXCEPT !["scan"] = "copy"]
  /\ UNCHANGED <<view, gui, worker_running, config, model, test_state, scanVars,
                 job, hidVars, held, worldVars>>

StartPoll ==
  /\ pc["scan"] = "poll" /\ ~type_requested
  /\ pc' = [pc EXCEPT !["scan"] = "read"]
  /\ UNCHANGED <<view, gui, flagVars, config, model, test_state, scanVars, job,
                 hidVars, held, worldVars>>

\* What the poller can return for the tag on the reader.
Polled(tag) ==
  [tag: {tag}, what: IF tag = NoTag THEN {} ELSE Reading[tag] \ {ReadError}]
    \cup {p \in {NoPoll} : tag = NoTag \/ ReadError \in Reading[tag]}

EndPoll ==
  /\ pc["scan"] = "read"
  /\ got' \in Polled(field)
  /\ pc' = [pc EXCEPT !["scan"] = "handle"]
  /\ UNCHANGED <<view, gui, flagVars, config, model, test_state, last_handled,
                 last_unknown, seen, alerted, job, hidVars, held, worldVars>>

\* A result is dealt with: the loop goes on at next.
DealtWith(next) ==
  /\ pc' = [pc EXCEPT !["scan"] = next]
  /\ seen' = got /\ got' = NoPoll

ReadFailed ==
  /\ pc["scan"] = "handle" /\ got.what = ReadError
  /\ last_handled' = NoId /\ last_unknown' = NoTag
  /\ model' = [model EXCEPT !.ready = hid_ready]
  /\ alerted' = FALSE
  /\ DealtWith("top")
  /\ UNCHANGED <<view, gui, flagVars, config, test_state, job, hidVars,
                 held, worldVars>>

\* Mutant: the refused tag is not remembered.
UnknownTagForgotten ==
  /\ pc["scan"] = "handle" /\ got.what = Unreadable
  /\ model' = [model EXCEPT !.state = "UnknownTag", !.id = NoId]
  /\ alerted' = (got.tag # last_unknown)
  /\ DealtWith("top")
  /\ UNCHANGED <<view, gui, flagVars, config, test_state, last_handled,
                 last_unknown, job, hidVars, held, worldVars>>

UnknownTag ==
  /\ pc["scan"] = "handle" /\ got.what = Unreadable
  /\ last_unknown' = got.tag
  /\ model' = [model EXCEPT !.state = "UnknownTag", !.id = NoId]
  /\ alerted' = (got.tag # last_unknown)
  /\ DealtWith("top")
  /\ UNCHANGED <<view, gui, flagVars, config, test_state, last_handled, job,
                 hidVars, held, worldVars>>

SameTag ==
  /\ pc["scan"] = "handle" /\ got.what \in Ids /\ got.what = last_handled
  /\ last_unknown' = got.tag
  /\ alerted' = FALSE
  /\ DealtWith("top")
  /\ UNCHANGED <<view, gui, flagVars, config, model, test_state, last_handled,
                 job, hidVars, held, worldVars>>

\* Mutant: the ID is not remembered.
NewTagForgotten ==
  /\ pc["scan"] = "handle" /\ got.what \in Ids /\ got.what # last_handled
  /\ last_unknown' = NoTag
  /\ model' = [state |-> "Holding", id |-> got.what, ready |-> hid_ready]
  /\ alerted' = FALSE
  /\ DealtWith(IF config.auto_type THEN "copy" ELSE "top")
  /\ UNCHANGED <<view, gui, flagVars, config, test_state, last_handled, job,
                 hidVars, held, worldVars>>

NewTag ==
  /\ pc["scan"] = "handle" /\ got.what \in Ids /\ got.what # last_handled
  /\ last_handled' = got.what /\ last_unknown' = NoTag
  /\ model' = [state |-> "Holding", id |-> got.what, ready |-> hid_ready]
  /\ alerted' = FALSE
  /\ DealtWith(IF config.auto_type THEN "copy" ELSE "top")
  /\ UNCHANGED <<view, gui, flagVars, config, test_state, job, hidVars,
                 held, worldVars>>

\* Mutant: the text is made from the worker's memory, not from the screen.
CopyLastHandled ==
  /\ pc["scan"] = "copy"
  /\ job' = [job EXCEPT !["scan"] = Job([form |-> config.output, id |-> last_handled])]
  /\ pc' = [pc EXCEPT !["scan"] = "wait"]
  /\ UNCHANGED <<view, gui, flagVars, config, model, test_state, scanVars,
                 hidVars, held, worldVars>>

\* type_current, up to the call of antlia_hid_type.
CopyText ==
  /\ pc["scan"] = "copy"
  /\ job' = [job EXCEPT !["scan"] = Job([form |-> config.output, id |-> model.id])]
  /\ pc' = [pc EXCEPT !["scan"] = "wait"]
  /\ UNCHANGED <<view, gui, flagVars, config, model, test_state, scanVars,
                 hidVars, held, worldVars>>

\* type_current, after the call.
ReportTyped ==
  /\ pc["scan"] = "report"
  /\ model' = [model EXCEPT !.state = IF job["scan"].typed THEN "Typed" ELSE "NoHost",
                            !.ready = hid_ready]
  /\ pc' = [pc EXCEPT !["scan"] = "top"]
  /\ job' = [job EXCEPT !["scan"] = NoJob]
  /\ UNCHANGED <<view, gui, flagVars, config, test_state, scanVars, hidVars,
                 held, worldVars>>

ScanWorker ==
  \/ CheckRunning \/ TakeRequest \/ StartPoll \/ EndPoll
  \/ ReadFailed \/ UnknownTag \/ SameTag \/ NewTag
  \/ CopyText \/ Typing("scan") \/ ReportTyped
-----------------------------------------------------------------------------
(* antlia_test_worker, after its call of antlia_hid_type.                  *)

\* Mutant: only a test that worked gives the interface back.
TestReleaseIfTyped ==
  /\ pc["test"] = "report"
  /\ IF job["test"].typed THEN Release ELSE UNCHANGED <<hidVars, held>>
  /\ pc' = [pc EXCEPT !["test"] = "tell"]
  /\ UNCHANGED <<view, gui, flagVars, config, model, test_state, scanVars, job,
                 worldVars>>

TestRelease ==
  /\ pc["test"] = "report"
  /\ Release
  /\ pc' = [pc EXCEPT !["test"] = "tell"]
  /\ UNCHANGED <<view, gui, flagVars, config, model, test_state, scanVars, job,
                 worldVars>>

ReportTest ==
  /\ pc["test"] = "tell"
  /\ test_state' = IF job["test"].typed THEN "Done" ELSE "Failed"
  /\ pc' = [pc EXCEPT !["test"] = "ended"]
  /\ job' = [job EXCEPT !["test"] = NoJob]
  /\ UNCHANGED <<view, gui, flagVars, config, model, scanVars, hidVars, held,
                 worldVars>>

TestWorker == Typing("test") \/ TestRelease \/ ReportTest
-----------------------------------------------------------------------------
(* The outside world.                                                      *)

\* A tag is put on the reader, taken off it or swapped for another.
MoveTag ==
  /\ field' \in (Tags \cup {NoTag}) \ {field}
  /\ UNCHANGED <<view, gui, pc, flagVars, config, model, test_state, scanVars,
                 job, hidVars, held, connected>>

\* The host enumerates the device, or goes away.
HostChanges ==
  /\ connected' = ~connected
  /\ UNCHANGED <<view, gui, pc, flagVars, config, model, test_state, scanVars,
                 job, hidVars, held, field>>
-----------------------------------------------------------------------------
Init ==
  /\ view = "closed" /\ gui = "idle"
  /\ pc = [t \in Threads |-> "none"]
  /\ worker_running = FALSE /\ type_requested = FALSE
  /\ config \in Configs
  /\ model = Blank /\ test_state = "Typing"
  /\ last_handled = NoId /\ last_unknown = NoTag
  /\ got = NoPoll /\ seen = NoPoll /\ alerted = FALSE
  /\ job = [t \in Threads |-> NoJob]
  /\ claimed = FALSE /\ previous = NoInterface
  /\ usb \in Interfaces /\ original = usb /\ refused = FALSE
  /\ held = FALSE
  /\ field = NoTag /\ connected = FALSE

App ==
  \/ Launch \/ Quit
  \/ OpenScan \/ PressOk \/ RequestTyping \/ LeaveScan \/ Joined("scan")
  \/ OpenTest \/ LeaveTest \/ Joined("test")
  \/ \E page \in {"settings", "about"} : OpenPage(page)
  \/ LeavePage \/ ChangeSetting

Next == App \/ ScanWorker \/ TestWorker \/ MoveTag \/ HostChanges

Spec == Init /\ [][Next]_vars

\* A thread that can go on does so in the end; nobody has to press a key, move a
\* tag or plug in a cable.
Fairness ==
  /\ WF_vars(ScanWorker) /\ WF_vars(TestWorker)
  /\ WF_vars(RequestTyping \/ Joined("scan") \/ Joined("test"))

FairSpec == Spec /\ Fairness
-----------------------------------------------------------------------------
(* What holds of the wedge.                                                *)

Jobs == [text: Texts, sent: 0..TextLen, waited: 0..WaitTicks,
         entered: BOOLEAN, typed: BOOLEAN]
Models == [state: {"Waiting", "Typed", "Holding", "UnknownTag", "NoHost"},
           id: Ids \cup {NoId}, ready: BOOLEAN]
Places == {"none", "top", "poll", "read", "handle", "copy", "wait", "keys",
           "report", "tell", "ended"}

\* Every variable has its type.
TypeOK ==
  /\ view \in {"closed", "menu", "settings", "about"} \cup Threads
  /\ gui \in {"idle", "ok", "join"}
  /\ pc \in [Threads -> Places]
  /\ worker_running \in BOOLEAN /\ type_requested \in BOOLEAN
  /\ config \in Configs
  /\ model \in Models /\ test_state \in {"Typing", "Done", "Failed"}
  /\ last_handled \in Ids \cup {NoId} /\ last_unknown \in Tags \cup {NoTag}
  /\ got \in Polls /\ seen \in Polls /\ alerted \in BOOLEAN
  /\ job \in [Threads -> Jobs]
  /\ claimed \in BOOLEAN
  /\ previous \in Interfaces \cup {NoInterface}
  /\ usb \in Interfaces \cup {NoInterface}
  /\ original \in Interfaces \cup {NoInterface}
  /\ refused \in BOOLEAN /\ held \in BOOLEAN
  /\ field \in Tags \cup {NoTag} /\ connected \in BOOLEAN

\* The interface is the keyboard's only while the scan or the self-test is open,
\* no key stays down without it, the self-test has given it back before its
\* screen tells the outcome, and whenever it is not claimed the device runs what
\* it ran when the application started (antlia_hid_claim, antlia_hid_release and
\* the enter and exit callbacks; unless a set_config that gives it back fails).
UsbRestored ==
  /\ claimed => usb = Hid /\ view \in Threads
  /\ held => claimed
  /\ view = "test" /\ test_state # "Typing" => ~claimed
  /\ ~claimed /\ ~refused => usb = original

\* Workers read the settings without a lock: none of them is alive when a
\* setting changes (output_changed and its siblings against type_current).
ConfigSettled ==
  [][config' # config => \A t \in Threads : pc[t] = "none"]_vars

\* What the scan worker types is the ID on the screen, in the form the settings
\* name, from the copy under the lock to the report (type_current).
TypesWhatIsShown ==
  pc["scan"] \in {"wait", "keys", "report"} =>
    job["scan"].text = [form |-> config.output, id |-> model.id]

\* antlia_hid_type sends keys only into the claimed interface, presses the
\* terminator only after the whole text, and is true only when the text and the
\* terminator the settings name have all been sent.
OutcomeHonest == \A t \in Threads :
  /\ pc[t] = "keys" => claimed
  /\ job[t].entered => job[t].sent = Length(job[t].text)
  /\ job[t].typed => /\ job[t].sent = Length(job[t].text)
                     /\ job[t].entered <=> config.terminator # NoTerminator

\* An OK is acted on only in the session, and after the tag, it was pressed for:
\* no request reaches a scan that has shown nothing yet (antlia_scan_enter_callback
\* clears type_requested before the worker starts).
RequestNeedsTag ==
  view = "scan" /\ (type_requested \/ gui = "ok" \/ pc["scan"] = "copy") =>
    model.state # "Waiting"

HandlesPoll == pc["scan"] = "handle" /\ pc'["scan"] # "handle"

\* A tag left on the reader is neither shown anew nor typed again: an ID that
\* the poll before yielded too changes nothing (last_handled).
SittingTagHandledOnce ==
  [][HandlesPoll /\ got.what \in Ids /\ got.what = seen.what =>
       model' = model /\ pc'["scan"] = "top"]_vars

\* A refused tag left on the reader sounds the alert once (last_unknown).
RefusalAlertedOnce ==
  [][HandlesPoll /\ got.what = Unreadable /\ got = seen => ~alerted']_vars

\* The host's view of all of it: module Typist.
Typist == INSTANCE Typist WITH
  lease <- claimed,
  phase <- IF \E t \in Threads : pc[t] = "keys" THEN "typing"
           ELSE IF \A t \in Threads : pc[t] \notin {"report", "tell"} THEN "idle"
           ELSE IF \E t \in Threads : job[t].entered \/ job[t].typed THEN "submitted"
           ELSE "failed",
  sent  <- IF job["scan"].sent > 0 THEN job["scan"].sent ELSE job["test"].sent
ImplementsTypist == Typist!Spec

\* Leaving the scan or the self-test ends: the worker the exit callback joins
\* always comes to its end, whatever the tag and the host do.
LeavingEnds == gui = "join" ~> gui = "idle"

\* An OK the worker was asked to act on is taken up while the scan stays open.
RequestServed == type_requested ~> (~type_requested \/ view # "scan")

\* A tag that reads well is dealt with if it stays on the reader.
TagDealtWith == \A t \in Tags : Reading[t] \subseteq Ids =>
  (field = t /\ view = "scan")
    ~> (last_handled \in Reading[t] \/ field # t \/ view # "scan")

\* The self-test gives the interface back without anyone pressing Back.
TestLetsGo == (view = "test" /\ claimed) ~> ~claimed

\* README.md: a misread tag types nothing at all.
RefusedTagTypesNothing == job["scan"].entered => job["scan"].text.id # NoId

\* README.md: re-tapping the same tag types it again.  A tag the poll before did
\* not see has been put on the reader since, so its ID is new (where no two tags
\* carry the same one).
RetapIsNew ==
  [][HandlesPoll /\ got.what \in Ids /\ got.tag # seen.tag =>
       model'.state = "Holding" /\ model'.id = got.what]_vars
=============================================================================
