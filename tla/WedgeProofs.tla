---------------------------- MODULE WedgeProofs ----------------------------
(***************************************************************************)
(* Proofs about module Wedge, for every set of tags, IDs, interfaces and   *)
(* settings and every length of text.                                      *)
(***************************************************************************)
EXTENDS Wedge, TLAPS

\* The values a record starts from are of its type.
LEMMA InitialValues ==
  /\ Blank \in Models /\ NoPoll \in Polls /\ TestText \in Texts
  /\ \A text \in Texts : Job(text) \in Jobs
BY LengthAssumption
DEF Blank, Models, NoPoll, Polls, TestText, Texts, Job, Jobs

\* A text is as long as the longest or empty.
LEMMA LengthInRange == \A text : Length(text) \in 0..TextLen
BY LengthAssumption DEF Length

\* What the poller returns is a poll.
LEMMA PolledIsPoll ==
  ASSUME NEW tag \in Tags \cup {NoTag}
  PROVE  Polled(tag) \subseteq Polls
BY ReadingAssumption, InitialValues DEF Polled, Polls

\* The keyboard's flag on the screen is a flag.
LEMMA ReadyIsBoolean == hid_ready \in BOOLEAN
BY DEF hid_ready

\* Releasing the interface leaves every variable of the lease its type.
LEMMA ReleaseTypes ==
  ASSUME TypeOK, Release
  PROVE  /\ claimed' \in BOOLEAN /\ held' \in BOOLEAN /\ refused' \in BOOLEAN
         /\ previous' \in Interfaces \cup {NoInterface}
         /\ usb' \in Interfaces \cup {NoInterface}
         /\ original' \in Interfaces \cup {NoInterface}
<1>1. CASE claimed
  <2>1. /\ claimed' = FALSE /\ held' = FALSE
        /\ previous' = NoInterface /\ original' = original
    BY <1>1 DEF Release
  <2>2. CASE usb' = previous /\ UNCHANGED refused
    BY <2>1, <2>2 DEF TypeOK
  <2>3. CASE usb' = usb /\ refused' = TRUE
    BY <2>1, <2>3 DEF TypeOK
  <2>4. QED
    BY <1>1, <2>2, <2>3 DEF Release
<1>2. CASE ~claimed
  BY <1>2 DEF TypeOK, Release, hidVars
<1>3. QED
  BY <1>1, <1>2

\* Every variable keeps its type, whatever the threads and the world do.
THEOREM TypeCorrect == Spec => []TypeOK
<1>1. Init => TypeOK
  BY InitialValues, InterfaceAssumption
  DEF Init, TypeOK, Threads, Places, NoJob
<1>2. TypeOK /\ [Next]_vars => TypeOK'
  <2> SUFFICES ASSUME TypeOK, [Next]_vars
               PROVE  TypeOK'
    OBVIOUS
  <2> USE DEF TypeOK, Threads, Places, flagVars, scanVars, hidVars, worldVars
  <2>1. CASE Launch
    BY <2>1, InitialValues DEF Launch
  <2>2. CASE Quit
    BY <2>2, ReleaseTypes DEF Quit
  <2>3. CASE OpenScan
    BY <2>3, InitialValues, InterfaceAssumption DEF OpenScan, Claim, NoScanLocals
  <2>4. CASE PressOk
    BY <2>4 DEF PressOk
  <2>5. CASE RequestTyping
    BY <2>5 DEF RequestTyping
  <2>6. CASE LeaveScan
    <3>1. worker_running' \in BOOLEAN /\ gui' \in {"idle", "ok", "join"}
      BY <2>6 DEF LeaveScan
    <3>2. QED
      BY <2>6, <3>1 DEF LeaveScan
  <2>7. ASSUME NEW t \in Threads, Joined(t) PROVE TypeOK'
    <3>1. pc' \in [Threads -> Places]
      BY <2>7 DEF Joined
    <3>2. QED
      BY <3>1, <2>7, ReleaseTypes, InitialValues DEF Joined, NoScanLocals
  <2>8. CASE OpenTest
    <3>1. /\ claimed' \in BOOLEAN /\ previous' \in Interfaces \cup {NoInterface}
          /\ usb' \in Interfaces \cup {NoInterface}
      BY <2>8, InterfaceAssumption DEF OpenTest, Claim
    <3>2. pc' \in [Threads -> Places] /\ job' \in [Threads -> Jobs]
      BY <2>8, InitialValues DEF OpenTest
    <3>3. QED
      BY <2>8, <3>1, <3>2 DEF OpenTest, Claim
  <2>9. CASE LeaveTest
    BY <2>9 DEF LeaveTest
  <2>10. ASSUME NEW page \in {"settings", "about"}, OpenPage(page) PROVE TypeOK'
    BY <2>10 DEF OpenPage
  <2>11. CASE LeavePage
    BY <2>11 DEF LeavePage
  <2>12. CASE ChangeSetting
    BY <2>12 DEF ChangeSetting, Configs
  <2>13. ASSUME NEW t \in Threads, WaitForHost(t) PROVE TypeOK'
    <3>1. job[t] \in Jobs
      OBVIOUS
    <3>2. CASE ~claimed
      <4>1. [job[t] EXCEPT !.typed = FALSE] \in Jobs
        BY <3>1 DEF Jobs
      <4>2. job' \in [Threads -> Jobs] /\ pc' \in [Threads -> Places]
        <5>1. job' = [job EXCEPT ![t].typed = FALSE] /\ pc' = [pc EXCEPT ![t] = "report"]
          BY <2>13, <3>2 DEF WaitForHost, Return
        <5>2. job' \in [Threads -> Jobs]
          BY <4>1, <5>1
        <5>3. QED
          BY <5>1, <5>2
      <4>3. QED
        BY <2>13, <4>2 DEF WaitForHost
    <3>3. CASE claimed /\ (connected \/ job[t].waited >= WaitTicks)
      BY <2>13, <3>3 DEF WaitForHost
    <3>4. CASE claimed /\ ~(connected \/ job[t].waited >= WaitTicks)
      <4>1. [job[t] EXCEPT !.waited = @ + 1] \in Jobs
        BY <3>1, <3>4, LengthAssumption DEF Jobs
      <4>2. QED
        BY <2>13, <3>4, <4>1 DEF WaitForHost
    <3>5. QED
      BY <3>2, <3>3, <3>4
  <2>14. ASSUME NEW t \in Threads, TypeKey(t) PROVE TypeOK'
    <3>1. job[t] \in Jobs /\ job[t].sent < TextLen
      BY <2>14, LengthInRange, LengthAssumption DEF TypeKey, Jobs
    <3>2. job'[t] \in Jobs
      <4>1. job[t].sent + 1 \in 0..TextLen
        BY <3>1, LengthAssumption DEF Jobs
      <4>2. [job[t] EXCEPT !.sent = @ + 1] \in Jobs
        BY <3>1, <4>1 DEF Jobs
      <4>3. [job[t] EXCEPT !.typed = FALSE] \in Jobs
        BY <3>1 DEF Jobs
      <4>4. [job[t] EXCEPT !.sent = @ + 1, !.typed = FALSE] \in Jobs
        BY <3>1, <4>1 DEF Jobs
      <4>5. QED
        BY <2>14, <4>2, <4>3, <4>4 DEF TypeKey, Return
    <3>3. /\ job' = [job EXCEPT ![t] = job'[t]]
          /\ pc' = pc \/ pc' = [pc EXCEPT ![t] = "report"]
          /\ held' = held \/ held' = FALSE
      <4>1. job \in [Threads -> Jobs]
        OBVIOUS
      <4>2. QED
        BY ONLY <2>14, <4>1 DEF TypeKey, Return
    <3>4. pc' \in [Threads -> Places] /\ held' \in BOOLEAN
      <4>1. CASE pc' = pc
        BY <3>3, <4>1
      <4>2. CASE pc' = [pc EXCEPT ![t] = "report"]
        BY <3>3, <4>2
      <4>3. QED
        BY <3>3, <4>1, <4>2
    <3>5. QED
      BY <2>14, <3>2, <3>3, <3>4 DEF TypeKey
  <2>15. ASSUME NEW t \in Threads, TypeTerminator(t) PROVE TypeOK'
    <3>1. PICK pressed, released \in BOOLEAN :
            /\ job' = [job EXCEPT ![t].entered = pressed, ![t].typed = released]
            /\ held' = IF pressed THEN ~released ELSE held
      BY <2>15 DEF TypeTerminator
    <3>2. [job[t] EXCEPT !.entered = pressed, !.typed = released] \in Jobs
      BY DEF Jobs
    <3>3. job' \in [Threads -> Jobs]
      BY <3>1, <3>2
    <3>4. held' \in BOOLEAN
      BY <3>1
    <3>5. QED
      BY <2>15, <3>3, <3>4 DEF TypeTerminator
  <2>16. CASE CheckRunning
    BY <2>16 DEF CheckRunning
  <2>17. CASE TakeRequest
    <3>1. pc' \in [Threads -> Places] /\ type_requested' \in BOOLEAN
      BY <2>17 DEF TakeRequest
    <3>2. QED
      BY <3>1, <2>17 DEF TakeRequest
  <2>18. CASE StartPoll
    BY <2>18 DEF StartPoll
  <2>19. CASE EndPoll
    BY <2>19, PolledIsPoll DEF EndPoll, Polled
  <2>20. CASE ReadFailed
    <3>1. model' \in Models
      BY <2>20, ReadyIsBoolean DEF ReadFailed, Models
    <3>2. /\ pc' \in [Threads -> Places] /\ alerted' \in BOOLEAN
          /\ got' \in Polls /\ seen' \in Polls
      BY <2>20, InitialValues DEF ReadFailed, DealtWith
    <3>3. QED
      BY <2>20, <3>1, <3>2 DEF ReadFailed, DealtWith
  <2>21. CASE UnknownTag
    <3>1. model' \in Models
      BY <2>21 DEF UnknownTag, Models
    <3>2. last_unknown' \in Tags \cup {NoTag} /\ alerted' \in BOOLEAN
      BY <2>21 DEF UnknownTag, Polls
    <3>3. QED
      BY <2>21, <3>1, <3>2, InitialValues DEF UnknownTag, DealtWith
  <2>22. CASE SameTag
    <3>1. last_unknown' \in Tags \cup {NoTag}
      BY <2>22 DEF SameTag, Polls
    <3>2. /\ pc' \in [Threads -> Places] /\ alerted' \in BOOLEAN
          /\ got' \in Polls /\ seen' \in Polls
      BY <2>22, InitialValues DEF SameTag, DealtWith
    <3>3. QED
      BY <2>22, <3>1, <3>2 DEF SameTag, DealtWith
  <2>23. CASE NewTag
    <3>1. model' \in Models
      BY <2>23, ReadyIsBoolean DEF NewTag, Models
    <3>2. /\ pc' \in [Threads -> Places] /\ alerted' \in BOOLEAN
          /\ got' \in Polls /\ seen' \in Polls
      BY <2>23, InitialValues DEF NewTag, DealtWith
    <3>3. QED
      BY <2>23, <3>1, <3>2 DEF NewTag, DealtWith
  <2>24. CASE CopyText
    BY <2>24, InitialValues DEF CopyText, Texts, Configs, Models
  <2>25. CASE ReportTyped
    <3>1. model' \in Models
      BY <2>25, ReadyIsBoolean DEF ReportTyped, Models
    <3>2. job' \in [Threads -> Jobs]
      BY <2>25, InitialValues DEF ReportTyped, NoJob
    <3>3. QED
      BY <2>25, <3>1, <3>2 DEF ReportTyped
  <2>26. CASE TestRelease
    <3>1. pc' \in [Threads -> Places]
      BY <2>26 DEF TestRelease
    <3>2. QED
      BY <3>1, <2>26, ReleaseTypes DEF TestRelease
  <2>27. CASE ReportTest
    BY <2>27, InitialValues DEF ReportTest, NoJob
  <2>28. CASE MoveTag
    BY <2>28 DEF MoveTag
  <2>29. CASE HostChanges
    BY <2>29 DEF HostChanges
  <2>30. CASE UNCHANGED vars
    BY <2>30 DEF vars
  <2>31. QED
    BY <2>1, <2>2, <2>3, <2>4, <2>5, <2>6, <2>7, <2>8, <2>9, <2>10,
       <2>11, <2>12, <2>13, <2>14, <2>15, <2>16, <2>17, <2>18, <2>19,
       <2>20, <2>21, <2>22, <2>23, <2>24, <2>25, <2>26, <2>27, <2>28,
       <2>29, <2>30
    DEF Next, App, ScanWorker, TestWorker, Typing, Threads
<1>3. QED
  BY <1>1, <1>2, PTL DEF Spec

(***************************************************************************)
(* The invariants are not inductive as they stand.  What carries them is   *)
(* that a worker exists only inside its own view, since the exit callback  *)
(* joins it before the view is left, and the places the two workers' steps *)
(* have reached.                                                           *)
(***************************************************************************)
WorkersInTheirViews == \A t \in Threads : pc[t] # "none" => view = t

LeaseInv ==
  /\ claimed => usb = Hid /\ view \in Threads
  /\ claimed /\ ~refused => previous = original
  /\ ~claimed /\ ~refused => usb = original
  /\ held => claimed
  /\ \A t \in Threads : pc[t] = "keys" => claimed
  /\ pc["test"] \in {"tell", "ended"} => ~claimed
  /\ view = "test" /\ test_state # "Typing" => ~claimed

JobInv == \A t \in Threads :
  /\ pc[t] \notin {"wait", "keys", "report", "tell"} => job[t] = NoJob
  /\ pc[t] \in {"wait", "keys"} => ~job[t].entered /\ ~job[t].typed
  /\ pc[t] = "wait" => job[t].sent = 0
  /\ job[t].entered => job[t].sent = Length(job[t].text)
  /\ job[t].typed => /\ job[t].sent = Length(job[t].text)
                     /\ job[t].entered <=> config.terminator # NoTerminator

RequestInv ==
  /\ gui = "ok" => view = "scan"
  /\ gui = "join" => view \in Threads
  /\ RequestNeedsTag

PollInv ==
  /\ seen.what \in Ids => last_handled = seen.what
  /\ seen.what = Unreadable => last_unknown = seen.tag

\* The enter and exit callbacks keep every worker inside its own view.
THEOREM ViewsOwnWorkers == Spec => []WorkersInTheirViews
<1>1. Init => WorkersInTheirViews
  BY DEF Init, WorkersInTheirViews, Threads
<1>2. WorkersInTheirViews /\ TypeOK /\ [Next]_vars => WorkersInTheirViews'
  <2> SUFFICES ASSUME WorkersInTheirViews, TypeOK, [Next]_vars
               PROVE  WorkersInTheirViews'
    OBVIOUS
  <2> USE DEF WorkersInTheirViews, TypeOK, Threads, flagVars
  <2>1. CASE Launch
    BY <2>1 DEF Launch
  <2>2. CASE Quit
    BY <2>2 DEF Quit, Release
  <2>3. CASE OpenScan
    BY <2>3 DEF OpenScan, Claim, NoScanLocals
  <2>4. CASE PressOk
    BY <2>4 DEF PressOk
  <2>5. CASE RequestTyping
    BY <2>5 DEF RequestTyping
  <2>6. CASE LeaveScan
    BY <2>6 DEF LeaveScan
  <2>7. ASSUME NEW t \in Threads, Joined(t) PROVE WorkersInTheirViews'
    BY <2>7 DEF Joined, Release, NoScanLocals
  <2>8. CASE OpenTest
    BY <2>8 DEF OpenTest, Claim
  <2>9. CASE LeaveTest
    BY <2>9 DEF LeaveTest
  <2>10. ASSUME NEW page \in {"settings", "about"}, OpenPage(page) PROVE WorkersInTheirViews'
    BY <2>10 DEF OpenPage
  <2>11. CASE LeavePage
    BY <2>11 DEF LeavePage
  <2>12. CASE ChangeSetting
    BY <2>12 DEF ChangeSetting
  <2>13. ASSUME NEW t \in Threads, WaitForHost(t) PROVE WorkersInTheirViews'
    BY <2>13 DEF WaitForHost, Return
  <2>14. ASSUME NEW t \in Threads, TypeKey(t) PROVE WorkersInTheirViews'
    BY <2>14 DEF TypeKey, Return
  <2>15. ASSUME NEW t \in Threads, TypeTerminator(t) PROVE WorkersInTheirViews'
    BY <2>15 DEF TypeTerminator
  <2>16. CASE CheckRunning
    BY <2>16 DEF CheckRunning
  <2>17. CASE TakeRequest
    BY <2>17 DEF TakeRequest
  <2>18. CASE StartPoll
    BY <2>18 DEF StartPoll
  <2>19. CASE EndPoll
    BY <2>19 DEF EndPoll, Polled
  <2>20. CASE ReadFailed
    BY <2>20 DEF ReadFailed, DealtWith
  <2>21. CASE UnknownTag
    BY <2>21 DEF UnknownTag, DealtWith
  <2>22. CASE SameTag
    BY <2>22 DEF SameTag, DealtWith
  <2>23. CASE NewTag
    BY <2>23 DEF NewTag, DealtWith
  <2>24. CASE CopyText
    BY <2>24 DEF CopyText
  <2>25. CASE ReportTyped
    BY <2>25 DEF ReportTyped
  <2>26. CASE TestRelease
    BY <2>26 DEF TestRelease, Release
  <2>27. CASE ReportTest
    BY <2>27 DEF ReportTest
  <2>28. CASE MoveTag
    BY <2>28 DEF MoveTag
  <2>29. CASE HostChanges
    BY <2>29 DEF HostChanges
  <2>30. CASE UNCHANGED vars
    BY <2>30 DEF vars
  <2>31. QED
    BY <2>1, <2>2, <2>3, <2>4, <2>5, <2>6, <2>7, <2>8, <2>9, <2>10,
       <2>11, <2>12, <2>13, <2>14, <2>15, <2>16, <2>17, <2>18, <2>19,
       <2>20, <2>21, <2>22, <2>23, <2>24, <2>25, <2>26, <2>27, <2>28,
       <2>29, <2>30
    DEF Next, App, ScanWorker, TestWorker, Typing, Threads
<1>3. QED
  BY <1>1, <1>2, TypeCorrect, PTL DEF Spec

\* The lease is what its two fields say.
LEMMA LeaseInvariant == Spec => []LeaseInv
<1>1. Init => LeaseInv
  BY DEF Init, LeaseInv, Threads
<1>2. LeaseInv /\ TypeOK /\ WorkersInTheirViews /\ [Next]_vars => LeaseInv'
  <2> SUFFICES ASSUME LeaseInv, TypeOK, WorkersInTheirViews, [Next]_vars
               PROVE  LeaseInv'
    OBVIOUS
  <2> USE DEF LeaseInv, WorkersInTheirViews, TypeOK, Threads, flagVars, hidVars
  <2>1. CASE Launch
    BY <2>1 DEF Launch
  <2>2. CASE Quit
    BY <2>2 DEF Quit, Release
  <2>3. CASE OpenScan
    BY <2>3 DEF OpenScan, Claim, NoScanLocals
  <2>4. CASE PressOk
    BY <2>4 DEF PressOk
  <2>5. CASE RequestTyping
    BY <2>5 DEF RequestTyping
  <2>6. CASE LeaveScan
    BY <2>6 DEF LeaveScan
  <2>7. ASSUME NEW t \in Threads, Joined(t) PROVE LeaseInv'
    BY <2>7 DEF Joined, Release, NoScanLocals
  <2>8. CASE OpenTest
    BY <2>8 DEF OpenTest, Claim
  <2>9. CASE LeaveTest
    BY <2>9 DEF LeaveTest
  <2>10. ASSUME NEW page \in {"settings", "about"}, OpenPage(page) PROVE LeaseInv'
    BY <2>10 DEF OpenPage
  <2>11. CASE LeavePage
    BY <2>11 DEF LeavePage
  <2>12. CASE ChangeSetting
    BY <2>12 DEF ChangeSetting
  <2>13. ASSUME NEW t \in Threads, WaitForHost(t) PROVE LeaseInv'
    BY <2>13 DEF WaitForHost, Return
  <2>14. ASSUME NEW t \in Threads, TypeKey(t) PROVE LeaseInv'
    BY <2>14 DEF TypeKey, Return
  <2>15. ASSUME NEW t \in Threads, TypeTerminator(t) PROVE LeaseInv'
    BY <2>15 DEF TypeTerminator
  <2>16. CASE CheckRunning
    BY <2>16 DEF CheckRunning
  <2>17. CASE TakeRequest
    BY <2>17 DEF TakeRequest
  <2>18. CASE StartPoll
    BY <2>18 DEF StartPoll
  <2>19. CASE EndPoll
    BY <2>19 DEF EndPoll, Polled
  <2>20. CASE ReadFailed
    BY <2>20 DEF ReadFailed, DealtWith
  <2>21. CASE UnknownTag
    BY <2>21 DEF UnknownTag, DealtWith
  <2>22. CASE SameTag
    BY <2>22 DEF SameTag, DealtWith
  <2>23. CASE NewTag
    BY <2>23 DEF NewTag, DealtWith
  <2>24. CASE CopyText
    BY <2>24 DEF CopyText
  <2>25. CASE ReportTyped
    BY <2>25 DEF ReportTyped
  <2>26. CASE TestRelease
    BY <2>26 DEF TestRelease, Release
  <2>27. CASE ReportTest
    BY <2>27 DEF ReportTest
  <2>28. CASE MoveTag
    BY <2>28 DEF MoveTag
  <2>29. CASE HostChanges
    BY <2>29 DEF HostChanges
  <2>30. CASE UNCHANGED vars
    BY <2>30 DEF vars
  <2>31. QED
    BY <2>1, <2>2, <2>3, <2>4, <2>5, <2>6, <2>7, <2>8, <2>9, <2>10,
       <2>11, <2>12, <2>13, <2>14, <2>15, <2>16, <2>17, <2>18, <2>19,
       <2>20, <2>21, <2>22, <2>23, <2>24, <2>25, <2>26, <2>27, <2>28,
       <2>29, <2>30
    DEF Next, App, ScanWorker, TestWorker, Typing, Threads
<1>3. QED
  BY <1>1, <1>2, TypeCorrect, ViewsOwnWorkers, PTL DEF Spec

\* What a call of antlia_hid_type has done is what its place in it says.
LEMMA JobInvariant == Spec => []JobInv
<1>1. Init => JobInv
  BY LengthAssumption DEF Init, JobInv, Threads, NoJob, Job, TestText, Length
<1>2. JobInv /\ TypeOK /\ WorkersInTheirViews /\ [Next]_vars => JobInv'
  <2> SUFFICES ASSUME JobInv, TypeOK, WorkersInTheirViews, [Next]_vars
               PROVE  JobInv'
    OBVIOUS
  <2> USE DEF JobInv, WorkersInTheirViews, TypeOK, Threads, flagVars
  <2>1. CASE Launch
    <3>1. \A u \in Threads : job[u] = NoJob
      BY <2>1 DEF Launch
    <3>2. ~NoJob.entered /\ ~NoJob.typed
      BY DEF NoJob, Job
    <3>3. QED
      BY <2>1, <3>1, <3>2 DEF Launch
  <2>2. CASE Quit
    BY <2>2 DEF Quit, Release
  <2>3. CASE OpenScan
    BY <2>3 DEF OpenScan, Claim, NoScanLocals
  <2>4. CASE PressOk
    BY <2>4 DEF PressOk
  <2>5. CASE RequestTyping
    BY <2>5 DEF RequestTyping
  <2>6. CASE LeaveScan
    BY <2>6 DEF LeaveScan
  <2>7. ASSUME NEW t \in Threads, Joined(t) PROVE JobInv'
    BY <2>7 DEF Joined, Release, NoScanLocals
  <2>8. CASE OpenTest
    BY <2>8 DEF OpenTest, Claim, Job
  <2>9. CASE LeaveTest
    BY <2>9 DEF LeaveTest
  <2>10. ASSUME NEW page \in {"settings", "about"}, OpenPage(page) PROVE JobInv'
    BY <2>10 DEF OpenPage
  <2>11. CASE LeavePage
    BY <2>11 DEF LeavePage
  <2>12. CASE ChangeSetting
    <3>1. \A u \in Threads : job[u] = NoJob
      BY <2>12 DEF ChangeSetting
    <3>2. ~NoJob.entered /\ ~NoJob.typed
      BY DEF NoJob, Job
    <3>3. QED
      BY <2>12, <3>1, <3>2 DEF ChangeSetting
  <2>13. ASSUME NEW t \in Threads, WaitForHost(t) PROVE JobInv'
    <3>1. CASE ~claimed
      <4>1. ~job[t].entered /\ ~job[t].typed
        BY <2>13 DEF WaitForHost
      <4>2. QED
        BY <2>13, <3>1, <4>1 DEF WaitForHost, Return, Jobs
    <3>2. CASE claimed /\ (connected \/ job[t].waited >= WaitTicks)
      BY <2>13, <3>2 DEF WaitForHost
    <3>3. CASE claimed /\ ~(connected \/ job[t].waited >= WaitTicks)
      BY <2>13, <3>3 DEF WaitForHost, Jobs
    <3>4. QED
      BY <3>1, <3>2, <3>3
  <2>14. ASSUME NEW t \in Threads, TypeKey(t) PROVE JobInv'
    <3>1. ~job[t].entered /\ ~job[t].typed
      BY <2>14 DEF TypeKey
    <3>2. CASE job' = [job EXCEPT ![t].sent = @ + 1] /\ UNCHANGED <<pc, held>>
      BY <2>14, <3>1, <3>2 DEF TypeKey, Jobs
    <3>3. CASE Return(t, FALSE)
      BY <2>14, <3>1, <3>3 DEF TypeKey, Return, Jobs
    <3>4. CASE /\ pc' = [pc EXCEPT ![t] = "report"]
               /\ job' = [job EXCEPT ![t].sent = @ + 1, ![t].typed = FALSE]
      BY <2>14, <3>1, <3>4 DEF TypeKey, Jobs
    <3>5. QED
      BY <2>14, <3>2, <3>3, <3>4 DEF TypeKey
  <2>15. ASSUME NEW t \in Threads, TypeTerminator(t) PROVE JobInv'
    BY <2>15 DEF TypeTerminator
  <2>16. CASE CheckRunning
    BY <2>16 DEF CheckRunning
  <2>17. CASE TakeRequest
    BY <2>17 DEF TakeRequest
  <2>18. CASE StartPoll
    BY <2>18 DEF StartPoll
  <2>19. CASE EndPoll
    BY <2>19 DEF EndPoll, Polled
  <2>20. CASE ReadFailed
    BY <2>20 DEF ReadFailed, DealtWith
  <2>21. CASE UnknownTag
    BY <2>21 DEF UnknownTag, DealtWith
  <2>22. CASE SameTag
    BY <2>22 DEF SameTag, DealtWith
  <2>23. CASE NewTag
    BY <2>23 DEF NewTag, DealtWith
  <2>24. CASE CopyText
    BY <2>24 DEF CopyText, Job
  <2>25. CASE ReportTyped
    BY <2>25 DEF ReportTyped
  <2>26. CASE TestRelease
    BY <2>26 DEF TestRelease, Release
  <2>27. CASE ReportTest
    BY <2>27 DEF ReportTest
  <2>28. CASE MoveTag
    BY <2>28 DEF MoveTag
  <2>29. CASE HostChanges
    BY <2>29 DEF HostChanges
  <2>30. CASE UNCHANGED vars
    BY <2>30 DEF vars
  <2>31. QED
    BY <2>1, <2>2, <2>3, <2>4, <2>5, <2>6, <2>7, <2>8, <2>9, <2>10,
       <2>11, <2>12, <2>13, <2>14, <2>15, <2>16, <2>17, <2>18, <2>19,
       <2>20, <2>21, <2>22, <2>23, <2>24, <2>25, <2>26, <2>27, <2>28,
       <2>29, <2>30
    DEF Next, App, ScanWorker, TestWorker, Typing, Threads
<1>3. QED
  BY <1>1, <1>2, TypeCorrect, ViewsOwnWorkers, PTL DEF Spec

\* What is typed is what the screen shows, for every setting and every tag.
THEOREM TypingIsOfTheScreen == Spec => []TypesWhatIsShown
<1>1. Init => TypesWhatIsShown
  BY DEF Init, TypesWhatIsShown, Threads
<1>2. TypesWhatIsShown /\ TypeOK /\ WorkersInTheirViews /\ [Next]_vars => TypesWhatIsShown'
  <2> SUFFICES ASSUME TypesWhatIsShown, TypeOK, WorkersInTheirViews, [Next]_vars
               PROVE  TypesWhatIsShown'
    OBVIOUS
  <2> USE DEF TypesWhatIsShown, WorkersInTheirViews, TypeOK, Threads, flagVars
  <2>1. CASE Launch
    BY <2>1 DEF Launch
  <2>2. CASE Quit
    BY <2>2 DEF Quit, Release
  <2>3. CASE OpenScan
    BY <2>3 DEF OpenScan, Claim, NoScanLocals
  <2>4. CASE PressOk
    BY <2>4 DEF PressOk
  <2>5. CASE RequestTyping
    BY <2>5 DEF RequestTyping
  <2>6. CASE LeaveScan
    BY <2>6 DEF LeaveScan
  <2>7. ASSUME NEW t \in Threads, Joined(t) PROVE TypesWhatIsShown'
    BY <2>7 DEF Joined, Release, NoScanLocals
  <2>8. CASE OpenTest
    BY <2>8 DEF OpenTest, Claim
  <2>9. CASE LeaveTest
    BY <2>9 DEF LeaveTest
  <2>10. ASSUME NEW page \in {"settings", "about"}, OpenPage(page) PROVE TypesWhatIsShown'
    BY <2>10 DEF OpenPage
  <2>11. CASE LeavePage
    BY <2>11 DEF LeavePage
  <2>12. CASE ChangeSetting
    BY <2>12 DEF ChangeSetting
  <2>13. ASSUME NEW t \in Threads, WaitForHost(t) PROVE TypesWhatIsShown'
    <3>1. job'["scan"].text = job["scan"].text
      BY <2>13 DEF WaitForHost, Return, Jobs
    <3>2. pc'["scan"] \in {"wait", "keys", "report"} =>
            pc["scan"] \in {"wait", "keys", "report"}
      BY <2>13 DEF WaitForHost, Return
    <3>3. QED
      BY <2>13, <3>1, <3>2 DEF WaitForHost
  <2>14. ASSUME NEW t \in Threads, TypeKey(t) PROVE TypesWhatIsShown'
    <3>1. job'["scan"].text = job["scan"].text
      BY <2>14 DEF TypeKey, Return, Jobs
    <3>2. pc'["scan"] \in {"wait", "keys", "report"} =>
            pc["scan"] \in {"wait", "keys", "report"}
      BY <2>14 DEF TypeKey, Return
    <3>3. QED
      BY <2>14, <3>1, <3>2 DEF TypeKey
  <2>15. ASSUME NEW t \in Threads, TypeTerminator(t) PROVE TypesWhatIsShown'
    BY <2>15 DEF TypeTerminator
  <2>16. CASE CheckRunning
    BY <2>16 DEF CheckRunning
  <2>17. CASE TakeRequest
    BY <2>17 DEF TakeRequest
  <2>18. CASE StartPoll
    BY <2>18 DEF StartPoll
  <2>19. CASE EndPoll
    BY <2>19 DEF EndPoll, Polled
  <2>20. CASE ReadFailed
    BY <2>20 DEF ReadFailed, DealtWith
  <2>21. CASE UnknownTag
    BY <2>21 DEF UnknownTag, DealtWith
  <2>22. CASE SameTag
    BY <2>22 DEF SameTag, DealtWith
  <2>23. CASE NewTag
    BY <2>23 DEF NewTag, DealtWith
  <2>24. CASE CopyText
    BY <2>24 DEF CopyText, Job
  <2>25. CASE ReportTyped
    BY <2>25 DEF ReportTyped
  <2>26. CASE TestRelease
    BY <2>26 DEF TestRelease, Release
  <2>27. CASE ReportTest
    BY <2>27 DEF ReportTest
  <2>28. CASE MoveTag
    BY <2>28 DEF MoveTag
  <2>29. CASE HostChanges
    BY <2>29 DEF HostChanges
  <2>30. CASE UNCHANGED vars
    BY <2>30 DEF vars
  <2>31. QED
    BY <2>1, <2>2, <2>3, <2>4, <2>5, <2>6, <2>7, <2>8, <2>9, <2>10,
       <2>11, <2>12, <2>13, <2>14, <2>15, <2>16, <2>17, <2>18, <2>19,
       <2>20, <2>21, <2>22, <2>23, <2>24, <2>25, <2>26, <2>27, <2>28,
       <2>29, <2>30
    DEF Next, App, ScanWorker, TestWorker, Typing, Threads
<1>3. QED
  BY <1>1, <1>2, TypeCorrect, ViewsOwnWorkers, PTL DEF Spec

\* An OK belongs to the scan it was pressed in.
LEMMA RequestInvariant == Spec => []RequestInv
<1>1. Init => RequestInv
  BY DEF Init, RequestInv, RequestNeedsTag, Threads
<1>2. RequestInv /\ TypeOK /\ WorkersInTheirViews /\ [Next]_vars => RequestInv'
  <2> SUFFICES ASSUME RequestInv, TypeOK, WorkersInTheirViews, [Next]_vars
               PROVE  RequestInv'
    OBVIOUS
  <2> USE DEF RequestInv, RequestNeedsTag, WorkersInTheirViews, TypeOK, Threads, Models, flagVars
  <2>1. CASE Launch
    BY <2>1 DEF Launch
  <2>2. CASE Quit
    BY <2>2 DEF Quit, Release
  <2>3. CASE OpenScan
    BY <2>3 DEF OpenScan, Claim, NoScanLocals
  <2>4. CASE PressOk
    BY <2>4 DEF PressOk
  <2>5. CASE RequestTyping
    BY <2>5 DEF RequestTyping
  <2>6. CASE LeaveScan
    BY <2>6 DEF LeaveScan
  <2>7. ASSUME NEW t \in Threads, Joined(t) PROVE RequestInv'
    BY <2>7 DEF Joined, Release, NoScanLocals
  <2>8. CASE OpenTest
    BY <2>8 DEF OpenTest, Claim
  <2>9. CASE LeaveTest
    BY <2>9 DEF LeaveTest
  <2>10. ASSUME NEW page \in {"settings", "about"}, OpenPage(page) PROVE RequestInv'
    BY <2>10 DEF OpenPage
  <2>11. CASE LeavePage
    BY <2>11 DEF LeavePage
  <2>12. CASE ChangeSetting
    BY <2>12 DEF ChangeSetting
  <2>13. ASSUME NEW t \in Threads, WaitForHost(t) PROVE RequestInv'
    BY <2>13 DEF WaitForHost, Return
  <2>14. ASSUME NEW t \in Threads, TypeKey(t) PROVE RequestInv'
    BY <2>14 DEF TypeKey, Return
  <2>15. ASSUME NEW t \in Threads, TypeTerminator(t) PROVE RequestInv'
    BY <2>15 DEF TypeTerminator
  <2>16. CASE CheckRunning
    BY <2>16 DEF CheckRunning
  <2>17. CASE TakeRequest
    BY <2>17 DEF TakeRequest
  <2>18. CASE StartPoll
    BY <2>18 DEF StartPoll
  <2>19. CASE EndPoll
    BY <2>19 DEF EndPoll, Polled
  <2>20. CASE ReadFailed
    BY <2>20 DEF ReadFailed, DealtWith
  <2>21. CASE UnknownTag
    BY <2>21 DEF UnknownTag, DealtWith
  <2>22. CASE SameTag
    BY <2>22 DEF SameTag, DealtWith
  <2>23. CASE NewTag
    BY <2>23 DEF NewTag, DealtWith
  <2>24. CASE CopyText
    BY <2>24 DEF CopyText
  <2>25. CASE ReportTyped
    BY <2>25 DEF ReportTyped
  <2>26. CASE TestRelease
    BY <2>26 DEF TestRelease, Release
  <2>27. CASE ReportTest
    BY <2>27 DEF ReportTest
  <2>28. CASE MoveTag
    BY <2>28 DEF MoveTag
  <2>29. CASE HostChanges
    BY <2>29 DEF HostChanges
  <2>30. CASE UNCHANGED vars
    BY <2>30 DEF vars
  <2>31. QED
    BY <2>1, <2>2, <2>3, <2>4, <2>5, <2>6, <2>7, <2>8, <2>9, <2>10,
       <2>11, <2>12, <2>13, <2>14, <2>15, <2>16, <2>17, <2>18, <2>19,
       <2>20, <2>21, <2>22, <2>23, <2>24, <2>25, <2>26, <2>27, <2>28,
       <2>29, <2>30
    DEF Next, App, ScanWorker, TestWorker, Typing, Threads
<1>3. QED
  BY <1>1, <1>2, TypeCorrect, ViewsOwnWorkers, PTL DEF Spec

\* The worker's two memories are of the poll before.
LEMMA PollInvariant == Spec => []PollInv
<1>1. Init => PollInv
  BY IdAssumption DEF Init, PollInv, NoPoll, Threads
<1>2. PollInv /\ TypeOK /\ [Next]_vars => PollInv'
  <2> SUFFICES ASSUME PollInv, TypeOK, [Next]_vars
               PROVE  PollInv'
    OBVIOUS
  <2> USE DEF PollInv, NoPoll, scanVars
  <2>1. CASE Launch
    BY <2>1 DEF Launch
  <2>2. CASE Quit
    BY <2>2 DEF Quit, Release
  <2>3. CASE OpenScan
    BY <2>3, IdAssumption DEF OpenScan, Claim, NoScanLocals
  <2>4. CASE PressOk
    BY <2>4 DEF PressOk
  <2>5. CASE RequestTyping
    BY <2>5 DEF RequestTyping
  <2>6. CASE LeaveScan
    BY <2>6 DEF LeaveScan
  <2>7. ASSUME NEW t \in Threads, Joined(t) PROVE PollInv'
    BY <2>7, IdAssumption DEF Joined, Release, NoScanLocals
  <2>8. CASE OpenTest
    BY <2>8 DEF OpenTest, Claim
  <2>9. CASE LeaveTest
    BY <2>9 DEF LeaveTest
  <2>10. ASSUME NEW page \in {"settings", "about"}, OpenPage(page) PROVE PollInv'
    BY <2>10 DEF OpenPage
  <2>11. CASE LeavePage
    BY <2>11 DEF LeavePage
  <2>12. CASE ChangeSetting
    BY <2>12 DEF ChangeSetting
  <2>13. ASSUME NEW t \in Threads, WaitForHost(t) PROVE PollInv'
    BY <2>13 DEF WaitForHost, Return
  <2>14. ASSUME NEW t \in Threads, TypeKey(t) PROVE PollInv'
    BY <2>14 DEF TypeKey, Return
  <2>15. ASSUME NEW t \in Threads, TypeTerminator(t) PROVE PollInv'
    BY <2>15 DEF TypeTerminator
  <2>16. CASE CheckRunning
    BY <2>16 DEF CheckRunning
  <2>17. CASE TakeRequest
    BY <2>17 DEF TakeRequest
  <2>18. CASE StartPoll
    BY <2>18 DEF StartPoll
  <2>19. CASE EndPoll
    BY <2>19 DEF EndPoll, Polled
  <2>20. CASE ReadFailed
    BY <2>20, IdAssumption DEF ReadFailed, DealtWith
  <2>21. CASE UnknownTag
    BY <2>21, IdAssumption DEF UnknownTag, DealtWith
  <2>22. CASE SameTag
    BY <2>22, IdAssumption DEF SameTag, DealtWith
  <2>23. CASE NewTag
    BY <2>23, IdAssumption DEF NewTag, DealtWith
  <2>24. CASE CopyText
    BY <2>24 DEF CopyText
  <2>25. CASE ReportTyped
    BY <2>25 DEF ReportTyped
  <2>26. CASE TestRelease
    BY <2>26 DEF TestRelease, Release
  <2>27. CASE ReportTest
    BY <2>27 DEF ReportTest
  <2>28. CASE MoveTag
    BY <2>28 DEF MoveTag
  <2>29. CASE HostChanges
    BY <2>29 DEF HostChanges
  <2>30. CASE UNCHANGED vars
    BY <2>30 DEF vars
  <2>31. QED
    BY <2>1, <2>2, <2>3, <2>4, <2>5, <2>6, <2>7, <2>8, <2>9, <2>10,
       <2>11, <2>12, <2>13, <2>14, <2>15, <2>16, <2>17, <2>18, <2>19,
       <2>20, <2>21, <2>22, <2>23, <2>24, <2>25, <2>26, <2>27, <2>28,
       <2>29, <2>30
    DEF Next, App, ScanWorker, TestWorker, Typing, Threads
<1>3. QED
  BY <1>1, <1>2, TypeCorrect, PTL DEF Spec

-----------------------------------------------------------------------------
\* The USB interface is given back, whatever the users, the tags, the host and
\* the threads do (antlia_hid.c, and the enter and exit callbacks).
THEOREM InterfaceIsGivenBack == Spec => []UsbRestored
<1>1. LeaseInv => UsbRestored
  BY DEF LeaseInv, UsbRestored
<1>2. QED
  BY <1>1, LeaseInvariant, PTL

\* antlia_hid_type is honest about what it has sent.
THEOREM TypingIsHonest == Spec => []OutcomeHonest
<1>1. LeaseInv /\ JobInv => OutcomeHonest
  BY DEF LeaseInv, JobInv, OutcomeHonest
<1>2. QED
  BY <1>1, LeaseInvariant, JobInvariant, PTL

\* No request is older than the session it is acted on in.
THEOREM RequestsAreOfTheSession == Spec => []RequestNeedsTag
<1>1. RequestInv => RequestNeedsTag
  BY DEF RequestInv
<1>2. QED
  BY <1>1, RequestInvariant, PTL

\* The settings hold still while a worker is alive to read them.
THEOREM SettingsHoldStill == Spec => ConfigSettled
<1>1. TypeOK /\ WorkersInTheirViews /\ [Next]_vars =>
        [config' # config => \A t \in Threads : pc[t] = "none"]_vars
  <2> SUFFICES ASSUME WorkersInTheirViews, Next, config' # config
               PROVE  \A t \in Threads : pc[t] = "none"
    BY DEF vars
  <2>1. Launch \/ ChangeSetting
    BY DEF Next, App, ScanWorker, TestWorker, Typing, Launch, Quit, OpenScan,
           PressOk, RequestTyping, LeaveScan, Joined, OpenTest, LeaveTest,
           OpenPage, LeavePage, WaitForHost, TypeKey, TypeTerminator,
           CheckRunning, TakeRequest, StartPoll, EndPoll, ReadFailed,
           UnknownTag, SameTag, NewTag, CopyText, ReportTyped, TestRelease,
           ReportTest, MoveTag, HostChanges
  <2>2. QED
    BY <2>1 DEF Launch, ChangeSetting, WorkersInTheirViews, Threads
<1>2. QED
  BY <1>1, TypeCorrect, ViewsOwnWorkers, PTL DEF Spec, ConfigSettled

\* Only handling a poll takes the scan worker out of "handle".
LEMMA HandlingSteps ==
  ASSUME WorkersInTheirViews, [Next]_vars, HandlesPoll
  PROVE  ReadFailed \/ UnknownTag \/ SameTag \/ NewTag
BY DEF WorkersInTheirViews, Threads, HandlesPoll, Next, vars, App, ScanWorker,
       TestWorker, Typing, Launch, Quit, OpenScan, PressOk, RequestTyping,
       LeaveScan, Joined, OpenTest, LeaveTest, OpenPage, LeavePage,
       ChangeSetting, WaitForHost, Return, TypeKey, TypeTerminator,
       CheckRunning, TakeRequest, StartPoll, EndPoll, CopyText, ReportTyped,
       TestRelease, ReportTest, MoveTag, HostChanges

\* A tag left on the reader is dealt with once.
THEOREM SittingTagOnce == Spec => SittingTagHandledOnce
<1>1. TypeOK /\ WorkersInTheirViews /\ PollInv /\ [Next]_vars =>
        [HandlesPoll /\ got.what \in Ids /\ got.what = seen.what =>
           model' = model /\ pc'["scan"] = "top"]_vars
  <2> SUFFICES ASSUME TypeOK, WorkersInTheirViews, PollInv, [Next]_vars,
                      HandlesPoll, got.what \in Ids, got.what = seen.what
               PROVE  model' = model /\ pc'["scan"] = "top"
    OBVIOUS
  <2>1. got.what = last_handled
    BY DEF PollInv
  <2>2. SameTag
    BY <2>1, HandlingSteps, IdAssumption DEF ReadFailed, UnknownTag, NewTag
  <2>3. QED
    BY <2>2 DEF SameTag, DealtWith, TypeOK, Threads
<1>2. QED
  BY <1>1, TypeCorrect, ViewsOwnWorkers, PollInvariant, PTL
  DEF Spec, SittingTagHandledOnce

\* A refused tag left on the reader sounds the alert once.
THEOREM RefusalOnce == Spec => RefusalAlertedOnce
<1>1. TypeOK /\ WorkersInTheirViews /\ PollInv /\ [Next]_vars =>
        [HandlesPoll /\ got.what = Unreadable /\ got = seen => ~alerted']_vars
  <2> SUFFICES ASSUME TypeOK, WorkersInTheirViews, PollInv, [Next]_vars,
                      HandlesPoll, got.what = Unreadable, got = seen
               PROVE  ~alerted'
    OBVIOUS
  <2>1. UnknownTag
    BY HandlingSteps, IdAssumption DEF ReadFailed, SameTag, NewTag
  <2>2. got.tag = last_unknown
    BY DEF PollInv
  <2>3. QED
    BY <2>1, <2>2 DEF UnknownTag
<1>2. QED
  BY <1>1, TypeCorrect, ViewsOwnWorkers, PollInvariant, PTL
  DEF Spec, RefusalAlertedOnce

-----------------------------------------------------------------------------
(* The typist the computer sees.                                           *)

\* The refinement mapping of module Wedge, of any places and calls.
PhaseAt(p, j) ==
  IF \E t \in Threads : p[t] = "keys" THEN "typing"
  ELSE IF \A t \in Threads : p[t] \notin {"report", "tell"} THEN "idle"
  ELSE IF \E t \in Threads : j[t].entered \/ j[t].typed THEN "submitted"
  ELSE "failed"
SentAt(j) == IF j["scan"].sent > 0 THEN j["scan"].sent ELSE j["test"].sent

\* Where no worker types or reports, nothing of a text is left.
LEMMA AtRest ==
  ASSUME NEW p, NEW j,
         \A t \in Threads : p[t] \notin {"keys", "report", "tell"} /\ j[t].sent = 0
  PROVE  PhaseAt(p, j) = "idle" /\ SentAt(j) = 0
BY DEF PhaseAt, SentAt, Threads

\* Where one worker is alive, the text is its text.
LEMMA AtWork ==
  ASSUME NEW p, NEW j \in [Threads -> Jobs], NEW t \in Threads,
         \A u \in Threads \ {t} : p[u] = "none" /\ j[u] = NoJob
  PROVE  /\ p[t] = "keys" => PhaseAt(p, j) = "typing"
         /\ p[t] \in {"report", "tell"} =>
              PhaseAt(p, j) = IF j[t].entered \/ j[t].typed THEN "submitted" ELSE "failed"
         /\ SentAt(j) = j[t].sent
<1>1. NoJob.sent = 0 /\ ~NoJob.entered /\ ~NoJob.typed
  BY DEF NoJob, Job
<1>2. j[t].sent \in Nat
  BY LengthAssumption DEF Jobs
<1>3. SentAt(j) = j[t].sent
  BY <1>1, <1>2 DEF SentAt, Threads
<1>4. CASE p[t] = "keys"
  BY <1>3, <1>4 DEF PhaseAt
<1>5. CASE p[t] \in {"report", "tell"}
  <2>1. ~(\E u \in Threads : p[u] = "keys")
    BY <1>5
  <2>2. ~(\A u \in Threads : p[u] \notin {"report", "tell"})
    BY <1>5
  <2>3. (\E u \in Threads : j[u].entered \/ j[u].typed) <=> (j[t].entered \/ j[t].typed)
    BY <1>1
  <2>4. QED
    BY <1>3, <1>5, <2>1, <2>2, <2>3 DEF PhaseAt
<1>6. QED
  BY <1>3, <1>4, <1>5

\* One worker types at a time, and it has what the invariants say.
TypingInv == TypeOK /\ WorkersInTheirViews /\ LeaseInv /\ JobInv

\* The keys the computer sees are those of one typist with one lease: every step
\* of the wedge is one of module Typist's, or none that the computer can tell.
THEOREM WedgeImplementsTypist == Spec => ImplementsTypist
<1> DEFINE Phase == PhaseAt(pc, job)
           Sent  == SentAt(job)
           Unseen == claimed' = claimed /\ Phase' = Phase /\ Sent' = Sent
<1>1. Init => Typist!Init
  BY DEF Init, Typist!Init, NoJob, Job, Threads
<1>2. TypingInv /\ TypingInv' /\ [Next]_vars => [Typist!Next]_(Typist!vars)
  <2> SUFFICES ASSUME TypingInv, TypingInv', [Next]_vars
               PROVE  Typist!Next \/ Unseen
    BY DEF PhaseAt, SentAt, Typist!vars
  <2> USE DEF TypingInv
  <2> HIDE DEF Phase, Sent
  <2>1. ASSUME NEW t \in Threads, pc[t] # "none"
        PROVE  /\ pc[t] = "keys" => Phase = "typing"
               /\ pc[t] \in {"report", "tell"} =>
                    Phase = IF job[t].entered \/ job[t].typed THEN "submitted" ELSE "failed"
               /\ Sent = job[t].sent
    <3>1. \A u \in Threads \ {t} : pc[u] = "none" /\ job[u] = NoJob
      BY <2>1 DEF WorkersInTheirViews, JobInv
    <3>2. job \in [Threads -> Jobs]
      BY DEF TypeOK
    <3>3. /\ pc[t] = "keys" => PhaseAt(pc, job) = "typing"
          /\ pc[t] \in {"report", "tell"} =>
               PhaseAt(pc, job) =
                 IF job[t].entered \/ job[t].typed THEN "submitted" ELSE "failed"
          /\ SentAt(job) = job[t].sent
      BY ONLY t \in Threads, <3>1, <3>2, AtWork
    <3>4. QED
      BY <3>3 DEF Phase, Sent
  <2>2. ASSUME NEW t \in Threads, pc'[t] # "none"
        PROVE  /\ pc'[t] = "keys" => Phase' = "typing"
               /\ pc'[t] \in {"report", "tell"} =>
                    Phase' = IF job'[t].entered \/ job'[t].typed THEN "submitted" ELSE "failed"
               /\ Sent' = job'[t].sent
    <3>1. \A u \in Threads \ {t} : pc'[u] = "none" /\ job'[u] = NoJob
      BY <2>2 DEF WorkersInTheirViews, JobInv
    <3>2. job' \in [Threads -> Jobs]
      BY DEF TypeOK
    <3>3. /\ pc'[t] = "keys" => PhaseAt(pc', job') = "typing"
          /\ pc'[t] \in {"report", "tell"} =>
               PhaseAt(pc', job') =
                 IF job'[t].entered \/ job'[t].typed THEN "submitted" ELSE "failed"
          /\ SentAt(job') = job'[t].sent
      BY ONLY t \in Threads, <3>1, <3>2, AtWork
    <3>4. QED
      BY <3>3 DEF Phase, Sent
  <2>3. ASSUME \A t \in Threads : pc[t] \notin {"keys", "report", "tell"}
        PROVE  Phase = "idle" /\ Sent = 0
    <3>1. \A t \in Threads : job[t].sent = 0
      BY <2>3 DEF JobInv, NoJob, Job
    <3>2. QED
      BY <2>3, <3>1, AtRest DEF Phase, Sent
  <2>4. ASSUME \A t \in Threads : pc'[t] \notin {"keys", "report", "tell"}
        PROVE  Phase' = "idle" /\ Sent' = 0
    <3>1. \A t \in Threads : job'[t].sent = 0
      BY <2>4 DEF JobInv, NoJob, Job
    <3>2. QED
      BY <2>4, <3>1, AtRest DEF Phase, Sent
  <2>5. ASSUME NEW t \in Threads, view' = view, pc[t] # "none",
               pc[t] \notin {"keys", "report", "tell"}
        PROVE  \A u \in Threads : pc[u] \notin {"keys", "report", "tell"}
    BY <2>5 DEF WorkersInTheirViews
  \* Steps that touch neither the workers nor the lease.
  <2>6. CASE UNCHANGED <<pc, job, claimed>>
    BY <2>6 DEF Phase, Sent
  <2>7. CASE \/ PressOk \/ RequestTyping \/ LeaveScan \/ LeaveTest \/ LeavePage
             \/ ChangeSetting \/ MoveTag \/ HostChanges \/ UNCHANGED vars
             \/ \E page \in {"settings", "about"} : OpenPage(page)
    <3>1. UNCHANGED <<pc, job, claimed>>
      BY <2>7 DEF PressOk, RequestTyping, LeaveScan, LeaveTest, LeavePage, OpenPage,
                  ChangeSetting, MoveTag, HostChanges, vars, hidVars
    <3>2. QED
      BY <2>6, <3>1
  <2>8. CASE Launch \/ Quit
    <3>1. ~claimed /\ ~claimed' /\ UNCHANGED <<pc, job>>
      BY <2>8 DEF Launch, Quit, Release, LeaseInv, Threads, hidVars
    <3>2. claimed' = claimed
      BY <3>1 DEF TypeOK
    <3>3. QED
      BY <2>6, <3>1, <3>2
  \* Steps of the scan worker between calls of antlia_hid_type.
  <2>9. CASE \/ CheckRunning \/ TakeRequest \/ StartPoll \/ EndPoll \/ ReadFailed
             \/ UnknownTag \/ SameTag \/ NewTag \/ CopyText
    <3>1. /\ claimed' = claimed /\ view' = view
          /\ pc["scan"] \in {"top", "poll", "read", "handle", "copy"}
          /\ pc'["scan"] \in {"poll", "ended", "copy", "read", "handle", "top", "wait"}
      BY <2>9 DEF CheckRunning, TakeRequest, StartPoll, EndPoll, ReadFailed, UnknownTag,
                  SameTag, NewTag, CopyText, DealtWith, hidVars, TypeOK, Threads
    <3>2. pc["test"] = "none" /\ pc'["test"] = "none"
      BY <3>1 DEF WorkersInTheirViews, Threads
    <3>3. QED
      BY <2>3, <2>4, <3>1, <3>2 DEF Threads
  \* The callbacks that claim and release the interface.
  <2>10. CASE OpenScan \/ OpenTest
    <3>1. \A t \in Threads : pc[t] = "none"
      BY <2>10 DEF OpenScan, OpenTest, WorkersInTheirViews, Threads
    <3>2. \A t \in Threads : pc'[t] \notin {"keys", "report", "tell"}
      BY <2>10, <3>1 DEF OpenScan, OpenTest, TypeOK, Threads
    <3>3. Phase = "idle" /\ Sent = 0 /\ Phase' = "idle" /\ Sent' = 0
      BY <2>3, <2>4, <3>1, <3>2
    <3>4. ~claimed /\ claimed' \in BOOLEAN
      BY <2>10 DEF OpenScan, OpenTest, LeaseInv, Threads, TypeOK
    <3>5. CASE claimed'
      <4>1. Typist!TakeInterface
        BY <3>3, <3>4, <3>5 DEF Typist!TakeInterface, Phase, Sent, PhaseAt, SentAt
      <4>2. QED
        BY <4>1 DEF Typist!Next
    <3>6. CASE ~claimed'
      <4>1. claimed' = claimed
        BY <3>4, <3>6 DEF TypeOK
      <4>2. QED
        BY <3>3, <4>1
    <3>7. QED
      BY <3>5, <3>6
  \* A release gives the interface back wherever no text is being typed.
  <2>11. ASSUME Release, Phase # "typing", Phase' = Phase, Sent' = Sent
         PROVE  Typist!Next \/ Unseen
    <3>1. CASE claimed
      <4>1. ~claimed'
        BY <2>11, <3>1 DEF Release
      <4>2. Typist!GiveInterfaceBack
        BY <2>11, <3>1, <4>1
        DEF Typist!GiveInterfaceBack, TypeOK, Phase, Sent, PhaseAt, SentAt
      <4>3. QED
        BY <4>2 DEF Typist!Next
    <3>2. CASE ~claimed
      BY <2>11, <3>2 DEF Release, hidVars
    <3>3. QED
      BY <3>1, <3>2
  <2>12. ASSUME NEW t \in Threads, Joined(t)
         PROVE  Typist!Next \/ Unseen
    <3>1. /\ \A u \in Threads : pc[u] \notin {"keys", "report", "tell"}
          /\ \A u \in Threads : pc'[u] \notin {"keys", "report", "tell"}
      BY <2>12 DEF Joined, WorkersInTheirViews, TypeOK
    <3>2. QED
      BY <2>3, <2>4, <2>11, <2>12, <3>1 DEF Joined
  <2>13. CASE TestRelease
    <3>1. /\ pc["test"] = "report" /\ pc'["test"] = "tell" /\ job' = job /\ Release
      BY <2>13 DEF TestRelease, TypeOK, Threads
    <3>2. Phase' = Phase /\ Phase # "typing" /\ Sent' = Sent
      BY <2>1, <2>2, <3>1 DEF Threads
    <3>3. QED
      BY <2>11, <3>1, <3>2
  \* The end of a text.
  <2>14. CASE ReportTyped \/ ReportTest
    <3>1. PICK t \in Threads :
            /\ pc[t] \in {"report", "tell"} /\ claimed' = claimed
            /\ pc' = [pc EXCEPT ![t] = pc'[t]] /\ pc'[t] \in {"top", "ended"}
      BY <2>14 DEF ReportTyped, ReportTest, TypeOK, Threads, hidVars
    <3>2. Phase \in {"submitted", "failed"}
      BY <2>1, <3>1
    <3>3. \A u \in Threads : pc'[u] \notin {"keys", "report", "tell"}
      BY <3>1 DEF WorkersInTheirViews, TypeOK
    <3>4. Typist!Forget
      BY <2>4, <3>1, <3>2, <3>3 DEF Typist!Forget, Phase, Sent, PhaseAt, SentAt
    <3>5. QED
      BY <3>4 DEF Typist!Next
  \* The call of antlia_hid_type: the wait for the host.
  <2>15. ASSUME NEW t \in Threads, WaitForHost(t)
         PROVE  Typist!Next \/ Unseen
    <3>1. /\ pc[t] = "wait" /\ job[t].sent = 0 /\ ~job[t].entered /\ ~job[t].typed
          /\ claimed' = claimed /\ view' = view
      BY <2>15 DEF WaitForHost, JobInv, hidVars
    <3>2. \A u \in Threads : pc[u] \notin {"keys", "report", "tell"}
      BY <2>5, <3>1
    <3>3. Phase = "idle" /\ Sent = 0
      BY <2>3, <3>2
    <3>4. CASE ~claimed
      <4>1. /\ pc'[t] = "report" /\ job'[t].sent = job[t].sent
            /\ job'[t].entered = job[t].entered /\ job'[t].typed = FALSE
        BY <2>15, <3>4 DEF WaitForHost, Return, TypeOK, Jobs
      <4>2. Phase' = "failed" /\ Sent' = 0
        BY <2>2, <3>1, <4>1
      <4>3. Typist!Refuse
        BY <3>1, <3>3, <3>4, <4>2 DEF Typist!Refuse, Phase, Sent, PhaseAt, SentAt
      <4>4. QED
        BY <4>3 DEF Typist!Next
    <3>5. CASE claimed /\ (connected \/ job[t].waited >= WaitTicks)
      <4>1. pc'[t] = "keys" /\ job'[t].sent = job[t].sent
        BY <2>15, <3>5 DEF WaitForHost, TypeOK
      <4>2. Phase' = "typing" /\ Sent' = 0
        BY <2>2, <3>1, <4>1
      <4>3. Typist!StartText
        BY <3>1, <3>3, <3>5, <4>2 DEF Typist!StartText, Phase, Sent, PhaseAt, SentAt
      <4>4. QED
        BY <4>3 DEF Typist!Next
    <3>6. CASE claimed /\ ~(connected \/ job[t].waited >= WaitTicks)
      <4>1. pc' = pc
        BY <2>15, <3>6 DEF WaitForHost
      <4>2. QED
        BY <2>4, <3>1, <3>2, <3>3, <4>1
    <3>7. QED
      BY <3>4, <3>5, <3>6
  \* A key of the text: sent, not pressed, or pressed and not let go.
  <2>16. ASSUME NEW t \in Threads, TypeKey(t)
         PROVE  Typist!Next \/ Unseen
    <3>1. /\ pc[t] = "keys" /\ ~job[t].entered /\ ~job[t].typed /\ claimed' = claimed
          /\ job[t].sent \in Nat /\ job[t].sent < TextLen
      BY <2>16, LengthInRange, LengthAssumption
      DEF TypeKey, JobInv, TypeOK, Jobs, hidVars
    <3>2. Phase = "typing" /\ Sent = job[t].sent
      BY <2>1, <3>1
    <3>3. CASE job' = [job EXCEPT ![t].sent = @ + 1] /\ pc' = pc
      <4>1. pc'[t] = "keys" /\ job'[t].sent = job[t].sent + 1
        BY <3>1, <3>3 DEF TypeOK, Jobs
      <4>2. Phase' = "typing" /\ Sent' = job[t].sent + 1
        BY <2>2, <4>1
      <4>3. Typist!SendKey
        BY <3>1, <3>2, <4>2 DEF Typist!SendKey, Phase, Sent, PhaseAt, SentAt
      <4>4. QED
        BY <4>3 DEF Typist!Next
    <3>4. ASSUME pc'[t] = "report", ~job'[t].entered, ~job'[t].typed,
                 job'[t].sent \in {job[t].sent, job[t].sent + 1}
          PROVE  Typist!Next
      <4>1. Phase' = "failed" /\ Sent' = job'[t].sent
        BY <2>2, <3>4
      <4>2. Sent' \in {Sent, Sent + 1} /\ Sent' <= TextLen
        BY <3>1, <3>2, <3>4, <4>1, LengthAssumption
      <4>3. Typist!GiveUp
        BY <3>1, <3>2, <4>1, <4>2 DEF Typist!GiveUp, Phase, Sent, PhaseAt, SentAt
      <4>4. QED
        BY <4>3 DEF Typist!Next
    <3>5. CASE Return(t, FALSE)
      <4>1. /\ pc'[t] = "report" /\ job'[t].sent = job[t].sent
            /\ job'[t].entered = job[t].entered /\ job'[t].typed = FALSE
        BY <3>5 DEF Return, TypeOK, Jobs
      <4>2. QED
        BY <3>1, <3>4, <4>1
    <3>6. CASE /\ pc' = [pc EXCEPT ![t] = "report"]
               /\ job' = [job EXCEPT ![t].sent = @ + 1, ![t].typed = FALSE]
      <4>1. /\ pc'[t] = "report" /\ job'[t].sent = job[t].sent + 1
            /\ job'[t].entered = job[t].entered /\ job'[t].typed = FALSE
        BY <3>6 DEF TypeOK, Jobs
      <4>2. QED
        BY <3>1, <3>4, <4>1
    <3>7. QED
      BY <2>16, <3>3, <3>5, <3>6 DEF TypeKey
  \* What follows the last key of the text.
  <2>17. ASSUME NEW t \in Threads, TypeTerminator(t)
         PROVE  Typist!Next \/ Unseen
    <3>1. /\ pc[t] = "keys" /\ pc'[t] = "report" /\ claimed' = claimed
          /\ job[t].sent \in {0, TextLen} /\ job'[t].sent = job[t].sent
      BY <2>17 DEF TypeTerminator, Length, TypeOK, Jobs, hidVars
    <3>2. Phase = "typing" /\ Sent = job[t].sent /\ Sent' = Sent
      BY <2>1, <2>2, <3>1
    <3>3. CASE job'[t].entered \/ job'[t].typed
      <4>1. Phase' = "submitted"
        BY <2>2, <3>1, <3>3
      <4>2. Typist!Submit(0) \/ Typist!Submit(TextLen)
        BY <3>1, <3>2, <4>1 DEF Typist!Submit, Phase, Sent, PhaseAt, SentAt
      <4>3. QED
        BY <4>2 DEF Typist!Next
    <3>4. CASE ~(job'[t].entered \/ job'[t].typed)
      <4>1. Phase' = "failed" /\ Sent' <= TextLen
        BY <2>2, <3>1, <3>2, <3>4, LengthAssumption
      <4>2. Typist!GiveUp
        BY <3>1, <3>2, <4>1 DEF Typist!GiveUp, Phase, Sent, PhaseAt, SentAt
      <4>3. QED
        BY <4>2 DEF Typist!Next
    <3>5. QED
      BY <3>3, <3>4
  <2>18. QED
    BY <2>7, <2>8, <2>9, <2>10, <2>12, <2>13, <2>14, <2>15, <2>16, <2>17
    DEF Next, App, ScanWorker, TestWorker, Typing, Threads
<1>3. QED
  BY <1>1, <1>2, TypeCorrect, ViewsOwnWorkers, LeaseInvariant, JobInvariant, PTL
  DEF Spec, ImplementsTypist, Typist!Spec, TypingInv
=============================================================================
