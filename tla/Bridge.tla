------------------------------- MODULE Bridge -------------------------------
(***************************************************************************)
(* The bridge of antlia_rpc.c: the host's session thread, which runs the   *)
(* callback, the application's own thread, which serves one line at a      *)
(* time, the bounded queue between them, and the tags written page by      *)
(* page while somebody may be moving them.                                 *)
(*                                                                         *)
(* A tag's memory is a row of pages, as in module TagPages.                *)
(***************************************************************************)
EXTENDS TagPages, Naturals, Sequences

CONSTANTS
  Tags, NoTag,
  UserPages,            \* user memory of a tag, in pages
  TotalPages,           \* pages a complete read returns from page 4 on
  Contents,             \* what a tag may hold before the first line
  Lines,                \* the lines the host sends
  QueueDepth,
  MaxLines              \* bound on the lines of a session

ASSUME TagAssumption == NoTag \notin Tags
ASSUME PagesAssumption ==
  UserPages \in Nat /\ TotalPages \in Nat \ {0, 1} /\ UserPages <= TotalPages
ASSUME ContentsAssumption ==
  Contents \subseteq [1..TotalPages -> Urls \cup Others]
ASSUME LinesAssumption ==
  Lines \subseteq [verb: {"PING", "READ", "WRITE", "WRITE!", "?"},
                   url: Urls \cup {NoUrl}]
ASSUME DepthAssumption == QueueDepth \in Nat \ {0} /\ MaxLines \in Nat

VARIABLES
  session, attached,    \* the RPC session; our callback is set on it
  cb,                   \* where the callback is: it has yet to confirm, or idle
  pc,                   \* where the application thread is
  running, queue,       \* fields of AntliaRpc
  cmd, index, reply,    \* the line in hand, the next page, the answer to it
  mem, field,           \* the tags' memories; the tag on the reader
  received, dropped, answered,  \* history: lines that came, were lost, answered
  put,                  \* history: pages the line in hand has written
  carried,              \* history: the URL a plain WRITE in hand has found
  steady,               \* history: nothing has come between it and its tag
  misused               \* history: the session was called after it had closed

rpcVars   == <<session, attached, cb, running>>
lineVars  == <<cmd, index, reply>>
countVars == <<received, dropped, answered>>
writeVars == <<put, carried, steady>>
vars == <<rpcVars, pc, queue, lineVars, mem, field, countVars, writeVars, misused>>

NoLine  == [verb |-> "?", url |-> NoUrl]
NoReply == [kind |-> "none", url |-> NoUrl]
Memory  == 1..TotalPages

\* Every call of the RPC layer names the session, open or not.
CallSession == misused' = (misused \/ session = "closed")
-----------------------------------------------------------------------------
(* Tags.                                                                   *)

\* What a tag says when all of it is read.
Carries(tag) == Decode(mem[tag], TotalPages)

\* The pages of user memory a read of the card can return; none when it fails.
\* A tag leaving the field can end a read early.
Reads == IF field = NoTag THEN {} ELSE 0..TotalPages
-----------------------------------------------------------------------------
(* antlia_rpc_callback, on the session's thread.                           *)

\* Mutant: one line more than the queue holds.
ReceiveLineOverfull(line) ==
  /\ session = "open" /\ attached /\ cb = "idle" /\ received < MaxLines
  /\ received' = received + 1
  /\ IF Len(queue) <= QueueDepth
     THEN queue' = Append(queue, line) /\ UNCHANGED dropped
     ELSE dropped' = dropped + 1 /\ UNCHANGED queue
  /\ cb' = "confirm"
  /\ UNCHANGED <<session, attached, running, pc, lineVars, mem, field, answered,
                 writeVars, misused>>

ReceiveLine(line) ==
  /\ session = "open" /\ attached /\ cb = "idle" /\ received < MaxLines
  /\ received' = received + 1
  /\ IF Len(queue) < QueueDepth
     THEN queue' = Append(queue, line) /\ UNCHANGED dropped
     ELSE dropped' = dropped + 1 /\ UNCHANGED queue
  /\ cb' = "confirm"
  /\ UNCHANGED <<session, attached, running, pc, lineVars, mem, field, answered,
                 writeVars, misused>>

\* Mutant: the lines that wait are thrown away.
AppExitFlushes ==
  /\ session = "open" /\ attached /\ cb = "idle"
  /\ running' = FALSE /\ queue' = <<>>
  /\ cb' = "confirm"
  /\ UNCHANGED <<session, attached, pc, lineVars, mem, field, countVars,
                 writeVars, misused>>

AppExit ==
  /\ session = "open" /\ attached /\ cb = "idle"
  /\ running' = FALSE
  /\ cb' = "confirm"
  /\ UNCHANGED <<session, attached, pc, queue, lineVars, mem, field, countVars,
                 writeVars, misused>>

\* Buttons and file loads.
OtherEvent ==
  /\ session = "open" /\ attached /\ cb = "idle"
  /\ cb' = "confirm"
  /\ UNCHANGED <<session, attached, running, pc, queue, lineVars, mem, field,
                 countVars, writeVars, misused>>

Confirm ==
  /\ cb # "idle"
  /\ CallSession
  /\ cb' = "idle"
  /\ UNCHANGED <<session, attached, running, pc, queue, lineVars, mem, field,
                 countVars, writeVars>>

\* The host goes away.  Without a callback nobody hears of it.
CloseSession ==
  /\ session = "open" /\ cb = "idle"
  /\ session' = "closed"
  /\ running' = IF attached THEN FALSE ELSE running
  /\ UNCHANGED <<attached, cb, pc, queue, lineVars, mem, field, countVars,
                 writeVars, misused>>
-----------------------------------------------------------------------------
(* antlia_rpc_run.                                                         *)

Attach ==
  /\ pc = "attach"
  /\ attached' = TRUE
  /\ CallSession
  /\ pc' = "started"
  /\ UNCHANGED <<session, cb, running, queue, lineVars, mem, field, countVars,
                 writeVars>>

SendStarted ==
  /\ pc = "started"
  /\ CallSession
  /\ pc' = "hello"
  /\ UNCHANGED <<rpcVars, queue, lineVars, mem, field, countVars, writeVars>>

SendHello ==
  /\ pc = "hello"
  /\ CallSession
  /\ pc' = "check"
  /\ UNCHANGED <<rpcVars, queue, lineVars, mem, field, countVars, writeVars>>

CheckRunning ==
  /\ pc = "check"
  /\ pc' = IF running THEN "get" ELSE "exited"
  /\ UNCHANGED <<rpcVars, queue, lineVars, mem, field, countVars, writeVars, misused>>

GetLine ==
  /\ pc = "get" /\ queue # <<>>
  /\ cmd' = Head(queue) /\ queue' = Tail(queue)
  /\ pc' = "serve"
  /\ UNCHANGED <<rpcVars, index, reply, mem, field, countVars, writeVars, misused>>

\* Mutant: the wait for a line has no end.
GetWaitsForever == pc = "get" /\ queue = <<>> /\ UNCHANGED vars

GetTimesOut ==
  /\ pc = "get" /\ queue = <<>>
  /\ pc' = "check"
  /\ UNCHANGED <<rpcVars, queue, lineVars, mem, field, countVars, writeVars, misused>>

SendReply ==
  /\ pc = "reply"
  /\ CallSession
  /\ answered' = answered + 1
  /\ cmd' = NoLine /\ index' = 1 /\ reply' = NoReply
  /\ put' = 0 /\ carried' = NoUrl /\ steady' = TRUE
  /\ pc' = "check"
  /\ UNCHANGED <<rpcVars, queue, mem, field, received, dropped>>

SendExited ==
  /\ pc = "exited"
  /\ CallSession
  /\ pc' = "detach"
  /\ UNCHANGED <<rpcVars, queue, lineVars, mem, field, countVars, writeVars>>

\* The callback is taken off the session, then everything is freed.
Detach ==
  /\ pc = "detach"
  /\ CallSession
  /\ attached' = FALSE
  /\ queue' = <<>>
  /\ pc' = "freed"
  /\ UNCHANGED <<session, cb, running, lineVars, mem, field, countVars, writeVars>>
-----------------------------------------------------------------------------
(* antlia_rpc_dispatch, antlia_rpc_read and antlia_rpc_write.              *)

Answer(kind, url) ==
  /\ reply' = [kind |-> kind, url |-> url]
  /\ pc' = "reply"

Serving(verbs) ==
  /\ pc = "serve" /\ cmd.verb \in verbs
  /\ UNCHANGED <<rpcVars, queue, cmd, mem, field, countVars, put, misused>>

Ping == /\ Serving({"PING"})
        /\ Answer("PONG", NoUrl)
        /\ UNCHANGED <<index, carried, steady>>

\* Mutant: a verb nobody knows is met with silence.
UnknownVerbSilent == /\ Serving({"?"})
                     /\ pc' = "check"
                     /\ UNCHANGED <<index, reply, carried, steady>>

UnknownVerb == /\ Serving({"?"})
               /\ Answer("unsupported", NoUrl)
               /\ UNCHANGED <<index, carried, steady>>

Read ==
  /\ Serving({"READ"})
  /\ \/ Answer("NONE", NoUrl)
     \/ \E n \in Reads :
          Answer("TAG", IF n = 0 THEN NoUrl ELSE Decode(mem[field], n))
  /\ UNCHANGED <<index, carried, steady>>

\* Mutant: every WRITE is a WRITE!.
RefusalOfLengthOnly(n) ==
  IF UrlPages[cmd.url] \notin 1..n THEN "too_long" ELSE "none"

\* The checks on the tag before its first page is written, in the code's order.
\* Where the page count is right the image can be built, so the refusal that
\* follows them in the code is never reached.
Refusal(n) ==
  IF UrlPages[cmd.url] \notin 1..n THEN "too_long"
  ELSE IF cmd.verb = "WRITE" /\ Decode(mem[field], n) # NoUrl THEN "not_blank"
  ELSE "none"

StartWrite ==
  /\ Serving({"WRITE", "WRITE!"})
  /\ index' = 1
  /\ \/ /\ cmd.url = NoUrl
        /\ Answer("unsupported", NoUrl)
        /\ UNCHANGED <<carried, steady>>
     \/ /\ cmd.url # NoUrl
        /\ Answer("no_tag", NoUrl)
        /\ UNCHANGED <<carried, steady>>
     \/ /\ cmd.url # NoUrl
        /\ \E n \in Reads :
             /\ IF Refusal(n) = "none" THEN pc' = "write" /\ UNCHANGED reply
                                       ELSE Answer(Refusal(n), NoUrl)
             /\ steady' = (n = TotalPages)
        /\ carried' = IF cmd.verb = "WRITE" THEN Carries(field) ELSE NoUrl

\* Mutants: a page that failed is reported as no tag; it is not noticed; it is
\* tried again for ever.
WritePageRefused ==
  /\ pc = "write" /\ index <= UrlPages[cmd.url]
  /\ \E written, known \in BOOLEAN :
       /\ known => written
       /\ written => field # NoTag
       /\ IF written THEN /\ mem' = [mem EXCEPT ![field][index] = cmd.url]
                          /\ put' = put + 1
                     ELSE UNCHANGED <<mem, put>>
       /\ IF known THEN index' = index + 1 /\ UNCHANGED <<pc, reply>>
                   ELSE Answer("no_tag", NoUrl) /\ UNCHANGED index
  /\ UNCHANGED <<rpcVars, queue, cmd, field, countVars, carried, steady, misused>>

WritePageUnchecked ==
  /\ pc = "write" /\ index <= UrlPages[cmd.url]
  /\ \E written \in BOOLEAN :
       /\ written => field # NoTag
       /\ IF written THEN /\ mem' = [mem EXCEPT ![field][index] = cmd.url]
                          /\ put' = put + 1
                     ELSE UNCHANGED <<mem, put>>
  /\ index' = index + 1
  /\ UNCHANGED <<rpcVars, pc, reply, queue, cmd, field, countVars, carried,
                 steady, misused>>

WritePageAgain ==
  /\ pc = "write" /\ index <= UrlPages[cmd.url]
  /\ field # NoTag
  /\ mem' = [mem EXCEPT ![field][index] = cmd.url] /\ put' = put + 1
  /\ index' = index + 1
  /\ UNCHANGED <<rpcVars, pc, reply, queue, cmd, field, countVars, carried,
                 steady, misused>>

\* One page: written; not written; or written and the answer of the tag lost.
WritePage ==
  /\ pc = "write" /\ index <= UrlPages[cmd.url]
  /\ \E written, known \in BOOLEAN :
       /\ known => written
       /\ written => field # NoTag
       /\ IF written THEN /\ mem' = [mem EXCEPT ![field][index] = cmd.url]
                          /\ put' = put + 1
                     ELSE UNCHANGED <<mem, put>>
       /\ IF known THEN index' = index + 1 /\ UNCHANGED <<pc, reply>>
                   ELSE Answer("read_back_failed", NoUrl) /\ UNCHANGED index
  /\ UNCHANGED <<rpcVars, queue, cmd, field, countVars, carried, steady, misused>>

ReadBack ==
  /\ pc = "write" /\ index > UrlPages[cmd.url]
  /\ \/ Answer("WROTE", NoUrl)
     \/ \E n \in Reads :
          Answer("WROTE", IF n = 0 THEN NoUrl ELSE Decode(mem[field], n))
  /\ UNCHANGED <<rpcVars, queue, cmd, index, mem, field, countVars, writeVars, misused>>

App ==
  \/ Attach \/ SendStarted \/ SendHello \/ CheckRunning \/ GetLine \/ GetTimesOut
  \/ Ping \/ UnknownVerb \/ Read \/ StartWrite \/ WritePage \/ ReadBack
  \/ SendReply \/ SendExited \/ Detach
-----------------------------------------------------------------------------
\* Somebody puts a tag on the reader, takes it off or swaps it for another.
MoveTag ==
  /\ field' \in (Tags \cup {NoTag}) \ {field}
  /\ steady' = (steady /\ pc \notin {"write", "reply"})
  /\ UNCHANGED <<rpcVars, pc, queue, lineVars, mem, countVars, put, carried, misused>>

Init ==
  /\ session = "open" /\ attached = FALSE /\ cb = "idle"
  /\ pc = "attach" /\ running = TRUE /\ queue = <<>>
  /\ cmd = NoLine /\ index = 1 /\ reply = NoReply
  /\ mem \in [Tags -> Contents]
  /\ field \in Tags \cup {NoTag}
  /\ received = 0 /\ dropped = 0 /\ answered = 0
  /\ put = 0 /\ carried = NoUrl /\ steady = TRUE
  /\ misused = FALSE

Host == (\E line \in Lines : ReceiveLine(line))
        \/ AppExit \/ OtherEvent \/ Confirm \/ CloseSession

Stopped == pc = "freed" /\ cb = "idle" /\ UNCHANGED vars

Next == App \/ Host \/ MoveTag \/ Stopped

Spec == Init /\ [][Next]_vars

\* The application thread goes on, with a timeout where it waits for a line, and
\* a callback that has begun returns.  Nobody has to send a line or hold a tag.
FairSpec == Spec /\ WF_vars(App) /\ WF_vars(Confirm)
-----------------------------------------------------------------------------
(* What holds of the bridge.                                               *)

Places == {"attach", "started", "hello", "check", "get", "serve", "write",
           "reply", "exited", "detach", "freed"}
Refusals == {"unsupported", "no_tag", "too_long", "not_blank"}
Decoded  == Urls \cup {NoUrl, Garbled}
Commands == Lines \cup {NoLine}
Replies  == [kind: Refusals \cup {"none", "PONG", "NONE", "TAG", "WROTE",
                                  "read_back_failed"},
             url: Decoded]
InHand == pc \in {"serve", "write", "reply"}

\* Every variable has its type, and the queue its depth.
TypeOK ==
  /\ session \in {"open", "closed"} /\ attached \in BOOLEAN
  /\ cb \in {"idle", "confirm"}
  /\ pc \in Places /\ running \in BOOLEAN
  /\ queue \in Seq(Lines) /\ Len(queue) <= QueueDepth
  /\ cmd \in Commands /\ index \in Nat \ {0} /\ reply \in Replies
  /\ mem \in [Tags -> [Memory -> Urls \cup Others]]
  /\ field \in Tags \cup {NoTag}
  /\ received \in 0..MaxLines /\ dropped \in Nat /\ answered \in Nat
  /\ put \in Nat /\ carried \in Decoded /\ steady \in BOOLEAN
  /\ misused \in BOOLEAN

\* While the bridge runs, a line the host has sent is answered, in hand, in the
\* queue, or was lost to a full queue: no line is answered twice and none is
\* answered that never came (antlia_rpc_callback, the loop of antlia_rpc_run and
\* the early returns of antlia_rpc_write).
LinesAccountedFor ==
  pc # "freed" =>
    received = answered + dropped + Len(queue) + (IF InHand THEN 1 ELSE 0)

\* A refusal means that no page was written, and a write that stopped after its
\* first page is never reported as anything else (the order of the checks in
\* antlia_rpc_write, and its read_back_failed).
PartialWriteTold ==
  pc = "reply" =>
    /\ reply.kind \in Refusals => put = 0
    /\ put > 0 /\ put < UrlPages[cmd.url] => reply.kind = "read_back_failed"

\* A plain WRITE to a tag that was read whole and is not moved leaves the URL the
\* tag carries alone.
PlainWriteKeepsUrls ==
  put > 0 /\ cmd.verb = "WRITE" /\ steady => carried = NoUrl

\* WROTE with a URL is the URL that was asked for, and the tag carries it, where
\* the tag was not moved (the page loop and the read back of antlia_rpc_write).
WroteIsTrue ==
  pc = "reply" /\ reply.kind = "WROTE" /\ reply.url # NoUrl /\ steady =>
    reply.url = cmd.url /\ Carries(field) = cmd.url

\* The host's view of the conversation: module LineService.
Service == INSTANCE LineService WITH
  phase <- IF pc \in {"attach", "started", "hello"} THEN "starting"
           ELSE IF pc = "freed" THEN "stopped" ELSE "listening",
  owed  <- IF pc = "freed" THEN 0 ELSE Len(queue) + (IF InHand THEN 1 ELSE 0)
ImplementsLineService == Service!Spec

\* Once it is told to stop, by a closed session or by AppExit, the bridge takes
\* its callback off the session and frees what it holds.
StopsWhenTold == ~running ~> pc = "freed"

\* A line that was queued is answered, unless the bridge is told to stop.
LinesServed == \A n \in 1..MaxLines :
  (received - dropped >= n) ~> (answered >= n \/ ~running)

\* antlia_rpc_callback on SessionClose: the context is invalid after this; stop
\* before anything can use it.
ClosedSessionLeftAlone == session = "closed" /\ ~running => ~misused

\* antlia_rpc_callback: a full queue is answered by the worker refusing, not by
\* silence.  A line the host was told had arrived is queued, in hand or answered.
EveryLineKept == pc # "freed" => dropped = 0

\* ndef_encode.h: user memory is what an image is written to.
WritesStayInUserMemory == \A t \in Tags : \A i \in Memory :
  i > UserPages => mem[t][i] \notin Urls

\* ndef_encode.h: a write interrupted halfway costs a tag its URI, and only that:
\* it says nothing, or what it was told to say at some time.
InterruptedTagSaysNothing == \A t \in Tags : Carries(t) # Garbled
=============================================================================
