---------------------------- MODULE BridgeProofs ----------------------------
(***************************************************************************)
(* Proofs about module Bridge, for every set of tags, URLs and lines, every*)
(* page count and every depth of the queue.                                *)
(***************************************************************************)
EXTENDS Bridge, TLAPS

\* A decoding is a URL of the host's, a mixture of them, or none.
LEMMA DecodeType ==
  ASSUME NEW m \in [Memory -> Urls \cup Others], NEW n \in 0..TotalPages
  PROVE  Decode(m, n) \in Decoded
BY PagesAssumption DEF Decode, Decoded, Memory

\* The two ends of a queue that is not empty.
LEMMA QueueEnds ==
  ASSUME NEW q \in Seq(Lines), q # <<>>
  PROVE  /\ Head(q) \in Lines /\ Tail(q) \in Seq(Lines)
         /\ Len(q) \in Nat \ {0} /\ Len(Tail(q)) = Len(q) - 1
OBVIOUS

\* A page is written for a URL that has an image, and no larger than the tag.
WritesUrl ==
  pc = "write" => cmd.url \in Urls /\ UrlPages[cmd.url] \in 1..TotalPages

\* Pages are only written for URLs that the checks of StartWrite let through.
LEMMA WritesUrlStep ==
  ASSUME TypeOK, WritesUrl, [Next]_vars
  PROVE  WritesUrl'
<1> USE DEF WritesUrl
<1>1. CASE StartWrite
  <2>1. CASE pc' = "write"
    <3>1. PICK n \in Reads : Refusal(n) = "none"
      BY <1>1, <2>1 DEF StartWrite, Answer
    <3>2. n \in 0..TotalPages /\ UrlPages[cmd.url] \in 1..n
      BY <3>1 DEF Reads, Refusal
    <3>3. cmd' = cmd /\ cmd.url # NoUrl
      BY <1>1, <2>1 DEF StartWrite, Serving, Answer
    <3>4. cmd.url \in Urls
      BY <3>3, LinesAssumption DEF TypeOK, Commands, NoLine
    <3>5. QED
      BY <3>2, <3>3, <3>4, PagesAssumption
  <2>2. QED
    BY <2>1
<1>2. CASE pc' = "write" /\ pc = "write" /\ cmd' = cmd
  BY <1>2
<1>3. CASE pc' # "write"
  BY <1>3
<1>4. pc' # "write" \/ (pc' = "write" /\ pc = "write" /\ cmd' = cmd) \/ StartWrite
  BY DEF Next, App, Host, ReceiveLine, AppExit, OtherEvent, Confirm, CloseSession,
         Attach, SendStarted, SendHello, CheckRunning, GetLine, GetTimesOut, Ping,
         UnknownVerb, Read, WritePage, ReadBack, SendReply, SendExited, Detach,
         MoveTag, Stopped, vars, rpcVars, lineVars, Serving, Answer
<1>5. QED
  BY <1>1, <1>2, <1>3, <1>4

\* Every variable keeps its type, and what is written is a URL's image.
LEMMA TypeInvariant == Spec => [](TypeOK /\ WritesUrl)
<1>1. Init => TypeOK /\ WritesUrl
  <2> SUFFICES ASSUME Init
               PROVE  TypeOK /\ WritesUrl
    OBVIOUS
  <2> USE DEF Init
  <2>1. session \in {"open", "closed"} /\ attached \in BOOLEAN
        /\ cb \in {"idle", "confirm"} /\ pc \in Places /\ running \in BOOLEAN
        /\ steady \in BOOLEAN /\ misused \in BOOLEAN /\ WritesUrl
    BY DEF Places, WritesUrl
  <2>2. queue \in Seq(Lines) /\ Len(queue) <= QueueDepth
    BY DepthAssumption
  <2>3. cmd \in Commands /\ index \in Nat \ {0} /\ reply \in Replies
        /\ carried \in Decoded
    BY DEF Commands, Replies, Decoded, NoReply
  <2>4. mem \in [Tags -> [Memory -> Urls \cup Others]]
    BY ContentsAssumption DEF Memory
  <2>5. QED
    BY <2>1, <2>2, <2>3, <2>4, DepthAssumption DEF TypeOK
<1>2. TypeOK /\ WritesUrl /\ [Next]_vars => TypeOK'
  <2> SUFFICES ASSUME TypeOK, WritesUrl, [Next]_vars
               PROVE  TypeOK'
    OBVIOUS
  <2> USE DEF TypeOK, Places, Commands, Replies, Refusals, rpcVars, lineVars, countVars, writeVars
  <2>1. ASSUME NEW line \in Lines, ReceiveLine(line) PROVE TypeOK'
    BY <2>1, DepthAssumption DEF ReceiveLine
  <2>2. CASE AppExit
    <3>1. UNCHANGED <<session, attached, pc, queue, lineVars, mem, field, countVars,
                      writeVars, misused>>
      BY <2>2 DEF AppExit
    <3>2. cb' \in {"idle", "confirm"} /\ running' \in BOOLEAN
      BY <2>2 DEF AppExit
    <3>3. QED
      BY <3>1, <3>2
  <2>3. CASE OtherEvent
    BY <2>3 DEF OtherEvent
  <2>4. CASE Confirm
    BY <2>4 DEF Confirm, CallSession
  <2>5. CASE CloseSession
    <3>1. UNCHANGED <<attached, cb, pc, queue, lineVars, mem, field, countVars,
                      writeVars, misused>>
      BY <2>5 DEF CloseSession
    <3>2. session' \in {"open", "closed"} /\ running' \in BOOLEAN
      BY <2>5 DEF CloseSession
    <3>3. QED
      BY <3>1, <3>2
  <2>6. CASE Attach
    BY <2>6 DEF Attach, CallSession
  <2>7. CASE SendStarted
    BY <2>7 DEF SendStarted, CallSession
  <2>8. CASE SendHello
    BY <2>8 DEF SendHello, CallSession
  <2>9. CASE CheckRunning
    BY <2>9 DEF CheckRunning
  <2>10. CASE GetLine
    <3>1. /\ queue' \in Seq(Lines) /\ Len(queue') <= QueueDepth
          /\ cmd' \in Commands
      BY <2>10, QueueEnds, DepthAssumption DEF GetLine
    <3>2. QED
      BY <2>10, <3>1 DEF GetLine
  <2>11. CASE GetTimesOut
    BY <2>11 DEF GetTimesOut
  <2>12. CASE Ping
    BY <2>12 DEF Ping, Serving, Answer, Decoded
  <2>13. CASE UnknownVerb
    BY <2>13 DEF UnknownVerb, Serving, Answer, Decoded
  <2>14. CASE Read
    BY <2>14, DecodeType DEF Read, Serving, Answer, Decoded, Reads
  <2>15. CASE StartWrite
    <3>1. pc' \in Places /\ reply' \in Replies /\ steady' \in BOOLEAN
      <4>1. CASE \E kind \in Refusals : Answer(kind, NoUrl) /\ UNCHANGED steady
        BY <4>1 DEF Answer, Decoded
      <4>2. ASSUME NEW n \in Reads,
                   IF Refusal(n) = "none" THEN pc' = "write" /\ UNCHANGED reply
                                          ELSE Answer(Refusal(n), NoUrl),
                   steady' = (n = TotalPages)
            PROVE  pc' \in Places /\ reply' \in Replies /\ steady' \in BOOLEAN
        <5>1. Refusal(n) \in Refusals \cup {"none"}
          BY DEF Refusal
        <5>2. steady' \in BOOLEAN
          BY <4>2
        <5>3. QED
          BY <4>2, <5>1, <5>2 DEF Answer, Decoded
      <4>3. QED
        BY <2>15, <4>1, <4>2 DEF StartWrite
    <3>2. carried' \in Decoded
      <4>1. CASE UNCHANGED carried
        BY <4>1
      <4>2. CASE /\ \E n \in Reads : TRUE
                 /\ carried' = IF cmd.verb = "WRITE" THEN Carries(field) ELSE NoUrl
        <5>1. field \in Tags
          BY <4>2 DEF Reads
        <5>2. QED
          BY <4>2, <5>1, DecodeType, PagesAssumption DEF Carries, Decoded
      <4>3. QED
        BY <2>15, <4>1, <4>2 DEF StartWrite
    <3>3. QED
      BY <2>15, <3>1, <3>2 DEF StartWrite, Serving
  <2>16. CASE WritePage
    <3>1. PICK written, known \in BOOLEAN :
            /\ written => field # NoTag
            /\ IF written THEN /\ mem' = [mem EXCEPT ![field][index] = cmd.url]
                               /\ put' = put + 1
                          ELSE UNCHANGED <<mem, put>>
            /\ IF known THEN index' = index + 1 /\ UNCHANGED <<pc, reply>>
                        ELSE Answer("read_back_failed", NoUrl) /\ UNCHANGED index
      BY <2>16 DEF WritePage
    <3>2. put' \in Nat /\ index' \in Nat \ {0}
      BY <3>1
    <3>3. pc' \in Places /\ reply' \in Replies
      BY <3>1 DEF Answer, Decoded
    <3>4. mem' \in [Tags -> [Memory -> Urls \cup Others]]
      <4>1. cmd.url \in Urls
        BY <2>16 DEF WritePage, WritesUrl
      <4>2. QED
        BY <3>1, <4>1
    <3>5. QED
      BY <2>16, <3>2, <3>3, <3>4 DEF WritePage
  <2>17. CASE ReadBack
    BY <2>17, DecodeType DEF ReadBack, Answer, Decoded, Reads
  <2>18. CASE SendReply
    BY <2>18 DEF SendReply, CallSession, NoLine, NoReply, Decoded
  <2>19. CASE SendExited
    BY <2>19 DEF SendExited, CallSession
  <2>20. CASE Detach
    <3>1. queue' \in Seq(Lines) /\ Len(queue') <= QueueDepth
      BY <2>20, DepthAssumption DEF Detach
    <3>2. QED
      BY <2>20, <3>1 DEF Detach, CallSession
  <2>21. CASE MoveTag
    BY <2>21 DEF MoveTag
  <2>22. CASE Stopped
    BY <2>22 DEF Stopped, vars
  <2>23. CASE UNCHANGED vars
    BY <2>23 DEF vars
  <2>24. QED
    BY <2>1, <2>2, <2>3, <2>4, <2>5, <2>6, <2>7, <2>8, <2>9, <2>10,
       <2>11, <2>12, <2>13, <2>14, <2>15, <2>16, <2>17, <2>18, <2>19,
       <2>20, <2>21, <2>22, <2>23
    DEF Next, App, Host
<1>3. QED
  BY <1>1, <1>2, WritesUrlStep, PTL DEF Spec

\* Every variable keeps its type, and the queue its bound.
THEOREM TypeCorrect == Spec => []TypeOK
BY TypeInvariant, PTL

\* A line is answered once, in hand, queued or lost.
THEOREM LinesAreAccountedFor == Spec => []LinesAccountedFor
<1>1. Init => LinesAccountedFor
  BY DEF Init, LinesAccountedFor, InHand
<1>2. LinesAccountedFor /\ TypeOK /\ [Next]_vars => LinesAccountedFor'
  <2> SUFFICES ASSUME LinesAccountedFor, TypeOK, [Next]_vars
               PROVE  LinesAccountedFor'
    OBVIOUS
  <2> USE DEF LinesAccountedFor, InHand, TypeOK, rpcVars, lineVars, countVars, writeVars
  <2>1. ASSUME NEW line \in Lines, ReceiveLine(line) PROVE LinesAccountedFor'
    <3>1. CASE Len(queue) < QueueDepth
      <4>1. Len(queue') = Len(queue) + 1 /\ UNCHANGED dropped
        BY <2>1, <3>1 DEF ReceiveLine
      <4>2. QED
        BY <2>1, <4>1 DEF ReceiveLine
    <3>2. CASE ~(Len(queue) < QueueDepth)
      BY <2>1, <3>2 DEF ReceiveLine
    <3>3. QED
      BY <3>1, <3>2
  <2>2. CASE AppExit
    BY <2>2 DEF AppExit
  <2>3. CASE OtherEvent
    BY <2>3 DEF OtherEvent
  <2>4. CASE Confirm
    BY <2>4 DEF Confirm, CallSession
  <2>5. CASE CloseSession
    BY <2>5 DEF CloseSession
  <2>6. CASE Attach
    BY <2>6 DEF Attach, CallSession
  <2>7. CASE SendStarted
    BY <2>7 DEF SendStarted, CallSession
  <2>8. CASE SendHello
    BY <2>8 DEF SendHello, CallSession
  <2>9. CASE CheckRunning
    BY <2>9 DEF CheckRunning
  <2>10. CASE GetLine
    <3>1. Len(queue) \in Nat /\ Len(queue') = Len(queue) - 1
      BY <2>10, QueueEnds DEF GetLine
    <3>2. QED
      BY <2>10, <3>1 DEF GetLine
  <2>11. CASE GetTimesOut
    BY <2>11 DEF GetTimesOut
  <2>12. CASE Ping
    BY <2>12 DEF Ping, Serving, Answer
  <2>13. CASE UnknownVerb
    BY <2>13 DEF UnknownVerb, Serving, Answer
  <2>14. CASE Read
    BY <2>14 DEF Read, Serving, Answer
  <2>15. CASE StartWrite
    BY <2>15 DEF StartWrite, Serving, Answer
  <2>16. CASE WritePage
    BY <2>16 DEF WritePage, Answer
  <2>17. CASE ReadBack
    BY <2>17 DEF ReadBack, Answer
  <2>18. CASE SendReply
    BY <2>18 DEF SendReply, CallSession
  <2>19. CASE SendExited
    BY <2>19 DEF SendExited, CallSession
  <2>20. CASE Detach
    BY <2>20 DEF Detach, CallSession
  <2>21. CASE MoveTag
    BY <2>21 DEF MoveTag
  <2>22. CASE Stopped
    BY <2>22 DEF Stopped, vars
  <2>23. CASE UNCHANGED vars
    BY <2>23 DEF vars
  <2>24. QED
    BY <2>1, <2>2, <2>3, <2>4, <2>5, <2>6, <2>7, <2>8, <2>9, <2>10,
       <2>11, <2>12, <2>13, <2>14, <2>15, <2>16, <2>17, <2>18, <2>19,
       <2>20, <2>21, <2>22, <2>23
    DEF Next, App, Host
<1>3. QED
  BY <1>1, <1>2, TypeCorrect, PTL DEF Spec
-----------------------------------------------------------------------------
(* The page loop.                                                          *)

\* The pages counted are those before the next one.
PutInv ==
  /\ pc \notin {"write", "reply"} => put = 0
  /\ pc = "write" => put = index - 1 /\ index <= UrlPages[cmd.url] + 1
  /\ PartialWriteTold

\* The steps that leave the line in hand and its tag alone.
Aside ==
  /\ UNCHANGED <<mem, put, carried>>
  /\ \/ UNCHANGED <<pc, cmd, index, reply>> /\ (steady' => steady /\ UNCHANGED field)
     \/ /\ pc \notin {"write", "reply"} /\ pc' \notin {"write", "reply"}

\* The steps that answer a line other than a write's.
Spoken ==
  /\ pc = "serve" /\ pc' = "reply" /\ UNCHANGED <<mem, put, carried>>
  /\ reply'.kind \in {"PONG", "unsupported", "NONE", "TAG"}

\* What a step is to the page loop.
LEMMA StepKinds ==
  ASSUME TypeOK, [Next]_vars
  PROVE  \/ Aside \/ Spoken \/ StartWrite \/ WritePage \/ ReadBack \/ SendReply
         \/ MoveTag
<1> USE DEF Aside, rpcVars, lineVars, countVars, writeVars
<1>1. CASE Host
  <2>1. UNCHANGED <<mem, put, carried, pc, cmd, index, reply, steady, field>>
    BY <1>1 DEF Host, ReceiveLine, AppExit, OtherEvent, Confirm, CloseSession
  <2>2. QED
    BY <2>1
<1>2. CASE Attach \/ SendStarted \/ SendHello \/ CheckRunning \/ GetLine
           \/ GetTimesOut \/ SendExited \/ Detach
  BY <1>2 DEF Attach, SendStarted, SendHello, CheckRunning, GetLine, GetTimesOut,
              SendExited, Detach
<1>3. CASE Ping \/ UnknownVerb \/ Read
  <2>1. reply'.kind \in {"PONG", "unsupported", "NONE", "TAG"}
    BY <1>3 DEF Ping, UnknownVerb, Read, Answer
  <2>2. QED
    BY <1>3, <2>1 DEF Spoken, Ping, UnknownVerb, Read, Serving, Answer
<1>4. CASE Stopped \/ UNCHANGED vars
  BY <1>4 DEF Stopped, vars
<1>5. QED
  BY <1>1, <1>2, <1>3, <1>4 DEF Next, App

LEMMA PutStart == Init => PutInv
BY DEF Init, PutInv, PartialWriteTold

LEMMA PutStep ==
  ASSUME TypeOK, WritesUrl, PutInv, [Next]_vars
  PROVE  PutInv'
<1> USE DEF PutInv, PartialWriteTold
<1>1. CASE Aside
  BY <1>1 DEF Aside
<1>2. CASE Spoken
  <2>1. put' = 0
    BY <1>2 DEF Spoken
  <2>2. QED
    BY <1>2, <2>1 DEF Spoken
<1>3. CASE StartWrite
  <2>1. put' = 0 /\ cmd' = cmd /\ index' = 1
    BY <1>3 DEF StartWrite, Serving
  <2>2. WritesUrl' /\ pc' \in {"write", "reply"}
    BY <1>3, WritesUrlStep DEF StartWrite, Answer
  <2>3. QED
    BY <2>1, <2>2 DEF WritesUrl
<1>4. CASE WritePage
  <2>1. PICK written, known \in BOOLEAN :
          /\ known => written
          /\ IF written THEN put' = put + 1 ELSE put' = put
          /\ IF known THEN index' = index + 1 /\ UNCHANGED <<pc, reply>>
                      ELSE Answer("read_back_failed", NoUrl) /\ UNCHANGED index
    BY <1>4 DEF WritePage
  <2>2. /\ pc = "write" /\ cmd' = cmd /\ index <= UrlPages[cmd.url]
        /\ UrlPages[cmd.url] \in Nat /\ index \in Nat
    BY <1>4 DEF WritePage, WritesUrl, TypeOK
  <2>3. CASE known
    BY <2>1, <2>2, <2>3
  <2>4. CASE ~known
    BY <2>1, <2>2, <2>4 DEF Answer, Refusals
  <2>5. QED
    BY <2>3, <2>4
<1>5. CASE ReadBack
  <2>1. pc' = "reply" /\ reply'.kind = "WROTE" /\ put' = put /\ cmd' = cmd
    BY <1>5 DEF ReadBack, Answer, writeVars
  <2>2. put = UrlPages[cmd.url]
    BY <1>5 DEF ReadBack, WritesUrl, TypeOK
  <2>3. QED
    BY <2>1, <2>2 DEF Refusals, TypeOK
<1>6. CASE SendReply
  BY <1>6 DEF SendReply
<1>7. CASE MoveTag
  BY <1>7 DEF MoveTag, lineVars
<1>8. QED
  BY <1>1, <1>2, <1>3, <1>4, <1>5, <1>6, <1>7, StepKinds
-----------------------------------------------------------------------------
(* What the tag carries.                                                   *)

\* The pages of an image hold it all, and no more than it needs; its second page
\* holds some of its record.
LEMMA ImagePages ==
  ASSUME NEW url \in Urls, UrlPages[url] # 0
  PROVE  /\ UrlSize[url] \in Nat /\ UrlPages[url] \in Nat
         /\ PagesFor(UrlSize[url] - 1) \in 2..UrlPages[url]
         /\ UrlSize[url] <= NDEF_PAGE_SIZE * UrlPages[url]
<1> DEFINE size == UrlSize[url]
<1>1. size \in Nat /\ UrlPages[url] = (size + 3) \div 4
  BY SizeAssumption DEF UrlPages, PagesFor, NDEF_PAGE_SIZE
<1>2. size \in Nat \ 0..7
  BY <1>1, SizeAssumption
<1>3. PagesFor(size - 1) = (size + 2) \div 4
  BY <1>2 DEF PagesFor, NDEF_PAGE_SIZE
<1> HIDE DEF size
<1>4. /\ (size + 3) \div 4 \in Nat /\ (size + 2) \div 4 \in 2..((size + 3) \div 4)
      /\ size <= 4 * ((size + 3) \div 4)
  BY <1>2
<1>5. QED
  BY <1>1, <1>3, <1>4 DEF size, NDEF_PAGE_SIZE

\* A tag that begins with a URL's whole image says that URL or, when not enough of
\* it is read, nothing.
LEMMA WholeImage ==
  ASSUME NEW m \in [Memory -> Urls \cup Others], NEW url \in Urls,
         UrlPages[url] \in 1..TotalPages,
         \A i \in 1..UrlPages[url] : m[i] = url,
         NEW n \in 0..TotalPages
  PROVE  /\ Decode(m, n) \in {url, NoUrl}
         /\ UrlPages[url] <= n => Decode(m, n) = url
<1> DEFINE places == 2..PagesFor(UrlSize[url] - 1)
<1>1. /\ UrlSize[url] \in Nat /\ UrlPages[url] \in Nat
      /\ PagesFor(UrlSize[url] - 1) \in 2..UrlPages[url]
      /\ UrlSize[url] <= NDEF_PAGE_SIZE * UrlPages[url]
  BY ImagePages
<1>2. 1 \in 1..UrlPages[url] /\ 2 \in 1..UrlPages[url] /\ places \subseteq 1..UrlPages[url]
  BY <1>1
<1>3. m[1] = url /\ m[2] = url /\ url \notin Others /\ \A i \in places : m[i] = url
  BY <1>2, UrlAssumption
<1>4. \A i \in places : ~Breaks(i, m[i], UrlSize[url])
  <2> SUFFICES ASSUME NEW i \in places, NEW j \in Nat, j >= 1, j < UrlSize[url]
               PROVE  j \in TextOf(m[i])
    BY DEF Breaks, NDEF_PAGE_SIZE
  <2>1. TextOf(m[i]) = 1..UrlSize[url]
    BY <1>3 DEF TextOf
  <2>2. QED
    BY <1>1, <2>1
<1>5. Spelt([i \in TextPlaces(m[2]) |-> m[i]]) = url
  <2>1. [i \in TextPlaces(m[2]) |-> m[i]] = [i \in TextPlaces(url) |-> url]
    BY <1>3 DEF TextPlaces
  <2>2. UrlSize[url] # 0
    BY ImagePages, SizeAssumption DEF UrlPages, PagesFor, NDEF_PAGE_SIZE
  <2>3. QED
    BY <2>1, <2>2, SpeltAssumption
<1>6. Decode(m, n) = IF UrlSize[url] - 1 > NDEF_PAGE_SIZE * n THEN NoUrl ELSE url
  <2>1. Size(m[1]) = UrlSize[url] /\ ~(UrlSize[m[2]] > Size(m[1])) /\ m[2] \notin Others
    BY <1>1, <1>3 DEF Size
  <2>2. ~\E i \in TextPlaces(m[2]) : Breaks(i, m[i], UrlSize[m[2]])
    BY <1>3, <1>4 DEF TextPlaces
  <2>3. QED
    BY <1>5, <2>1, <2>2 DEF Decode
<1>7. UrlPages[url] <= n => ~(UrlSize[url] - 1 > NDEF_PAGE_SIZE * n)
  BY <1>1 DEF NDEF_PAGE_SIZE
<1>8. QED
  BY <1>6, <1>7

\* Where nothing has come between the line and its tag, the tag carries the pages
\* written so far, and what a plain write has written over was no URL.
TagInv ==
  /\ pc = "write" /\ steady =>
       /\ field \in Tags
       /\ \A i \in Memory : i < index => mem[field][i] = cmd.url
       /\ cmd.verb = "WRITE" => carried = NoUrl
  /\ PlainWriteKeepsUrls
  /\ WroteIsTrue

LEMMA TagStart == Init => TagInv
BY DEF Init, TagInv, PlainWriteKeepsUrls, WroteIsTrue

LEMMA TagStep ==
  ASSUME TypeOK, WritesUrl, PutInv, TagInv, [Next]_vars
  PROVE  TagInv'
<1> USE DEF PlainWriteKeepsUrls, WroteIsTrue
<1>1. CASE Aside
  <2>1. CASE UNCHANGED <<pc, cmd, index, reply>> /\ (steady' => steady /\ UNCHANGED field)
    <3>1. UNCHANGED <<mem, put, carried>>
      BY <1>1 DEF Aside
    <3>2. QED
      BY <2>1, <3>1 DEF TagInv, Carries
  <2>2. CASE pc \notin {"write", "reply"} /\ pc' \notin {"write", "reply"}
    <3>1. put' = 0
      BY <1>1, <2>2 DEF Aside, PutInv
    <3>2. QED
      BY <2>2, <3>1 DEF TagInv
  <2>3. QED
    BY <1>1, <2>1, <2>2 DEF Aside
<1>2. CASE Spoken
  <2>1. put' = 0 /\ pc' = "reply" /\ reply'.kind # "WROTE"
    BY <1>2 DEF Spoken, PutInv
  <2>2. QED
    BY <2>1 DEF TagInv
<1>3. CASE StartWrite
  <2>1. put' = 0 /\ index' = 1 /\ UNCHANGED <<cmd, mem, field>>
    BY <1>3 DEF StartWrite, Serving, PutInv
  <2>2. CASE pc' = "reply" /\ reply'.kind # "WROTE"
    BY <2>1, <2>2 DEF TagInv
  <2>3. ASSUME NEW n \in Reads, Refusal(n) = "none", pc' = "write",
               steady' = (n = TotalPages), carried' = IF cmd.verb = "WRITE" THEN Carries(field) ELSE NoUrl
        PROVE  TagInv'
    <3>1. field \in Tags
      BY <2>3 DEF Reads, TypeOK
    <3>2. ASSUME steady', cmd.verb = "WRITE"
          PROVE  carried' = NoUrl
      BY <2>3, <3>2 DEF Refusal, Carries
    <3>3. \A i \in Memory : ~(i < index')
      BY <2>1 DEF Memory
    <3>4. QED
      BY <2>1, <2>3, <3>1, <3>2, <3>3 DEF TagInv
  <2>4. CASE \E kind \in {"unsupported", "no_tag"} : Answer(kind, NoUrl)
    BY <2>2, <2>4 DEF Answer
  <2>5. ASSUME NEW n \in Reads,
               IF Refusal(n) = "none" THEN pc' = "write" /\ UNCHANGED reply
                                      ELSE Answer(Refusal(n), NoUrl),
               steady' = (n = TotalPages), carried' = IF cmd.verb = "WRITE" THEN Carries(field) ELSE NoUrl
        PROVE  TagInv'
    <3>1. CASE Refusal(n) = "none"
      BY <2>3, <2>5, <3>1
    <3>2. CASE Refusal(n) # "none"
      BY <2>2, <2>5, <3>2 DEF Answer, Refusal
    <3>3. QED
      BY <3>1, <3>2
  <2>6. QED
    BY <1>3, <2>4, <2>5 DEF StartWrite
<1>4. CASE WritePage
  <2>1. PICK written, known \in BOOLEAN :
          /\ known => written
          /\ IF written THEN mem' = [mem EXCEPT ![field][index] = cmd.url]
                        ELSE mem' = mem
          /\ IF known THEN index' = index + 1 /\ UNCHANGED <<pc, reply>>
                      ELSE Answer("read_back_failed", NoUrl) /\ UNCHANGED index
    BY <1>4 DEF WritePage
  <2>2. /\ pc = "write" /\ UNCHANGED <<cmd, field, carried, steady>>
        /\ index \in Memory
    <3>1. pc = "write" /\ index <= UrlPages[cmd.url] /\ UrlPages[cmd.url] \in 1..TotalPages
      BY <1>4 DEF WritePage, WritesUrl
    <3>2. index \in Memory
      BY <3>1, PagesAssumption DEF Memory, TypeOK
    <3>3. QED
      BY <1>4, <3>1, <3>2 DEF WritePage
  <2>3. CASE ~steady
    BY <2>2, <2>3 DEF TagInv
  <2>4. CASE steady
    <3>1. /\ field \in Tags
          /\ \A i \in Memory : i < index => mem[field][i] = cmd.url
          /\ cmd.verb = "WRITE" => carried = NoUrl
      BY <2>2, <2>4 DEF TagInv
    <3>2. CASE known
      <4>1. mem' = [mem EXCEPT ![field][index] = cmd.url] /\ index' = index + 1 /\ pc' = "write"
        BY <2>1, <2>2, <3>2
      <4>2. \A i \in Memory : mem'[field][i] = IF i = index THEN cmd.url ELSE mem[field][i]
        BY <2>2, <3>1, <4>1 DEF TypeOK
      <4>3. \A i \in Memory : i < index' => mem'[field'][i] = cmd'.url
        BY <2>2, <3>1, <4>1, <4>2 DEF Memory
      <4>4. QED
        BY <2>2, <3>1, <4>1, <4>3 DEF TagInv
    <3>3. CASE ~known
      BY <2>1, <2>2, <3>1, <3>3 DEF TagInv, Answer
    <3>4. QED
      BY <3>2, <3>3
  <2>5. QED
    BY <2>3, <2>4
<1>5. CASE ReadBack
  <2>1. /\ pc = "write" /\ pc' = "reply" /\ index > UrlPages[cmd.url]
        /\ UNCHANGED <<cmd, mem, field, put, carried, steady>>
    BY <1>5 DEF ReadBack, Answer, writeVars
  <2>2. ASSUME steady, reply'.url # NoUrl
        PROVE  reply'.url = cmd.url /\ Carries(field) = cmd.url
    <3>1. field \in Tags /\ \A i \in Memory : i < index => mem[field][i] = cmd.url
      BY <2>1, <2>2 DEF TagInv
    <3>2. PICK n \in 0..TotalPages : reply'.url = Decode(mem[field], n)
      BY <1>5, <2>2 DEF ReadBack, Answer, Reads
    <3>3. cmd.url \in Urls /\ UrlPages[cmd.url] \in 1..TotalPages
      BY <2>1 DEF WritesUrl
    <3>4. \A i \in 1..UrlPages[cmd.url] : mem[field][i] = cmd.url
      BY <2>1, <3>1, <3>3, PagesAssumption DEF TypeOK, Memory
    <3>5. mem[field] \in [Memory -> Urls \cup Others] /\ TotalPages \in 0..TotalPages
      BY <3>1, PagesAssumption DEF TypeOK
    <3>6. Decode(mem[field], n) \in {cmd.url, NoUrl} /\ Decode(mem[field], TotalPages) = cmd.url
      BY <3>3, <3>4, <3>5, WholeImage
    <3>7. QED
      BY <2>2, <3>2, <3>3, <3>6 DEF Carries
  <2>3. put' > 0 /\ cmd'.verb = "WRITE" /\ steady' => carried' = NoUrl
    BY <2>1 DEF TagInv
  <2>4. Carries(field)' = Carries(field)
    BY <2>1 DEF Carries
  <2>5. QED
    BY <2>1, <2>2, <2>3, <2>4 DEF TagInv
<1>6. CASE SendReply
  BY <1>6 DEF SendReply, TagInv
<1>7. CASE MoveTag
  <2>1. CASE pc \in {"write", "reply"}
    <3>1. ~steady'
      BY <1>7, <2>1 DEF MoveTag
    <3>2. QED
      BY <3>1 DEF TagInv
  <2>2. CASE pc \notin {"write", "reply"}
    <3>1. pc' = pc /\ put' = 0
      BY <1>7, <2>2 DEF MoveTag, PutInv
    <3>2. QED
      BY <2>2, <3>1 DEF TagInv
  <2>3. QED
    BY <2>1, <2>2
<1>8. QED
  BY <1>1, <1>2, <1>3, <1>4, <1>5, <1>6, <1>7, StepKinds

LEMMA WriteInvariant == Spec => [](PutInv /\ TagInv)
<1>1. Init => PutInv /\ TagInv
  BY TagStart, PutStart
<1>2. TypeOK /\ WritesUrl /\ PutInv /\ TagInv /\ [Next]_vars => PutInv' /\ TagInv'
  BY PutStep, TagStep
<1>3. QED
  BY <1>1, <1>2, TypeInvariant, PTL DEF Spec

\* A write in pieces is told as one.
THEOREM PartialWritesAreTold == Spec => []PartialWriteTold
<1>1. PutInv => PartialWriteTold
  BY DEF PutInv
<1>2. QED
  BY <1>1, WriteInvariant, PTL

\* A plain WRITE leaves a tag's URL alone.
THEOREM PlainWritesKeepUrls == Spec => []PlainWriteKeepsUrls
<1>1. TagInv => PlainWriteKeepsUrls
  BY DEF TagInv
<1>2. QED
  BY <1>1, WriteInvariant, PTL

\* WROTE with a URL is the truth about the tag.
THEOREM WroteIsTheTruth == Spec => []WroteIsTrue
<1>1. TagInv => WroteIsTrue
  BY DEF TagInv
<1>2. QED
  BY <1>1, WriteInvariant, PTL
-----------------------------------------------------------------------------
(* The conversation.                                                       *)

\* The callback is heard only between its being set and its being taken off.
HeardInv == attached => pc \notin {"attach", "freed"}

LEMMA HeardInvariant == Spec => []HeardInv
<1>1. Init => HeardInv
  BY DEF Init, HeardInv
<1>2. HeardInv /\ [Next]_vars => HeardInv'
  <2> SUFFICES ASSUME HeardInv, [Next]_vars
               PROVE  HeardInv'
    OBVIOUS
  <2> USE DEF HeardInv, rpcVars
  <2>1. CASE Host \/ MoveTag \/ Stopped \/ UNCHANGED vars
    <3>1. UNCHANGED <<pc, attached>>
      BY <2>1 DEF Host, ReceiveLine, AppExit, OtherEvent, Confirm, CloseSession,
                  MoveTag, Stopped, vars
    <3>2. QED
      BY <3>1
  <2>2. CASE Detach
    BY <2>2 DEF Detach
  <2>3. CASE App /\ ~Detach
    <3>1. pc' \notin {"attach", "freed"}
      <4>1. CASE Attach \/ SendStarted \/ SendHello \/ CheckRunning \/ GetLine
                 \/ GetTimesOut \/ SendReply \/ SendExited
        BY <4>1 DEF Attach, SendStarted, SendHello, CheckRunning, GetLine,
                    GetTimesOut, SendReply, SendExited
      <4>2. CASE Ping \/ UnknownVerb \/ Read \/ StartWrite \/ WritePage \/ ReadBack
        BY <4>2 DEF Ping, UnknownVerb, Read, StartWrite, WritePage, ReadBack,
                    Serving, Answer
      <4>3. QED
        BY <2>3, <4>1, <4>2 DEF App
    <3>2. QED
      BY <3>1
  <2>4. QED
    BY <2>1, <2>2, <2>3 DEF Next
<1>3. QED
  BY <1>1, <1>2, PTL DEF Spec

\* The bridge keeps its promises to the host: every step is one of module
\* LineService's, or none that the host can tell.
THEOREM BridgeImplementsLineService == Spec => ImplementsLineService
<1> DEFINE Owed  == IF pc = "freed" THEN 0 ELSE Len(queue) + (IF InHand THEN 1 ELSE 0)
           Phase == IF pc \in {"attach", "started", "hello"} THEN "starting"
                    ELSE IF pc = "freed" THEN "stopped" ELSE "listening"
<1>1. Init => Service!Init
  BY DEF Init, Service!Init, InHand
<1>2. TypeOK /\ HeardInv /\ [Next]_vars => [Service!Next]_(Service!vars)
  <2> SUFFICES ASSUME TypeOK, HeardInv, [Next]_vars
               PROVE  Service!Next \/ (Owed' = Owed /\ Phase' = Phase)
    BY DEF Service!vars
  <2> USE DEF rpcVars, lineVars, countVars, writeVars, InHand
  <2>1. Len(queue) \in Nat /\ Len(queue) <= QueueDepth /\ QueueDepth \in Nat
    BY DepthAssumption DEF TypeOK
  <2>2. ASSUME NEW line \in Lines, ReceiveLine(line)
        PROVE  Service!Next \/ (Owed' = Owed /\ Phase' = Phase)
    <3>1. CASE Len(queue) < QueueDepth
      <4>1. Len(queue') = Len(queue) + 1 /\ pc' = pc /\ pc # "freed"
        BY <2>2, <3>1 DEF ReceiveLine, HeardInv, TypeOK
      <4>2. Service!Take
        BY <2>1, <3>1, <4>1 DEF Service!Take
      <4>3. QED
        BY <4>2 DEF Service!Next
    <3>2. CASE ~(Len(queue) < QueueDepth)
      BY <2>2, <3>2 DEF ReceiveLine
    <3>3. QED
      BY <3>1, <3>2
  <2>3. CASE SendHello
    <3>1. Service!Announce
      BY <2>3 DEF SendHello, Service!Announce
    <3>2. QED
      BY <3>1 DEF Service!Next
  <2>4. CASE SendReply
    <3>1. Service!Answer
      BY <2>1, <2>4 DEF SendReply, Service!Answer
    <3>2. QED
      BY <3>1 DEF Service!Next
  <2>5. CASE Detach
    <3>1. Service!Stop
      BY <2>5 DEF Detach, Service!Stop
    <3>2. QED
      BY <3>1 DEF Service!Next
  <2>6. CASE GetLine
    <3>1. Len(queue') = Len(queue) - 1 /\ pc = "get" /\ pc' = "serve"
      BY <2>6, QueueEnds DEF GetLine, TypeOK
    <3>2. QED
      BY <2>1, <3>1
  <2>7. CASE AppExit \/ OtherEvent \/ Confirm \/ CloseSession \/ MoveTag \/ Stopped
             \/ UNCHANGED vars
    <3>1. UNCHANGED <<pc, queue>>
      BY <2>7 DEF AppExit, OtherEvent, Confirm, CloseSession, MoveTag, Stopped, vars
    <3>2. QED
      BY <3>1
  <2>8. CASE Attach \/ SendStarted \/ CheckRunning \/ GetTimesOut \/ SendExited
    BY <2>8 DEF Attach, SendStarted, CheckRunning, GetTimesOut, SendExited
  <2>9. CASE Ping \/ UnknownVerb \/ Read \/ StartWrite \/ WritePage \/ ReadBack
    <3>1. queue' = queue /\ pc \in {"serve", "write"} /\ pc' \in {"write", "reply"}
      <4>1. CASE Ping \/ UnknownVerb \/ Read
        BY <4>1 DEF Ping, UnknownVerb, Read, Serving, Answer
      <4>2. CASE StartWrite
        BY <4>2 DEF StartWrite, Serving, Answer
      <4>3. CASE WritePage \/ ReadBack
        BY <4>3 DEF WritePage, ReadBack, Answer
      <4>4. QED
        BY <2>9, <4>1, <4>2, <4>3
    <3>2. QED
      BY <3>1
  <2>10. QED
    BY <2>2, <2>3, <2>4, <2>5, <2>6, <2>7, <2>8, <2>9 DEF Next, App, Host
<1>3. QED
  BY <1>1, <1>2, TypeCorrect, HeardInvariant, PTL DEF Spec, ImplementsLineService, Service!Spec
=============================================================================
