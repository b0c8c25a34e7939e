------------------------ MODULE DashDownload_proofs ------------------------
(***************************************************************************)
(* Theorems about DashDownload for content that is not layered, whatever   *)
(* the sizes of the files and of the buffers: the player buffers and plays *)
(* the segments in order and each of them once; a download that counts as  *)
(* finished has read the whole response to its request; the server is      *)
(* called again as long as it has something to send.                       *)
(***************************************************************************)
EXTENDS DashDownload, SequenceTheorems, TLAPS

\* The content is not layered.
NeverAborts == ~Aborts

\* A sequence holds the numbers that follow n.
Follows(s, n) == \A i \in 1 .. Len(s) : s[i] = n + i

Stored == Len(played) + Len(buffer)

PlayerTypes ==
  /\ file \in Nat
  /\ played \in Seq(Nat)
  /\ buffer \in Seq(Nat)

\* What has been played and what is buffered is one run of segments.
RunInStep ==
  /\ Follows(played, 0)
  /\ Follows(buffer, Len(played))

\* The segment file has been asked for and is not in the buffer.
IsAwaited == spaceTimer \/ (mpdParsed /\ ~finishedDownload)

\* At any time at most one thing will go on with the download: the file under
\* way, the segment without space, or the timer.
OneGoesOn ==
  /\ finishedDownload => mpdParsed
  /\ downloadTimer \/ spaceTimer => finishedDownload
  /\ ~(downloadTimer /\ spaceTimer)

\* How many segments have been stored then.
StoredInStep ==
  /\ IsAwaited => file = Stored + 1
  /\ downloadTimer => file = Stored
  /\ ~mpdParsed => file = Stored

\* The inductive invariant.
PlayerInStep ==
  /\ PlayerTypes
  /\ RunInStep
  /\ OneGoesOn
  /\ StoredInStep

-----------------------------------------------------------------------------
(* Sequences of segments.                                                  *)

LEMMA AppendFollows ==
  ASSUME NEW s \in Seq(Nat), NEW n \in Nat, Follows(s, n)
  PROVE  /\ Append(s, n + Len(s) + 1) \in Seq(Nat)
         /\ Len(Append(s, n + Len(s) + 1)) = Len(s) + 1
         /\ Follows(Append(s, n + Len(s) + 1), n)
BY DEF Follows

LEMMA TailFollows ==
  ASSUME NEW s \in Seq(Nat), NEW n \in Nat, Follows(s, n), s # << >>
  PROVE  /\ Tail(s) \in Seq(Nat)
         /\ Len(Tail(s)) = Len(s) - 1
         /\ Head(s) = n + 1
         /\ Follows(Tail(s), n + 1)
<1>1. Len(s) \in Nat /\ Len(s) > 0
  OBVIOUS
<1>2. Head(s) = n + 1
  BY <1>1 DEF Follows
<1>3. Tail(s) \in Seq(Nat) /\ Len(Tail(s)) = Len(s) - 1
  BY <1>1
<1>4. ASSUME NEW i \in 1 .. Len(Tail(s)) PROVE Tail(s)[i] = n + 1 + i
  <2>1. i + 1 \in 1 .. Len(s) /\ Tail(s)[i] = s[i + 1]
    BY <1>1, <1>3
  <2> QED
    BY <2>1, <1>3 DEF Follows
<1> QED
  BY <1>2, <1>3, <1>4 DEF Follows

LEMMA ConcatFollows ==
  ASSUME NEW s \in Seq(Nat), NEW t \in Seq(Nat), Follows(s, 0), Follows(t, Len(s))
  PROVE  \A i \in DOMAIN (s \o t) : (s \o t)[i] = i
<1>1. /\ s \o t \in Seq(Nat)
      /\ Len(s \o t) = Len(s) + Len(t)
      /\ DOMAIN (s \o t) = 1 .. Len(s) + Len(t)
      /\ Len(s) \in Nat /\ Len(t) \in Nat
  OBVIOUS
<1>2. ASSUME NEW i \in 1 .. Len(s) + Len(t) PROVE (s \o t)[i] = i
  <2>1. CASE i <= Len(s)
    BY <1>1, <2>1 DEF Follows
  <2>2. CASE i > Len(s)
    <3>1. (s \o t)[i] = t[i - Len(s)] /\ i - Len(s) \in 1 .. Len(t)
      BY <1>1, <2>2
    <3> QED
      BY <1>1, <3>1 DEF Follows
  <2> QED
    BY <1>1, <2>1, <2>2
<1> QED
  BY <1>1, <1>2

-----------------------------------------------------------------------------
(* The handlers that touch the player.                                     *)

\* OnMultimediaFile with the segment that is awaited.
LEMMA MultimediaFileInStep ==
  ASSUME PlayerInStep, file = Stored + 1, ~downloadTimer,
         mpdParsed, mpdParsed', finishedDownload', file' = file, played' = played,
         MultimediaFile(file)
  PROVE  PlayerInStep'
<1>1. /\ played \in Seq(Nat) /\ buffer \in Seq(Nat) /\ file \in Nat
      /\ Len(played) \in Nat /\ Len(buffer) \in Nat
      /\ Follows(played, 0) /\ Follows(buffer, Len(played))
      /\ file = Len(played) + Len(buffer) + 1
  BY DEF PlayerInStep, PlayerTypes, RunInStep, Stored
<1>2. CASE Len(buffer) < MaxBuffered
  <2>1. buffer' = Append(buffer, file) /\ downloadTimer' = TRUE /\ spaceTimer' = FALSE
    BY <1>2, Zenon DEF MultimediaFile
  <2>2. /\ buffer' \in Seq(Nat)
        /\ Len(buffer') = Len(buffer) + 1
        /\ Follows(buffer', Len(played))
    BY <1>1, <2>1, AppendFollows
  <2>3. file' = Stored'
    BY <1>1, <2>2 DEF Stored
  <2>4. PlayerTypes' /\ RunInStep'
    BY <1>1, <2>2 DEF PlayerTypes, RunInStep, Follows
  <2>5. OneGoesOn' /\ StoredInStep'
    BY <2>1, <2>3, Zenon DEF OneGoesOn, StoredInStep, IsAwaited
  <2> QED
    BY <2>4, <2>5 DEF PlayerInStep
<1>3. CASE ~(Len(buffer) < MaxBuffered)
  <2>1. buffer' = buffer /\ spaceTimer' = TRUE /\ downloadTimer' = downloadTimer
    BY <1>3, Zenon DEF MultimediaFile
  <2>2. PlayerTypes' /\ RunInStep' /\ file' = Stored' + 1
    BY <1>1, <2>1 DEF PlayerTypes, RunInStep, Follows, Stored
  <2>3. OneGoesOn' /\ StoredInStep'
    BY <2>1, <2>2, Zenon DEF OneGoesOn, StoredInStep, IsAwaited
  <2> QED
    BY <2>2, <2>3 DEF PlayerInStep
<1> QED
  BY <1>2, <1>3

\* OnMpdFile.
LEMMA MpdFileInStep ==
  ASSUME PlayerInStep, ~mpdParsed, finishedDownload', file' = file, played' = played,
         MpdFile
  PROVE  PlayerInStep'
<1>1. buffer' = buffer /\ spaceTimer' = spaceTimer /\ downloadTimer' = TRUE /\ mpdParsed' = TRUE
  BY Zenon DEF MpdFile
<1>2. PlayerTypes' /\ RunInStep' /\ Stored' = Stored
  BY <1>1 DEF PlayerInStep, PlayerTypes, RunInStep, Follows, Stored
<1>3. ~spaceTimer /\ file = Stored
  BY Zenon DEF PlayerInStep, OneGoesOn, StoredInStep
<1>4. OneGoesOn' /\ StoredInStep'
  BY <1>1, <1>2, <1>3, Zenon DEF OneGoesOn, StoredInStep, IsAwaited
<1> QED
  BY <1>2, <1>4 DEF PlayerInStep

LEMMA UntouchedInStep ==
  ASSUME PlayerInStep, UNCHANGED <<file, played, buffer, mpdParsed, finishedDownload,
                                   downloadTimer, spaceTimer>>
  PROVE  PlayerInStep'
<1>1. PlayerTypes' /\ RunInStep' /\ Stored' = Stored
  BY DEF PlayerInStep, PlayerTypes, RunInStep, Follows, Stored
<1>2. OneGoesOn' /\ StoredInStep'
  BY <1>1, Zenon DEF PlayerInStep, OneGoesOn, StoredInStep, IsAwaited
<1> QED
  BY <1>1, <1>2 DEF PlayerInStep

LEMMA DeliverInStep == PlayerInStep /\ Deliver => PlayerInStep'
<1> SUFFICES ASSUME PlayerInStep, Deliver PROVE PlayerInStep'
  OBVIOUS
<1>1. file' = file
  BY DEF Deliver
<1>2. CASE finishedDownload \/ ~active
  BY <1>1, <1>2, UntouchedInStep DEF Deliver, playerVars
<1>3. CASE ~(finishedDownload \/ ~active)
  <2>1. PICK n : Read(rxBuffer \o SubSeq(txBuffer, arrived - acked + 1, arrived - acked + n))
    BY <1>3, Zenon DEF Deliver
  <2>2. CASE finishedDownload'
    <3>1. FileReceived
      BY <2>1, <2>2, Zenon DEF Read
    <3>2. played' = played
      BY <3>1, Zenon DEF FileReceived
    <3>3. CASE mpdParsed
      <4>1. MultimediaFile(file) /\ mpdParsed' = mpdParsed
        BY <3>1, <3>3, Zenon DEF FileReceived
      <4>2. file = Stored + 1 /\ ~downloadTimer
        BY <1>3, <3>3, Zenon DEF PlayerInStep, OneGoesOn, StoredInStep, IsAwaited
      <4> QED
        BY <1>1, <2>2, <3>2, <3>3, <4>1, <4>2, MultimediaFileInStep
    <3>4. CASE ~mpdParsed
      <4>1. MpdFile
        BY <3>1, <3>4, Zenon DEF FileReceived
      <4> QED
        BY <1>1, <2>2, <3>2, <3>4, <4>1, MpdFileInStep
    <3> QED
      BY <3>3, <3>4
  <2>3. CASE ~finishedDownload'
    <3>1. UNCHANGED playerVars
      BY <2>1, <2>3, Zenon DEF Read
    <3>2. finishedDownload' \in BOOLEAN
      BY <2>1, Zenon DEF Read
    <3>3. UNCHANGED <<played, buffer, mpdParsed, downloadTimer, spaceTimer>>
      BY <3>1 DEF playerVars
    <3>4. PlayerTypes' /\ RunInStep' /\ Stored' = Stored
      BY <1>1, <3>3 DEF PlayerInStep, PlayerTypes, RunInStep, Follows, Stored
    <3>5. OneGoesOn' /\ StoredInStep'
      BY <1>1, <1>3, <2>3, <3>3, <3>4, Zenon
         DEF PlayerInStep, OneGoesOn, StoredInStep, IsAwaited
    <3> QED
      BY <3>4, <3>5 DEF PlayerInStep
  <2> QED
    BY <2>2, <2>3
<1> QED
  BY <1>2, <1>3

LEMMA TryAgainInStep == PlayerInStep /\ TryAgain => PlayerInStep'
<1> SUFFICES ASSUME PlayerInStep, TryAgain PROVE PlayerInStep'
  OBVIOUS
<1>1. /\ spaceTimer
      /\ UNCHANGED <<file, finishedDownload, mpdParsed, played>>
  BY DEF TryAgain, downloadVars
<1>2. file = Stored + 1 /\ ~downloadTimer /\ finishedDownload /\ mpdParsed
  BY <1>1, Zenon DEF PlayerInStep, OneGoesOn, StoredInStep, IsAwaited
<1>3. finishedDownload' /\ mpdParsed'
  BY <1>1, <1>2, Zenon
<1>4. CASE active
  <2>1. MultimediaFile(file)
    BY <1>4, Zenon DEF TryAgain
  <2> QED
    BY <1>1, <1>2, <1>3, <2>1, MultimediaFileInStep
<1>5. CASE ~active
  <2>1. spaceTimer' = FALSE /\ buffer' = buffer /\ downloadTimer' = downloadTimer
    BY <1>5, Zenon DEF TryAgain
  <2>2. PlayerTypes' /\ RunInStep'
    BY <1>1, <2>1 DEF PlayerInStep, PlayerTypes, RunInStep, Follows
  <2>3. OneGoesOn' /\ StoredInStep'
    BY <1>2, <1>3, <2>1, Zenon DEF OneGoesOn, StoredInStep, IsAwaited
  <2> QED
    BY <2>2, <2>3 DEF PlayerInStep
<1> QED
  BY <1>4, <1>5

LEMMA DownloadSegmentInStep == PlayerInStep /\ DownloadSegment => PlayerInStep'
<1> SUFFICES ASSUME PlayerInStep, DownloadSegment PROVE PlayerInStep'
  OBVIOUS
<1>1. /\ downloadTimer
      /\ downloadTimer' = FALSE
      /\ UNCHANGED <<mpdParsed, spaceTimer, buffer, played>>
  BY DEF DownloadSegment
<1>2. file = Stored /\ ~spaceTimer /\ finishedDownload /\ mpdParsed
  BY <1>1, Zenon DEF PlayerInStep, OneGoesOn, StoredInStep
<1>3. Stored' = Stored /\ RunInStep' /\ Stored \in Nat
  BY <1>1 DEF PlayerInStep, PlayerTypes, RunInStep, Follows, Stored
<1>4. CASE file < Last
  <2>1. file' = file + 1 /\ finishedDownload' = FALSE
    BY <1>4, Zenon DEF DownloadSegment, StartDownload
  <2>2. file' = Stored' + 1
    BY <1>2, <1>3, <2>1
  <2>3. PlayerTypes'
    BY <1>1, <2>1 DEF PlayerInStep, PlayerTypes
  <2>4. OneGoesOn' /\ StoredInStep'
    BY <1>1, <1>2, <2>1, <2>2, Zenon DEF OneGoesOn, StoredInStep, IsAwaited
  <2> QED
    BY <1>3, <2>3, <2>4 DEF PlayerInStep
<1>5. CASE ~(file < Last)
  <2>1. file' = file /\ finishedDownload' = finishedDownload
    <3>1. AllDownloaded
      BY <1>5, Zenon DEF DownloadSegment
    <3> QED
      BY <3>1 DEF AllDownloaded
  <2>2. PlayerTypes'
    BY <1>1, <2>1 DEF PlayerInStep, PlayerTypes
  <2>3. OneGoesOn' /\ StoredInStep'
    BY <1>1, <1>2, <2>1, Zenon DEF OneGoesOn, StoredInStep, IsAwaited
  <2> QED
    BY <1>3, <2>2, <2>3 DEF PlayerInStep
<1> QED
  BY <1>4, <1>5

LEMMA DoPlayInStep == NeverAborts /\ PlayerInStep /\ DoPlay => PlayerInStep'
<1> SUFFICES ASSUME NeverAborts, PlayerInStep, DoPlay PROVE PlayerInStep'
  OBVIOUS
<1>1. UNCHANGED <<file, mpdParsed, finishedDownload, spaceTimer>>
  BY DEF DoPlay
<1>2. downloadTimer' <=> downloadTimer
  BY Zenon DEF DoPlay, GivesUp, NeverAborts
<1>3. /\ played \in Seq(Nat) /\ buffer \in Seq(Nat) /\ file \in Nat
      /\ Len(played) \in Nat /\ Len(buffer) \in Nat
      /\ Follows(played, 0) /\ Follows(buffer, Len(played))
  BY DEF PlayerInStep, PlayerTypes, RunInStep
<1>4. /\ played' \in Seq(Nat) /\ buffer' \in Seq(Nat)
      /\ Follows(played', 0) /\ Follows(buffer', Len(played'))
      /\ Stored' = Stored
  <2>1. CASE buffer = << >>
    <3>1. buffer' = buffer /\ played' = played
      BY <2>1, Zenon DEF DoPlay
    <3> QED
      BY <1>3, <3>1 DEF Stored
  <2>2. CASE buffer # << >>
    <3>1. buffer' = Tail(buffer) /\ played' = Append(played, Head(buffer))
      BY <2>2, Zenon DEF DoPlay
    <3>2. /\ Tail(buffer) \in Seq(Nat)
          /\ Len(Tail(buffer)) = Len(buffer) - 1
          /\ Head(buffer) = Len(played) + 1
          /\ Follows(Tail(buffer), Len(played) + 1)
      BY <1>3, <2>2, TailFollows
    <3>3. /\ Append(played, 0 + Len(played) + 1) \in Seq(Nat)
          /\ Len(Append(played, 0 + Len(played) + 1)) = Len(played) + 1
          /\ Follows(Append(played, 0 + Len(played) + 1), 0)
      BY <1>3, AppendFollows
    <3>4. 0 + Len(played) + 1 = Head(buffer)
      BY <1>3, <3>2
    <3> QED
      BY <1>3, <3>1, <3>2, <3>3, <3>4 DEF Stored
  <2> QED
    BY <2>1, <2>2
<1>5. PlayerTypes' /\ RunInStep'
  BY <1>1, <1>3, <1>4 DEF PlayerTypes, RunInStep
<1>6. OneGoesOn' /\ StoredInStep'
  BY <1>1, <1>2, <1>4, Zenon DEF PlayerInStep, OneGoesOn, StoredInStep, IsAwaited
<1> QED
  BY <1>5, <1>6 DEF PlayerInStep

LEMMA InitPlayerInStep == DashInit => PlayerInStep
<1> SUFFICES ASSUME DashInit PROVE PlayerInStep
  OBVIOUS
<1>1. file = 0 /\ played = << >> /\ buffer = << >>
  BY DEF DashInit
<1>2. PlayerTypes /\ RunInStep /\ Stored = 0
  BY <1>1 DEF PlayerTypes, RunInStep, Follows, Stored
<1>3. OneGoesOn /\ StoredInStep
  BY <1>1, <1>2, Zenon DEF DashInit, OneGoesOn, StoredInStep, IsAwaited
<1> QED
  BY <1>2, <1>3 DEF PlayerInStep

\* The inductive invariant of the download loop of MultimediaConsumer: one
\* thing goes on with it, and the number of segments stored is the one the
\* file asked for says.
THEOREM PlayerInStepCorrect ==
  ASSUME NeverAborts PROVE DashSpec => []PlayerInStep
<1>1. DashInit => PlayerInStep
  BY InitPlayerInStep
<1>2. ASSUME PlayerInStep, [DashNext]_dashVars PROVE PlayerInStep'
  <2>1. CASE ConnectionComplete \/ ReceiveRequest \/ Acknowledge \/ UNCHANGED dashVars
    <3>1. UNCHANGED <<file, played, buffer, mpdParsed, finishedDownload, downloadTimer,
                      spaceTimer>>
      BY <2>1 DEF ConnectionComplete, ReceiveRequest, Acknowledge, dashVars, downloadVars,
                  playerVars
    <3> QED
      BY <1>2, <3>1, UntouchedInStep
  <2>2. CASE Deliver
    BY <1>2, <2>2, DeliverInStep
  <2>3. CASE TryAgain
    BY <1>2, <2>3, TryAgainInStep
  <2>4. CASE DownloadSegment
    BY <1>2, <2>4, DownloadSegmentInStep
  <2>5. CASE DoPlay
    BY <1>2, <2>5, DoPlayInStep
  <2> QED
    BY <1>2, <2>1, <2>2, <2>3, <2>4, <2>5 DEF DashNext
<1> QED
  BY <1>1, <1>2, PTL DEF DashSpec

\* Without aborts the segments are buffered and played each once and in order,
\* for every number of segments, every size and every capacity.
THEOREM SegmentsPlayedInOrder ==
  ASSUME NeverAborts PROVE DashSpec => []SegmentsInOrder
<1>1. PlayerInStep => SegmentsInOrder
  BY ConcatFollows DEF PlayerInStep, PlayerTypes, RunInStep, SegmentsInOrder
<1> QED
  BY <1>1, PlayerInStepCorrect, PTL

-----------------------------------------------------------------------------
(* The exchange over the connection.  The invariant says what is on its    *)
(* way at any time: the response to the request for file, each unit once   *)
(* and in order, split between what the client has read, what the socket   *)
(* of the server holds and what the server has still to hand over.         *)

Units == [file : 0 .. Last, header : BOOLEAN]

\* Unit i of the response with file f.
UnitOf(f, i) == IF i = 1 THEN [file |-> f, header |-> TRUE]
                ELSE [file |-> f, header |-> FALSE]

\* After its first k units, s goes on with unit n + 1 of the response.
Run(s, k, f, n) == \A i \in 1 .. Len(s) - k : s[k + i] = UnitOf(f, n + i)

Names == Seq(0 .. Last)
Texts == Seq(Units)
ServerTypes == [recvString : Names, toTransmit : Texts, current : Nat, total : Nat,
                isVirtual : BOOLEAN]

\* Nothing is left of an earlier exchange.
Idle(s) == s.recvString = << >> /\ s.toTransmit = << >>

\* The server answers the request for f.
Serving(s, f) ==
  /\ s.total = 1 + FileSize[f]
  /\ s.current <= s.total
  /\ s.current < s.total =>
       /\ s.recvString = <<f>>
       /\ s.isVirtual = (f # 0)
       /\ s.toTransmit = IF f = 0 THEN Response(f) ELSE Header(f)

\* The server and its send buffer when it is not running: it is called again
\* while something is left to send, and has tidied up after the last ACK.
AtRest(s, tx) ==
  /\ s.current < s.total => tx # << >>
  /\ (s.current >= s.total /\ tx = << >>) \/ s.total = 0 => Idle(s)

WireTypes ==
  /\ file \in 0 .. Last
  /\ server \in ServerTypes
  /\ readUnits \in Seq(Units)
  /\ txBuffer \in Seq(Units) /\ Len(txBuffer) <= TxCapacity
  /\ acked \in Nat /\ arrived \in Nat
  /\ acked <= arrived /\ arrived <= acked + Len(txBuffer)
  /\ rxBuffer = << >>

\* Units of the send buffer that are on their way to the client.
UnderWay == acked + Len(txBuffer) - arrived

\* The counters of HandleRead agree with what has been read.
Counted ==
  /\ isFirstPacket <=> readUnits = << >>
  /\ isFirstPacket => bytesRecv = 0
  /\ ~isFirstPacket => bytesRecv = Len(readUnits) - 1 /\ contentLength = FileSize[file]

\* What has been read and what is under way is one run of the response.
RunOfResponse ==
  /\ Run(readUnits, 0, file, 0)
  /\ Run(txBuffer, arrived - acked, file, Len(readUnits))

Connecting ==
  /\ requests = << >> /\ readUnits = << >> /\ txBuffer = << >> /\ arrived = acked
  /\ server.total = 0 /\ server.current = 0
  /\ ~finishedDownload

Requesting ==
  /\ requests = <<[file |-> file, ack |-> arrived]>>
  /\ readUnits = << >> /\ UnderWay = 0
  /\ server.current >= server.total
  /\ ~finishedDownload

Responding ==
  /\ Serving(server, file)
  /\ server.current = Len(readUnits) + UnderWay
  /\ finishedDownload <=> Len(readUnits) = 1 + FileSize[file]

Phases ==
  /\ connection = "connecting" => Connecting
  /\ requests # << >> => Requesting
  /\ connection # "connecting" /\ requests = << >> => Responding

\* The inductive invariant.
OneExchange ==
  /\ WireTypes
  /\ Counted
  /\ RunOfResponse
  /\ AtRest(server, txBuffer)
  /\ Phases

LEMMA UnitTypes ==
  ASSUME NEW f \in 0 .. Last
  PROVE  /\ [file |-> f, header |-> TRUE] \in Units
         /\ [file |-> f, header |-> FALSE] \in Units
BY DEF Units

LEMMA HeaderUnit ==
  ASSUME NEW f \in 0 .. Last
  PROVE  /\ Header(f) \in Seq(Units) /\ Len(Header(f)) = 1
         /\ Run(Header(f), 0, f, 0)
<1> DEFINE unit == [file |-> f, header |-> TRUE]
<1>1. /\ Header(f) \in Seq(Units) /\ Len(Header(f)) = 1
      /\ Header(f)[1] = unit
  <2>1. unit \in Units /\ Header(f) = <<unit>>
    BY UnitTypes DEF Header
  <2> HIDE DEF unit
  <2> QED
    BY <2>1
<1>2. ASSUME NEW i \in 1 .. 1 PROVE Header(f)[0 + i] = UnitOf(f, 0 + i)
  <2>1. i = 1 /\ 0 + i = 1
    OBVIOUS
  <2> QED
    BY <1>1, <2>1, Zenon DEF UnitOf
<1> QED
  BY <1>1, <1>2 DEF Run

LEMMA PayloadUnits ==
  ASSUME NEW f \in 0 .. Last, NEW k \in Nat, NEW n \in Nat \ {0}
  PROVE  /\ Payload(f, k) \in Seq(Units) /\ Len(Payload(f, k)) = k
         /\ Run(Payload(f, k), 0, f, n)
<1> DEFINE unit == [file |-> f, header |-> FALSE]
           s    == [i \in 1 .. k |-> unit]
<1>1. unit \in Units
  BY UnitTypes
<1> HIDE DEF unit
<1>2. s \in Seq(Units) /\ Len(s) = k /\ \A i \in 1 .. k : s[i] = unit
  BY <1>1
<1>3. Payload(f, k) = s
  BY DEF Payload, unit
<1>4. ASSUME NEW i \in 1 .. k PROVE UnitOf(f, n + i) = unit
  BY DEF UnitOf, unit
<1>5. ASSUME NEW i \in 1 .. k PROVE s[0 + i] = UnitOf(f, n + i)
  <2>1. 0 + i = i
    OBVIOUS
  <2> QED
    BY <1>2, <1>4, <2>1, Zenon
<1> QED
  BY <1>2, <1>3, <1>5 DEF Run

LEMMA ConcatElements ==
  ASSUME NEW S, NEW s \in Seq(S), NEW t \in Seq(S), NEW i \in 1 .. Len(s) + Len(t)
  PROVE  (s \o t)[i] = IF i <= Len(s) THEN s[i] ELSE t[i - Len(s)]
OBVIOUS

LEMMA RunConcat ==
  ASSUME NEW s \in Seq(Units), NEW t \in Seq(Units), NEW f \in 0 .. Last,
         NEW k \in Nat, k <= Len(s), NEW n \in Nat,
         Run(s, k, f, n), Run(t, 0, f, n + Len(s) - k)
  PROVE  /\ s \o t \in Seq(Units) /\ Len(s \o t) = Len(s) + Len(t)
         /\ Run(s \o t, k, f, n)
<1> DEFINE r == s \o t
<1>1. /\ r \in Seq(Units) /\ Len(r) = Len(s) + Len(t)
      /\ Len(s) \in Nat /\ Len(t) \in Nat
  OBVIOUS
<1>2. ASSUME NEW i \in 1 .. Len(s) + Len(t) - k PROVE r[k + i] = UnitOf(f, n + i)
  <2>1. CASE k + i <= Len(s)
    <3>1. i \in 1 .. Len(s) - k /\ k + i \in 1 .. Len(s) + Len(t)
      BY <1>1, <2>1
    <3>2. r[k + i] = s[k + i]
      BY <2>1, <3>1, ConcatElements
    <3> QED
      BY <3>1, <3>2 DEF Run
  <2>2. CASE k + i > Len(s)
    <3> DEFINE j == k + i - Len(s)
    <3>1. r[k + i] = t[j] /\ j \in 1 .. Len(t)
      <4>1. k + i \in 1 .. Len(s) + Len(t) /\ ~(k + i <= Len(s)) /\ j \in 1 .. Len(t)
        BY <1>1, <2>2
      <4> QED
        BY <4>1, ConcatElements, SMTT(30)
    <3>2. t[0 + j] = UnitOf(f, n + Len(s) - k + j)
      BY <1>1, <3>1 DEF Run
    <3>3. n + Len(s) - k + j = n + i /\ 0 + j = j
      BY <1>1
    <3> QED
      BY <3>1, <3>2, <3>3
  <2> QED
    BY <1>1, <2>1, <2>2
<1> HIDE DEF r
<1>3. Run(r, k, f, n)
  BY <1>1, <1>2 DEF Run
<1> QED
  BY <1>1, <1>3 DEF r

LEMMA ResponseUnits ==
  ASSUME NEW f \in 0 .. Last
  PROVE  /\ FileSize[f] \in Nat
         /\ Response(f) \in Seq(Units) /\ Len(Response(f)) = 1 + FileSize[f]
         /\ Run(Response(f), 0, f, 0)
<1>1. FileSize[f] \in Nat
  BY DashAssumption
<1>2. /\ Header(f) \in Seq(Units) /\ Len(Header(f)) = 1
      /\ Run(Header(f), 0, f, 0)
  BY HeaderUnit
<1>3. /\ Payload(f, FileSize[f]) \in Seq(Units)
      /\ Len(Payload(f, FileSize[f])) = FileSize[f]
      /\ Run(Payload(f, FileSize[f]), 0, f, 1)
  BY <1>1, PayloadUnits
<1>4. Run(Payload(f, FileSize[f]), 0, f, 0 + Len(Header(f)) - 0)
  BY <1>2, <1>3
<1> DEFINE h == Header(f)
           p == Payload(f, FileSize[f])
<1> HIDE DEF h, p
<1>5. /\ h \o p \in Seq(Units) /\ Len(h \o p) = Len(h) + Len(p)
      /\ Run(h \o p, 0, f, 0)
  <2>1. /\ h \in Seq(Units) /\ p \in Seq(Units) /\ 0 <= Len(h)
        /\ Run(h, 0, f, 0) /\ Run(p, 0, f, 0 + Len(h) - 0)
    BY <1>2, <1>3, <1>4 DEF h, p
  <2> QED
    BY <2>1, RunConcat
<1> QED
  BY <1>1, <1>2, <1>3, <1>5 DEF Response, h, p

\* What is left of s without its first j units.
Rest(s, j) == SubSeq(s, j + 1, Len(s))

\* An acknowledgement of j units.
LEMMA RunWithoutFirst ==
  ASSUME NEW s \in Seq(Units), NEW f \in 0 .. Last, NEW n \in Nat,
         NEW k \in Nat, k <= Len(s), NEW j \in 0 .. k, Run(s, k, f, n)
  PROVE  /\ Rest(s, j) \in Seq(Units)
         /\ Len(Rest(s, j)) = Len(s) - j
         /\ Run(Rest(s, j), k - j, f, n)
<1>1. /\ Rest(s, j) \in Seq(Units)
      /\ Len(Rest(s, j)) = Len(s) - j
      /\ \A i \in 1 .. Len(s) - j : Rest(s, j)[i] = s[j + i]
  <2>1. Len(s) \in Nat
    OBVIOUS
  <2> QED
    BY <2>1 DEF Rest
<1>2. ASSUME NEW i \in 1 .. (Len(s) - j) - (k - j)
      PROVE  Rest(s, j)[k - j + i] = UnitOf(f, n + i)
  <2>1. i \in 1 .. Len(s) - k /\ k - j + i \in 1 .. Len(s) - j /\ j + (k - j + i) = k + i
    OBVIOUS
  <2> QED
    BY <1>1, <2>1 DEF Run
<1> QED
  BY <1>1, <1>2 DEF Run

\* The j units of s that follow the first k.
Part(s, k, j) == SubSeq(s, k + 1, k + j)

LEMMA PartElements ==
  ASSUME NEW S, NEW s \in Seq(S), NEW k \in Nat, NEW j \in Nat, k + j <= Len(s)
  PROVE  /\ Part(s, k, j) \in Seq(S) /\ Len(Part(s, k, j)) = j
         /\ \A i \in 1 .. j : Part(s, k, j)[i] = s[k + i]
<1>1. Part(s, k, j) \in Seq(S)
  BY DEF Part
<1>2. Len(Part(s, k, j)) = j
  BY DEF Part
<1>3. ASSUME NEW i \in 1 .. j PROVE Part(s, k, j)[i] = s[k + i]
  BY DEF Part
<1> QED
  BY <1>1, <1>2, <1>3

\* A delivery of j units.
LEMMA RunSplit ==
  ASSUME NEW s \in Seq(Units), NEW f \in 0 .. Last, NEW n \in Nat,
         NEW k \in Nat, NEW j \in Nat, k + j <= Len(s), Run(s, k, f, n)
  PROVE  /\ Part(s, k, j) \in Seq(Units) /\ Len(Part(s, k, j)) = j
         /\ Run(Part(s, k, j), 0, f, n)
         /\ Run(s, k + j, f, n + j)
<1>1. /\ Part(s, k, j) \in Seq(Units) /\ Len(Part(s, k, j)) = j
      /\ \A i \in 1 .. j : Part(s, k, j)[i] = s[k + i]
  BY PartElements
<1>2. Run(Part(s, k, j), 0, f, n)
  <2>1. ASSUME NEW i \in 1 .. j PROVE Part(s, k, j)[0 + i] = UnitOf(f, n + i)
    <3>1. i \in 1 .. Len(s) - k /\ 0 + i = i
      OBVIOUS
    <3> QED
      BY <1>1, <3>1 DEF Run
  <2> DEFINE p == Part(s, k, j)
  <2> HIDE DEF p
  <2> QED
    BY <1>1, <2>1 DEF Run, p
<1>3. ASSUME NEW i \in 1 .. Len(s) - (k + j) PROVE s[k + j + i] = UnitOf(f, n + j + i)
  <2>1. j + i \in 1 .. Len(s) - k /\ k + (j + i) = k + j + i /\ n + (j + i) = n + j + i
    OBVIOUS
  <2> QED
    BY <2>1 DEF Run
<1> QED
  BY <1>1, <1>2, <1>3 DEF Run

\* What goes into the send buffer continues the response, fits, and is not
\* nothing when the buffer is empty.
LEMMA ChunkUnits ==
  ASSUME NEW f \in 0 .. Last, NEW s \in ServerTypes, Serving(s, f), s.current < s.total,
         NEW tx \in Seq(Units), Len(tx) <= TxCapacity
  PROVE  /\ Chunk(s, tx) \in Seq(Units)
         /\ Len(Chunk(s, tx)) <= TxCapacity - Len(tx)
         /\ Len(Chunk(s, tx)) <= s.total - s.current
         /\ Run(Chunk(s, tx), 0, f, s.current)
         /\ tx = << >> => Len(Chunk(s, tx)) > 0
<1> DEFINE room == TxCapacity - Len(tx)
           left == s.total - s.current
           most == Smaller(left, room)
<1>1. /\ TxCapacity \in Nat /\ TxCapacity > 0
      /\ s.current \in Nat /\ s.total \in Nat
      /\ Len(tx) \in Nat /\ tx = << >> => Len(tx) = 0
      /\ FileSize[f] \in Nat /\ s.total = 1 + FileSize[f]
  BY DashAssumption DEF ServerTypes, Serving
<1>2. /\ s.recvString = <<f>> /\ s.isVirtual = (f # 0)
      /\ s.toTransmit = IF f = 0 THEN Response(f) ELSE Header(f)
  BY DEF Serving
<1>3. /\ room \in Nat /\ left \in Nat /\ left > 0
      /\ most \in Nat /\ most <= room /\ most <= left
      /\ room > 0 => most > 0
      /\ tx = << >> => room > 0
  BY <1>1 DEF Smaller
<1>4. Head(s.recvString) = f
  BY <1>2
<1> HIDE DEF most
<1>5. CASE f = 0
  <2>1. Chunk(s, tx) = SubSeq(Response(f), s.current + 1, s.current + most)
    BY <1>2, <1>5, Zenon DEF Chunk, most
  <2>2. /\ Response(f) \in Seq(Units) /\ Len(Response(f)) = 1 + FileSize[f]
        /\ Run(Response(f), 0, f, 0)
    BY ResponseUnits
  <2>3. Run(Response(f), s.current, f, s.current)
    BY <1>1, <2>2 DEF Run
  <2>4. s.current + most <= Len(Response(f))
    BY <1>1, <1>3, <2>2
  <2> HIDE DEF room, left
  <2>5. /\ Part(Response(f), s.current, most) \in Seq(Units)
        /\ Len(Part(Response(f), s.current, most)) = most
        /\ Run(Part(Response(f), s.current, most), 0, f, s.current)
    BY <1>1, <1>3, <2>2, <2>3, <2>4, RunSplit
  <2>6. Chunk(s, tx) = Part(Response(f), s.current, most)
    BY <2>1 DEF Part
  <2> QED
    BY <1>3, <2>5, <2>6 DEF room, left
<1>6. CASE f # 0 /\ s.current > 0
  <2>1. Chunk(s, tx) = Payload(f, most)
    <3>1. s.isVirtual
      BY <1>2, <1>6, Zenon
    <3> QED
      BY <1>4, <1>6, <3>1, Zenon DEF Chunk, most
  <2>2. /\ Chunk(s, tx) \in Seq(Units) /\ Len(Chunk(s, tx)) = most
        /\ Run(Chunk(s, tx), 0, f, s.current)
    <3>1. s.current \in Nat \ {0} /\ most \in Nat
      BY <1>1, <1>3, <1>6
    <3> QED
      BY <2>1, <3>1, PayloadUnits, Zenon
  <2> QED
    BY <1>3, <2>2
<1>7. CASE f # 0 /\ s.current = 0
  <2>1. s.isVirtual /\ s.toTransmit = Header(f) /\ ~(s.current > 0)
    <3>1. ~(s.current > 0)
      BY <1>7
    <3> QED
      BY <1>2, <1>7, <3>1, Zenon
  <2>2. Header(f) \in Seq(Units) /\ Len(Header(f)) = 1 /\ Run(Header(f), 0, f, 0)
    BY HeaderUnit
  <2>3. CASE 1 > room
    <3>1. Chunk(s, tx) = << >>
      BY <2>1, <2>2, <2>3, Zenon DEF Chunk
    <3>2. Run(Chunk(s, tx), 0, f, s.current) /\ Len(Chunk(s, tx)) = 0
      BY <3>1 DEF Run
    <3> QED
      BY <1>3, <2>3, <3>1, <3>2
  <2>4. CASE ~(1 > room)
    <3> DEFINE rest == AtLeastZero(most - 1)
    <3>1. Chunk(s, tx) = Header(f) \o Payload(f, rest)
      BY <1>4, <2>1, <2>2, <2>4, Zenon DEF Chunk, most
    <3>2. rest \in Nat /\ rest = most - 1
      BY <1>3, <2>4 DEF AtLeastZero
    <3> HIDE DEF rest
    <3>3. /\ Payload(f, rest) \in Seq(Units) /\ Len(Payload(f, rest)) = rest
          /\ Run(Payload(f, rest), 0, f, 1)
      BY <3>2, PayloadUnits
    <3>4. Run(Payload(f, rest), 0, f, 0 + Len(Header(f)) - 0) /\ 0 <= Len(Header(f))
      BY <2>2, <3>3
    <3> DEFINE h == Header(f)
               p == Payload(f, rest)
    <3> HIDE DEF h, p
    <3>5. h \in Seq(Units) /\ p \in Seq(Units) /\ 0 <= Len(h)
          /\ Run(h, 0, f, 0) /\ Run(p, 0, f, 0 + Len(h) - 0)
      BY <2>2, <3>3, <3>4 DEF h, p
    <3>6. h \o p \in Seq(Units) /\ Len(h \o p) = Len(h) + Len(p) /\ Run(h \o p, 0, f, 0)
      BY <3>5, RunConcat
    <3>7. Len(h) + Len(p) = most
      BY <1>3, <2>2, <3>2, <3>3 DEF h, p
    <3>8. /\ Chunk(s, tx) \in Seq(Units) /\ Len(Chunk(s, tx)) = most
          /\ Run(Chunk(s, tx), 0, f, 0)
      BY <3>1, <3>6, <3>7, Zenon DEF h, p
    <3> QED
      BY <1>3, <1>7, <2>4, <3>8
  <2> QED
    BY <2>3, <2>4
<1> QED
  BY <1>1, <1>5, <1>6, <1>7

LEMMA ClearedServer ==
  ASSUME NEW s \in ServerTypes
  PROVE  /\ Cleared(s) \in ServerTypes /\ Idle(Cleared(s))
         /\ Cleared(s).current = s.current /\ Cleared(s).total = s.total
<1>1. << >> \in Names /\ << >> \in Texts
  BY DEF Names, Texts
<1>2. Cleared(s) \in ServerTypes
  BY <1>1 DEF Cleared, ServerTypes
<1>3. Cleared(s).recvString = << >> /\ Cleared(s).toTransmit = << >>
  BY DEF Cleared, ServerTypes
<1>4. Cleared(s).current = s.current /\ Cleared(s).total = s.total
  BY DEF Cleared, ServerTypes
<1> QED
  BY <1>2, <1>3, <1>4 DEF Idle

\* The ways in which the members of the server are assigned.
Sent(s, n) == [s EXCEPT !.current = @ + n]
Asked(s, names) == [s EXCEPT !.recvString = names, !.current = 0, !.total = 0]
Prepare(s, v, n, text) == [s EXCEPT !.isVirtual = v, !.total = n, !.toTransmit = text]

LEMMA ServerSent ==
  ASSUME NEW s \in ServerTypes, NEW n \in Nat
  PROVE  /\ Sent(s, n) \in ServerTypes
         /\ Sent(s, n).current = s.current + n /\ Sent(s, n).total = s.total
         /\ Sent(s, n).recvString = s.recvString
         /\ Sent(s, n).toTransmit = s.toTransmit
         /\ Sent(s, n).isVirtual = s.isVirtual
<1>1. Sent(s, n) \in ServerTypes
  BY DEF ServerTypes, Sent
<1>2. Sent(s, n).current = s.current + n /\ Sent(s, n).total = s.total
  BY DEF ServerTypes, Sent
<1>3. /\ Sent(s, n).recvString = s.recvString
      /\ Sent(s, n).toTransmit = s.toTransmit
      /\ Sent(s, n).isVirtual = s.isVirtual
  BY DEF ServerTypes, Sent
<1> QED
  BY <1>1, <1>2, <1>3

LEMMA ServerAsked ==
  ASSUME NEW s \in ServerTypes, NEW names \in Names
  PROVE  /\ Asked(s, names) \in ServerTypes
         /\ Asked(s, names).recvString = names
         /\ Asked(s, names).toTransmit = s.toTransmit
         /\ Asked(s, names).current = 0 /\ Asked(s, names).total = 0
<1>1. Asked(s, names) \in ServerTypes
  BY DEF ServerTypes, Asked
<1>2. /\ Asked(s, names).recvString = names
      /\ Asked(s, names).toTransmit = s.toTransmit
      /\ Asked(s, names).current = 0 /\ Asked(s, names).total = 0
  BY DEF ServerTypes, Asked
<1> QED
  BY <1>1, <1>2

LEMMA ServerPrepared ==
  ASSUME NEW s \in ServerTypes, NEW v \in BOOLEAN, NEW n \in Nat, NEW text \in Texts
  PROVE  /\ Prepare(s, v, n, text) \in ServerTypes
         /\ Prepare(s, v, n, text).recvString = s.recvString
         /\ Prepare(s, v, n, text).toTransmit = text
         /\ Prepare(s, v, n, text).current = s.current
         /\ Prepare(s, v, n, text).total = n
         /\ Prepare(s, v, n, text).isVirtual = v
<1>1. Prepare(s, v, n, text) \in ServerTypes
  BY DEF ServerTypes, Prepare
<1>2. /\ Prepare(s, v, n, text).recvString = s.recvString
      /\ Prepare(s, v, n, text).toTransmit = text
      /\ Prepare(s, v, n, text).current = s.current
  BY DEF ServerTypes, Prepare
<1>3. Prepare(s, v, n, text).total = n /\ Prepare(s, v, n, text).isVirtual = v
  BY DEF ServerTypes, Prepare
<1> QED
  BY <1>1, <1>2, <1>3

\* The server and its send buffer, r, serve the request for f: k units of the
\* buffer are at the client, and the n units of the response it has read too.
Serves(r, f, k, n) ==
  /\ r.s \in ServerTypes /\ Serving(r.s, f)
  /\ r.tx \in Seq(Units) /\ k <= Len(r.tx) /\ Len(r.tx) <= TxCapacity
  /\ r.s.current = n + Len(r.tx) - k
  /\ Run(r.tx, k, f, n)
  /\ AtRest(r.s, r.tx)

\* A call of HandleReadyToTransmit goes on with the response.
LEMMA ReadyToTransmitGoesOn ==
  ASSUME NEW f \in 0 .. Last, NEW s \in ServerTypes, Serving(s, f),
         NEW tx \in Seq(Units), Len(tx) <= TxCapacity,
         NEW k \in Nat, k <= Len(tx), NEW n \in Nat,
         s.current = n + Len(tx) - k, Run(tx, k, f, n)
  PROVE  Serves(ReadyToTransmit(s, tx), f, k, n)
<1> DEFINE r == ReadyToTransmit(s, tx)
<1>1. /\ s.current \in Nat /\ s.total \in Nat /\ s.total # 0
      /\ FileSize[f] \in Nat /\ s.total = 1 + FileSize[f] /\ TxCapacity \in Nat
      /\ Len(tx) \in Nat
  BY DashAssumption DEF ServerTypes, Serving
<1>2. CASE s.current >= s.total
  <2>1. r.s = Cleared(s) /\ r.tx = tx
    BY <1>1, <1>2 DEF ReadyToTransmit
  <2>2. /\ Cleared(s) \in ServerTypes
        /\ Cleared(s).current = s.current /\ Cleared(s).total = s.total
        /\ Idle(Cleared(s))
    BY ClearedServer
  <2>3. Serving(r.s, f)
    BY <1>1, <1>2, <2>1, <2>2 DEF Serving
  <2>4. AtRest(r.s, r.tx)
    BY <1>1, <1>2, <2>1, <2>2 DEF AtRest
  <2> HIDE DEF r
  <2>5. k <= Len(r.tx) /\ Len(r.tx) <= TxCapacity /\ r.s.current = n + Len(r.tx) - k
    BY <2>1, <2>2
  <2>6. r.tx \in Seq(Units) /\ Run(r.tx, k, f, n) /\ r.s \in ServerTypes
    BY <2>1, <2>2, Zenon
  <2> QED
    BY <2>3, <2>4, <2>5, <2>6, Zenon DEF Serves, r
<1>3. CASE s.current < s.total
  <2> DEFINE c == Chunk(s, tx)
             t == Sent(s, Len(c))
  <2>1. /\ c \in Seq(Units) /\ Len(c) <= TxCapacity - Len(tx)
        /\ Len(c) <= s.total - s.current /\ Run(c, 0, f, s.current)
        /\ tx = << >> => Len(c) > 0
    BY <1>3, ChunkUnits
  <2>2. r.s = t /\ r.tx = tx \o c
    <3>1. ~(s.current >= s.total)
      BY <1>1, <1>3
    <3> QED
      BY <1>1, <3>1 DEF ReadyToTransmit, Sent
  <2> HIDE DEF c
  <2>3. Len(c) \in Nat
    BY <2>1
  <2>4. /\ t \in ServerTypes
        /\ t.current = s.current + Len(c) /\ t.total = s.total
        /\ t.recvString = s.recvString /\ t.toTransmit = s.toTransmit
        /\ t.isVirtual = s.isVirtual
    BY <2>3, ServerSent
  <2> HIDE DEF t
  <2>5. Serving(t, f)
    <3>1. t.total = 1 + FileSize[f] /\ t.current <= t.total
      BY <1>1, <2>1, <2>3, <2>4
    <3>2. /\ s.recvString = <<f>> /\ s.isVirtual = (f # 0)
          /\ s.toTransmit = IF f = 0 THEN Response(f) ELSE Header(f)
      BY <1>3, Zenon DEF Serving
    <3> QED
      BY <2>4, <3>1, <3>2, Zenon DEF Serving
  <2>6. Run(c, 0, f, n + Len(tx) - k)
    BY <2>1
  <2>7. tx \o c \in Seq(Units) /\ Len(tx \o c) = Len(tx) + Len(c) /\ Run(tx \o c, k, f, n)
    BY <2>1, <2>6, RunConcat
  <2> DEFINE u == tx \o c
  <2> HIDE DEF u
  <2>8. u \in Seq(Units) /\ Len(u) = Len(tx) + Len(c) /\ Run(u, k, f, n) /\ r.tx = u
    BY <2>2, <2>7 DEF u
  <2>9. u # << >>
    <3>1. Len(u) > 0
      BY <1>1, <2>1, <2>3, <2>8
    <3> QED
      BY <3>1
  <2>10. AtRest(t, u)
    BY <1>1, <2>4, <2>9 DEF AtRest
  <2> HIDE DEF t
  <2> HIDE DEF r
  <2>11. r.s.current = n + Len(r.tx) - k /\ k <= Len(r.tx) /\ Len(r.tx) <= TxCapacity
    <3>1. t.current = n + Len(u) - k /\ k <= Len(u) /\ Len(u) <= TxCapacity
      BY <1>1, <2>1, <2>3, <2>4, <2>8
    <3> QED
      BY <2>2, <2>8, <3>1, Zenon
  <2> QED
    BY <2>2, <2>4, <2>5, <2>8, <2>10, <2>11, Zenon DEF Serves, r
<1> QED
  BY <1>1, <1>2, <1>3

\* A request finds the server idle and is answered.
LEMMA IncomingDataServes ==
  ASSUME NEW f \in 0 .. Last, NEW s \in ServerTypes, Idle(s),
         NEW t, t = IncomingData(s, f)
  PROVE  t \in ServerTypes /\ Serving(t, f) /\ t.current = 0
<1> DEFINE names == <<f>>
           u     == Asked(s, names)
<1>1. names \in Names /\ s.recvString = << >> /\ s.toTransmit = << >>
      /\ Append(<< >>, f) = names
  BY DEF Idle, Names
<1> HIDE DEF names
<1>2. /\ u \in ServerTypes /\ u.recvString = names /\ u.toTransmit = << >>
      /\ u.current = 0 /\ u.total = 0
  BY <1>1, ServerAsked
<1>3. t = Prepared(u) /\ Head(u.recvString) = f
  BY <1>1, <1>2 DEF IncomingData, Asked, names
<1> HIDE DEF u
<1>4. FileSize[f] \in Nat /\ Header(f) \in Seq(Units) /\ Response(f) \in Seq(Units)
  BY ResponseUnits, HeaderUnit
<1> DEFINE text == << >> \o Header(f) \o
                     (IF f # 0 THEN << >> ELSE Payload(f, FileSize[f]))
<1>5. text = IF f = 0 THEN Response(f) ELSE Header(f)
  <2>1. CASE f = 0
    BY <1>4, <2>1 DEF Response
  <2>2. CASE f # 0
    BY <1>4, <2>2
  <2> QED
    BY <2>1, <2>2
<1>6. text \in Texts
  BY <1>4, <1>5 DEF Texts
<1> DEFINE v == (f # 0)
           n == u.total + 1 + FileSize[f]
<1>7. t = Prepare(u, v, n, text)
  BY <1>2, <1>3 DEF Prepared, Prepare
<1>8. v \in BOOLEAN /\ n \in Nat /\ n = 1 + FileSize[f]
  BY <1>2, <1>4
<1> HIDE DEF v, n, text
<1>9. /\ t \in ServerTypes
      /\ t.recvString = names /\ t.isVirtual = v /\ t.toTransmit = text
      /\ t.current = 0 /\ t.total = n
  BY <1>2, <1>6, <1>7, <1>8, ServerPrepared
<1>10. t.total = 1 + FileSize[f] /\ t.current <= t.total
  BY <1>4, <1>8, <1>9
<1> QED
  BY <1>5, <1>9, <1>10, Zenon DEF Serving, v, names

LEMMA UnacknowledgedRest ==
  ASSUME WireTypes, NEW to \in acked .. arrived, NEW f \in 0 .. Last, NEW n \in Nat,
         Run(txBuffer, arrived - acked, f, n)
  PROVE  /\ Unacknowledged(to) \in Seq(Units)
         /\ Len(Unacknowledged(to)) = acked + Len(txBuffer) - to
         /\ Run(Unacknowledged(to), arrived - to, f, n)
<1> DEFINE j == to - acked
           k == arrived - acked
<1>1. /\ txBuffer \in Seq(Units) /\ Len(txBuffer) \in Nat
      /\ acked \in Nat /\ arrived \in Nat /\ to \in Nat
      /\ j \in Nat /\ k \in Nat /\ j \in 0 .. k /\ k <= Len(txBuffer)
      /\ k - j = arrived - to
  BY DEF WireTypes
<1>2. Unacknowledged(to) = Rest(txBuffer, j)
  BY DEF Unacknowledged, Rest
<1>3. Run(txBuffer, k, f, n)
  OBVIOUS
<1> HIDE DEF j, k
<1>4. /\ Rest(txBuffer, j) \in Seq(Units)
      /\ Len(Rest(txBuffer, j)) = Len(txBuffer) - j
      /\ Run(Rest(txBuffer, j), k - j, f, n)
  BY <1>1, <1>3, RunWithoutFirst
<1> QED
  BY <1>1, <1>2, <1>4 DEF j

\* An ACK while the response is sent.
LEMMA AckWhileResponding ==
  ASSUME WireTypes, RunOfResponse, AtRest(server, txBuffer), Responding,
         NEW to \in acked .. arrived
  PROVE  Serves(AfterAck(to), file, arrived - to, Len(readUnits))
<1>1. /\ file \in 0 .. Last /\ server \in ServerTypes /\ Serving(server, file)
      /\ txBuffer \in Seq(Units) /\ Len(txBuffer) <= TxCapacity /\ Len(txBuffer) \in Nat
      /\ acked \in Nat /\ arrived \in Nat /\ to \in Nat /\ TxCapacity \in Nat
      /\ acked <= to /\ to <= arrived /\ arrived <= acked + Len(txBuffer)
      /\ Len(readUnits) \in Nat
      /\ server.current = Len(readUnits) + acked + Len(txBuffer) - arrived
  BY DashAssumption DEF WireTypes, Responding, UnderWay
<1>2. Run(txBuffer, arrived - acked, file, Len(readUnits))
  BY DEF RunOfResponse
<1>3. CASE to = acked
  <2> DEFINE r == AfterAck(to)
  <2>1. r.s = server /\ r.tx = txBuffer
    BY <1>3 DEF AfterAck
  <2> HIDE DEF r
  <2> QED
    BY <1>1, <1>2, <1>3, <2>1 DEF Serves, r
<1>4. CASE to # acked
  <2> DEFINE tx == Unacknowledged(to)
             k  == arrived - to
             n  == Len(readUnits)
  <2>1. AfterAck(to) = ReadyToTransmit(server, tx)
    BY <1>4, Zenon DEF AfterAck
  <2>2. tx \in Seq(Units) /\ Len(tx) = acked + Len(txBuffer) - to /\ Run(tx, k, file, n)
    BY <1>1, <1>2, UnacknowledgedRest
  <2> HIDE DEF tx
  <2>3. /\ Len(tx) <= TxCapacity /\ k \in Nat /\ k <= Len(tx) /\ n \in Nat
        /\ server.current = n + Len(tx) - k
    BY <1>1, <2>2
  <2> HIDE DEF k, n
  <2>4. Serves(ReadyToTransmit(server, tx), file, k, n)
    BY <1>1, <2>2, <2>3, ReadyToTransmitGoesOn
  <2> QED
    BY <2>1, <2>4 DEF k, n
<1> QED
  BY <1>3, <1>4

\* The server has sent everything; k units wait for their acknowledgement.
Served(r, k) ==
  /\ r.s \in ServerTypes /\ r.s.current >= r.s.total
  /\ r.tx \in Seq(Units) /\ Len(r.tx) = k /\ Len(r.tx) <= TxCapacity
  /\ AtRest(r.s, r.tx)

\* An ACK while the next request is on its way: nothing is sent any more, and
\* the last one leaves the server idle.
LEMMA AckWhileRequesting ==
  ASSUME WireTypes, AtRest(server, txBuffer), Requesting,
         NEW to \in acked .. arrived
  PROVE  Served(AfterAck(to), arrived - to)
<1> DEFINE r == AfterAck(to)
<1>1. /\ server \in ServerTypes /\ server.current >= server.total
      /\ server.current \in Nat /\ server.total \in Nat
      /\ txBuffer \in Seq(Units) /\ Len(txBuffer) <= TxCapacity /\ Len(txBuffer) \in Nat
      /\ acked \in Nat /\ arrived \in Nat /\ to \in Nat /\ TxCapacity \in Nat
      /\ acked <= to /\ to <= arrived /\ arrived = acked + Len(txBuffer)
      /\ server.total = 0 => Idle(server)
  BY DashAssumption DEF WireTypes, Requesting, UnderWay, AtRest, ServerTypes
<1>2. CASE to = acked
  <2>1. r.s = server /\ r.tx = txBuffer
    BY <1>2 DEF AfterAck
  <2> HIDE DEF r
  <2> QED
    BY <1>1, <1>2, <2>1 DEF Served, r
<1>3. CASE to # acked
  <2> DEFINE tx == Unacknowledged(to)
  <2>1. r = ReadyToTransmit(server, tx)
    BY <1>3 DEF AfterAck
  <2>2. tx \in Seq(Units) /\ Len(tx) = acked + Len(txBuffer) - to
    <3>1. Run(txBuffer, arrived - acked, file, 0)
      BY <1>1 DEF Run
    <3> QED
      BY <3>1, UnacknowledgedRest DEF WireTypes
  <2> HIDE DEF tx
  <2>3. r.tx = tx /\ r.s = IF server.total = 0 THEN server ELSE Cleared(server)
    BY <1>1, <2>1 DEF ReadyToTransmit
  <2> HIDE DEF r
  <2>4. /\ r.s \in ServerTypes /\ Idle(r.s)
        /\ r.s.current = server.current /\ r.s.total = server.total
    BY <1>1, <2>3, ClearedServer
  <2>5. AtRest(r.s, r.tx)
    BY <1>1, <2>4 DEF AtRest
  <2> QED
    BY <1>1, <2>2, <2>3, <2>4, <2>5 DEF Served, r
<1> QED
  BY <1>2, <1>3

-----------------------------------------------------------------------------
(* The steps of the exchange.                                              *)

\* An ACK, alone or with a request, when the server has sent everything or
\* while it sends.
LEMMA AcknowledgeKeepsExchange == OneExchange /\ Acknowledge => OneExchange'
<1> SUFFICES ASSUME OneExchange, Acknowledge PROVE OneExchange'
  OBVIOUS
<1>1. PICK to \in acked + 1 .. arrived :
        /\ acked' = to
        /\ server' = AfterAck(to).s
        /\ txBuffer' = AfterAck(to).tx
  BY DEF Acknowledge
<1>2. UNCHANGED <<file, connection, finishedDownload, isFirstPacket, bytesRecv,
                  contentLength, readUnits, requests, arrived, rxBuffer>>
  BY DEF Acknowledge, downloadVars, receiveVars
<1>3. /\ WireTypes /\ Counted /\ RunOfResponse /\ AtRest(server, txBuffer) /\ Phases
      /\ acked \in Nat /\ arrived \in Nat /\ to \in acked .. arrived /\ to \in Nat
      /\ to > acked
  BY DEF OneExchange, WireTypes
<1>4. connection # "connecting"
  BY <1>3 DEF Phases, Connecting
<1>5. Counted'
  BY <1>2, <1>3 DEF Counted
<1> DEFINE r == AfterAck(to)
<1>6. CASE requests # << >>
  <2>1. Requesting
    BY <1>3, <1>6 DEF Phases
  <2>2. Served(r, arrived - to)
    BY <1>3, <2>1, AckWhileRequesting
  <2> HIDE DEF r
  <2>3. /\ server' \in ServerTypes /\ server'.current >= server'.total
        /\ txBuffer' \in Seq(Units) /\ Len(txBuffer') = arrived - to
        /\ Len(txBuffer') <= TxCapacity
        /\ AtRest(server', txBuffer')
    BY <1>1, <2>2, Zenon DEF Served, r
  <2>4. WireTypes'
    BY <1>1, <1>2, <1>3, <2>3 DEF WireTypes
  <2>5. RunOfResponse'
    <3>1. Run(readUnits', 0, file', 0)
      BY <1>2, <1>3 DEF RunOfResponse
    <3>2. Run(txBuffer', arrived' - acked', file', Len(readUnits'))
      BY <1>1, <1>2, <1>3, <2>3 DEF Run
    <3> QED
      BY <3>1, <3>2 DEF RunOfResponse
  <2>6. UnderWay' = 0
    BY <1>1, <1>2, <1>3, <2>3 DEF UnderWay
  <2>7. Requesting'
    BY <1>2, <2>1, <2>3, <2>6 DEF Requesting
  <2>8. Phases'
    BY <1>2, <1>4, <1>6, <2>7, Zenon DEF Phases
  <2> QED
    BY <1>5, <2>3, <2>4, <2>5, <2>8, Zenon DEF OneExchange
<1>7. CASE requests = << >>
  <2>1. Responding
    BY <1>3, <1>4, <1>7 DEF Phases
  <2>2. Serves(r, file, arrived - to, Len(readUnits))
    BY <1>3, <2>1, AckWhileResponding
  <2> HIDE DEF r
  <2>3. /\ server' \in ServerTypes /\ Serving(server', file)
        /\ txBuffer' \in Seq(Units) /\ arrived - to <= Len(txBuffer')
        /\ Len(txBuffer') <= TxCapacity
        /\ server'.current = Len(readUnits) + Len(txBuffer') - (arrived - to)
        /\ Run(txBuffer', arrived - to, file, Len(readUnits))
        /\ AtRest(server', txBuffer')
    BY <1>1, <2>2, Zenon DEF Serves, r
  <2>4. WireTypes'
    BY <1>1, <1>2, <1>3, <2>3 DEF WireTypes
  <2>5. RunOfResponse'
    BY <1>1, <1>2, <1>3, <2>3 DEF RunOfResponse
  <2>6. server'.current = Len(readUnits') + UnderWay'
    BY <1>1, <1>2, <1>3, <2>3 DEF UnderWay, WireTypes
  <2>7. Responding'
    BY <1>2, <2>1, <2>3, <2>6 DEF Responding
  <2>8. Phases'
    BY <1>2, <1>4, <1>7, <2>7, Zenon DEF Phases
  <2> QED
    BY <1>5, <2>3, <2>4, <2>5, <2>8, Zenon DEF OneExchange
<1> QED
  BY <1>6, <1>7

\* The request finds an idle server, which starts the response.
LEMMA ReceiveRequestKeepsExchange == OneExchange /\ ReceiveRequest => OneExchange'
<1> SUFFICES ASSUME OneExchange, ReceiveRequest PROVE OneExchange'
  OBVIOUS
<1>1. /\ WireTypes /\ Counted /\ RunOfResponse /\ AtRest(server, txBuffer) /\ Phases
      /\ requests # << >>
      /\ acked \in Nat /\ arrived \in Nat /\ arrived \in acked .. arrived
      /\ file \in 0 .. Last
  BY DEF OneExchange, WireTypes, ReceiveRequest
<1>2. Requesting /\ connection # "connecting"
  BY <1>1 DEF Phases, Connecting
<1>3. UNCHANGED <<file, connection, finishedDownload, isFirstPacket, bytesRecv,
                  contentLength, readUnits, arrived, rxBuffer>>
  BY DEF ReceiveRequest, downloadVars, receiveVars
<1> DEFINE request == Head(requests)
<1>4. request.file = file /\ request.ack = arrived /\ Tail(requests) = << >>
  BY <1>2 DEF Requesting
<1>5. (IF request.ack > acked THEN request.ack ELSE acked) = arrived
  BY <1>1, <1>4
<1> DEFINE a == AfterAck(arrived)
           response == ReadyToTransmit(IncomingData(a.s, file), a.tx)
<1>6. /\ requests' = << >> /\ acked' = arrived
      /\ server' = response.s /\ txBuffer' = response.tx
  BY <1>4, <1>5, Zenon DEF ReceiveRequest, Respond
<1>7. Served(a, arrived - arrived)
  BY <1>1, <1>2, AckWhileRequesting
<1> HIDE DEF a
<1>8. a.s \in ServerTypes /\ Idle(a.s) /\ a.tx \in Seq(Units) /\ Len(a.tx) = 0
  BY <1>1, <1>7 DEF Served, AtRest
<1> DEFINE s == IncomingData(a.s, file)
<1>9. s \in ServerTypes /\ Serving(s, file) /\ s.current = 0
  BY <1>1, <1>8, IncomingDataServes
<1> HIDE DEF s
<1>10. /\ Len(a.tx) <= TxCapacity /\ 0 <= Len(a.tx) /\ s.current = 0 + Len(a.tx) - 0
       /\ Run(a.tx, 0, file, 0)
  BY <1>8, <1>9, DashAssumption DEF Run
<1>11. Serves(ReadyToTransmit(s, a.tx), file, 0, 0)
  BY <1>1, <1>8, <1>9, <1>10, ReadyToTransmitGoesOn
<1>12. /\ server' \in ServerTypes /\ Serving(server', file)
       /\ txBuffer' \in Seq(Units) /\ Len(txBuffer') <= TxCapacity
       /\ server'.current = 0 + Len(txBuffer') - 0
       /\ Run(txBuffer', 0, file, 0)
       /\ AtRest(server', txBuffer')
  BY <1>6, <1>11, Zenon DEF Serves, s
<1>13. readUnits = << >> /\ Len(readUnits) = 0 /\ ~finishedDownload
  BY <1>2 DEF Requesting
<1>14. WireTypes'
  BY <1>1, <1>3, <1>6, <1>12 DEF WireTypes
<1>15. Counted'
  BY <1>1, <1>3 DEF Counted
<1>16. RunOfResponse'
  <2>1. Run(readUnits', 0, file', 0)
    BY <1>1, <1>3 DEF RunOfResponse
  <2>2. arrived' - acked' = 0 /\ Len(readUnits') = 0
    BY <1>1, <1>3, <1>6, <1>13
  <2> QED
    BY <1>3, <1>12, <2>1, <2>2 DEF RunOfResponse
<1>17. Responding'
  <2>1. server'.current = Len(readUnits') + UnderWay'
    BY <1>1, <1>3, <1>6, <1>12, <1>13 DEF UnderWay
  <2>2. Len(readUnits') # 1 + FileSize[file'] /\ ~finishedDownload'
    BY <1>1, <1>3, <1>13, DashAssumption
  <2> QED
    BY <1>3, <1>12, <2>1, <2>2, Zenon DEF Responding
<1>18. Phases'
  BY <1>2, <1>3, <1>6, <1>17, Zenon DEF Phases
<1> QED
  BY <1>12, <1>14, <1>15, <1>16, <1>18, Zenon DEF OneExchange

LEMMA ConnectionCompleteKeepsExchange ==
  OneExchange /\ ConnectionComplete => OneExchange'
<1> SUFFICES ASSUME OneExchange, ConnectionComplete PROVE OneExchange'
  OBVIOUS
<1>1. /\ WireTypes /\ Counted /\ RunOfResponse /\ AtRest(server, txBuffer) /\ Phases
      /\ connection = "connecting" /\ connection' = "open"
      /\ requests' = Append(requests, [file |-> file, ack |-> arrived])
      /\ UNCHANGED <<file, finishedDownload, isFirstPacket, bytesRecv, contentLength,
                     readUnits, server, txBuffer, acked, arrived, rxBuffer>>
  BY DEF OneExchange, ConnectionComplete, SendGet, sendVars, receiveVars
<1>2. Connecting
  BY <1>1 DEF Phases
<1>3. WireTypes' /\ Counted' /\ RunOfResponse' /\ AtRest(server', txBuffer')
  BY <1>1 DEF WireTypes, Counted, RunOfResponse
<1>4. requests' = <<[file |-> file', ack |-> arrived']>>
  BY <1>1, <1>2 DEF Connecting
<1>5. /\ readUnits' = << >> /\ UnderWay' = 0 /\ server'.current >= server'.total
      /\ ~finishedDownload'
  BY <1>1, <1>2 DEF Connecting, UnderWay, WireTypes
<1>6. requests' # << >>
  BY <1>4
<1>7. Phases'
  BY <1>1, <1>4, <1>5, <1>6, Zenon DEF Phases, Requesting
<1> QED
  BY <1>3, <1>7 DEF OneExchange

\* The next download is only started when the response has been read to its
\* end, so that nothing is left of it on the connection.
LEMMA DownloadSegmentKeepsExchange ==
  OneGoesOn /\ OneExchange /\ DownloadSegment => OneExchange'
<1> SUFFICES ASSUME OneGoesOn, OneExchange, DownloadSegment PROVE OneExchange'
  OBVIOUS
<1>1. /\ WireTypes /\ Counted /\ RunOfResponse /\ AtRest(server, txBuffer) /\ Phases
      /\ UNCHANGED <<server, txBuffer, acked, arrived, rxBuffer>>
  BY DEF OneExchange, DownloadSegment, sendVars, receiveVars
<1>2. finishedDownload
  BY DEF OneGoesOn, DownloadSegment
<1>3. connection # "connecting" /\ requests = << >> /\ Responding
  BY <1>1, <1>2, Zenon DEF Phases, Connecting, Requesting
<1>4. CASE file < Last
  <2>1. /\ file' = file + 1 /\ finishedDownload' = FALSE /\ isFirstPacket' = TRUE
        /\ bytesRecv' = 0 /\ readUnits' = << >> /\ connection' = connection
        /\ requests' = Append(requests, [file |-> file + 1, ack |-> arrived])
    BY <1>4, Zenon DEF DownloadSegment, StartDownload, SendGet
  <2>2. WireTypes'
    BY <1>1, <1>4, <2>1, DashAssumption DEF WireTypes
  <2>3. Counted'
    BY <2>1 DEF Counted
  <2>4. /\ server.total \in Nat /\ server.current \in Nat /\ Len(readUnits) \in Nat
        /\ Len(txBuffer) \in Nat /\ acked \in Nat /\ arrived \in Nat
        /\ arrived <= acked + Len(txBuffer)
    BY <1>1 DEF WireTypes, ServerTypes
  <2>5. /\ server.current <= server.total
        /\ server.total = Len(readUnits)
        /\ server.current = Len(readUnits) + UnderWay
    BY <1>2, <1>3, Zenon DEF Responding, Serving
  <2>6. UnderWay = 0 /\ server.current >= server.total
    BY <2>4, <2>5 DEF UnderWay
  <2>7. RunOfResponse'
    <3>1. Run(readUnits', 0, file', 0)
      BY <2>1 DEF Run
    <3>2. Run(txBuffer', arrived' - acked', file', Len(readUnits'))
      BY <1>1, <2>4, <2>6 DEF Run, UnderWay
    <3> QED
      BY <3>1, <3>2 DEF RunOfResponse
  <2>8. requests' = <<[file |-> file', ack |-> arrived']>>
    BY <1>1, <1>3, <2>1
  <2>9. UnderWay' = 0 /\ server'.current >= server'.total
    BY <1>1, <2>6 DEF UnderWay
  <2>10. requests' # << >>
    BY <2>8
  <2>11. Phases'
    BY <1>3, <2>1, <2>8, <2>9, <2>10, Zenon DEF Phases, Requesting
  <2>12. AtRest(server', txBuffer')
    BY <1>1
  <2> QED
    BY <2>2, <2>3, <2>7, <2>11, <2>12 DEF OneExchange
<1>5. CASE ~(file < Last)
  <2>1. AllDownloaded
    BY <1>5, Zenon DEF DownloadSegment
  <2>2. /\ connection' = "closed"
        /\ UNCHANGED <<file, finishedDownload, isFirstPacket, bytesRecv, contentLength,
                       readUnits, requests>>
    BY <2>1 DEF AllDownloaded
  <2>3. WireTypes' /\ Counted' /\ RunOfResponse' /\ AtRest(server', txBuffer')
    BY <1>1, <2>2 DEF WireTypes, Counted, RunOfResponse
  <2>4. UnderWay' = UnderWay
    BY <1>1 DEF UnderWay
  <2>5. Responding'
    BY <1>1, <1>3, <2>2, <2>4 DEF Responding
  <2>6. Phases'
    BY <1>3, <2>2, <2>5, Zenon DEF Phases
  <2> QED
    BY <2>3, <2>6 DEF OneExchange
<1> QED
  BY <1>4, <1>5

\* Without aborts no packet meets a freed buffer.
LEMMA StaysActive == ASSUME NeverAborts PROVE DashSpec => []active
<1>1. DashInit => active
  BY DEF DashInit
<1>2. ASSUME active, [DashNext]_dashVars PROVE active'
  <2>1. CASE DownloadSegment
    BY <1>2, <2>1 DEF DownloadSegment, StartDownload, AllDownloaded
  <2>2. CASE DoPlay
    BY <1>2, <2>2 DEF DoPlay, GivesUp, NeverAborts
  <2>3. CASE ConnectionComplete \/ Deliver \/ UNCHANGED dashVars
    BY <1>2, <2>3 DEF ConnectionComplete, Deliver, dashVars, downloadVars
  <2>4. CASE ReceiveRequest \/ Acknowledge \/ TryAgain
    BY <1>2, <2>4 DEF ReceiveRequest, Acknowledge, TryAgain, downloadVars
  <2> QED
    BY <1>2, <2>1, <2>2, <2>3, <2>4 DEF DashNext
<1> QED
  BY <1>1, <1>2, PTL DEF DashSpec

\* A delivery: while units are under way the download is not finished, and
\* HandleRead counts the whole response and no more.
LEMMA DeliverKeepsExchange == active /\ OneExchange /\ Deliver => OneExchange'
<1> SUFFICES ASSUME active, OneExchange, Deliver PROVE OneExchange'
  OBVIOUS
<1>1. /\ WireTypes /\ Counted /\ RunOfResponse /\ AtRest(server, txBuffer) /\ Phases
      /\ connection = "open"
      /\ UNCHANGED <<file, connection, requests, server, txBuffer, acked>>
  <2>1. connection = "open" /\ connection' = "open"
    BY DEF Deliver
  <2> QED
    BY <2>1 DEF OneExchange, Deliver, sendVars
<1>2. /\ file \in 0 .. Last /\ readUnits \in Seq(Units) /\ Len(readUnits) \in Nat
      /\ txBuffer \in Seq(Units) /\ Len(txBuffer) \in Nat
      /\ acked \in Nat /\ arrived \in Nat /\ arrived - acked \in Nat /\ rxBuffer = << >>
      /\ FileSize[file] \in Nat
  BY <1>1, DashAssumption DEF WireTypes
<1> DEFINE k == arrived - acked
           chunk(n) == SubSeq(txBuffer, k + 1, k + n)
<1>3. PICK n \in 1 .. acked + Len(txBuffer) - arrived :
        /\ arrived' = arrived + n
        /\ ~finishedDownload => Read(rxBuffer \o SubSeq(txBuffer, arrived - acked + 1,
                                                        arrived - acked + n))
  BY Zenon DEF Deliver
<1>4. n \in Nat /\ n > 0 /\ UnderWay >= n /\ k + n <= Len(txBuffer)
  BY <1>2, <1>3 DEF UnderWay
<1>5. requests = << >> /\ Responding
  BY <1>1, <1>4 DEF Phases, Requesting
<1>6. /\ server.current <= 1 + FileSize[file]
      /\ server.current = Len(readUnits) + UnderWay
      /\ finishedDownload <=> Len(readUnits) = 1 + FileSize[file]
      /\ UnderWay \in Nat
  <2>1. UnderWay \in Nat
    BY <1>1 DEF UnderWay, WireTypes
  <2> QED
    BY <1>5, <2>1 DEF Responding, Serving
<1>7. ~finishedDownload
  BY <1>2, <1>4, <1>6
<1> DEFINE packet == Part(txBuffer, k, n)
<1>8. Read(packet)
  <2>1. packet \in Seq(Units)
    BY <1>2, <1>4, <1>1, RunSplit DEF RunOfResponse
  <2>2. << >> \o packet = packet
    BY <2>1
  <2> QED
    BY <1>2, <1>3, <1>7, <2>2 DEF Part
<1>9. /\ packet \in Seq(Units) /\ Len(packet) = n
      /\ Run(packet, 0, file, Len(readUnits))
      /\ Run(txBuffer, k + n, file, Len(readUnits) + n)
  BY <1>1, <1>2, <1>4, RunSplit DEF RunOfResponse
<1> HIDE DEF packet
<1>10. isFirstPacket => Head(packet).header /\ Head(packet).file = file
  <2> SUFFICES ASSUME isFirstPacket
               PROVE  Head(packet).header /\ Head(packet).file = file
    OBVIOUS
  <2>1. Len(readUnits) = 0
    BY <1>1 DEF Counted
  <2>2. Head(packet) = packet[0 + 1] /\ 1 \in 1 .. Len(packet) - 0
    BY <1>4, <1>9
  <2>3. packet[0 + 1] = UnitOf(file, Len(readUnits) + 1) /\ Len(readUnits) + 1 = 1
    BY <1>9, <2>1, <2>2 DEF Run
  <2>4. Head(packet) = [file |-> file, header |-> TRUE]
    BY <2>2, <2>3, Zenon DEF UnitOf
  <2> QED
    BY <2>4
<1>11. /\ isFirstPacket' = FALSE
       /\ contentLength' = IF isFirstPacket THEN FileSize[file] ELSE contentLength
       /\ bytesRecv' = bytesRecv + Len(packet) - (IF isFirstPacket THEN 1 ELSE 0)
       /\ readUnits' = readUnits \o packet
       /\ rxBuffer' = << >>
       /\ finishedDownload' = (bytesRecv' = contentLength')
  <2>1. CASE isFirstPacket
    BY <1>8, <1>10, <2>1, Zenon DEF Read
  <2>2. CASE ~isFirstPacket
    BY <1>8, <2>2, Zenon DEF Read
  <2> QED
    BY <2>1, <2>2
<1>12. /\ readUnits' \in Seq(Units) /\ Len(readUnits') = Len(readUnits) + n
       /\ Run(readUnits', 0, file, 0)
  <2>1. Run(packet, 0, file, 0 + Len(readUnits) - 0) /\ 0 <= Len(readUnits)
    BY <1>2, <1>9
  <2>2. Run(readUnits, 0, file, 0)
    BY <1>1 DEF RunOfResponse
  <2> DEFINE t == readUnits \o packet
  <2>3. t \in Seq(Units) /\ Len(t) = Len(readUnits) + Len(packet) /\ Run(t, 0, file, 0)
    BY <1>2, <1>9, <2>1, <2>2, RunConcat
  <2> HIDE DEF t
  <2>4. readUnits' = t
    BY <1>11 DEF t
  <2> QED
    BY <1>9, <2>3, <2>4
<1>13. WireTypes'
  BY <1>1, <1>3, <1>4, <1>11, <1>12 DEF WireTypes
<1>14. bytesRecv' = Len(readUnits') - 1 /\ contentLength' = FileSize[file]
  <2>1. CASE isFirstPacket
    <3>1. Len(readUnits) = 0 /\ bytesRecv = 0
      BY <1>1, <2>1 DEF Counted
    <3> QED
      BY <1>4, <1>9, <1>11, <1>12, <2>1, <3>1
  <2>2. CASE ~isFirstPacket
    <3>1. bytesRecv = Len(readUnits) - 1 /\ contentLength = FileSize[file]
      BY <1>1, <2>2 DEF Counted
    <3> QED
      BY <1>2, <1>4, <1>9, <1>11, <1>12, <2>2, <3>1
  <2> QED
    BY <2>1, <2>2
<1>15. Counted'
  <2>1. readUnits' # << >>
    <3>1. Len(readUnits') > 0
      BY <1>2, <1>4, <1>12
    <3> QED
      BY <3>1
  <2> QED
    BY <1>1, <1>11, <1>14, <2>1 DEF Counted
<1>16. RunOfResponse'
  <2>1. arrived' - acked' = k + n /\ Len(readUnits') = Len(readUnits) + n
    BY <1>1, <1>2, <1>3, <1>4, <1>12
  <2> HIDE DEF k
  <2> QED
    BY <1>1, <1>9, <1>12, <2>1 DEF RunOfResponse
<1>17. Responding'
  <2>1. server'.current = Len(readUnits') + UnderWay'
    BY <1>1, <1>2, <1>3, <1>4, <1>6, <1>12 DEF UnderWay
  <2>2. bytesRecv' = contentLength' <=> Len(readUnits') = 1 + FileSize[file]
    BY <1>2, <1>4, <1>12, <1>14
  <2>3. finishedDownload' <=> Len(readUnits') = 1 + FileSize[file']
    BY <1>1, <1>11, <2>2, Zenon
  <2>4. Serving(server', file')
    BY <1>1, <1>5 DEF Responding
  <2> QED
    BY <2>1, <2>3, <2>4, Zenon DEF Responding
<1>18. Phases'
  BY <1>1, <1>5, <1>17, Zenon DEF Phases
<1>19. AtRest(server', txBuffer')
  BY <1>1
<1> QED
  BY <1>13, <1>15, <1>16, <1>18, <1>19 DEF OneExchange

LEMMA UntouchedKeepsExchange ==
  ASSUME OneExchange,
         UNCHANGED <<file, connection, finishedDownload, isFirstPacket, bytesRecv,
                     contentLength, readUnits, requests, server, txBuffer, acked,
                     arrived, rxBuffer>>
  PROVE  OneExchange'
<1>1. WireTypes' /\ Counted' /\ RunOfResponse' /\ AtRest(server', txBuffer')
  BY DEF OneExchange, WireTypes, Counted, RunOfResponse
<1>2. UnderWay' = UnderWay
  BY DEF UnderWay
<1>3. Phases'
  BY <1>2 DEF OneExchange, Phases, Connecting, Requesting, Responding
<1> QED
  BY <1>1, <1>3 DEF OneExchange

LEMMA InitExchange == DashInit => OneExchange
<1> SUFFICES ASSUME DashInit PROVE OneExchange
  OBVIOUS
<1>1. /\ << >> \in Names /\ << >> \in Texts /\ << >> \in Seq(Units) /\ Len(<< >>) = 0
      /\ 0 \in 0 .. Last /\ 0 <= TxCapacity
  BY DashAssumption DEF Names, Texts
<1>2. server \in ServerTypes /\ Idle(server) /\ server.total = 0 /\ server.current = 0
  BY <1>1 DEF DashInit, ServerTypes, Idle
<1>3. /\ file = 0 /\ readUnits = << >> /\ txBuffer = << >> /\ acked = 0 /\ arrived = 0
      /\ rxBuffer = << >> /\ isFirstPacket = TRUE /\ bytesRecv = 0 /\ requests = << >>
      /\ finishedDownload = FALSE /\ connection = "connecting"
  BY DEF DashInit
<1>4. WireTypes
  BY <1>1, <1>2, <1>3 DEF WireTypes
<1>5. Counted
  BY <1>3 DEF Counted
<1>6. RunOfResponse
  BY <1>1, <1>3 DEF RunOfResponse, Run
<1>7. AtRest(server, txBuffer)
  BY <1>2 DEF AtRest
<1>8. Phases
  BY <1>2, <1>3, Zenon DEF Phases, Connecting
<1> QED
  BY <1>4, <1>5, <1>6, <1>7, <1>8 DEF OneExchange

\* The inductive invariant of the exchange between HttpClientApplication and
\* HttpServerFakeClientSocket: what is read, under way and still to be sent
\* make up the response to the one request that is being dealt with.
THEOREM OneExchangeCorrect ==
  ASSUME NeverAborts PROVE DashSpec => []OneExchange
<1>1. DashInit => OneExchange
  BY InitExchange
<1>2. ASSUME PlayerInStep, active, OneExchange, [DashNext]_dashVars PROVE OneExchange'
  <2>1. CASE ConnectionComplete
    BY <1>2, <2>1, ConnectionCompleteKeepsExchange
  <2>2. CASE ReceiveRequest
    BY <1>2, <2>2, ReceiveRequestKeepsExchange
  <2>3. CASE Acknowledge
    BY <1>2, <2>3, AcknowledgeKeepsExchange
  <2>4. CASE Deliver
    BY <1>2, <2>4, DeliverKeepsExchange
  <2>5. CASE DownloadSegment
    BY <1>2, <2>5, DownloadSegmentKeepsExchange DEF PlayerInStep
  <2>6. CASE TryAgain \/ DoPlay \/ UNCHANGED dashVars
    <3>1. UNCHANGED <<file, connection, finishedDownload, isFirstPacket, bytesRecv,
                      contentLength, readUnits, requests, server, txBuffer, acked,
                      arrived, rxBuffer>>
      BY <2>6 DEF TryAgain, DoPlay, dashVars, downloadVars, sendVars, receiveVars
    <3> QED
      BY <1>2, <3>1, UntouchedKeepsExchange
  <2> QED
    BY <1>2, <2>1, <2>2, <2>3, <2>4, <2>5, <2>6 DEF DashNext
<1> QED
  BY <1>1, <1>2, PlayerInStepCorrect, StaysActive, PTL DEF DashSpec

LEMMA WholeRun ==
  ASSUME NEW f \in 0 .. Last, NEW s \in Seq(Units), Run(s, 0, f, 0),
         Len(s) = 1 + FileSize[f]
  PROVE  s = Response(f)
<1> DEFINE r == Response(f)
<1>1. r \in Seq(Units) /\ Len(r) = Len(s) /\ Run(r, 0, f, 0)
  BY ResponseUnits
<1> HIDE DEF r
<1>2. ASSUME NEW i \in 1 .. Len(s) PROVE s[i] = r[i]
  <2>1. i \in 1 .. Len(s) - 0 /\ i \in 1 .. Len(r) - 0 /\ 0 + i = i
    BY <1>1
  <2>2. s[0 + i] = UnitOf(f, 0 + i) /\ r[0 + i] = UnitOf(f, 0 + i)
    BY <1>1, <2>1 DEF Run
  <2> QED
    BY <2>1, <2>2
<1>3. s = r
  BY <1>1, <1>2, SeqEqual
<1> QED
  BY <1>3 DEF r

\* Without aborts a download that counts as finished has read the whole
\* response to its own request and nothing else, for every number of segments,
\* every size and every capacity of the send buffer.
THEOREM WholeFilesReceived ==
  ASSUME NeverAborts PROVE DashSpec => []WholeFileReceived
<1>1. OneExchange => WholeFileReceived
  <2> SUFFICES ASSUME OneExchange, finishedDownload PROVE readUnits = Response(file)
    BY DEF WholeFileReceived
  <2>1. WireTypes /\ RunOfResponse /\ Phases
    BY DEF OneExchange
  <2>2. Len(readUnits) = 1 + FileSize[file]
    BY <2>1, Zenon DEF Phases, Connecting, Requesting, Responding
  <2> QED
    BY <2>1, <2>2, WholeRun DEF WireTypes, RunOfResponse
<1> QED
  BY <1>1, OneExchangeCorrect, PTL

\* Without aborts an ACK is outstanding whenever the server has more to send.
THEOREM UnsentIsAlwaysCalledBack ==
  ASSUME NeverAborts PROVE DashSpec => []UnsentIsCalledBack
<1>1. OneExchange => UnsentIsCalledBack
  BY DEF OneExchange, AtRest, UnsentIsCalledBack
<1> QED
  BY <1>1, OneExchangeCorrect, PTL

====
