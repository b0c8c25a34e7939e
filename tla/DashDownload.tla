---------------------------- MODULE DashDownload ----------------------------
(***************************************************************************)
(* A video download of AMuSt: the player MultimediaConsumer, its           *)
(* HttpClientApplication and the HttpServerFakeClientSocket that serves it *)
(* (src/src/AMuSt/model/), over one TCP connection that is kept alive.     *)
(* The player fetches the MPD, then one segment after another, and plays   *)
(* from its buffer.                                                        *)
(*                                                                         *)
(* File 0 is the MPD, which the server reads from disk; files 1 .. Last    *)
(* are virtual: their sizes are known, their bytes are made up.  Data are  *)
(* counted in units: a header is one unit, a file FileSize[file].          *)
(***************************************************************************)
EXTENDS Integers, Sequences

CONSTANTS
  Last,        \* number of segments
  FileSize,    \* file -> units of its content
  TxCapacity,  \* units that the send buffer of the server's socket holds
  MaxBuffered, \* segments that the buffer of the player holds
  Aborts       \* the content is layered: a stall aborts the download

ASSUME DashAssumption ==
  /\ Last \in Nat
  /\ FileSize \in [0 .. Last -> Nat]
  /\ TxCapacity \in Nat \ {0}
  /\ MaxBuffered \in Nat \ {0}
  /\ Aborts \in BOOLEAN

VARIABLES
  file,             \* m_fileToRequest
  connection,       \* m_socket of the client, and whether the program still runs
  active,           \* m_active; _tmpbuffer is allocated
  finishedDownload, \* m_finished_download
  isFirstPacket,    \* m_is_first_packet
  bytesRecv,        \* m_bytesRecv
  contentLength,    \* requested_content_length
  mpdParsed,        \* m_mpdParsed
  downloadTimer,    \* m_downloadEventTimer is running
  spaceTimer,       \* an OnMultimediaFile is scheduled for want of space
  playTimer,        \* m_consumerLoopTimer is running
  hasAll,           \* m_hasDownloadedAllSegments
  buffer,           \* the buffer of mPlayer: segments
  played,           \* history: segments consumed
  readUnits,        \* history: units read since the request was sent
  server,           \* the members of HttpServerFakeClientSocket
  requests,         \* TCP: requests under way, with their ACK numbers
  txBuffer,         \* TCP: units the server has sent, not acknowledged
  acked,            \* TCP: number of units acknowledged
  arrived,          \* TCP: number of units that are at the client
  rxBuffer          \* TCP: units that the client has not read

downloadVars == <<file, connection, active, finishedDownload, isFirstPacket,
                  bytesRecv, contentLength, readUnits>>
playerVars == <<mpdParsed, downloadTimer, spaceTimer, playTimer, hasAll, buffer, played>>
sendVars == <<server, txBuffer, acked>>
receiveVars == <<arrived, rxBuffer>>
dashVars == <<downloadVars, playerVars, requests, sendVars, receiveVars>>

\* MultimediaConsumer::StartApplication: the MPD is asked for when the
\* connection stands.
DashInit ==
  /\ file = 0
  /\ connection = "connecting"
  /\ active = TRUE
  /\ finishedDownload = FALSE
  /\ isFirstPacket = TRUE
  /\ bytesRecv = 0 /\ contentLength = 0
  /\ mpdParsed = FALSE
  /\ downloadTimer = FALSE /\ spaceTimer = FALSE /\ playTimer = FALSE
  /\ hasAll = FALSE
  /\ buffer = << >> /\ played = << >>
  /\ readUnits = << >>
  /\ server = [recvString |-> << >>, toTransmit |-> << >>, current |-> 0,
               total |-> 0, isVirtual |-> FALSE]
  /\ requests = << >>
  /\ txBuffer = << >>
  /\ acked = 0 /\ arrived = 0
  /\ rxBuffer = << >>

Header(f) == <<[file |-> f, header |-> TRUE]>>
Payload(f, n) == [i \in 1 .. n |-> [file |-> f, header |-> FALSE]]
Smaller(a, b) == IF a < b THEN a ELSE b
AtLeastZero(n) == IF n < 0 THEN 0 ELSE n

\* A packet was copied into the freed buffer: the program has ended.
Crashed == connection = "crashed"

-----------------------------------------------------------------------------
(* The server.                                                             *)

\* Broken: the request that has been answered stays in the string.
Cleared_KeepsString(s) == [s EXCEPT !.toTransmit = << >>]

\* HandleReadyToTransmit when everything has been sent, on a connection that
\* is kept alive.
Cleared(s) == [s EXCEPT !.recvString = << >>, !.toTransmit = << >>]

\* What HandleReadyToTransmit hands to the socket.  The prepared bytes of a
\* virtual file, its header, go in one packet, which the socket takes whole or
\* not at all.
Chunk(s, tx) ==
  LET room     == TxCapacity - Len(tx)
      left     == s.total - s.current
      prepared == Len(s.toTransmit)
  IN  IF ~s.isVirtual
      THEN SubSeq(s.toTransmit, s.current + 1, s.current + Smaller(left, room))
      ELSE IF s.current > 0 THEN Payload(Head(s.recvString), Smaller(left, room))
      ELSE IF prepared > room THEN << >>
      ELSE s.toTransmit \o Payload(Head(s.recvString),
                                   AtLeastZero(Smaller(left, room) - prepared))

\* HandleReadyToTransmit, as the server and its send buffer after it.
ReadyToTransmit(s, tx) ==
  IF s.total = 0 THEN [s |-> s, tx |-> tx]
  ELSE IF s.current >= s.total THEN [s |-> Cleared(s), tx |-> tx]
  ELSE [s  |-> [s EXCEPT !.current = @ + Len(Chunk(s, tx))],
        tx |-> tx \o Chunk(s, tx)]

\* FinishedIncomingData: the file of the first GET in the string is prepared.
Prepared(s) ==
  LET f == Head(s.recvString)
  IN  [s EXCEPT !.isVirtual = (f # 0),
                !.total = @ + 1 + FileSize[f],
                !.toTransmit = @ \o Header(f) \o
                  (IF f # 0 THEN << >> ELSE Payload(f, FileSize[f]))]

\* HandleIncomingData with a request, which ends in CRLF.
IncomingData(s, f) ==
  Prepared([s EXCEPT !.recvString = Append(@, f), !.current = 0, !.total = 0])

\* What is left of the send buffer when it is acknowledged up to a number.
Unacknowledged(to) == SubSeq(txBuffer, to - acked + 1, Len(txBuffer))

\* A new ACK makes room, and the socket calls HandleReadyToTransmit.
AfterAck(to) ==
  IF to = acked THEN [s |-> server, tx |-> txBuffer]
  ELSE ReadyToTransmit(server, Unacknowledged(to))

Acknowledge ==
  \E to \in acked + 1 .. arrived :
    /\ ~Crashed
    /\ acked' = to
    /\ server' = AfterAck(to).s
    /\ txBuffer' = AfterAck(to).tx
    /\ UNCHANGED <<downloadVars, playerVars, requests, receiveVars>>

\* Broken: the response is not started before an ACK comes.
Respond_Later(s, tx) == [s |-> s, tx |-> tx]

Respond(s, tx) == ReadyToTransmit(s, tx)

\* A request reaches the server.  TCP deals with its ACK first.
ReceiveRequest ==
  LET request  == Head(requests)
      to       == IF request.ack > acked THEN request.ack ELSE acked
      response == Respond(IncomingData(AfterAck(to).s, request.file), AfterAck(to).tx)
  IN  /\ ~Crashed
      /\ requests # << >>
      /\ requests' = Tail(requests)
      /\ acked' = to
      /\ server' = response.s
      /\ txBuffer' = response.tx
      /\ UNCHANGED <<downloadVars, playerVars, receiveVars>>

-----------------------------------------------------------------------------
(* The client.                                                             *)

\* DoSendGetRequest.
SendGet(f) == requests' = Append(requests, [file |-> f, ack |-> arrived])

\* ConnectionSucceeded calls OnReadySend, which sends the first request; later
\* calls find m_sentGetRequest set.
ConnectionComplete ==
  /\ connection = "connecting"
  /\ connection' = "open"
  /\ SendGet(file)
  /\ UNCHANGED <<file, active, finishedDownload, isFirstPacket, bytesRecv,
                 contentLength, readUnits, playerVars, sendVars, receiveVars>>

\* Broken: without space the segment is dropped and nothing scheduled.
MultimediaFile_GivesUp(segment) ==
  /\ IF Len(buffer) < MaxBuffered
     THEN /\ buffer' = Append(buffer, segment)
          /\ downloadTimer' = TRUE
     ELSE UNCHANGED <<buffer, downloadTimer>>
  /\ spaceTimer' = FALSE

\* Broken: once put off, OnMultimediaFile is called every second.
MultimediaFile_Periodic(segment) ==
  IF Len(buffer) < MaxBuffered
  THEN /\ buffer' = Append(buffer, segment)
       /\ downloadTimer' = TRUE
       /\ UNCHANGED spaceTimer
  ELSE /\ spaceTimer' = TRUE
       /\ UNCHANGED <<buffer, downloadTimer>>

\* OnMultimediaFile: with space the segment is buffered and the next download
\* scheduled, otherwise it tries again after a second.
MultimediaFile(segment) ==
  IF Len(buffer) < MaxBuffered
  THEN /\ buffer' = Append(buffer, segment)
       /\ downloadTimer' = TRUE
       /\ spaceTimer' = FALSE
  ELSE /\ spaceTimer' = TRUE
       /\ UNCHANGED <<buffer, downloadTimer>>

\* OnMpdFile: the first download and the first DoPlay are scheduled.
MpdFile ==
  /\ mpdParsed' = TRUE
  /\ downloadTimer' = TRUE
  /\ playTimer' = TRUE
  /\ UNCHANGED <<spaceTimer, buffer>>

\* OnFileReceived.
FileReceived ==
  /\ IF mpdParsed THEN MultimediaFile(file) /\ UNCHANGED <<mpdParsed, playTimer>>
     ELSE MpdFile
  /\ UNCHANGED <<hasAll, played>>

\* HandleRead with all that is in the receive buffer: the first packet must
\* begin with the header.
Read(packet) ==
  LET parsed == isFirstPacket /\ Head(packet).header
  IN  /\ isFirstPacket' = FALSE
      /\ contentLength' = IF parsed THEN FileSize[Head(packet).file] ELSE contentLength
      /\ bytesRecv' = bytesRecv + Len(packet) - (IF parsed THEN 1 ELSE 0)
      /\ readUnits' = readUnits \o packet
      /\ rxBuffer' = << >>
      /\ finishedDownload' = (bytesRecv' = contentLength')
      /\ IF finishedDownload' THEN FileReceived ELSE UNCHANGED playerVars

\* TCP delivers some units in order and calls HandleRead.  After the last one
\* of a file nothing is read any more.  A download that was given up has freed
\* _tmpbuffer, but its callback stays on the connection that is kept alive: the
\* next packet is copied to NULL.
Deliver ==
  \E n \in 1 .. acked + Len(txBuffer) - arrived :
    LET packet == rxBuffer \o SubSeq(txBuffer, arrived - acked + 1, arrived - acked + n)
    IN  /\ connection = "open"
        /\ connection' = IF finishedDownload \/ active THEN "open" ELSE "crashed"
        /\ arrived' = arrived + n
        /\ IF finishedDownload \/ ~active
           THEN /\ rxBuffer' = packet
                /\ UNCHANGED <<finishedDownload, isFirstPacket, bytesRecv,
                               contentLength, readUnits, playerVars>>
           ELSE Read(packet)
        /\ UNCHANGED <<file, active, requests, sendVars>>

\* The OnMultimediaFile that was put off; it does nothing in a stopped
\* application.
TryAgain ==
  /\ spaceTimer /\ ~Crashed
  /\ IF active THEN MultimediaFile(file)
     ELSE spaceTimer' = FALSE /\ UNCHANGED <<buffer, downloadTimer>>
  /\ UNCHANGED <<downloadVars, mpdParsed, playTimer, hasAll, played, requests,
                 sendVars, receiveVars>>

\* StopApplication, StartApplication and TryEstablishConnection on a connection
\* that is kept alive.
StartDownload(f) ==
  /\ file' = f
  /\ active' = TRUE
  /\ finishedDownload' = FALSE
  /\ isFirstPacket' = TRUE
  /\ bytesRecv' = 0
  /\ readUnits' = << >>
  /\ SendGet(f)
  /\ UNCHANGED <<connection, contentLength, hasAll>>

\* ForceCloseSocket.
AllDownloaded ==
  /\ hasAll' = TRUE
  /\ connection' = "closed"
  /\ UNCHANGED <<file, active, finishedDownload, isFirstPacket, bytesRecv,
                 contentLength, readUnits, requests>>

\* DownloadSegment: the adaptation logic names the next segment or says that
\* there is none.  That it is idle, and asked again after a second, changes
\* nothing and is left out.
DownloadSegment ==
  /\ downloadTimer /\ ~Crashed
  /\ downloadTimer' = FALSE
  /\ IF file < Last THEN StartDownload(file + 1) ELSE AllDownloaded
  /\ UNCHANGED <<mpdParsed, spaceTimer, playTimer, buffer, played, sendVars, receiveVars>>

\* DoPlay with a stall: a download of layered content is given up, and the
\* next one scheduled, while the connection stays as it is.
GivesUp == Aborts /\ buffer = << >> /\ ~hasAll /\ file > 0

\* DoPlay: consumes a segment, ends, or tries again.
DoPlay ==
  /\ playTimer /\ ~Crashed
  /\ playTimer' = (buffer # << >> \/ ~hasAll)
  /\ buffer' = IF buffer = << >> THEN << >> ELSE Tail(buffer)
  /\ played' = IF buffer = << >> THEN played ELSE Append(played, Head(buffer))
  /\ active' = (active /\ ~GivesUp)
  /\ downloadTimer' = (downloadTimer \/ GivesUp)
  /\ UNCHANGED <<file, connection, finishedDownload, isFirstPacket, bytesRecv,
                 contentLength, readUnits, mpdParsed, spaceTimer, hasAll, requests,
                 sendVars, receiveVars>>

DashNext ==
  \/ ConnectionComplete
  \/ ReceiveRequest
  \/ Acknowledge
  \/ Deliver
  \/ TryAgain
  \/ DownloadSegment
  \/ DoPlay

DashSpec == DashInit /\ [][DashNext]_dashVars

\* TCP delivers and acknowledges everything in the end, and the simulator runs
\* every event that is scheduled.
DashFairSpec ==
  /\ DashSpec
  /\ WF_dashVars(ConnectionComplete)
  /\ WF_dashVars(ReceiveRequest)
  /\ WF_dashVars(Acknowledge)
  /\ WF_dashVars(Deliver)
  /\ WF_dashVars(TryAgain)
  /\ WF_dashVars(DownloadSegment)
  /\ WF_dashVars(DoPlay)

-----------------------------------------------------------------------------
(* Properties.                                                             *)

Response(f) == Header(f) \o Payload(f, FileSize[f])

\* When the client counts a download as finished, it has read the response to
\* its request, the whole of it and nothing else: HandleRead only counts bytes,
\* and both ends use the connection, and their members, for one file after
\* another.
WholeFileReceived == finishedDownload => readUnits = Response(file)

\* What the server has not handed to the socket it will be called for: an ACK
\* must be outstanding whenever HandleReadyToTransmit has returned early.
UnsentIsCalledBack ==
  server.current < server.total => txBuffer # << >>

\* The segments are buffered, and played, each once and in order, however often
\* a full buffer puts one off.
SegmentsInOrder ==
  \A i \in DOMAIN (played \o buffer) : (played \o buffer)[i] = i

\* The player downloads and plays every segment and then stops.
EverySegmentPlayed == <>[](Len(played) = Last /\ ~playTimer)

=============================================================================
