------------------------- MODULE AudioServiceProofs -------------------------
(***************************************************************************)
(* What AudioService promises, for any number of clients and of requests:  *)
(* the loop acts on what poll found some steps before, and it is still so; *)
(* the lines that main and the sounds write never mix, and the commands    *)
(* among them keep their order; and the process does what SoundContract    *)
(* says.                                                                   *)
(***************************************************************************)
EXTENDS AudioService, ServiceProofs, SelectionsProofs

(***************************************************************************)
(* The result of a poll.                                                   *)
(***************************************************************************)
StreamsTyped ==
  /\ cmd_backlog \in Seq(Clients)
  /\ request_stream \in Seq(AudioChars)

\* While main goes by the result of a poll, what made a descriptor ready is there.
ResultHolds ==
  /\ service = "readApp" => request_stream # <<>> \/ app = "gone"
  /\ service \in {"readApp", "requests"} /\ "cmd" \in revents => cmd_backlog # <<>>
  /\ service = "accept" => cmd_backlog # <<>>

PollInv == StreamsTyped /\ ResultHolds

-------------------------------------------------------------------------------
\* Nobody but main takes anything out of the two queues.
LEMMA QueuesGrow ==
  ASSUME PollInv, StreamsTyped', service' = service \/ service' \in {"ended", "killed"},
         revents' = revents,
         cmd_backlog # <<>> => cmd_backlog' # <<>>,
         request_stream # <<>> => request_stream' # <<>>,
         app = "gone" => app' = "gone"
  PROVE  PollInv'
BY DEF PollInv, ResultHolds

LEMMA OthersKeep ==
  ASSUME PollInv, OtherStep \/ AppListens \/ AppRequests \/ \E i \in Sounds : SoundStep(i)
  PROVE  PollInv'
<1>0. cmd_backlog \in Seq(Clients) /\ request_stream \in Seq(AudioChars)
  BY DEF PollInv, StreamsTyped
<1>1. CASE \E c \in Clients : ClientStep(c) /\ UNCHANGED <<requestVars, soundThreads>>
  <2>1. PICK c \in Clients : ClientStep(c) /\ UNCHANGED <<requestVars, soundThreads>>
    BY <1>1
  <2>2. cmd_backlog' = cmd_backlog \/ cmd_backlog' = Append(cmd_backlog, c)
    BY <2>1 DEF ClientStep, ClientConnects, ClientWrites, ClientCloses
  <2>3. Append(cmd_backlog, c) \in Seq(Clients) /\ Append(cmd_backlog, c) # <<>>
    BY <1>0, AppendProperties
  <2>4. UNCHANGED <<service, revents, request_stream, app>>
    BY <2>1 DEF ClientStep, ClientConnects, ClientWrites, ClientCloses, requestVars, appVars
  <2> QED
    BY <1>0, <2>2, <2>3, <2>4, QueuesGrow DEF StreamsTyped
<1>2. CASE (HandleSignal \/ AppConnects \/ AppExits) /\ UNCHANGED <<requestVars, soundThreads>>
  <2>1. UNCHANGED <<service, revents, request_stream, cmd_backlog>>
        /\ (app = "gone" => app' = "gone")
    BY <1>2 DEF HandleSignal, AppConnects, AppExits, cmdVars, appVars, requestVars
  <2> QED
    BY <1>0, <2>1, QueuesGrow DEF StreamsTyped
<1>3. CASE AppListens
  <2>1. UNCHANGED <<service, revents, request_stream, cmd_backlog, app>>
    BY <1>3 DEF AppListens, ListenLoop, AppReads, AppPosts, cmdVars, requestVars
  <2> QED
    BY <1>0, <2>1, QueuesGrow DEF StreamsTyped
<1>4. CASE AppRequests
  <2> DEFINE line == Line(RequestText)
  <2>1. line \in Seq(AudioChars) /\ request_stream' = request_stream \o line
        /\ UNCHANGED <<service, revents, cmd_backlog, app>>
    <3>1. RequestText \in Seq(AudioChars) /\ Newline \in AudioChars
      BY DEF RequestText, AudioChars
    <3>2. Append(RequestText, Newline) \in Seq(AudioChars)
      BY <3>1, AppendProperties
    <3> QED
      BY <1>4, <3>2 DEF AppRequests, Line, serviceVars, cmdVars, appVars
  <2> HIDE DEF line
  <2>2. request_stream \o line \in Seq(AudioChars)
        /\ (request_stream # <<>> => request_stream \o line # <<>>)
    BY <1>0, <2>1, ConcatProperties, ConcatEqualIffEmpty
  <2> QED
    BY <1>0, <2>1, <2>2, QueuesGrow DEF StreamsTyped
<1>5. CASE \E i \in Sounds : SoundStep(i)
  <2>1. /\ UNCHANGED <<revents, request_stream, cmd_backlog, app>>
        /\ service' = service \/ service' = "killed"
    BY <1>5 DEF SoundStep, SoundWrites, SoundWritten, SoundKills, SoundIsLost, serviceVars,
                cmdVars, appVars, requestVars
  <2> QED
    BY <1>0, <2>1, QueuesGrow DEF StreamsTyped
<1> QED
  BY <1>1, <1>2, <1>3, <1>4, <1>5 DEF OtherStep

LEMMA MainKeeps == PollInv /\ MainStep => PollInv'
<1> SUFFICES ASSUME PollInv, MainStep
             PROVE  PollInv'
  OBVIOUS
<1>0. cmd_backlog \in Seq(Clients) /\ request_stream \in Seq(AudioChars)
  BY DEF PollInv, StreamsTyped
<1> USE DEF PollInv, StreamsTyped, ResultHolds, Goes, requestVars
<1>1. CASE StartsUp
  BY <1>1 DEF StartsUp, AcceptApp, cmdVars
<1>2. CASE AudioTestsRunning \/ AudioPollTimesOut
  BY <1>2 DEF AudioTestsRunning, AudioPollTimesOut, cmdVars
<1>3. CASE PollReturns
  <2>1. /\ "cmd" \in Ready <=> cmd_backlog # <<>>
        /\ "app" \in Ready <=> request_stream # <<>> \/ app = "gone"
        /\ Ready # {} => "cmd" \in Ready \/ "app" \in Ready
    BY DEF Ready
  <2> QED
    BY <1>3, <2>1 DEF PollReturns, cmdVars, appVars
<1>4. CASE ReadsRequests
  <2>1. PICK n \in 1 .. Len(request_stream) :
          request_stream' = SubSeq(request_stream, n + 1, Len(request_stream))
    BY <1>4 DEF ReadsRequests
  <2>2. request_stream' \in Seq(AudioChars)
    <3>1. Len(request_stream) \in Nat
          /\ \A i \in 1 .. Len(request_stream) : request_stream[i] \in AudioChars
      BY <1>0, LenProperties, ElementOfSeq
    <3> QED
      BY <2>1, <3>1, SubSeqProperties
  <2> QED
    BY <1>4, <2>2 DEF ReadsRequests, cmdVars
<1>5. CASE AppEnds
  BY <1>5 DEF AppEnds, cmdVars
<1>6. CASE HandlesRequest
  BY <1>6 DEF HandlesRequest, cmdVars, appVars
<1>7. CASE RequestsDone
  BY <1>7 DEF RequestsDone, cmdVars, appVars
<1>8. CASE AudioAcceptClient
  BY <1>0, <1>8, HeadTailProperties DEF AudioAcceptClient
<1>9. CASE ServesClient
  BY <1>9 DEF ServesClient, TestsServing, ReadsClient, ClientEnds, LinesDone, ClosesClient,
              cmdVars
<1>10. CASE MainForwards \/ MainForwarded
  BY <1>10 DEF MainForwards, MainForwarded, cmdVars
<1>11. CASE MainForwardKills \/ Exits
  BY <1>11 DEF MainForwardKills, ForwardKills, Exits, cmdVars
<1> QED
  BY <1>1, <1>2, <1>3, <1>4, <1>5, <1>6, <1>7, <1>8, <1>9, <1>10, <1>11 DEF MainStep

\* main never blocks where it goes by the result of an earlier poll: when it accepts
\* there is a client to accept, and when it reads there is something to read, or the
\* end of the connection (the loop of main, audio_service.cpp).
THEOREM PollIsTrue == AudioSafetySpec => []PollStaysTrue
<1>1. AudioInit => PollInv
  BY EmptySeq DEF AudioInit, Init, PollInv, StreamsTyped, ResultHolds
<1>2. PollInv /\ [AudioNext]_audioVars => PollInv'
  <2>1. PollInv /\ UNCHANGED audioVars => PollInv'
    BY DEF PollInv, StreamsTyped, ResultHolds, audioVars, serviceVars, cmdVars, appVars,
           requestVars
  <2> QED
    BY <2>1, MainKeeps, OthersKeep DEF AudioNext
<1>3. PollInv => PollStaysTrue
  BY DEF PollInv, ResultHolds, PollStaysTrue
<1> QED
  BY <1>1, <1>2, <1>3, PTL DEF AudioSafetySpec

-------------------------------------------------------------------------------
(***************************************************************************)
(* The lines on a connection, byte by byte.                                *)
(***************************************************************************)
AudioTexts == CommandTexts \union {RequestText, CompletedText}

\* s is the lines of texts, one after the other; cut is 1 if the newline of the last
\* is still to come.
Encodes(s, texts, cut) ==
  /\ Len(s) = 3 * Len(texts) - cut
  /\ \A j \in 1 .. Len(texts) : /\ s[3 * j - 2] = texts[j][1]
                                /\ s[3 * j - 1] = texts[j][2]
                                /\ 3 * j <= Len(s) => s[3 * j] = Newline

LEMMA CharsAreApart ==
  /\ Bytes \subseteq AudioChars
  /\ Newline \in AudioChars
  /\ \A c \in Clients : c \notin {Newline, "play", "sound", "completed"}
  /\ Newline \notin {"play", "sound", "completed"}
<1>1. Newline \notin Clients /\ {"play", "sound", "completed"} \intersect Clients = {}
  BY ClientsAssumption, AudioAssumption
<1> QED
  BY <1>1 DEF Newline, Bytes, AudioChars

LEMMA TextIsTwo ==
  ASSUME NEW t \in AudioTexts
  PROVE  /\ t \in Seq(AudioChars) /\ Len(t) = 2
         /\ t[1] \in AudioChars /\ t[2] \in AudioChars
         /\ t[1] # Newline /\ t[2] # Newline
         /\ t = <<t[1], t[2]>>
<1>1. PICK x \in AudioChars, y \in AudioChars : t = <<x, y>> /\ x # Newline /\ y # Newline
  <2>1. CASE t \in CommandTexts
    <3>1. PICK c \in Clients : t = <<c, c>>
      BY <2>1 DEF CommandTexts, TextOf
    <3> QED
      BY <3>1, CharsAreApart DEF AudioChars
  <2>2. CASE t \in {RequestText, CompletedText}
    BY <2>2, CharsAreApart DEF RequestText, CompletedText, AudioChars
  <2> QED
    BY <2>1, <2>2 DEF AudioTexts
<1> QED
  BY <1>1

LEMMA TextLine ==
  ASSUME NEW t \in AudioTexts
  PROVE  /\ Line(t) \in Seq(AudioChars) /\ Len(Line(t)) = 3
         /\ Line(t)[1] = t[1] /\ Line(t)[2] = t[2] /\ Line(t)[3] = Newline
<1>1. t \in Seq(AudioChars)
  BY TextIsTwo
<1>0. Len(t) = 2
  BY TextIsTwo
<1>2. Newline \in AudioChars
  BY CharsAreApart
<1> HIDE DEF Newline
<1>3. /\ Append(t, Newline) \in Seq(AudioChars) /\ Len(Append(t, Newline)) = Len(t) + 1
      /\ \A i \in 1 .. Len(t) : Append(t, Newline)[i] = t[i]
      /\ Append(t, Newline)[Len(t) + 1] = Newline
  BY <1>1, <1>2, AppendProperties
<1> QED
  BY <1>0, <1>3 DEF Line

LEMMA CharsJoined ==
  ASSUME NEW s \in Seq(AudioChars), NEW t \in Seq(AudioChars)
  PROVE  /\ s \o t \in Seq(AudioChars) /\ Len(s) \in Nat /\ Len(t) \in Nat
         /\ Len(s \o t) = Len(s) + Len(t)
         /\ \A i \in 1 .. Len(s) : (s \o t)[i] = s[i]
         /\ \A i \in 1 .. Len(t) : (s \o t)[Len(s) + i] = t[i]
BY ConcatRepeats, ConcatProperties

LEMMA CharsJoinedTwice ==
  ASSUME NEW s \in Seq(AudioChars), NEW t \in Seq(AudioChars), NEW u \in Seq(AudioChars)
  PROVE  (s \o t) \o u = s \o (t \o u)
BY ConcatAssociative

LEMMA CharsMove ==
  ASSUME NEW b \in Seq(AudioChars), NEW s \in Seq(AudioChars), NEW n \in 1 .. Len(s)
  PROVE  /\ b \o SubSeq(s, 1, n) \in Seq(AudioChars)
         /\ SubSeq(s, n + 1, Len(s)) \in Seq(AudioChars)
         /\ (b \o SubSeq(s, 1, n)) \o SubSeq(s, n + 1, Len(s)) = b \o s
<1> DEFINE taken == SubSeq(s, 1, n)
           rest == SubSeq(s, n + 1, Len(s))
<1>1. Len(s) \in Nat /\ \A i \in 1 .. Len(s) : s[i] \in AudioChars
  BY LenProperties, ElementOfSeq
<1>2. taken \in Seq(AudioChars) /\ rest \in Seq(AudioChars)
  BY <1>1, SubSeqProperties
<1>3. taken \o rest = s
  BY <1>1, ConcatAdjacentSubSeq, SubSeqFull
<1> HIDE DEF taken, rest
<1>4. (b \o taken) \o rest = b \o (taken \o rest)
  BY <1>2, CharsJoinedTwice
<1>5. b \o taken \in Seq(AudioChars)
  BY <1>2, CharsJoined
<1> QED
  BY <1>2, <1>3, <1>4, <1>5 DEF taken, rest

LEMMA NothingEncoded == Encodes(<<>>, <<>>, 0)
BY EmptySeq DEF Encodes

\* A writer that has the mutex puts the text of a line at the end, and its newline later.
LEMMA TextWritten ==
  ASSUME NEW s \in Seq(AudioChars), NEW texts \in Seq(AudioTexts), Encodes(s, texts, 0),
         NEW t \in AudioTexts
  PROVE  /\ s \o t \in Seq(AudioChars)
         /\ Append(texts, t) \in Seq(AudioTexts)
         /\ Encodes(s \o t, Append(texts, t), 1)
<1>1. t \in Seq(AudioChars) /\ Len(t) = 2
  BY TextIsTwo
<1> DEFINE more == s \o t
           all == Append(texts, t)
<1>2. /\ more \in Seq(AudioChars) /\ Len(s) \in Nat /\ Len(more) = Len(s) + 2
      /\ \A i \in 1 .. Len(s) : more[i] = s[i]
      /\ more[Len(s) + 1] = t[1] /\ more[Len(s) + 2] = t[2]
  BY <1>1, CharsJoined
<1>3. /\ all \in Seq(AudioTexts) /\ Len(texts) \in Nat /\ Len(all) = Len(texts) + 1
      /\ \A i \in 1 .. Len(texts) : all[i] = texts[i]
      /\ all[Len(texts) + 1] = t
  BY AppendProperties, LenProperties
<1> HIDE DEF more, all
<1>4. /\ Len(s) = 3 * Len(texts)
      /\ \A j \in 1 .. Len(texts) : /\ s[3 * j - 2] = texts[j][1] /\ s[3 * j - 1] = texts[j][2]
                                    /\ s[3 * j] = Newline
  BY <1>3 DEF Encodes
<1>5. ASSUME NEW j \in 1 .. Len(all)
      PROVE  /\ more[3 * j - 2] = all[j][1] /\ more[3 * j - 1] = all[j][2]
             /\ 3 * j <= Len(more) => more[3 * j] = Newline
  <2>1. CASE j <= Len(texts)
    <3>1. j \in 1 .. Len(texts) /\ 3 * j - 2 \in 1 .. Len(s) /\ 3 * j - 1 \in 1 .. Len(s)
          /\ 3 * j \in 1 .. Len(s)
      BY <1>3, <1>4, <2>1
    <3> QED
      BY <1>2, <1>3, <1>4, <3>1
  <2>2. CASE j = Len(texts) + 1
    <3>1. 3 * j - 2 = Len(s) + 1 /\ 3 * j - 1 = Len(s) + 2 /\ ~(3 * j <= Len(more))
      BY <1>2, <1>3, <1>4, <2>2
    <3> QED
      BY <1>2, <1>3, <2>2, <3>1
  <2> QED
    BY <1>3, <2>1, <2>2
<1>6. Len(more) = 3 * Len(all) - 1
  BY <1>2, <1>3, <1>4
<1>7. Encodes(more, all, 1)
  BY <1>5, <1>6 DEF Encodes
<1> QED
  BY <1>2, <1>3, <1>7 DEF more, all

LEMMA NewlineWritten ==
  ASSUME NEW s \in Seq(AudioChars), NEW texts \in Seq(AudioTexts), Encodes(s, texts, 1)
  PROVE  s \o <<Newline>> \in Seq(AudioChars) /\ Encodes(s \o <<Newline>>, texts, 0)
<1> DEFINE last == <<Newline>>
           more == s \o last
<1>1. last \in Seq(AudioChars) /\ Len(last) = 1 /\ last[1] = Newline
  BY CharsAreApart
<1> HIDE DEF last
<1>2. /\ more \in Seq(AudioChars) /\ Len(s) \in Nat /\ Len(more) = Len(s) + 1
      /\ \A i \in 1 .. Len(s) : more[i] = s[i]
      /\ more[Len(s) + 1] = Newline
  <2>1. 1 \in 1 .. Len(last)
    BY <1>1
  <2>2. /\ more \in Seq(AudioChars) /\ Len(s) \in Nat /\ Len(more) = Len(s) + Len(last)
        /\ \A i \in 1 .. Len(s) : more[i] = s[i]
        /\ \A i \in 1 .. Len(last) : more[Len(s) + i] = last[i]
    BY <1>1, CharsJoined
  <2> HIDE DEF more
  <2> QED
    BY <1>1, <2>1, <2>2
<1> HIDE DEF more
<1>0. Len(texts) \in Nat /\ Len(s) = 3 * Len(texts) - 1 /\ Len(s) \in Nat
  BY LenProperties DEF Encodes
<1>3. \A j \in 1 .. Len(texts) : /\ s[3 * j - 2] = texts[j][1] /\ s[3 * j - 1] = texts[j][2]
                                 /\ 3 * j <= Len(s) => s[3 * j] = Newline
  BY DEF Encodes
<1>4. ASSUME NEW j \in 1 .. Len(texts)
      PROVE  /\ more[3 * j - 2] = texts[j][1] /\ more[3 * j - 1] = texts[j][2]
             /\ more[3 * j] = Newline
  <2>1. 3 * j - 2 \in 1 .. Len(s) /\ 3 * j - 1 \in 1 .. Len(s)
        /\ (3 * j \in 1 .. Len(s) \/ 3 * j = Len(s) + 1)
    BY <1>0
  <2>2. CASE 3 * j \in 1 .. Len(s)
    <3>1. 3 * j <= Len(s)
      BY <1>0, <2>2
    <3>2. s[3 * j] = Newline
      BY <1>3, <3>1
    <3>3. more[3 * j] = s[3 * j]
      BY <1>2, <2>2
    <3> QED
      BY <1>2, <1>3, <2>1, <3>2, <3>3
  <2>3. CASE 3 * j = Len(s) + 1
    BY <1>2, <1>3, <2>1, <2>3
  <2> QED
    BY <2>1, <2>2, <2>3
<1>5. Len(more) = 3 * Len(texts) - 0
  BY <1>0, <1>2
<1> QED
  BY <1>2, <1>4, <1>5 DEF Encodes, more, last

\* The application, that is the only writer of its own stream, writes whole lines.
LEMMA LineWritten ==
  ASSUME NEW s \in Seq(AudioChars), NEW texts \in Seq(AudioTexts), Encodes(s, texts, 0),
         NEW t \in AudioTexts
  PROVE  /\ Line(t) \in Seq(AudioChars)
         /\ s \o Line(t) \in Seq(AudioChars)
         /\ Append(texts, t) \in Seq(AudioTexts)
         /\ Encodes(s \o Line(t), Append(texts, t), 0)
<1> DEFINE last == <<Newline>>
<1>1. t \in Seq(AudioChars) /\ last \in Seq(AudioChars)
  BY TextIsTwo, CharsAreApart
<1>2. Line(t) = t \o last
  BY <1>1, CharsAreApart, AppendIsConcat DEF Line
<1>3. /\ s \o t \in Seq(AudioChars) /\ Append(texts, t) \in Seq(AudioTexts)
      /\ Encodes(s \o t, Append(texts, t), 1)
  BY TextWritten
<1>4. (s \o t) \o last \in Seq(AudioChars) /\ Encodes((s \o t) \o last, Append(texts, t), 0)
  BY <1>3, NewlineWritten
<1> HIDE DEF last
<1>5. (s \o t) \o last = s \o (t \o last) /\ t \o last \in Seq(AudioChars)
  BY <1>1, CharsJoinedTwice, CharsJoined
<1> QED
  BY <1>2, <1>3, <1>4, <1>5
\* The reader finds the end of the first line where the writer put it.
LEMMA NewlineIsThird ==
  ASSUME NEW b \in Seq(AudioChars), Len(b) >= 3, NEW t \in AudioTexts,
         b[1] = t[1], b[2] = t[2], b[3] = Newline
  PROVE  /\ FirstLine(b) = t
         /\ AfterLine(b) \in Seq(AudioChars) /\ Len(AfterLine(b)) = Len(b) - 3
         /\ \A i \in 1 .. Len(b) - 3 : AfterLine(b)[i] = b[i + 3]
         /\ b = Line(t) \o AfterLine(b)
<1>0. /\ Len(b) \in Nat /\ DOMAIN b = 1 .. Len(b)
      /\ \A i \in 1 .. Len(b) : b[i] \in AudioChars
      /\ b[1] # Newline /\ b[2] # Newline
      /\ t \in Seq(AudioChars) /\ Len(t) = 2
  BY LenProperties, TextIsTwo, ElementOfSeq
<1>1. FirstNewline(b) = 3
  <2>1. ASSUME NEW i \in DOMAIN b, b[i] = Newline, \A j \in 1 .. i - 1 : b[j] # Newline
        PROVE  i = 3
    <3>1. i \in Nat /\ i # 1 /\ i # 2
      BY <1>0, <2>1
    <3>2. ~ (i > 3)
      BY <1>0, <2>1, <3>1
    <3> QED
      BY <1>0, <3>1, <3>2
  <2>2. 3 \in DOMAIN b /\ \A j \in 1 .. 3 - 1 : b[j] # Newline
    BY <1>0
  <2> QED
    BY <2>1, <2>2 DEF FirstNewline
<1>2. FirstLine(b) = t
  <2>1. FirstLine(b) = SubSeq(b, 1, 2)
    BY <1>1 DEF FirstLine
  <2>2. /\ SubSeq(b, 1, 2) \in Seq(AudioChars) /\ Len(SubSeq(b, 1, 2)) = 2
        /\ SubSeq(b, 1, 2)[1] = b[1] /\ SubSeq(b, 1, 2)[2] = b[2]
    BY <1>0, SubSeqProperties
  <2>3. \A i \in 1 .. 2 : SubSeq(b, 1, 2)[i] = t[i]
    BY <2>2
  <2> QED
    BY <1>0, <2>1, <2>2, <2>3, SeqEqual
<1>3. AfterLine(b) = SubSeq(b, 4, Len(b))
  BY <1>1 DEF AfterLine
<1> DEFINE after == AfterLine(b)
<1> HIDE DEF after
<1>4. /\ after \in Seq(AudioChars)
      /\ Len(after) = Len(b) - 3
      /\ \A i \in 1 .. Len(b) - 3 : after[i] = b[i + 3]
  <2>1. \A i \in 4 .. Len(b) : b[i] \in AudioChars
    BY <1>0
  <2>2. /\ SubSeq(b, 4, Len(b)) \in Seq(AudioChars)
        /\ Len(SubSeq(b, 4, Len(b))) = IF 4 <= Len(b) THEN Len(b) - 4 + 1 ELSE 0
        /\ \A i \in 1 .. Len(b) - 4 + 1 : SubSeq(b, 4, Len(b))[i] = b[4 + i - 1]
    BY <1>0, <2>1, SubSeqProperties
  <2> QED
    BY <1>0, <1>3, <2>2 DEF after
<1>5. b = Line(t) \o after
  <2> DEFINE line == Line(t)
             whole == line \o after
  <2>1. /\ line \in Seq(AudioChars) /\ Len(line) = 3
        /\ line[1] = t[1] /\ line[2] = t[2] /\ line[3] = Newline
    BY TextLine
  <2> HIDE DEF line
  <2>2. /\ whole \in Seq(AudioChars) /\ Len(whole) = Len(line) + Len(after)
        /\ \A i \in 1 .. Len(line) : whole[i] = line[i]
        /\ \A i \in 1 .. Len(after) : whole[Len(line) + i] = after[i]
    BY <1>4, <2>1, CharsJoined
  <2> HIDE DEF whole
  <2>3. ASSUME NEW i \in 1 .. Len(b)
        PROVE  b[i] = whole[i]
    <3>1. CASE i \in 1 .. 3
      <4>1. i = 1 \/ i = 2 \/ i = 3
        BY <3>1
      <4> QED
        BY <2>1, <2>2, <4>1
    <3>2. CASE i > 3
      <4> DEFINE k == i - 3
      <4>1. k \in 1 .. Len(b) - 3 /\ k \in 1 .. Len(after) /\ i = 3 + k /\ i = k + 3
        BY <1>0, <1>4, <3>2
      <4> HIDE DEF k
      <4>2. whole[3 + k] = after[k] /\ after[k] = b[k + 3]
        BY <1>4, <2>1, <2>2, <4>1
      <4> QED
        BY <4>1, <4>2
    <3> QED
      BY <1>0, <3>1, <3>2
  <2>4. Len(whole) = Len(b)
    BY <1>0, <1>4, <2>1, <2>2
  <2>5. b = whole
    BY <2>2, <2>3, <2>4, SeqEqual
  <2> QED
    BY <2>5 DEF whole, line
<1> QED
  BY <1>2, <1>4, <1>5 DEF after

\* Of two parts of a stream the first loses its first three bytes.
LEMMA ThreeTaken ==
  ASSUME NEW b \in Seq(AudioChars), NEW s \in Seq(AudioChars), NEW a \in Seq(AudioChars),
         Len(b) >= 3, Len(a) = Len(b) - 3,
         \A i \in 1 .. Len(b) - 3 : a[i] = b[i + 3]
  PROVE  /\ Len(a \o s) = Len(b \o s) - 3
         /\ \A i \in 1 .. Len(b \o s) - 3 : (a \o s)[i] = (b \o s)[i + 3]
<1> DEFINE bytes == b \o s
           rest == a \o s
<1>1. /\ Len(bytes) = Len(b) + Len(s) /\ Len(b) \in Nat /\ Len(s) \in Nat
      /\ \A i \in 1 .. Len(b) : bytes[i] = b[i]
      /\ \A i \in 1 .. Len(s) : bytes[Len(b) + i] = s[i]
  BY CharsJoined
<1>2. /\ Len(rest) = Len(a) + Len(s) /\ Len(a) \in Nat
      /\ \A i \in 1 .. Len(a) : rest[i] = a[i]
      /\ \A i \in 1 .. Len(s) : rest[Len(a) + i] = s[i]
  BY CharsJoined
<1> HIDE DEF bytes, rest
<1>3. Len(rest) = Len(bytes) - 3
  BY <1>1, <1>2
<1>4. ASSUME NEW i \in 1 .. Len(bytes) - 3
      PROVE  rest[i] = bytes[i + 3]
  <2>1. CASE i <= Len(a)
    <3>1. i \in 1 .. Len(a) /\ i \in 1 .. Len(b) - 3 /\ i + 3 \in 1 .. Len(b)
      BY <1>1, <1>2, <2>1
    <3> QED
      BY <1>1, <1>2, <3>1
  <2>2. CASE i > Len(a)
    <3> DEFINE k == i - Len(a)
    <3>1. k \in 1 .. Len(s) /\ i = Len(a) + k /\ i + 3 = Len(b) + k
      BY <1>1, <1>2, <2>2
    <3> HIDE DEF k
    <3>2. rest[Len(a) + k] = s[k] /\ bytes[Len(b) + k] = s[k]
      BY <1>1, <1>2, <3>1
    <3> QED
      BY <3>1, <3>2
  <2> QED
    BY <1>1, <1>2, <2>1, <2>2
<1> QED
  BY <1>3, <1>4 DEF bytes, rest

\* A buffer with a newline holds the first of the lines; taking it out leaves the others.
LEMMA LineTaken ==
  ASSUME NEW b \in Seq(AudioChars), NEW s \in Seq(AudioChars), NEW texts \in Seq(AudioTexts),
         NEW cut \in {0, 1}, Encodes(b \o s, texts, cut), HasLine(b)
  PROVE  /\ texts # <<>> /\ FirstLine(b) = Head(texts)
         /\ AfterLine(b) \in Seq(AudioChars) /\ b = Line(Head(texts)) \o AfterLine(b)
         /\ Encodes(AfterLine(b) \o s, Tail(texts), cut)
<1> DEFINE bytes == b \o s
           t == texts[1]
           after == AfterLine(b)
           rest == after \o s
           others == Tail(texts)
<1>1. /\ Len(bytes) = Len(b) + Len(s) /\ Len(b) \in Nat /\ Len(s) \in Nat
      /\ \A i \in 1 .. Len(b) : bytes[i] = b[i]
  BY CharsJoined
<1>2. PICK k \in 1 .. Len(b) : b[k] = Newline
  BY DEF HasLine, Contains
<1>3. Len(bytes) = 3 * Len(texts) - cut /\ Len(texts) \in Nat
  BY LenProperties DEF Encodes
<1>4. \A j \in 1 .. Len(texts) : /\ bytes[3 * j - 2] = texts[j][1]
                                 /\ bytes[3 * j - 1] = texts[j][2]
                                 /\ 3 * j <= Len(bytes) => bytes[3 * j] = Newline
  BY DEF Encodes
<1> HIDE DEF bytes
<1>5. Len(texts) >= 1 /\ texts # <<>>
  <2>1. Len(texts) >= 1
    BY <1>1, <1>2, <1>3
  <2> QED
    BY <2>1, EmptySeq
<1>6. /\ t = Head(texts) /\ others \in Seq(AudioTexts) /\ Len(others) = Len(texts) - 1
      /\ \A j \in 1 .. Len(others) : others[j] = texts[j + 1]
  BY <1>5, HeadTailProperties
<1>7. t \in AudioTexts /\ t[1] # Newline /\ t[2] # Newline
  BY <1>3, <1>5, ElementOfSeq, TextIsTwo
<1> HIDE DEF others
<1>8. /\ bytes[1] = t[1] /\ bytes[2] = t[2]
      /\ 3 <= Len(bytes) => bytes[3] = Newline
  <2>1. 1 \in 1 .. Len(texts) /\ 3 * 1 - 2 = 1 /\ 3 * 1 - 1 = 2 /\ 3 * 1 = 3
    BY <1>3, <1>5
  <2>2. /\ bytes[3 * 1 - 2] = t[1] /\ bytes[3 * 1 - 1] = t[2]
        /\ 3 * 1 <= Len(bytes) => bytes[3 * 1] = Newline
    BY <1>4, <2>1, Zenon
  <2> QED
    BY <2>1, <2>2
<1> HIDE DEF t
<1>9. Len(b) >= 3 /\ b[1] = t[1] /\ b[2] = t[2] /\ b[3] = Newline
  <2>1. k # 1 /\ k # 2
    BY <1>1, <1>2, <1>7, <1>8
  <2>2. Len(b) >= 3 /\ Len(bytes) >= 3
    BY <1>1, <1>2, <2>1
  <2> QED
    BY <1>1, <1>8, <2>2
<1>10. /\ FirstLine(b) = t
       /\ after \in Seq(AudioChars) /\ Len(after) = Len(b) - 3
       /\ \A i \in 1 .. Len(b) - 3 : after[i] = b[i + 3]
       /\ b = Line(t) \o after
  BY <1>7, <1>9, NewlineIsThird
<1> HIDE DEF after
<1>11. /\ Len(rest) = Len(bytes) - 3
       /\ \A i \in 1 .. Len(bytes) - 3 : rest[i] = bytes[i + 3]
  BY <1>9, <1>10, ThreeTaken DEF bytes
<1> HIDE DEF rest
<1>12. ASSUME NEW j \in 1 .. Len(others)
       PROVE  /\ rest[3 * j - 2] = others[j][1]
              /\ rest[3 * j - 1] = others[j][2]
              /\ 3 * j <= Len(rest) => rest[3 * j] = Newline
  <2>1. j + 1 \in 1 .. Len(texts)
        /\ 3 * (j + 1) - 2 = 3 * j - 2 + 3 /\ 3 * (j + 1) - 1 = 3 * j - 1 + 3
        /\ 3 * (j + 1) = 3 * j + 3
    BY <1>3, <1>6
  <2>2. /\ bytes[3 * (j + 1) - 2] = texts[j + 1][1]
        /\ bytes[3 * (j + 1) - 1] = texts[j + 1][2]
        /\ 3 * (j + 1) <= Len(bytes) => bytes[3 * (j + 1)] = Newline
    BY <1>4, <2>1, Zenon
  <2>3. 3 * j - 2 \in 1 .. Len(bytes) - 3 /\ 3 * j - 1 \in 1 .. Len(bytes) - 3
    BY <1>3, <1>6
  <2>4. rest[3 * j - 2] = bytes[3 * j - 2 + 3] /\ rest[3 * j - 1] = bytes[3 * j - 1 + 3]
    BY <1>11, <2>3, Zenon
  <2>5. ASSUME 3 * j <= Len(rest)
        PROVE  rest[3 * j] = Newline
    <3>1. 3 * j \in 1 .. Len(bytes) - 3 /\ 3 * (j + 1) <= Len(bytes)
      BY <1>1, <1>3, <1>6, <1>11, <2>5
    <3>2. rest[3 * j] = bytes[3 * j + 3]
      BY <1>11, <3>1, Zenon
    <3> QED
      BY <2>1, <2>2, <3>1, <3>2
  <2> QED
    BY <1>6, <2>1, <2>2, <2>4, <2>5
<1>13. Len(rest) = 3 * Len(others) - cut
  BY <1>3, <1>6, <1>11
<1>14. Encodes(rest, others, cut)
  BY <1>12, <1>13 DEF Encodes
<1> QED
  BY <1>5, <1>6, <1>10, <1>14 DEF rest, after, others

\* How often a line counts, by its newline and by what it says.
LEMMA LineCounts ==
  ASSUME NEW t \in AudioTexts
  PROVE  /\ Count(t, {"completed"}) = IF t = CompletedText THEN 1 ELSE 0
         /\ Count(Line(t), {"completed"}) = Count(t, {"completed"})
         /\ Count(Line(t), {Newline}) = 1
         /\ Count(<<Newline>>, {"completed"}) = 0
<1>1. /\ t \in Seq(AudioChars) /\ t[1] \in AudioChars /\ t[2] \in AudioChars
      /\ t[1] # Newline /\ t[2] # Newline /\ t = <<t[1], t[2]>>
  BY TextIsTwo
<1>2. PICK x \in AudioChars, y \in AudioChars : t = <<x, y>> /\ x # Newline /\ y # Newline
  BY <1>1, Zenon
<1>3. /\ t = CompletedText => x # "completed" /\ y = "completed"
      /\ t # CompletedText => x # "completed" /\ y # "completed"
  <2>1. CASE t \in CommandTexts
    <3>1. PICK c \in Clients : t = <<c, c>>
      BY <2>1 DEF CommandTexts, TextOf
    <3>2. x = c /\ y = c /\ c # "completed" /\ c # "play"
      BY <1>2, <3>1, CharsAreApart
    <3> QED
      BY <1>2, <3>2 DEF CompletedText
  <2>2. CASE t = RequestText
    BY <1>2, <2>2 DEF RequestText, CompletedText
  <2>3. CASE t = CompletedText
    BY <1>2, <2>3 DEF CompletedText
  <2> QED
    BY <2>1, <2>2, <2>3 DEF AudioTexts
<1> DEFINE one == <<x>>
<1>4. one \in Seq(AudioChars) /\ t = Append(one, y)
  BY <1>2
<1>5. ASSUME NEW z
      PROVE  /\ Count(one, {z}) = IF x = z THEN 1 ELSE 0
             /\ Count(t, {z}) = Count(one, {z}) + IF y = z THEN 1 ELSE 0
             /\ Count(Line(t), {z}) = Count(t, {z}) + IF Newline = z THEN 1 ELSE 0
             /\ Count(<<Newline>>, {z}) = IF Newline = z THEN 1 ELSE 0
  <2>1. /\ Count(one, {z}) = IF x \in {z} THEN 1 ELSE 0
        /\ Count(<<Newline>>, {z}) = IF Newline \in {z} THEN 1 ELSE 0
    BY OfOne
  <2> HIDE DEF one
  <2>2. Count(Append(one, y), {z}) = Count(one, {z}) + IF y \in {z} THEN 1 ELSE 0
    BY <1>4, OfAppended
  <2>3. Newline \in AudioChars
    BY CharsAreApart
  <2>4. Count(Append(t, Newline), {z}) = Count(t, {z}) + IF Newline \in {z} THEN 1 ELSE 0
    <3>1. t \in Seq(AudioChars)
      BY <1>1
    <3> HIDE DEF Newline
    <3> QED
      BY <2>3, <3>1, OfAppended
  <2> QED
    BY <1>4, <2>1, <2>2, <2>4 DEF Line
<1> HIDE DEF one
<1>6. Newline # "completed"
  BY CharsAreApart
<1>7. Count(Line(t), {Newline}) = 1
  BY <1>2, <1>5
<1>8. /\ Count(t, {"completed"}) = IF t = CompletedText THEN 1 ELSE 0
      /\ Count(Line(t), {"completed"}) = Count(t, {"completed"})
      /\ Count(<<Newline>>, {"completed"}) = 0
  BY <1>3, <1>5, <1>6
<1> QED
  BY <1>7, <1>8

LEMMA CountJoined ==
  ASSUME NEW s \in Seq(AudioChars), NEW t \in Seq(AudioChars), NEW S
  PROVE  /\ Count(s \o t, S) = Count(s, S) + Count(t, S)
         /\ Count(s, S) \in Nat /\ Count(t, S) \in Nat
BY CountConcat

-------------------------------------------------------------------------------
(***************************************************************************)
(* Who writes, and what the requests have come to.                         *)
(***************************************************************************)
ControlInv ==
  /\ service \in {"acceptApp", "loop", "poll", "readApp", "requests", "accept", "serve",
                  "read", "lines", "forwarding", "close", "closed", "ended", "killed"}
  /\ g_running \in BOOLEAN
  /\ app \in {"out", "waiting", "up", "gone"}
  /\ revents \subseteq {"cmd", "app"}
  /\ g_app_write_mutex \in {Free, Main} \union Sounds
  /\ sound \in [Sounds -> {"none", "playing", "writing", "done"}]
  /\ \A i \in Sounds : sound[i] = "writing" <=> g_app_write_mutex = i
  /\ service = "forwarding" <=> g_app_write_mutex = Main

\* The lines of the requests that main has still to handle are in its stream and its
\* buffer, and the threads that it has started are the first ones.
Asked(asked) ==
  /\ Encodes(request_buffer \o request_stream, asked, 0)
  /\ Len(asked) <= requested
  /\ \A i \in Sounds : sound[i] # "none" <=> i + Len(asked) <= requested

RequestInv ==
  /\ request_stream \in Seq(AudioChars) /\ request_buffer \in Seq(AudioChars)
  /\ requested \in 0 .. MaxRequests
  /\ \E asked \in Seq({RequestText}) : Asked(asked)

LEMMA MutexNames ==
  /\ MaxRequests \in Nat /\ Free \notin Sounds /\ Main \notin Sounds /\ Free # Main
  /\ \A i \in Sounds : i \in Nat /\ i # Free /\ i # Main
BY AudioAssumption DEF Free, Main, Sounds

LEMMA RequestsAreTexts ==
  ASSUME NEW asked \in Seq({RequestText})
  PROVE  /\ asked \in Seq(AudioTexts) /\ Len(asked) \in Nat
         /\ asked # <<>> => Head(asked) = RequestText /\ Tail(asked) \in Seq({RequestText})
                            /\ Len(Tail(asked)) = Len(asked) - 1 /\ Len(asked) >= 1
         /\ Append(asked, RequestText) \in Seq({RequestText})
         /\ Len(Append(asked, RequestText)) = Len(asked) + 1
<1> DEFINE r == RequestText
<1>1. r \in AudioTexts
  BY DEF AudioTexts
<1> HIDE DEF r
<1>2. asked \in Seq({r})
  BY DEF r
<1>3. Len(asked) \in Nat /\ asked \in [1 .. Len(asked) -> {r}]
  BY <1>2, LenProperties
<1>4. asked \in [1 .. Len(asked) -> AudioTexts]
  BY <1>1, <1>3
<1>5. asked \in Seq(AudioTexts)
  BY <1>3, <1>4, SeqDef
<1>6. asked # <<>> => Head(asked) = r /\ Tail(asked) \in Seq({r})
                      /\ Len(Tail(asked)) = Len(asked) - 1 /\ Len(asked) >= 1
  <2>1. asked # <<>> => Head(asked) \in {r} /\ Tail(asked) \in Seq({r})
                        /\ Len(Tail(asked)) = Len(asked) - 1
    BY <1>2, HeadTailProperties
  <2>2. asked # <<>> => Len(asked) # 0
    BY <1>2, EmptySeq
  <2> QED
    BY <1>3, <2>1, <2>2
<1>7. Append(asked, r) \in Seq({r}) /\ Len(Append(asked, r)) = Len(asked) + 1
  <2>1. r \in {r}
    OBVIOUS
  <2> QED
    BY <1>2, <2>1, AppendProperties
<1> QED
  BY <1>3, <1>5, <1>6, <1>7 DEF r

\* HandleApplicationRequest finds a thread that was not started yet, the first of them.
LEMMA HandledIsRequest ==
  ASSUME RequestInv, HasLine(request_buffer)
  PROVE  /\ FirstLine(request_buffer) = RequestText
         /\ NewSound \in Sounds /\ sound[NewSound] = "none"
         /\ AfterLine(request_buffer) \in Seq(AudioChars)
         /\ request_buffer = Line(RequestText) \o AfterLine(request_buffer)
         /\ \E asked \in Seq({RequestText}) :
              /\ Encodes(AfterLine(request_buffer) \o request_stream, asked, 0)
              /\ Len(asked) <= requested /\ NewSound + Len(asked) = requested
              /\ \A i \in Sounds : i # NewSound =>
                   (sound[i] # "none" <=> i + Len(asked) <= requested)
<1>1. PICK asked \in Seq({RequestText}) : Asked(asked)
  BY DEF RequestInv
<1>2. /\ request_stream \in Seq(AudioChars) /\ request_buffer \in Seq(AudioChars)
      /\ requested \in 0 .. MaxRequests /\ MaxRequests \in Nat
  BY AudioAssumption DEF RequestInv
<1>3. /\ Encodes(request_buffer \o request_stream, asked, 0)
      /\ asked \in Seq(AudioTexts) /\ 0 \in {0, 1}
  BY <1>1, RequestsAreTexts DEF Asked
<1>4. /\ asked # <<>> /\ FirstLine(request_buffer) = Head(asked)
      /\ AfterLine(request_buffer) \in Seq(AudioChars)
      /\ request_buffer = Line(Head(asked)) \o AfterLine(request_buffer)
      /\ Encodes(AfterLine(request_buffer) \o request_stream, Tail(asked), 0)
  BY <1>2, <1>3, LineTaken
<1>5. /\ Head(asked) = RequestText /\ Tail(asked) \in Seq({RequestText})
      /\ Len(Tail(asked)) = Len(asked) - 1 /\ Len(asked) >= 1 /\ Len(asked) \in Nat
  BY <1>4, RequestsAreTexts
<1> DEFINE k == Len(asked)
           new == requested - k + 1
<1>6. /\ k <= requested
      /\ \A i \in Sounds : sound[i] # "none" <=> i + k <= requested
  BY <1>1 DEF Asked
<1> HIDE DEF k
<1>7. k \in Nat /\ k >= 1
  BY <1>5 DEF k
<1>8. new \in Sounds /\ sound[new] = "none" /\ \A j \in 1 .. new - 1 : sound[j] # "none"
  <2>1. new \in Sounds /\ ~(new + k <= requested)
    BY <1>2, <1>6, <1>7 DEF Sounds
  <2>2. \A j \in 1 .. new - 1 : j \in Sounds /\ j + k <= requested
    BY <1>2, <1>6, <1>7 DEF Sounds
  <2> QED
    BY <1>6, <2>1, <2>2
<1>9. NewSound = new
  <2>1. ASSUME NEW i \in Sounds, sound[i] = "none", \A j \in 1 .. i - 1 : sound[j] # "none"
        PROVE  i = new
    <3>1. ~(i + k <= requested) /\ i \in Nat
      BY <1>6, <2>1, MutexNames
    <3>2. ~(i > new)
      <4>1. i > new => new \in 1 .. i - 1
        BY <1>2, <1>6, <1>7, <3>1
      <4> QED
        BY <1>8, <2>1, <4>1
    <3> QED
      BY <1>2, <1>6, <1>7, <3>1, <3>2
  <2> HIDE DEF new
  <2> QED
    BY <1>8, <2>1 DEF NewSound
<1>10. /\ NewSound + Len(Tail(asked)) = requested /\ Len(Tail(asked)) <= requested
  BY <1>2, <1>5, <1>6, <1>7, <1>9 DEF k
<1>11. ASSUME NEW i \in Sounds, i # NewSound
       PROVE  sound[i] # "none" <=> i + Len(Tail(asked)) <= requested
  <2>1. i \in Nat /\ i # new /\ Len(Tail(asked)) = k - 1
    BY <1>5, <1>9, <1>11, MutexNames DEF k
  <2>2. i + k <= requested <=> i + (k - 1) <= requested
    BY <1>2, <1>7, <2>1
  <2> QED
    BY <1>6, <2>1, <2>2
<1> QED
  BY <1>4, <1>5, <1>8, <1>9, <1>10, <1>11

Places ==
  {"acceptApp", "loop", "poll", "readApp", "requests", "accept", "serve",
   "read", "lines", "forwarding", "close", "closed", "ended", "killed"}

\* A step that starts no write and ends none.
LEMMA ControlKept ==
  ASSUME ControlInv, UNCHANGED <<g_app_write_mutex, sound>>,
         service' \in Places, service' = "forwarding" <=> service = "forwarding",
         g_running' \in {g_running, FALSE}, app' \in {app, "waiting", "up", "gone"},
         revents' \in {revents, Ready}
  PROVE  ControlInv'
<1>1. revents' \subseteq {"cmd", "app"}
  BY DEF ControlInv, Ready
<1>2. UNCHANGED <<g_app_write_mutex, sound>>
  OBVIOUS
<1> QED
  BY <1>1, <1>2 DEF ControlInv, Places

LEMMA ControlOfMain ==
  ASSUME ControlInv, RequestInv, MainStep
  PROVE  ControlInv'
<1>0. service \in Places /\ (service = "forwarding" <=> g_app_write_mutex = Main)
  BY DEF ControlInv, Places
<1> USE DEF Goes
<1>1. CASE StartsUp \/ AudioTestsRunning \/ PollReturns \/ AudioPollTimesOut \/ ReadsRequests
           \/ AppEnds \/ RequestsDone \/ AudioAcceptClient \/ Exits
  <2>1. /\ UNCHANGED <<g_app_write_mutex, sound>>
        /\ service' \in Places /\ service' # "forwarding" /\ service # "forwarding"
        /\ g_running' \in {g_running, FALSE} /\ app' \in {app, "waiting", "up", "gone"}
        /\ revents' \in {revents, Ready}
    BY <1>1 DEF StartsUp, AcceptApp, AudioTestsRunning, PollReturns, AudioPollTimesOut,
                ReadsRequests, AppEnds, RequestsDone, AudioAcceptClient, Exits,
                soundThreads, requestVars, appVars, Places
  <2> QED
    BY <2>1, ControlKept
<1>2. CASE ServesClient \/ MainForwardKills
  <2>1. /\ UNCHANGED <<g_app_write_mutex, sound, revents, app, g_running>>
        /\ service' \in Places /\ service' # "forwarding" /\ service # "forwarding"
    BY <1>2 DEF ServesClient, TestsServing, ReadsClient, ClientEnds, LinesDone, ClosesClient,
                MainForwardKills, ForwardKills, soundThreads, requestVars, appVars, Places
  <2> QED
    BY <2>1, ControlKept
<1>3. CASE MainForwards
  BY <1>3, MutexNames DEF MainForwards, ControlInv, requestVars
<1>4. CASE MainForwarded
  BY <1>4, MutexNames DEF MainForwarded, ControlInv, requestVars
<1>5. CASE HandlesRequest
  <2>1. /\ NewSound \in Sounds /\ sound[NewSound] = "none"
        /\ FirstLine(request_buffer) = RequestText
    BY <1>5, HandledIsRequest DEF HandlesRequest
  <2> DEFINE new == NewSound
  <2> HIDE DEF new
  <2>2. /\ new \in Sounds /\ sound[new] = "none" /\ sound' = [sound EXCEPT ![new] = "playing"]
        /\ UNCHANGED <<service, g_running, app, revents, g_app_write_mutex>>
    BY <1>5, <2>1 DEF HandlesRequest, appVars, new
  <2>3. \A i \in Sounds : sound'[i] = IF i = new THEN "playing" ELSE sound[i]
    BY <2>2 DEF ControlInv
  <2>4. sound' \in [Sounds -> {"none", "playing", "writing", "done"}]
    BY <2>2 DEF ControlInv
  <2> QED
    BY <2>2, <2>3, <2>4 DEF ControlInv
<1> QED
  BY <1>1, <1>2, <1>3, <1>4, <1>5 DEF MainStep

LEMMA ControlOfOthers ==
  ASSUME ControlInv, OtherStep \/ AppListens \/ AppRequests
  PROVE  ControlInv'
<1>1. /\ UNCHANGED <<g_app_write_mutex, sound, service, revents>>
      /\ g_running' \in {g_running, FALSE} /\ app' \in {app, "waiting", "up", "gone"}
  BY DEF OtherStep, AppListens, AppRequests, ClientStep, ClientConnects, ClientWrites,
         ClientCloses, HandleSignal, AppConnects, AppExits, ListenLoop, AppReads, AppPosts,
         soundThreads, requestVars, serviceVars, appVars
<1>2. service' \in Places
  BY <1>1 DEF ControlInv, Places
<1> QED
  BY <1>1, <1>2, ControlKept

LEMMA ControlOfSounds ==
  ASSUME ControlInv, NEW i \in Sounds, SoundStep(i)
  PROVE  ControlInv'
<1>0. /\ i # Free /\ i # Main /\ Free # Main
      /\ sound \in [Sounds -> {"none", "playing", "writing", "done"}]
      /\ \A j \in Sounds : j # Free /\ (sound[j] = "writing" <=> g_app_write_mutex = j)
  BY MutexNames DEF ControlInv
<1>1. CASE SoundWrites(i)
  <2>1. /\ g_app_write_mutex = Free /\ g_app_write_mutex' = i
        /\ sound' = [sound EXCEPT ![i] = "writing"]
        /\ UNCHANGED <<service, g_running, app, revents>>
    BY <1>1 DEF SoundWrites, requestVars
  <2>2. /\ sound' \in [Sounds -> {"none", "playing", "writing", "done"}]
        /\ \A j \in Sounds : sound'[j] = "writing" <=> i = j
    BY <1>0, <2>1
  <2> QED
    BY <1>0, <2>1, <2>2 DEF ControlInv
<1>2. CASE SoundWritten(i)
  <2>1. /\ g_app_write_mutex = i /\ g_app_write_mutex' = Free
        /\ sound' = [sound EXCEPT ![i] = "done"]
        /\ UNCHANGED <<service, g_running, app, revents>>
    BY <1>0, <1>2 DEF SoundWritten, requestVars
  <2>2. /\ sound' \in [Sounds -> {"none", "playing", "writing", "done"}]
        /\ \A j \in Sounds : sound'[j] # "writing"
    BY <1>0, <2>1
  <2> QED
    BY <1>0, <2>1, <2>2 DEF ControlInv
<1>3. CASE SoundKills(i)
  <2>1. /\ g_app_write_mutex = Free /\ service' = "killed" /\ service # "forwarding"
        /\ UNCHANGED <<g_app_write_mutex, sound, g_running, app, revents>>
    BY <1>0, <1>3 DEF SoundKills, ControlInv, soundThreads, requestVars, appVars
  <2> QED
    BY <2>1, ControlKept DEF Places
<1>4. CASE SoundIsLost(i)
  <2>1. /\ g_app_write_mutex = Free /\ sound' = [sound EXCEPT ![i] = "done"]
        /\ UNCHANGED <<g_app_write_mutex, service, g_running, app, revents>>
    BY <1>4 DEF SoundIsLost, serviceVars, requestVars, appVars
  <2>2. /\ sound' \in [Sounds -> {"none", "playing", "writing", "done"}]
        /\ \A j \in Sounds : sound'[j] # "writing"
    BY <1>0, <2>1
  <2> QED
    BY <1>0, <2>1, <2>2 DEF ControlInv
<1> QED
  BY <1>1, <1>2, <1>3, <1>4 DEF SoundStep

LEMMA ControlStep ==
  ASSUME ControlInv, RequestInv, [AudioNext]_audioVars
  PROVE  ControlInv'
<1>1. CASE UNCHANGED audioVars
  BY <1>1 DEF ControlInv, audioVars, serviceVars, appVars, soundThreads, requestVars
<1> QED
  BY <1>1, ControlOfMain, ControlOfOthers, ControlOfSounds DEF AudioNext

-------------------------------------------------------------------------------
LEMMA RequestKept ==
  ASSUME RequestInv, UNCHANGED <<request_stream, request_buffer, requested>>,
         \A i \in Sounds : sound'[i] = "none" <=> sound[i] = "none"
  PROVE  RequestInv'
<1>1. UNCHANGED <<request_stream, request_buffer, requested>>
  OBVIOUS
<1>2. PICK asked \in Seq({RequestText}) : Asked(asked)
  BY DEF RequestInv
<1>3. Asked(asked)'
  BY <1>1, <1>2 DEF Asked
<1> QED
  BY <1>1, <1>3 DEF RequestInv

LEMMA RequestHandled ==
  ASSUME ControlInv, RequestInv, HandlesRequest
  PROVE  RequestInv'
<1> DEFINE new == NewSound
<1>1. /\ HasLine(request_buffer) /\ request_buffer' = AfterLine(request_buffer)
      /\ UNCHANGED <<request_stream, requested>>
      /\ sound' = IF FirstLine(request_buffer) = RequestText
                  THEN [sound EXCEPT ![new] = "playing"] ELSE sound
  BY DEF HandlesRequest
<1> HIDE DEF new
<1>2. /\ FirstLine(request_buffer) = RequestText
      /\ new \in Sounds
      /\ AfterLine(request_buffer) \in Seq(AudioChars)
      /\ \E asked \in Seq({RequestText}) :
           /\ Encodes(AfterLine(request_buffer) \o request_stream, asked, 0)
           /\ Len(asked) <= requested /\ new + Len(asked) = requested
           /\ \A i \in Sounds : i # new => (sound[i] # "none" <=> i + Len(asked) <= requested)
  BY <1>1, HandledIsRequest DEF new
<1>3. PICK asked \in Seq({RequestText}) :
        /\ Encodes(AfterLine(request_buffer) \o request_stream, asked, 0)
        /\ Len(asked) <= requested /\ new + Len(asked) = requested
        /\ \A i \in Sounds : i # new => (sound[i] # "none" <=> i + Len(asked) <= requested)
  BY <1>2
<1>4. \A i \in Sounds : sound'[i] = IF i = new THEN "playing" ELSE sound[i]
  BY <1>1, <1>2 DEF ControlInv
<1>5. ASSUME NEW i \in Sounds
      PROVE  sound'[i] # "none" <=> i + Len(asked) <= requested
  <2>1. CASE i = new
    <3>1. sound'[i] = "playing"
      BY <1>4, <2>1
    <3>2. i + Len(asked) = requested /\ requested \in Nat
      BY <1>3, <2>1, MutexNames DEF RequestInv
    <3> QED
      BY <3>1, <3>2
  <2>2. CASE i # new
    BY <1>3, <1>4, <2>2
  <2> QED
    BY <2>1, <2>2
<1>6. Asked(asked)'
  BY <1>1, <1>3, <1>5 DEF Asked
<1> QED
  BY <1>1, <1>2, <1>6 DEF RequestInv

LEMMA RequestMade ==
  ASSUME RequestInv, AppRequests
  PROVE  RequestInv'
<1>1. PICK asked \in Seq({RequestText}) : Asked(asked)
  BY DEF RequestInv
<1> DEFINE line == Line(RequestText)
           more == Append(asked, RequestText)
<1>2. /\ requested < MaxRequests /\ requested' = requested + 1
      /\ request_stream' = request_stream \o line
      /\ UNCHANGED <<request_buffer, sound>>
  BY DEF AppRequests, soundThreads
<1>3. /\ request_stream \in Seq(AudioChars) /\ request_buffer \in Seq(AudioChars)
      /\ requested \in Nat /\ MaxRequests \in Nat /\ RequestText \in AudioTexts
  BY AudioAssumption DEF RequestInv, AudioTexts
<1>4. /\ asked \in Seq(AudioTexts) /\ Len(asked) \in Nat /\ more \in Seq({RequestText})
      /\ Len(more) = Len(asked) + 1
  BY RequestsAreTexts
<1>5. request_buffer \o request_stream \in Seq(AudioChars)
  BY <1>3, CharsJoined
<1>6. /\ line \in Seq(AudioChars)
      /\ Encodes((request_buffer \o request_stream) \o line, more, 0)
  BY <1>1, <1>3, <1>4, <1>5, LineWritten DEF Asked
<1> HIDE DEF line
<1>7. /\ (request_buffer \o request_stream) \o line = request_buffer \o (request_stream \o line)
      /\ request_stream \o line \in Seq(AudioChars)
  BY <1>3, <1>6, CharsJoinedTwice, CharsJoined
<1> HIDE DEF more
<1>8. /\ Len(more) <= requested'
      /\ \A i \in Sounds : sound'[i] # "none" <=> i + Len(more) <= requested'
  <2>1. Len(asked) <= requested /\ \A i \in Sounds : sound[i] # "none" <=> i + Len(asked) <= requested
    BY <1>1 DEF Asked
  <2>2. ASSUME NEW i \in Sounds
        PROVE  i + Len(asked) <= requested <=> i + Len(more) <= requested'
    <3>1. i \in Nat
      BY MutexNames
    <3> QED
      BY <1>2, <1>3, <1>4, <3>1
  <2> QED
    BY <1>2, <1>3, <1>4, <2>1, <2>2
<1>9. Asked(more)'
  BY <1>2, <1>6, <1>7, <1>8 DEF Asked
<1>10. requested' \in 0 .. MaxRequests
  BY <1>2, <1>3
<1> QED
  BY <1>2, <1>3, <1>4, <1>7, <1>9, <1>10 DEF RequestInv

LEMMA RequestStep ==
  ASSUME ControlInv, RequestInv, [AudioNext]_audioVars
  PROVE  RequestInv'
<1>1. CASE HandlesRequest
  BY <1>1, RequestHandled
<1>2. CASE AppRequests
  BY <1>2, RequestMade
<1>3. CASE ReadsRequests
  <2>1. PICK n \in 1 .. Len(request_stream) :
          /\ request_buffer' = request_buffer \o SubSeq(request_stream, 1, n)
          /\ request_stream' = SubSeq(request_stream, n + 1, Len(request_stream))
    BY <1>3 DEF ReadsRequests
  <2>2. request_stream \in Seq(AudioChars) /\ request_buffer \in Seq(AudioChars)
    BY DEF RequestInv
  <2>3. /\ request_stream' \in Seq(AudioChars) /\ request_buffer' \in Seq(AudioChars)
        /\ request_buffer' \o request_stream' = request_buffer \o request_stream
    BY <2>1, <2>2, CharsMove
  <2>4. UNCHANGED <<requested, sound>>
    BY <1>3 DEF ReadsRequests, soundThreads
  <2>5. PICK asked \in Seq({RequestText}) : Asked(asked)
    BY DEF RequestInv
  <2>6. Asked(asked)'
    BY <2>3, <2>4, <2>5 DEF Asked
  <2> QED
    BY <2>3, <2>4, <2>6 DEF RequestInv
<1>4. CASE \E i \in Sounds : SoundStep(i)
  <2>1. PICK i \in Sounds : SoundStep(i)
    BY <1>4
  <2>2. /\ UNCHANGED <<request_stream, request_buffer, requested>>
        /\ \/ sound' = sound
           \/ /\ sound[i] # "none"
              /\ \E s \in {"writing", "done"} : sound' = [sound EXCEPT ![i] = s]
    BY <2>1 DEF SoundStep, SoundWrites, SoundWritten, SoundKills, SoundIsLost, requestVars,
                soundThreads
  <2>3. \A j \in Sounds : sound'[j] = "none" <=> sound[j] = "none"
    BY <2>2 DEF ControlInv
  <2> QED
    BY <2>2, <2>3, RequestKept
<1>5. CASE MainStep /\ ~HandlesRequest /\ ~ReadsRequests
  <2>1. UNCHANGED <<request_stream, request_buffer, requested, sound>>
    BY <1>5 DEF MainStep, StartsUp, AudioTestsRunning, PollReturns, AudioPollTimesOut,
                AppEnds, RequestsDone, AudioAcceptClient, ServesClient, MainForwards,
                MainForwarded, MainForwardKills, Exits, soundThreads, requestVars
  <2> QED
    BY <2>1, RequestKept
<1>6. CASE OtherStep \/ AppListens \/ UNCHANGED audioVars
  <2>1. UNCHANGED <<request_stream, request_buffer, requested, sound>>
    BY <1>6 DEF OtherStep, AppListens, audioVars, soundThreads, requestVars
  <2> QED
    BY <2>1, RequestKept
<1> QED
  BY <1>1, <1>2, <1>3, <1>4, <1>5, <1>6 DEF AudioNext

-------------------------------------------------------------------------------
(***************************************************************************)
(* The clients, and how far main has come with the one that it serves.     *)
(***************************************************************************)
Serving == {"serve", "read", "lines", "forwarding", "close"}

\* As for the other services: a client that waits to be accepted is not served, and
\* its command is whole.
Queued(c) ==
  /\ client[c] # "out"
  /\ cmd_stream[c] = IF client[c] = "connected" THEN <<>> ELSE Line(TextOf(c))
  /\ c # cmd_client

ClientTypes ==
  /\ client \in [Clients -> {"out", "connected", "written", "closed"}]
  /\ cmd_backlog \in Seq(Clients)
  /\ cmd_client \in Clients \union {NoClient}
  /\ cmd_stream \in [Clients -> Seq(Bytes)]
  /\ buffer \in Seq(Bytes)
  /\ accepted \in Seq(Clients)

ClientInv ==
  /\ ClientTypes
  /\ cmd_client # NoClient => client[cmd_client] # "out"
  /\ \A c \in Clients : client[c] = "out" => cmd_stream[c] = <<>>
  /\ \A i \in DOMAIN cmd_backlog : Queued(cmd_backlog[i])
  /\ \A i, j \in DOMAIN cmd_backlog : cmd_backlog[i] = cmd_backlog[j] => i = j

\* n commands were forwarded: the line of the client that is served is all there, in
\* the buffer and its stream, or was the last of them.
LineHeld(n) == service \in Serving =>
  /\ accepted # <<>> /\ cmd_client = accepted[Len(accepted)]
  /\ \/ /\ n + 1 = Len(accepted)
        /\ buffer \o cmd_stream[cmd_client] =
             IF client[cmd_client] = "connected" THEN <<>> ELSE Line(TextOf(cmd_client))
     \/ /\ n = Len(accepted) /\ client[cmd_client] # "connected"
        /\ buffer = <<>> /\ cmd_stream[cmd_client] = <<>>

\* Only a service that is to stop leaves a client before its line was forwarded.
NoneCut(n) ==
  /\ service \in {"acceptApp", "poll", "readApp", "requests", "accept"} => n = Len(accepted)
  /\ service \in {"loop", "close"} => n = Len(accepted) \/ ~g_running
  /\ service \in {"serve", "read"} => ~HasLine(buffer)

Serves(n) == LineHeld(n) /\ NoneCut(n)

LEMMA NoneIsNoClient == NoClient \notin Clients
BY ClientsAssumption

LEMMA ServedAccepted ==
  ASSUME ClientTypes, NEW n, LineHeld(n), service \in Serving
  PROVE  /\ cmd_client \in Clients /\ Len(accepted) \in Nat /\ Len(accepted) > 0
         /\ accepted[Len(accepted)] = cmd_client
<1>1. accepted \in Seq(Clients) /\ accepted # <<>> /\ cmd_client = accepted[Len(accepted)]
  BY DEF ClientTypes, LineHeld
<1>2. Len(accepted) \in Nat /\ Len(accepted) > 0
  BY <1>1, LenProperties, EmptySeq
<1> QED
  BY <1>1, <1>2, ElementOfSeq

LEMMA BacklogIsClients ==
  ASSUME ClientTypes
  PROVE  /\ Len(cmd_backlog) \in Nat /\ DOMAIN cmd_backlog = 1 .. Len(cmd_backlog)
         /\ \A i \in DOMAIN cmd_backlog : cmd_backlog[i] \in Clients
<1>1. cmd_backlog \in Seq(Clients)
  BY DEF ClientTypes
<1> QED
  BY <1>1, LenProperties, ElementOfSeq

\* What changes none of the variables of the clients.
LEMMA ClientKept ==
  ASSUME ClientInv, UNCHANGED <<client, cmd_backlog, cmd_stream, buffer, accepted>>,
         cmd_client' \in {cmd_client, NoClient}
  PROVE  ClientInv'
<1>0. UNCHANGED <<client, cmd_backlog, cmd_stream, buffer, accepted>>
  OBVIOUS
<1>1. ClientTypes'
  BY <1>0 DEF ClientInv, ClientTypes
<1>2. \A i \in DOMAIN cmd_backlog : Queued(cmd_backlog[i])'
  <2> SUFFICES ASSUME NEW i \in DOMAIN cmd_backlog
               PROVE  Queued(cmd_backlog[i])'
    OBVIOUS
  <2>1. cmd_backlog[i] \in Clients /\ Queued(cmd_backlog[i])
    BY BacklogIsClients DEF ClientInv
  <2> QED
    BY <1>0, <2>1, NoneIsNoClient DEF Queued
<1> QED
  BY <1>0, <1>1, <1>2 DEF ClientInv

LEMMA ServesKept ==
  ASSUME NEW n, Serves(n), UNCHANGED <<client, cmd_client, cmd_stream, buffer, accepted>>,
         service' \in {service, "killed", "ended", "closed"}, g_running' \in {g_running, FALSE},
         g_running \in BOOLEAN
  PROVE  Serves(n)'
<1>0. UNCHANGED <<client, cmd_client, cmd_stream, buffer, accepted>>
  OBVIOUS
<1>1. LineHeld(n)'
  BY <1>0 DEF Serves, LineHeld, Serving
<1>2. NoneCut(n)'
  <2>1. ~g_running => ~g_running'
    OBVIOUS
  <2>2. service' = service \/ service' \in {"killed", "ended", "closed"}
    OBVIOUS
  <2> QED
    BY <1>0, <2>1, <2>2 DEF Serves, NoneCut
<1> QED
  BY <1>1, <1>2 DEF Serves

\* slld touches nothing but its own connection.
LEMMA SlldServed ==
  ASSUME ClientInv, NEW n \in Nat, Serves(n), NEW c \in Clients, ClientStep(c)
  PROVE  ClientInv' /\ Serves(n)'
<1>1. UNCHANGED <<service, g_running, cmd_client, buffer, accepted>>
  BY DEF ClientStep, ClientConnects, ClientWrites, ClientCloses
<1>2. NoneCut(n)'
  BY <1>1 DEF Serves, NoneCut
<1>3. ClientTypes /\ LineHeld(n)
  BY DEF ClientInv, Serves
<1>4. /\ client \in [Clients -> {"out", "connected", "written", "closed"}]
      /\ cmd_stream \in [Clients -> Seq(Bytes)] /\ cmd_backlog \in Seq(Clients)
      /\ buffer \in Seq(Bytes) /\ accepted \in Seq(Clients)
      /\ cmd_client \in Clients \union {NoClient}
  BY <1>3 DEF ClientTypes
<1>5. Len(cmd_backlog) \in Nat /\ DOMAIN cmd_backlog = 1 .. Len(cmd_backlog)
      /\ \A i \in DOMAIN cmd_backlog : cmd_backlog[i] \in Clients
  BY <1>3, BacklogIsClients
<1>6. /\ \A i \in DOMAIN cmd_backlog : Queued(cmd_backlog[i])
      /\ \A i, j \in DOMAIN cmd_backlog : cmd_backlog[i] = cmd_backlog[j] => i = j
      /\ \A d \in Clients : client[d] = "out" => cmd_stream[d] = <<>>
      /\ cmd_client # NoClient => client[cmd_client] # "out" /\ cmd_client \in Clients
  BY <1>4 DEF ClientInv
<1>7. service \in Serving => cmd_client \in Clients /\ cmd_client # NoClient
  BY <1>3, NoneIsNoClient, ServedAccepted
<1>8. CASE ClientConnects(c)
  <2>1. client' = [client EXCEPT ![c] = "connected"] /\ cmd_stream' = cmd_stream
        /\ cmd_backlog' = Append(cmd_backlog, c) /\ client[c] = "out"
    BY <1>8 DEF ClientConnects
  <2>2. /\ cmd_backlog' \in Seq(Clients) /\ DOMAIN cmd_backlog' = 1 .. Len(cmd_backlog) + 1
        /\ \A i \in 1 .. Len(cmd_backlog) : cmd_backlog'[i] = cmd_backlog[i]
        /\ cmd_backlog'[Len(cmd_backlog) + 1] = c
    BY <1>4, <1>5, <2>1, AppendProperties, LenProperties
  <2>3. /\ client' \in [Clients -> {"out", "connected", "written", "closed"}]
        /\ client'[c] = "connected"
        /\ \A d \in Clients : d # c => client'[d] = client[d]
    BY <1>4, <2>1
  <2>4. ClientTypes'
    BY <1>1, <1>3, <2>1, <2>2, <2>3 DEF ClientTypes
  <2>5. \A i \in 1 .. Len(cmd_backlog) : cmd_backlog[i] # c
    BY <1>5, <1>6, <2>1 DEF Queued
  <2>6. cmd_stream[c] = <<>> /\ cmd_client # c
    BY <1>6, <2>1, NoneIsNoClient
  <2>7. \A i \in 1 .. Len(cmd_backlog) + 1 : Queued(cmd_backlog[i])'
    <3> SUFFICES ASSUME NEW i \in 1 .. Len(cmd_backlog) + 1
                 PROVE  Queued(cmd_backlog[i])'
      OBVIOUS
    <3>1. CASE i \in 1 .. Len(cmd_backlog)
      <4>1. cmd_backlog[i] \in Clients /\ cmd_backlog[i] # c /\ Queued(cmd_backlog[i])
        BY <1>5, <1>6, <2>5, <3>1
      <4> QED
        BY <1>1, <2>1, <2>2, <2>3, <3>1, <4>1 DEF Queued
    <3>2. CASE i = Len(cmd_backlog) + 1
      BY <1>1, <2>1, <2>2, <2>3, <2>6, <3>2 DEF Queued
    <3> QED
      BY <1>5, <3>1, <3>2
  <2>8. \A i, j \in DOMAIN cmd_backlog' : cmd_backlog'[i] = cmd_backlog'[j] => i = j
    BY <1>5, <1>6, <2>2, <2>5
  <2>9. /\ cmd_client' # NoClient => client'[cmd_client'] # "out"
        /\ \A d \in Clients : client'[d] = "out" => cmd_stream'[d] = <<>>
    BY <1>1, <1>6, <2>1, <2>3
  <2>10. ClientInv'
    BY <2>2, <2>4, <2>7, <2>8, <2>9 DEF ClientInv
  <2>11. LineHeld(n)'
    BY <1>1, <1>3, <1>7, <2>1, <2>3, <2>6 DEF LineHeld
  <2> QED
    BY <1>2, <2>10, <2>11 DEF Serves
<1>9. CASE ClientWrites(c) \/ ClientCloses(c)
  <2>1. cmd_backlog' = cmd_backlog /\ client[c] # "out"
        /\ \/ /\ client[c] = "connected" /\ client' = [client EXCEPT ![c] = "written"]
              /\ cmd_stream' = [cmd_stream EXCEPT ![c] = Line(TextOf(c))]
           \/ /\ client[c] = "written" /\ client' = [client EXCEPT ![c] = "closed"]
              /\ cmd_stream' = cmd_stream
    BY <1>9 DEF ClientWrites, ClientCloses
  <2>2. Line(TextOf(c)) \in Seq(Bytes)
    BY LineIsThree
  <2>3. /\ client' \in [Clients -> {"out", "connected", "written", "closed"}]
        /\ cmd_stream' \in [Clients -> Seq(Bytes)]
        /\ client'[c] \in {"written", "closed"}
        /\ \A d \in Clients : d # c => client'[d] = client[d] /\ cmd_stream'[d] = cmd_stream[d]
        /\ client[c] = "connected" => cmd_stream'[c] = Line(TextOf(c))
        /\ client[c] # "connected" => cmd_stream'[c] = cmd_stream[c]
    BY <1>4, <2>1, <2>2
  <2>4. ClientTypes'
    BY <1>1, <1>3, <2>1, <2>3 DEF ClientTypes
  <2>5. ASSUME NEW d \in Clients, Queued(d)
        PROVE  /\ client'[d] # "out"
               /\ cmd_stream'[d] = IF client'[d] = "connected" THEN <<>> ELSE Line(TextOf(d))
               /\ d # cmd_client'
    BY <1>1, <2>3, <2>5 DEF Queued
  <2>6. \A i \in DOMAIN cmd_backlog : Queued(cmd_backlog[i])'
    <3> SUFFICES ASSUME NEW i \in DOMAIN cmd_backlog
                 PROVE  Queued(cmd_backlog[i])'
      OBVIOUS
    <3>1. cmd_backlog[i] \in Clients /\ Queued(cmd_backlog[i]) /\ cmd_backlog'[i] = cmd_backlog[i]
      BY <1>5, <1>6, <2>1
    <3> QED
      BY <2>5, <3>1 DEF Queued
  <2>7. /\ \A d \in Clients : client'[d] = "out" => cmd_stream'[d] = <<>>
        /\ cmd_client' # NoClient => client'[cmd_client'] # "out"
    BY <1>1, <1>6, <2>3
  <2>8. ClientInv'
    BY <1>6, <2>1, <2>4, <2>6, <2>7 DEF ClientInv
  <2>9. LineHeld(n)'
    <3> SUFFICES ASSUME service \in Serving
                 PROVE  LineHeld(n)'
      BY <1>1 DEF LineHeld
    <3>1. CASE cmd_client # c
      BY <1>1, <1>3, <1>7, <2>3, <3>1 DEF LineHeld
    <3>2. CASE cmd_client = c /\ client[c] = "connected"
      <4>1. n + 1 = Len(accepted) /\ buffer \o cmd_stream[c] = <<>>
            /\ accepted # <<>> /\ cmd_client = accepted[Len(accepted)]
        BY <1>3, <3>2 DEF LineHeld
      <4>2. buffer = <<>>
        BY <1>4, <4>1, ConcatEqualIffEmpty
      <4>3. <<>> \o Line(TextOf(c)) = Line(TextOf(c))
        BY <2>2, ConcatEmptySeq
      <4> QED
        BY <1>1, <2>3, <3>2, <4>1, <4>2, <4>3 DEF LineHeld
    <3>3. CASE cmd_client = c /\ client[c] # "connected"
      BY <1>1, <1>3, <2>3, <3>3 DEF LineHeld
    <3> QED
      BY <3>1, <3>2, <3>3
  <2> QED
    BY <1>2, <2>8, <2>9 DEF Serves
<1> QED
  BY <1>8, <1>9 DEF ClientStep

\* What main does without reading, forwarding or accepting a client.
LEMMA QuietServed ==
  ASSUME ClientInv, ControlInv, NEW n \in Nat, Serves(n),
         \/ StartsUp \/ AudioTestsRunning \/ PollReturns \/ AudioPollTimesOut
         \/ ReadsRequests \/ AppEnds \/ HandlesRequest \/ RequestsDone
         \/ TestsServing \/ ClientEnds \/ LinesDone \/ ClosesClient
         \/ MainForwarded \/ MainForwardKills \/ Exits
  PROVE  ClientInv' /\ Serves(n)'
<1>0. ClientTypes /\ LineHeld(n) /\ NoneCut(n)
  BY DEF ClientInv, Serves
<1>1. UNCHANGED <<client, cmd_backlog, cmd_stream, buffer, accepted>>
      /\ cmd_client' \in {cmd_client, NoClient}
      /\ (service' \in Serving => service \in Serving /\ cmd_client' = cmd_client)
  BY DEF StartsUp, AcceptApp, AudioTestsRunning, PollReturns, AudioPollTimesOut,
         ReadsRequests, AppEnds, HandlesRequest, RequestsDone, TestsServing, ClientEnds,
         LinesDone, ClosesClient, MainForwarded, MainForwardKills, ForwardKills, Exits,
         cmdVars, Goes, Serving
<1>2. ClientInv'
  BY <1>1, ClientKept
<1>3. LineHeld(n)'
  BY <1>0, <1>1 DEF LineHeld
<1>4. NoneCut(n)'
  <2>1. CASE ~ClientEnds
    BY <1>0, <2>1 DEF NoneCut, ControlInv, StartsUp, AcceptApp, AudioTestsRunning, PollReturns,
         AudioPollTimesOut, ReadsRequests, AppEnds, HandlesRequest, RequestsDone, TestsServing,
         LinesDone, ClosesClient, MainForwarded, MainForwardKills, ForwardKills, Exits,
         cmdVars, Goes
  <2>2. CASE ClientEnds
    <3>1. service = "read" /\ service' = "close" /\ cmd_stream[cmd_client] = <<>>
          /\ client[cmd_client] = "closed" /\ ~HasLine(buffer) /\ service \in Serving
      BY <1>0, <2>2 DEF ClientEnds, NoneCut, Serving
    <3>2. ASSUME buffer \o <<>> = Line(TextOf(cmd_client))
          PROVE  FALSE
      <4>1. buffer = Line(TextOf(cmd_client)) /\ cmd_client \in Clients
        <5>1. buffer \in Seq(Bytes)
          BY <1>0 DEF ClientTypes
        <5> QED
          BY <1>0, <3>1, <3>2, <5>1, ConcatEmptySeq, ServedAccepted
      <4>2. Len(buffer) = 3 /\ buffer[3] = Newline
        BY <4>1, LineIsThree
      <4> QED
        BY <3>1, <4>2 DEF HasLine, Contains
    <3>3. n = Len(accepted)
      BY <1>0, <3>1, <3>2 DEF LineHeld
    <3> QED
      BY <1>1, <3>1, <3>3 DEF NoneCut
  <2> QED
    BY <2>1, <2>2
<1> QED
  BY <1>2, <1>3, <1>4 DEF Serves

\* The next client in the backlog becomes the last of those accepted.
LEMMA AcceptServed ==
  ASSUME ClientInv, NEW n \in Nat, Serves(n), AudioAcceptClient
  PROVE  /\ ClientInv' /\ Serves(n)' /\ n = Len(accepted)
         /\ \E c \in Clients : accepted' = Append(accepted, c)
<1> DEFINE c == Head(cmd_backlog)
<1>1. ClientTypes /\ LineHeld(n) /\ NoneCut(n)
  BY DEF ClientInv, Serves
<1>2. /\ service = "accept" /\ service' = "serve" /\ cmd_backlog # <<>> /\ cmd_client' = c
      /\ cmd_backlog' = Tail(cmd_backlog) /\ accepted' = Append(accepted, c)
      /\ buffer' = <<>>
      /\ UNCHANGED <<client, cmd_stream>>
  BY DEF AudioAcceptClient, Goes
<1>3. /\ cmd_backlog \in Seq(Clients) /\ accepted \in Seq(Clients)
      /\ <<>> \in Seq(Bytes) /\ Len(<<>>) = 0
      /\ cmd_stream \in [Clients -> Seq(Bytes)]
  BY <1>1, EmptySeq DEF ClientTypes
<1>4. /\ c \in Clients /\ c = cmd_backlog[1] /\ Tail(cmd_backlog) \in Seq(Clients)
      /\ Len(cmd_backlog) \in Nat /\ Len(cmd_backlog) > 0
      /\ DOMAIN cmd_backlog = 1 .. Len(cmd_backlog)
      /\ DOMAIN Tail(cmd_backlog) = 1 .. Len(cmd_backlog) - 1
      /\ \A i \in 1 .. Len(cmd_backlog) - 1 : Tail(cmd_backlog)[i] = cmd_backlog[i + 1]
  BY <1>2, <1>3, HeadTailProperties, LenProperties, EmptySeq
<1> HIDE DEF c
<1>5. /\ accepted' \in Seq(Clients) /\ accepted' # <<>> /\ Len(accepted') = Len(accepted) + 1
      /\ accepted'[Len(accepted) + 1] = c /\ Len(accepted) \in Nat
  <2>1. Append(accepted, c) \in Seq(Clients) /\ Len(Append(accepted, c)) = Len(accepted) + 1
        /\ Append(accepted, c)[Len(accepted) + 1] = c /\ Len(accepted) \in Nat
    BY <1>3, <1>4, AppendProperties, LenProperties
  <2> QED
    BY <1>2, <2>1, EmptySeq
<1>6. n = Len(accepted)
  BY <1>1, <1>2 DEF NoneCut
<1>7. ClientTypes'
  BY <1>1, <1>2, <1>3, <1>4, <1>5 DEF ClientTypes
<1>8. Queued(c) /\ client[c] # "out"
  BY <1>4 DEF ClientInv, Queued
<1>9. \A i \in DOMAIN cmd_backlog' : Queued(cmd_backlog[i])'
  <2> SUFFICES ASSUME NEW i \in 1 .. Len(cmd_backlog) - 1
               PROVE  Queued(cmd_backlog[i])'
    BY <1>2, <1>4
  <2>1. i + 1 \in DOMAIN cmd_backlog /\ 1 \in DOMAIN cmd_backlog /\ i + 1 # 1
        /\ cmd_backlog'[i] = cmd_backlog[i + 1]
    BY <1>2, <1>4
  <2>2. Queued(cmd_backlog[i + 1]) /\ cmd_backlog[i + 1] # c
    BY <1>4, <2>1 DEF ClientInv
  <2> QED
    BY <1>2, <2>1, <2>2 DEF Queued
<1>10. \A i, j \in DOMAIN cmd_backlog' : cmd_backlog'[i] = cmd_backlog'[j] => i = j
  BY <1>2, <1>4 DEF ClientInv
<1>11. ClientInv'
  BY <1>2, <1>7, <1>8, <1>9, <1>10 DEF ClientInv
<1>12. LineHeld(n)'
  <2>1. <<>> \o cmd_stream[c] = cmd_stream[c]
    BY <1>3, <1>4, ConcatEmptySeq
  <2> QED
    BY <1>2, <1>5, <1>6, <1>8, <2>1 DEF LineHeld, Queued
<1>13. NoneCut(n)'
  <2>1. ~HasLine(<<>>)
    BY <1>3 DEF HasLine, Contains
  <2> QED
    BY <1>2, <2>1 DEF NoneCut
<1> QED
  BY <1>2, <1>4, <1>6, <1>11, <1>12, <1>13 DEF Serves

LEMMA ReadServed ==
  ASSUME ClientInv, NEW n \in Nat, Serves(n), ReadsClient
  PROVE  ClientInv' /\ Serves(n)'
<1> DEFINE bytes == cmd_stream[cmd_client]
<1>1. ClientTypes /\ LineHeld(n) /\ NoneCut(n)
  BY DEF ClientInv, Serves
<1>2. /\ service = "read" /\ service' = "lines" /\ service \in Serving
      /\ UNCHANGED <<client, cmd_backlog, cmd_client, accepted>>
      /\ \E k \in 1 .. Len(bytes) :
           /\ buffer' = buffer \o SubSeq(bytes, 1, k)
           /\ cmd_stream' =
                [cmd_stream EXCEPT ![cmd_client] = SubSeq(@, k + 1, Len(@))]
  BY DEF ReadsClient, Serving
<1>3. PICK k \in 1 .. Len(bytes) :
        /\ buffer' = buffer \o SubSeq(bytes, 1, k)
        /\ cmd_stream' = [cmd_stream EXCEPT ![cmd_client] = SubSeq(@, k + 1, Len(@))]
  BY <1>2
<1>4. /\ cmd_client \in Clients /\ buffer \in Seq(Bytes) /\ bytes \in Seq(Bytes)
      /\ cmd_stream \in [Clients -> Seq(Bytes)] /\ cmd_backlog \in Seq(Clients)
  BY <1>1, <1>2, ServedAccepted DEF ClientTypes
<1>5. /\ buffer' \in Seq(Bytes) /\ SubSeq(bytes, k + 1, Len(bytes)) \in Seq(Bytes)
      /\ buffer' \o SubSeq(bytes, k + 1, Len(bytes)) = buffer \o bytes
  BY <1>3, <1>4, ReadingMoves
<1>6. /\ cmd_stream' \in [Clients -> Seq(Bytes)]
      /\ cmd_stream'[cmd_client] = SubSeq(bytes, k + 1, Len(bytes))
      /\ \A d \in Clients : d # cmd_client => cmd_stream'[d] = cmd_stream[d]
  BY <1>3, <1>4, <1>5
<1>7. ClientTypes'
  BY <1>1, <1>2, <1>5, <1>6 DEF ClientTypes
<1>8. ASSUME NEW i \in DOMAIN cmd_backlog
      PROVE  Queued(cmd_backlog[i])'
  <2>1. cmd_backlog[i] \in Clients /\ Queued(cmd_backlog[i])
    BY <1>1, BacklogIsClients DEF ClientInv
  <2> QED
    BY <1>2, <1>6, <2>1 DEF Queued
<1>9. client[cmd_client] # "out"
  BY <1>4, NoneIsNoClient DEF ClientInv
<1>10. \A d \in Clients : client'[d] = "out" => cmd_stream'[d] = <<>>
  BY <1>2, <1>6, <1>9 DEF ClientInv
<1>11. ClientInv'
  BY <1>2, <1>7, <1>8, <1>9, <1>10 DEF ClientInv
<1>12. LineHeld(n)'
  <2>1. bytes # <<>>
    BY <1>4, LenProperties, EmptySeq
  <2>2. /\ accepted # <<>> /\ cmd_client = accepted[Len(accepted)]
        /\ n + 1 = Len(accepted)
        /\ buffer \o bytes =
             IF client[cmd_client] = "connected" THEN <<>> ELSE Line(TextOf(cmd_client))
    BY <1>1, <1>2, <2>1 DEF LineHeld
  <2> QED
    BY <1>2, <1>5, <1>6, <2>2 DEF LineHeld
<1>13. NoneCut(n)'
  BY <1>2 DEF NoneCut
<1> QED
  BY <1>11, <1>12, <1>13 DEF Serves

\* A line in the buffer is the whole line of the client that is served.
LEMMA BufferIsWhole ==
  ASSUME ClientTypes, NEW n \in Nat, LineHeld(n), service = "lines", HasLine(buffer)
  PROVE  /\ cmd_client \in Clients /\ n + 1 = Len(accepted)
         /\ accepted # <<>> /\ accepted[Len(accepted)] = cmd_client
         /\ client[cmd_client] # "connected"
         /\ FirstLine(buffer) = TextOf(cmd_client) /\ AfterLine(buffer) = <<>>
         /\ cmd_stream[cmd_client] = <<>>
<1>0. service \in Serving
  BY DEF Serving
<1>1. /\ cmd_client \in Clients /\ buffer \in Seq(Bytes) /\ cmd_stream[cmd_client] \in Seq(Bytes)
      /\ Len(accepted) \in Nat /\ accepted[Len(accepted)] = cmd_client
  BY <1>0, ServedAccepted DEF ClientTypes
<1>2. buffer # <<>>
  BY EmptySeq DEF HasLine, Contains
<1>3. /\ n + 1 = Len(accepted) /\ accepted # <<>>
      /\ buffer \o cmd_stream[cmd_client] =
           IF client[cmd_client] = "connected" THEN <<>> ELSE Line(TextOf(cmd_client))
  BY <1>0, <1>2 DEF LineHeld
<1>4. buffer \o cmd_stream[cmd_client] # <<>>
  <2> DEFINE stream == cmd_stream[cmd_client]
  <2>1. stream \in Seq(Bytes)
    BY <1>1
  <2> HIDE DEF stream
  <2>2. buffer \o stream # <<>>
    BY <1>1, <1>2, <2>1, ConcatEqualIffEmpty
  <2> QED
    BY <2>2 DEF stream
<1>5. client[cmd_client] # "connected"
      /\ buffer \o cmd_stream[cmd_client] = Line(TextOf(cmd_client))
  BY <1>3, <1>4
<1>6. FirstLine(buffer) = TextOf(cmd_client) /\ AfterLine(buffer) = <<>>
      /\ cmd_stream[cmd_client] = <<>>
  BY <1>1, <1>5, HeldLine
<1> QED
  BY <1>1, <1>3, <1>5, <1>6

LEMMA ForwardServed ==
  ASSUME ClientInv, NEW n \in Nat, Serves(n), MainForwards
  PROVE  /\ ClientInv' /\ Serves(n + 1)'
         /\ cmd_client \in Clients /\ n + 1 = Len(accepted)
         /\ accepted[Len(accepted)] = cmd_client
         /\ app_stream' = app_stream \o TextOf(cmd_client)
<1>1. ClientTypes /\ LineHeld(n) /\ NoneCut(n)
  BY DEF ClientInv, Serves
<1>2. /\ service = "lines" /\ service' = "forwarding" /\ HasLine(buffer)
      /\ buffer' = AfterLine(buffer) /\ app_stream' = app_stream \o FirstLine(buffer)
      /\ UNCHANGED <<client, cmd_backlog, cmd_client, cmd_stream, accepted>>
  BY DEF MainForwards, Goes, Writes
<1>3. /\ cmd_client \in Clients /\ n + 1 = Len(accepted)
      /\ accepted # <<>> /\ accepted[Len(accepted)] = cmd_client
      /\ client[cmd_client] # "connected"
      /\ FirstLine(buffer) = TextOf(cmd_client) /\ AfterLine(buffer) = <<>>
      /\ cmd_stream[cmd_client] = <<>>
  BY <1>1, <1>2, BufferIsWhole
<1>4. ClientTypes'
  BY <1>1, <1>2, <1>3, EmptySeq DEF ClientTypes
<1>5. ASSUME NEW i \in DOMAIN cmd_backlog
      PROVE  Queued(cmd_backlog[i])'
  <2>1. cmd_backlog[i] \in Clients /\ Queued(cmd_backlog[i])
    BY <1>1, BacklogIsClients DEF ClientInv
  <2> QED
    BY <1>2, <2>1 DEF Queued
<1>6. ClientInv'
  BY <1>2, <1>4, <1>5 DEF ClientInv
<1>7. LineHeld(n + 1)' /\ NoneCut(n + 1)'
  BY <1>2, <1>3 DEF LineHeld, NoneCut
<1> QED
  BY <1>2, <1>3, <1>6, <1>7 DEF Serves

-------------------------------------------------------------------------------
(***************************************************************************)
(* What is written to the application, by main and by the sounds.          *)
(***************************************************************************)
\* What is written to the application.
AppTexts == CommandTexts \union {CompletedText}

\* The newline of the last line is missing while somebody has the mutex.
Cut == IF g_app_write_mutex = Free THEN 0 ELSE 1

\* The lines on their way are those of pending, and with those posted before them they
\* have the commands of the accepted clients in their order.
OnItsWay(pending) ==
  /\ Encodes(app_buffer \o app_stream, pending, Cut)
  /\ Follows(posted \o pending, CommandTexts, Texts(accepted))

Forwarded(pending) == Count(posted \o pending, CommandTexts)

WrittenTypes ==
  /\ app_stream \in Seq(AudioChars)
  /\ app_buffer \in Seq(AudioChars)
  /\ posted \in Seq(AppTexts)

WrittenInv ==
  /\ WrittenTypes
  /\ \E n \in Nat : /\ Serves(n)
                    /\ \E pending \in Seq(AppTexts) :
                         OnItsWay(pending) /\ Forwarded(pending) = n

LEMMA WrittenAreTexts ==
  /\ AppTexts \subseteq AudioTexts
  /\ Seq(AppTexts) \subseteq Seq(AudioTexts)
  /\ CompletedText \in AppTexts /\ CompletedText \notin CommandTexts
  /\ \A c \in Clients : TextOf(c) \in AppTexts /\ TextOf(c) \in CommandTexts
  /\ RequestText \notin CommandTexts
<1>1. AppTexts \subseteq AudioTexts
  BY DEF AppTexts, AudioTexts
<1>2. ASSUME NEW s \in Seq(AppTexts)
      PROVE  s \in Seq(AudioTexts)
  <2>1. Len(s) \in Nat /\ s \in [1 .. Len(s) -> AppTexts]
    BY LenProperties
  <2>2. s \in [1 .. Len(s) -> AudioTexts]
    BY <1>1, <2>1
  <2> QED
    BY <2>1, <2>2, SeqDef
<1>3. CompletedText \notin CommandTexts /\ RequestText \notin CommandTexts
  BY CharsAreApart DEF CompletedText, RequestText, CommandTexts, TextOf
<1> QED
  BY <1>1, <1>2, <1>3 DEF AppTexts, CommandTexts

LEMMA TextNotEmpty ==
  ASSUME NEW t \in AudioTexts
  PROVE  t # <<>>
<1>1. Len(t) = 2
  BY TextIsTwo
<1>2. Len(<<>>) = 0
  BY EmptySeq
<1> QED
  BY <1>1, <1>2

LEMMA LineAdded ==
  ASSUME NEW s \in Seq(AppTexts), NEW x \in AppTexts, NEW all
  PROVE  /\ Count(Append(s, x), CommandTexts) =
              Count(s, CommandTexts) + IF x \in CommandTexts THEN 1 ELSE 0
         /\ Follows(Append(s, x), CommandTexts, all) <=>
              /\ Follows(s, CommandTexts, all)
              /\ x \in CommandTexts => /\ 0 + Count(s, CommandTexts) + 1 <= Len(all)
                                       /\ x = all[0 + Count(s, CommandTexts) + 1]
<1> DEFINE S == CommandTexts
           X == AppTexts
<1>1. s \in Seq(X) /\ x \in X /\ 0 \in Nat
  OBVIOUS
<1> HIDE DEF S, X
<1>2. /\ Count(Append(s, x), S) = Count(s, S) + IF x \in S THEN 1 ELSE 0
      /\ Continues(Append(s, x), S, all, 0) <=>
           /\ Continues(s, S, all, 0)
           /\ x \in S => /\ 0 + Count(s, S) + 1 <= Len(all)
                         /\ x = all[0 + Count(s, S) + 1]
  BY <1>1, OfAppended
<1> QED
  BY <1>2 DEF S, Follows

LEMMA LinesJoinedTwice ==
  ASSUME NEW s \in Seq(AppTexts), NEW t \in Seq(AppTexts), NEW u \in Seq(AppTexts)
  PROVE  (s \o t) \o u = s \o (t \o u)
BY ConcatAssociative

LEMMA PostedAndPending ==
  ASSUME WrittenTypes, NEW pending \in Seq(AppTexts)
  PROVE  /\ posted \o pending \in Seq(AppTexts)
         /\ Forwarded(pending) \in Nat
         /\ Forwarded(pending) = Count(posted, CommandTexts) + Count(pending, CommandTexts)
         /\ Count(posted, CommandTexts) \in Nat /\ Count(pending, CommandTexts) \in Nat
         /\ Cut \in {0, 1}
         /\ pending \in Seq(AudioTexts)
         /\ app_buffer \o app_stream \in Seq(AudioChars)
<1>1. posted \in Seq(AppTexts)
  BY DEF WrittenTypes
<1>2. posted \o pending \in Seq(AppTexts)
  BY <1>1, ConcatProperties
<1>3. /\ Count(posted \o pending, CommandTexts) =
           Count(posted, CommandTexts) + Count(pending, CommandTexts)
      /\ Count(posted, CommandTexts) \in Nat /\ Count(pending, CommandTexts) \in Nat
  BY <1>1, CountConcat
<1>4. app_buffer \o app_stream \in Seq(AudioChars)
  BY CharsJoined DEF WrittenTypes
<1> QED
  BY <1>2, <1>3, <1>4, WrittenAreTexts DEF Forwarded, Cut

\* Whoever takes the mutex writes the text of the next line.
LEMMA WriteBegins ==
  ASSUME WrittenTypes, NEW pending \in Seq(AppTexts), OnItsWay(pending),
         accepted \in Seq(Clients), NEW t \in AppTexts,
         g_app_write_mutex = Free, g_app_write_mutex' # Free,
         app_stream' = app_stream \o t, UNCHANGED <<app_buffer, posted, accepted>>,
         t \in CommandTexts => /\ Forwarded(pending) + 1 = Len(accepted)
                               /\ t = TextOf(accepted[Len(accepted)])
  PROVE  /\ WrittenTypes' /\ Append(pending, t) \in Seq(AppTexts)
         /\ OnItsWay(Append(pending, t))'
         /\ Forwarded(Append(pending, t))' =
              Forwarded(pending) + IF t \in CommandTexts THEN 1 ELSE 0
<1> DEFINE bytes == app_buffer \o app_stream
           written == posted \o pending
           more == Append(pending, t)
<1>1. /\ pending \in Seq(AudioTexts) /\ t \in AudioTexts /\ t \in Seq(AudioChars)
      /\ app_buffer \in Seq(AudioChars) /\ app_stream \in Seq(AudioChars)
      /\ posted \in Seq(AppTexts)
      /\ bytes \in Seq(AudioChars) /\ written \in Seq(AppTexts)
  BY PostedAndPending, WrittenAreTexts, TextIsTwo DEF WrittenTypes
<1>2. Encodes(bytes, pending, 0) /\ Follows(written, CommandTexts, Texts(accepted))
  BY DEF OnItsWay, Cut
<1>3. /\ Encodes(bytes \o t, more, 1)
  BY <1>1, <1>2, TextWritten
<1>4. /\ bytes \o t = app_buffer \o (app_stream \o t)
      /\ app_stream \o t \in Seq(AudioChars)
  <2>1. t \in Seq(AudioChars) /\ app_buffer \in Seq(AudioChars) /\ app_stream \in Seq(AudioChars)
    BY <1>1
  <2>2. (app_buffer \o app_stream) \o t = app_buffer \o (app_stream \o t)
    BY <2>1, CharsJoinedTwice
  <2>3. app_stream \o t \in Seq(AudioChars)
    BY <2>1, CharsJoined
  <2> QED
    BY <2>2, <2>3
<1>5. more \in Seq(AppTexts)
  BY AppendProperties
<1>6. posted \o more = Append(written, t)
  <2> DEFINE last == <<t>>
  <2>1. more = pending \o last /\ Append(written, t) = written \o last
        /\ last \in Seq(AppTexts)
    BY <1>1, AppendIsConcat
  <2> HIDE DEF last, more
  <2>2. (posted \o pending) \o last = posted \o (pending \o last)
    BY <1>1, <2>1, LinesJoinedTwice
  <2> QED
    BY <2>1, <2>2
<1> HIDE DEF bytes, written, more
<1>7. /\ Count(Append(written, t), CommandTexts) =
           Count(written, CommandTexts) + IF t \in CommandTexts THEN 1 ELSE 0
      /\ Follows(Append(written, t), CommandTexts, Texts(accepted)) <=>
           /\ Follows(written, CommandTexts, Texts(accepted))
           /\ t \in CommandTexts =>
                /\ 0 + Count(written, CommandTexts) + 1 <= Len(Texts(accepted))
                /\ t = Texts(accepted)[0 + Count(written, CommandTexts) + 1]
  BY <1>1, LineAdded
<1>8. /\ Len(Texts(accepted)) = Len(accepted) /\ Len(accepted) \in Nat
      /\ \A i \in 1 .. Len(accepted) : Texts(accepted)[i] = TextOf(accepted[i])
  BY TextsAreSequence
<1>9. Count(written, CommandTexts) = Forwarded(pending) /\ Forwarded(pending) \in Nat
  BY PostedAndPending DEF Forwarded, written
<1>10. Follows(Append(written, t), CommandTexts, Texts(accepted))
  <2>1. ASSUME t \in CommandTexts
        PROVE  /\ 0 + Count(written, CommandTexts) + 1 <= Len(Texts(accepted))
               /\ t = Texts(accepted)[0 + Count(written, CommandTexts) + 1]
    <3>1. 0 + Count(written, CommandTexts) + 1 = Len(accepted) /\ Len(accepted) \in 1 .. Len(accepted)
      BY <1>8, <1>9, <2>1
    <3>2. Texts(accepted)[Len(accepted)] = TextOf(accepted[Len(accepted)])
      BY <1>8, <3>1
    <3> QED
      BY <1>8, <2>1, <3>1, <3>2
  <2> QED
    BY <1>2, <1>7, <2>1
<1>11. /\ app_buffer' = app_buffer /\ posted' = posted /\ accepted' = accepted
       /\ app_stream' = app_stream \o t
  OBVIOUS
<1>12. WrittenTypes'
  BY <1>1, <1>4, <1>11 DEF WrittenTypes
<1>13. OnItsWay(more)'
  BY <1>3, <1>4, <1>6, <1>10, <1>11 DEF OnItsWay, Cut
<1>14. Forwarded(more)' = Forwarded(pending) + IF t \in CommandTexts THEN 1 ELSE 0
  BY <1>6, <1>7, <1>9, <1>11 DEF Forwarded
<1> QED
  BY <1>5, <1>12, <1>13, <1>14 DEF more

\* And then its newline, before anybody else writes.
LEMMA WriteEnds ==
  ASSUME WrittenTypes, NEW pending \in Seq(AppTexts), OnItsWay(pending),
         g_app_write_mutex # Free, g_app_write_mutex' = Free,
         app_stream' = app_stream \o <<Newline>>, UNCHANGED <<app_buffer, posted, accepted>>
  PROVE  /\ WrittenTypes' /\ OnItsWay(pending)' /\ Forwarded(pending)' = Forwarded(pending)
<1> DEFINE bytes == app_buffer \o app_stream
           last == <<Newline>>
<1>1. /\ pending \in Seq(AudioTexts) /\ last \in Seq(AudioChars)
      /\ app_buffer \in Seq(AudioChars) /\ app_stream \in Seq(AudioChars)
      /\ posted \in Seq(AppTexts) /\ bytes \in Seq(AudioChars)
  BY PostedAndPending, CharsAreApart DEF WrittenTypes
<1>2. Encodes(bytes, pending, 1)
  BY DEF OnItsWay, Cut
<1>3. Encodes(bytes \o last, pending, 0)
  BY <1>1, <1>2, NewlineWritten
<1>11. /\ app_buffer' = app_buffer /\ posted' = posted /\ accepted' = accepted
       /\ app_stream' = app_stream \o last
  OBVIOUS
<1> HIDE DEF last
<1>4. /\ bytes \o last = app_buffer \o (app_stream \o last)
      /\ app_stream \o last \in Seq(AudioChars)
  BY <1>1, CharsJoinedTwice, CharsJoined
<1>12. WrittenTypes'
  BY <1>1, <1>4, <1>11 DEF WrittenTypes
<1>13. OnItsWay(pending)'
  BY <1>3, <1>4, <1>11 DEF OnItsWay, Cut
<1>14. Forwarded(pending)' = Forwarded(pending)
  BY <1>11 DEF Forwarded
<1> QED
  BY <1>12, <1>13, <1>14

LEMMA HeadIsPart ==
  ASSUME NEW X, NEW s \in Seq(X), s # <<>>
  PROVE  s = <<Head(s)>> \o Tail(s)
<1>1. Len(s) \in Nat /\ Len(s) > 0
  BY LenProperties, EmptySeq
<1>2. SubSeq(s, 1, Len(s)) = <<s[1]>> \o SubSeq(s, 1 + 1, Len(s))
  BY <1>1, SubSeqRecursiveFirst
<1>3. /\ SubSeq(s, 1, Len(s)) = s
      /\ Tail(s) = SubSeq(s, 2, Len(s)) /\ Head(s) = s[1]
  BY SubSeqFull, TailIsSubSeq
<1> QED
  BY <1>2, <1>3

\* ListenLoop posts the first of the lines on their way.
LEMMA LinePosted ==
  ASSUME WrittenTypes, NEW pending \in Seq(AppTexts), OnItsWay(pending), AppPosts,
         g_app_write_mutex' = g_app_write_mutex
  PROVE  /\ pending # <<>> /\ Head(pending) \in AppTexts /\ Tail(pending) \in Seq(AppTexts)
         /\ app_buffer = Line(Head(pending)) \o app_buffer'
         /\ posted' = Append(posted, Head(pending))
         /\ WrittenTypes' /\ OnItsWay(Tail(pending))'
         /\ Forwarded(Tail(pending))' = Forwarded(pending)
<1>1. /\ pending \in Seq(AudioTexts) /\ Cut \in {0, 1}
      /\ app_buffer \in Seq(AudioChars) /\ app_stream \in Seq(AudioChars)
      /\ posted \in Seq(AppTexts)
  BY PostedAndPending DEF WrittenTypes
<1>2. /\ HasLine(app_buffer) /\ app_buffer' = AfterLine(app_buffer)
      /\ posted' = IF FirstLine(app_buffer) = <<>> THEN posted
                   ELSE Append(posted, FirstLine(app_buffer))
      /\ UNCHANGED <<accepted, app_stream>>
  BY DEF AppPosts, cmdVars
<1>3. Encodes(app_buffer \o app_stream, pending, Cut)
  BY DEF OnItsWay
<1>4. /\ pending # <<>> /\ FirstLine(app_buffer) = Head(pending)
      /\ AfterLine(app_buffer) \in Seq(AudioChars)
      /\ app_buffer = Line(Head(pending)) \o AfterLine(app_buffer)
      /\ Encodes(AfterLine(app_buffer) \o app_stream, Tail(pending), Cut)
  <2> DEFINE cut == Cut
             buf == app_buffer
             stream == app_stream
  <2>1. /\ buf \in Seq(AudioChars) /\ stream \in Seq(AudioChars) /\ cut \in {0, 1}
        /\ Encodes(buf \o stream, pending, cut) /\ HasLine(buf) /\ pending \in Seq(AudioTexts)
    BY <1>1, <1>2, <1>3
  <2> HIDE DEF cut, buf, stream
  <2>2. /\ pending # <<>> /\ FirstLine(buf) = Head(pending)
        /\ AfterLine(buf) \in Seq(AudioChars) /\ buf = Line(Head(pending)) \o AfterLine(buf)
        /\ Encodes(AfterLine(buf) \o stream, Tail(pending), cut)
    BY <2>1, LineTaken
  <2> QED
    BY <2>2 DEF cut, buf, stream
<1> DEFINE t == Head(pending)
           rest == Tail(pending)
<1>5. t \in AppTexts /\ rest \in Seq(AppTexts)
  BY <1>4, HeadTailProperties
<1>6. t # <<>>
  BY <1>5, WrittenAreTexts, TextNotEmpty
<1>7. posted' = Append(posted, t)
  BY <1>2, <1>4, <1>6
<1>8. pending = <<t>> \o rest
  BY <1>4, HeadIsPart
<1> DEFINE one == <<t>>
<1>9. Append(posted, t) = posted \o one /\ one \in Seq(AppTexts)
  BY <1>1, <1>5, AppendIsConcat
<1>10. Append(posted, t) \in Seq(AppTexts)
  BY <1>1, <1>5, AppendProperties
<1> HIDE DEF t, rest, one
<1>11. posted' \o rest = posted \o pending
  <2>1. (posted \o one) \o rest = posted \o (one \o rest)
    BY <1>1, <1>5, <1>9, LinesJoinedTwice
  <2> QED
    BY <1>7, <1>8, <1>9, <2>1 DEF one
<1>12. WrittenTypes'
  BY <1>1, <1>2, <1>4, <1>7, <1>10 DEF WrittenTypes
<1>13. Cut' = Cut
  BY DEF Cut
<1>14. OnItsWay(rest)'
  BY <1>2, <1>4, <1>11, <1>13 DEF OnItsWay, rest
<1>15. Forwarded(rest)' = Forwarded(pending)
  BY <1>11 DEF Forwarded
<1> QED
  BY <1>2, <1>4, <1>5, <1>7, <1>12, <1>14, <1>15 DEF t, rest

LEMMA WrittenKept ==
  ASSUME WrittenTypes, NEW pending, OnItsWay(pending),
         UNCHANGED <<app_stream, app_buffer, posted, accepted, g_app_write_mutex>>
  PROVE  WrittenTypes' /\ OnItsWay(pending)' /\ Forwarded(pending)' = Forwarded(pending)
<1>1. UNCHANGED <<app_stream, app_buffer, posted, accepted, g_app_write_mutex>>
  OBVIOUS
<1> QED
  BY <1>1 DEF WrittenTypes, OnItsWay, Forwarded, Cut

\* One more client is accepted: what was written keeps its order.
LEMMA WrittenLonger ==
  ASSUME WrittenTypes, NEW pending \in Seq(AppTexts), OnItsWay(pending),
         accepted \in Seq(Clients), NEW c \in Clients, accepted' = Append(accepted, c),
         UNCHANGED <<app_stream, app_buffer, posted, g_app_write_mutex>>
  PROVE  WrittenTypes' /\ OnItsWay(pending)' /\ Forwarded(pending)' = Forwarded(pending)
<1>1. UNCHANGED <<app_stream, app_buffer, posted, g_app_write_mutex>>
      /\ accepted' = Append(accepted, c)
  OBVIOUS
<1> DEFINE orders == Texts(accepted)
           all == posted \o pending
           new == TextOf(c)
           S == CommandTexts
           X == AppTexts
           T == Seq(Clients)
<1>2. orders \in Seq(T) /\ new \in T /\ all \in Seq(X) /\ Continues(all, S, orders, 0)
  BY TextsAreSequence, LineIsThree, PostedAndPending DEF OnItsWay, Follows
<1>3. Texts(Append(accepted, c)) = Append(orders, new)
  <2> DEFINE more == Append(accepted, c)
             longer == Append(orders, new)
  <2>1. /\ more \in Seq(Clients) /\ Len(more) = Len(accepted) + 1 /\ Len(accepted) \in Nat
        /\ \A i \in 1 .. Len(accepted) : more[i] = accepted[i]
        /\ more[Len(accepted) + 1] = c
    BY AppendProperties, LenProperties
  <2> HIDE DEF more
  <2>2. /\ Texts(more) \in Seq(T) /\ Len(Texts(more)) = Len(accepted) + 1
        /\ \A i \in 1 .. Len(accepted) + 1 : Texts(more)[i] = TextOf(more[i])
    BY <2>1, TextsAreSequence
  <2>3. /\ Len(orders) = Len(accepted)
        /\ \A i \in 1 .. Len(accepted) : orders[i] = TextOf(accepted[i])
    BY TextsAreSequence
  <2> HIDE DEF orders, new
  <2>4. /\ longer \in Seq(T) /\ Len(longer) = Len(accepted) + 1
        /\ \A i \in 1 .. Len(accepted) : longer[i] = orders[i]
        /\ longer[Len(accepted) + 1] = new
    BY <1>2, <2>3, AppendProperties
  <2> HIDE DEF longer
  <2>5. ASSUME NEW i \in 1 .. Len(accepted) + 1
        PROVE  Texts(more)[i] = longer[i]
    <3>1. CASE i \in 1 .. Len(accepted)
      BY <2>1, <2>2, <2>3, <2>4, <3>1
    <3>2. CASE i = Len(accepted) + 1
      BY <2>1, <2>2, <2>4, <3>2 DEF new
    <3> QED
      BY <2>1, <3>1, <3>2
  <2>6. Texts(more) = longer
    BY <2>1, <2>2, <2>4, <2>5, SeqEqual
  <2> QED
    BY <2>6 DEF more, longer
<1>4. Continues(all, S, Append(orders, new), 0)
  <2> HIDE DEF orders, all, new, S, X, T
  <2> QED
    BY <1>2, OfLonger
<1>5. Follows(posted \o pending, CommandTexts, Texts(accepted))'
  BY <1>1, <1>3, <1>4 DEF Follows
<1> QED
  BY <1>1, <1>5 DEF WrittenTypes, OnItsWay, Forwarded, Cut

\* ListenLoop reads: the bytes stay in their order.
LEMMA WrittenRead ==
  ASSUME WrittenTypes, NEW pending \in Seq(AppTexts), OnItsWay(pending), AppReads,
         g_app_write_mutex' = g_app_write_mutex
  PROVE  WrittenTypes' /\ OnItsWay(pending)' /\ Forwarded(pending)' = Forwarded(pending)
<1>1. PICK n \in 1 .. Len(app_stream) :
        /\ app_buffer' = app_buffer \o SubSeq(app_stream, 1, n)
        /\ app_stream' = SubSeq(app_stream, n + 1, Len(app_stream))
  BY DEF AppReads
<1>2. UNCHANGED <<posted, accepted, g_app_write_mutex>>
  BY DEF AppReads, cmdVars
<1>3. app_stream \in Seq(AudioChars) /\ app_buffer \in Seq(AudioChars)
  BY DEF WrittenTypes
<1>4. /\ app_buffer' \in Seq(AudioChars) /\ app_stream' \in Seq(AudioChars)
      /\ app_buffer' \o app_stream' = app_buffer \o app_stream
  BY <1>1, <1>3, CharsMove
<1> QED
  BY <1>2, <1>4 DEF WrittenTypes, OnItsWay, Forwarded, Cut

-------------------------------------------------------------------------------
FlowInv == ClientInv /\ WrittenInv

\* What the two parts of the invariant come to for a step that keeps each.
LEMMA FlowFrom ==
  ASSUME ClientInv', WrittenTypes', NEW n \in Nat, Serves(n)', NEW pending \in Seq(AppTexts),
         OnItsWay(pending)', Forwarded(pending)' = n
  PROVE  FlowInv'
BY DEF FlowInv, WrittenInv

LEMMA FlowOfMain ==
  ASSUME ControlInv, FlowInv, MainStep
  PROVE  FlowInv'
<1>1. PICK n \in Nat : Serves(n) /\ \E p \in Seq(AppTexts) : OnItsWay(p) /\ Forwarded(p) = n
  BY DEF FlowInv, WrittenInv
<1>2. PICK pending \in Seq(AppTexts) : OnItsWay(pending) /\ Forwarded(pending) = n
  BY <1>1
<1>3. ClientInv /\ WrittenTypes /\ accepted \in Seq(Clients)
  BY DEF FlowInv, WrittenInv, ClientInv, ClientTypes
<1>4. CASE \/ StartsUp \/ AudioTestsRunning \/ PollReturns \/ AudioPollTimesOut
           \/ ReadsRequests \/ AppEnds \/ HandlesRequest \/ RequestsDone
           \/ (TestsServing \/ ClientEnds \/ LinesDone \/ ClosesClient)
              /\ UNCHANGED <<requestVars, soundThreads>>
           \/ MainForwardKills \/ Exits
  <2>1. UNCHANGED <<app_stream, app_buffer, posted, accepted, g_app_write_mutex>>
    BY <1>4 DEF StartsUp, AcceptApp, AudioTestsRunning, PollReturns, AudioPollTimesOut,
         ReadsRequests, AppEnds, HandlesRequest, RequestsDone, TestsServing, ClientEnds,
         LinesDone, ClosesClient, MainForwardKills, ForwardKills, Exits, cmdVars, appVars,
         soundThreads
  <2>2. ClientInv' /\ Serves(n)'
    BY <1>1, <1>3, <1>4, QuietServed
  <2>3. WrittenTypes' /\ OnItsWay(pending)' /\ Forwarded(pending)' = Forwarded(pending)
    BY <1>2, <1>3, <2>1, WrittenKept
  <2> QED
    BY <1>2, <2>2, <2>3, FlowFrom
<1>5. CASE AudioAcceptClient
  <2>1. ClientInv' /\ Serves(n)' /\ \E c \in Clients : accepted' = Append(accepted, c)
    BY <1>1, <1>3, <1>5, AcceptServed
  <2>2. UNCHANGED <<app_stream, app_buffer, posted, g_app_write_mutex>>
    BY <1>5 DEF AudioAcceptClient, appVars, soundThreads
  <2>3. WrittenTypes' /\ OnItsWay(pending)' /\ Forwarded(pending)' = Forwarded(pending)
    BY <1>2, <1>3, <2>1, <2>2, WrittenLonger
  <2> QED
    BY <1>2, <2>1, <2>3, FlowFrom
<1>6. CASE ReadsClient /\ UNCHANGED <<requestVars, soundThreads>>
  <2>1. UNCHANGED <<app_stream, app_buffer, posted, accepted, g_app_write_mutex>>
    BY <1>6 DEF ReadsClient, appVars, soundThreads
  <2>2. ClientInv' /\ Serves(n)'
    BY <1>1, <1>3, <1>6, ReadServed
  <2>3. WrittenTypes' /\ OnItsWay(pending)' /\ Forwarded(pending)' = Forwarded(pending)
    BY <1>2, <1>3, <2>1, WrittenKept
  <2> QED
    BY <1>2, <2>2, <2>3, FlowFrom
<1>7. CASE MainForwards
  <2>0. /\ ClientInv' /\ Serves(n + 1)' /\ cmd_client \in Clients
        /\ n + 1 = Len(accepted) /\ accepted[Len(accepted)] = cmd_client
        /\ app_stream' = app_stream \o TextOf(cmd_client)
    BY <1>1, <1>3, <1>7, ForwardServed
  <2> PICK c \in Clients : c = cmd_client
    BY <2>0
  <2> DEFINE t == TextOf(c)
             more == Append(pending, t)
             m == n + 1
  <2>1. ClientInv' /\ Serves(m)' /\ m \in Nat
    BY <1>1, <2>0
  <2>2. /\ t \in AppTexts /\ t \in CommandTexts /\ app_stream' = app_stream \o t
        /\ Forwarded(pending) + 1 = Len(accepted) /\ t = TextOf(accepted[Len(accepted)])
    BY <1>2, <2>0, WrittenAreTexts
  <2>3. /\ g_app_write_mutex = Free /\ g_app_write_mutex' # Free
        /\ UNCHANGED <<app_buffer, posted, accepted>>
    BY <1>7, MutexNames DEF MainForwards
  <2> HIDE DEF t, m
  <2>4. /\ WrittenTypes' /\ more \in Seq(AppTexts) /\ OnItsWay(more)'
        /\ Forwarded(more)' = Forwarded(pending) + IF t \in CommandTexts THEN 1 ELSE 0
    BY <1>2, <1>3, <2>2, <2>3, WriteBegins
  <2>5. Forwarded(more)' = m
    BY <1>2, <2>2, <2>4 DEF m
  <2> HIDE DEF more
  <2> QED
    BY <2>1, <2>4, <2>5, FlowFrom
<1>8. CASE MainForwarded
  <2>1. ClientInv' /\ Serves(n)'
    BY <1>1, <1>3, <1>8, QuietServed
  <2>2. /\ g_app_write_mutex # Free /\ g_app_write_mutex' = Free
        /\ app_stream' = app_stream \o <<Newline>> /\ UNCHANGED <<app_buffer, posted, accepted>>
    BY <1>8, MutexNames DEF MainForwarded, ControlInv, Goes, Writes, cmdVars
  <2>3. WrittenTypes' /\ OnItsWay(pending)' /\ Forwarded(pending)' = Forwarded(pending)
    BY <1>2, <1>3, <2>2, WriteEnds
  <2> QED
    BY <1>2, <2>1, <2>3, FlowFrom
<1> QED
  BY <1>4, <1>5, <1>6, <1>7, <1>8 DEF MainStep, ServesClient

LEMMA FlowOfOthers ==
  ASSUME ControlInv, FlowInv, OtherStep \/ AppListens \/ AppRequests
  PROVE  FlowInv'
<1>1. PICK n \in Nat : Serves(n) /\ \E p \in Seq(AppTexts) : OnItsWay(p) /\ Forwarded(p) = n
  BY DEF FlowInv, WrittenInv
<1>2. PICK pending \in Seq(AppTexts) : OnItsWay(pending) /\ Forwarded(pending) = n
  BY <1>1
<1>3. ClientInv /\ WrittenTypes /\ accepted \in Seq(Clients) /\ g_running \in BOOLEAN
  BY DEF FlowInv, WrittenInv, ClientInv, ClientTypes, ControlInv
<1>4. CASE \E c \in Clients : ClientStep(c) /\ UNCHANGED <<requestVars, soundThreads>>
  <2>1. PICK c \in Clients : ClientStep(c) /\ UNCHANGED <<requestVars, soundThreads>>
    BY <1>4
  <2>2. UNCHANGED <<app_stream, app_buffer, posted, accepted, g_app_write_mutex>>
    BY <2>1 DEF ClientStep, ClientConnects, ClientWrites, ClientCloses, appVars, soundThreads
  <2>3. ClientInv' /\ Serves(n)'
    BY <1>1, <1>3, <2>1, SlldServed
  <2>4. WrittenTypes' /\ OnItsWay(pending)' /\ Forwarded(pending)' = Forwarded(pending)
    BY <1>2, <1>3, <2>2, WrittenKept
  <2> QED
    BY <1>2, <2>3, <2>4, FlowFrom
<1>5. CASE \/ (HandleSignal \/ AppConnects \/ AppExits) /\ UNCHANGED <<requestVars, soundThreads>>
           \/ AppRequests
  <2>1. /\ UNCHANGED <<app_stream, app_buffer, posted, accepted, g_app_write_mutex>>
        /\ UNCHANGED <<client, cmd_backlog, cmd_client, cmd_stream, buffer, service>>
        /\ g_running' \in {g_running, FALSE}
    BY <1>5 DEF HandleSignal, AppConnects, AppExits, AppRequests, serviceVars, cmdVars, appVars,
         soundThreads
  <2>2. ClientInv'
    BY <1>3, <2>1, ClientKept
  <2>3. Serves(n)'
    BY <1>1, <1>3, <2>1, ServesKept
  <2>4. WrittenTypes' /\ OnItsWay(pending)' /\ Forwarded(pending)' = Forwarded(pending)
    BY <1>2, <1>3, <2>1, WrittenKept
  <2> QED
    BY <1>2, <2>2, <2>3, <2>4, FlowFrom
<1>6. CASE AppListens
  <2>1. /\ UNCHANGED <<client, cmd_backlog, cmd_client, cmd_stream, buffer, accepted, service>>
        /\ g_running' \in {g_running, FALSE} /\ g_app_write_mutex' = g_app_write_mutex
        /\ AppReads \/ AppPosts
    BY <1>6 DEF AppListens, ListenLoop, AppReads, AppPosts, cmdVars, soundThreads
  <2>2. ClientInv'
    BY <1>3, <2>1, ClientKept
  <2>3. Serves(n)'
    BY <1>1, <1>3, <2>1, ServesKept
  <2>4. CASE AppReads
    <3>1. WrittenTypes' /\ OnItsWay(pending)' /\ Forwarded(pending)' = Forwarded(pending)
      BY <1>2, <1>3, <2>1, <2>4, WrittenRead
    <3> QED
      BY <1>2, <2>2, <2>3, <3>1, FlowFrom
  <2>5. CASE AppPosts
    <3> DEFINE rest == Tail(pending)
    <3>1. /\ rest \in Seq(AppTexts) /\ WrittenTypes' /\ OnItsWay(rest)'
          /\ Forwarded(rest)' = Forwarded(pending)
      BY <1>2, <1>3, <2>1, <2>5, LinePosted
    <3> HIDE DEF rest
    <3> QED
      BY <1>2, <2>2, <2>3, <3>1, FlowFrom
  <2> QED
    BY <2>1, <2>4, <2>5
<1> QED
  BY <1>4, <1>5, <1>6 DEF OtherStep

LEMMA FlowOfSounds ==
  ASSUME ControlInv, FlowInv, NEW i \in Sounds, SoundStep(i)
  PROVE  FlowInv'
<1>1. PICK n \in Nat : Serves(n) /\ \E p \in Seq(AppTexts) : OnItsWay(p) /\ Forwarded(p) = n
  BY DEF FlowInv, WrittenInv
<1>2. PICK pending \in Seq(AppTexts) : OnItsWay(pending) /\ Forwarded(pending) = n
  BY <1>1
<1>3. ClientInv /\ WrittenTypes /\ accepted \in Seq(Clients) /\ g_running \in BOOLEAN
  BY DEF FlowInv, WrittenInv, ClientInv, ClientTypes, ControlInv
<1>4. /\ UNCHANGED <<client, cmd_backlog, cmd_client, cmd_stream, buffer, accepted>>
      /\ UNCHANGED <<app_buffer, posted>>
      /\ service' \in {service, "killed", "ended", "closed"} /\ g_running' \in {g_running, FALSE}
  BY DEF SoundStep, SoundWrites, SoundWritten, SoundKills, SoundIsLost, serviceVars, cmdVars,
         appVars
<1>5. ClientInv'
  BY <1>3, <1>4, ClientKept
<1>6. Serves(n)'
  BY <1>1, <1>3, <1>4, ServesKept
<1>7. CASE SoundWrites(i)
  <2> DEFINE t == CompletedText
             more == Append(pending, t)
  <2>1. /\ g_app_write_mutex = Free /\ g_app_write_mutex' # Free
        /\ app_stream' = app_stream \o t
    BY <1>7, MutexNames DEF SoundWrites, Writes
  <2>2. t \in AppTexts /\ t \notin CommandTexts
    BY WrittenAreTexts
  <2> HIDE DEF t
  <2>3. /\ WrittenTypes' /\ more \in Seq(AppTexts) /\ OnItsWay(more)'
        /\ Forwarded(more)' = Forwarded(pending) + IF t \in CommandTexts THEN 1 ELSE 0
    BY <1>2, <1>3, <1>4, <2>1, <2>2, WriteBegins
  <2>4. Forwarded(more)' = n
    BY <1>1, <1>2, <2>2, <2>3
  <2> HIDE DEF more
  <2> QED
    BY <1>5, <1>6, <2>3, <2>4, FlowFrom
<1>8. CASE SoundWritten(i)
  <2>1. /\ g_app_write_mutex # Free /\ g_app_write_mutex' = Free
        /\ app_stream' = app_stream \o <<Newline>>
    BY <1>8, MutexNames DEF SoundWritten, ControlInv, Writes
  <2>2. WrittenTypes' /\ OnItsWay(pending)' /\ Forwarded(pending)' = Forwarded(pending)
    BY <1>2, <1>3, <1>4, <2>1, WriteEnds
  <2> QED
    BY <1>2, <1>5, <1>6, <2>2, FlowFrom
<1>9. CASE SoundKills(i) \/ SoundIsLost(i)
  <2>1. UNCHANGED <<app_stream, app_buffer, posted, accepted, g_app_write_mutex>>
    BY <1>9 DEF SoundKills, SoundIsLost, serviceVars, cmdVars, appVars, soundThreads
  <2>2. WrittenTypes' /\ OnItsWay(pending)' /\ Forwarded(pending)' = Forwarded(pending)
    BY <1>2, <1>3, <2>1, WrittenKept
  <2> QED
    BY <1>2, <1>5, <1>6, <2>2, FlowFrom
<1> QED
  BY <1>7, <1>8, <1>9 DEF SoundStep

LEMMA FlowStep ==
  ASSUME ControlInv, FlowInv, [AudioNext]_audioVars
  PROVE  FlowInv'
<1>1. CASE UNCHANGED audioVars
  <2>1. UNCHANGED <<service, g_running, client, cmd_backlog, cmd_client, cmd_stream, buffer,
                    accepted, app_stream, app_buffer, posted, g_app_write_mutex>>
    BY <1>1 DEF audioVars, serviceVars, cmdVars, appVars, soundThreads
  <2> QED
    BY <2>1 DEF FlowInv, ClientInv, ClientTypes, Queued, WrittenInv, WrittenTypes, Serves,
         LineHeld, NoneCut, OnItsWay, Forwarded, Cut
<1> QED
  BY <1>1, FlowOfMain, FlowOfOthers, FlowOfSounds DEF AudioNext

-------------------------------------------------------------------------------
(***************************************************************************)
(* The invariant, and what it comes to.                                    *)
(***************************************************************************)
AudioInv == ControlInv /\ RequestInv /\ FlowInv

LEMMA AudioInitially == AudioInit => AudioInv
<1> SUFFICES ASSUME AudioInit
             PROVE  AudioInv
  OBVIOUS
<1> USE DEF AudioInit, Init
<1>1. ControlInv
  BY MutexNames DEF ControlInv
<1>2. /\ <<>> \in Seq(AudioChars) /\ <<>> \in Seq(AppTexts) /\ <<>> \in Seq({RequestText})
      /\ <<>> \in Seq(Clients) /\ <<>> \in Seq(Bytes)
      /\ Len(<<>>) = 0 /\ DOMAIN <<>> = {} /\ <<>> \o <<>> = <<>>
  BY EmptySeq, ConcatEmptySeq
<1>3. RequestInv
  <2>1. Asked(<<>>)
    <3>1. \A i \in Sounds : sound[i] = "none" /\ ~(i + 0 <= 0)
      BY MutexNames DEF Sounds
    <3>2. Encodes(request_buffer \o request_stream, <<>>, 0)
      BY <1>2, NothingEncoded
    <3> QED
      BY <1>2, <3>1, <3>2 DEF Asked
  <2>2. requested \in 0 .. MaxRequests
    BY AudioAssumption
  <2> QED
    BY <1>2, <2>1, <2>2 DEF RequestInv
<1>4. ClientInv
  BY <1>2, NoneIsNoClient DEF ClientInv, ClientTypes
<1>5. WrittenInv
  <2>1. Serves(0)
    BY <1>2 DEF Serves, LineHeld, NoneCut, Serving
  <2>2. OnItsWay(<<>>)
    BY <1>2, NothingEncoded, OfNone DEF OnItsWay, Cut, Follows
  <2>3. Forwarded(<<>>) = 0
    BY <1>2, OfNone DEF Forwarded
  <2>4. WrittenTypes /\ 0 \in Nat /\ <<>> \in Seq(AppTexts)
    BY <1>2 DEF WrittenTypes
  <2> QED
    BY <2>1, <2>2, <2>3, <2>4 DEF WrittenInv
<1> QED
  BY <1>1, <1>3, <1>4, <1>5 DEF AudioInv, FlowInv

\* The invariant of the process, of its sounds and of both its connections.
THEOREM AudioInvariance == AudioSafetySpec => []AudioInv
<1>1. AudioInv /\ [AudioNext]_audioVars => AudioInv'
  BY ControlStep, RequestStep, FlowStep DEF AudioInv
<1> QED
  BY <1>1, AudioInitially, PTL DEF AudioSafetySpec

\* Main and the sounds hold the mutex exactly while they write, and the bytes on the
\* connections are those of the lines of the two sides.
THEOREM AudioTypeCorrect == AudioSafetySpec => []AudioTypeOK
<1>1. AudioInv => AudioTypeOK
  BY DEF AudioInv, ControlInv, RequestInv, FlowInv, WrittenInv, WrittenTypes, AudioTypeOK
<1> QED
  BY <1>1, AudioInvariance, PTL

-------------------------------------------------------------------------------
LEMMA WholeLinesOnly == AudioInv => LinesAreWhole
<1> SUFFICES ASSUME AudioInv
             PROVE  LinesAreWhole
  OBVIOUS
<1>1. WrittenTypes /\ accepted \in Seq(Clients)
  BY DEF AudioInv, FlowInv, WrittenInv, ClientInv, ClientTypes
<1>2. PICK pending \in Seq(AppTexts) : OnItsWay(pending)
  BY DEF AudioInv, FlowInv, WrittenInv
<1>3. posted \in Seq(AppTexts)
  BY <1>1 DEF WrittenTypes
<1>4. \A i \in DOMAIN posted : posted[i] \in CommandTexts \union {CompletedText}
  <2>1. DOMAIN posted = 1 .. Len(posted)
    BY <1>3, LenProperties
  <2> QED
    BY <1>3, <2>1, ElementOfSeq DEF AppTexts
<1>5. Commands = Texts(accepted)
  BY DEF Commands, Texts
<1>6. Continues(posted, CommandTexts, Texts(accepted), 0)
  <2> DEFINE S == CommandTexts
             X == AppTexts
             orders == Texts(accepted)
  <2>1. posted \in Seq(X) /\ pending \in Seq(X) /\ Continues(posted \o pending, S, orders, 0)
        /\ 0 \in Nat
    BY <1>2, <1>3 DEF OnItsWay, Follows
  <2> HIDE DEF S, X, orders
  <2>2. Continues(posted, S, orders, 0)
    BY <2>1, ContinuesConcat
  <2> QED
    BY <2>2 DEF S, orders
<1> QED
  BY <1>4, <1>5, <1>6 DEF LinesAreWhole, Follows

\* However many sounds end while main forwards commands, the application is posted
\* whole lines only, the commands among them in the order in which their clients
\* were accepted (g_app_write_mutex in ForwardLine and in the detached threads).
THEOREM LinesStayWhole == AudioSafetySpec => []LinesAreWhole
BY AudioInvariance, WholeLinesOnly, PTL

-------------------------------------------------------------------------------
(***************************************************************************)
(* What SoundContract promises.                                            *)
(***************************************************************************)
Playing(s) == {i \in Sounds : s[i] = "playing"}

\* A thread that starts or stops to sleep is one more, or one less, of those that do.
LEMMA PlayingChanges ==
  ASSUME NEW s, DOMAIN s = Sounds, NEW i \in Sounds, NEW x
  PROVE  /\ Cardinality(Playing(s)) \in Nat
         /\ s[i] # "playing" /\ x = "playing" =>
              Cardinality(Playing([s EXCEPT ![i] = x])) = Cardinality(Playing(s)) + 1
         /\ s[i] = "playing" /\ x # "playing" =>
              Cardinality(Playing(s)) = Cardinality(Playing([s EXCEPT ![i] = x])) + 1
         /\ s[i] # "playing" /\ x # "playing" =>
              Cardinality(Playing([s EXCEPT ![i] = x])) = Cardinality(Playing(s))
         /\ Cardinality(Playing([s EXCEPT ![i] = x])) \in Nat
<1> DEFINE r == [s EXCEPT ![i] = x]
           before == Playing(s)
           after == Playing(r)
<1>1. IsFiniteSet(Sounds)
  BY MutexNames, FS_Interval DEF Sounds
<1>2. /\ before \subseteq Sounds /\ after \subseteq Sounds
      /\ r[i] = x /\ \A j \in Sounds : j # i => r[j] = s[j]
  BY DEF Playing
<1> HIDE DEF r
<1>3. IsFiniteSet(before) /\ IsFiniteSet(after)
  BY <1>1, <1>2, FS_Subset
<1>4. Cardinality(before) \in Nat /\ Cardinality(after) \in Nat
  BY <1>3, FS_CardinalityType
<1>5. ASSUME s[i] # "playing", x = "playing"
      PROVE  Cardinality(after) = Cardinality(before) + 1
  <2>1. i \notin before /\ after = before \union {i}
    BY <1>2, <1>5 DEF Playing
  <2> HIDE DEF before, after
  <2> QED
    BY <1>3, <2>1, FS_AddElement
<1>6. ASSUME s[i] = "playing", x # "playing"
      PROVE  Cardinality(before) = Cardinality(after) + 1
  <2>1. i \notin after /\ before = after \union {i}
    BY <1>2, <1>6 DEF Playing
  <2> HIDE DEF before, after
  <2> QED
    BY <1>3, <2>1, FS_AddElement
<1>7. ASSUME s[i] # "playing", x # "playing"
      PROVE  Cardinality(after) = Cardinality(before)
  <2>1. after = before
    BY <1>2, <1>7 DEF Playing
  <2> QED
    BY <2>1
<1> QED
  BY <1>4, <1>5, <1>6, <1>7 DEF r

\* The three places of a request, and what was reported.
Waiting == Count(request_stream, {Newline}) + Count(request_buffer, {Newline})
Sleeping == Cardinality(Playing(sound))
Returning == Count(app_stream, {"completed"}) + Count(app_buffer, {"completed"})
Reported == Count(posted, {CompletedText})

Counted ==
  /\ Waiting \in Nat /\ Sleeping \in Nat /\ Returning \in Nat /\ Reported \in Nat
  /\ Unreported = Waiting + Sleeping + Returning

LEMMA CountsOfAudio == AudioInv => Counted
<1> SUFFICES ASSUME AudioInv
             PROVE  Counted
  OBVIOUS
<1>1. /\ Count(request_stream, {Newline}) \in Nat /\ Count(request_buffer, {Newline}) \in Nat
      /\ Count(app_stream, {"completed"}) \in Nat /\ Count(app_buffer, {"completed"}) \in Nat
      /\ Reported \in Nat
  BY CountType DEF AudioInv, RequestInv, FlowInv, WrittenInv, WrittenTypes, Reported
<1>2. Sleeping \in Nat
  <2>1. IsFiniteSet(Sounds) /\ Playing(sound) \subseteq Sounds
    BY MutexNames, FS_Interval DEF Sounds, Playing
  <2> QED
    BY <2>1, FS_Subset, FS_CardinalityType DEF Sleeping
<1>3. Cardinality({i \in Sounds : sound[i] = "playing"}) = Sleeping
  BY DEF Playing, Sleeping
<1> QED
  BY <1>1, <1>2, <1>3 DEF Unreported, Waiting, Returning, Counted

LEMMA CountedAgain == AudioInv' => Counted'
BY CountsOfAudio, PTL

-------------------------------------------------------------------------------
\* What a step may do to the counts, and which step of the contract it is.
Silent == Unreported' = Unreported /\ Reported' = Reported /\ (DescriptorOpen' => DescriptorOpen)

Reports == /\ service' = service
           /\ Unreported = Unreported' + 1 /\ Reported' = Reported + 1

LEMMA SilentIsContract ==
  ASSUME Silent
  PROVE  [Sound!SoundNext]_(Sound!soundVars)
<1>1. CASE DescriptorOpen' <=> DescriptorOpen
  BY <1>1 DEF Silent, Sound!soundVars, Reported
<1>2. CASE DescriptorOpen /\ ~DescriptorOpen'
  BY <1>2 DEF Silent, Sound!SoundNext, Sound!ServiceEnds, Reported
<1> QED
  BY <1>1, <1>2 DEF Silent

LEMMA LessByOne ==
  ASSUME NEW n \in Nat, NEW m \in Nat, n = m + 1
  PROVE  n > 0 /\ m = n - 1
OBVIOUS

LEMMA UnreportedIsNat == Counted => Unreported \in Nat
BY DEF Counted

LEMMA UnreportedStaysNat == Counted' => Unreported' \in Nat
<1>1. Counted' => (Unreported \in Nat)'
  BY UnreportedIsNat, PTL
<1> QED
  BY <1>1

LEMMA UnreportedIsLess ==
  ASSUME Counted, Counted', Unreported = Unreported' + 1
  PROVE  Unreported > 0 /\ Unreported' = Unreported - 1
<1>1. Unreported \in Nat /\ Unreported' \in Nat
  BY UnreportedIsNat, UnreportedStaysNat
<1> QED
  BY <1>1, LessByOne

LEMMA ReportsIsContract ==
  ASSUME Reports, Counted, Counted'
  PROVE  Sound!SoundNext
<1>1. DescriptorOpen' <=> DescriptorOpen
  BY DEF Reports, DescriptorOpen
<1>2. Unreported = Unreported' + 1 /\ Reported' = Reported + 1
  BY DEF Reports
<1>3. Unreported > 0 /\ Unreported' = Unreported - 1
  BY <1>2, UnreportedIsLess
<1> QED
  BY <1>1, <1>2, <1>3 DEF Sound!SoundNext, Sound!Report, Reported

LEMMA SoundIsLostIsContract ==
  ASSUME service = "closed", service' = service, Counted, Counted',
         Waiting' = Waiting, Sleeping = Sleeping' + 1, Returning' = Returning, Reported' = Reported
  PROVE  Sound!SoundNext
<1>1. ~DescriptorOpen /\ ~DescriptorOpen'
  BY DEF DescriptorOpen
<1>2. Unreported = Unreported' + 1
  BY DEF Counted
<1>3. Unreported > 0 /\ Unreported' = Unreported - 1
  BY <1>2, UnreportedIsLess
<1> QED
  BY <1>1, <1>3 DEF Sound!SoundNext, Sound!SoundIsLost, Reported

LEMMA AppRequestsIsContract ==
  ASSUME AudioInv, Counted, Counted', AppRequests
  PROVE  Sound!SoundNext
<1> DEFINE line == Line(RequestText)
<1>1. /\ DescriptorOpen /\ request_stream' = request_stream \o line
      /\ UNCHANGED <<request_buffer, sound, app_stream, app_buffer, posted, service>>
  BY DEF AppRequests, serviceVars, appVars, soundThreads
<1>2. /\ request_stream \in Seq(AudioChars) /\ line \in Seq(AudioChars)
      /\ Count(line, {Newline}) = 1
  BY TextLine, LineCounts DEF AudioInv, RequestInv, AudioTexts
<1> HIDE DEF line
<1>3. /\ Count(request_stream', {Newline}) = Count(request_stream, {Newline}) + 1
      /\ Count(request_stream, {Newline}) \in Nat
  BY <1>1, <1>2, CountJoined
<1>4. /\ Count(request_buffer, {Newline}) \in Nat
  BY CountType DEF AudioInv, RequestInv
<1>5. Waiting' = Waiting + 1
  BY <1>1, <1>3, <1>4 DEF Waiting
<1>6. Sleeping' = Sleeping /\ Returning' = Returning /\ Reported' = Reported
  BY <1>1 DEF Sleeping, Playing, Returning, Reported
<1>7. Unreported' = Unreported + 1
  BY <1>5, <1>6 DEF Counted
<1>8. DescriptorOpen'
  BY <1>1 DEF DescriptorOpen
<1> QED
  BY <1>1, <1>6, <1>7, <1>8 DEF Sound!SoundNext, Sound!Request, Reported

LEMMA ReadsRequestsIsSilent ==
  ASSUME AudioInv, Counted, Counted', ReadsRequests
  PROVE  Silent
<1>1. PICK n \in 1 .. Len(request_stream) :
        /\ request_buffer' = request_buffer \o SubSeq(request_stream, 1, n)
        /\ request_stream' = SubSeq(request_stream, n + 1, Len(request_stream))
  BY DEF ReadsRequests
<1>2. UNCHANGED <<sound, app_stream, app_buffer, posted>> /\ DescriptorOpen
  BY DEF ReadsRequests, Goes, DescriptorOpen, appVars, soundThreads
<1>3. request_stream \in Seq(AudioChars) /\ request_buffer \in Seq(AudioChars)
  BY DEF AudioInv, RequestInv
<1>4. /\ request_buffer' \in Seq(AudioChars) /\ request_stream' \in Seq(AudioChars)
      /\ request_buffer' \o request_stream' = request_buffer \o request_stream
  BY <1>1, <1>3, CharsMove
<1>5. Waiting' = Waiting
  <2>1. Count(request_buffer \o request_stream, {Newline}) =
          Count(request_buffer, {Newline}) + Count(request_stream, {Newline})
    BY <1>3, CountJoined
  <2>2. Count(request_buffer' \o request_stream', {Newline}) =
          Count(request_buffer', {Newline}) + Count(request_stream', {Newline})
    BY <1>4, CountJoined
  <2>3. /\ Count(request_buffer, {Newline}) \in Nat /\ Count(request_stream, {Newline}) \in Nat
        /\ Count(request_buffer', {Newline}) \in Nat /\ Count(request_stream', {Newline}) \in Nat
    BY <1>3, <1>4, CountJoined
  <2> QED
    BY <1>4, <2>1, <2>2, <2>3 DEF Waiting
<1>6. Sleeping' = Sleeping /\ Returning' = Returning /\ Reported' = Reported
  BY <1>2 DEF Sleeping, Playing, Returning, Reported
<1> QED
  BY <1>2, <1>5, <1>6 DEF Silent, Counted

LEMMA AppReadsIsSilent ==
  ASSUME AudioInv, Counted, Counted', AppReads, UNCHANGED <<requestVars, soundThreads>>
  PROVE  Silent
<1>1. PICK n \in 1 .. Len(app_stream) :
        /\ app_buffer' = app_buffer \o SubSeq(app_stream, 1, n)
        /\ app_stream' = SubSeq(app_stream, n + 1, Len(app_stream))
  BY DEF AppReads
<1>2. UNCHANGED <<sound, request_stream, request_buffer, posted, service>>
  BY DEF AppReads, requestVars, soundThreads
<1>3. app_stream \in Seq(AudioChars) /\ app_buffer \in Seq(AudioChars)
  BY DEF AudioInv, FlowInv, WrittenInv, WrittenTypes
<1>4. /\ app_buffer' \in Seq(AudioChars) /\ app_stream' \in Seq(AudioChars)
      /\ app_buffer' \o app_stream' = app_buffer \o app_stream
  BY <1>1, <1>3, CharsMove
<1>5. Returning' = Returning
  <2>1. Count(app_buffer \o app_stream, {"completed"}) =
          Count(app_buffer, {"completed"}) + Count(app_stream, {"completed"})
    BY <1>3, CountJoined
  <2>2. Count(app_buffer' \o app_stream', {"completed"}) =
          Count(app_buffer', {"completed"}) + Count(app_stream', {"completed"})
    BY <1>4, CountJoined
  <2>3. /\ Count(app_buffer, {"completed"}) \in Nat /\ Count(app_stream, {"completed"}) \in Nat
        /\ Count(app_buffer', {"completed"}) \in Nat /\ Count(app_stream', {"completed"}) \in Nat
    BY <1>3, <1>4, CountJoined
  <2> QED
    BY <1>4, <2>1, <2>2, <2>3 DEF Returning
<1>6. Waiting' = Waiting /\ Sleeping' = Sleeping /\ Reported' = Reported
      /\ (DescriptorOpen' <=> DescriptorOpen)
  BY <1>2 DEF Waiting, Sleeping, Playing, Reported, DescriptorOpen
<1> QED
  BY <1>5, <1>6 DEF Silent, Counted

\* A request that is handled is taken out of the buffer, and its sound plays.
LEMMA HandlesRequestIsSilent ==
  ASSUME AudioInv, Counted, Counted', HandlesRequest
  PROVE  Silent
<1> DEFINE after == AfterLine(request_buffer)
           line == Line(RequestText)
           new == NewSound
<1>1. /\ HasLine(request_buffer) /\ request_buffer' = after
      /\ sound' = IF FirstLine(request_buffer) = RequestText
                  THEN [sound EXCEPT ![new] = "playing"] ELSE sound
      /\ UNCHANGED <<request_stream, app_stream, app_buffer, posted, service>>
  BY DEF HandlesRequest, appVars
<1>2. /\ FirstLine(request_buffer) = RequestText
      /\ new \in Sounds /\ sound[new] = "none"
      /\ after \in Seq(AudioChars) /\ request_buffer = line \o after
  BY <1>1, HandledIsRequest DEF AudioInv
<1>3. line \in Seq(AudioChars) /\ Count(line, {Newline}) = 1
  BY TextLine, LineCounts DEF AudioTexts
<1> HIDE DEF after, line, new
<1>4. /\ Count(request_buffer, {Newline}) = 1 + Count(request_buffer', {Newline})
      /\ Count(request_buffer', {Newline}) \in Nat
  BY <1>1, <1>2, <1>3, CountJoined
<1>5. Count(request_stream, {Newline}) \in Nat
  BY CountType DEF AudioInv, RequestInv
<1>6. Waiting = Waiting' + 1
  BY <1>1, <1>4, <1>5 DEF Waiting
<1>7. Sleeping' = Sleeping + 1
  <2>1. DOMAIN sound = Sounds /\ sound' = [sound EXCEPT ![new] = "playing"]
        /\ sound[new] # "playing"
    BY <1>1, <1>2 DEF AudioInv, ControlInv
  <2>2. Cardinality(Playing([sound EXCEPT ![new] = "playing"])) = Cardinality(Playing(sound)) + 1
    BY <1>2, <2>1, PlayingChanges
  <2>3. Playing(sound)' = Playing([sound EXCEPT ![new] = "playing"])
    BY <2>1 DEF Playing
  <2> QED
    BY <2>2, <2>3 DEF Sleeping
<1>8. Returning' = Returning /\ Reported' = Reported /\ (DescriptorOpen' <=> DescriptorOpen)
  BY <1>1 DEF Returning, Reported, DescriptorOpen
<1> QED
  BY <1>6, <1>7, <1>8 DEF Silent, Counted

\* What is written to the application.
LEMMA WritingCounts ==
  ASSUME AudioInv, NEW t \in Seq(AudioChars), app_stream' = app_stream \o t,
         app_buffer' = app_buffer
  PROVE  Returning' = Returning + Count(t, {"completed"}) /\ Count(t, {"completed"}) \in Nat
<1>1. app_stream \in Seq(AudioChars) /\ app_buffer \in Seq(AudioChars)
  BY DEF AudioInv, FlowInv, WrittenInv, WrittenTypes
<1>2. /\ Count(app_stream', {"completed"}) =
           Count(app_stream, {"completed"}) + Count(t, {"completed"})
      /\ Count(app_stream, {"completed"}) \in Nat /\ Count(t, {"completed"}) \in Nat
      /\ Count(app_buffer, {"completed"}) \in Nat
  BY <1>1, CountJoined
<1> QED
  BY <1>2 DEF Returning

LEMMA MainForwardsIsSilent ==
  ASSUME AudioInv, Counted, Counted', MainForwards \/ MainForwarded
  PROVE  Silent
<1>1. /\ UNCHANGED <<request_stream, request_buffer, sound, app_buffer, posted>>
      /\ DescriptorOpen
  BY DEF MainForwards, MainForwarded, requestVars, Goes, DescriptorOpen
<1>2. Returning' = Returning
  <2>1. CASE MainForwards
    <3>1. PICK n \in Nat : Serves(n)
      BY DEF AudioInv, FlowInv, WrittenInv
    <3> DEFINE t == TextOf(cmd_client)
    <3>2. cmd_client \in Clients /\ app_stream' = app_stream \o t
      BY <2>1, <3>1, ForwardServed DEF AudioInv, FlowInv
    <3>3. t \in AudioTexts /\ t # CompletedText
      BY <3>2, WrittenAreTexts
    <3> HIDE DEF t
    <3>4. t \in Seq(AudioChars) /\ Count(t, {"completed"}) = 0
      BY <3>3, TextIsTwo, LineCounts
    <3> QED
      BY <1>1, <3>2, <3>4, WritingCounts, CountsOfAudio DEF Counted
  <2>2. CASE MainForwarded
    <3> DEFINE t == <<Newline>>
    <3>1. t \in Seq(AudioChars)
      BY CharsAreApart
    <3>2. Count(t, {"completed"}) = 0
      BY WrittenAreTexts, LineCounts
    <3>3. app_stream' = app_stream \o t
      BY <2>2 DEF MainForwarded, Writes
    <3> HIDE DEF t
    <3>4. Returning' = Returning + Count(t, {"completed"})
      BY <1>1, <3>1, <3>3, WritingCounts
    <3>5. Returning \in Nat
      BY DEF Counted
    <3> QED
      BY <3>2, <3>4, <3>5
  <2> QED
    BY <2>1, <2>2
<1>3. Waiting' = Waiting /\ Sleeping' = Sleeping /\ Reported' = Reported
  BY <1>1 DEF Waiting, Sleeping, Playing, Reported
<1> QED
  BY <1>1, <1>2, <1>3 DEF Silent, Counted

\* A completion that is written was a sound that played.
LEMMA SoundWritesIsSilent ==
  ASSUME AudioInv, Counted, Counted', NEW i \in Sounds, SoundWrites(i)
  PROVE  Silent
<1> DEFINE t == CompletedText
<1>1. /\ UNCHANGED <<request_stream, request_buffer, app_buffer, posted, service>>
      /\ sound[i] = "playing" /\ sound' = [sound EXCEPT ![i] = "writing"]
      /\ app_stream' = app_stream \o t
  BY DEF SoundWrites, requestVars, Writes
<1>2. t \in Seq(AudioChars) /\ Count(t, {"completed"}) = 1
  BY WrittenAreTexts, TextIsTwo, LineCounts
<1> HIDE DEF t
<1>3. Returning' = Returning + 1
  BY <1>1, <1>2, WritingCounts
<1>4. Sleeping = Sleeping' + 1
  <2>1. DOMAIN sound = Sounds
    BY DEF AudioInv, ControlInv
  <2>2. Cardinality(Playing(sound)) = Cardinality(Playing([sound EXCEPT ![i] = "writing"])) + 1
    BY <1>1, <2>1, PlayingChanges
  <2>3. Playing(sound)' = Playing([sound EXCEPT ![i] = "writing"])
    BY <1>1 DEF Playing
  <2> QED
    BY <2>2, <2>3 DEF Sleeping
<1>5. Waiting' = Waiting /\ Reported' = Reported /\ (DescriptorOpen' <=> DescriptorOpen)
  BY <1>1 DEF Waiting, Reported, DescriptorOpen
<1> QED
  BY <1>3, <1>4, <1>5 DEF Silent, Counted

LEMMA SoundWrittenIsSilent ==
  ASSUME AudioInv, Counted, Counted', NEW i \in Sounds, SoundWritten(i)
  PROVE  Silent
<1> DEFINE t == <<Newline>>
<1>1. /\ UNCHANGED <<request_stream, request_buffer, app_buffer, posted, service>>
      /\ sound[i] = "writing" /\ sound' = [sound EXCEPT ![i] = "done"]
      /\ app_stream' = app_stream \o t
  BY DEF SoundWritten, requestVars, Writes
<1>2. t \in Seq(AudioChars)
  BY CharsAreApart
<1>3. Count(t, {"completed"}) = 0
  BY WrittenAreTexts, LineCounts
<1> HIDE DEF t
<1>4. Returning' = Returning + Count(t, {"completed"})
  BY <1>1, <1>2, WritingCounts
<1>5. Sleeping' = Sleeping
  <2>1. DOMAIN sound = Sounds /\ sound[i] # "playing" /\ "done" # "playing"
    BY <1>1 DEF AudioInv, ControlInv
  <2>2. Cardinality(Playing([sound EXCEPT ![i] = "done"])) = Cardinality(Playing(sound))
    BY <2>1, PlayingChanges
  <2>3. Playing(sound)' = Playing([sound EXCEPT ![i] = "done"])
    BY <1>1 DEF Playing
  <2> QED
    BY <2>2, <2>3 DEF Sleeping
<1>6. Waiting' = Waiting /\ Reported' = Reported /\ (DescriptorOpen' <=> DescriptorOpen)
  BY <1>1 DEF Waiting, Reported, DescriptorOpen
<1>7. Returning \in Nat
  BY DEF Counted
<1>8. Returning' = Returning
  BY <1>3, <1>4, <1>7
<1> QED
  BY <1>5, <1>6, <1>8 DEF Silent, Counted

LEMMA SoundIsLostIsStep ==
  ASSUME AudioInv, Counted, Counted', NEW i \in Sounds, SoundIsLost(i)
  PROVE  Sound!SoundNext
<1>1. /\ UNCHANGED <<request_stream, request_buffer, app_stream, app_buffer, posted, service>>
      /\ service = "closed"
      /\ sound[i] = "playing" /\ sound' = [sound EXCEPT ![i] = "done"]
  BY DEF SoundIsLost, requestVars, serviceVars, appVars
<1>2. Sleeping = Sleeping' + 1
  <2>1. DOMAIN sound = Sounds
    BY DEF AudioInv, ControlInv
  <2>2. Cardinality(Playing(sound)) = Cardinality(Playing([sound EXCEPT ![i] = "done"])) + 1
    BY <1>1, <2>1, PlayingChanges
  <2>3. Playing(sound)' = Playing([sound EXCEPT ![i] = "done"])
    BY <1>1 DEF Playing
  <2> QED
    BY <2>2, <2>3 DEF Sleeping
<1>3. Waiting' = Waiting /\ Returning' = Returning /\ Reported' = Reported
  BY <1>1 DEF Waiting, Returning, Reported
<1> QED
  BY <1>1, <1>2, <1>3, SoundIsLostIsContract

\* The wrapper posts one line: a command, or the completion of one sound.
LEMMA AppPostsIsStep ==
  ASSUME AudioInv, Counted, Counted', AppPosts, UNCHANGED <<requestVars, soundThreads>>
  PROVE  Silent \/ Reports
<1>1. PICK pending \in Seq(AppTexts) : OnItsWay(pending)
  BY DEF AudioInv, FlowInv, WrittenInv
<1>2. WrittenTypes /\ g_app_write_mutex' = g_app_write_mutex
  BY DEF AudioInv, FlowInv, WrittenInv, soundThreads
<1> DEFINE t == Head(pending)
           line == Line(t)
<1>3. /\ t \in AppTexts /\ app_buffer = line \o app_buffer' /\ posted' = Append(posted, t)
      /\ WrittenTypes'
  BY <1>1, <1>2, LinePosted
<1>4. UNCHANGED <<request_stream, request_buffer, sound, app_stream, service>>
  BY DEF AppPosts, requestVars, soundThreads
<1> HIDE DEF t
<1>5. /\ line \in Seq(AudioChars)
      /\ Count(line, {"completed"}) = IF t = CompletedText THEN 1 ELSE 0
  BY <1>3, WrittenAreTexts, TextLine, LineCounts
<1> HIDE DEF line
<1>6. /\ posted \in Seq(AppTexts) /\ app_buffer' \in Seq(AudioChars)
      /\ app_stream \in Seq(AudioChars)
  BY <1>2, <1>3 DEF WrittenTypes
<1>7. /\ Count(app_buffer, {"completed"}) =
           Count(line, {"completed"}) + Count(app_buffer', {"completed"})
      /\ Count(app_buffer', {"completed"}) \in Nat
      /\ Count(app_stream, {"completed"}) \in Nat
  BY <1>3, <1>5, <1>6, CountJoined
<1>8. Reported' = Reported + IF t = CompletedText THEN 1 ELSE 0
  <2> DEFINE X == AppTexts
             S == {CompletedText}
  <2>1. posted \in Seq(X) /\ t \in X
    BY <1>3, <1>6
  <2> HIDE DEF X, S
  <2>2. Count(Append(posted, t), S) = Count(posted, S) + IF t \in S THEN 1 ELSE 0
    BY <2>1, OfAppended
  <2> QED
    BY <1>3, <2>2 DEF S, Reported
<1>9. Waiting' = Waiting /\ Sleeping' = Sleeping /\ (DescriptorOpen' <=> DescriptorOpen)
  BY <1>4 DEF Waiting, Sleeping, Playing, DescriptorOpen
<1>10. CASE t = CompletedText
  <2>1. Returning = Returning' + 1
    BY <1>4, <1>5, <1>7, <1>10 DEF Returning
  <2> QED
    BY <1>4, <1>8, <1>9, <1>10, <2>1 DEF Reports, Counted
<1>11. CASE t # CompletedText
  <2>1. Returning = Returning'
    BY <1>4, <1>5, <1>7, <1>11 DEF Returning
  <2>2. Reported' = Reported
    <3>1. Reported \in Nat
      BY DEF Counted
    <3> QED
      BY <1>8, <1>11, <3>1
  <2> QED
    BY <1>9, <2>1, <2>2 DEF Silent, Counted
<1> QED
  BY <1>10, <1>11

LEMMA OtherStepsAreSilent ==
  ASSUME \/ StartsUp \/ AudioTestsRunning \/ PollReturns \/ AudioPollTimesOut
         \/ AppEnds \/ RequestsDone \/ AudioAcceptClient \/ ServesClient
         \/ MainForwardKills \/ Exits \/ OtherStep
         \/ \E i \in Sounds : SoundKills(i)
         \/ UNCHANGED audioVars
  PROVE  Silent
<1>1. UNCHANGED <<request_stream, request_buffer, sound, app_stream, app_buffer, posted>>
  BY DEF StartsUp, AcceptApp, AudioTestsRunning, PollReturns, AudioPollTimesOut, AppEnds,
         RequestsDone, AudioAcceptClient, ServesClient, TestsServing, ReadsClient, ClientEnds,
         LinesDone, ClosesClient, MainForwardKills, ForwardKills, Exits, OtherStep, ClientStep,
         ClientConnects, ClientWrites, ClientCloses, HandleSignal, AppConnects, AppExits,
         SoundKills, audioVars, serviceVars, appVars, requestVars, soundThreads
<1>2. DescriptorOpen' => DescriptorOpen
  BY DEF StartsUp, AcceptApp, AudioTestsRunning, PollReturns, AudioPollTimesOut, AppEnds,
         RequestsDone, AudioAcceptClient, ServesClient, TestsServing, ReadsClient, ClientEnds,
         LinesDone, ClosesClient, MainForwardKills, ForwardKills, Exits, OtherStep, ClientStep,
         ClientConnects, ClientWrites, ClientCloses, HandleSignal, AppConnects, AppExits,
         SoundKills, audioVars, serviceVars, Goes, DescriptorOpen
<1> QED
  BY <1>1, <1>2 DEF Silent, Unreported, Reported

\* However its requests, its sounds and the commands of other programs interleave, what
\* AudioService does is a behaviour of SoundContract: a sound is reported only if it was
\* asked for, once, and one is lost only when the service has ended
\* (HandleApplicationRequest and its detached threads, RequestPlayStopCompletedSound).
THEOREM SoundContractKept == AudioSafetySpec => ImplementsSoundContract
<1>1. ASSUME AudioInit
      PROVE  Sound!SoundInit
  <2>1. /\ Count(<<>>, {Newline}) = 0 /\ Count(<<>>, {"completed"}) = 0
        /\ Count(<<>>, {CompletedText}) = 0
    BY OfNone
  <2>2. {i \in Sounds : sound[i] = "playing"} = {}
    BY <1>1 DEF AudioInit
  <2>3. Unreported = 0
    <3>1. /\ Count(request_stream, {Newline}) = 0 /\ Count(request_buffer, {Newline}) = 0
          /\ Count(app_stream, {"completed"}) = 0 /\ Count(app_buffer, {"completed"}) = 0
      BY <1>1, <2>1 DEF AudioInit, Init
    <3>2. Cardinality({i \in Sounds : sound[i] = "playing"}) = 0
      BY <2>2, FS_EmptySet
    <3> QED
      BY <3>1, <3>2 DEF Unreported
  <2>4. Count(posted, {CompletedText}) = 0 /\ DescriptorOpen
    BY <1>1, <2>1 DEF AudioInit, Init, DescriptorOpen
  <2> QED
    BY <2>3, <2>4 DEF Sound!SoundInit
<1>2. ASSUME AudioInv, AudioInv', [AudioNext]_audioVars
      PROVE  [Sound!SoundNext]_(Sound!soundVars)
  <2>1. Counted /\ Counted'
    BY <1>2, CountsOfAudio, CountedAgain
  <2>2. CASE \/ ReadsRequests \/ HandlesRequest \/ MainForwards \/ MainForwarded
             \/ \E i \in Sounds : SoundWrites(i) \/ SoundWritten(i)
    <3>1. Silent
      BY <1>2, <2>1, <2>2, ReadsRequestsIsSilent, HandlesRequestIsSilent, MainForwardsIsSilent,
         SoundWritesIsSilent, SoundWrittenIsSilent
    <3> QED
      BY <3>1, SilentIsContract
  <2>3. CASE AppRequests \/ \E i \in Sounds : SoundIsLost(i)
    BY <1>2, <2>1, <2>3, AppRequestsIsContract, SoundIsLostIsStep
  <2>4. CASE AppListens
    <3>1. (AppReads \/ AppPosts) /\ UNCHANGED <<requestVars, soundThreads>>
      BY <2>4 DEF AppListens, ListenLoop
    <3>2. Silent \/ Reports
      BY <1>2, <2>1, <3>1, AppReadsIsSilent, AppPostsIsStep
    <3> QED
      BY <2>1, <3>2, SilentIsContract, ReportsIsContract
  <2>5. CASE \/ StartsUp \/ AudioTestsRunning \/ PollReturns \/ AudioPollTimesOut
             \/ AppEnds \/ RequestsDone \/ AudioAcceptClient \/ ServesClient
             \/ MainForwardKills \/ Exits \/ OtherStep
             \/ (\E i \in Sounds : SoundKills(i))
             \/ UNCHANGED audioVars
    BY <2>5, OtherStepsAreSilent, SilentIsContract
  <2> QED
    BY <1>2, <2>2, <2>3, <2>4, <2>5 DEF AudioNext, MainStep, SoundStep
<1> QED
  BY <1>1, <1>2, AudioInvariance, PTL DEF AudioSafetySpec, ImplementsSoundContract, Sound!SoundSpec
==============================================================================
