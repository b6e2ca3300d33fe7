------------------------------ MODULE AudioService ------------------------------
(***************************************************************************)
(* The AudioService process.  Like the other services it forwards the      *)
(* commands of its slld clients, with the same code, so that the actions   *)
(* of module Service are those of this one; unlike them it also reads the  *)
(* application's requests, and writes to the application from more than    *)
(* one thread: every request starts a detached thread that sleeps while    *)
(* the sound plays and then writes the completion.                         *)
(*                                                                         *)
(* A write is two steps, since only g_app_write_mutex keeps the bytes of   *)
(* two writers apart.  Requests and completions are lines of two           *)
(* characters, like the commands.                                          *)
(***************************************************************************)
EXTENDS Service, Selections

CONSTANTS MaxRequests   \* bounds the model: sounds the application asks for

\* The characters of a command are none of those of the other lines.
ASSUME AudioAssumption ==
  /\ MaxRequests \in Nat
  /\ {"play", "sound", "completed"} \intersect Clients = {}

VARIABLES
  request_stream,     \* bytes written by the application and not yet read
  request_buffer,     \* main's app_buffer
  revents,            \* which of the two descriptors poll found ready
  g_app_write_mutex,  \* who writes to the application: Free, Main or a sound
  sound,              \* per request, its thread: "none", "playing", "writing" or "done"
  requested           \* the requests that the application wrote

soundThreads == <<g_app_write_mutex, sound>>
requestVars == <<request_stream, request_buffer, revents, requested>>
audioVars == <<serviceVars, requestVars, soundThreads>>

Sounds == 1 .. MaxRequests
Free == 0
Main == MaxRequests + 1

RequestText == <<"play", "sound">>
CompletedText == <<"play", "completed">>

AudioInit ==
  /\ Init
  /\ request_stream = <<>>
  /\ request_buffer = <<>>
  /\ revents = {}
  /\ g_app_write_mutex = Free
  /\ sound = [i \in Sounds |-> "none"]
  /\ requested = 0

Goes(from, to) == service = from /\ service' = to

\* The threads of the process run, and its end of the connection is open.
ProcessRuns == service \notin {"ended", "killed"}
DescriptorOpen == service \notin {"closed", "ended", "killed"}

-------------------------------------------------------------------------------
\* main: what it does as the other services do.
StartsUp == AcceptApp /\ UNCHANGED <<requestVars, soundThreads>>

\* The loop is left with the descriptor closed and the sounds still playing.
AudioTestsRunning ==
  /\ Goes("loop", IF g_running THEN "poll" ELSE "closed")
  /\ UNCHANGED <<g_running, cmdVars, appVars, requestVars, soundThreads>>

\* A connection that has ended is ready for reading as well.
Ready ==
  {fd \in {"cmd", "app"} :
     \/ fd = "cmd" /\ cmd_backlog # <<>>
     \/ fd = "app" /\ (request_stream # <<>> \/ app = "gone")}

\* Fault: the result of an earlier poll is taken together with this one.
PollReturnsFault ==
  /\ Ready # {}
  /\ revents' = revents \union Ready
  /\ Goes("poll", IF "app" \in revents' THEN "readApp" ELSE "accept")
  /\ UNCHANGED <<g_running, cmdVars, appVars, request_stream, request_buffer, requested,
                 soundThreads>>

PollReturns ==
  /\ Ready # {}
  /\ revents' = Ready
  /\ Goes("poll", IF "app" \in Ready THEN "readApp" ELSE "accept")
  /\ UNCHANGED <<g_running, cmdVars, appVars, request_stream, request_buffer, requested,
                 soundThreads>>

AudioPollTimesOut ==
  /\ Ready = {} \/ ~g_running
  /\ Goes("poll", "loop")
  /\ UNCHANGED <<g_running, cmdVars, appVars, requestVars, soundThreads>>

-------------------------------------------------------------------------------
\* main: the requests of the application.
ReadsRequests ==
  /\ Goes("readApp", "requests")
  /\ \E n \in 1 .. Len(request_stream) :
       /\ request_buffer' = request_buffer \o SubSeq(request_stream, 1, n)
       /\ request_stream' = SubSeq(request_stream, n + 1, Len(request_stream))
  /\ UNCHANGED <<g_running, cmdVars, appVars, revents, requested, soundThreads>>

\* Fault: only a negative result of read ends the loop.
AppEndsFault ==
  /\ Goes("readApp", "requests")
  /\ request_stream = <<>> /\ app = "gone"
  /\ UNCHANGED <<g_running, cmdVars, appVars, requestVars, soundThreads>>

\* The application's end is the end of this service.
AppEnds ==
  /\ Goes("readApp", "closed")
  /\ request_stream = <<>> /\ app = "gone"
  /\ g_running' = FALSE
  /\ UNCHANGED <<cmdVars, appVars, requestVars, soundThreads>>

NewSound == CHOOSE i \in Sounds : sound[i] = "none" /\ \A j \in 1 .. i - 1 : sound[j] # "none"

\* Fault: one request is looked for in what was read, and the rest is dropped.
HandlesRequestFault ==
  /\ service = "requests"
  /\ HasLine(request_buffer)
  /\ request_buffer' = <<>>
  /\ sound' = IF FirstLine(request_buffer) = RequestText
              THEN [sound EXCEPT ![NewSound] = "playing"] ELSE sound
  /\ UNCHANGED <<service, g_running, cmdVars, appVars, request_stream, revents, requested,
                 g_app_write_mutex>>

\* ProcessLines and HandleApplicationRequest: an unknown line is ignored.
HandlesRequest ==
  /\ service = "requests"
  /\ HasLine(request_buffer)
  /\ request_buffer' = AfterLine(request_buffer)
  /\ sound' = IF FirstLine(request_buffer) = RequestText
              THEN [sound EXCEPT ![NewSound] = "playing"] ELSE sound
  /\ UNCHANGED <<service, g_running, cmdVars, appVars, request_stream, revents, requested,
                 g_app_write_mutex>>

\* An slld client is accepted only if the same poll found it.
RequestsDone ==
  /\ ~HasLine(request_buffer)
  /\ Goes("requests", IF "cmd" \in revents THEN "accept" ELSE "loop")
  /\ UNCHANGED <<g_running, cmdVars, appVars, requestVars, soundThreads>>

-------------------------------------------------------------------------------
\* main: an slld client.
AudioAcceptClient ==
  /\ cmd_backlog # <<>>
  /\ Goes("accept", "serve")
  /\ cmd_client' = Head(cmd_backlog)
  /\ cmd_backlog' = Tail(cmd_backlog)
  /\ accepted' = Append(accepted, Head(cmd_backlog))
  /\ buffer' = <<>>
  /\ UNCHANGED <<g_running, client, cmd_stream, appVars, requestVars, soundThreads>>

ServesClient ==
  /\ TestsServing \/ ReadsClient \/ ClientEnds \/ LinesDone \/ ClosesClient
  /\ UNCHANGED <<requestVars, soundThreads>>

\* ForwardLine, by whoever takes the mutex.  The bytes go out one after the other.
Writes(text) == app_stream' = app_stream \o text

MainForwards ==
  /\ HasLine(buffer)
  /\ app = "up"
  /\ g_app_write_mutex = Free
  /\ g_app_write_mutex' = Main
  /\ Writes(FirstLine(buffer))
  /\ buffer' = AfterLine(buffer)
  /\ Goes("lines", "forwarding")
  /\ UNCHANGED <<g_running, client, cmd_backlog, cmd_client, cmd_stream, accepted,
                 app, app_buffer, posted, requestVars, sound>>

MainForwarded ==
  /\ Goes("forwarding", "lines")
  /\ Writes(<<Newline>>)
  /\ g_app_write_mutex' = Free
  /\ UNCHANGED <<g_running, cmdVars, app, app_buffer, posted, requestVars, sound>>

MainForwardKills ==
  /\ ForwardKills
  /\ g_app_write_mutex = Free
  /\ UNCHANGED <<requestVars, soundThreads>>

Exits ==
  /\ Goes("closed", "ended")
  /\ UNCHANGED <<g_running, cmdVars, appVars, requestVars, soundThreads>>

-------------------------------------------------------------------------------
\* The detached thread of a sound, once it has slept.
\* Fault: the write is not under the mutex.
SoundWritesFault(i) ==
  /\ DescriptorOpen
  /\ sound[i] = "playing"
  /\ app = "up"
  /\ g_app_write_mutex' = i
  /\ sound' = [sound EXCEPT ![i] = "writing"]
  /\ Writes(CompletedText)
  /\ UNCHANGED <<service, g_running, cmdVars, app, app_buffer, posted, requestVars>>

SoundWrites(i) ==
  /\ DescriptorOpen
  /\ sound[i] = "playing"
  /\ app = "up"
  /\ g_app_write_mutex = Free
  /\ g_app_write_mutex' = i
  /\ sound' = [sound EXCEPT ![i] = "writing"]
  /\ Writes(CompletedText)
  /\ UNCHANGED <<service, g_running, cmdVars, app, app_buffer, posted, requestVars>>

\* The write was begun on an open descriptor, so that closing it does no harm.
SoundWritten(i) ==
  /\ ProcessRuns
  /\ sound[i] = "writing"
  /\ Writes(<<Newline>>)
  /\ g_app_write_mutex' = Free
  /\ sound' = [sound EXCEPT ![i] = "done"]
  /\ UNCHANGED <<service, g_running, cmdVars, app, app_buffer, posted, requestVars>>

\* SIGPIPE, as for the main thread, if the application has gone.
SoundKills(i) ==
  /\ DescriptorOpen
  /\ sound[i] = "playing"
  /\ app = "gone"
  /\ g_app_write_mutex = Free
  /\ service' = "killed"
  /\ UNCHANGED <<g_running, cmdVars, appVars, requestVars, soundThreads>>

\* The descriptor is closed: write fails, and the sound goes unreported.
SoundIsLost(i) ==
  /\ service = "closed"
  /\ sound[i] = "playing"
  /\ g_app_write_mutex = Free
  /\ sound' = [sound EXCEPT ![i] = "done"]
  /\ UNCHANGED <<serviceVars, requestVars, g_app_write_mutex>>

-------------------------------------------------------------------------------
\* The application: RequestPlayStopCompletedSound, and what it does with any service.
AppRequests ==
  /\ app \in {"waiting", "up"}
  /\ DescriptorOpen
  /\ requested < MaxRequests
  /\ requested' = requested + 1
  /\ request_stream' = request_stream \o Line(RequestText)
  /\ UNCHANGED <<serviceVars, request_buffer, revents, soundThreads>>

OtherStep ==
  /\ \/ \E c \in Clients : ClientStep(c)
     \/ HandleSignal \/ AppConnects \/ AppExits
  /\ UNCHANGED <<requestVars, soundThreads>>

SlldRuns(c) ==
  /\ ClientWrites(c) \/ ClientCloses(c)
  /\ UNCHANGED <<requestVars, soundThreads>>

AppListens == ListenLoop /\ UNCHANGED <<requestVars, soundThreads>>

MainStep ==
  \/ StartsUp \/ AudioTestsRunning \/ PollReturns \/ AudioPollTimesOut
  \/ ReadsRequests \/ AppEnds \/ HandlesRequest \/ RequestsDone
  \/ AudioAcceptClient \/ ServesClient \/ MainForwards \/ MainForwarded
  \/ MainForwardKills \/ Exits

SoundStep(i) == SoundWrites(i) \/ SoundWritten(i) \/ SoundKills(i) \/ SoundIsLost(i)

AudioNext ==
  \/ MainStep \/ OtherStep \/ AppListens \/ AppRequests
  \/ \E i \in Sounds : SoundStep(i)

\* The threads of the process and of the application run, and sounds end.
AudioFairness ==
  /\ \A c \in Clients : WF_audioVars(SlldRuns(c))
  /\ WF_audioVars(MainStep)
  /\ WF_audioVars(AppListens)
  /\ \A i \in Sounds : WF_audioVars(SoundStep(i))

AudioSafetySpec == AudioInit /\ [][AudioNext]_audioVars

AudioSpec == AudioSafetySpec /\ AudioFairness

-------------------------------------------------------------------------------
CommandTexts == {TextOf(c) : c \in Clients}

AudioChars == Clients \union {"play", "sound", "completed", Newline}

AudioTypeOK ==
  /\ service \in {"acceptApp", "loop", "poll", "readApp", "requests", "accept", "serve",
                  "read", "lines", "forwarding", "close", "closed", "ended", "killed"}
  /\ {request_stream, request_buffer, app_stream, app_buffer} \subseteq Seq(AudioChars)
  /\ revents \subseteq {"cmd", "app"}
  /\ g_app_write_mutex \in {Free, Main} \union Sounds
  /\ sound \in [Sounds -> {"none", "playing", "writing", "done"}]
  /\ requested \in 0 .. MaxRequests
  /\ \A i \in Sounds : sound[i] = "writing" <=> g_app_write_mutex = i
  /\ service = "forwarding" <=> g_app_write_mutex = Main

\* One poll serves two descriptors, and the second is used after the requests
\* found on the first were handled: neither read nor accept ever blocks there.
PollStaysTrue ==
  /\ service = "accept" => cmd_backlog # <<>>
  /\ service = "readApp" => request_stream # <<>> \/ app = "gone"

\* Two writers never mix their bytes: what the application reads is whole lines,
\* the commands in the order in which their clients were accepted, with
\* completions between them.
LinesAreWhole ==
  /\ \A i \in DOMAIN posted : posted[i] \in CommandTexts \union {CompletedText}
  /\ Follows(posted, CommandTexts, Commands)

\* Where a request may be: on its way to AudioService, playing, or on its way back.
\* Its completion counts until the wrapper has taken the line.
Unreported ==
  Count(request_stream, {Newline}) + Count(request_buffer, {Newline})
    + Cardinality({i \in Sounds : sound[i] = "playing"})
    + Count(app_stream, {"completed"}) + Count(app_buffer, {"completed"})

Sound == INSTANCE SoundContract WITH
  audio <- IF DescriptorOpen THEN "up" ELSE "gone",
  sounds <- Unreported,
  reported <- Count(posted, {CompletedText})

\* AudioService keeps what SoundContract promises: no sound is reported that was
\* not asked for, none twice, and none is lost while the service is up.
ImplementsSoundContract == Sound!SoundSpec

\* A sound that was asked for is reported, however many clients are served
\* meanwhile, unless the service is told to stop or the application goes away.
SoundIsReported == \A i \in Sounds :
  requested >= i ~>
    Count(posted, {CompletedText}) >= i \/ ~g_running \/ app = "gone"

\* Unlike the other services this one does not outlive its application: it ends,
\* or is killed, once it has gone, whatever it was doing.
EndsWithApplication ==
  app = "gone" \/ (app # "out" /\ ~g_running) ~> service \in {"ended", "killed"}
===============================================================================
