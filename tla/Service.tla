-------------------------------- MODULE Service --------------------------------
(***************************************************************************)
(* A service process, its slld clients and its wrapper in the application. *)
(* HmiService, PowerService and RegionService are this program, each with  *)
(* sockets of its own.  A command travels as a line over two byte streams: *)
(* slld to service, and service to application; on both the reader gets    *)
(* the bytes in pieces of any size.                                        *)
(*                                                                         *)
(* Each client sends one line.  Its text is two characters that are the    *)
(* client itself, so that a line put together wrongly is noticed.          *)
(***************************************************************************)
EXTENDS Naturals, Sequences, SequencesExt

CONSTANTS Clients   \* the slld commands that are run

VARIABLES
  service,      \* where the service is; "ended", or "killed" by SIGPIPE
  g_running,
  app,          \* the application's end: "out", "waiting" for accept, "up" or "gone"
  client,       \* per slld: "out", "connected", "written" or "closed"
  cmd_backlog,  \* clients connected to the command socket and not yet accepted
  cmd_client,   \* the client whose connection is served, or NoClient
  cmd_stream,   \* per client: bytes written and not yet read
  buffer,       \* bytes read from the served client, no complete line forwarded
  app_stream,   \* bytes written to the application and not yet read
  app_buffer,   \* ListenLoop's buffer
  accepted,     \* history: the clients accepted, in order
  posted        \* history: the lines ListenLoop posted, in order

cmdVars == <<client, cmd_backlog, cmd_client, cmd_stream, buffer, accepted>>
appVars == <<app, app_stream, app_buffer, posted>>
serviceVars == <<service, g_running, cmdVars, appVars>>

NoClient == "none"
Newline == "newline"

\* The characters of a command are none of those that the model has names for.
ASSUME ClientsAssumption == {NoClient, Newline} \intersect Clients = {}

TextOf(c) == <<c, c>>
Line(text) == Append(text, Newline)

Init ==
  /\ service = "acceptApp"
  /\ g_running = TRUE
  /\ app = "out"
  /\ client = [c \in Clients |-> "out"]
  /\ cmd_backlog = <<>>
  /\ cmd_client = NoClient
  /\ cmd_stream = [c \in Clients |-> <<>>]
  /\ buffer = <<>>
  /\ app_stream = <<>>
  /\ app_buffer = <<>>
  /\ accepted = <<>>
  /\ posted = <<>>

-------------------------------------------------------------------------------
\* What both readers do with their buffer: split it at the first newline.
HasLine(b) == Contains(b, Newline)

FirstNewline(b) == CHOOSE i \in DOMAIN b : b[i] = Newline /\ \A j \in 1 .. i - 1 : b[j] # Newline

\* Fault: substr is taken up to and including the newline.
FirstLineFault(b) == SubSeq(b, 1, FirstNewline(b))

FirstLine(b) == SubSeq(b, 1, FirstNewline(b) - 1)

\* Fault: the buffer is cleared when a line is taken out of it.
AfterLineFault(b) == <<>>

AfterLine(b) == SubSeq(b, FirstNewline(b) + 1, Len(b))

-------------------------------------------------------------------------------
\* slld: SendMessage connects, writes the whole line and closes.
ClientConnects(c) ==
  /\ client[c] = "out"
  /\ service \notin {"ended", "killed"}
  /\ client' = [client EXCEPT ![c] = "connected"]
  /\ cmd_backlog' = Append(cmd_backlog, c)
  /\ UNCHANGED <<service, g_running, cmd_client, cmd_stream, buffer, accepted, appVars>>

ClientWrites(c) ==
  /\ client[c] = "connected"
  /\ client' = [client EXCEPT ![c] = "written"]
  /\ cmd_stream' = [cmd_stream EXCEPT ![c] = Line(TextOf(c))]
  /\ UNCHANGED <<service, g_running, cmd_backlog, cmd_client, buffer, accepted, appVars>>

ClientCloses(c) ==
  /\ client[c] = "written"
  /\ client' = [client EXCEPT ![c] = "closed"]
  /\ UNCHANGED <<service, g_running, cmd_backlog, cmd_client, cmd_stream, buffer,
                 accepted, appVars>>

\* SIGTERM or SIGINT.  std::signal restarts accept and read; only poll returns.
HandleSignal ==
  /\ g_running
  /\ g_running' = FALSE
  /\ UNCHANGED <<service, cmdVars, appVars>>

-------------------------------------------------------------------------------
\* main: one application is accepted, before anything else, and no second one.
AcceptApp ==
  /\ service = "acceptApp"
  /\ app \in {"waiting", "gone"}
  /\ service' = "loop"
  /\ app' = IF app = "waiting" THEN "up" ELSE "gone"
  /\ UNCHANGED <<g_running, cmdVars, app_stream, app_buffer, posted>>

\* Fault: the loop is left only when something fails.
TestsRunningFault ==
  /\ service = "loop"
  /\ service' = "poll"
  /\ UNCHANGED <<g_running, cmdVars, appVars>>

TestsRunning ==
  /\ service = "loop"
  /\ service' = IF g_running THEN "poll" ELSE "ended"
  /\ UNCHANGED <<g_running, cmdVars, appVars>>

\* poll runs into its 500 ms, or is interrupted.
PollTimesOut ==
  /\ service = "poll"
  /\ cmd_backlog = <<>> \/ ~g_running
  /\ service' = "loop"
  /\ UNCHANGED <<g_running, cmdVars, appVars>>

\* Fault: the newest of the clients that wait is accepted.
AcceptClientFault ==
  /\ service = "poll"
  /\ cmd_backlog # <<>>
  /\ cmd_client' = cmd_backlog[Len(cmd_backlog)]
  /\ cmd_backlog' = SubSeq(cmd_backlog, 1, Len(cmd_backlog) - 1)
  /\ accepted' = Append(accepted, cmd_client')
  /\ buffer' = <<>>
  /\ service' = "serve"
  /\ UNCHANGED <<g_running, client, cmd_stream, appVars>>

AcceptClient ==
  /\ service = "poll"
  /\ cmd_backlog # <<>>
  /\ cmd_client' = Head(cmd_backlog)
  /\ cmd_backlog' = Tail(cmd_backlog)
  /\ accepted' = Append(accepted, Head(cmd_backlog))
  /\ buffer' = <<>>
  /\ service' = "serve"
  /\ UNCHANGED <<g_running, client, cmd_stream, appVars>>

TestsServing ==
  /\ service = "serve"
  /\ service' = IF g_running THEN "read" ELSE "close"
  /\ UNCHANGED <<g_running, cmdVars, appVars>>

ReadsClient ==
  /\ service = "read"
  /\ LET bytes == cmd_stream[cmd_client]
     IN  \E n \in 1 .. Len(bytes) :
           /\ buffer' = buffer \o SubSeq(bytes, 1, n)
           /\ cmd_stream' = [cmd_stream EXCEPT ![cmd_client] = SubSeq(@, n + 1, Len(@))]
  /\ service' = "lines"
  /\ UNCHANGED <<g_running, client, cmd_backlog, cmd_client, accepted, appVars>>

\* Fault: only a negative result of read ends the connection.
ClientEndsFault ==
  /\ service = "read"
  /\ client[cmd_client] = "closed"
  /\ cmd_stream[cmd_client] = <<>>
  /\ service' = "lines"
  /\ UNCHANGED <<g_running, cmdVars, appVars>>

ClientEnds ==
  /\ service = "read"
  /\ client[cmd_client] = "closed"
  /\ cmd_stream[cmd_client] = <<>>
  /\ service' = "close"
  /\ UNCHANGED <<g_running, cmdVars, appVars>>

\* Every complete line in the buffer is forwarded before the next read.
ForwardLine ==
  /\ service = "lines"
  /\ HasLine(buffer)
  /\ app = "up"
  /\ app_stream' = app_stream \o
       (IF FirstLine(buffer) = <<>> THEN <<>> ELSE Line(FirstLine(buffer)))
  /\ buffer' = AfterLine(buffer)
  /\ UNCHANGED <<service, g_running, client, cmd_backlog, cmd_client, cmd_stream, accepted,
                 app, app_buffer, posted>>

\* The write to an application that is gone raises SIGPIPE, which is not handled.
ForwardKills ==
  /\ service = "lines"
  /\ HasLine(buffer)
  /\ app = "gone"
  /\ service' = "killed"
  /\ UNCHANGED <<g_running, cmdVars, appVars>>

LinesDone ==
  /\ service = "lines"
  /\ ~HasLine(buffer)
  /\ service' = "serve"
  /\ UNCHANGED <<g_running, cmdVars, appVars>>

ClosesClient ==
  /\ service = "close"
  /\ cmd_client' = NoClient
  /\ service' = "loop"
  /\ UNCHANGED <<g_running, client, cmd_backlog, cmd_stream, buffer, accepted, appVars>>

-------------------------------------------------------------------------------
\* The wrapper in the application: Connect, ListenLoop, and the process's end.
AppConnects ==
  /\ app = "out"
  /\ service \notin {"ended", "killed"}
  /\ app' = "waiting"
  /\ UNCHANGED <<service, g_running, cmdVars, app_stream, app_buffer, posted>>

AppReads ==
  /\ app = "up"
  /\ ~HasLine(app_buffer)
  /\ \E n \in 1 .. Len(app_stream) :
       /\ app_buffer' = app_buffer \o SubSeq(app_stream, 1, n)
       /\ app_stream' = SubSeq(app_stream, n + 1, Len(app_stream))
  /\ UNCHANGED <<service, g_running, cmdVars, app, posted>>

AppPosts ==
  /\ app = "up"
  /\ HasLine(app_buffer)
  /\ posted' = IF FirstLine(app_buffer) = <<>> THEN posted
               ELSE Append(posted, FirstLine(app_buffer))
  /\ app_buffer' = AfterLine(app_buffer)
  /\ UNCHANGED <<service, g_running, cmdVars, app, app_stream>>

AppExits ==
  /\ app \in {"waiting", "up"}
  /\ app' = "gone"
  /\ UNCHANGED <<service, g_running, cmdVars, app_stream, app_buffer, posted>>

-------------------------------------------------------------------------------
ClientStep(c) == ClientConnects(c) \/ ClientWrites(c) \/ ClientCloses(c)

ServiceStep ==
  \/ AcceptApp \/ TestsRunning \/ PollTimesOut \/ AcceptClient
  \/ TestsServing \/ ReadsClient \/ ClientEnds
  \/ ForwardLine \/ ForwardKills \/ LinesDone \/ ClosesClient

ListenLoop == AppReads \/ AppPosts

Next ==
  \/ \E c \in Clients : ClientStep(c)
  \/ HandleSignal \/ ServiceStep
  \/ AppConnects \/ ListenLoop \/ AppExits

\* Started programs run on: slld writes and closes without waiting for anyone.
Fairness ==
  /\ \A c \in Clients : WF_serviceVars(ClientWrites(c) \/ ClientCloses(c))
  /\ WF_serviceVars(ServiceStep)
  /\ WF_serviceVars(ListenLoop)

ServiceSafetySpec == Init /\ [][Next]_serviceVars

Spec == ServiceSafetySpec /\ Fairness

-------------------------------------------------------------------------------
ServiceTypeOK ==
  /\ service \in {"acceptApp", "loop", "poll", "serve", "read", "lines", "close",
                  "ended", "killed"}
  /\ g_running \in BOOLEAN
  /\ app \in {"out", "waiting", "up", "gone"}
  /\ client \in [Clients -> {"out", "connected", "written", "closed"}]
  /\ cmd_backlog \in Seq(Clients)
  /\ cmd_client \in Clients \union {NoClient}
  /\ cmd_stream \in [Clients -> Seq(Clients \union {Newline})]
  /\ {buffer, app_stream, app_buffer} \subseteq Seq(Clients \union {Newline})
  /\ accepted \in Seq(Clients)
  /\ posted \in Seq(Seq(Clients))

Commands == [i \in DOMAIN accepted |-> TextOf(accepted[i])]

\* However the two streams are cut into reads, the application gets whole
\* commands only, each once, in the order in which the service accepted their
\* clients, and none is skipped.
CommandsInOrder == IsPrefix(posted, Commands)

Channel == INSTANCE CommandChannel WITH
  Commands <- {TextOf(c) : c \in Clients},
  sent <- [i \in DOMAIN (accepted \o cmd_backlog) |-> TextOf((accepted \o cmd_backlog)[i])],
  delivered <- posted

\* The two streams, their buffers and the queue of clients that wait keep what
\* CommandChannel promises: commands come out in the order in which the clients
\* connected, one at a time, and what was delivered is never taken back.
ImplementsChannel == Channel!ChannelSpec

\* A command reaches the application, also one that was sent before the
\* application connected, unless the service is told to stop or the application
\* goes away: no client starves behind another.
CommandArrives == \A c \in Clients :
  client[c] # "out" /\ app \in {"waiting", "up"} ~>
    Contains(posted, TextOf(c)) \/ ~g_running \/ app = "gone"

\* A service that has its application ends when told to, if it was not already
\* killed: a client that it is reading from delays it, but not for ever.
SignalEndsService ==
  ~g_running /\ app # "out" ~> service \in {"ended", "killed"}
===============================================================================
