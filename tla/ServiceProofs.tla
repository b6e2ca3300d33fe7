---------------------------- MODULE ServiceProofs ----------------------------
(***************************************************************************)
(* The order of the commands through a service, for any number of slld     *)
(* clients, however the two streams are cut into reads and whenever the    *)
(* service, the application or a client stops.                             *)
(***************************************************************************)
EXTENDS Service, SequenceTheorems, TLAPS

Bytes == Clients \union {Newline}

\* bytes are the lines of the n clients that come after the first ones of clients.
LinesOf(bytes, clients, first, n) ==
  /\ Len(bytes) = 3 * n
  /\ \A j \in 1 .. n : /\ bytes[3 * j - 2] = clients[first + j]
                       /\ bytes[3 * j - 1] = clients[first + j]
                       /\ bytes[3 * j] = Newline

-------------------------------------------------------------------------------
LEMMA LineIsThree ==
  ASSUME NEW c \in Clients
  PROVE  /\ TextOf(c) \in Seq(Clients) /\ TextOf(c) # <<>>
         /\ Line(TextOf(c)) \in Seq(Bytes) /\ Len(Line(TextOf(c))) = 3
         /\ Line(TextOf(c))[1] = c /\ Line(TextOf(c))[2] = c
         /\ Line(TextOf(c))[3] = Newline
         /\ c # Newline
<1>1. TextOf(c) \in Seq(Bytes) /\ TextOf(c) \in Seq(Clients) /\ Len(TextOf(c)) = 2
      /\ TextOf(c)[1] = c /\ TextOf(c)[2] = c
  BY DEF TextOf, Bytes
<1>2. Newline \in Bytes /\ c # Newline
  BY ClientsAssumption DEF Bytes
<1>3. TextOf(c) # <<>>
  BY DEF TextOf
<1> DEFINE text == TextOf(c)
<1> HIDE DEF text
<1>4. /\ Append(text, Newline) \in Seq(Bytes)
      /\ Len(Append(text, Newline)) = Len(text) + 1
      /\ \A i \in 1 .. Len(text) : Append(text, Newline)[i] = text[i]
      /\ Append(text, Newline)[Len(text) + 1] = Newline
  <2> HIDE DEF Newline
  <2>1. text \in Seq(Bytes)
    BY <1>1 DEF text
  <2> QED
    BY <1>2, <2>1, AppendProperties
<1> QED
  BY <1>1, <1>2, <1>3, <1>4 DEF Line, text

\* The reader finds the end of the first line where the writer put it.
LEMMA FirstIsThird ==
  ASSUME NEW b \in Seq(Bytes), NEW c \in Clients, Len(b) >= 3,
         b[1] = c, b[2] = c, b[3] = Newline
  PROVE  /\ FirstNewline(b) = 3 /\ FirstLine(b) = TextOf(c)
         /\ AfterLine(b) \in Seq(Bytes) /\ Len(AfterLine(b)) = Len(b) - 3
         /\ \A i \in 1 .. Len(b) - 3 : AfterLine(b)[i] = b[i + 3]
<1>0. Len(b) \in Nat /\ DOMAIN b = 1 .. Len(b) /\ c # Newline
      /\ \A i \in 1 .. Len(b) : b[i] \in Bytes
  BY LenProperties, LineIsThree, ElementOfSeq
<1>1. FirstNewline(b) = 3
  <2>1. ASSUME NEW i \in DOMAIN b, b[i] = Newline, \A j \in 1 .. i - 1 : b[j] # Newline
        PROVE  i = 3
    <3>1. i \in Nat /\ i # 1 /\ i # 2
      BY <1>0, <2>1
    <3>2. ~ (i > 3)
      BY <1>0, <2>1, <3>1
    <3> QED
      BY <1>0, <3>1, <3>2
  <2>2. 3 \in DOMAIN b /\ \A j \in 1 .. 3 - 1 : b[j] # Newline
    BY <1>0
  <2> QED
    BY <2>1, <2>2 DEF FirstNewline
<1>2. FirstLine(b) = TextOf(c)
  <2>1. FirstLine(b) = SubSeq(b, 1, 2)
    BY <1>1 DEF FirstLine
  <2>2. /\ SubSeq(b, 1, 2) \in Seq(Bytes) /\ Len(SubSeq(b, 1, 2)) = 2
        /\ SubSeq(b, 1, 2)[1] = c /\ SubSeq(b, 1, 2)[2] = c
    BY <1>0, SubSeqProperties
  <2>3. TextOf(c) \in Seq(Bytes) /\ Len(TextOf(c)) = 2 /\ TextOf(c)[1] = c /\ TextOf(c)[2] = c
    BY DEF TextOf, Bytes
  <2>4. \A i \in 1 .. 2 : SubSeq(b, 1, 2)[i] = TextOf(c)[i]
    BY <2>2, <2>3
  <2> QED
    BY <2>1, <2>2, <2>3, <2>4, SeqEqual
<1>3. AfterLine(b) = SubSeq(b, 4, Len(b))
  BY <1>1 DEF AfterLine
<1>4. /\ SubSeq(b, 4, Len(b)) \in Seq(Bytes)
      /\ Len(SubSeq(b, 4, Len(b))) = Len(b) - 3
      /\ \A i \in 1 .. Len(b) - 3 : SubSeq(b, 4, Len(b))[i] = b[i + 3]
  <2>1. \A i \in 4 .. Len(b) : b[i] \in Bytes
    BY <1>0
  <2>2. /\ SubSeq(b, 4, Len(b)) \in Seq(Bytes)
        /\ Len(SubSeq(b, 4, Len(b))) = IF 4 <= Len(b) THEN Len(b) - 4 + 1 ELSE 0
        /\ \A i \in 1 .. Len(b) - 4 + 1 : SubSeq(b, 4, Len(b))[i] = b[4 + i - 1]
    BY <1>0, <2>1, SubSeqProperties
  <2> QED
    BY <1>0, <2>2
<1> QED
  BY <1>1, <1>2, <1>3, <1>4

LEMMA Joined ==
  ASSUME NEW s \in Seq(Bytes), NEW t \in Seq(Bytes)
  PROVE  /\ s \o t \in Seq(Bytes) /\ Len(s) \in Nat /\ Len(t) \in Nat
         /\ Len(s \o t) = Len(s) + Len(t)
         /\ \A i \in 1 .. Len(s) : (s \o t)[i] = s[i]
         /\ \A i \in 1 .. Len(t) : (s \o t)[Len(s) + i] = t[i]
<1>1. /\ s \o t \in Seq(Bytes) /\ Len(s \o t) = Len(s) + Len(t)
      /\ \A i \in 1 .. Len(s) + Len(t) :
           (s \o t)[i] = IF i <= Len(s) THEN s[i] ELSE t[i - Len(s)]
  BY ConcatProperties
<1>2. Len(s) \in Nat /\ Len(t) \in Nat
  BY LenProperties
<1> QED
  BY <1>1, <1>2

LEMMA JoinedTwice ==
  ASSUME NEW s \in Seq(Bytes), NEW t \in Seq(Bytes), NEW u \in Seq(Bytes)
  PROVE  (s \o t) \o u = s \o (t \o u)
BY ConcatAssociative

\* Reading moves bytes from a stream to a buffer, and changes nothing else.
LEMMA ReadingMoves ==
  ASSUME NEW b \in Seq(Bytes), NEW s \in Seq(Bytes), NEW n \in 1 .. Len(s)
  PROVE  /\ b \o SubSeq(s, 1, n) \in Seq(Bytes) /\ SubSeq(s, n + 1, Len(s)) \in Seq(Bytes)
         /\ (b \o SubSeq(s, 1, n)) \o SubSeq(s, n + 1, Len(s)) = b \o s
<1> DEFINE taken == SubSeq(s, 1, n)
           rest == SubSeq(s, n + 1, Len(s))
<1>1. Len(s) \in Nat /\ \A i \in 1 .. Len(s) : s[i] \in Bytes
  BY LenProperties, ElementOfSeq
<1>2. taken \in Seq(Bytes) /\ rest \in Seq(Bytes)
  BY <1>1, SubSeqProperties
<1>3. taken \o rest = s
  BY <1>1, ConcatAdjacentSubSeq, SubSeqFull
<1> HIDE DEF taken, rest
<1>4. (b \o taken) \o rest = b \o (taken \o rest)
  BY <1>2, JoinedTwice
<1>5. b \o taken \in Seq(Bytes)
  BY <1>2, Joined
<1> QED
  BY <1>2, <1>3, <1>4, <1>5 DEF taken, rest

\* Forwarding the next line makes the lines on their way one more.
LEMMA LinesGrow ==
  ASSUME NEW bytes \in Seq(Bytes), NEW clients \in Seq(Clients),
         NEW first \in Nat, NEW n \in Nat, LinesOf(bytes, clients, first, n),
         NEW c \in Clients, clients[first + n + 1] = c
  PROVE  /\ bytes \o Line(TextOf(c)) \in Seq(Bytes)
         /\ LinesOf(bytes \o Line(TextOf(c)), clients, first, n + 1)
<1> DEFINE line == Line(TextOf(c))
           more == bytes \o line
<1>1. line \in Seq(Bytes) /\ Len(line) = 3 /\ line[1] = c /\ line[2] = c /\ line[3] = Newline
  BY LineIsThree
<1> HIDE DEF line
<1>2. Len(bytes) = 3 * n /\ Len(bytes) \in Nat
  BY DEF LinesOf
<1>3. /\ more \in Seq(Bytes) /\ Len(more) = Len(bytes) + Len(line)
      /\ \A i \in 1 .. Len(bytes) : more[i] = bytes[i]
      /\ \A i \in 1 .. Len(line) : more[Len(bytes) + i] = line[i]
  BY <1>1, Joined
<1> HIDE DEF more
<1>4. ASSUME NEW j \in 1 .. n + 1
      PROVE  /\ more[3 * j - 2] = clients[first + j]
             /\ more[3 * j - 1] = clients[first + j]
             /\ more[3 * j] = Newline
  <2>1. CASE j <= n
    <3>1. /\ bytes[3 * j - 2] = clients[first + j]
          /\ bytes[3 * j - 1] = clients[first + j]
          /\ bytes[3 * j] = Newline
      BY <1>4, <2>1 DEF LinesOf
    <3>2. 3 * j - 2 \in 1 .. Len(bytes) /\ 3 * j - 1 \in 1 .. Len(bytes)
          /\ 3 * j \in 1 .. Len(bytes)
      BY <1>2, <1>4, <2>1
    <3> QED
      BY <1>3, <3>1, <3>2
  <2>2. CASE j = n + 1
    <3>1. 3 * j - 2 = Len(bytes) + 1 /\ 3 * j - 1 = Len(bytes) + 2 /\ 3 * j = Len(bytes) + 3
      BY <1>2, <2>2
    <3>2. more[Len(bytes) + 1] = line[1] /\ more[Len(bytes) + 2] = line[2]
          /\ more[Len(bytes) + 3] = line[3]
      BY <1>1, <1>3
    <3>3. first + j = first + n + 1
      BY <2>2
    <3> QED
      BY <1>1, <3>1, <3>2, <3>3
  <2> QED
    BY <1>4, <2>1, <2>2
<1>5. Len(more) = 3 * (n + 1)
  BY <1>1, <1>2, <1>3
<1>6. LinesOf(more, clients, first, n + 1)
  BY <1>4, <1>5 DEF LinesOf
<1> QED
  BY <1>3, <1>6 DEF more, line

\* A buffer with a newline holds a whole line, the next one; taking it out leaves
\* the lines after it.
LEMMA LinesShrink ==
  ASSUME NEW b \in Seq(Bytes), NEW s \in Seq(Bytes), NEW clients \in Seq(Clients),
         NEW first \in Nat, NEW n \in Nat, first + n <= Len(clients),
         LinesOf(b \o s, clients, first, n), HasLine(b)
  PROVE  /\ n > 0 /\ FirstLine(b) = TextOf(clients[first + 1])
         /\ AfterLine(b) \in Seq(Bytes)
         /\ LinesOf(AfterLine(b) \o s, clients, first + 1, n - 1)
<1> DEFINE c == clients[first + 1]
           bytes == b \o s
           after == AfterLine(b)
           rest == after \o s
<1>1. /\ Len(bytes) = Len(b) + Len(s) /\ Len(b) \in Nat /\ Len(s) \in Nat
      /\ \A i \in 1 .. Len(b) : bytes[i] = b[i]
      /\ \A i \in 1 .. Len(s) : bytes[Len(b) + i] = s[i]
  BY Joined
<1>2. PICK k \in 1 .. Len(b) : b[k] = Newline
  BY DEF HasLine, Contains
<1>3. /\ Len(bytes) = 3 * n
      /\ \A j \in 1 .. n : /\ bytes[3 * j - 2] = clients[first + j]
                           /\ bytes[3 * j - 1] = clients[first + j]
                           /\ bytes[3 * j] = Newline
  BY DEF LinesOf
<1> HIDE DEF bytes
<1>4. n > 0
  BY <1>1, <1>2, <1>3
<1>5. c \in Clients /\ c # Newline
  BY <1>4, LenProperties, ElementOfSeq, LineIsThree
<1>6. bytes[1] = c /\ bytes[2] = c /\ bytes[3] = Newline /\ Len(bytes) >= 3
  <2>1. 1 \in 1 .. n /\ 3 * 1 - 2 = 1 /\ 3 * 1 - 1 = 2 /\ 3 * 1 = 3
    BY <1>4
  <2>2. bytes[3 * 1 - 2] = c /\ bytes[3 * 1 - 1] = c /\ bytes[3 * 1] = Newline
    BY <1>3, <2>1, Zenon
  <2> QED
    BY <1>3, <1>4, <2>1, <2>2
<1>7. k >= 3
  BY <1>1, <1>2, <1>5, <1>6
<1>8. Len(b) >= 3 /\ b[1] = c /\ b[2] = c /\ b[3] = Newline
  BY <1>1, <1>2, <1>6, <1>7
<1>9. /\ FirstLine(b) = TextOf(c)
      /\ after \in Seq(Bytes) /\ Len(after) = Len(b) - 3
      /\ \A i \in 1 .. Len(b) - 3 : after[i] = b[i + 3]
  BY <1>5, <1>8, FirstIsThird
<1> HIDE DEF after
<1>10. /\ Len(rest) = Len(after) + Len(s)
       /\ \A i \in 1 .. Len(after) : rest[i] = after[i]
       /\ \A i \in 1 .. Len(s) : rest[Len(after) + i] = s[i]
  BY <1>9, Joined
<1> HIDE DEF rest
<1>11. Len(rest) = Len(bytes) - 3
  BY <1>1, <1>9, <1>10
<1>12. ASSUME NEW i \in 1 .. Len(bytes) - 3
       PROVE  rest[i] = bytes[i + 3]
  <2>1. CASE i <= Len(after)
    <3>1. rest[i] = after[i] /\ after[i] = b[i + 3]
      BY <1>9, <1>10, <1>12, <2>1
    <3>2. i + 3 \in 1 .. Len(b)
      BY <1>1, <1>8, <1>9, <1>12, <2>1
    <3> QED
      BY <1>1, <3>1, <3>2
  <2>2. CASE i > Len(after)
    <3> DEFINE k2 == i - Len(after)
    <3>1. k2 \in 1 .. Len(s) /\ i = Len(after) + k2 /\ i + 3 = Len(b) + k2
      BY <1>1, <1>8, <1>9, <1>12, <2>2
    <3> HIDE DEF k2
    <3>2. rest[Len(after) + k2] = s[k2] /\ bytes[Len(b) + k2] = s[k2]
      BY <1>1, <1>10, <3>1
    <3> QED
      BY <3>1, <3>2
  <2> QED
    BY <1>9, <1>12, <2>1, <2>2
<1>13. ASSUME NEW j \in 1 .. n - 1
       PROVE  /\ rest[3 * j - 2] = clients[first + 1 + j]
              /\ rest[3 * j - 1] = clients[first + 1 + j]
              /\ rest[3 * j] = Newline
  <2>1. j + 1 \in 1 .. n /\ first + (j + 1) = first + 1 + j
        /\ 3 * (j + 1) - 2 = 3 * j - 2 + 3 /\ 3 * (j + 1) - 1 = 3 * j - 1 + 3
        /\ 3 * (j + 1) = 3 * j + 3
    BY <1>13
  <2>2. /\ bytes[3 * (j + 1) - 2] = clients[first + (j + 1)]
        /\ bytes[3 * (j + 1) - 1] = clients[first + (j + 1)]
        /\ bytes[3 * (j + 1)] = Newline
    BY <1>3, <2>1, Zenon
  <2>3. 3 * j - 2 \in 1 .. Len(bytes) - 3 /\ 3 * j - 1 \in 1 .. Len(bytes) - 3
        /\ 3 * j \in 1 .. Len(bytes) - 3
    BY <1>3, <1>13
  <2>4. /\ rest[3 * j - 2] = bytes[3 * j - 2 + 3]
        /\ rest[3 * j - 1] = bytes[3 * j - 1 + 3]
        /\ rest[3 * j] = bytes[3 * j + 3]
    BY <1>12, <2>3, Zenon
  <2> QED
    BY <2>1, <2>2, <2>4
<1>14. LinesOf(rest, clients, first + 1, n - 1)
  <2>1. Len(rest) = 3 * (n - 1)
    BY <1>3, <1>4, <1>11
  <2> QED
    BY <1>13, <2>1 DEF LinesOf
<1> QED
  BY <1>4, <1>9, <1>14 DEF rest, after, c

\* What is left of the one line of a client, once part of it is in the buffer.
LEMMA HeldLine ==
  ASSUME NEW b \in Seq(Bytes), NEW s \in Seq(Bytes), NEW c \in Clients,
         b \o s = Line(TextOf(c)), HasLine(b)
  PROVE  FirstLine(b) = TextOf(c) /\ AfterLine(b) = <<>> /\ s = <<>>
<1>1. Len(b) \in Nat /\ Len(s) \in Nat /\ DOMAIN s = 1 .. Len(s)
  BY LenProperties
<1>2. /\ Len(b) + Len(s) = 3
      /\ \A i \in 1 .. 3 : Line(TextOf(c))[i] = IF i <= Len(b) THEN b[i] ELSE s[i - Len(b)]
  <2>1. /\ Len(b \o s) = Len(b) + Len(s)
        /\ \A i \in 1 .. Len(b) + Len(s) :
             (b \o s)[i] = IF i <= Len(b) THEN b[i] ELSE s[i - Len(b)]
    BY ConcatProperties, Zenon
  <2> QED
    BY <2>1, LineIsThree
<1>3. PICK n \in 1 .. Len(b) : b[n] = Newline
  BY DEF HasLine, Contains
<1>4. n = 3
  <2>1. n \in 1 .. 3 /\ Line(TextOf(c))[n] = Newline
    BY <1>1, <1>2, <1>3
  <2> QED
    BY <2>1, LineIsThree
<1>5. Len(b) = 3 /\ Len(s) = 0 /\ b[1] = c /\ b[2] = c /\ b[3] = Newline
  BY <1>1, <1>2, <1>3, <1>4, LineIsThree
<1>6. FirstLine(b) = TextOf(c) /\ AfterLine(b) \in Seq(Bytes) /\ Len(AfterLine(b)) = 0
  BY <1>5, FirstIsThird
<1> QED
  BY <1>5, <1>6, EmptySeq

-------------------------------------------------------------------------------
ServingPlaces == {"serve", "read", "lines", "close"}

\* A client that waits to be accepted is not served, and its command is whole.
Waits(c) ==
  /\ client[c] # "out"
  /\ cmd_stream[c] = IF client[c] = "connected" THEN <<>> ELSE Line(TextOf(c))
  /\ service \in ServingPlaces => c # cmd_client

BacklogWaits ==
  /\ \A c \in Clients : client[c] = "out" => cmd_stream[c] = <<>>
  /\ \A i \in DOMAIN cmd_backlog : Waits(cmd_backlog[i])
  /\ \A i, j \in DOMAIN cmd_backlog : cmd_backlog[i] = cmd_backlog[j] => i = j

\* forwarded is how many lines the service has written to the application.  That of
\* the client that it serves is either all there, in the buffer and the stream, or
\* the last of them.
ServedLine(forwarded) == service \in ServingPlaces =>
  /\ accepted # <<>> /\ cmd_client = accepted[Len(accepted)] /\ client[cmd_client] # "out"
  /\ \/ /\ forwarded + 1 = Len(accepted)
        /\ buffer \o cmd_stream[cmd_client] =
             IF client[cmd_client] = "connected" THEN <<>> ELSE Line(TextOf(cmd_client))
     \/ /\ forwarded = Len(accepted) /\ client[cmd_client] # "connected"
        /\ buffer = <<>> /\ cmd_stream[cmd_client] = <<>>

\* A client is left before its line was forwarded only by a service that is to stop,
\* and then no other is accepted.
NothingCut(forwarded) ==
  /\ service \in {"acceptApp", "poll"} => forwarded = Len(accepted)
  /\ service \in {"loop", "close"} => forwarded = Len(accepted) \/ ~g_running
  /\ service \in {"serve", "read"} => ~HasLine(buffer)

\* What was forwarded and not posted is in the stream or the buffer of the listener.
OnTheWay(forwarded) ==
  /\ Len(posted) <= forwarded /\ forwarded <= Len(accepted)
  /\ LinesOf(app_buffer \o app_stream, accepted, Len(posted), forwarded - Len(posted))

PostedCommands == \A i \in 1 .. Len(posted) : posted[i] = TextOf(accepted[i])

Carried == \E forwarded \in Nat :
  ServedLine(forwarded) /\ NothingCut(forwarded) /\ OnTheWay(forwarded)

ServiceInv == ServiceTypeOK /\ BacklogWaits /\ PostedCommands /\ Carried

-------------------------------------------------------------------------------
LEMMA ServiceInitially == Init => ServiceInv
<1> SUFFICES ASSUME Init
             PROVE  ServiceInv
  OBVIOUS
<1> USE DEF Init
<1>1. /\ <<>> \in Seq(Clients) /\ <<>> \in Seq(Bytes) /\ <<>> \in Seq(Seq(Clients))
      /\ Len(<<>>) = 0 /\ DOMAIN <<>> = {}
  BY EmptySeq
<1>2. ServiceTypeOK
  BY <1>1 DEF ServiceTypeOK, Bytes
<1>3. BacklogWaits /\ PostedCommands
  BY <1>1 DEF BacklogWaits, Waits, PostedCommands
<1>4. <<>> \o <<>> = <<>>
  BY <1>1, ConcatEmptySeq
<1>5. ServedLine(0) /\ NothingCut(0)
  BY <1>1 DEF ServedLine, NothingCut, ServingPlaces
<1>6. OnTheWay(0)
  BY <1>1, <1>4 DEF OnTheWay, LinesOf
<1> QED
  BY <1>2, <1>3, <1>5, <1>6 DEF ServiceInv, Carried

LEMMA ServedIsClient ==
  ASSUME ServiceTypeOK, NEW n, ServedLine(n), service \in ServingPlaces
  PROVE  /\ cmd_client \in Clients /\ Len(accepted) \in Nat /\ Len(accepted) > 0
         /\ accepted[Len(accepted)] = cmd_client
<1>1. accepted \in Seq(Clients) /\ accepted # <<>> /\ cmd_client = accepted[Len(accepted)]
  BY DEF ServiceTypeOK, ServedLine
<1>2. Len(accepted) \in Nat /\ Len(accepted) > 0
  BY <1>1, LenProperties, EmptySeq
<1> QED
  BY <1>1, <1>2, ElementOfSeq

\* slld touches nothing but its own connection.
LEMMA ClientSteps ==
  ASSUME ServiceInv, NEW c \in Clients, ClientStep(c)
  PROVE  ServiceInv'
<1>0. ServiceTypeOK /\ BacklogWaits /\ PostedCommands
  BY DEF ServiceInv
<1>1. PICK n \in Nat : ServedLine(n) /\ NothingCut(n) /\ OnTheWay(n)
  BY DEF ServiceInv, Carried
<1>2. UNCHANGED <<service, g_running, cmd_client, buffer, accepted, app, app_stream,
                  app_buffer, posted>>
  BY DEF ClientStep, ClientConnects, ClientWrites, ClientCloses, appVars
<1>3. PostedCommands' /\ NothingCut(n)' /\ OnTheWay(n)'
  BY <1>0, <1>1, <1>2 DEF PostedCommands, NothingCut, OnTheWay
<1>4. client \in [Clients -> {"out", "connected", "written", "closed"}]
      /\ cmd_stream \in [Clients -> Seq(Bytes)] /\ cmd_backlog \in Seq(Clients)
      /\ buffer \in Seq(Bytes) /\ accepted \in Seq(Clients)
  BY <1>0 DEF ServiceTypeOK, Bytes
<1>5. Len(cmd_backlog) \in Nat /\ DOMAIN cmd_backlog = 1 .. Len(cmd_backlog)
      /\ \A i \in DOMAIN cmd_backlog : cmd_backlog[i] \in Clients
  BY <1>4, LenProperties, ElementOfSeq
<1>6. service \in ServingPlaces =>
        cmd_client \in Clients /\ client[cmd_client] # "out"
  BY <1>0, <1>1, ServedIsClient DEF ServedLine
<1>7. CASE ClientConnects(c)
  <2>1. client' = [client EXCEPT ![c] = "connected"] /\ cmd_stream' = cmd_stream
        /\ cmd_backlog' = Append(cmd_backlog, c) /\ client[c] = "out"
    BY <1>7 DEF ClientConnects
  <2>2. /\ cmd_backlog' \in Seq(Clients) /\ DOMAIN cmd_backlog' = 1 .. Len(cmd_backlog) + 1
        /\ \A i \in 1 .. Len(cmd_backlog) : cmd_backlog'[i] = cmd_backlog[i]
        /\ cmd_backlog'[Len(cmd_backlog) + 1] = c
    BY <1>4, <1>5, <2>1, AppendProperties, LenProperties
  <2>3. /\ client' \in [Clients -> {"out", "connected", "written", "closed"}]
        /\ client'[c] = "connected"
        /\ \A d \in Clients : d # c => client'[d] = client[d]
    BY <1>4, <2>1
  <2>4. ServiceTypeOK'
    BY <1>0, <1>2, <2>1, <2>2, <2>3 DEF ServiceTypeOK
  <2>5. \A i \in 1 .. Len(cmd_backlog) : cmd_backlog[i] # c
    BY <1>0, <1>5, <2>1 DEF BacklogWaits, Waits
  <2>6. cmd_stream[c] = <<>>
    BY <1>0, <2>1 DEF BacklogWaits
  <2>7. BacklogWaits'
    <3>1. Waits(c)'
      BY <1>2, <1>6, <2>1, <2>3, <2>6 DEF Waits
    <3>2. \A i \in 1 .. Len(cmd_backlog) : Waits(cmd_backlog[i])'
      BY <1>0, <1>2, <1>5, <2>1, <2>2, <2>3, <2>5 DEF BacklogWaits, Waits
    <3>3. \A d \in Clients : client'[d] = "out" => cmd_stream'[d] = <<>>
      BY <1>0, <2>1, <2>3 DEF BacklogWaits
    <3>4. \A i, j \in DOMAIN cmd_backlog' : cmd_backlog'[i] = cmd_backlog'[j] => i = j
      BY <1>0, <1>5, <2>2, <2>5 DEF BacklogWaits
    <3>5. \A i \in 1 .. Len(cmd_backlog) + 1 : Waits(cmd_backlog[i])'
      <4> SUFFICES ASSUME NEW i \in 1 .. Len(cmd_backlog) + 1
                   PROVE  Waits(cmd_backlog[i])'
        OBVIOUS
      <4>1. CASE i \in 1 .. Len(cmd_backlog)
        BY <3>2, <4>1
      <4>2. CASE i = Len(cmd_backlog) + 1
        BY <2>2, <3>1, <4>2 DEF Waits
      <4> QED
        BY <1>5, <4>1, <4>2
    <3> QED
      BY <2>2, <3>3, <3>4, <3>5 DEF BacklogWaits
  <2>8. ServedLine(n)'
    BY <1>1, <1>2, <1>6, <2>1, <2>3 DEF ServedLine
  <2> QED
    BY <1>1, <1>3, <2>4, <2>7, <2>8 DEF ServiceInv, Carried
<1>8. CASE ClientWrites(c) \/ ClientCloses(c)
  <2>1. cmd_backlog' = cmd_backlog /\ client[c] # "out"
        /\ \/ /\ client[c] = "connected" /\ client' = [client EXCEPT ![c] = "written"]
              /\ cmd_stream' = [cmd_stream EXCEPT ![c] = Line(TextOf(c))]
           \/ /\ client[c] = "written" /\ client' = [client EXCEPT ![c] = "closed"]
              /\ cmd_stream' = cmd_stream
    BY <1>8 DEF ClientWrites, ClientCloses
  <2>2. Line(TextOf(c)) \in Seq(Bytes)
    BY LineIsThree
  <2>3. /\ client' \in [Clients -> {"out", "connected", "written", "closed"}]
        /\ cmd_stream' \in [Clients -> Seq(Bytes)]
        /\ client'[c] \in {"written", "closed"}
        /\ \A d \in Clients : d # c => client'[d] = client[d] /\ cmd_stream'[d] = cmd_stream[d]
        /\ client[c] = "connected" => cmd_stream'[c] = Line(TextOf(c))
        /\ client[c] # "connected" => cmd_stream'[c] = cmd_stream[c]
    BY <1>4, <2>1, <2>2
  <2>4. ServiceTypeOK'
    BY <1>0, <1>2, <2>1, <2>3 DEF ServiceTypeOK, Bytes
  <2>5. ASSUME NEW d \in Clients, Waits(d)
        PROVE  Waits(d)'
    BY <1>2, <2>3, <2>5 DEF Waits
  <2>6. BacklogWaits'
    <3>1. \A i \in DOMAIN cmd_backlog : Waits(cmd_backlog[i])'
      <4> SUFFICES ASSUME NEW i \in DOMAIN cmd_backlog
                   PROVE  Waits(cmd_backlog[i])'
        OBVIOUS
      <4>1. cmd_backlog[i] \in Clients /\ Waits(cmd_backlog[i]) /\ cmd_backlog'[i] = cmd_backlog[i]
        BY <1>0, <1>5, <2>1 DEF BacklogWaits
      <4>2. client'[cmd_backlog[i]] # "out"
        BY <2>5, <4>1 DEF Waits
      <4> QED
        BY <1>2, <2>1, <2>5, <4>1 DEF Waits
    <3>2. \A d \in Clients : client'[d] = "out" => cmd_stream'[d] = <<>>
      BY <1>0, <2>3 DEF BacklogWaits
    <3> QED
      BY <1>0, <2>1, <3>1, <3>2 DEF BacklogWaits
  <2>7. ServedLine(n)'
    <3> SUFFICES ASSUME service \in ServingPlaces
                 PROVE  ServedLine(n)'
      BY <1>2 DEF ServedLine
    <3>1. CASE cmd_client # c
      BY <1>1, <1>2, <1>6, <2>3, <3>1 DEF ServedLine
    <3>2. CASE cmd_client = c /\ client[c] = "connected"
      <4>1. n + 1 = Len(accepted) /\ buffer \o cmd_stream[c] = <<>>
            /\ accepted # <<>> /\ cmd_client = accepted[Len(accepted)]
        BY <1>1, <3>2 DEF ServedLine
      <4>2. buffer = <<>>
        BY <1>4, <4>1, ConcatEqualIffEmpty
      <4>3. <<>> \o Line(TextOf(c)) = Line(TextOf(c))
        BY <2>2, ConcatEmptySeq
      <4> QED
        BY <1>2, <2>3, <3>2, <4>1, <4>2, <4>3 DEF ServedLine
    <3>3. CASE cmd_client = c /\ client[c] # "connected"
      BY <1>1, <1>2, <2>3, <3>3 DEF ServedLine
    <3> QED
      BY <3>1, <3>2, <3>3
  <2> QED
    BY <1>1, <1>3, <2>4, <2>6, <2>7 DEF ServiceInv, Carried
<1> QED
  BY <1>7, <1>8 DEF ClientStep
\* What main does without reading, forwarding or accepting a client.
LEMMA QuietSteps ==
  ASSUME ServiceInv,
         \/ AcceptApp \/ TestsRunning \/ PollTimesOut \/ TestsServing
         \/ ClientEnds \/ ForwardKills \/ LinesDone \/ ClosesClient
  PROVE  ServiceInv'
<1>0. ServiceTypeOK /\ BacklogWaits /\ PostedCommands
  BY DEF ServiceInv
<1>1. PICK n \in Nat : ServedLine(n) /\ NothingCut(n) /\ OnTheWay(n)
  BY DEF ServiceInv, Carried
<1>2. /\ UNCHANGED <<g_running, client, cmd_backlog, cmd_stream, buffer, accepted, app_stream,
                     app_buffer, posted>>
      /\ service' \in {"loop", "poll", "ended", "read", "close", "killed", "serve"}
      /\ service' \in ServingPlaces => service \in ServingPlaces /\ cmd_client' = cmd_client
      /\ cmd_client' \in {cmd_client, NoClient}
      /\ app' \in {app, "up", "gone"}
  BY DEF AcceptApp, TestsRunning, PollTimesOut, TestsServing, ClientEnds, ForwardKills,
         LinesDone, ClosesClient, cmdVars, appVars, ServingPlaces
<1>3. ServiceTypeOK'
  BY <1>0, <1>2 DEF ServiceTypeOK
<1>4. BacklogWaits' /\ PostedCommands'
  BY <1>0, <1>2 DEF BacklogWaits, Waits, PostedCommands
<1>5. ServedLine(n)' /\ OnTheWay(n)'
  BY <1>1, <1>2 DEF ServedLine, OnTheWay
<1>6. NothingCut(n)'
  <2>1. CASE AcceptApp \/ TestsRunning \/ PollTimesOut \/ TestsServing \/ ForwardKills
             \/ LinesDone \/ ClosesClient
    BY <1>1, <2>1 DEF NothingCut, AcceptApp, TestsRunning, PollTimesOut, TestsServing,
                      ForwardKills, LinesDone, ClosesClient, cmdVars
  <2>2. CASE ClientEnds
    <3>1. service = "read" /\ service' = "close" /\ cmd_stream[cmd_client] = <<>>
          /\ client[cmd_client] = "closed" /\ ~HasLine(buffer)
      BY <1>1, <2>2 DEF ClientEnds, NothingCut
    <3>2. ASSUME buffer \o <<>> = Line(TextOf(cmd_client))
          PROVE  FALSE
      <4>1. buffer = Line(TextOf(cmd_client)) /\ cmd_client \in Clients
        <5>1. buffer \in Seq(Bytes)
          BY <1>0 DEF ServiceTypeOK, Bytes
        <5>2. service \in ServingPlaces
          BY <3>1 DEF ServingPlaces
        <5> QED
          BY <1>0, <1>1, <3>2, <5>1, <5>2, ConcatEmptySeq, ServedIsClient
      <4>2. Len(buffer) = 3 /\ buffer[3] = Newline
        BY <4>1, LineIsThree
      <4> QED
        BY <3>1, <4>2 DEF HasLine, Contains
    <3>3. n = Len(accepted)
      BY <1>1, <3>1, <3>2 DEF ServedLine, ServingPlaces
    <3> QED
      BY <1>2, <3>1, <3>3 DEF NothingCut
  <2> QED
    BY <2>1, <2>2
<1> QED
  BY <1>3, <1>4, <1>5, <1>6 DEF ServiceInv, Carried

\* The next client in the backlog becomes the last of those accepted.
LEMMA AcceptStep == ServiceInv /\ AcceptClient => ServiceInv'
<1> SUFFICES ASSUME ServiceInv, AcceptClient
             PROVE  ServiceInv'
  OBVIOUS
<1>0. ServiceTypeOK /\ BacklogWaits /\ PostedCommands
  BY DEF ServiceInv
<1>1. PICK n \in Nat : ServedLine(n) /\ NothingCut(n) /\ OnTheWay(n)
  BY DEF ServiceInv, Carried
<1> DEFINE c == Head(cmd_backlog)
<1>2. /\ service = "poll" /\ service' = "serve" /\ cmd_backlog # <<>> /\ cmd_client' = c
      /\ cmd_backlog' = Tail(cmd_backlog) /\ accepted' = Append(accepted, c)
      /\ buffer' = <<>>
      /\ UNCHANGED <<g_running, client, cmd_stream, app, app_stream, app_buffer, posted>>
  BY DEF AcceptClient, appVars
<1>3. /\ cmd_backlog \in Seq(Clients) /\ accepted \in Seq(Clients)
      /\ <<>> \in Seq(Bytes) /\ Len(<<>>) = 0
  BY <1>0, EmptySeq DEF ServiceTypeOK
<1>4. /\ c \in Clients /\ c = cmd_backlog[1] /\ Tail(cmd_backlog) \in Seq(Clients)
      /\ Len(cmd_backlog) \in Nat /\ Len(cmd_backlog) > 0
      /\ DOMAIN cmd_backlog = 1 .. Len(cmd_backlog)
      /\ DOMAIN Tail(cmd_backlog) = 1 .. Len(cmd_backlog) - 1
      /\ \A i \in 1 .. Len(cmd_backlog) - 1 : Tail(cmd_backlog)[i] = cmd_backlog[i + 1]
  BY <1>2, <1>3, HeadTailProperties, LenProperties, EmptySeq
<1> HIDE DEF c
<1>5. /\ accepted' \in Seq(Clients) /\ accepted' # <<>> /\ Len(accepted') = Len(accepted) + 1
      /\ \A i \in 1 .. Len(accepted) : accepted'[i] = accepted[i]
      /\ accepted'[Len(accepted) + 1] = c /\ Len(accepted) \in Nat
  BY <1>2, <1>3, <1>4, AppendProperties, LenProperties
<1>6. n = Len(accepted)
  BY <1>1, <1>2 DEF NothingCut
<1>7. ServiceTypeOK'
  BY <1>0, <1>2, <1>3, <1>4, <1>5 DEF ServiceTypeOK, Bytes
<1>8. Waits(c) /\ \A i \in 1 .. Len(cmd_backlog) - 1 : Tail(cmd_backlog)[i] # c
      /\ Waits(Tail(cmd_backlog)[i])
  BY <1>0, <1>4 DEF BacklogWaits
<1>9. BacklogWaits'
  <2>1. \A i \in 1 .. Len(cmd_backlog) - 1 : Waits(cmd_backlog[i])'
    BY <1>2, <1>8 DEF Waits
  <2>2. \A i, j \in 1 .. Len(cmd_backlog) - 1 :
          Tail(cmd_backlog)[i] = Tail(cmd_backlog)[j] => i = j
    BY <1>0, <1>4 DEF BacklogWaits
  <2> QED
    BY <1>0, <1>2, <1>4, <2>1, <2>2 DEF BacklogWaits
<1>10. PostedCommands'
  <2>1. Len(posted) <= Len(accepted) /\ Len(posted) \in Nat
    BY <1>0, <1>1, <1>6, LenProperties DEF OnTheWay, ServiceTypeOK
  <2> QED
    BY <1>0, <1>2, <1>5, <2>1 DEF PostedCommands
<1>11. OnTheWay(n)'
  <2>1. Len(posted) \in Nat /\ Len(posted) <= n
    BY <1>0, <1>1, LenProperties DEF OnTheWay, ServiceTypeOK
  <2>2. \A j \in 1 .. n - Len(posted) : accepted'[Len(posted) + j] = accepted[Len(posted) + j]
    BY <1>5, <1>6, <2>1
  <2>3. LinesOf(app_buffer \o app_stream, accepted', Len(posted), n - Len(posted))
    BY <1>1, <2>1, <2>2 DEF OnTheWay, LinesOf
  <2> QED
    BY <1>1, <1>2, <1>5, <1>6, <2>3 DEF OnTheWay
<1>12. ServedLine(n)'
  <2>1. cmd_stream \in [Clients -> Seq(Bytes)]
    BY <1>0 DEF ServiceTypeOK, Bytes
  <2>2. <<>> \o cmd_stream[c] = cmd_stream[c]
    BY <1>4, <2>1, ConcatEmptySeq
  <2> QED
    BY <1>2, <1>5, <1>6, <1>8, <2>2 DEF ServedLine, Waits
<1>13. NothingCut(n)'
  <2>1. ~HasLine(<<>>)
    BY <1>3 DEF HasLine, Contains
  <2> QED
    BY <1>2, <2>1 DEF NothingCut
<1> QED
  BY <1>7, <1>9, <1>10, <1>11, <1>12, <1>13 DEF ServiceInv, Carried
LEMMA ReadStep == ServiceInv /\ ReadsClient => ServiceInv'
<1> SUFFICES ASSUME ServiceInv, ReadsClient
             PROVE  ServiceInv'
  OBVIOUS
<1>0. ServiceTypeOK /\ BacklogWaits /\ PostedCommands
  BY DEF ServiceInv
<1>1. PICK n \in Nat : ServedLine(n) /\ NothingCut(n) /\ OnTheWay(n)
  BY DEF ServiceInv, Carried
<1> DEFINE bytes == cmd_stream[cmd_client]
<1>2. /\ service = "read" /\ service' = "lines"
      /\ UNCHANGED <<g_running, client, cmd_backlog, cmd_client, accepted, app, app_stream,
                     app_buffer, posted>>
      /\ \E k \in 1 .. Len(bytes) :
           /\ buffer' = buffer \o SubSeq(bytes, 1, k)
           /\ cmd_stream' =
                [cmd_stream EXCEPT ![cmd_client] = SubSeq(@, k + 1, Len(@))]
  BY DEF ReadsClient, appVars
<1>3. PICK k \in 1 .. Len(bytes) :
        /\ buffer' = buffer \o SubSeq(bytes, 1, k)
        /\ cmd_stream' = [cmd_stream EXCEPT ![cmd_client] = SubSeq(@, k + 1, Len(@))]
  BY <1>2
<1>4. /\ cmd_client \in Clients /\ buffer \in Seq(Bytes) /\ bytes \in Seq(Bytes)
      /\ cmd_stream \in [Clients -> Seq(Bytes)] /\ cmd_backlog \in Seq(Clients)
  BY <1>0, <1>1, <1>2, ServedIsClient DEF ServiceTypeOK, Bytes, ServingPlaces
<1>5. /\ buffer' \in Seq(Bytes) /\ SubSeq(bytes, k + 1, Len(bytes)) \in Seq(Bytes)
      /\ buffer' \o SubSeq(bytes, k + 1, Len(bytes)) = buffer \o bytes
  BY <1>3, <1>4, ReadingMoves
<1>6. /\ cmd_stream' \in [Clients -> Seq(Bytes)]
      /\ cmd_stream'[cmd_client] = SubSeq(bytes, k + 1, Len(bytes))
      /\ \A d \in Clients : d # cmd_client => cmd_stream'[d] = cmd_stream[d]
  BY <1>3, <1>4, <1>5
<1>7. ServiceTypeOK'
  BY <1>0, <1>2, <1>5, <1>6 DEF ServiceTypeOK, Bytes
<1>8. BacklogWaits'
  <2>1. service \in ServingPlaces /\ client[cmd_client] # "out"
    BY <1>1, <1>2 DEF ServingPlaces, ServedLine
  <2>2. ASSUME NEW i \in DOMAIN cmd_backlog
        PROVE  Waits(cmd_backlog[i])'
    <3>1. cmd_backlog[i] \in Clients /\ Waits(cmd_backlog[i])
      BY <1>0, <1>4, LenProperties, ElementOfSeq DEF BacklogWaits
    <3> QED
      BY <1>2, <1>6, <2>1, <3>1 DEF Waits
  <2>3. \A d \in Clients : client'[d] = "out" => cmd_stream'[d] = <<>>
    BY <1>0, <1>2, <1>6, <2>1 DEF BacklogWaits
  <2> QED
    BY <1>0, <1>2, <2>2, <2>3 DEF BacklogWaits
<1>9. PostedCommands' /\ OnTheWay(n)' /\ NothingCut(n)'
  BY <1>0, <1>1, <1>2 DEF PostedCommands, OnTheWay, NothingCut
<1>10. ServedLine(n)'
  <2>1. bytes # <<>>
    BY <1>4, LenProperties, EmptySeq
  <2>2. /\ accepted # <<>> /\ cmd_client = accepted[Len(accepted)] /\ client[cmd_client] # "out"
        /\ n + 1 = Len(accepted)
        /\ buffer \o bytes =
             IF client[cmd_client] = "connected" THEN <<>> ELSE Line(TextOf(cmd_client))
    BY <1>1, <1>2, <2>1 DEF ServedLine, ServingPlaces
  <2> QED
    BY <1>2, <1>5, <1>6, <2>2 DEF ServedLine
<1> QED
  BY <1>7, <1>8, <1>9, <1>10 DEF ServiceInv, Carried

\* A line in the buffer is the whole line of the client that is served.
LEMMA BufferIsLine ==
  ASSUME ServiceTypeOK, NEW n \in Nat, ServedLine(n), service = "lines", HasLine(buffer)
  PROVE  /\ cmd_client \in Clients /\ n + 1 = Len(accepted)
         /\ accepted[n + 1] = cmd_client /\ client[cmd_client] \notin {"out", "connected"}
         /\ FirstLine(buffer) = TextOf(cmd_client) /\ AfterLine(buffer) = <<>>
         /\ cmd_stream[cmd_client] = <<>>
<1>1. /\ cmd_client \in Clients /\ buffer \in Seq(Bytes) /\ cmd_stream[cmd_client] \in Seq(Bytes)
      /\ Len(accepted) \in Nat /\ accepted[Len(accepted)] = cmd_client
  BY ServedIsClient DEF ServiceTypeOK, Bytes, ServingPlaces
<1>2. buffer # <<>>
  BY EmptySeq DEF HasLine, Contains
<1>3. /\ n + 1 = Len(accepted) /\ client[cmd_client] # "out"
      /\ buffer \o cmd_stream[cmd_client] =
           IF client[cmd_client] = "connected" THEN <<>> ELSE Line(TextOf(cmd_client))
  BY <1>2 DEF ServedLine, ServingPlaces
<1>4. buffer \o cmd_stream[cmd_client] # <<>>
  <2> DEFINE stream == cmd_stream[cmd_client]
  <2>1. stream \in Seq(Bytes)
    BY <1>1
  <2> HIDE DEF stream
  <2>2. buffer \o stream # <<>>
    BY <1>1, <1>2, <2>1, ConcatEqualIffEmpty
  <2> QED
    BY <2>2 DEF stream
<1>5. client[cmd_client] # "connected"
      /\ buffer \o cmd_stream[cmd_client] = Line(TextOf(cmd_client))
  BY <1>3, <1>4
<1>6. FirstLine(buffer) = TextOf(cmd_client) /\ AfterLine(buffer) = <<>>
      /\ cmd_stream[cmd_client] = <<>>
  BY <1>1, <1>5, HeldLine
<1> QED
  BY <1>1, <1>3, <1>5, <1>6

LEMMA ForwardStep == ServiceInv /\ ForwardLine => ServiceInv'
<1> SUFFICES ASSUME ServiceInv, ForwardLine
             PROVE  ServiceInv'
  OBVIOUS
<1>0. ServiceTypeOK /\ BacklogWaits /\ PostedCommands
  BY DEF ServiceInv
<1>1. PICK n \in Nat : ServedLine(n) /\ NothingCut(n) /\ OnTheWay(n)
  BY DEF ServiceInv, Carried
<1> DEFINE line == Line(TextOf(cmd_client))
<1>2. /\ service = "lines" /\ HasLine(buffer) /\ buffer' = AfterLine(buffer)
      /\ app_stream' = app_stream \o
           (IF FirstLine(buffer) = <<>> THEN <<>> ELSE Line(FirstLine(buffer)))
      /\ UNCHANGED <<service, g_running, client, cmd_backlog, cmd_client, cmd_stream, accepted,
                     app, app_buffer, posted>>
  BY DEF ForwardLine
<1>3. /\ cmd_client \in Clients /\ n + 1 = Len(accepted) /\ accepted[n + 1] = cmd_client
      /\ client[cmd_client] \notin {"out", "connected"}
      /\ FirstLine(buffer) = TextOf(cmd_client) /\ buffer' = <<>>
      /\ cmd_stream[cmd_client] = <<>>
  BY <1>0, <1>1, <1>2, BufferIsLine
<1>4. line \in Seq(Bytes) /\ app_stream' = app_stream \o line
  BY <1>2, <1>3, LineIsThree
<1> HIDE DEF line
<1>5. /\ app_stream \in Seq(Bytes) /\ app_buffer \in Seq(Bytes) /\ accepted \in Seq(Clients)
      /\ Len(posted) \in Nat /\ <<>> \in Seq(Bytes)
  BY <1>0, LenProperties, EmptySeq DEF ServiceTypeOK, Bytes
<1>6. app_stream' \in Seq(Bytes)
  BY <1>4, <1>5, Joined
<1>7. ServiceTypeOK'
  BY <1>0, <1>2, <1>3, <1>5, <1>6 DEF ServiceTypeOK, Bytes
<1>8. BacklogWaits' /\ PostedCommands'
  BY <1>0, <1>2 DEF BacklogWaits, Waits, PostedCommands
<1>9. OnTheWay(n + 1)'
  <2> DEFINE k == n - Len(posted)
             way == app_buffer \o app_stream
  <2>1. k \in Nat /\ Len(posted) + k + 1 = n + 1 /\ n + 1 - Len(posted) = k + 1
        /\ LinesOf(way, accepted, Len(posted), k)
    BY <1>1, <1>5 DEF OnTheWay
  <2>2. way \in Seq(Bytes)
    BY <1>5, Joined
  <2>3. (app_buffer \o app_stream) \o line = app_buffer \o (app_stream \o line)
    BY <1>4, <1>5, JoinedTwice
  <2> HIDE DEF k, way
  <2>4. LinesOf(way \o line, accepted, Len(posted), k + 1)
    BY <1>3, <1>5, <2>1, <2>2, LinesGrow DEF line
  <2>5. LinesOf(app_buffer' \o app_stream', accepted, Len(posted), n + 1 - Len(posted))
    BY <1>2, <1>4, <2>1, <2>3, <2>4 DEF way
  <2> QED
    BY <1>1, <1>2, <1>3, <1>5, <2>5 DEF OnTheWay
<1>10. ServedLine(n + 1)' /\ NothingCut(n + 1)'
  <2>1. accepted # <<>>
    BY <1>1, <1>2 DEF ServedLine, ServingPlaces
  <2> QED
    BY <1>2, <1>3, <2>1 DEF ServedLine, NothingCut
<1> QED
  BY <1>7, <1>8, <1>9, <1>10 DEF ServiceInv, Carried

\* The application's end, and the signal.
LEMMA AppSteps ==
  ASSUME ServiceInv, HandleSignal \/ AppConnects \/ AppExits \/ AppReads
  PROVE  ServiceInv'
<1>0. ServiceTypeOK /\ BacklogWaits /\ PostedCommands
  BY DEF ServiceInv
<1>1. PICK n \in Nat : ServedLine(n) /\ NothingCut(n) /\ OnTheWay(n)
  BY DEF ServiceInv, Carried
<1>2. /\ UNCHANGED <<service, client, cmd_backlog, cmd_client, cmd_stream, buffer, accepted,
                     posted>>
      /\ g_running' \in {g_running, FALSE} /\ app' \in {app, "waiting", "gone"}
  BY DEF HandleSignal, AppConnects, AppExits, AppReads, cmdVars, appVars
<1>3. BacklogWaits' /\ PostedCommands' /\ ServedLine(n)' /\ NothingCut(n)'
  <2>1. BacklogWaits' /\ PostedCommands'
    BY <1>0, <1>2 DEF BacklogWaits, Waits, PostedCommands
  <2>2. ServedLine(n)'
    BY <1>1, <1>2 DEF ServedLine
  <2>3. ~g_running => ~g_running'
    BY <1>2
  <2>4. NothingCut(n)'
    BY <1>1, <1>2, <2>3 DEF NothingCut
  <2> QED
    BY <2>1, <2>2, <2>4
<1>4. /\ app_buffer \in Seq(Bytes) /\ app_stream \in Seq(Bytes)
  BY <1>0 DEF ServiceTypeOK, Bytes
<1>5. /\ app_buffer' \in Seq(Bytes) /\ app_stream' \in Seq(Bytes)
      /\ app_buffer' \o app_stream' = app_buffer \o app_stream
  <2>1. CASE HandleSignal \/ AppConnects \/ AppExits
    BY <1>4, <2>1 DEF HandleSignal, AppConnects, AppExits, appVars
  <2>2. CASE AppReads
    <3>1. PICK k \in 1 .. Len(app_stream) :
            /\ app_buffer' = app_buffer \o SubSeq(app_stream, 1, k)
            /\ app_stream' = SubSeq(app_stream, k + 1, Len(app_stream))
      BY <2>2 DEF AppReads
    <3> QED
      BY <1>4, <3>1, ReadingMoves
  <2> QED
    BY <2>1, <2>2
<1>6. OnTheWay(n)'
  BY <1>1, <1>2, <1>5 DEF OnTheWay
<1>7. ServiceTypeOK'
  BY <1>0, <1>2, <1>5 DEF ServiceTypeOK, Bytes
<1> QED
  BY <1>3, <1>6, <1>7 DEF ServiceInv, Carried

\* The listener posts the command that is next.
LEMMA PostsNext ==
  ASSUME ServiceInv, AppPosts
  PROVE  /\ ServiceInv' /\ Len(posted) \in Nat /\ Len(posted) < Len(accepted)
         /\ posted' = Append(posted, TextOf(accepted[Len(posted) + 1]))
<1>0. ServiceTypeOK /\ BacklogWaits /\ PostedCommands
  BY DEF ServiceInv
<1>1. PICK n \in Nat : ServedLine(n) /\ NothingCut(n) /\ OnTheWay(n)
  BY DEF ServiceInv, Carried
<1>2. /\ HasLine(app_buffer) /\ app_buffer' = AfterLine(app_buffer)
      /\ posted' = IF FirstLine(app_buffer) = <<>> THEN posted
                   ELSE Append(posted, FirstLine(app_buffer))
      /\ UNCHANGED <<service, g_running, client, cmd_backlog, cmd_client, cmd_stream, buffer,
                     accepted, app, app_stream>>
  BY DEF AppPosts, cmdVars
<1> DEFINE k == n - Len(posted)
           c == accepted[Len(posted) + 1]
<1>3. /\ app_stream \in Seq(Bytes) /\ app_buffer \in Seq(Bytes) /\ accepted \in Seq(Clients)
      /\ posted \in Seq(Seq(Clients)) /\ Len(posted) \in Nat /\ Len(accepted) \in Nat
  BY <1>0, LenProperties DEF ServiceTypeOK, Bytes
<1>4. /\ k \in Nat /\ Len(posted) + k <= Len(accepted) /\ n = Len(posted) + k
      /\ LinesOf(app_buffer \o app_stream, accepted, Len(posted), k)
  BY <1>1, <1>3 DEF OnTheWay
<1> HIDE DEF k
<1>5. /\ k > 0 /\ FirstLine(app_buffer) = TextOf(c) /\ app_buffer' \in Seq(Bytes)
      /\ LinesOf(app_buffer' \o app_stream, accepted, Len(posted) + 1, k - 1)
  BY <1>2, <1>3, <1>4, LinesShrink
<1>6. c \in Clients
  BY <1>3, <1>4, <1>5, ElementOfSeq
<1> HIDE DEF c
<1>7. TextOf(c) \in Seq(Clients) /\ TextOf(c) # <<>> /\ posted' = Append(posted, TextOf(c))
  BY <1>2, <1>5, <1>6, LineIsThree
<1>8. /\ posted' \in Seq(Seq(Clients)) /\ Len(posted') = Len(posted) + 1
      /\ \A i \in 1 .. Len(posted) : posted'[i] = posted[i]
      /\ posted'[Len(posted) + 1] = TextOf(c)
  <2> DEFINE text == TextOf(c)
  <2>1. text \in Seq(Clients) /\ posted' = Append(posted, text)
    BY <1>7
  <2> HIDE DEF text
  <2>2. /\ posted' \in Seq(Seq(Clients)) /\ Len(posted') = Len(posted) + 1
        /\ \A i \in 1 .. Len(posted) : posted'[i] = posted[i]
        /\ posted'[Len(posted) + 1] = text
    BY <1>3, <2>1, AppendProperties
  <2> QED
    BY <2>2 DEF text
<1>9. ServiceTypeOK'
  BY <1>0, <1>2, <1>3, <1>5, <1>8 DEF ServiceTypeOK, Bytes
<1>10. PostedCommands'
  BY <1>0, <1>2, <1>3, <1>8 DEF PostedCommands, c
<1>11. OnTheWay(n)'
  <2>1. n - (Len(posted) + 1) = k - 1
    BY <1>3, <1>4
  <2>2. LinesOf(app_buffer' \o app_stream', accepted', Len(posted'), n - Len(posted'))
    BY <1>2, <1>5, <1>8, <2>1
  <2>3. Len(posted') <= n /\ n <= Len(accepted')
    BY <1>1, <1>2, <1>3, <1>4, <1>5, <1>8 DEF OnTheWay
  <2> QED
    BY <2>2, <2>3 DEF OnTheWay
<1>12. BacklogWaits' /\ ServedLine(n)' /\ NothingCut(n)'
  BY <1>0, <1>1, <1>2 DEF BacklogWaits, Waits, ServedLine, NothingCut
<1>13. Len(posted) < Len(accepted)
  BY <1>3, <1>4, <1>5
<1> QED
  BY <1>3, <1>7, <1>9, <1>10, <1>11, <1>12, <1>13 DEF ServiceInv, Carried, c
\* ServiceInv is inductive: a line is at each moment in one place, the buffer and
\* stream of its client, the buffer and stream of the listener, or posted.
THEOREM ServiceInvariance == ServiceSafetySpec => []ServiceInv
<1>1. ServiceInv /\ [Next]_serviceVars => ServiceInv'
  <2> SUFFICES ASSUME ServiceInv, [Next]_serviceVars
               PROVE  ServiceInv'
    OBVIOUS
  <2>1. CASE \E c \in Clients : ClientStep(c)
    BY <2>1, ClientSteps
  <2>2. CASE HandleSignal \/ AppConnects \/ AppExits
    BY <2>2, AppSteps
  <2>3. CASE ListenLoop
    BY <2>3, AppSteps, PostsNext DEF ListenLoop
  <2>4. CASE ServiceStep
    BY <2>4, QuietSteps, AcceptStep, ReadStep, ForwardStep DEF ServiceStep
  <2>5. CASE UNCHANGED serviceVars
    <3>1. UNCHANGED <<service, g_running, app, client, cmd_backlog, cmd_client, cmd_stream,
                      buffer, app_stream, app_buffer, accepted, posted>>
      BY <2>5 DEF serviceVars, cmdVars, appVars
    <3>2. ServiceTypeOK /\ BacklogWaits /\ PostedCommands /\ Carried
      BY DEF ServiceInv
    <3>3. ServiceTypeOK'
      BY <3>1, <3>2 DEF ServiceTypeOK
    <3>4. BacklogWaits' /\ PostedCommands'
      BY <3>1, <3>2 DEF BacklogWaits, Waits, PostedCommands
    <3>5. Carried'
      BY <3>1, <3>2 DEF Carried, ServedLine, NothingCut, OnTheWay
    <3> QED
      BY <3>3, <3>4, <3>5 DEF ServiceInv
  <2> QED
    BY <2>1, <2>2, <2>3, <2>4, <2>5 DEF Next
<1> QED
  BY <1>1, ServiceInitially, PTL DEF ServiceSafetySpec

\* The variables keep their types; in particular what ListenLoop posts is made of
\* the characters of commands, never of a newline.
THEOREM ServiceTypeCorrect == ServiceSafetySpec => []ServiceTypeOK
<1>1. ServiceInv => ServiceTypeOK
  BY DEF ServiceInv
<1> QED
  BY <1>1, ServiceInvariance, PTL

-------------------------------------------------------------------------------
Texts(clients) == [i \in DOMAIN clients |-> TextOf(clients[i])]

LEMMA TextsAreSequence ==
  ASSUME NEW clients \in Seq(Clients)
  PROVE  /\ Texts(clients) \in Seq(Seq(Clients)) /\ Len(clients) \in Nat
         /\ Len(Texts(clients)) = Len(clients)
         /\ \A i \in 1 .. Len(clients) : Texts(clients)[i] = TextOf(clients[i])
<1>1. Len(clients) \in Nat /\ DOMAIN clients = 1 .. Len(clients)
      /\ \A i \in 1 .. Len(clients) : clients[i] \in Clients
  BY LenProperties, ElementOfSeq
<1>2. \A i \in 1 .. Len(clients) : TextOf(clients[i]) \in Seq(Clients)
  BY <1>1, LineIsThree
<1>3. Texts(clients) \in [1 .. Len(clients) -> Seq(Clients)]
      /\ \A i \in 1 .. Len(clients) : Texts(clients)[i] = TextOf(clients[i])
  BY <1>1, <1>2 DEF Texts
<1> HIDE DEF Texts
<1>4. Texts(clients) \in Seq(Seq(Clients)) /\ Len(Texts(clients)) = Len(clients)
  <2>1. Texts(clients) \in Seq(Seq(Clients))
    BY <1>1, <1>3, SeqDef
  <2>2. DOMAIN Texts(clients) = 1 .. Len(clients)
    BY <1>3
  <2>3. DOMAIN Texts(clients) = 1 .. Len(Texts(clients)) /\ Len(Texts(clients)) \in Nat
    BY <2>1, LenProperties
  <2> QED
    BY <1>1, <2>1, <2>2, <2>3
<1> QED
  BY <1>1, <1>3, <1>4

\* Whatever the application has taken is the beginning of what was accepted: no
\* command is lost, doubled, joined to another or overtaken (ProcessLines in both
\* programs, and the loop over the clients in main).
THEOREM CommandsComeInOrder == ServiceSafetySpec => []CommandsInOrder
<1>1. ServiceInv => CommandsInOrder
  <2> SUFFICES ASSUME ServiceInv
               PROVE  CommandsInOrder
    OBVIOUS
  <2>1. /\ accepted \in Seq(Clients) /\ posted \in Seq(Seq(Clients))
        /\ Len(posted) \in Nat /\ Len(posted) <= Len(accepted)
        /\ \A i \in 1 .. Len(posted) : posted[i] = TextOf(accepted[i])
    <3>1. PICK n \in Nat : OnTheWay(n)
      BY DEF ServiceInv, Carried
    <3>2. accepted \in Seq(Clients) /\ posted \in Seq(Seq(Clients))
      BY DEF ServiceInv, ServiceTypeOK
    <3>3. Len(posted) \in Nat /\ Len(accepted) \in Nat
      BY <3>2, LenProperties
    <3> QED
      BY <3>1, <3>2, <3>3 DEF ServiceInv, OnTheWay, PostedCommands
  <2>2. Commands = Texts(accepted)
    BY DEF Commands, Texts
  <2>3. /\ Commands \in Seq(Seq(Clients)) /\ Len(Commands) = Len(accepted)
        /\ \A i \in 1 .. Len(posted) : Commands[i] = posted[i]
    <3>1. /\ Texts(accepted) \in Seq(Seq(Clients)) /\ Len(Texts(accepted)) = Len(accepted)
          /\ \A i \in 1 .. Len(accepted) : Texts(accepted)[i] = TextOf(accepted[i])
          /\ Len(accepted) \in Nat
      BY <2>1, TextsAreSequence
    <3>2. \A i \in 1 .. Len(posted) : Texts(accepted)[i] = posted[i]
      BY <2>1, <3>1
    <3> QED
      BY <2>2, <3>1, <3>2
  <2> HIDE DEF Commands
  <2> DEFINE part == SubSeq(Commands, 1, Len(posted))
  <2>4. /\ part \in Seq(Seq(Clients)) /\ Len(part) = Len(posted)
        /\ \A i \in 1 .. Len(posted) : part[i] = Commands[i]
    <3>1. \A i \in 1 .. Len(posted) : Commands[i] \in Seq(Clients)
      BY <2>1, <2>3, ElementOfSeq
    <3> QED
      BY <2>1, <3>1, SubSeqProperties
  <2> HIDE DEF part
  <2>5. part = posted
    BY <2>1, <2>3, <2>4, SeqEqual
  <2>6. SubSeq(posted, 1, Len(posted)) = posted
    BY <2>1, SubSeqFull
  <2> QED
    BY <2>1, <2>3, <2>5, <2>6 DEF CommandsInOrder, IsPrefix, part
<1> QED
  BY <1>1, ServiceInvariance, PTL

-------------------------------------------------------------------------------
\* What CommandChannel calls sent: the commands of all clients that connected.
Sent == Texts(accepted \o cmd_backlog)

LEMMA SentIsSequence ==
  ASSUME ServiceTypeOK
  PROVE  /\ accepted \o cmd_backlog \in Seq(Clients)
         /\ Len(accepted \o cmd_backlog) = Len(accepted) + Len(cmd_backlog)
         /\ Len(accepted) \in Nat /\ Len(cmd_backlog) \in Nat
         /\ \A i \in 1 .. Len(accepted) : (accepted \o cmd_backlog)[i] = accepted[i]
<1>1. accepted \in Seq(Clients) /\ cmd_backlog \in Seq(Clients)
  BY DEF ServiceTypeOK
<1>2. /\ accepted \o cmd_backlog \in Seq(Clients)
      /\ Len(accepted \o cmd_backlog) = Len(accepted) + Len(cmd_backlog)
      /\ \A i \in 1 .. Len(accepted) + Len(cmd_backlog) :
           (accepted \o cmd_backlog)[i] =
             IF i <= Len(accepted) THEN accepted[i] ELSE cmd_backlog[i - Len(accepted)]
  BY <1>1, ConcatProperties
<1>3. Len(accepted) \in Nat /\ Len(cmd_backlog) \in Nat
  BY <1>1, LenProperties
<1> QED
  BY <1>2, <1>3

\* Connecting is sending.
LEMMA ConnectIsSend ==
  ASSUME ServiceTypeOK, NEW c \in Clients, ClientConnects(c)
  PROVE  Sent' = Append(Sent, TextOf(c)) /\ posted' = posted
<1> DEFINE cs == accepted \o cmd_backlog
<1>1. cs \in Seq(Clients) /\ accepted \in Seq(Clients) /\ cmd_backlog \in Seq(Clients)
  BY SentIsSequence DEF ServiceTypeOK
<1>2. accepted' = accepted /\ cmd_backlog' = Append(cmd_backlog, c) /\ posted' = posted
  BY DEF ClientConnects, appVars
<1>3. accepted' \o cmd_backlog' = Append(cs, c)
  <2>1. Append(cmd_backlog, c) = cmd_backlog \o <<c>> /\ Append(cs, c) = cs \o <<c>>
        /\ <<c>> \in Seq(Clients)
    BY <1>1, AppendIsConcat
  <2> DEFINE last == <<c>>
  <2> HIDE DEF last
  <2>2. (accepted \o cmd_backlog) \o last = accepted \o (cmd_backlog \o last)
    <3>1. last \in Seq(Clients)
      BY <2>1 DEF last
    <3> QED
      BY <1>1, <3>1, ConcatAssociative
  <2> QED
    BY <1>2, <2>1, <2>2 DEF last
<1> HIDE DEF cs
<1>4. /\ Append(cs, c) \in Seq(Clients) /\ Len(Append(cs, c)) = Len(cs) + 1
      /\ \A i \in 1 .. Len(cs) : Append(cs, c)[i] = cs[i]
      /\ Append(cs, c)[Len(cs) + 1] = c
  BY <1>1, AppendProperties
<1> DEFINE text == TextOf(c)
           old == Texts(cs)
           new == Texts(Append(cs, c))
<1>5. /\ old \in Seq(Seq(Clients)) /\ Len(old) = Len(cs) /\ Len(cs) \in Nat
      /\ \A i \in 1 .. Len(cs) : old[i] = TextOf(cs[i])
  BY <1>1, TextsAreSequence
<1>6. /\ new \in Seq(Seq(Clients)) /\ Len(new) = Len(cs) + 1
      /\ \A i \in 1 .. Len(cs) + 1 : new[i] = TextOf(Append(cs, c)[i])
  BY <1>4, TextsAreSequence
<1>7. text \in Seq(Clients) /\ new[Len(cs) + 1] = text
      /\ \A i \in 1 .. Len(cs) : new[i] = old[i]
  <2>1. text \in Seq(Clients)
    BY LineIsThree
  <2> HIDE DEF old, new
  <2>2. Len(cs) + 1 \in 1 .. Len(cs) + 1 /\ \A i \in 1 .. Len(cs) : i \in 1 .. Len(cs) + 1
    BY <1>5
  <2>3. new[Len(cs) + 1] = text
    BY <1>4, <1>6, <2>2
  <2>4. \A i \in 1 .. Len(cs) : new[i] = old[i]
    BY <1>4, <1>5, <1>6, <2>2
  <2> QED
    BY <2>1, <2>3, <2>4
<1>8. Sent' = new /\ Sent = old
  BY <1>3 DEF Sent, cs
<1> HIDE DEF text, old, new
<1>9. /\ Append(old, text) \in Seq(Seq(Clients)) /\ Len(Append(old, text)) = Len(cs) + 1
      /\ \A i \in 1 .. Len(cs) : Append(old, text)[i] = old[i]
      /\ Append(old, text)[Len(cs) + 1] = text
  BY <1>5, <1>7, AppendProperties
<1>10. new = Append(old, text)
  <2>1. \A i \in 1 .. Len(cs) + 1 : new[i] = Append(old, text)[i]
    BY <1>5, <1>7, <1>9
  <2> QED
    BY <1>6, <1>9, <2>1, SeqEqual
<1> QED
  BY <1>2, <1>8, <1>10 DEF text

\* Accepting moves the border between the two parts of what was sent.
LEMMA AcceptIsSilent ==
  ASSUME ServiceTypeOK, AcceptClient
  PROVE  Sent' = Sent /\ posted' = posted
<1> DEFINE c == Head(cmd_backlog)
           rest == Tail(cmd_backlog)
           one == <<c>>
<1>1. /\ cmd_backlog \in Seq(Clients) /\ accepted \in Seq(Clients) /\ cmd_backlog # <<>>
      /\ accepted' = Append(accepted, c) /\ cmd_backlog' = rest /\ posted' = posted
  BY DEF ServiceTypeOK, AcceptClient, appVars
<1>2. c \in Clients /\ rest \in Seq(Clients) /\ one \in Seq(Clients)
  BY <1>1, HeadTailProperties
<1>3. Append(accepted, c) = accepted \o one
  BY <1>1, <1>2, AppendIsConcat
<1>4. one \o rest = cmd_backlog
  <2>1. Len(cmd_backlog) \in Nat /\ Len(cmd_backlog) > 0
    BY <1>1, LenProperties, EmptySeq
  <2>2. SubSeq(cmd_backlog, 1, Len(cmd_backlog)) =
          <<cmd_backlog[1]>> \o SubSeq(cmd_backlog, 1 + 1, Len(cmd_backlog))
    BY <1>1, <2>1, SubSeqRecursiveFirst
  <2>3. SubSeq(cmd_backlog, 1, Len(cmd_backlog)) = cmd_backlog
        /\ rest = SubSeq(cmd_backlog, 2, Len(cmd_backlog)) /\ c = cmd_backlog[1]
    BY <1>1, SubSeqFull, TailIsSubSeq
  <2> QED
    BY <2>2, <2>3
<1> HIDE DEF c, rest, one
<1>5. (accepted \o one) \o rest = accepted \o (one \o rest)
  BY <1>1, <1>2, ConcatAssociative
<1> QED
  BY <1>1, <1>3, <1>4, <1>5 DEF Sent

\* A service with its clients and its listener is a CommandChannel.
THEOREM ChannelImplemented == ServiceSafetySpec => ImplementsChannel
<1>1. ASSUME Init
      PROVE  Channel!ChannelInit
  <2>1. <<>> \in Seq(Clients) /\ accepted \o cmd_backlog = <<>> /\ posted = <<>>
    BY <1>1, EmptySeq, ConcatEmptySeq DEF Init
  <2>2. Sent = <<>>
    BY <2>1, TextsAreSequence, EmptySeq DEF Sent
  <2> QED
    BY <2>1, <2>2 DEF Channel!ChannelInit, Sent, Texts
<1>2. ASSUME ServiceInv, [Next]_serviceVars
      PROVE  [Channel!ChannelNext]_(Channel!channelVars)
  <2>0. ServiceTypeOK
    BY <1>2 DEF ServiceInv
  <2>1. ASSUME Sent' = Sent, posted' = posted
        PROVE  UNCHANGED Channel!channelVars
    BY <2>1 DEF Channel!channelVars, Sent, Texts
  <2>2. ASSUME UNCHANGED <<accepted, cmd_backlog, posted>>
        PROVE  UNCHANGED Channel!channelVars
    BY <2>1, <2>2 DEF Sent, Texts
  <2>3. CASE \E c \in Clients : ClientConnects(c)
    <3>1. PICK c \in Clients : ClientConnects(c)
      BY <2>3
    <3>2. Sent' = Append(Sent, TextOf(c)) /\ posted' = posted
      BY <2>0, <3>1, ConnectIsSend
    <3>3. Channel!Send(TextOf(c))
      BY <3>2 DEF Channel!Send, Sent, Texts
    <3>4. TextOf(c) \in {TextOf(d) : d \in Clients}
      BY <3>1
    <3> QED
      BY <3>3, <3>4, Zenon DEF Channel!ChannelNext
  <2>4. CASE \E c \in Clients : ClientWrites(c) \/ ClientCloses(c)
    BY <2>2, <2>4 DEF ClientWrites, ClientCloses, appVars
  <2>5. CASE AcceptClient
    BY <2>0, <2>1, <2>5, AcceptIsSilent
  <2>6. CASE AppPosts
    <3>1. /\ Len(posted) \in Nat /\ Len(posted) < Len(accepted)
          /\ posted' = Append(posted, TextOf(accepted[Len(posted) + 1]))
      BY <1>2, <2>6, PostsNext
    <3>2. accepted' = accepted /\ cmd_backlog' = cmd_backlog
      BY <2>6 DEF AppPosts, cmdVars
    <3>3. /\ Len(posted) < Len(Sent)
          /\ Sent[Len(posted) + 1] = TextOf(accepted[Len(posted) + 1])
      <4>1. Len(posted) + 1 \in 1 .. Len(accepted)
            /\ Len(posted) + 1 \in 1 .. Len(accepted \o cmd_backlog)
        BY <2>0, <3>1, SentIsSequence
      <4>2. Len(Sent) = Len(accepted \o cmd_backlog)
            /\ Sent[Len(posted) + 1] = TextOf((accepted \o cmd_backlog)[Len(posted) + 1])
        BY <2>0, <4>1, SentIsSequence, TextsAreSequence DEF Sent
      <4> QED
        BY <2>0, <3>1, <4>1, <4>2, SentIsSequence
    <3>4. Channel!Deliver
      BY <3>1, <3>2, <3>3 DEF Channel!Deliver, Channel!Undelivered, Channel!NextCommand,
                              Sent, Texts
    <3> QED
      BY <3>4 DEF Channel!ChannelNext
  <2>7. CASE HandleSignal \/ AppConnects \/ AppReads \/ AppExits
    BY <2>2, <2>7 DEF HandleSignal, AppConnects, AppReads, AppExits, cmdVars, appVars
  <2>8. CASE ServiceStep /\ ~AcceptClient
    BY <2>2, <2>8 DEF ServiceStep, AcceptApp, TestsRunning, PollTimesOut, TestsServing,
                      ReadsClient, ClientEnds, ForwardLine, ForwardKills, LinesDone,
                      ClosesClient, cmdVars, appVars
  <2>9. CASE UNCHANGED serviceVars
    BY <2>2, <2>9 DEF serviceVars, cmdVars, appVars
  <2> QED
    BY <1>2, <2>3, <2>4, <2>5, <2>6, <2>7, <2>8, <2>9 DEF Next, ClientStep, ListenLoop
<1> QED
  BY <1>1, <1>2, ServiceInvariance, PTL DEF ServiceSafetySpec, ImplementsChannel,
                                           Channel!ChannelSpec
==============================================================================
