---------------------------- MODULE CommandChannel ----------------------------
(***************************************************************************)
(* What a service does for its slld clients: the commands come out at the  *)
(* listener of the application's wrapper in the order in which the clients *)
(* connected, each once and whole.  Nothing is said about the commands of  *)
(* another service.  A command that is not delivered yet may never be, if  *)
(* the service or the application ends.                                    *)
(***************************************************************************)
EXTENDS Naturals, Sequences

CONSTANTS Commands

VARIABLES
  sent,       \* the commands, in the order in which their clients connected
  delivered   \* those that the listener has taken

channelVars == <<sent, delivered>>

ChannelInit == sent = <<>> /\ delivered = <<>>

Send(c) ==
  /\ sent' = Append(sent, c)
  /\ UNCHANGED delivered

Undelivered == Len(delivered) < Len(sent)

NextCommand == sent[Len(delivered) + 1]

Deliver ==
  /\ Undelivered
  /\ delivered' = Append(delivered, NextCommand)
  /\ UNCHANGED sent

ChannelNext == Deliver \/ \E c \in Commands : Send(c)

ChannelSpec == ChannelInit /\ [][ChannelNext]_channelVars
===============================================================================
