----------------------------- MODULE SoundContract -----------------------------
(***************************************************************************)
(* What the application may rely on when it asks AudioService for the      *)
(* stop-completed sound: each request is reported once, in its own time,   *)
(* as long as the service is up.  When the service ends, the sounds that   *)
(* play, or that it has not begun to play, may be lost.                    *)
(***************************************************************************)
EXTENDS Naturals

VARIABLES
  audio,    \* "absent" (there is no connection), "up", or "gone" once it has ended
  sounds,   \* requests whose completion has not been reported
  reported  \* history, kept by SoundNext: the completions

soundVars == <<audio, sounds, reported>>

SoundInit ==
  /\ audio \in {"absent", "up"}
  /\ sounds = 0
  /\ reported = 0

\* Without a connection the wrapper returns at once and asks for nothing.
Request ==
  /\ audio # "gone"
  /\ sounds' = IF audio = "up" THEN sounds + 1 ELSE sounds
  /\ UNCHANGED audio

Report ==
  /\ sounds > 0
  /\ sounds' = sounds - 1
  /\ UNCHANGED audio

ServiceEnds ==
  /\ audio = "up"
  /\ audio' = "gone"
  /\ UNCHANGED sounds

\* What the service wrote before its end may still be reported; the rest is lost.
SoundIsLost ==
  /\ audio = "gone"
  /\ sounds > 0
  /\ sounds' = sounds - 1
  /\ UNCHANGED audio

SoundNext ==
  \/ Request /\ UNCHANGED reported
  \/ Report /\ reported' = reported + 1
  \/ (ServiceEnds \/ SoundIsLost) /\ UNCHANGED reported

SoundSpec == SoundInit /\ [][SoundNext]_soundVars
===============================================================================
