----------------------------- MODULE MCNativeInput -----------------------------
(* Instances of NativeInput for TLC.                                           *)
EXTENDS NativeInput

\* Kinds of requests
Typing == {"down", "text"}
Steering == {"down", "up", "text", "close", "clip"}

\* What else may happen
Toolkit == {"expire", "giveup", "gone", "refuse"}
Everything == AllEvents \ {"gone", "refuse", "giveup"}
================================================================================
