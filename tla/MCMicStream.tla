------------------------------- MODULE MCMicStream -------------------------------
(***************************************************************************)
(* The microphone of the page with stop() pressed while start() awaits the *)
(* clock, the permission or the worklet (microphone.cfg).                  *)
(***************************************************************************)
EXTENDS MicStream
=============================================================================
