----------------------------- MODULE MCUartLink -----------------------------
(* UartLink with the constants of the .cfg file, which meet Timing: the last of
   its conditions with equality. *)
EXTENDS UartLink

ASSUME InstanceAssumption == Timing
=============================================================================
