------------------------------ MODULE MCNrfSdh ------------------------------
(***************************************************************************)
(* A queue of two events, so that it wraps and overflows, SD_EVT above     *)
(* RTC1, two timers and a few arrivals.                                    *)
(***************************************************************************)
EXTENDS NrfSdh

SdEvtAboveRtc1 == [i \in {"SD_EVT", "RTC1"} |-> IF i = "SD_EVT" THEN 2 ELSE 1]
TheInterrupts == {"SD_EVT", "RTC1"}
TheHandlers == {"appsh_events_poll", "timeout_handler_scheduled_exec"}
TheData == {"t1", "t2", "none"}
=============================================================================
