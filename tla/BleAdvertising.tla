--------------------------- MODULE BleAdvertising ---------------------------
(***************************************************************************)
(* The advertising module of the SDK (components/ble/ble_advertising) and  *)
(* the part of main.c it calls back: on_adv_evt, with the calls that stop  *)
(* advertising and the connection.  The modes main.c enables are the fast  *)
(* one, with whitelist: DIRECTED goes on to FAST, SLOW to IDLE.            *)
(***************************************************************************)
EXTENDS PeerManager

NoFault == "none"

\* the advertising state of main.c and that of the module
AdvBoot ==
    [isRealAdv        |-> FALSE,
     isAppAdv         |-> FALSE,
     connectState     |-> "DISCONNECT",
     advModeCurrent   |-> "IDLE",   \* adv_mode_current
     advStartPending  |-> FALSE,    \* advertising_start_pending
     whitelistOff     |-> FALSE,    \* whitelist_temporarily_disabled
     fault            |-> NoFault]  \* the function whose check has failed

\* APP_ERROR_CHECK: the first failure resets the chip, see MouseApp
Check(s, where) ==
    IF s.ret # "SUCCESS" /\ s.fault = NoFault
    THEN [s EXCEPT !.fault = where] ELSE s

-----------------------------------------------------------------------------
AppDisconnect(s) ==
    IF s.connectState # "CONNECT" THEN s
    ELSE Check(SdDisconnect([s EXCEPT !.connectState = "START_DISCONNECT",
                                      !.isRealAdv = TRUE]),
               "appDisconnect")

AppAdvStop(s) ==
    LET stopped == [s EXCEPT !.isAppAdv = FALSE]
    IN  IF s.connectState # "DISCONNECT" \/ ~s.isRealAdv THEN stopped
        ELSE Check(SdAdvStop([stopped EXCEPT !.isRealAdv = FALSE]),
                   "appAdvStop")

\* mutant of OnAdvEvt: the end of advertising is not noted
OnAdvEvtDeaf(s, evt) ==
    IF evt # "IDLE" /\ ~s.isAppAdv THEN AppAdvStop(s) ELSE s

\* on_adv_evt: the answer to a whitelist request comes with its own operator
OnAdvEvt(s, evt) ==
    IF evt = "IDLE" THEN [s EXCEPT !.isRealAdv = FALSE]
    ELSE IF ~s.isAppAdv THEN AppAdvStop(s)
    ELSE s

\* BLE_ADV_EVT_WHITELIST_REQUEST, and whether the whitelist has entries
OnWhitelistRequest(s) ==
    IF ~s.isAppAdv THEN AppAdvStop(s)
    ELSE Check(PmWhitelistGet(s), "on_adv_evt")

WhitelistInUse(s) == s.isAppAdv /\ s.wlisted # <<>>

-----------------------------------------------------------------------------
\* adv_mode_next_get
ModeNext ==
    [IDLE |-> "DIRECTED", DIRECTED |-> "DIRECTED_SLOW",
     DIRECTED_SLOW |-> "FAST", FAST |-> "SLOW", SLOW |-> "IDLE"]

\* adv_mode_next_avail_get, for the modes main.c enables
NextAvailable(mode) ==
    IF mode \in {"DIRECTED", "DIRECTED_SLOW", "FAST"} THEN "FAST" ELSE "IDLE"

StartFast(s) ==
    LET asked  == IF s.whitelistOff THEN s ELSE OnWhitelistRequest(s)
        filter == IF ~s.whitelistOff /\ WhitelistInUse(s) THEN "wl" ELSE "any"
        on     == SdAdvStart(asked, filter)
    IN  IF on.ret = "SUCCESS" THEN Return(OnAdvEvt(on, "FAST"), "SUCCESS")
                              ELSE on


\* ble_advertising_start: put off while the flash is busy
BleAdvertisingStart(s, mode) ==
    IF FlashIsBusy(s)
    THEN [s EXCEPT !.advModeCurrent = mode, !.advStartPending = TRUE,
                   !.ret = "SUCCESS"]
    ELSE IF NextAvailable(mode) = "FAST"
    THEN StartFast([s EXCEPT !.advModeCurrent = "FAST"])
    ELSE Return(OnAdvEvt([s EXCEPT !.advModeCurrent = "IDLE"], "IDLE"),
                "SUCCESS")

\* the module's own calls report a failure to the error handler
Restart(s, mode) ==
    Check(BleAdvertisingStart(s, mode), "ble_advertising_error_handler")

OnDisconnected(s) == Restart([s EXCEPT !.whitelistOff = FALSE], "DIRECTED")

OnTimeout(s) == Restart(s, ModeNext[s.advModeCurrent])

\* mutant of OnSysEvt: the start that was put off is forgotten
OnSysEvtForgets(s) == [s EXCEPT !.advStartPending = FALSE]

OnSysEvt(s) ==
    IF s.advStartPending
    THEN Restart([s EXCEPT !.advStartPending = FALSE], s.advModeCurrent)
    ELSE s

\* ble_advertising_restart_without_whitelist: whether it stops is not looked at
RestartWithoutWhitelist(s) ==
    Restart([SdAdvStop(s) EXCEPT !.whitelistOff = TRUE], s.advModeCurrent)
=============================================================================
