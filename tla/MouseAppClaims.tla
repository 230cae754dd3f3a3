--------------------------- MODULE MouseAppClaims ---------------------------
(***************************************************************************)
(* What comments and checks of main.c say and the program does not keep.   *)
(* SwitchesDevices has a run; the others are violated too, with one device *)
(* or two and a flash queue of four, KEY_2 and KEY_3 among the buttons.    *)
(***************************************************************************)
EXTENDS MouseApp

\* advertising that nobody answers times out
TimesOutSpec ==
    /\ FairSpec
    /\ \/ <>[]~(Running /\ MayAnnounce /\ fw.radio # "off")
       \/ []<><<AdvertisingTimeout>>_vars

\* main.c:184, "and serially switch device on white list": when two devices
\* were detected, the application wants to advertise and nobody connects, the
\* second device is offered in the end.
SwitchesDevices ==
    /\ Running
    /\ fw.phase = "CONNECTION"
    /\ fw.quantityDetectedDev > 1
    /\ fw.isAppAdv
    ~> \/ fw.connectCnt > 0
       \/ fw.link # NoDev
       \/ fw.phase # "CONNECTION"
       \/ ~fw.isAppAdv
       \/ ~Running

\* main.c:820, "delete all previous records with the same KEY and ID": when the
\* flash is idle there is one order record at most.  A write that is still
\* waiting is no record yet, and the next write does not find it.
OneOrderRecord ==
    Running /\ ~FlashIsBusy(fw) => Len(fw.orderRecs) <= 1

\* main.c:183, scanning is advertising "with rejection ALL input connection":
\* when the CONNECTED of a link that comes up while scanning has been handled,
\* the link is being terminated or the main loop is about to do so.
RejectsWhileScanning ==
    /\ Running /\ fw.evts = <<>> /\ ~fw.advStartPending
    /\ fw.phase = "SCANNING"
    /\ fw.currentAdvType = "RECONNECT_SCAN"
    /\ fw.link # NoDev
    => fw.closing \/ (fw.isAppAdv /\ ~fw.isRealAdv)

\* main.c:764, "Clear bond information from persistent storage": when the
\* flash has come to rest no bond is left of a peer that was deleted, that is,
\* of an id that is not in use.
BondsCleared ==
    Running /\ ~FlashIsBusy(fw) =>
        \A i \in Ids : HasBond(fw, i) => i \in fw.used

\* main.c:546, "use this stop adv for activate white list with new devices":
\* the radio does not hold on to the old list, and the check of line 556 holds.
StopFreesLists == fw.fault # "appAdvSetStart"

\* main.c:346, the check that sd_ble_gap_disconnect has succeeded.
DisconnectChecked == fw.fault # "appDisconnect"
=============================================================================
