--------------------------- MODULE AppAdvertising ---------------------------
(***************************************************************************)
(* The advertising state machine of main.c (ble_app_hids_mouse): which     *)
(* devices the mouse lets connect, scanning first for those around and     *)
(* then offering itself to one after the other, and the handler of the     *)
(* peer manager's events.                                                  *)
(***************************************************************************)
EXTENDS BleAdvertising, OrderList

CONSTANTS
    WhitelistMax   \* BLE_GAP_WHITELIST_ADDR_MAX_COUNT, 8 in the firmware

DirectConnQuantity == 3    \* DIRECT_CONN_QUANTITY
DetectedDevFree    == 255  \* DETECTED_DEV_FREE
PeerIdByte         == 255  \* PM_PEER_ID_INVALID cast to uint8_t

ASSUME AppAssumption ==
    /\ WhitelistMax \in Nat
    /\ WhitelistMax > OrderItemQuantity
    /\ Items = Ids \cup {PeerIdByte}

Detected == 0 .. WhitelistMax - 1

\* flashMemReadBytes: the last of the records is left in the list, and without
\* one the list stays as orderMalloc has made it
OrderReadFlash(recs) == IF recs = <<>> THEN CleanOrder ELSE Last(recs)

AppBoot(recs) ==
    [currentAdvType      |-> "IDLE",
     isDeleteBonds       |-> FALSE,
     isPrevConn          |-> FALSE,
     connHandle          |-> FALSE,  \* m_conn_handle is that of a connection
     peerId              |-> 0,      \* m_peer_id
     whitelistPeers      |-> <<>>,   \* m_whitelist_peers, m_whitelist_peer_cnt
     phase               |-> "SCANNING",
     listDetectedDev     |-> [k \in Detected |-> DetectedDevFree],
     quantityDetectedDev |-> 0,
     connectCnt          |-> 0,
     loopCnt             |-> 0,
     deviceOrder         |-> OrderReadFlash(recs),
     orderRecs           |-> recs,   \* the records of FILE_ORDER in flash
     scanTimer           |-> "idle"] \* stopScanAdvTimerCallback

-----------------------------------------------------------------------------
\* The queue takes the operations it has room for.  One that it refuses is
\* forgotten, if it comes to that: queue_buf_get clears the operation it has
\* not been given, at address 0.
FdsTry(s, ops) ==
    LET room == FdsQueueSize - Len(s.fdsq)
    IN  [s EXCEPT !.fdsq    = @ \o SubSeq(ops, 1, Min({room, Len(ops)})),
                  !.overrun = @ \/ room < Len(ops)]

\* flashMemWriteBytes: each of the records in flash is to be deleted, then the
\* list is to be written, which is read when the flash comes to it
OrderWriteFlash(s) ==
    LET Do(op, k) == [op |-> op, id |-> k, dev |-> NoDev]
    IN  FdsTry(s, Append([k \in DOMAIN s.orderRecs |-> Do("unorder", k)],
                         Do("order", 0)))


\* orderSetFirst takes a uint8_t
AddOrder(s, peerId) ==
    OrderWriteFlash([s EXCEPT !.deviceOrder = OrderSetFirst(@, peerId % 256)])

-----------------------------------------------------------------------------
AppAdvStart(s) ==
    IF s.connectState = "CONNECT"
    THEN AppDisconnect([s EXCEPT !.isAppAdv = TRUE])
    ELSE IF s.connectState = "START_DISCONNECT"
    THEN [s EXCEPT !.isAppAdv = TRUE]
    ELSE IF s.isRealAdv THEN s
    ELSE Check(BleAdvertisingStart([s EXCEPT !.isAppAdv  = TRUE,
                                             !.isRealAdv = TRUE], "FAST"),
               "appAdvStart")

\* what each type of advertising puts on the list of peers
AddNew(s) ==
    [s EXCEPT !.currentAdvType = "ADD_NEW", !.whitelistPeers = <<>>]

\* mutant of ReconnectScan: the timer is not run
ReconnectScanUntimed(s) ==
    LET peers == PeerList(s)
    IN  IF peers = <<>> THEN AddNew(s)
        ELSE [s EXCEPT !.currentAdvType = "RECONNECT_SCAN",
                       !.whitelistPeers = peers]

ReconnectScan(s) ==
    LET peers == PeerList(s)
        n     == IF Len(peers) < WhitelistMax THEN Len(peers) ELSE WhitelistMax
    IN  IF peers = <<>> THEN AddNew(s)
        ELSE [s EXCEPT !.currentAdvType = "RECONNECT_SCAN",
                       !.whitelistPeers = SubSeq(peers, 1, n),
                       !.scanTimer      = "waiting"]

ReconnectConnect(s, peerId) ==
    [s EXCEPT !.currentAdvType = "RECONNECT_CONNECT",
              !.whitelistPeers = <<peerId>>]

\* appAdvSetStart after its switch; only the second code is looked at
Advertise(s) ==
    LET stopped == AppAdvStop(s)
        listed  == PmWhitelistSet(stopped, s.whitelistPeers)
        known   == PmDeviceIdentitiesListSet(listed, s.whitelistPeers)
    IN  AppAdvStart(Check(known, "appAdvSetStart"))

-----------------------------------------------------------------------------
(* A device connects while scanning: it is taken from the list, noted and  *)
(* sent away; when all are noted advertising stops.                        *)

\* mutant of Unlist: the device stays on the list
UnlistNot(s, peerId) == s

Unlist(s, peerId) ==
    IF ~Contains(s.whitelistPeers, peerId) THEN s
    ELSE LET rest   == RemoveFirst(s.whitelistPeers, peerId)
             listed == PmWhitelistSet([s EXCEPT !.whitelistPeers = rest], rest)
             known  == PmDeviceIdentitiesListSet(
                           Check(listed, "appAdvDirectProc"), rest)
         IN  Check(known, "appAdvDirectProc")

\* mutant of NoteDetected: a device is noted whenever it connects
NoteDetectedAgain(s, peerId) ==
    IF ~IsListed(s.deviceOrder, peerId) THEN s
    ELSE [s EXCEPT
             !.listDetectedDev[GetIDPos(s.deviceOrder, peerId)] = peerId,
             !.quantityDetectedDev = @ + 1]

NoteDetected(s, peerId) ==
    IF ~IsListed(s.deviceOrder, peerId) THEN s
    ELSE LET pos == GetIDPos(s.deviceOrder, peerId)
         IN  IF s.listDetectedDev[pos] # DetectedDevFree THEN s
             ELSE [s EXCEPT !.listDetectedDev[pos] = peerId,
                            !.quantityDetectedDev = @ + 1]

StartConnectScanning(s, peerId) ==
    LET noted == NoteDetected(AppDisconnect(Unlist(s, peerId)), peerId)
    IN  IF noted.quantityDetectedDev >= OrderGetQuantity(noted.deviceOrder)
        THEN AppAdvStop(noted) ELSE noted

\* the two loops that shift the devices up over the free places
ShiftUp(list) ==
    LET found == SelectSeq([k \in 1..WhitelistMax |-> list[k - 1]],
                           LAMBDA d : d # DetectedDevFree)
    IN  [k \in Detected |-> IF k < Len(found) THEN found[k + 1]
                            ELSE DetectedDevFree]

StopAdvScanning(s) ==
    IF s.quantityDetectedDev = 0 THEN Advertise(ReconnectScan(s))
    ELSE LET list == ShiftUp(s.listDetectedDev)
             up   == [s EXCEPT !.listDetectedDev = list, !.connectCnt = 0]
         IN  [Advertise(ReconnectConnect(up, list[0]))
                 EXCEPT !.phase = "CONNECTION"]

\* there is no break after the scan has been started again, and memset with
\* DETECTED_DEV_FREE leaves 0xFFFF in the places
StopAdvConnection(s) ==
    LET atEnd   == s.connectCnt >= s.quantityDetectedDev
        loops   == IF atEnd THEN s.loopCnt + 1 ELSE s.loopCnt
        counted == [s EXCEPT !.loopCnt = loops]
        again   == [counted EXCEPT
                       !.listDetectedDev = [k \in Detected |-> 65535],
                       !.connectCnt = 0,
                       !.phase = "SCANNING"]
        scanned == IF atEnd THEN Advertise(ReconnectScan(again)) ELSE counted
        next    == [scanned EXCEPT !.connectCnt = @ + 1]
    IN  IF atEnd /\ loops >= DirectConnQuantity THEN counted
        ELSE Advertise(ReconnectConnect(next,
                           next.listDetectedDev[next.connectCnt]))

\* appAdvProcessing with ADV_PROC_START_CONNECT: appAdvAddNew does nothing
StartConnect(s, peerId) ==
    IF s.currentAdvType \notin {"RECONNECT_SCAN", "RECONNECT_CONNECT"} THEN s
    ELSE IF s.phase = "SCANNING" THEN StartConnectScanning(s, peerId)
    ELSE AppAdvStop(s)

\* with ADV_PROC_CONNECT: appAdvDirectProc does nothing
ProcConnect(s) == IF s.currentAdvType = "ADD_NEW" THEN AppAdvStop(s) ELSE s

\* with ADV_PROC_STOP_ADV: appAdvAddNew does nothing
ProcStopAdv(s) ==
    IF s.currentAdvType \notin {"RECONNECT_SCAN", "RECONNECT_CONNECT"} THEN s
    ELSE IF s.phase = "SCANNING" THEN StopAdvScanning(s)
    ELSE StopAdvConnection(s)

AppAdvScanStopCB(s) == ProcStopAdv(AppAdvStop(s))

-----------------------------------------------------------------------------
(* pm_evt_handler.                                                         *)

BondedPeerConnected(s) ==
    StartConnect([s EXCEPT !.isPrevConn   = TRUE,
                           !.isRealAdv    = FALSE,
                           !.connectState = "CONNECT"], s.connPeer)

ConnSecSucceeded(s) == [AddOrder(s, s.connPeer) EXCEPT !.peerId = s.connPeer]

\* it is m_peer_id that goes on the whitelist, whichever peer was stored
PeerDataUpdateSucceeded(s, peerId) ==
    LET first == AddOrder(s, peerId)
        peers == Append(s.whitelistPeers, s.peerId)
        check(t) == Check(t, "pm_evt_handler")
    IN  IF Len(peers) > WhitelistMax THEN first
        ELSE check(PmDeviceIdentitiesListSet(
                 check(PmWhitelistSet([first EXCEPT !.whitelistPeers = peers],
                                      peers)),
                 peers))

\* PM_EVT_ERROR_UNEXPECTED: the error is checked
ErrorUnexpected(s) == Check(s, "PM_EVT_ERROR_UNEXPECTED")
=============================================================================
