------------------------------ MODULE MouseApp ------------------------------
(***************************************************************************)
(* The firmware of the mouse: main() of ble_app_hids_mouse, its handlers   *)
(* of the stack's events and of the buttons, and the world around it.      *)
(*                                                                         *)
(* The main loop goes through three stages: the scheduler runs what the    *)
(* interrupts have put into it (events, flash operations, buttons),        *)
(* appProcessing compares the application's state with its wishes, and     *)
(* the callbacks of systemTime that are due are called.  A handler runs to *)
(* its end; centrals, the radio and the timer go on between handlers.      *)
(***************************************************************************)
EXTENDS SecurityDispatcher

CONSTANTS
    Flash,       \* the bonds and the order the first power on finds in flash
    Buttons,     \* the buttons the user presses
    MaxEvents,   \* events that can wait to be fetched when one more comes
    MaxFlash,    \* flash operations that can wait when a central asks to pair
    MaxBusy      \* the same when one asks to encrypt or the user pushes KEY_2

ASSUME FlashAssumption ==
    \A f \in Flash : DOMAIN f.bond = Ids /\ f.recs \in Seq(OrderLists)

VARIABLES
    fw,     \* the firmware, stack and flash
    stage   \* where the main loop is

vars == <<fw, stage>>

-----------------------------------------------------------------------------
(* A failed check calls app_error_fault_handler, which resets the chip: of *)
(* the state only the flash and the place of the failure are left.         *)

PowerOn(bond, recs) ==
    LET And(s, t) == [f \in DOMAIN s \cup DOMAIN t |->
                         IF f \in DOMAIN s THEN s[f] ELSE t[f]]
    IN  And(And(SdBoot, PmBoot(bond)), And(AdvBoot, AppBoot(recs)))

Settled(s) ==
    IF s.fault = NoFault THEN Return(s, "SUCCESS")
    ELSE [PowerOn(s.bond, s.orderRecs) EXCEPT !.fault = s.fault]

\* what queue_buf_get does with a full queue is undefined: the write to address
\* 0 has no effect or is a hard fault
Settles(s) ==
    LET clear == [s EXCEPT !.overrun = FALSE]
    IN  {Settled(clear)} \cup
        {Settled([clear EXCEPT !.fault = f]) :
            f \in IF s.overrun /\ s.fault = NoFault
                  THEN {"queue_buf_get"} ELSE {}}

Running == fw.fault = NoFault

\* main() up to its loop
Boot(bond, recs) == Settled(Advertise(ReconnectScan(PowerOn(bond, recs))))

Init ==
    /\ \E f \in Flash : fw = Boot(f.bond, f.recs)
    /\ stage = "sched"

\* a fault's reset, a power failure or the sleep mode's wake-up
Reset ==
    /\ fw' = Boot(fw.bond, fw.orderRecs)
    /\ stage' = "sched"

-----------------------------------------------------------------------------
(* The world.                                                              *)

Becomes(s) == Running /\ fw' = s /\ UNCHANGED stage

MayAnnounce == Len(fw.evts) < MaxEvents

CentralConnects(d) ==
    /\ MayAnnounce
    /\ Accepts(fw, d)
    /\ Becomes(LinkUp(fw, d))

LinkLost ==
    /\ MayAnnounce
    /\ fw.link # NoDev
    /\ Becomes(LinkDown(fw))

AdvertisingTimeout ==
    /\ MayAnnounce
    /\ fw.radio # "off"
    /\ Becomes(AdvertisingEnds(fw))

\* the flash is large: the bounds keep it from filling up
CentralPairs ==
    /\ MayAnnounce
    /\ CanAsk(fw)
    /\ Len(fw.fdsq) <= MaxFlash
    /\ Becomes(AskToPair(fw))

CentralEncrypts ==
    /\ MayAnnounce
    /\ CanAsk(fw)
    /\ Len(fw.fdsq) <= MaxBusy
    /\ Becomes(AskToEncrypt(fw))

SecurityProcedureEnds ==
    /\ MayAnnounce
    /\ ~fw.closing
    /\ \E outcome \in Outcomes(fw.sec) : Becomes(SecurityEnds(fw, outcome))

ScanTimeElapses ==
    /\ fw.scanTimer = "waiting"
    /\ Becomes([fw EXCEPT !.scanTimer = "due"])

Environment ==
    \/ \E d \in Devices : CentralConnects(d)
    \/ LinkLost
    \/ AdvertisingTimeout
    \/ CentralPairs
    \/ CentralEncrypts
    \/ SecurityProcedureEnds
    \/ ScanTimeElapses

-----------------------------------------------------------------------------
(* The scheduler's handlers.  The observers of an event are called in the  *)
(* order of their priorities: the advertising module and the peer manager, *)
(* then the application.                                                   *)

Handled(s) ==
    /\ Running
    /\ stage = "sched"
    /\ fw' \in Settles(s)
    /\ UNCHANGED stage

Next1(id) == fw.evts # <<>> /\ Head(fw.evts).id = id

Dev == Head(fw.evts).dev

Fetched == [fw EXCEPT !.evts = Tail(@)]

\* ble_evt_handler: a peer the peer manager knows has been dealt with
AppConnected(s) ==
    LET here == [s EXCEPT !.connHandle = TRUE]
    IN  IF s.isPrevConn THEN here
        ELSE ProcConnect([here EXCEPT !.isRealAdv = FALSE,
                                      !.connectState = "CONNECT"])

\* mutant of AppDisconnected: the next device passes for a known one
AppDisconnectedPrev(s) ==
    [s EXCEPT !.connectState = "DISCONNECT", !.connHandle = FALSE]

AppDisconnected(s) ==
    [s EXCEPT !.isPrevConn   = FALSE,
              !.connectState = "DISCONNECT",
              !.connHandle   = FALSE]

Connected ==
    /\ Next1("CONNECTED")
    /\ Handled(AppConnected(ImConnected(Fetched, Dev)))

Disconnected ==
    /\ Next1("DISCONNECTED")
    /\ Handled(AppDisconnected(SmdDisconnected(OnDisconnected(Fetched))))

TimedOut ==
    /\ Next1("TIMEOUT")
    /\ Handled(OnTimeout(Fetched))

SecParamsRequest ==
    /\ Next1("SEC_PARAMS_REQUEST")
    /\ Handled(SecParamsRequestProcess(Fetched))

SecInfoRequest ==
    /\ Next1("SEC_INFO_REQUEST")
    /\ Handled(SecInfoRequestProcess(Fetched, Dev))

AuthStatus ==
    \/ Next1("AUTH_BONDED") /\ Handled(AuthBonded(Fetched, Dev))
    \/ Next1("AUTH_PAIRED") /\ Handled(AuthPaired(Fetched))
    \/ Next1("AUTH_FAILED") /\ Handled(LinkSecureFailure(Fetched))

ConnSecUpdate ==
    \/ Next1("ENCRYPTED")     /\ Handled(ConnSecUpdateProcess(Fetched, TRUE))
    \/ Next1("NOT_ENCRYPTED") /\ Handled(ConnSecUpdateProcess(Fetched, FALSE))

FlashDone ==
    /\ FlashIsBusy(fw)
    /\ Handled(FlashOperationDone(fw))

(* bsp_event_handler.                                                      *)

Key2 ==
    /\ "KEY_2" \in Buttons
    /\ ~fw.isDeleteBonds
    /\ Len(fw.fdsq) <= MaxBusy
    /\ Handled([fw EXCEPT !.isDeleteBonds = TRUE])

Key3 ==
    /\ "KEY_3" \in Buttons
    /\ Handled(Advertise(AddNew(fw)))

\* the button has this meaning between CONNECTED and DISCONNECTED only
ButtonDisconnect ==
    LET called == SdDisconnect(fw)
    IN  /\ "DISCONNECT" \in Buttons
        /\ fw.connHandle
        /\ Handled(IF called.ret = "INVALID_STATE" THEN called
                   ELSE Check(called, "bsp_event_handler"))

ButtonWhitelistOff ==
    /\ "WHITELIST_OFF" \in Buttons
    /\ ~fw.connHandle
    /\ Handled(RestartWithoutWhitelist(fw))

StackHandlers ==
    \/ Connected \/ Disconnected \/ TimedOut
    \/ SecParamsRequest \/ SecInfoRequest \/ AuthStatus \/ ConnSecUpdate

ButtonHandlers == Key2 \/ Key3 \/ ButtonDisconnect \/ ButtonWhitelistOff

-----------------------------------------------------------------------------
(* The rest of the loop.                                                   *)

SchedulerDone ==
    /\ Running
    /\ stage = "sched"
    /\ fw.evts = <<>>
    /\ stage' = "app"
    /\ UNCHANGED fw

DeleteBonds(s) ==
    OrderWriteFlash([PmPeersDelete([s EXCEPT !.isDeleteBonds = FALSE])
                        EXCEPT !.deviceOrder = CleanOrder])

\* start or stop advertising as the application wishes
Synced(s) ==
    IF s.isAppAdv = s.isRealAdv THEN s
    ELSE IF s.isAppAdv THEN AppAdvStart(s)
    ELSE AppAdvStop(s)

AppProcessing ==
    LET synced == Synced(fw)
    IN  /\ Running
        /\ stage = "app"
        /\ stage' = "timer"
        /\ fw' \in Settles(IF /\ synced.isDeleteBonds
                              /\ synced.connectState = "DISCONNECT"
                           THEN DeleteBonds(synced) ELSE synced)

TimerProcessing ==
    /\ Running
    /\ stage = "timer"
    /\ stage' = "sched"
    /\ fw' = Settled(IF fw.scanTimer = "due"
                     THEN AppAdvScanStopCB([fw EXCEPT !.scanTimer = "idle"])
                     ELSE fw)

MainLoop == SchedulerDone \/ AppProcessing \/ TimerProcessing

Next ==
    \/ Environment
    \/ StackHandlers \/ FlashDone \/ ButtonHandlers
    \/ MainLoop
    \/ Reset

Spec == Init /\ [][Next]_vars

-----------------------------------------------------------------------------
(* The fairness of the code and the hardware: the processor goes on, the   *)
(* flash finishes its operations and the timer its wait, a termination     *)
(* asked for is completed, a failed check resets.  Nothing is assumed of   *)
(* centrals and of the user.                                               *)

CanHandle == Running /\ stage = "sched" /\ fw.evts # <<>>
CanLoop   == Running /\ (stage = "sched" => fw.evts = <<>>)
CanWrite  == Running /\ stage = "sched" /\ FlashIsBusy(fw)
CanClose  == Running /\ fw.closing /\ MayAnnounce

\* what WF_vars and SF_vars of these actions say, with ENABLED spelt out:
\* TLC takes very long to find that a handler is enabled
Fairness ==
    /\ []<>~CanHandle \/ []<><<StackHandlers>>_vars
    /\ <>[]~CanLoop   \/ []<><<MainLoop>>_vars
    /\ <>[]~CanWrite  \/ []<><<FlashDone>>_vars
    /\ <>[]~CanClose  \/ []<><<LinkLost>>_vars
    /\ []<>Running    \/ []<><<Reset>>_vars
    /\ WF_vars(ScanTimeElapses)

FairSpec == Spec /\ Fairness

-----------------------------------------------------------------------------
(* Properties.                                                             *)

Places == Ids \cup {DetectedDevFree, 65535}
Peers  == Ids \cup {PeerIdInvalid}
Others == Devices \cup {NoDev}

\* The fields of the firmware's state have the types of the variables they
\* stand for: main.c's appState and advDirOrdConnState, the lists and flags of
\* the advertising module and of the peer manager, the stack's queues.
TypeOK ==
    /\ stage \in {"sched", "app", "timer"}
    /\ fw.radio \in {"off", "any", "wl"} /\ fw.link \in Others
    /\ fw.sec \in {"none", "params", "info", "pairing", "rejected", "encrypting"}
    /\ \A k \in DOMAIN fw.evts : fw.evts[k] \in [id : EventIds, dev : Others]
    /\ fw.whitelist \subseteq Devices /\ fw.identities \subseteq Devices
    /\ fw.bond \in [Ids -> Others]
    /\ fw.used \subseteq Ids /\ fw.deleted \subseteq fw.used
    /\ \A k \in DOMAIN fw.fdsq :
          fw.fdsq[k] \in
              [op : {"bond", "delete"}, id : Ids, dev : Others] \cup
              [op : {"order", "unorder"}, id : 0 .. Len(fw.orderRecs),
               dev : {NoDev}]
    /\ fw.connPeer \in Peers /\ fw.peerId \in Peers
    /\ \A k \in DOMAIN fw.whitelistPeers : fw.whitelistPeers[k] \in Peers
    /\ Len(fw.whitelistPeers) <= WhitelistMax
    /\ fw.secProc \in {"none", "pairing", "encryption"}
    /\ \A b \in {fw.closing, fw.newPeer, fw.isRealAdv, fw.isAppAdv,
                 fw.advStartPending, fw.whitelistOff, fw.isDeleteBonds,
                 fw.isPrevConn, fw.connHandle, fw.gap} : b \in BOOLEAN
    /\ ~fw.overrun
    /\ fw.connectState \in {"CONNECT", "START_DISCONNECT", "DISCONNECT"}
    /\ fw.advModeCurrent \in DOMAIN ModeNext
    /\ fw.currentAdvType \in
          {"IDLE", "ADD_NEW", "RECONNECT_SCAN", "RECONNECT_CONNECT"}
    /\ fw.phase \in {"SCANNING", "CONNECTION"}
    /\ fw.listDetectedDev \in [Detected -> Places]
    /\ fw.quantityDetectedDev \in 0 .. OrderItemQuantity
    /\ fw.connectCnt \in Detected /\ fw.loopCnt \in 0 .. DirectConnQuantity
    /\ fw.deviceOrder \in OrderLists
    /\ \A k \in DOMAIN fw.orderRecs : fw.orderRecs[k] \in OrderLists
    /\ fw.scanTimer \in {"idle", "waiting", "due"}

Pending(ids) == \E k \in DOMAIN fw.evts : fw.evts[k].id \in ids

\* appState.connectState, which decides whether the application stops
\* advertising or disconnects, follows the link: when no CONNECTED and no
\* DISCONNECTED is still to be fetched it tells whether there is one, although
\* two handlers set it, one of them only when the other has not (isPrevConn).
LinkTracked ==
    Running /\ ~Pending({"CONNECTED", "DISCONNECTED"}) =>
        /\ (fw.link = NoDev) <=> (fw.connectState = "DISCONNECT")
        /\ fw.connectState = "START_DISCONNECT" => fw.closing
        /\ fw.connHandle <=> (fw.link # NoDev)

\* isRealAdv, "real state of advertising": when it is set and no link is up or
\* coming down the radio advertises, so that appAdvStart, which believes it,
\* leaves nobody waiting.  The start may wait for the flash, and the news that
\* advertising has ended may not have been fetched.
RealAdvMeansRadio ==
    /\ Running
    /\ fw.isRealAdv
    /\ fw.connectState = "DISCONNECT"
    /\ ~fw.advStartPending
    /\ ~Pending({"CONNECTED", "TIMEOUT"})
    => fw.radio # "off"

\* No peer id is lost: an id in use has a bond, will have one when the flash
\* has written it, belongs to the pairing going on or is being deleted.  A
\* pairing that fails, ends without bonding or finds another bond of the
\* device gives its id back, at whichever event.  Only a bond that is written
\* behind erased words, where it is not found, leaves its id without one.
NoIdLeaks ==
    ~fw.gap =>
        \A i \in Listed(fw) :
            \/ HasBond(fw, i)
            \/ \E k \in DOMAIN fw.fdsq :
                  fw.fdsq[k].op = "bond" /\ fw.fdsq[k].id = i
            \/ fw.secProc = "pairing" /\ fw.newPeer /\ fw.connPeer = i

\* Nothing but the user's KEY_2 deletes a bond: the ids that pairings free on
\* their way never hold one.
OnlyKey2Deletes ==
    [][\A i \in Ids : HasBond(fw, i) /\ i \in fw'.deleted \ fw.deleted
                      => fw.isDeleteBonds]_vars


\* The security dispatcher knows of a procedure exactly when the stack runs
\* one, once the events of the procedure and of the link have been handled:
\* a flag left from one connection would free a peer of the next.
SecurityTracked ==
    Running /\ ~Pending(EventIds \ {"CONNECTED", "TIMEOUT"}) =>
        (fw.secProc = "none" <=> fw.sec = "none")

\* While scanning, the number that appAdvDirectProc compares with the length
\* of the order is the number of devices it has noted.
CountsDetected ==
    fw.phase = "SCANNING" =>
        fw.quantityDetectedDev =
            Cardinality({k \in Detected :
                            fw.listDetectedDev[k] # DetectedDevFree})

\* A device that was noted while scanning is off the list of peers, so that
\* it does not come again in the place of one not noted yet.
NotedIsUnlisted ==
    /\ fw.phase = "SCANNING"
    /\ fw.currentAdvType = "RECONNECT_SCAN"
    => \A k \in Detected : ~Contains(fw.whitelistPeers, fw.listDetectedDev[k])

\* In the connection phase the first peer of the list, the one to offer the
\* mouse to, is the device whose turn it is.
OffersDetected ==
    /\ Running
    /\ fw.phase = "CONNECTION"
    /\ fw.currentAdvType = "RECONNECT_CONNECT"
    => /\ fw.whitelistPeers # <<>>
       /\ Head(fw.whitelistPeers) = fw.listDetectedDev[fw.connectCnt]

\* The record in main.c's whitelist of the stack is of use only if the stack
\* has it: a radio that filters lets in the devices of m_whitelist_peers, no
\* others, although appAdvSetStart does not look whether its list was taken.
WhitelistIsPeers ==
    Running /\ fw.radio = "wl" =>
        fw.whitelist = DevicesOf(fw, fw.whitelistPeers)

\* What the application has noted of the devices while scanning goes with their
\* number and, when it offers the mouse to one after the other, with the list of
\* peers: after every handler, whatever is pressed, deleted or put off.
NotesAgree ==
    /\ CountsDetected
    /\ OffersDetected

\* A device has one bond: it cannot come back and pair again before its bond
\* is in flash, where duplicates are looked for, since ble_advertising_start
\* waits for the flash.
OneBond ==
    \A i, j \in Ids : HasBond(fw, i) /\ fw.bond[i] = fw.bond[j] => i = j

\* The lists that a stored bond has its peer added to are taken, and those in
\* use have the keys of all their peers: unless KEY_2 deletes bonds the checks
\* of pm_evt_handler and of the whitelist request hold.
ListsTaken == fw.fault \notin {"pm_evt_handler", "on_adv_evt"}


\* What the application wishes comes true: when it wants to advertise, the
\* stack does in the end, or a link is up, or the wish is taken back, or a
\* check fails.  The start may be put off by the flash, be lost with an
\* advertising time-out, or wait for a disconnection.
WishGranted ==
    Running /\ fw.isAppAdv
        ~> fw.radio # "off" \/ fw.link # NoDev \/ ~fw.isAppAdv \/ ~Running


\* A scan that has noted a device goes on to offer the mouse to it, unless
\* the user asks for new devices or a check fails.
ScanEnds ==
    /\ Running
    /\ fw.phase = "SCANNING"
    /\ fw.currentAdvType = "RECONNECT_SCAN"
    /\ fw.quantityDetectedDev > 0
    ~> \/ fw.phase = "CONNECTION"
       \/ fw.currentAdvType = "ADD_NEW"
       \/ fw.quantityDetectedDev = 0
       \/ ~Running
=============================================================================
