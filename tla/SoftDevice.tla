----------------------------- MODULE SoftDevice -----------------------------
(***************************************************************************)
(* The BLE stack under the firmware, as the firmware's calls see it.  It   *)
(* is a library without source: what a call answers is taken from the      *)
(* descriptions of components/softdevice/s140/headers/ble_gap.h.           *)
(*                                                                         *)
(* The state of the whole firmware is one record; this module owns the     *)
(* fields of SdBoot.  A call is an operator from states to states that     *)
(* leaves its return code in the field ret, so that the firmware's nested  *)
(* calls are nested applications.                                          *)
(***************************************************************************)
EXTENDS Naturals, Sequences

CONSTANTS
    Devices,  \* the centrals around
    NoDev

ASSUME SoftDeviceAssumption == NoDev \notin Devices

EventIds ==
    {"CONNECTED", "DISCONNECTED", "TIMEOUT", "SEC_PARAMS_REQUEST",
     "SEC_INFO_REQUEST", "AUTH_BONDED", "AUTH_PAIRED", "AUTH_FAILED",
     "ENCRYPTED", "NOT_ENCRYPTED"}

\* the stack after power on: the link layer idle, no event to fetch
SdBoot ==
    [radio      |-> "off",    \* advertising: "off", to "any"one, "wl" only
     link       |-> NoDev,    \* the central at the other end of the link
     closing    |-> FALSE,    \* the link is being terminated from here
     sec        |-> "none",   \* the link's security procedure
     evts       |-> <<>>,     \* events not fetched yet
     whitelist  |-> {},
     identities |-> {},
     ret        |-> "SUCCESS"]

Return(s, code) == [s EXCEPT !.ret = code]

-----------------------------------------------------------------------------
(* The calls.                                                              *)

\* sd_ble_gap_adv_start
SdAdvStart(s, filter) ==
    IF s.radio # "off" THEN Return(s, "INVALID_STATE")
    ELSE IF s.link # NoDev THEN Return(s, "CONN_COUNT")
    ELSE [s EXCEPT !.radio = filter, !.ret = "SUCCESS"]

\* sd_ble_gap_adv_stop
SdAdvStop(s) ==
    IF s.radio = "off" THEN Return(s, "INVALID_STATE")
    ELSE [s EXCEPT !.radio = "off", !.ret = "SUCCESS"]

\* sd_ble_gap_disconnect: the end is announced by an event
SdDisconnect(s) ==
    IF s.link = NoDev THEN Return(s, "INVALID_CONN_HANDLE")
    ELSE IF s.closing THEN Return(s, "INVALID_STATE")
    ELSE [s EXCEPT !.closing = TRUE, !.ret = "SUCCESS"]

\* sd_ble_gap_whitelist_set
SdWhitelistSet(s, devs) ==
    IF s.radio = "wl" THEN Return(s, "IN_USE")
    ELSE [s EXCEPT !.whitelist = devs, !.ret = "SUCCESS"]

\* sd_ble_gap_device_identities_set: an advertiser uses a list that has entries
SdIdentitiesSet(s, devs, isDuplicate) ==
    IF s.radio # "off" /\ s.identities # {} THEN Return(s, "IN_USE")
    ELSE IF isDuplicate THEN Return(s, "DUPLICATE")
    ELSE [s EXCEPT !.identities = devs, !.ret = "SUCCESS"]

\* sd_ble_gap_sec_params_reply and sd_ble_gap_sec_info_reply: what was asked for
\* and what follows
SdSecReply(s, asked, next) ==
    IF s.link = NoDev THEN Return(s, "INVALID_CONN_HANDLE")
    ELSE IF s.sec # asked THEN Return(s, "INVALID_STATE")
    ELSE [s EXCEPT !.sec = next, !.ret = "SUCCESS"]

-----------------------------------------------------------------------------
(* What the air does to the stack.                                         *)

Event(s, id, dev) == [s EXCEPT !.evts = Append(@, [id |-> id, dev |-> dev])]

Accepts(s, dev) ==
    /\ s.link = NoDev
    /\ s.radio # "off"
    /\ s.radio = "wl" => dev \in s.whitelist

LinkUp(s, dev) ==
    Event([s EXCEPT !.radio = "off", !.link = dev, !.sec = "none"],
          "CONNECTED", dev)

\* the central leaves or is lost, or the termination from here is complete
LinkDown(s) ==
    Event([s EXCEPT !.link = NoDev, !.closing = FALSE, !.sec = "none"],
          "DISCONNECTED", s.link)

AdvertisingEnds(s) == Event([s EXCEPT !.radio = "off"], "TIMEOUT", NoDev)

\* the central starts a security procedure
CanAsk(s) == s.link # NoDev /\ ~s.closing /\ s.sec = "none"

AskToPair(s)    == Event([s EXCEPT !.sec = "params"], "SEC_PARAMS_REQUEST", s.link)
AskToEncrypt(s) == Event([s EXCEPT !.sec = "info"], "SEC_INFO_REQUEST", s.link)

\* the procedures the firmware has let go on, and how they can end
Outcomes(sec) ==
    CASE sec = "pairing"    -> {"AUTH_BONDED", "AUTH_PAIRED", "AUTH_FAILED"}
      [] sec = "rejected"   -> {"AUTH_FAILED"}
      [] sec = "encrypting" -> {"ENCRYPTED", "NOT_ENCRYPTED"}
      [] OTHER              -> {}

SecurityEnds(s, outcome) == Event([s EXCEPT !.sec = "none"], outcome, s.link)
=============================================================================
