--------------------------- MODULE MouseApp_proofs ---------------------------
(***************************************************************************)
(* Proofs about the firmware, for any number of devices, peer ids, events  *)
(* and flash operations that wait: connectState and the handle of the      *)
(* connection follow the link, isRealAdv tells of the radio, no peer id is *)
(* lost, the detected devices agree with their number and the list of      *)
(* peers, the security dispatcher knows of the stack's procedures, and     *)
(* without KEY_2 no bond is deleted.                                       *)
(*                                                                         *)
(* None is inductive.  What the firmware knows of the link is late by the  *)
(* events not fetched yet, so that the invariant has to say that these     *)
(* tell, one after the other, how the link came from what the firmware     *)
(* knows to what it is.  So is what the security dispatcher knows of a     *)
(* pairing: the id it has taken is without a bond until the event that     *)
(* ends the pairing is fetched, and the invariant has to say that this     *)
(* event will come before any that makes the dispatcher turn to something  *)
(* else and forget the id; and that it will not come twice, since newPeer  *)
(* stays set until the next connection and the id of this one may by then  *)
(* have a bond.                                                            *)
(***************************************************************************)
EXTENDS MouseApp, TLAPS, FiniteSetTheorems, WellFoundedInduction

-------------------------------------------------------------------------------
(* What the functions of the firmware leave alone and what they establish,   *)
(* one lemma for each, in the order of the calls, from the advertising       *)
(* module up to the observers of the flash.                                  *)

\* the variables of the firmware
Fields ==
    {"radio", "link", "closing", "sec", "evts", "whitelist", "identities", "ret",
     "bond", "used", "deleted", "fdsq", "gap", "overrun", "wlisted", "connPeer",
     "secProc", "newPeer",
     "isRealAdv", "isAppAdv", "connectState", "advModeCurrent",
     "advStartPending", "whitelistOff", "fault",
     "currentAdvType", "isDeleteBonds", "isPrevConn", "connHandle", "peerId",
     "whitelistPeers", "phase", "listDetectedDev", "quantityDetectedDev",
     "connectCnt", "loopCnt", "deviceOrder", "orderRecs", "scanTimer"}

IsState(s) == DOMAIN s = Fields

\* what only the stack and the handlers of the link's events change
LinkPart == {"evts", "link", "connHandle", "isPrevConn"}

\* the peer manager, the flash queue, the order records in flash and the wish
\* that bonds be deleted
PeerPart == {"sec", "bond", "used", "deleted", "fdsq", "gap", "connPeer",
             "secProc", "newPeer", "orderRecs", "isDeleteBonds"}

\* what main.c keeps of the devices, and the lists that the peer manager and the
\* stack have of it
NotesPart == {"phase", "listDetectedDev", "quantityDetectedDev", "connectCnt",
              "currentAdvType", "whitelistPeers", "scanTimer"}
ListsPart == {"wlisted", "whitelist", "identities"}

\* all that is left alone by one function or another
Parts == PeerPart \cup NotesPart \cup ListsPart

\* RealAdvMeansRadio of MouseApp, but for the events to be fetched
RadioOn(s) ==
    s.isRealAdv /\ s.connectState = "DISCONNECT" /\ ~s.advStartPending
        => s.radio # "off"

\* connectState and the termination of the link: nothing happens to them or
\* appDisconnect asks for one
Closes(s, t) ==
    \/ t.connectState = s.connectState /\ t.closing = s.closing
    \/ /\ s.connectState = "CONNECT"
       /\ t.connectState = "START_DISCONNECT"
       /\ t.closing = TRUE

\* the radio does not come to filter unless there is a list to go by
FiltersLike(s, t) ==
    t.radio = "wl" => s.radio = "wl" \/ s.wlisted # <<>>

\* A function of the code turns s into t: the link is not touched, the variables
\* in P are not, and unless a check has failed isRealAdv still tells of the radio.
Turns(P, s, t) ==
    /\ IsState(t)
    /\ \A f \in LinkPart \cup P : t[f] = s[f]
    /\ "wlisted" \in P => FiltersLike(s, t)
    /\ t.fault = NoFault =>
          /\ s.fault = NoFault
          /\ Closes(s, t)
          /\ RadioOn(s) => RadioOn(t)

\* doing nothing is a turn
LEMMA TurnsRefl == ASSUME NEW s, NEW P, IsState(s) PROVE Turns(P, s, s)
  BY DEF Turns, Closes, FiltersLike

\* a handler is a chain of calls: turns follow each other
LEMMA TurnsTrans ==
    ASSUME NEW s, NEW t, NEW u, NEW P, Turns(P, s, t), Turns(P, t, u)
    PROVE  Turns(P, s, u)
  BY DEF Turns, Closes, FiltersLike

\* what keeps more of the state keeps less of it
LEMMA TurnsPart ==
    ASSUME NEW s, NEW t, NEW P, NEW Q, Q \subseteq P, Turns(P, s, t)
    PROVE  Turns(Q, s, t)
  BY DEF Turns

\* a turn leads to a state of the firmware
LEMMA TurnsState ==
    ASSUME NEW s, NEW t, NEW P, Turns(P, s, t) PROVE IsState(t)
  BY DEF Turns

\* variables that none of this depends on
Plain ==
    {"ret", "overrun", "isAppAdv", "advModeCurrent", "whitelistOff", "peerId",
     "loopCnt", "deviceOrder"}

\* one assignment to a variable of the firmware
LEMMA SetField ==
    ASSUME NEW t, IsState(t), NEW a \in Fields, NEW v
    PROVE  /\ IsState([t EXCEPT ![a] = v])
           /\ [t EXCEPT ![a] = v][a] = v
           /\ \A f \in Fields \ {a} : [t EXCEPT ![a] = v][f] = t[f]
  BY DEF IsState

\* an assignment to a variable that the link and the radio do not depend on
LEMMA AssignsTo ==
    ASSUME NEW s, NEW t, NEW P \in SUBSET Parts, Turns(P, s, t),
           NEW a \in Plain \cup (Parts \ P), NEW v
    PROVE  Turns(P, s, [t EXCEPT ![a] = v])
<1> DEFINE u == [t EXCEPT ![a] = v]
<1>1. a \in Fields /\ IsState(t)
  BY TurnsState DEF Plain, Parts, PeerPart, NotesPart, ListsPart, Fields
<1>2. IsState(u) /\ \A f \in Fields \ {a} : u[f] = t[f]
  BY <1>1, SetField
<1>3. \A f \in LinkPart \cup P : f \in Fields \ {a}
  BY DEF Plain, Parts, PeerPart, NotesPart, ListsPart, LinkPart, Fields
<1>4. \A f \in {"fault", "connectState", "closing", "isRealAdv",
                "advStartPending", "radio"} : u[f] = t[f]
  BY <1>2 DEF Plain, Parts, PeerPart, NotesPart, ListsPart, Fields
<1> HIDE DEF u
<1>5. Turns(P, t, u)
  BY <1>2, <1>3, <1>4 DEF Turns, Closes, RadioOn, FiltersLike
<1> QED BY <1>5, TurnsTrans DEF u

\* the same for a variable of no concern,
LEMMA Assigns ==
    ASSUME NEW s, NEW t, NEW P \in SUBSET Parts, Turns(P, s, t),
           NEW a \in Plain, NEW v
    PROVE  Turns(P, s, [t EXCEPT ![a] = v])
  BY AssignsTo

\* or for one of the application, as far as the peer manager is concerned
LEMMA Notes ==
    ASSUME NEW s, NEW t, NEW P \in SUBSET PeerPart, Turns(P, s, t),
           NEW a \in Plain \cup NotesPart, NEW v
    PROVE  Turns(P, s, [t EXCEPT ![a] = v])
<1>1. P \in SUBSET Parts /\ NotesPart \subseteq Parts \ P
  BY DEF Parts, PeerPart, NotesPart
<1> QED BY <1>1, AssignsTo

\* who keeps all of the peer manager's variables or the application's keeps some
LEMMA PartsIs ==
    ASSUME NEW P
    PROVE  /\ P \in SUBSET PeerPart =>
                 /\ P \in SUBSET Parts
                 /\ P \in SUBSET (PeerPart \cup NotesPart)
                 /\ P \in SUBSET (PeerPart \cup (NotesPart \ {"whitelistPeers"}))
           /\ P \in SUBSET (PeerPart \cup NotesPart) => P \in SUBSET Parts
           /\ P \in SUBSET (PeerPart \cup (NotesPart \ {"whitelistPeers"}))
                 => P \in SUBSET (PeerPart \cup NotesPart)
  BY DEF Parts

\* a call that does nothing but return a code
LEMMA Returns ==
    ASSUME NEW s, NEW t, NEW P \in SUBSET Parts, Turns(P, s, t), NEW c
    PROVE  Turns(P, s, Return(t, c))
  BY DEF Return, Turns, Closes, RadioOn, FiltersLike, IsState, Fields,
         LinkPart, Parts, PeerPart, NotesPart, ListsPart

\* APP_ERROR_CHECK: without a fault afterwards the code was NRF_SUCCESS
LEMMA Checks ==
    ASSUME NEW s, NEW t, NEW P \in SUBSET Parts, Turns(P, s, t), NEW f,
           f # NoFault
    PROVE  /\ Turns(P, s, Check(t, f))
           /\ Check(t, f).fault = NoFault => t.ret = "SUCCESS" /\ Check(t, f) = t
<1>1. IsState(t)
  BY TurnsState
<1>2. CASE t.ret # "SUCCESS" /\ t.fault = NoFault
  <2>1. Check(t, f) = [t EXCEPT !.fault = f]
    BY <1>2 DEF Check
  <2>2. [t EXCEPT !.fault = f].fault = f
    BY ONLY <1>1 DEF IsState, Fields
  <2>3. IsState([t EXCEPT !.fault = f])
    BY ONLY <1>1 DEF IsState
  <2>4. \A x \in LinkPart \cup Parts \cup {"radio"} :
           [t EXCEPT !.fault = f][x] = t[x]
    BY ONLY <1>1 DEF IsState, Fields, LinkPart, Parts, PeerPart, NotesPart,
                      ListsPart
  <2>5. Turns(Parts, t, [t EXCEPT !.fault = f])
    BY <2>2, <2>3, <2>4 DEF Turns, FiltersLike
  <2> QED BY <2>1, <2>2, <2>5, TurnsPart, TurnsTrans
<1>3. CASE ~(t.ret # "SUCCESS" /\ t.fault = NoFault)
  BY <1>3 DEF Check
<1> QED BY <1>2, <1>3

\* appDisconnect of main.c
LEMMA AppDisconnectTurns ==
    ASSUME NEW s, NEW t, NEW P \in SUBSET Parts, Turns(P, s, t)
    PROVE  Turns(P, s, AppDisconnect(t))
<1> DEFINE asked == [t EXCEPT !.connectState = "START_DISCONNECT",
                              !.isRealAdv = TRUE]
           end   == SdDisconnect(asked)
<1>1. IsState(t)
  BY TurnsState
<1>2. CASE t.connectState # "CONNECT"
  BY <1>2 DEF AppDisconnect
<1>3. CASE t.connectState = "CONNECT"
  <2>1. /\ IsState(asked)
        /\ asked.connectState = "START_DISCONNECT"
        /\ \A f \in LinkPart \cup Parts \cup {"fault", "radio"} : asked[f] = t[f]
    BY <1>1 DEF IsState, Fields, LinkPart, Parts, PeerPart, NotesPart, ListsPart
  <2>2. /\ IsState(end)
        /\ end.connectState = "START_DISCONNECT"
        /\ \A f \in LinkPart \cup Parts \cup {"fault", "radio"} : end[f] = t[f]
        /\ end.ret = "SUCCESS" => end.closing = TRUE
    <3> HIDE DEF asked
    <3> QED
      BY <2>1 DEF SdDisconnect, Return, IsState, Fields, LinkPart, Parts, PeerPart,
           NotesPart, ListsPart
  <2>3. CASE end.ret # "SUCCESS" /\ end.fault = NoFault
    <3>1. Check(end, "appDisconnect") = [end EXCEPT !.fault = "appDisconnect"]
      BY <2>3 DEF Check
    <3> HIDE DEF end
    <3>2. Turns(Parts, t, Check(end, "appDisconnect"))
      <4> DEFINE c == [end EXCEPT !.fault = "appDisconnect"]
      <4>1. /\ IsState(c) /\ c.fault # NoFault
            /\ \A f \in Fields \ {"fault"} : c[f] = end[f]
        BY <2>2 DEF IsState, Fields, NoFault
      <4>2. LinkPart \cup Parts \cup {"radio"} \subseteq Fields \ {"fault"}
        BY DEF Fields, LinkPart, Parts, PeerPart, NotesPart, ListsPart
      <4> HIDE DEF c
      <4>3. \A f \in LinkPart \cup Parts \cup {"radio"} : c[f] = t[f]
        BY <2>2, <4>1, <4>2
      <4> QED BY <3>1, <4>1, <4>3 DEF Turns, FiltersLike, c
    <3> QED BY <1>3, <3>2, TurnsPart, TurnsTrans DEF AppDisconnect, end
  <2>4. CASE ~(end.ret # "SUCCESS" /\ end.fault = NoFault)
    <3>1. Check(end, "appDisconnect") = end
      BY <2>4 DEF Check
    <3> HIDE DEF end
    <3>2. Turns(Parts, t, end)
      <4>1. \A f \in LinkPart \cup Parts : end[f] = t[f]
        BY <2>2
      <4>2. end.fault = t.fault /\ end.radio = t.radio
        BY <2>2
      <4> QED BY <1>3, <2>2, <2>4, <4>1, <4>2 DEF Turns, Closes, RadioOn, FiltersLike
    <3> QED BY <1>3, <3>1, <3>2, TurnsPart, TurnsTrans DEF AppDisconnect, end
  <2> QED BY <2>3, <2>4
<1> QED BY <1>2, <1>3

\* appAdvStop of main.c
LEMMA AppAdvStopTurns ==
    ASSUME NEW s, NEW t, NEW P \in SUBSET Parts, Turns(P, s, t)
    PROVE  Turns(P, s, AppAdvStop(t))
<1>1. Turns(Parts, t, AppAdvStop(t))
  BY TurnsState
  DEF AppAdvStop, Check, SdAdvStop, Return, Turns, Closes, RadioOn,
      IsState, Fields, LinkPart, Parts, PeerPart, NotesPart, ListsPart, FiltersLike,
      NoFault
<1> QED BY <1>1, TurnsPart, TurnsTrans

\* on_adv_evt of main.c, BLE_ADV_EVT_WHITELIST_REQUEST
LEMMA OnWhitelistRequestTurns ==
    ASSUME NEW s, NEW t, NEW P \in SUBSET Parts, Turns(P, s, t)
    PROVE  Turns(P, s, OnWhitelistRequest(t))
<1>1. Turns(P, s, PmWhitelistGet(t))
  BY Returns DEF PmWhitelistGet
<1>2. Turns(P, s, Check(PmWhitelistGet(t), "on_adv_evt"))
  BY <1>1, Checks DEF NoFault
<1> QED BY <1>2, AppAdvStopTurns DEF OnWhitelistRequest

\* on_adv_evt of main.c, the other events
LEMMA OnAdvEvtTurns ==
    ASSUME NEW s, NEW t, NEW P \in SUBSET Parts, Turns(P, s, t), NEW e
    PROVE  Turns(P, s, OnAdvEvt(t, e))
<1>1. Turns(Parts, t, [t EXCEPT !.isRealAdv = FALSE])
  BY TurnsState
  DEF Turns, Closes, RadioOn, IsState, Fields, LinkPart, Parts, PeerPart, NotesPart,
      ListsPart, FiltersLike
<1>2. Turns(P, s, [t EXCEPT !.isRealAdv = FALSE])
  BY <1>1, TurnsPart, TurnsTrans
<1> QED BY <1>2, AppAdvStopTurns DEF OnAdvEvt

\* ble_advertising_start in the fast mode: a success means that the radio is on
LEMMA StartFastTurns ==
    ASSUME NEW s, NEW t, NEW P \in SUBSET Parts, Turns(P, s, t)
    PROVE  /\ Turns(P, s, StartFast(t))
           /\ StartFast(t).fault = NoFault /\ StartFast(t).ret = "SUCCESS" => RadioOn(StartFast(t))
<1> DEFINE asked  == IF t.whitelistOff THEN t ELSE OnWhitelistRequest(t)
           filter == IF ~t.whitelistOff /\ WhitelistInUse(t) THEN "wl" ELSE "any"
           on     == SdAdvStart(asked, filter)
           told   == OnAdvEvt(on, "FAST")
<1>1. Turns(P, s, asked)
  BY OnWhitelistRequestTurns
<1>2. /\ Turns(Parts, asked, on)
      /\ on.ret = "SUCCESS" => on.radio # "off"
  <2>1. filter # "off" /\ (filter = "wl" => asked.wlisted # <<>>)
    <3>1. Turns(Parts, t, t)
      BY <1>1, TurnsState, TurnsRefl
    <3>2. Turns(Parts, t, asked)
      BY <3>1, OnWhitelistRequestTurns
    <3>3. asked.wlisted = t.wlisted
      BY <3>2 DEF Turns, Parts, ListsPart
    <3> QED BY <3>3 DEF WhitelistInUse
  <2> HIDE DEF asked, filter
  <2>2. IsState(asked)
    BY <1>1, TurnsState
  <2>3. /\ IsState(on)
        /\ \A f \in Fields \ {"radio", "ret"} : on[f] = asked[f]
        /\ on.radio \in {asked.radio, filter}
        /\ on.radio = "off" => asked.radio = "off"
        /\ on.ret = "SUCCESS" => on.radio # "off"
    BY <2>1, <2>2 DEF SdAdvStart, Return, IsState, Fields
  <2>4. LinkPart \cup Parts \cup {"fault", "connectState", "closing", "isRealAdv",
                                  "advStartPending"}
           \subseteq Fields \ {"radio", "ret"}
    BY DEF Fields, LinkPart, Parts, PeerPart, NotesPart, ListsPart
  <2> HIDE DEF on
  <2>5. \A f \in LinkPart \cup Parts \cup {"fault", "connectState", "closing", "isRealAdv",
                                           "advStartPending"} : on[f] = asked[f]
    BY <2>3, <2>4
  <2> QED BY <2>1, <2>3, <2>5 DEF Turns, Closes, RadioOn, FiltersLike
<1>3. Turns(P, s, on)
  BY <1>1, <1>2, TurnsPart, TurnsTrans
<1>4. Turns(P, s, told) /\ Turns(P, on, told)
  BY <1>3, OnAdvEvtTurns, TurnsState, TurnsRefl
<1>5. Turns(P, s, Return(told, "SUCCESS")) /\ Turns(P, on, Return(told, "SUCCESS"))
  BY <1>4, Returns
<1>6. StartFast(t) = IF on.ret = "SUCCESS" THEN Return(told, "SUCCESS") ELSE on
  BY DEF StartFast
<1>7. ASSUME on.ret = "SUCCESS"
      PROVE  Return(told, "SUCCESS").fault = NoFault => RadioOn(Return(told, "SUCCESS"))
  BY <1>2, <1>7, <1>5 DEF Turns, RadioOn
<1> HIDE DEF on, told
<1> QED BY <1>3, <1>5, <1>6, <1>7

\* ble_advertising_start: a success means that the radio is on or will be
LEMMA BleAdvertisingStartTurns ==
    ASSUME NEW s, NEW t, NEW P \in SUBSET Parts, Turns(P, s, t), NEW mode
    PROVE  LET u == BleAdvertisingStart(t, mode) IN
           /\ Turns(P, s, u)
           /\ u.fault = NoFault /\ u.ret = "SUCCESS" => RadioOn(u)
<1> DEFINE put  == [t EXCEPT !.advModeCurrent = mode, !.advStartPending = TRUE,
                             !.ret = "SUCCESS"]
           idle == [t EXCEPT !.advModeCurrent = "IDLE"]
           fast == [t EXCEPT !.advModeCurrent = "FAST"]
           off  == Return(OnAdvEvt(idle, "IDLE"), "SUCCESS")
<1>1. Turns(Parts, t, put) /\ RadioOn(put)
  BY TurnsState
  DEF Turns, Closes, RadioOn, IsState, Fields, LinkPart, Parts, PeerPart, NotesPart,
      ListsPart, FiltersLike
<1>2. Turns(P, s, idle) /\ Turns(P, s, fast)
  BY Assigns DEF Plain
<1>3. Turns(P, s, off)
  BY <1>2, OnAdvEvtTurns, Returns
<1>4. RadioOn(off)
  BY <1>2, TurnsState DEF OnAdvEvt, Return, RadioOn, IsState, Fields
<1>5. Turns(P, s, put)
  BY <1>1, TurnsPart, TurnsTrans
<1>6. /\ Turns(P, s, StartFast(fast))
      /\ StartFast(fast).fault = NoFault /\ StartFast(fast).ret = "SUCCESS"
            => RadioOn(StartFast(fast))
  BY <1>2, StartFastTurns
<1>7. BleAdvertisingStart(t, mode) \in {put, StartFast(fast), off}
  BY DEF BleAdvertisingStart
<1> HIDE DEF put, idle, fast, off
<1> QED BY <1>1, <1>3, <1>4, <1>5, <1>6, <1>7

\* ... and so does passing the check of its code
LEMMA StartChecked ==
    ASSUME NEW s, NEW t, NEW P \in SUBSET Parts, Turns(P, s, t), NEW mode,
           NEW f, f # NoFault
    PROVE  LET u == Check(BleAdvertisingStart(t, mode), f) IN
           /\ Turns(P, s, u)
           /\ u.fault = NoFault => RadioOn(u)
<1> DEFINE on == BleAdvertisingStart(t, mode)
<1>1. Turns(P, s, on) /\ (on.fault = NoFault /\ on.ret = "SUCCESS" => RadioOn(on))
  BY BleAdvertisingStartTurns
<1> HIDE DEF on
<1>2. /\ Turns(P, s, Check(on, f))
      /\ Check(on, f).fault = NoFault => on.ret = "SUCCESS" /\ Check(on, f) = on
  BY <1>1, Checks
<1> QED BY <1>1, <1>2 DEF on

\* isRealAdv may be wrong for a moment: nothing is said of it and the radio
Same(P, s, t) ==
    /\ IsState(t)
    /\ "wlisted" \in P => FiltersLike(s, t)
    /\ \A f \in LinkPart \cup P \cup {"fault", "connectState", "closing"} :
          t[f] = s[f]

\* an assignment that may touch isRealAdv and the radio
LEMMA SameAssigns ==
    ASSUME NEW s, NEW t, NEW P \in SUBSET Parts, Same(P, s, t),
           NEW a \in Plain \cup {"radio", "isRealAdv", "advStartPending"}, NEW v,
           a = "radio" => v = "off"
    PROVE  Same(P, s, [t EXCEPT ![a] = v])
<1> DEFINE kept == LinkPart \cup P \cup {"fault", "connectState", "closing"}
<1>1. a \in Fields /\ IsState(t)
  BY DEF Same, Plain, Fields
<1>2. /\ IsState([t EXCEPT ![a] = v])
      /\ \A f \in Fields \ {a} : [t EXCEPT ![a] = v][f] = t[f]
  BY <1>1, SetField
<1>3. kept \subseteq Fields \ {a}
  BY DEF Plain, Parts, PeerPart, NotesPart, ListsPart, LinkPart, Fields
<1> HIDE DEF kept
<1>4. /\ \A f \in kept : t[f] = s[f]
      /\ \A f \in kept : f \in Fields \ {a}
  BY <1>3 DEF Same, kept
<1>5. /\ "wlisted" \in P => [t EXCEPT ![a] = v].wlisted = t.wlisted
      /\ [t EXCEPT ![a] = v].radio \in {t.radio, "off"}
  BY <1>1, <1>2, <1>4 DEF Fields, kept, IsState
<1> QED BY <1>2, <1>4, <1>5 DEF Same, kept, FiltersLike

\* doing nothing
LEMMA SameRefl ==
    ASSUME NEW s, NEW P, IsState(s) PROVE Same(P, s, s)
  BY DEF Same, FiltersLike

\* a checked ble_advertising_start makes good what was done to isRealAdv before it
LEMMA StartRepairs ==
    ASSUME NEW s, NEW t, NEW P \in SUBSET Parts, Same(P, s, t), NEW mode,
           NEW f, f # NoFault
    PROVE  Turns(P, s, Check(BleAdvertisingStart(t, mode), f))
<1> DEFINE on == Check(BleAdvertisingStart(t, mode), f)
<1>1. Turns(P, t, t)
  BY TurnsRefl DEF Same
<1>2. Turns(P, t, on) /\ (on.fault = NoFault => RadioOn(on))
  BY <1>1, StartChecked
<1> HIDE DEF on
<1>3. Turns(P, s, on)
  BY <1>2 DEF Turns, Closes, Same, FiltersLike
<1> QED BY <1>3 DEF on

\* the same for the starts of the advertising module itself
LEMMA RestartRepairs ==
    ASSUME NEW s, NEW t, NEW P \in SUBSET Parts, Same(P, s, t), NEW mode
    PROVE  Turns(P, s, Restart(t, mode))
  BY StartRepairs DEF Restart, NoFault

\* appAdvStart of main.c, which sets isRealAdv before it starts
LEMMA AppAdvStartTurns ==
    ASSUME NEW s, NEW t, NEW P \in SUBSET Parts, Turns(P, s, t)
    PROVE  Turns(P, s, AppAdvStart(t))
<1> DEFINE wants == [t EXCEPT !.isAppAdv = TRUE]
           both  == [t EXCEPT !.isAppAdv = TRUE, !.isRealAdv = TRUE]
           on    == Check(BleAdvertisingStart(both, "FAST"), "appAdvStart")
<1>1. IsState(t)
  BY TurnsState
<1>2. Turns(P, s, wants)
  BY Assigns DEF Plain
<1>3. ASSUME t.connectState \notin {"CONNECT", "START_DISCONNECT"}, ~t.isRealAdv
      PROVE  Turns(P, s, on)
  <2>1. Same(P, t, wants)
    BY <1>1, SameRefl, SameAssigns DEF Plain
  <2>2. Same(P, t, [wants EXCEPT !.isRealAdv = TRUE])
    BY <2>1, SameAssigns
  <2>3. Turns(P, t, on)
    BY <2>2, StartRepairs DEF NoFault
  <2> QED BY <2>3, TurnsTrans
<1> HIDE DEF on, wants, both
<1>4. Turns(P, s, AppDisconnect(wants))
  BY <1>2, AppDisconnectTurns
<1> QED BY <1>2, <1>3, <1>4 DEF AppAdvStart, on, wants, both

\* pm_whitelist_set and pm_device_identities_list_set
LEMMA ListsTurn ==
    ASSUME NEW s, NEW t, NEW P \in SUBSET (PeerPart \cup NotesPart),
           Turns(P, s, t), NEW peers
    PROVE  /\ Turns(P, s, PmWhitelistSet(t, peers))
           /\ Turns(P, s, PmDeviceIdentitiesListSet(t, peers))
<1> DEFINE cached  == [t EXCEPT !.wlisted = peers]
           listed  == [cached EXCEPT !.whitelist = DevicesOf(t, peers)]
           known   == [t EXCEPT !.identities = DevicesOf(t, peers)]
<1>0. P \in SUBSET Parts /\ ListsPart \cup {"ret"} \subseteq Plain \cup (Parts \ P)
      /\ {"wlisted", "whitelist", "identities"} \subseteq ListsPart
  BY DEF Parts, PeerPart, NotesPart, ListsPart, Plain
<1>1. Turns(P, s, cached)
  BY <1>0, AssignsTo
<1>2. Turns(P, s, listed) /\ Turns(P, s, known)
  BY <1>0, <1>1, AssignsTo
<1>3. Turns(P, s, [listed EXCEPT !.ret = "SUCCESS"])
  BY <1>0, <1>2, AssignsTo
<1>4. Turns(P, s, [known EXCEPT !.ret = "SUCCESS"])
  BY <1>0, <1>2, AssignsTo
<1>5. \E c : PmWhitelistSet(t, peers) \in {[listed EXCEPT !.ret = "SUCCESS"], Return(cached, c)}
  BY DEF PmWhitelistSet, SdWhitelistSet
<1>6. \E c : PmDeviceIdentitiesListSet(t, peers) \in {[known EXCEPT !.ret = "SUCCESS"], Return(t, c)}
  BY DEF PmDeviceIdentitiesListSet, SdIdentitiesSet
<1> HIDE DEF cached, listed, known
<1> QED BY <1>1, <1>3, <1>4, <1>5, <1>6, <1>0, Returns

\* appAdvSetStart of main.c
LEMMA AdvertiseTurns ==
    ASSUME NEW s, NEW t, NEW P \in SUBSET (PeerPart \cup NotesPart),
           Turns(P, s, t)
    PROVE  Turns(P, s, Advertise(t))
<1> DEFINE stopped == AppAdvStop(t)
           listed  == PmWhitelistSet(stopped, t.whitelistPeers)
           known   == PmDeviceIdentitiesListSet(listed, t.whitelistPeers)
<1>0. P \in SUBSET Parts
  BY PartsIs
<1>1. Turns(P, s, stopped)
  BY <1>0, AppAdvStopTurns
<1>2. Turns(P, s, listed)
  BY <1>1, ListsTurn
<1>3. Turns(P, s, known)
  BY <1>2, ListsTurn
<1>4. Turns(P, s, Check(known, "appAdvSetStart"))
  BY <1>0, <1>3, Checks DEF NoFault
<1> QED BY <1>0, <1>4, AppAdvStartTurns DEF Advertise

\* appAdvSetStart of main.c, ADD_NEW
LEMMA AddNewTurns ==
    ASSUME NEW s, NEW t, NEW P \in SUBSET PeerPart, Turns(P, s, t)
    PROVE  Turns(P, s, AddNew(t))
<1>1. Turns(P, s, [t EXCEPT !.currentAdvType = "ADD_NEW"])
  BY Notes DEF Plain, NotesPart
<1> QED BY <1>1, Notes DEF AddNew, NotesPart

\* appAdvSetStart of main.c, RECONNECT_SCAN
LEMMA ReconnectScanTurns ==
    ASSUME NEW s, NEW t, NEW P \in SUBSET PeerPart, Turns(P, s, t)
    PROVE  Turns(P, s, ReconnectScan(t))
<1> DEFINE peers == PeerList(t)
           n     == IF Len(peers) < WhitelistMax THEN Len(peers) ELSE WhitelistMax
           first == SubSeq(peers, 1, n)
           scan  == [t EXCEPT !.currentAdvType = "RECONNECT_SCAN"]
           list  == [scan EXCEPT !.whitelistPeers = first]
<1>1. Turns(P, s, scan)
  BY Notes DEF Plain, NotesPart
<1> HIDE DEF scan, first
<1>2. Turns(P, s, list)
  BY <1>1, Notes DEF Plain, NotesPart
<1> HIDE DEF list
<1>3. Turns(P, s, [list EXCEPT !.scanTimer = "waiting"])
  BY <1>2, Notes DEF Plain, NotesPart
<1>4. ReconnectScan(t) = IF peers = <<>> THEN AddNew(t)
                         ELSE [list EXCEPT !.scanTimer = "waiting"]
  BY DEF ReconnectScan, list, scan, first
<1> QED BY <1>3, <1>4, AddNewTurns

\* appAdvSetStart of main.c, RECONNECT_CONNECT
LEMMA ReconnectConnectTurns ==
    ASSUME NEW s, NEW t, NEW P \in SUBSET PeerPart, Turns(P, s, t), NEW peerId
    PROVE  Turns(P, s, ReconnectConnect(t, peerId))
<1>1. Turns(P, s, [t EXCEPT !.currentAdvType = "RECONNECT_CONNECT"])
  BY Notes DEF Plain, NotesPart
<1> QED BY <1>1, Notes DEF ReconnectConnect, NotesPart

\* appAdvDirectProc: the peer is taken off the lists
LEMMA UnlistTurns ==
    ASSUME NEW s, NEW t, NEW peerId,
           NEW P \in SUBSET (PeerPart \cup (NotesPart \ {"whitelistPeers"})),
           Turns(P, s, t)
    PROVE  Turns(P, s, Unlist(t, peerId))
<1> DEFINE rest   == RemoveFirst(t.whitelistPeers, peerId)
           short  == [t EXCEPT !.whitelistPeers = rest]
           listed == PmWhitelistSet(short, rest)
           known  == PmDeviceIdentitiesListSet(Check(listed, "appAdvDirectProc"), rest)
<1>0. P \in SUBSET Parts /\ P \in SUBSET (PeerPart \cup NotesPart)
      /\ "whitelistPeers" \in Parts \ P
  BY PartsIs DEF Parts, NotesPart, PeerPart
<1> HIDE DEF rest
<1>1. Turns(P, s, short)
  BY <1>0, AssignsTo
<1> HIDE DEF short
<1>2. Turns(P, s, listed)
  BY <1>0, <1>1, ListsTurn
<1> HIDE DEF listed
<1>3. Turns(P, s, Check(listed, "appAdvDirectProc"))
  BY <1>0, <1>2, Checks DEF NoFault
<1>4. Turns(P, s, known)
  BY <1>0, <1>3, ListsTurn
<1> HIDE DEF known
<1>5. Turns(P, s, Check(known, "appAdvDirectProc"))
  BY <1>0, <1>4, Checks DEF NoFault
<1> QED BY <1>5 DEF Unlist, rest, short, listed, known

\* appAdvDirectProc: the peer is noted
LEMMA NoteDetectedTurns ==
    ASSUME NEW s, NEW t, NEW P \in SUBSET PeerPart, Turns(P, s, t), NEW peerId
    PROVE  Turns(P, s, NoteDetected(t, peerId))
<1> DEFINE noted == [t.listDetectedDev EXCEPT ![GetIDPos(t.deviceOrder, peerId)] = peerId]
           one   == [t EXCEPT !.listDetectedDev = noted]
<1> HIDE DEF noted
<1>1. Turns(P, s, one)
  BY Notes DEF Plain, NotesPart
<1> DEFINE v == one.quantityDetectedDev + 1
<1> HIDE DEF v
<1>2. Turns(P, s, [one EXCEPT !.quantityDetectedDev = v])
  BY <1>1, Notes DEF Plain, NotesPart
<1>3. NoteDetected(t, peerId) \in {t, [one EXCEPT !.quantityDetectedDev = v]}
  BY DEF NoteDetected, noted, v
<1> QED BY <1>2, <1>3

\* appAdvDirectProc, ADV_PROC_START_CONNECT while scanning
LEMMA StartConnectScanningTurns ==
    ASSUME NEW s, NEW t, NEW P \in SUBSET PeerPart, Turns(P, s, t), NEW peerId
    PROVE  Turns(P, s, StartConnectScanning(t, peerId))
<1>1. Turns(P, s, AppDisconnect(Unlist(t, peerId)))
  BY PartsIs, UnlistTurns, AppDisconnectTurns
<1>2. Turns(P, s, NoteDetected(AppDisconnect(Unlist(t, peerId)), peerId))
  BY <1>1, NoteDetectedTurns
<1> QED BY <1>2, PartsIs, AppAdvStopTurns DEF StartConnectScanning

\* appAdvDirectProc, ADV_PROC_STOP_ADV while scanning
LEMMA StopAdvScanningTurns ==
    ASSUME NEW s, NEW t, NEW P \in SUBSET PeerPart, Turns(P, s, t)
    PROVE  Turns(P, s, StopAdvScanning(t))
<1> DEFINE list  == ShiftUp(t.listDetectedDev)
           moved == [t EXCEPT !.listDetectedDev = list]
           up    == [t EXCEPT !.listDetectedDev = list, !.connectCnt = 0]
           on    == Advertise(ReconnectConnect(up, list[0]))
<1> HIDE DEF list
<1>1. Turns(P, s, moved)
  BY Notes DEF Plain, NotesPart
<1>2. Turns(P, s, up)
  BY <1>1, Notes DEF Plain, NotesPart
<1> HIDE DEF up
<1>3. Turns(P, s, on)
  BY <1>2, ReconnectConnectTurns, AdvertiseTurns, PartsIs
<1> HIDE DEF on
<1>4. Turns(P, s, [on EXCEPT !.phase = "CONNECTION"])
  BY <1>3, Notes DEF Plain, NotesPart
<1>5. Turns(P, s, Advertise(ReconnectScan(t)))
  BY ReconnectScanTurns, AdvertiseTurns, PartsIs
<1> QED BY <1>4, <1>5 DEF StopAdvScanning, on, up, list

\* appAdvDirectProc, ADV_PROC_STOP_ADV in the connection phase
LEMMA StopAdvConnectionTurns ==
    ASSUME NEW s, NEW t, NEW P \in SUBSET PeerPart, Turns(P, s, t)
    PROVE  Turns(P, s, StopAdvConnection(t))
<1> DEFINE atEnd   == t.connectCnt >= t.quantityDetectedDev
           loops   == IF atEnd THEN t.loopCnt + 1 ELSE t.loopCnt
           counted == [t EXCEPT !.loopCnt = loops]
           free    == [k \in Detected |-> 65535]
           again1  == [counted EXCEPT !.listDetectedDev = free]
           again2  == [again1 EXCEPT !.connectCnt = 0]
           again   == [again2 EXCEPT !.phase = "SCANNING"]
           scanned == IF atEnd THEN Advertise(ReconnectScan(again)) ELSE counted
           next    == [scanned EXCEPT !.connectCnt = scanned.connectCnt + 1]
           on      == Advertise(ReconnectConnect(next,
                                  next.listDetectedDev[next.connectCnt]))
<1> HIDE DEF atEnd, loops, free
<1>1. Turns(P, s, counted)
  BY Notes DEF Plain, NotesPart
<1> HIDE DEF counted
<1>2. Turns(P, s, again1)
  BY <1>1, Notes DEF Plain, NotesPart
<1> HIDE DEF again1
<1>3. Turns(P, s, again2)
  BY <1>2, Notes DEF Plain, NotesPart
<1> HIDE DEF again2
<1>4. Turns(P, s, again)
  BY <1>3, Notes DEF Plain, NotesPart
<1> HIDE DEF again
<1>5. Turns(P, s, scanned)
  BY <1>1, <1>4, ReconnectScanTurns, AdvertiseTurns, PartsIs
<1> HIDE DEF scanned
<1>6. Turns(P, s, next)
  BY <1>5, Notes DEF Plain, NotesPart
<1> HIDE DEF next
<1>7. Turns(P, s, on)
  BY <1>6, ReconnectConnectTurns, AdvertiseTurns, PartsIs
<1> HIDE DEF on
<1>8. StopAdvConnection(t) \in {counted, on}
  BY DEF StopAdvConnection, on, next, scanned, again, again2, again1, free,
         counted, loops, atEnd
<1> QED BY <1>1, <1>7, <1>8

\* appAdvProcessing, ADV_PROC_START_CONNECT
LEMMA StartConnectTurns ==
    ASSUME NEW s, NEW t, NEW P \in SUBSET PeerPart, Turns(P, s, t), NEW peerId
    PROVE  Turns(P, s, StartConnect(t, peerId))
  BY StartConnectScanningTurns, PartsIs, AppAdvStopTurns DEF StartConnect

\* appAdvProcessing, ADV_PROC_CONNECT
LEMMA ProcConnectTurns ==
    ASSUME NEW s, NEW t, NEW P \in SUBSET Parts, Turns(P, s, t)
    PROVE  Turns(P, s, ProcConnect(t))
  BY AppAdvStopTurns DEF ProcConnect

\* appAdvScanStopCB of main.c
LEMMA ScanStopTurns ==
    ASSUME NEW s, NEW t, NEW P \in SUBSET PeerPart, Turns(P, s, t)
    PROVE  Turns(P, s, AppAdvScanStopCB(t))
<1>1. Turns(P, s, AppAdvStop(t))
  BY PartsIs, AppAdvStopTurns
<1> QED BY <1>1, StopAdvScanningTurns, StopAdvConnectionTurns DEF AppAdvScanStopCB, ProcStopAdv

\* appProcessing of main.c, the advertising part
LEMMA SyncedTurns ==
    ASSUME NEW s, NEW t, NEW P \in SUBSET Parts, Turns(P, s, t)
    PROVE  Turns(P, s, Synced(t))
  BY AppAdvStartTurns, AppAdvStopTurns DEF Synced

-----------------------------------------------------------------------------

\* on_disconnected of ble_advertising.c
LEMMA OnDisconnectedTurns ==
    ASSUME NEW s, NEW t, NEW P \in SUBSET Parts, Turns(P, s, t)
    PROVE  Turns(P, s, OnDisconnected(t))
<1>1. Same(P, t, [t EXCEPT !.whitelistOff = FALSE])
  BY TurnsState, SameRefl, SameAssigns DEF Plain
<1> QED BY <1>1, RestartRepairs, TurnsTrans DEF OnDisconnected

\* on_timeout of ble_advertising.c
LEMMA OnTimeoutTurns ==
    ASSUME NEW s, NEW t, NEW P \in SUBSET Parts, Turns(P, s, t)
    PROVE  Turns(P, s, OnTimeout(t))
<1>1. Same(P, t, t)
  BY TurnsState DEF Same, FiltersLike
<1> QED BY <1>1, RestartRepairs, TurnsTrans DEF OnTimeout

\* ble_advertising_on_sys_evt, which starts what the flash has put off
LEMMA OnSysEvtTurns ==
    ASSUME NEW s, NEW t, NEW P \in SUBSET Parts, Turns(P, s, t)
    PROVE  Turns(P, s, OnSysEvt(t))
<1>1. Same(P, t, [t EXCEPT !.advStartPending = FALSE])
  BY TurnsState, SameRefl, SameAssigns DEF Plain
<1> QED BY <1>1, RestartRepairs, TurnsTrans DEF OnSysEvt

\* ble_advertising_restart_without_whitelist
LEMMA WithoutWhitelistTurns ==
    ASSUME NEW s, NEW t, NEW P \in SUBSET Parts, Turns(P, s, t)
    PROVE  Turns(P, s, RestartWithoutWhitelist(t))
<1> DEFINE stopped == SdAdvStop(t)
           off     == [stopped EXCEPT !.whitelistOff = TRUE]
<1>1. Same(P, t, stopped)
  <2>1. IsState(t)
    BY TurnsState
  <2>2. Same(P, t, [t EXCEPT !.ret = "INVALID_STATE"])
    BY <2>1, SameRefl, SameAssigns DEF Plain
  <2>3. Same(P, t, [t EXCEPT !.radio = "off"])
    BY <2>1, SameRefl, SameAssigns
  <2>4. Same(P, t, [t EXCEPT !.radio = "off", !.ret = "SUCCESS"])
    BY <2>3, SameAssigns DEF Plain
  <2> QED BY <2>2, <2>4 DEF SdAdvStop, Return
<1> HIDE DEF stopped
<1>2. Same(P, t, off)
  BY <1>1, SameAssigns DEF Plain
<1> QED BY <1>2, RestartRepairs, TurnsTrans DEF RestartWithoutWhitelist, off, stopped

-----------------------------------------------------------------------------

\* what the deletion of a peer's file changes
FileFields == {"used", "deleted", "fdsq", "connPeer"}

\* an assignment to one of these
LEMMA AssignsFile ==
    ASSUME NEW s, NEW t, NEW P \in SUBSET (Parts \ FileFields), Turns(P, s, t),
           NEW a \in FileFields, NEW v
    PROVE  Turns(P, s, [t EXCEPT ![a] = v])
<1>1. P \in SUBSET Parts /\ a \in Parts \ P
  BY DEF FileFields, Parts, PeerPart
<1> QED BY <1>1, AssignsTo

\* an operation is put into the flash queue
LEMMA FdsPutTurns ==
    ASSUME NEW s, NEW t, NEW P \in SUBSET (Parts \ FileFields),
           Turns(P, s, t), NEW op, NEW id, NEW dev
    PROVE  Turns(P, s, FdsPut(t, op, id, dev))
<1> DEFINE q == Append(t.fdsq, [op |-> op, id |-> id, dev |-> dev])
<1> HIDE DEF q
<1>1. Turns(P, s, [t EXCEPT !.fdsq = q])
  BY AssignsFile DEF FileFields
<1> QED BY <1>1 DEF FdsPut, q

\* peer_data_delete of peer_data_storage.c
LEMMA PeerDataDeleteTurns ==
    ASSUME NEW s, NEW t, NEW P \in SUBSET (Parts \ FileFields),
           Turns(P, s, t)
    PROVE  Turns(P, s, PeerDataDelete(t))
<1> DEFINE u == t.used \ t.deleted
           freed == [t EXCEPT !.used = u]
<1> HIDE DEF u
<1>1. Turns(P, s, freed)
  BY AssignsFile DEF FileFields
<1> HIDE DEF freed
<1>2. Turns(P, s, [freed EXCEPT !.deleted = {}])
  BY <1>1, AssignsFile DEF FileFields
<1>3. Turns(P, s, FdsPut(t, "delete", Min(t.deleted), NoDev))
  BY FdsPutTurns
<1>4. PeerDataDelete(t) \in
          {t, [freed EXCEPT !.deleted = {}], FdsPut(t, "delete", Min(t.deleted), NoDev)}
  BY DEF PeerDataDelete, freed, u
<1> QED BY <1>2, <1>3, <1>4

\* im_peer_free
LEMMA PeerFreeTurns ==
    ASSUME NEW s, NEW t, NEW P \in SUBSET (Parts \ FileFields),
           Turns(P, s, t), NEW id
    PROVE  Turns(P, s, PeerFree(t, id))
<1> DEFINE ds   == t.deleted \cup {id}
           more == [t EXCEPT !.deleted = ds]
           tidy == PeerDataDelete(more)
           peer == IF tidy.connPeer = id THEN PeerIdInvalid ELSE tidy.connPeer
<1> HIDE DEF ds
<1>1. Turns(P, s, more)
  BY AssignsFile DEF FileFields
<1> HIDE DEF more
<1>2. Turns(P, s, tidy)
  BY <1>1, PeerDataDeleteTurns
<1> HIDE DEF tidy, peer
<1>3. Turns(P, s, [tidy EXCEPT !.connPeer = peer])
  BY <1>2, AssignsFile DEF FileFields
<1> QED BY <1>3 DEF PeerFree, peer, tidy, more, ds

\* the end of the deletion of a file in peer_data_storage.c
LEMMA PeerDeletedTurns ==
    ASSUME NEW s, NEW t, NEW P \in SUBSET (Parts \ FileFields),
           Turns(P, s, t), NEW id
    PROVE  Turns(P, s, PeerDeleted(t, id))
<1> DEFINE u    == t.used \ {id}
           d    == t.deleted \ {id}
           less == [t EXCEPT !.used = u]
           both == [less EXCEPT !.deleted = d]
<1> HIDE DEF u, d
<1>1. Turns(P, s, less)
  BY AssignsFile DEF FileFields
<1> HIDE DEF less
<1>2. Turns(P, s, both)
  BY <1>1, AssignsFile DEF FileFields
<1> HIDE DEF both
<1>3. Turns(P, s, PeerDataDelete(both))
  BY <1>2, PeerDataDeleteTurns
<1>4. PeerDeleted(t, id) = PeerDataDelete(both)
  BY TurnsState DEF PeerDeleted, both, less, u, d, IsState, Fields
<1> QED BY <1>3, <1>4

-----------------------------------------------------------------------------

\* what the security handlers of the peer manager leave alone, and what the calls
\* leave alone that put operations into the flash queue
AppPart   == NotesPart \cup ListsPart \cup {"bond"}
FlashPart == AppPart \cup {"sec", "secProc", "newPeer"}

\* this is none of what the deletion of files changes
LEMMA FlashPartIs ==
    ASSUME NEW P \in SUBSET FlashPart
    PROVE  P \in SUBSET Parts /\ P \in SUBSET (Parts \ FileFields)
  BY DEF FlashPart, AppPart, Parts, PeerPart, NotesPart, ListsPart, FileFields

\* the security handlers make these calls
LEMMA AppPartIs ==
    ASSUME NEW P \in SUBSET AppPart
    PROVE  /\ P \in SUBSET FlashPart
           /\ P \in SUBSET Parts /\ P \in SUBSET (Parts \ FileFields)
<1>1. P \in SUBSET FlashPart
  BY DEF FlashPart
<1> QED BY <1>1, FlashPartIs

\* an assignment to a variable of the peer manager or of no concern
LEMMA Sets ==
    ASSUME NEW s, NEW t, NEW P \in SUBSET AppPart, Turns(P, s, t), 
           NEW a \in Plain \cup (PeerPart \ {"bond"}), NEW v
    PROVE  Turns(P, s, [t EXCEPT ![a] = v])
<1>1. P \in SUBSET Parts /\ a \in Plain \cup (Parts \ P)
  BY DEF AppPart, Parts, Plain, PeerPart, NotesPart, ListsPart
<1> QED BY <1>1, AssignsTo

\* an assignment to what these calls write
LEMMA Puts ==
    ASSUME NEW s, NEW t, NEW P \in SUBSET FlashPart, Turns(P, s, t),
           NEW a \in Plain \cup FileFields \cup {"gap", "orderRecs", "isDeleteBonds"},
           NEW v
    PROVE  Turns(P, s, [t EXCEPT ![a] = v])
<1>1. P \in SUBSET Parts /\ a \in Plain \cup (Parts \ P)
  BY DEF FlashPart, AppPart, Parts, Plain, PeerPart, NotesPart, ListsPart,
         FileFields
<1> QED BY <1>1, AssignsTo

\* the calls the security handlers make on a failure
LEMMA Free ==
    ASSUME NEW s, NEW t, NEW P \in SUBSET AppPart, Turns(P, s, t)
    PROVE  /\ Turns(P, s, AppDisconnect(t))
           /\ \A id : Turns(P, s, PeerFree(t, id))
           /\ \A id : Turns(P, s, PeerDeleted(t, id))
           /\ \A c : Turns(P, s, Return(t, c))
           /\ \A f : f # NoFault => Turns(P, s, Check(t, f))
  BY AppPartIs, AppDisconnectTurns, PeerFreeTurns, PeerDeletedTurns, Returns, Checks

\* operations are offered to the flash queue
LEMMA FdsTryTurns ==
    ASSUME NEW s, NEW t, NEW P \in SUBSET FlashPart, Turns(P, s, t), NEW ops
    PROVE  Turns(P, s, FdsTry(t, ops))
<1> DEFINE room == FdsQueueSize - Len(t.fdsq)
           q    == t.fdsq \o SubSeq(ops, 1, Min({room, Len(ops)}))
           put  == [t EXCEPT !.fdsq = q]
           over == put.overrun \/ room < Len(ops)
<1> HIDE DEF q
<1>1. Turns(P, s, put)
  BY Puts DEF FileFields
<1> HIDE DEF put, over
<1>2. Turns(P, s, [put EXCEPT !.overrun = over])
  BY <1>1, Puts DEF Plain
<1>3. FdsTry(t, ops) = [put EXCEPT !.overrun = over]
  BY DEF FdsTry, put, q, over
<1> QED BY <1>2, <1>3

\* orderSetFirst and the writing of the order
LEMMA AddOrderTurns ==
    ASSUME NEW s, NEW t, NEW P \in SUBSET FlashPart, Turns(P, s, t), NEW peerId
    PROVE  Turns(P, s, AddOrder(t, peerId))
<1> DEFINE order == OrderSetFirst(t.deviceOrder, peerId % 256)
<1> HIDE DEF order
<1>1. Turns(P, s, [t EXCEPT !.deviceOrder = order])
  BY Puts DEF Plain
<1>2. Turns(P, s, OrderWriteFlash([t EXCEPT !.deviceOrder = order]))
  BY <1>1, FdsTryTurns DEF OrderWriteFlash
<1> QED BY <1>2 DEF AddOrder, order

\* pm_peers_delete
LEMMA PmPeersDeleteTurns ==
    ASSUME NEW s, NEW t, NEW P \in SUBSET FlashPart, Turns(P, s, t)
    PROVE  Turns(P, s, PmPeersDelete(t))
<1>1. PICK freed :
          PmPeersDelete(t) =
              [t EXCEPT !.used = freed.used, !.deleted = freed.deleted,
                        !.fdsq = freed.fdsq, !.connPeer = freed.connPeer,
                        !.ret = "SUCCESS"]
  BY DEF PmPeersDelete
<1> DEFINE t1 == [t EXCEPT !.used = freed.used]
           t2 == [t1 EXCEPT !.deleted = freed.deleted]
           t3 == [t2 EXCEPT !.fdsq = freed.fdsq]
           t4 == [t3 EXCEPT !.connPeer = freed.connPeer]
<1>2. Turns(P, s, t1)
  BY Puts DEF FileFields
<1> HIDE DEF t1
<1>3. Turns(P, s, t2)
  BY <1>2, Puts DEF FileFields
<1> HIDE DEF t2
<1>4. Turns(P, s, t3)
  BY <1>3, Puts DEF FileFields
<1> HIDE DEF t3
<1>5. Turns(P, s, t4)
  BY <1>4, Puts DEF FileFields
<1> HIDE DEF t4
<1>6. Turns(P, s, [t4 EXCEPT !.ret = "SUCCESS"])
  BY <1>5, Puts DEF Plain
<1> QED BY <1>1, <1>6 DEF t4, t3, t2, t1

\* appProcessing of main.c, the deletion of the bonds
LEMMA DeleteBondsTurns ==
    ASSUME NEW s, NEW t, NEW P \in SUBSET FlashPart, Turns(P, s, t)
    PROVE  Turns(P, s, DeleteBonds(t))
<1> DEFINE begun   == [t EXCEPT !.isDeleteBonds = FALSE]
           freed   == PmPeersDelete(begun)
           cleaned == [freed EXCEPT !.deviceOrder = CleanOrder]
<1>1. Turns(P, s, begun)
  BY Puts DEF FileFields
<1> HIDE DEF begun
<1>2. Turns(P, s, freed)
  BY <1>1, PmPeersDeleteTurns
<1> HIDE DEF freed
<1>3. Turns(P, s, cleaned)
  BY <1>2, Puts DEF Plain
<1> HIDE DEF cleaned
<1>4. Turns(P, s, OrderWriteFlash(cleaned))
  BY <1>3, FdsTryTurns DEF OrderWriteFlash
<1> QED BY <1>4 DEF DeleteBonds, cleaned, freed, begun

-----------------------------------------------------------------------------

\* pm_evt_handler, PM_EVT_CONN_SEC_SUCCEEDED
LEMMA ConnSecSucceededTurns ==
    ASSUME NEW s, NEW t, NEW P \in SUBSET FlashPart, Turns(P, s, t)
    PROVE  Turns(P, s, ConnSecSucceeded(t))
<1> DEFINE first == AddOrder(t, t.connPeer)
<1>1. Turns(P, s, first)
  BY AddOrderTurns
<1> HIDE DEF first
<1> QED BY <1>1, Puts DEF ConnSecSucceeded, Plain, first

\* what the end of the writing of a bond leaves alone
StoredPart ==
    (NotesPart \ {"whitelistPeers"}) \cup {"sec", "secProc", "newPeer"}

\* this is none of what is assigned there
LEMMA StoredPartIs ==
    ASSUME NEW P \in SUBSET StoredPart
    PROVE  /\ P \in SUBSET FlashPart
           /\ P \in SUBSET Parts /\ P \in SUBSET (Parts \ FileFields)
           /\ P \in SUBSET (PeerPart \cup NotesPart)
           /\ {"whitelistPeers", "bond"} \subseteq Parts \ P
  BY DEF StoredPart, FlashPart, AppPart, Parts, PeerPart, NotesPart, ListsPart,
         FileFields

\* pm_evt_handler, PM_EVT_PEER_DATA_UPDATE_SUCCEEDED
LEMMA PeerDataUpdateTurns ==
    ASSUME NEW s, NEW t, NEW P \in SUBSET StoredPart, Turns(P, s, t), NEW peerId
    PROVE  Turns(P, s, PeerDataUpdateSucceeded(t, peerId))
<1> DEFINE first == AddOrder(t, peerId)
           peers == Append(t.whitelistPeers, t.peerId)
           more  == [first EXCEPT !.whitelistPeers = peers]
           known == Check(PmWhitelistSet(more, peers), "pm_evt_handler")
           ids   == PmDeviceIdentitiesListSet(known, peers)
<1>0. /\ P \in SUBSET FlashPart /\ P \in SUBSET Parts
      /\ P \in SUBSET (PeerPart \cup NotesPart) /\ "whitelistPeers" \in Parts \ P
  BY StoredPartIs
<1>1. Turns(P, s, first)
  BY <1>0, AddOrderTurns
<1> HIDE DEF first, peers
<1>2. Turns(P, s, more)
  BY <1>0, <1>1, AssignsTo
<1> HIDE DEF more
<1>3. Turns(P, s, PmWhitelistSet(more, peers))
  BY <1>0, <1>2, ListsTurn
<1>4. Turns(P, s, known)
  BY <1>0, <1>3, Checks DEF NoFault
<1> HIDE DEF known
<1>5. Turns(P, s, ids)
  BY <1>0, <1>4, ListsTurn
<1> HIDE DEF ids
<1>6. Turns(P, s, Check(ids, "pm_evt_handler"))
  BY <1>0, <1>5, Checks DEF NoFault
<1> QED BY <1>1, <1>6 DEF PeerDataUpdateSucceeded, ids, known, more, peers, first

\* conn_sec_failure of security_dispatcher.c
LEMMA ConnSecFailureTurns ==
    ASSUME NEW s, NEW t, NEW P \in SUBSET AppPart, Turns(P, s, t)
    PROVE  Turns(P, s, ConnSecFailure(t))
<1>1. Turns(P, s, [t EXCEPT !.secProc = "none"])
  BY Sets DEF PeerPart
<1> QED BY <1>1, Free DEF ConnSecFailure

\* link_secure_failure of security_dispatcher.c
LEMMA LinkSecureFailureTurns ==
    ASSUME NEW s, NEW t, NEW P \in SUBSET AppPart, Turns(P, s, t)
    PROVE  Turns(P, s, LinkSecureFailure(t))
<1>1. Turns(P, s, PeerFree(t, t.connPeer))
  BY Free
<1> QED BY <1>1, ConnSecFailureTurns DEF LinkSecureFailure

\* disconnect_process of security_dispatcher.c
LEMMA SmdDisconnectedTurns ==
    ASSUME NEW s, NEW t, NEW P \in SUBSET AppPart, Turns(P, s, t)
    PROVE  Turns(P, s, SmdDisconnected(t))
<1>1. Turns(P, s, LinkSecureFailure(t))
  BY LinkSecureFailureTurns
<1> QED BY <1>1, Sets DEF SmdDisconnected, PeerPart

\* sec_proc_start of security_dispatcher.c
LEMMA SecProcStartTurns ==
    ASSUME NEW s, NEW t, NEW P \in SUBSET AppPart, Turns(P, s, t), NEW procedure
    PROVE  Turns(P, s, SecProcStart(t, procedure))
<1>1. Turns(P, s, [t EXCEPT !.secProc = procedure])
  BY Sets DEF PeerPart
<1> QED BY <1>1, Sets DEF SecProcStart, PeerPart

\* the answers to the stack's security requests
LEMMA SdSecReplyTurns ==
    ASSUME NEW s, NEW t, NEW P \in SUBSET AppPart, Turns(P, s, t), NEW asked, NEW next
    PROVE  Turns(P, s, SdSecReply(t, asked, next))
<1>1. Turns(P, s, [t EXCEPT !.sec = next])
  BY Sets DEF PeerPart
<1>2. Turns(P, s, [t EXCEPT !.sec = next, !.ret = "SUCCESS"])
  BY <1>1, Sets DEF Plain
<1> QED BY <1>2, Free DEF SdSecReply

\* what a failed reply is answered with
LEMMA ReplyFailedTurns ==
    ASSUME NEW s, NEW t, NEW P \in SUBSET AppPart, Turns(P, s, t)
    PROVE  Turns(P, s, ReplyFailed(t))
  BY AppPartIs, Checks DEF ReplyFailed, ErrorUnexpected, NoFault

\* sec_params_request_process and smd_params_reply
LEMMA SecParamsRequestTurns ==
    ASSUME NEW s, NEW t, NEW P \in SUBSET AppPart, Turns(P, s, t)
    PROVE  Turns(P, s, SecParamsRequestProcess(t))
<1> DEFINE started == SecProcStart(t, "pairing")
           new     == Min(Unallocated(t))
           u       == started.used \cup {new}
           taken   == [started EXCEPT !.used = u]
           reply   == SdSecReply(taken, "params", "pairing")
           refuse  == SdSecReply(started, "params", "rejected")
           full    == Return(started, "INTERNAL")
           fresh   == [reply EXCEPT !.newPeer = TRUE]
           given   == [fresh EXCEPT !.connPeer = new]
           failed  == PeerFree(reply, new)
<1> HIDE DEF new
<1>1. Turns(P, s, started)
  BY SecProcStartTurns
<1> HIDE DEF started, u
<1>2. Turns(P, s, taken) /\ Turns(P, s, refuse) /\ Turns(P, s, full)
  BY <1>1, Sets, Free, SdSecReplyTurns DEF PeerPart
<1> HIDE DEF taken, refuse, full
<1>3. Turns(P, s, reply)
  BY <1>2, SdSecReplyTurns
<1> HIDE DEF reply
<1>4. Turns(P, s, fresh) /\ Turns(P, s, failed)
  BY <1>3, Sets, Free DEF PeerPart
<1> HIDE DEF fresh, failed
<1>5. /\ Turns(P, s, given)
      /\ Turns(P, s, ReplyFailed(refuse))
      /\ Turns(P, s, ReplyFailed(full))
      /\ Turns(P, s, ReplyFailed(failed))
  BY <1>2, <1>4, Sets, ReplyFailedTurns DEF PeerPart
<1>6. SecParamsRequestProcess(t) \in
          {given, ReplyFailed(refuse), ReplyFailed(full), ReplyFailed(failed)}
  BY DEF SecParamsRequestProcess, given, fresh, failed, full, refuse, reply, taken,
         u, started, new
<1> HIDE DEF given
<1> QED BY <1>5, <1>6

\* auth_status_success_process, bonded
LEMMA AuthBondedTurns ==
    ASSUME NEW s, NEW t, NEW P \in SUBSET AppPart, Turns(P, s, t), NEW dev
    PROVE  Turns(P, s, AuthBonded(t, dev))
<1> DEFINE other == FindBond(t, dev)
           ended == [t EXCEPT !.secProc = "none"]
           known == [ended EXCEPT !.connPeer = other]
           put   == FdsPut(ended, "bond", t.connPeer, dev)
           freed == PeerFree(known, t.connPeer)
           none  == Return(ended, "INVALID_PARAM")
<1> HIDE DEF other
<1>1. Turns(P, s, ended)
  BY Sets DEF PeerPart
<1> HIDE DEF ended
<1>2. Turns(P, s, known) /\ Turns(P, s, put) /\ Turns(P, s, none)
  BY <1>1, AppPartIs, Sets, FdsPutTurns, Free DEF PeerPart
<1> HIDE DEF known, put, none
<1>3. Turns(P, s, freed) /\ Turns(P, s, ErrorUnexpected(none))
  BY <1>2, Free DEF ErrorUnexpected, NoFault
<1> HIDE DEF freed
<1>4. AuthBonded(t, dev) \in
          {ConnSecSucceeded(put), ConnSecSucceeded(freed), ConnSecSucceeded(known),
           ErrorUnexpected(none)}
  BY DEF AuthBonded, other, ended, known, put, freed, none
<1> QED BY <1>2, <1>3, <1>4, AppPartIs, ConnSecSucceededTurns

\* auth_status_success_process, not bonded
LEMMA AuthPairedTurns ==
    ASSUME NEW s, NEW t, NEW P \in SUBSET AppPart, Turns(P, s, t)
    PROVE  Turns(P, s, AuthPaired(t))
<1> DEFINE ended == [t EXCEPT !.secProc = "none"]
<1>1. Turns(P, s, ended)
  BY Sets DEF PeerPart
<1> HIDE DEF ended
<1>2. Turns(P, s, PeerFree(ended, t.connPeer))
  BY <1>1, Free
<1>3. AuthPaired(t) \in
          {ConnSecSucceeded(ended), ConnSecSucceeded(PeerFree(ended, t.connPeer))}
  BY DEF AuthPaired, ended
<1> QED BY <1>1, <1>2, <1>3, AppPartIs, ConnSecSucceededTurns

\* sec_info_request_process
LEMMA SecInfoRequestTurns ==
    ASSUME NEW s, NEW t, NEW P \in SUBSET AppPart, Turns(P, s, t), NEW dev
    PROVE  Turns(P, s, SecInfoRequestProcess(t, dev))
<1> DEFINE byKey   == FindBond(t, dev)
           peer    == IF byKey = PeerIdInvalid THEN t.connPeer ELSE byKey
           next    == IF HasBond(t, peer) THEN "encrypting" ELSE "none"
           with    == [t EXCEPT !.connPeer = peer]
           started == SecProcStart(with, "encryption")
           reply   == SdSecReply(started, "info", next)
<1> HIDE DEF byKey, peer, next
<1>1. Turns(P, s, with)
  BY Sets DEF PeerPart
<1> HIDE DEF with
<1>2. Turns(P, s, started)
  BY <1>1, SecProcStartTurns
<1> HIDE DEF started
<1>3. Turns(P, s, reply)
  BY <1>2, SdSecReplyTurns
<1> HIDE DEF reply
<1>4. Turns(P, s, ErrorUnexpected(reply)) /\ Turns(P, s, ConnSecFailure(reply))
  BY <1>3, AppPartIs, Checks, ConnSecFailureTurns DEF ErrorUnexpected, NoFault
<1>5. SecInfoRequestProcess(t, dev) \in
          {ErrorUnexpected(reply), reply, ConnSecFailure(reply)}
  BY DEF SecInfoRequestProcess, reply, started, with, next, peer, byKey
<1> QED BY <1>3, <1>4, <1>5

\* conn_sec_update_process
LEMMA ConnSecUpdateTurns ==
    ASSUME NEW s, NEW t, NEW P \in SUBSET AppPart, Turns(P, s, t), NEW isEncrypted
    PROVE  Turns(P, s, ConnSecUpdateProcess(t, isEncrypted))
<1>1. Turns(P, s, [t EXCEPT !.secProc = "none"])
  BY Sets DEF PeerPart
<1> QED BY <1>1, AppPartIs, ConnSecSucceededTurns, ConnSecFailureTurns DEF ConnSecUpdateProcess

-----------------------------------------------------------------------------

-----------------------------------------------------------------------------

\* the deletion of an order record
LEMMA OrderDeletedTurns ==
    ASSUME NEW s, NEW t, NEW P \in SUBSET FlashPart, Turns(P, s, t), NEW pos
    PROVE  Turns(P, s, OrderDeleted(t, pos))
<1> DEFINE r     == RemoveAt(t.orderRecs, pos)
           short == [t EXCEPT !.orderRecs = r]
           q     == [k \in DOMAIN short.fdsq |-> Renumbered(short.fdsq[k], pos)]
<1>1. OrderDeleted(t, pos) = [short EXCEPT !.fdsq = q]
  BY DEF OrderDeleted
<1> HIDE DEF r
<1>2. Turns(P, s, short)
  BY Puts DEF FileFields
<1> HIDE DEF short, q
<1>3. Turns(P, s, [short EXCEPT !.fdsq = q])
  BY <1>2, Puts DEF FileFields
<1> QED BY <1>1, <1>3

\* the deletion of an order record that is gone: the queue is dropped or a check fails
LEMMA OrderNotFoundTurns ==
    ASSUME NEW s, NEW t, NEW P \in SUBSET FlashPart, Turns(P, s, t)
    PROVE  Turns(P, s, OrderNotFound(t))
<1>1. Turns(P, s, [t EXCEPT !.fault = "queue_process"])
  <2> DEFINE u == [t EXCEPT !.fault = "queue_process"]
  <2>1. IsState(t)
    BY TurnsState
  <2>2. IsState(u) /\ u.fault # NoFault /\ \A f \in Fields \ {"fault"} : u[f] = t[f]
    BY <2>1 DEF IsState, Fields, NoFault
  <2>3. LinkPart \cup Parts \cup {"radio"} \subseteq Fields \ {"fault"}
    BY DEF Fields, LinkPart, Parts, PeerPart, NotesPart, ListsPart
  <2> HIDE DEF u
  <2>4. Turns(Parts, t, u)
    BY <2>2, <2>3 DEF Turns, FiltersLike
  <2> QED BY <2>4, FlashPartIs, TurnsPart, TurnsTrans DEF u
<1> DEFINE behind == {op.op : op \in Range(Tail(t.fdsq))}
           q      == <<Head(t.fdsq)>>
           alone  == [t EXCEPT !.fdsq = q]
           g      == alone.gap \/ "order" \in behind
<1> HIDE DEF q, behind
<1>2. Turns(P, s, alone)
  BY Puts DEF FileFields
<1> HIDE DEF alone, g
<1>3. Turns(P, s, [alone EXCEPT !.gap = g])
  BY <1>2, Puts DEF FileFields
<1>4. OrderNotFound(t) \in {[t EXCEPT !.fault = "queue_process"], [alone EXCEPT !.gap = g]}
  BY DEF OrderNotFound, alone, g, q, behind
<1> QED BY <1>1, <1>3, <1>4

\* what the end of a flash operation does
LEMMA CompletedTurns ==
    ASSUME NEW s, NEW t, NEW P \in SUBSET StoredPart, Turns(P, s, t), NEW op
    PROVE  Turns(P, s, Completed(t, op))
<1> DEFINE bond  == [t.bond EXCEPT ![op.id] = op.dev]
           clear == [t.bond EXCEPT ![op.id] = NoDev]
           recs  == Append(t.orderRecs, t.deviceOrder)
           kept  == PeerDataUpdateSucceeded(
                        Visible(t, [t EXCEPT !.bond = bond]), op.id)
           gone  == PeerDeleted([t EXCEPT !.bond = clear], op.id)
           saved == Visible(t, [t EXCEPT !.orderRecs = recs])
<1>0. /\ P \in SUBSET FlashPart /\ P \in SUBSET Parts
      /\ P \in SUBSET (Parts \ FileFields) /\ "bond" \in Parts \ P
  BY StoredPartIs
<1>1. Completed(t, op) \in
          {kept, gone, saved, OrderNotFound(t), OrderDeleted(t, op.id)}
  BY DEF Completed
<1> HIDE DEF bond, clear, recs
<1>2. Turns(P, s, kept)
  <2>1. Turns(P, s, Visible(t, [t EXCEPT !.bond = bond]))
    BY <1>0, AssignsTo DEF Visible
  <2> QED BY <2>1, PeerDataUpdateTurns
<1>3. Turns(P, s, gone)
  <2>1. Turns(P, s, [t EXCEPT !.bond = clear])
    BY <1>0, AssignsTo
  <2> QED BY <1>0, <2>1, PeerDeletedTurns
<1>4. Turns(P, s, saved)
  BY <1>0, Puts DEF Visible
<1> HIDE DEF kept, gone, saved
<1> QED BY <1>0, <1>1, <1>2, <1>3, <1>4, OrderNotFoundTurns, OrderDeletedTurns

\* queue_process of fds.c, as the firmware sees it
LEMMA FdsDoneTurns ==
    ASSUME NEW s, NEW t, NEW P \in SUBSET StoredPart, Turns(P, s, t)
    PROVE  Turns(P, s, FdsDone(t))
<1> DEFINE q     == [t.fdsq EXCEPT ![1].op = "done"]
           doing == [t EXCEPT !.fdsq = q]
           done  == Completed(doing, Head(t.fdsq))
           rest  == Tail(done.fdsq)
<1>0. P \in SUBSET FlashPart
  BY StoredPartIs
<1> HIDE DEF q
<1>1. Turns(P, s, doing)
  BY <1>0, Puts DEF FileFields
<1> HIDE DEF doing
<1>2. Turns(P, s, done)
  BY <1>1, CompletedTurns
<1> HIDE DEF done, rest
<1>3. Turns(P, s, [done EXCEPT !.fdsq = rest])
  BY <1>0, <1>2, Puts DEF FileFields
<1> QED BY <1>3 DEF FdsDone, rest, done, doing, q

\* the observers of the end of a flash operation
LEMMA FlashOperationDoneTurns ==
    ASSUME NEW s, NEW t, NEW P \in SUBSET StoredPart, Turns(P, s, t)
    PROVE  Turns(P, s, FlashOperationDone(t))
<1>1. Turns(P, s, FdsDone(t))
  BY FdsDoneTurns
<1> QED BY <1>1, StoredPartIs, OnSysEvtTurns DEF FlashOperationDone

-------------------------------------------------------------------------------
(* The link and the radio, action by action                                  *)

\* the events that wait to be fetched
Events == [id : EventIds, dev : Others]

\* the events that come with a change of the link
LinkEvents == {"CONNECTED", "DISCONNECTED"}

\* up[k] is whether a link is up after the first k events: "before" before all
\* of them, "after" after all
Tracks(evts, before, after, up) ==
    /\ up[0] = before
    /\ up[Len(evts)] = after
    /\ \A k \in 1 .. Len(evts) :
          /\ evts[k].id = "CONNECTED" => ~up[k - 1] /\ up[k]
          /\ evts[k].id = "DISCONNECTED" => up[k - 1] /\ ~up[k]
    /\ \A i, j \in 0 .. Len(evts) :
          /\ i <= j
          /\ \A k \in i + 1 .. j : evts[k].id \notin LinkEvents
          => up[i] = up[j]

\* the events tell how the link has come from "before" to "after"
Follows(evts, before, after) ==
    \E up \in [0 .. Len(evts) -> BOOLEAN] : Tracks(evts, before, after, up)

\* the same for one event
Steps(id, before, after) ==
    /\ id = "CONNECTED" => ~before /\ after
    /\ id = "DISCONNECTED" => before /\ ~after
    /\ id \notin LinkEvents => before = after

\* Fetching an event leaves a queue that tells the rest of the story.
LEMMA FollowsTail ==
    ASSUME NEW evts \in Seq(Events), evts # <<>>, NEW b \in BOOLEAN, NEW a \in BOOLEAN,
           Follows(evts, b, a)
    PROVE  \E c \in BOOLEAN : Follows(Tail(evts), c, a) /\ Steps(Head(evts).id, b, c)
<1>1. PICK up \in [0 .. Len(evts) -> BOOLEAN] : Tracks(evts, b, a, up)
  BY DEF Follows
<1> DEFINE n == Len(evts)
           rest == Tail(evts)
           shift == [k \in 0 .. n - 1 |-> up[k + 1]]
<1>2. n \in Nat /\ n >= 1 /\ Len(rest) = n - 1 /\ Head(evts) = evts[1]
  OBVIOUS
<1>3. \A k \in 1 .. n - 1 : rest[k] = evts[k + 1]
  BY <1>2
<1>4. shift \in [0 .. Len(rest) -> BOOLEAN]
  BY <1>2
<1>5. Tracks(rest, up[1], a, shift)
  <2>1. shift[0] = up[1] /\ shift[Len(rest)] = a
    BY <1>1, <1>2 DEF Tracks
  <2>2. ASSUME NEW k \in 1 .. Len(rest)
        PROVE  /\ rest[k].id = "CONNECTED" => ~shift[k - 1] /\ shift[k]
               /\ rest[k].id = "DISCONNECTED" => shift[k - 1] /\ ~shift[k]
    <3>1. k + 1 \in 1 .. n /\ rest[k] = evts[k + 1]
      BY <1>2, <1>3
    <3>2. shift[k - 1] = up[(k + 1) - 1] /\ shift[k] = up[k + 1]
      BY <1>2
    <3>3. /\ evts[k + 1].id = "CONNECTED" => ~up[(k + 1) - 1] /\ up[k + 1]
          /\ evts[k + 1].id = "DISCONNECTED" => up[(k + 1) - 1] /\ ~up[k + 1]
      BY <1>1, <3>1 DEF Tracks
    <3> QED BY <3>1, <3>2, <3>3
  <2>3. ASSUME NEW i \in 0 .. Len(rest), NEW j \in 0 .. Len(rest), i <= j,
               \A k \in i + 1 .. j : rest[k].id \notin LinkEvents
        PROVE  shift[i] = shift[j]
    <3>1. /\ i + 1 \in 0 .. n /\ j + 1 \in 0 .. n /\ i + 1 <= j + 1
          /\ shift[i] = up[i + 1] /\ shift[j] = up[j + 1]
      BY <1>2, <2>3
    <3>2. ASSUME NEW k \in (i + 1) + 1 .. j + 1
          PROVE  evts[k].id \notin LinkEvents
      <4>1. k - 1 \in i + 1 .. j /\ k - 1 \in 1 .. n - 1
        BY <1>2
      <4>2. rest[k - 1] = evts[(k - 1) + 1] /\ (k - 1) + 1 = k
        BY <1>3, <4>1
      <4> QED BY <2>3, <4>1, <4>2
    <3>3. up[i + 1] = up[j + 1]
      BY <1>1, <3>1, <3>2 DEF Tracks
    <3> QED BY <3>1, <3>3
  <2> QED BY <2>1, <2>2, <2>3 DEF Tracks
<1>6. Steps(evts[1].id, b, up[1])
  <2>1. up[0] = b /\ 1 \in 1 .. n /\ 0 \in 0 .. n /\ 1 \in 0 .. n /\ 1 - 1 = 0
    BY <1>1, <1>2 DEF Tracks
  <2>2. /\ evts[1].id = "CONNECTED" => ~up[0] /\ up[1]
        /\ evts[1].id = "DISCONNECTED" => up[0] /\ ~up[1]
    BY <1>1, <2>1 DEF Tracks
  <2>3. evts[1].id \notin LinkEvents => up[0] = up[1]
    <3>1. \A k \in 0 + 1 .. 1 : k = 1
      OBVIOUS
    <3> QED BY <1>1, <2>1, <3>1 DEF Tracks
  <2> QED BY <2>1, <2>2, <2>3 DEF Steps
<1>7. up[1] \in BOOLEAN
  BY <1>2
<1> QED BY <1>2, <1>4, <1>5, <1>6, <1>7 DEF Follows

\* The stack appends an event when it changes the link.
LEMMA FollowsAppend ==
    ASSUME NEW evts \in Seq(Events), NEW b \in BOOLEAN, NEW a \in BOOLEAN,
           Follows(evts, b, a), NEW e \in Events, NEW d \in BOOLEAN,
           Steps(e.id, a, d)
    PROVE  Follows(Append(evts, e), b, d)
<1>1. PICK up \in [0 .. Len(evts) -> BOOLEAN] : Tracks(evts, b, a, up)
  BY DEF Follows
<1> DEFINE n == Len(evts)
           more == Append(evts, e)
           long == [k \in 0 .. n + 1 |-> IF k = n + 1 THEN d ELSE up[k]]
<1>2. n \in Nat /\ Len(more) = n + 1 /\ more[n + 1] = e
  OBVIOUS
<1>3. \A k \in 1 .. n : more[k] = evts[k]
  OBVIOUS
<1>4. long \in [0 .. n + 1 -> BOOLEAN]
  BY <1>2
<1>5. long[n + 1] = d /\ \A k \in 0 .. n : long[k] = up[k]
  BY <1>2
<1> HIDE DEF more, long
<1>6. Tracks(more, b, d, long)
  <2>1. long[0] = b /\ long[Len(more)] = d
    BY <1>1, <1>2, <1>5 DEF Tracks
  <2>2. ASSUME NEW k \in 1 .. Len(more)
        PROVE  /\ more[k].id = "CONNECTED" => ~long[k - 1] /\ long[k]
               /\ more[k].id = "DISCONNECTED" => long[k - 1] /\ ~long[k]
    <3>1. CASE k = n + 1
      <4>1. k - 1 = n /\ long[k - 1] = a /\ long[k] = d
        BY <1>1, <1>2, <1>5, <3>1 DEF Tracks
      <4> QED BY <1>2, <3>1, <4>1 DEF Steps
    <3>2. CASE k # n + 1
      <4>1. k \in 1 .. n /\ k - 1 \in 0 .. n
        BY <1>2, <3>2
      <4>2. long[k] = up[k] /\ long[k - 1] = up[k - 1] /\ more[k] = evts[k]
        BY <1>3, <1>5, <4>1
      <4> QED BY <1>1, <4>1, <4>2 DEF Tracks
    <3> QED BY <3>1, <3>2
  <2>3. ASSUME NEW i \in 0 .. Len(more), NEW j \in 0 .. Len(more), i <= j,
               \A k \in i + 1 .. j : more[k].id \notin LinkEvents
        PROVE  long[i] = long[j]
    <3>1. CASE j # n + 1
      <4>1. i \in 0 .. n /\ j \in 0 .. n
        BY <1>2, <2>3, <3>1
      <4>2. \A k \in i + 1 .. j : evts[k].id \notin LinkEvents
        BY <1>2, <1>3, <2>3, <4>1
      <4>3. up[i] = up[j]
        BY <1>1, <2>3, <4>1, <4>2 DEF Tracks
      <4> QED BY <1>5, <4>1, <4>3
    <3>2. CASE j = n + 1 /\ i # n + 1
      <4>1. i \in 0 .. n /\ n \in 0 .. n /\ i <= n
        BY <1>2, <2>3, <3>2
      <4>2. \A k \in i + 1 .. n : evts[k].id \notin LinkEvents
        BY <1>2, <1>3, <2>3, <3>2, <4>1
      <4>3. up[i] = up[n]
        BY <1>1, <4>1, <4>2 DEF Tracks
      <4>4. n + 1 \in i + 1 .. j
        BY <1>2, <3>2, <4>1
      <4>5. e.id \notin LinkEvents
        BY <1>2, <2>3, <4>4
      <4>6. d = a /\ up[n] = a
        BY <1>1, <4>5 DEF Steps, Tracks
      <4> QED BY <1>5, <3>2, <4>1, <4>3, <4>6
    <3>3. CASE i = n + 1 /\ j = n + 1
      BY <3>3
    <3> QED BY <3>1, <3>2, <3>3
  <2> QED BY <2>1, <2>2, <2>3 DEF Tracks
<1> QED BY <1>2, <1>4, <1>6 DEF Follows, more

\* Without events about the link the firmware knows its state.
LEMMA FollowsQuiet ==
    ASSUME NEW evts \in Seq(Events), NEW b \in BOOLEAN, NEW a \in BOOLEAN,
           Follows(evts, b, a), \A k \in DOMAIN evts : evts[k].id \notin LinkEvents
    PROVE  a = b
<1>1. PICK up \in [0 .. Len(evts) -> BOOLEAN] : Tracks(evts, b, a, up)
  BY DEF Follows
<1>2. /\ Len(evts) \in Nat /\ DOMAIN evts = 1 .. Len(evts)
      /\ 0 \in 0 .. Len(evts) /\ Len(evts) \in 0 .. Len(evts) /\ 0 <= Len(evts)
      /\ 0 + 1 .. Len(evts) = DOMAIN evts
  OBVIOUS
<1> QED BY <1>1, <1>2 DEF Tracks

-----------------------------------------------------------------------------
\* Pending of MouseApp for any state
Waits(s, ids) == \E k \in DOMAIN s.evts : s.evts[k].id \in ids

\* the firmware's view of the link is that of the stack when the events that
\* wait have been handled; a termination has been asked for or has come
Linked(s) ==
    /\ s.link \in Others
    /\ s.evts \in Seq(Events)
    /\ s.connHandle \in BOOLEAN
    /\ s.isPrevConn \in BOOLEAN
    /\ s.connectState \in {"CONNECT", "START_DISCONNECT", "DISCONNECT"}
    /\ Follows(s.evts, s.connHandle, s.link # NoDev)
    /\ s.connHandle <=> s.connectState # "DISCONNECT"
    /\ s.isPrevConn => s.connHandle
    /\ s.connectState = "START_DISCONNECT" =>
          s.closing = TRUE \/ Waits(s, {"DISCONNECTED"})

\* isRealAdv tells of the radio, or an event that waits does
Heard(s) == RadioOn(s) \/ Waits(s, {"CONNECTED", "TIMEOUT"})

\* the inductive invariant, of any state; a failed check ends the state
Sound(s) == IsState(s) /\ (s.fault = NoFault => Linked(s) /\ Heard(s))

\* A turn keeps what the firmware knows of the link ...
LEMMA TurnsLinked ==
    ASSUME NEW s, NEW t, Linked(s), Turns({}, s, t), t.fault = NoFault
    PROVE  Linked(t)
<1>1. /\ t.evts = s.evts /\ t.link = s.link
      /\ t.connHandle = s.connHandle /\ t.isPrevConn = s.isPrevConn
  BY DEF Turns, LinkPart
<1>2. Closes(s, t)
  BY DEF Turns
<1>3. Waits(t, {"DISCONNECTED"}) <=> Waits(s, {"DISCONNECTED"})
  BY <1>1 DEF Waits
<1> QED BY <1>1, <1>2, <1>3 DEF Linked, Closes

\* ... and of the radio.
LEMMA TurnsHeard ==
    ASSUME NEW s, NEW t, Heard(s), Turns({}, s, t), t.fault = NoFault
    PROVE  Heard(t)
<1>1. t.evts = s.evts /\ (RadioOn(s) => RadioOn(t))
  BY DEF Turns, LinkPart
<1>2. Waits(t, {"CONNECTED", "TIMEOUT"}) <=> Waits(s, {"CONNECTED", "TIMEOUT"})
  BY <1>1 DEF Waits
<1> QED BY <1>1, <1>2 DEF Heard

\* So whatever is a turn keeps the invariant.
LEMMA TurnsSound ==
    ASSUME NEW s, NEW t, Sound(s), Turns({}, s, t) PROVE Sound(t)
  BY TurnsLinked, TurnsHeard DEF Sound, Turns

\* the flash after power on, and the variables: nothing is under way or wished
\* for, and the ids in use are those with a bond
Booted(s, bond, recs) ==
    /\ s.sec = "none" /\ s.secProc = "none" /\ ~s.newPeer
    /\ s.connPeer = PeerIdInvalid /\ s.deleted = {} /\ ~s.isDeleteBonds
    /\ s.bond = bond /\ s.fdsq = <<>> /\ s.orderRecs = recs
    /\ \A i : i \in s.used <=> i \in Ids /\ bond[i] # NoDev

\* all of this holds after power on
LEMMA PowerOnIs ==
    ASSUME NEW bond, NEW recs
    PROVE  LET s == PowerOn(bond, recs) IN
           /\ IsState(s)
           /\ s.link = NoDev /\ s.evts = <<>> /\ s.connHandle = FALSE
           /\ s.isPrevConn = FALSE /\ s.connectState = "DISCONNECT"
           /\ s.isRealAdv = FALSE /\ s.fault = NoFault
           /\ Booted(s, bond, recs)
<1> DEFINE And(f, g) == [x \in DOMAIN f \cup DOMAIN g |->
                            IF x \in DOMAIN f THEN f[x] ELSE g[x]]
           pm    == PmBoot(bond)
           app   == AppBoot(recs)
           stack == And(SdBoot, pm)
           main  == And(AdvBoot, app)
<1>1. /\ DOMAIN SdBoot = {"radio", "link", "closing", "sec", "evts", "whitelist",
                          "identities", "ret"}
      /\ SdBoot.link = NoDev /\ SdBoot.evts = <<>> /\ SdBoot.sec = "none"
  BY DEF SdBoot
<1> DEFINE used == {i \in Ids : bond[i] # NoDev}
<1>2. /\ DOMAIN pm = {"bond", "used", "deleted", "fdsq", "gap", "overrun",
                      "wlisted", "connPeer", "secProc", "newPeer"}
      /\ pm.secProc = "none"
      /\ pm.bond = bond /\ pm.used = used
      /\ pm.fdsq = <<>> /\ pm.deleted = {}
      /\ pm.connPeer = PeerIdInvalid /\ ~pm.newPeer
  BY DEF PmBoot
<1>3. /\ DOMAIN AdvBoot = {"isRealAdv", "isAppAdv", "connectState",
                           "advModeCurrent", "advStartPending", "whitelistOff",
                           "fault"}
      /\ AdvBoot.connectState = "DISCONNECT" /\ AdvBoot.isRealAdv = FALSE
      /\ AdvBoot.fault = NoFault
  BY DEF AdvBoot
<1>4. /\ DOMAIN app = {"currentAdvType", "isDeleteBonds", "isPrevConn",
                       "connHandle", "peerId", "whitelistPeers", "phase",
                       "listDetectedDev", "quantityDetectedDev", "connectCnt",
                       "loopCnt", "deviceOrder", "orderRecs", "scanTimer"}
      /\ app.connHandle = FALSE /\ app.isPrevConn = FALSE
      /\ app.orderRecs = recs /\ ~app.isDeleteBonds
  BY DEF AppBoot
<1> HIDE DEF pm, app, used
<1>5. /\ DOMAIN stack = DOMAIN SdBoot \cup DOMAIN pm
      /\ stack.link = NoDev /\ stack.evts = <<>> /\ stack.sec = "none"
      /\ stack.secProc = "none"
      /\ stack.bond = bond /\ stack.used = used
      /\ stack.fdsq = <<>> /\ stack.deleted = {}
      /\ stack.connPeer = PeerIdInvalid /\ ~stack.newPeer
  BY <1>1, <1>2
<1>6. /\ DOMAIN main = DOMAIN AdvBoot \cup DOMAIN app
      /\ main.connectState = "DISCONNECT" /\ main.isRealAdv = FALSE
      /\ main.fault = NoFault
      /\ main.connHandle = FALSE /\ main.isPrevConn = FALSE
      /\ main.orderRecs = recs /\ ~main.isDeleteBonds
  <2>1. /\ "connHandle" \notin DOMAIN AdvBoot /\ "isPrevConn" \notin DOMAIN AdvBoot
        /\ "isDeleteBonds" \notin DOMAIN AdvBoot /\ "isDeleteBonds" \in DOMAIN app
        /\ "orderRecs" \notin DOMAIN AdvBoot /\ "orderRecs" \in DOMAIN app
        /\ {"connectState", "isRealAdv", "fault"} \subseteq DOMAIN AdvBoot
        /\ {"connHandle", "isPrevConn"} \subseteq DOMAIN app
    BY <1>3, <1>4
  <2> QED BY <2>1, <1>3, <1>4
<1>7. PowerOn(bond, recs) = And(stack, main)
  BY DEF PowerOn, pm, app
<1> HIDE DEF stack, main
<1>8. IsState(And(stack, main))
  <2>1. DOMAIN And(stack, main) = DOMAIN stack \cup DOMAIN main
    OBVIOUS
  <2>2. DOMAIN stack \cup DOMAIN main = Fields
    BY <1>1, <1>2, <1>3, <1>4, <1>5, <1>6 DEF Fields
  <2> QED BY <2>1, <2>2 DEF IsState
<1>9. /\ {"link", "evts", "sec", "secProc", "bond", "used", "deleted", "fdsq",
          "connPeer", "newPeer"} \subseteq DOMAIN stack
      /\ {"connHandle", "isPrevConn", "connectState", "isRealAdv", "fault",
          "orderRecs", "isDeleteBonds"} \subseteq DOMAIN main \ DOMAIN stack
  BY <1>1, <1>2, <1>3, <1>4, <1>5, <1>6
<1>10. Booted(And(stack, main), bond, recs)
  BY <1>5, <1>6, <1>9 DEF used, Booted
<1> QED BY <1>5, <1>6, <1>7, <1>8, <1>9, <1>10

\* The invariant holds after power on,
LEMMA PowerOnSound ==
    ASSUME NEW bond, NEW recs PROVE Sound(PowerOn(bond, recs))
<1> DEFINE s == PowerOn(bond, recs)
<1>1. /\ IsState(s)
      /\ s.link = NoDev /\ s.evts = <<>> /\ s.connHandle = FALSE
      /\ s.isPrevConn = FALSE /\ s.connectState = "DISCONNECT"
      /\ s.isRealAdv = FALSE
  BY PowerOnIs
<1> HIDE DEF s
<1>2. Follows(<<>>, FALSE, FALSE)
  <2> DEFINE up == [k \in 0 .. 0 |-> FALSE]
  <2>1. Len(<<>>) = 0 /\ up \in [0 .. 0 -> BOOLEAN] /\ up[0] = FALSE
    OBVIOUS
  <2>2. \A i \in 0 .. 0 : i = 0
    OBVIOUS
  <2>3. Tracks(<<>>, FALSE, FALSE, up)
    BY <2>1, <2>2 DEF Tracks
  <2> QED BY <2>1, <2>3 DEF Follows
<1>3. s.link \in Others /\ s.evts \in Seq(Events)
  BY <1>1 DEF Others
<1>4. (s.link # NoDev) = FALSE
  BY <1>1
<1>5. Follows(s.evts, s.connHandle, s.link # NoDev)
  BY <1>1, <1>2, <1>4
<1>6. Linked(s)
  BY <1>1, <1>3, <1>5 DEF Linked
<1>7. Heard(s)
  BY <1>1 DEF Heard, RadioOn
<1> QED BY <1>1, <1>6, <1>7 DEF Sound, s

\* after the reset of a failed check,
LEMMA SettledSound ==
    ASSUME NEW s, Sound(s) PROVE Sound(Settled(s))
<1>1. CASE s.fault = NoFault
  <2>1. Turns({}, s, Return(s, "SUCCESS"))
    BY TurnsRefl, Returns DEF Sound
  <2> QED BY <1>1, <2>1, TurnsSound DEF Settled
<1>2. CASE s.fault # NoFault
  <2> DEFINE on == PowerOn(s.bond, s.orderRecs)
  <2>1. IsState(on)
    BY PowerOnSound DEF Sound
  <2> HIDE DEF on
  <2>2. IsState([on EXCEPT !.fault = s.fault])
        /\ [on EXCEPT !.fault = s.fault].fault = s.fault
    BY <2>1 DEF IsState, Fields
  <2> QED BY <1>2, <2>2 DEF Settled, Sound, on
<1> QED BY <1>1, <1>2

\* whichever outcome the write of queue_buf_get has,
LEMMA SettlesSound ==
    ASSUME NEW s, Sound(s), NEW t \in Settles(s) PROVE Sound(t)
<1> DEFINE clear == [s EXCEPT !.overrun = FALSE]
<1>1. Sound(clear)
  <2>1. Turns({}, s, clear)
    BY TurnsRefl, Sets DEF Sound, Plain
  <2> QED BY <2>1, TurnsSound
<1>2. CASE t = Settled(clear)
  BY <1>1, <1>2, SettledSound
<1>3. CASE t = Settled([clear EXCEPT !.fault = "queue_buf_get"])
  <2> HIDE DEF clear
  <2>1. /\ IsState([clear EXCEPT !.fault = "queue_buf_get"])
        /\ [clear EXCEPT !.fault = "queue_buf_get"].fault = "queue_buf_get"
    BY <1>1 DEF Sound, IsState, Fields
  <2>2. Sound([clear EXCEPT !.fault = "queue_buf_get"])
    BY <2>1 DEF Sound, NoFault
  <2> QED BY <1>3, <2>2, SettledSound
<1> DEFINE cleared(f) == [clear EXCEPT !.fault = f]
           faults     == IF s.overrun /\ s.fault = NoFault
                         THEN {"queue_buf_get"} ELSE {}
<1>4. t \in {Settled(clear)} \cup {Settled(cleared(f)) : f \in faults}
  BY Zenon DEF Settles
<1>5. faults \subseteq {"queue_buf_get"}
  BY Zenon
<1> HIDE DEF clear, cleared, faults
<1>6. t = Settled(clear) \/ t = Settled(cleared("queue_buf_get"))
  BY <1>4, <1>5
<1> QED BY <1>2, <1>3, <1>6 DEF cleared

\* and when main() comes to its loop.
LEMMA BootSound ==
    ASSUME NEW bond, NEW recs PROVE Sound(Boot(bond, recs))
<1> DEFINE on == PowerOn(bond, recs)
<1>1. Sound(on)
  BY PowerOnSound
<1> HIDE DEF on
<1>2. Turns({}, on, on)
  BY <1>1, TurnsRefl DEF Sound
<1>3. Turns({}, on, ReconnectScan(on))
  BY <1>2, ReconnectScanTurns
<1>4. Turns({}, on, Advertise(ReconnectScan(on)))
  BY <1>3, AdvertiseTurns
<1>5. Sound(Advertise(ReconnectScan(on)))
  BY <1>1, <1>4, TurnsSound
<1> QED BY <1>5, SettledSound DEF Boot, on

-----------------------------------------------------------------------------
\* What an event of the stack may come with.
LEMMA Announces ==
    ASSUME NEW s, NEW t, NEW e \in Events, Linked(s), Heard(s),
           t.evts = Append(s.evts, e), t.link \in Others,
           t.connHandle = s.connHandle, t.isPrevConn = s.isPrevConn,
           t.connectState = s.connectState,
           Steps(e.id, s.link # NoDev, t.link # NoDev),
           e.id = "DISCONNECTED" \/ t.closing = s.closing,
           \/ e.id \in {"CONNECTED", "TIMEOUT"}
           \/ RadioOn(s) => RadioOn(t)
    PROVE  Linked(t) /\ Heard(t)
<1>1. /\ s.evts \in Seq(Events) /\ t.evts \in Seq(Events)
      /\ Len(t.evts) = Len(s.evts) + 1 /\ DOMAIN t.evts = 1 .. Len(s.evts) + 1
      /\ DOMAIN s.evts = 1 .. Len(s.evts)
      /\ t.evts[Len(s.evts) + 1] = e
      /\ \A k \in DOMAIN s.evts : k \in DOMAIN t.evts /\ t.evts[k] = s.evts[k]
      /\ Len(s.evts) + 1 \in DOMAIN t.evts
  BY DEF Linked
<1>2. \A ids : Waits(s, ids) \/ e.id \in ids => Waits(t, ids)
  BY <1>1 DEF Waits
<1>3. Follows(t.evts, t.connHandle, t.link # NoDev)
  <2>1. Follows(s.evts, s.connHandle, s.link # NoDev) /\ s.connHandle \in BOOLEAN
    BY DEF Linked
  <2>2. (s.link # NoDev) \in BOOLEAN /\ (t.link # NoDev) \in BOOLEAN
    OBVIOUS
  <2> QED BY <1>1, <2>1, <2>2, FollowsAppend
<1>4. t.connectState = "START_DISCONNECT" =>
         t.closing = TRUE \/ Waits(t, {"DISCONNECTED"})
  BY <1>2 DEF Linked
<1>5. Linked(t)
  BY <1>1, <1>3, <1>4 DEF Linked
<1>6. Heard(t)
  BY <1>2 DEF Heard
<1> QED BY <1>5, <1>6

\* an event is appended to those not fetched yet
LEMMA EventFields ==
    ASSUME NEW s, NEW id, NEW dev, IsState(s)
    PROVE  LET t == Event(s, id, dev) IN
           /\ IsState(t)
           /\ t.evts = Append(s.evts, [id |-> id, dev |-> dev])
           /\ \A f \in Fields \ {"evts"} : t[f] = s[f]
  BY DEF Event, IsState, Fields

\* The same for the stack's operators.
LEMMA AnnouncesSound ==
    ASSUME NEW s, NEW b, Sound(s), s.fault = NoFault, IsState(b), b.evts = s.evts,
           b.connHandle = s.connHandle, b.isPrevConn = s.isPrevConn,
           b.connectState = s.connectState, b.link \in Others,
           NEW id \in EventIds, NEW dev \in Others,
           Steps(id, s.link # NoDev, b.link # NoDev),
           id = "DISCONNECTED" \/ b.closing = s.closing,
           \/ id \in {"CONNECTED", "TIMEOUT"}
           \/ b.radio = s.radio /\ b.isRealAdv = s.isRealAdv
              /\ b.advStartPending = s.advStartPending
    PROVE  Sound(Event(b, id, dev))
<1> DEFINE e == [id |-> id, dev |-> dev]
           t == Event(b, id, dev)
<1>1. e \in Events /\ e.id = id
  BY DEF Events
<1>2. /\ IsState(t) /\ t.evts = Append(b.evts, e)
      /\ \A f \in Fields \ {"evts"} : t[f] = b[f]
  BY EventFields
<1>3. /\ t.link = b.link /\ t.connHandle = b.connHandle
      /\ t.isPrevConn = b.isPrevConn /\ t.connectState = b.connectState
      /\ t.closing = b.closing /\ t.radio = b.radio
      /\ t.isRealAdv = b.isRealAdv /\ t.advStartPending = b.advStartPending
  BY <1>2 DEF Fields
<1> HIDE DEF e, t
<1>4. id \in {"CONNECTED", "TIMEOUT"} \/ (RadioOn(s) => RadioOn(t))
  BY <1>3 DEF RadioOn
<1>5. Linked(s) /\ Heard(s)
  BY DEF Sound
<1>6. Linked(t) /\ Heard(t)
  BY <1>1, <1>2, <1>3, <1>4, <1>5, Announces
<1> QED BY <1>2, <1>6 DEF Sound, t

\* BLE_GAP_EVT_CONNECTED is raised
LEMMA LinkUpSound ==
    ASSUME NEW s, NEW d \in Devices, Sound(s), s.fault = NoFault, Accepts(s, d)
    PROVE  Sound(LinkUp(s, d))
<1> DEFINE b == [s EXCEPT !.radio = "off", !.link = d, !.sec = "none"]
<1>1. /\ IsState(b) /\ b.link = d
      /\ \A f \in {"evts", "connHandle", "isPrevConn", "connectState", "closing"} :
            b[f] = s[f]
  BY DEF Sound, IsState, Fields
<1>2. s.link = NoDev /\ d # NoDev /\ d \in Others
  BY SoftDeviceAssumption DEF Accepts, Others
<1>3. Steps("CONNECTED", s.link # NoDev, b.link # NoDev)
  BY <1>1, <1>2 DEF Steps, LinkEvents
<1>4. "CONNECTED" \in EventIds
  BY DEF EventIds
<1> HIDE DEF b
<1>5. Sound(Event(b, "CONNECTED", d))
  BY <1>1, <1>2, <1>3, <1>4, AnnouncesSound
<1> QED BY <1>5 DEF LinkUp, b

\* BLE_GAP_EVT_DISCONNECTED is raised: a termination from here is now announced
LEMMA LinkDownSound ==
    ASSUME NEW s, Sound(s), s.fault = NoFault, s.link # NoDev
    PROVE  Sound(LinkDown(s))
<1> DEFINE b == [s EXCEPT !.link = NoDev, !.closing = FALSE, !.sec = "none"]
<1>1. /\ IsState(b) /\ b.link = NoDev
      /\ \A f \in {"evts", "connHandle", "isPrevConn", "connectState", "radio",
                   "isRealAdv", "advStartPending"} : b[f] = s[f]
  BY DEF Sound, IsState, Fields
<1>2. s.link \in Others /\ NoDev \in Others
  BY DEF Sound, Linked, Others
<1>3. Steps("DISCONNECTED", s.link # NoDev, b.link # NoDev)
  BY <1>1 DEF Steps, LinkEvents
<1>4. "DISCONNECTED" \in EventIds
  BY DEF EventIds
<1> HIDE DEF b
<1>5. Sound(Event(b, "DISCONNECTED", s.link))
  BY <1>1, <1>2, <1>3, <1>4, AnnouncesSound
<1> QED BY <1>5 DEF LinkDown, b

\* BLE_GAP_EVT_TIMEOUT is raised: the radio is off and isRealAdv still set
LEMMA AdvertisingEndsSound ==
    ASSUME NEW s, Sound(s), s.fault = NoFault
    PROVE  Sound(AdvertisingEnds(s))
<1> DEFINE b == [s EXCEPT !.radio = "off"]
<1>1. /\ IsState(b)
      /\ \A f \in {"evts", "connHandle", "isPrevConn", "connectState", "link",
                   "closing"} : b[f] = s[f]
  BY DEF Sound, IsState, Fields
<1>2. s.link \in Others /\ NoDev \in Others
  BY DEF Sound, Linked, Others
<1>3. Steps("TIMEOUT", s.link # NoDev, b.link # NoDev)
  BY <1>1 DEF Steps, LinkEvents
<1>4. "TIMEOUT" \in EventIds
  BY DEF EventIds
<1> HIDE DEF b
<1>5. Sound(Event(b, "TIMEOUT", NoDev))
  BY <1>1, <1>2, <1>3, <1>4, AnnouncesSound
<1> QED BY <1>5 DEF AdvertisingEnds, b

\* an event of a security procedure is raised
LEMMA SecurityEventSound ==
    ASSUME NEW s, Sound(s), s.fault = NoFault, NEW v,
           NEW id \in EventIds \ (LinkEvents \cup {"TIMEOUT"})
    PROVE  Sound(Event([s EXCEPT !.sec = v], id, s.link))
<1> DEFINE b == [s EXCEPT !.sec = v]
<1>1. /\ IsState(b)
      /\ \A f \in {"evts", "connHandle", "isPrevConn", "connectState", "link",
                   "closing", "radio", "isRealAdv", "advStartPending"} : b[f] = s[f]
  BY DEF Sound, IsState, Fields
<1>2. s.link \in Others
  BY DEF Sound, Linked
<1>3. Steps(id, s.link # NoDev, b.link # NoDev)
  BY <1>1 DEF Steps, LinkEvents
<1> HIDE DEF b
<1>4. Sound(Event(b, id, s.link))
  BY <1>1, <1>2, <1>3, AnnouncesSound
<1> QED BY <1>4 DEF b

-----------------------------------------------------------------------------
\* Fetched of MouseApp for any state
Fetch(s) == [s EXCEPT !.evts = Tail(@)]

\* what the scheduler hands to the observers, and what is left
LEMMA Fetches ==
    ASSUME NEW s, IsState(s), Linked(s), s.evts # <<>>
    PROVE  LET f == Fetch(s) IN
           /\ IsState(f)
           /\ f.evts = Tail(s.evts) /\ f.evts \in Seq(Events)
           /\ \A x \in Fields \ {"evts"} : f[x] = s[x]
           /\ \A ids : Waits(s, ids) /\ Head(s.evts).id \notin ids => Waits(f, ids)
           /\ \E c \in BOOLEAN : /\ Follows(f.evts, c, s.link # NoDev)
                                 /\ Steps(Head(s.evts).id, s.connHandle, c)
<1> DEFINE f == Fetch(s)
<1>1. /\ IsState(f) /\ f.evts = Tail(s.evts)
      /\ \A x \in Fields \ {"evts"} : f[x] = s[x]
  BY DEF Fetch, IsState, Fields
<1>2. s.evts \in Seq(Events) /\ f.evts \in Seq(Events)
  BY <1>1 DEF Linked
<1>3. ASSUME NEW ids, Waits(s, ids), Head(s.evts).id \notin ids PROVE Waits(f, ids)
  <2>1. PICK k \in DOMAIN s.evts : s.evts[k].id \in ids
    BY <1>3 DEF Waits
  <2>2. k # 1
    BY <1>2, <1>3, <2>1
  <2>3. k - 1 \in DOMAIN Tail(s.evts) /\ Tail(s.evts)[k - 1] = s.evts[k]
    BY <1>2, <2>1, <2>2
  <2> QED BY <1>1, <2>1, <2>3 DEF Waits
<1>4. \E c \in BOOLEAN : /\ Follows(f.evts, c, s.link # NoDev)
                         /\ Steps(Head(s.evts).id, s.connHandle, c)
  <2>1. (s.link # NoDev) \in BOOLEAN /\ s.connHandle \in BOOLEAN
        /\ Follows(s.evts, s.connHandle, s.link # NoDev)
    BY DEF Linked
  <2> QED BY <1>1, <1>2, <2>1, FollowsTail
<1> QED BY <1>1, <1>2, <1>3, <1>4

\* fetching an event that is about security or the time-out
LEMMA QuietFetch ==
    ASSUME NEW s, Sound(s), s.fault = NoFault, s.evts # <<>>,
           Head(s.evts).id \notin LinkEvents
    PROVE  LET f == Fetch(s) IN
           /\ IsState(f) /\ f.fault = NoFault
           /\ Linked(f)
           /\ Head(s.evts).id # "TIMEOUT" => Heard(f)
<1> DEFINE f  == Fetch(s)
           id == Head(s.evts).id
<1>1. IsState(s) /\ Linked(s) /\ Heard(s)
  BY DEF Sound
<1>2. /\ IsState(f)
      /\ f.evts = Tail(s.evts) /\ f.evts \in Seq(Events)
      /\ \A x \in Fields \ {"evts"} : f[x] = s[x]
      /\ \A ids : Waits(s, ids) /\ id \notin ids => Waits(f, ids)
      /\ \E c \in BOOLEAN : /\ Follows(f.evts, c, s.link # NoDev)
                            /\ Steps(id, s.connHandle, c)
  BY <1>1, Fetches
<1>3. /\ f.link = s.link /\ f.connHandle = s.connHandle
      /\ f.isPrevConn = s.isPrevConn /\ f.connectState = s.connectState
      /\ f.closing = s.closing /\ f.fault = s.fault /\ f.radio = s.radio
      /\ f.isRealAdv = s.isRealAdv /\ f.advStartPending = s.advStartPending
  BY <1>2 DEF Fields
<1> HIDE DEF f, id
<1>4. Follows(f.evts, f.connHandle, f.link # NoDev)
  BY <1>2, <1>3 DEF Steps, id
<1>5. f.connectState = "START_DISCONNECT" =>
         f.closing = TRUE \/ Waits(f, {"DISCONNECTED"})
  BY <1>1, <1>2, <1>3 DEF Linked, LinkEvents, id
<1>6. Linked(f)
  BY <1>1, <1>2, <1>3, <1>4, <1>5 DEF Linked
<1>7. id # "TIMEOUT" => Heard(f)
  <2>1. RadioOn(s) => RadioOn(f)
    BY <1>3 DEF RadioOn
  <2> QED BY <1>1, <1>2, <2>1 DEF Heard, LinkEvents, id
<1> QED BY <1>2, <1>3, <1>6, <1>7 DEF f, id

-----------------------------------------------------------------------------
\* BLE_GAP_EVT_CONNECTED: whichever of the two handlers sets connectState
LEMMA ConnectedSound ==
    ASSUME NEW s, Sound(s), s.fault = NoFault, s.evts # <<>>,
           Head(s.evts).id = "CONNECTED", NEW dev
    PROVE  Sound(AppConnected(ImConnected(Fetch(s), dev)))
<1> DEFINE f == Fetch(s)
<1>1. IsState(s) /\ Linked(s)
  BY DEF Sound
<1>2. /\ IsState(f)
      /\ f.evts \in Seq(Events)
      /\ \A x \in Fields \ {"evts"} : f[x] = s[x]
      /\ \A ids : Waits(s, ids) /\ Head(s.evts).id \notin ids => Waits(f, ids)
      /\ \E c \in BOOLEAN : /\ Follows(f.evts, c, s.link # NoDev)
                            /\ Steps(Head(s.evts).id, s.connHandle, c)
  BY <1>1, Fetches
<1>3. /\ f.link = s.link /\ f.isPrevConn = s.isPrevConn /\ f.fault = NoFault
      /\ s.connHandle = FALSE /\ Follows(f.evts, TRUE, f.link # NoDev)
  <2>1. f.link = s.link /\ f.isPrevConn = s.isPrevConn /\ f.fault = s.fault
    BY <1>2 DEF Fields
  <2>2. ~s.connHandle /\ s.connHandle \in BOOLEAN
    BY <1>1, <1>2 DEF Steps, Linked
  <2>3. \E c \in BOOLEAN : c /\ Follows(f.evts, c, s.link # NoDev)
    BY <1>2 DEF Steps
  <2> HIDE DEF f
  <2> QED BY <2>1, <2>2, <2>3
<1>4. f.isPrevConn = FALSE
  BY <1>1, <1>3 DEF Linked
<1>5. f.link \in Others
  BY <1>1, <1>3 DEF Linked
<1> HIDE DEF f
<1>6. ASSUME NEW t, IsState(t), t.evts = f.evts, t.link = f.link,
             t.connHandle = TRUE, t.isPrevConn \in BOOLEAN,
             \/ t.connectState = "CONNECT"
             \/ t.connectState = "START_DISCONNECT" /\ t.closing = TRUE
      PROVE  Sound(t)
  BY <1>2, <1>3, <1>5, <1>6 DEF Sound, Linked, Heard, RadioOn
<1> DEFINE id  == FindBond(f, dev)
           new == [f EXCEPT !.newPeer = FALSE, !.connPeer = id]
<1>7. /\ IsState(new)
      /\ \A x \in {"evts", "link", "isPrevConn", "fault"} : new[x] = f[x]
  BY <1>2 DEF IsState, Fields
<1>8. CASE id = PeerIdInvalid
  <2> DEFINE here == [[new EXCEPT !.connHandle = TRUE]
                         EXCEPT !.isRealAdv = FALSE, !.connectState = "CONNECT"]
  <2>1. ImConnected(f, dev) = new
    BY <1>8 DEF ImConnected, RecordPurgeDisconnected
  <2>2. AppConnected(new) = ProcConnect(here)
    BY <1>4, <1>7 DEF AppConnected
  <2>3. /\ IsState(here) /\ here.evts = f.evts /\ here.link = f.link
        /\ here.connHandle = TRUE /\ here.isPrevConn = f.isPrevConn
        /\ here.connectState = "CONNECT"
    <3> HIDE DEF new
    <3> QED BY <1>7 DEF IsState, Fields
  <2> HIDE DEF new, here
  <2>4. Sound(here)
    BY <1>4, <1>6, <2>3
  <2>5. Turns({}, here, ProcConnect(here))
    BY <2>3, TurnsRefl, ProcConnectTurns
  <2> QED BY <2>1, <2>2, <2>4, <2>5, TurnsSound DEF f
<1>9. CASE id # PeerIdInvalid
  <2> DEFINE known == [new EXCEPT !.isPrevConn   = TRUE,
                                  !.isRealAdv    = FALSE,
                                  !.connectState = "CONNECT"]
             sent  == StartConnect(known, new.connPeer)
  <2>1. ImConnected(f, dev) = sent
    BY <1>9 DEF ImConnected, RecordPurgeDisconnected, BondedPeerConnected
  <2>2. /\ IsState(known) /\ known.evts = f.evts /\ known.link = f.link
        /\ known.isPrevConn = TRUE /\ known.connectState = "CONNECT"
    <3> HIDE DEF new
    <3> QED BY <1>7 DEF IsState, Fields
  <2> HIDE DEF new, known
  <2>3. Turns({}, known, sent)
    BY <2>2, TurnsRefl, StartConnectTurns
  <2> HIDE DEF sent
  <2>4. /\ IsState(sent) /\ sent.evts = f.evts /\ sent.link = f.link
        /\ sent.isPrevConn = TRUE
        /\ sent.fault = NoFault =>
              \/ sent.connectState = "CONNECT"
              \/ sent.connectState = "START_DISCONNECT" /\ sent.closing = TRUE
    BY <2>2, <2>3 DEF Turns, LinkPart, Closes
  <2> DEFINE here == [sent EXCEPT !.connHandle = TRUE]
  <2>5. AppConnected(sent) = here
    BY <2>4 DEF AppConnected
  <2>6. /\ IsState(here) /\ here.connHandle = TRUE
        /\ \A x \in {"evts", "link", "isPrevConn", "fault", "connectState",
                     "closing"} : here[x] = sent[x]
    BY <2>4 DEF IsState, Fields
  <2> HIDE DEF here
  <2>7. here.fault = NoFault => Sound(here)
    BY <1>6, <2>4, <2>6
  <2>8. Sound(here)
    BY <2>6, <2>7 DEF Sound
  <2> QED BY <2>1, <2>5, <2>8 DEF f
<1> QED BY <1>8, <1>9

\* advertising goes on or is put off
Radio(s) == s.radio # "off" \/ s.advStartPending

\* neither is changed
RadioKept(s, t) ==
    IsState(t) /\ t.radio = s.radio /\ t.advStartPending = s.advStartPending

\* a start that succeeds
LEMMA SdAdvStartRadio ==
    ASSUME NEW s, IsState(s), NEW filter, filter # "off",
           SdAdvStart(s, filter).ret = "SUCCESS"
    PROVE  /\ SdAdvStart(s, filter).radio # "off"
           /\ SdAdvStart(s, filter).connectState = s.connectState
  BY DEF SdAdvStart, Return, IsState, Fields

\* on a link that is not closed yet on_adv_evt does not stop the radio again
LEMMA StartFastRadio ==
    ASSUME NEW s, IsState(s), s.connectState # "DISCONNECT",
           StartFast(s).ret = "SUCCESS"
    PROVE  StartFast(s).radio # "off"
<1> DEFINE asked  == IF s.whitelistOff THEN s ELSE OnWhitelistRequest(s)
           filter == IF ~s.whitelistOff /\ WhitelistInUse(s) THEN "wl" ELSE "any"
           on     == SdAdvStart(asked, filter)
<1>1. StartFast(s) = IF on.ret = "SUCCESS"
                     THEN Return(OnAdvEvt(on, "FAST"), "SUCCESS") ELSE on
  BY DEF StartFast
<1>2. IsState(asked) /\ asked.connectState # "DISCONNECT"
  <2>1. \A c : /\ IsState(Return(s, c))
               /\ Return(s, c).connectState = s.connectState
    BY DEF Return, IsState, Fields
  <2>2. /\ IsState(PmWhitelistGet(s))
        /\ PmWhitelistGet(s).connectState = s.connectState
    BY <2>1 DEF PmWhitelistGet
  <2>3. \A t, w : IsState(t) /\ t.connectState = s.connectState =>
            /\ IsState(Check(t, w)) /\ Check(t, w).connectState = s.connectState
    BY DEF Check, IsState, Fields
  <2>4. /\ IsState(AppAdvStop(s))
        /\ AppAdvStop(s).connectState = s.connectState
    BY DEF AppAdvStop, IsState, Fields
  <2>5. /\ IsState(OnWhitelistRequest(s))
        /\ OnWhitelistRequest(s).connectState = s.connectState
    BY <2>2, <2>3, <2>4 DEF OnWhitelistRequest
  <2> QED BY <2>5
<1>3. filter # "off"
  OBVIOUS
<1> HIDE DEF asked, filter
<1>4. IsState(on)
  BY <1>2 DEF SdAdvStart, Return, IsState, Fields
<1>5. ASSUME on.ret = "SUCCESS"
      PROVE  Return(OnAdvEvt(on, "FAST"), "SUCCESS").radio # "off"
  <2>1. on.radio # "off" /\ on.connectState # "DISCONNECT"
    BY <1>2, <1>3, <1>5, SdAdvStartRadio
  <2> HIDE DEF on
  <2>2. /\ IsState(OnAdvEvt(on, "FAST"))
        /\ OnAdvEvt(on, "FAST").radio = on.radio
    BY <1>4, <2>1 DEF OnAdvEvt, AppAdvStop, IsState, Fields
  <2> QED BY <2>1, <2>2 DEF Return, IsState, Fields
<1> HIDE DEF on
<1> QED BY <1>1, <1>5

\* on_disconnected of ble_advertising.c, called before main.c hears of the end, starts
\* the radio or has it started when the flash is done
LEMMA OnDisconnectedRadio ==
    ASSUME NEW s, IsState(s), s.connectState # "DISCONNECT",
           OnDisconnected(s).fault = NoFault
    PROVE  Radio(OnDisconnected(s))
<1> DEFINE t    == [s EXCEPT !.whitelistOff = FALSE]
           on   == BleAdvertisingStart(t, "DIRECTED")
           put  == [t EXCEPT !.advModeCurrent = "DIRECTED",
                             !.advStartPending = TRUE, !.ret = "SUCCESS"]
           fast == [t EXCEPT !.advModeCurrent = "FAST"]
<1>1. IsState(t) /\ t.connectState # "DISCONNECT" /\ t.fault = s.fault
  BY DEF IsState, Fields
<1>2. OnDisconnected(s) = Check(on, "ble_advertising_error_handler")
  BY DEF OnDisconnected, Restart
<1>3. on = put \/ on = StartFast(fast)
  BY DEF BleAdvertisingStart, NextAvailable
<1> HIDE DEF t
<1>4. IsState(put) /\ put.advStartPending = TRUE
  BY <1>1 DEF IsState, Fields
<1>5. IsState(fast) /\ fast.connectState # "DISCONNECT"
  BY <1>1 DEF IsState, Fields
<1>6. Turns({}, t, on)
  BY <1>1, TurnsRefl, BleAdvertisingStartTurns
<1>7. /\ Check(on, "ble_advertising_error_handler") = on
      /\ on.ret = "SUCCESS"
  BY <1>2, <1>6, Checks DEF NoFault
<1> HIDE DEF on, put, fast
<1> QED BY <1>2, <1>3, <1>4, <1>5, <1>7, StartFastRadio DEF Radio

\* the peer manager's part of a disconnection leaves the radio alone
LEMMA SmdDisconnectedRadio ==
    ASSUME NEW s, IsState(s) PROVE RadioKept(s, SmdDisconnected(s))
<1>1. ASSUME NEW t, RadioKept(s, t) PROVE RadioKept(s, PeerDataDelete(t))
  BY <1>1 DEF RadioKept, PeerDataDelete, FdsPut, IsState, Fields
<1>2. ASSUME NEW t, RadioKept(s, t), NEW id PROVE RadioKept(s, PeerFree(t, id))
  <2> DEFINE marked == [t EXCEPT !.deleted = @ \cup {id}]
             swept  == PeerDataDelete(marked)
  <2>1. RadioKept(s, marked)
    BY <1>2 DEF RadioKept, IsState, Fields
  <2> HIDE DEF marked
  <2>2. RadioKept(s, swept)
    BY <1>1, <2>1
  <2> HIDE DEF swept
  <2>3. RadioKept(s, [swept EXCEPT !.connPeer = IF swept.connPeer = id THEN PeerIdInvalid ELSE swept.connPeer])
    BY <2>2 DEF RadioKept, IsState, Fields
  <2> QED BY <1>2, <2>3 DEF PeerFree, swept, marked
<1>3. ASSUME NEW t, RadioKept(s, t) PROVE RadioKept(s, AppDisconnect(t))
  <2> DEFINE asked == [t EXCEPT !.connectState = "START_DISCONNECT",
                                !.isRealAdv = TRUE]
             end   == SdDisconnect(asked)
  <2>1. RadioKept(s, asked)
    BY <1>3 DEF RadioKept, IsState, Fields
  <2> HIDE DEF asked
  <2>2. RadioKept(s, end)
    BY <2>1 DEF SdDisconnect, Return, RadioKept, IsState, Fields
  <2> HIDE DEF end
  <2>3. RadioKept(s, Check(end, "appDisconnect"))
    BY <2>2 DEF Check, RadioKept, IsState, Fields
  <2> QED BY <1>3, <2>3 DEF AppDisconnect, end, asked
<1>4. ASSUME NEW t, RadioKept(s, t) PROVE RadioKept(s, ConnSecFailure(t))
  <2>1. RadioKept(s, [t EXCEPT !.secProc = "none"])
    BY <1>4 DEF RadioKept, IsState, Fields
  <2> QED BY <1>3, <2>1 DEF ConnSecFailure
<1>5. RadioKept(s, s)
  BY DEF RadioKept
<1>6. RadioKept(s, LinkSecureFailure(s))
  BY <1>2, <1>4, <1>5 DEF LinkSecureFailure
<1>7. ASSUME NEW t, RadioKept(s, t)
      PROVE  RadioKept(s, [t EXCEPT !.connPeer = PeerIdInvalid])
  BY <1>7 DEF RadioKept, IsState, Fields
<1> QED BY <1>6, <1>7 DEF SmdDisconnected

\* BLE_GAP_EVT_DISCONNECTED: isRealAdv may be set and connectState becomes
\* DISCONNECT, but the advertising module has started the radio before
LEMMA DisconnectedSound ==
    ASSUME NEW s, Sound(s), s.fault = NoFault, s.evts # <<>>,
           Head(s.evts).id = "DISCONNECTED"
    PROVE  Sound(AppDisconnected(SmdDisconnected(OnDisconnected(Fetch(s)))))
<1> DEFINE f   == Fetch(s)
           adv == OnDisconnected(f)
           g   == SmdDisconnected(adv)
           t   == AppDisconnected(g)
<1>1. IsState(s) /\ Linked(s)
  BY DEF Sound
<1>2. /\ IsState(f)
      /\ f.evts \in Seq(Events)
      /\ \A x \in Fields \ {"evts"} : f[x] = s[x]
      /\ \E c \in BOOLEAN : /\ Follows(f.evts, c, s.link # NoDev)
                            /\ Steps(Head(s.evts).id, s.connHandle, c)
  BY <1>1, Fetches
<1>3. f.link = s.link /\ f.connectState = s.connectState
  BY <1>2 DEF Fields
<1>4. s.connHandle /\ Follows(f.evts, FALSE, f.link # NoDev)
  <2>1. s.connHandle
    BY <1>2 DEF Steps
  <2>2. \E c \in BOOLEAN : ~c /\ Follows(f.evts, c, s.link # NoDev)
    BY <1>2 DEF Steps
  <2> HIDE DEF f
  <2> QED BY <1>3, <2>1, <2>2
<1>5. f.connectState # "DISCONNECT" /\ f.link \in Others
  BY <1>1, <1>3, <1>4 DEF Linked
<1> HIDE DEF f
<1>6. Turns({}, f, adv)
  BY <1>2, TurnsRefl, OnDisconnectedTurns
<1>7. adv.fault = NoFault => Radio(adv)
  BY <1>2, <1>5, OnDisconnectedRadio
<1> HIDE DEF adv
<1>8. Turns({}, f, g) /\ Turns({}, adv, g)
  BY <1>6, SmdDisconnectedTurns, TurnsRefl, TurnsState
<1>9. RadioKept(adv, g)
  BY <1>6, SmdDisconnectedRadio, TurnsState
<1> HIDE DEF g
<1>10. /\ IsState(g) /\ g.evts = f.evts /\ g.link = f.link
       /\ g.fault = NoFault => Radio(g)
  <2>1. IsState(g) /\ g.evts = f.evts /\ g.link = f.link
    BY <1>8 DEF Turns, LinkPart
  <2>2. g.fault = NoFault => adv.fault = NoFault
    BY <1>8 DEF Turns
  <2> QED BY <1>7, <1>9, <2>1, <2>2 DEF Radio, RadioKept
<1>11. /\ IsState(t)
       /\ t.isPrevConn = FALSE /\ t.connHandle = FALSE
       /\ t.connectState = "DISCONNECT"
       /\ \A x \in {"evts", "link", "fault", "radio", "advStartPending"} :
             t[x] = g[x]
  BY <1>10 DEF AppDisconnected, IsState, Fields
<1> HIDE DEF t
<1>12. Linked(t)
  BY <1>2, <1>4, <1>5, <1>10, <1>11 DEF Linked
<1>13. t.fault = NoFault => Heard(t)
  BY <1>10, <1>11 DEF Heard, RadioOn, Radio
<1> QED BY <1>11, <1>12, <1>13 DEF Sound, t, g, adv, f

\* BLE_GAP_EVT_TIMEOUT: the advertising module starts again or clears isRealAdv
LEMMA TimedOutSound ==
    ASSUME NEW s, Sound(s), s.fault = NoFault, s.evts # <<>>,
           Head(s.evts).id = "TIMEOUT"
    PROVE  Sound(OnTimeout(Fetch(s)))
<1> DEFINE f == Fetch(s)
           t == OnTimeout(f)
<1>1. IsState(f) /\ f.fault = NoFault /\ Linked(f)
  BY QuietFetch DEF LinkEvents
<1> HIDE DEF f
<1>2. Turns({}, f, f)
  BY <1>1, TurnsRefl
<1>3. Turns({}, f, t) /\ (t.fault = NoFault => RadioOn(t))
  BY <1>2, StartChecked DEF OnTimeout, Restart, NoFault
<1> HIDE DEF t
<1>4. t.fault = NoFault => Linked(t)
  BY <1>1, <1>3, TurnsLinked
<1> QED BY <1>3, <1>4, TurnsState DEF Sound, Heard, t, f

-----------------------------------------------------------------------------
\* bsp_event_handler, BSP_EVENT_DISCONNECT
LEMMA ButtonDisconnectSound ==
    ASSUME NEW s, Sound(s), s.fault = NoFault
    PROVE  LET called == SdDisconnect(s) IN
           /\ Sound(called)
           /\ Sound(Check(called, "bsp_event_handler"))
<1> DEFINE called == SdDisconnect(s)
           failed == [called EXCEPT !.fault = "bsp_event_handler"]
<1>1. IsState(s) /\ Linked(s) /\ Heard(s)
  BY DEF Sound
<1>2. /\ IsState(called)
      /\ \A x \in LinkPart \cup {"fault", "connectState", "isRealAdv",
                                 "advStartPending", "radio"} : called[x] = s[x]
      /\ called.closing = s.closing \/ called.closing = TRUE
  BY <1>1 DEF SdDisconnect, Return, LinkPart, IsState, Fields
<1> HIDE DEF called
<1>3. \A ids : Waits(called, ids) <=> Waits(s, ids)
  BY <1>2 DEF LinkPart, Waits
<1>4. Linked(called)
  BY <1>1, <1>2, <1>3 DEF Linked, LinkPart
<1>5. RadioOn(called) <=> RadioOn(s)
  BY <1>2 DEF RadioOn
<1>6. Sound(called)
  BY <1>1, <1>2, <1>3, <1>4, <1>5 DEF Sound, Heard
<1>7. IsState(failed) /\ failed.fault = "bsp_event_handler"
  BY <1>2 DEF IsState, Fields
<1>8. Sound(failed)
  BY <1>7 DEF Sound, NoFault
<1> QED BY <1>6, <1>8 DEF Check, called

\* the inductive invariant
Inv == Sound(fw)

\* The scheduler's handlers: it is enough that the handler keeps the invariant,
LEMMA HandledInv ==
    ASSUME NEW s, Sound(s), Handled(s) PROVE Inv'
  BY SettlesSound DEF Handled, Inv

\* that it is a turn,
LEMMA TurnsInv ==
    ASSUME NEW s, Inv, Turns({}, fw, s), Handled(s) PROVE Inv'
  BY TurnsSound, HandledInv DEF Inv

\* or that it is one from the state without the event it handles.
LEMMA FetchedInv ==
    ASSUME NEW s, Inv, Running, NEW id \in EventIds, Next1(id),
           id \notin {"CONNECTED", "DISCONNECTED", "TIMEOUT"},
           Turns({}, Fetched, s), Handled(s)
    PROVE  Inv'
<1>1. Fetched = Fetch(fw)
  BY DEF Fetched, Fetch
<1>2. Sound(fw) /\ fw.fault = NoFault
  BY DEF Inv, Running
<1>3. /\ fw.evts # <<>> /\ Head(fw.evts).id \notin LinkEvents
      /\ Head(fw.evts).id # "TIMEOUT"
  BY DEF Next1, LinkEvents
<1>4. Sound(Fetched)
  BY <1>1, <1>2, <1>3, QuietFetch DEF Sound
<1> QED BY <1>4, TurnsSound, HandledInv

\* The steps of the world keep the invariant,
LEMMA EnvironmentInv ==
    ASSUME Inv, Environment PROVE Inv'
<1>1. Sound(fw)
  BY DEF Inv
<1>2. ASSUME NEW s, Sound(s), Becomes(s) PROVE Inv'
  BY <1>2 DEF Becomes, Inv
<1>3. ASSUME NEW s, Becomes(s) PROVE fw.fault = NoFault
  BY <1>3 DEF Becomes, Running
<1>4. ASSUME NEW d \in Devices, CentralConnects(d) PROVE Inv'
  BY <1>1, <1>2, <1>3, <1>4, LinkUpSound DEF CentralConnects
<1>5. CASE LinkLost
  BY <1>1, <1>2, <1>3, <1>5, LinkDownSound DEF LinkLost
<1>6. CASE AdvertisingTimeout
  BY <1>1, <1>2, <1>3, <1>6, AdvertisingEndsSound DEF AdvertisingTimeout
<1>7. CASE CentralPairs
  <2>1. "SEC_PARAMS_REQUEST" \in EventIds \ (LinkEvents \cup {"TIMEOUT"})
    BY DEF EventIds, LinkEvents
  <2>2. fw.fault = NoFault /\ Becomes(AskToPair(fw))
    BY <1>3, <1>7 DEF CentralPairs
  <2>3. Sound(AskToPair(fw))
    BY <1>1, <2>1, <2>2, SecurityEventSound DEF AskToPair
  <2> QED BY <1>2, <2>2, <2>3
<1>8. CASE CentralEncrypts
  <2>1. "SEC_INFO_REQUEST" \in EventIds \ (LinkEvents \cup {"TIMEOUT"})
    BY DEF EventIds, LinkEvents
  <2>2. fw.fault = NoFault /\ Becomes(AskToEncrypt(fw))
    BY <1>3, <1>8 DEF CentralEncrypts
  <2>3. Sound(AskToEncrypt(fw))
    BY <1>1, <2>1, <2>2, SecurityEventSound DEF AskToEncrypt
  <2> QED BY <1>2, <2>2, <2>3
<1>9. CASE SecurityProcedureEnds
  <2>1. PICK outcome \in Outcomes(fw.sec) : Becomes(SecurityEnds(fw, outcome))
    BY <1>9 DEF SecurityProcedureEnds
  <2>2. outcome \in EventIds \ (LinkEvents \cup {"TIMEOUT"})
    BY DEF Outcomes, EventIds, LinkEvents
  <2>3. Sound(SecurityEnds(fw, outcome))
    BY <1>1, <1>3, <2>1, <2>2, SecurityEventSound DEF SecurityEnds
  <2> QED BY <1>2, <2>1, <2>3
<1>10. CASE ScanTimeElapses
  <2>1. Turns({}, fw, [fw EXCEPT !.scanTimer = "due"])
    BY <1>1, TurnsRefl, Notes DEF NotesPart, Sound
  <2>2. Sound([fw EXCEPT !.scanTimer = "due"])
    BY <1>1, <2>1, TurnsSound
  <2> QED BY <1>2, <1>10, <2>2 DEF ScanTimeElapses
<1> QED BY <1>4, <1>5, <1>6, <1>7, <1>8, <1>9, <1>10 DEF Environment

\* and so do the handlers of the stack's events,
LEMMA StackHandlersInv ==
    ASSUME Inv, StackHandlers PROVE Inv'
<1>1. Sound(fw) /\ Fetched = Fetch(fw)
  BY DEF Inv, Fetched, Fetch
<1>2. ASSUME NEW s, Handled(s) PROVE Running /\ fw.fault = NoFault
  BY <1>2 DEF Handled, Running
<1>3. ASSUME NEW id, Next1(id) PROVE fw.evts # <<>> /\ Head(fw.evts).id = id
  BY <1>3 DEF Next1
<1>4. ASSUME NEW id, Next1(id), Running, id \in EventIds \ {"CONNECTED", "DISCONNECTED", "TIMEOUT"}
      PROVE  Turns({}, Fetched, Fetched)
  <2>1. fw.fault = NoFault /\ fw.evts # <<>> /\ Head(fw.evts).id \notin LinkEvents
    BY <1>3, <1>4 DEF Running, LinkEvents
  <2>2. IsState(Fetched)
    BY <1>1, <2>1, QuietFetch
  <2> QED BY <2>2, TurnsRefl
<1>5. CASE Connected
  <2>1. Next1("CONNECTED") /\ Handled(AppConnected(ImConnected(Fetched, Dev)))
    BY <1>5 DEF Connected
  <2>2. Sound(AppConnected(ImConnected(Fetched, Dev)))
    BY <1>1, <1>2, <1>3, <2>1, ConnectedSound
  <2> QED BY <2>1, <2>2, HandledInv
<1>6. CASE Disconnected
  <2>1. /\ Next1("DISCONNECTED")
        /\ Handled(AppDisconnected(SmdDisconnected(OnDisconnected(Fetched))))
    BY <1>6 DEF Disconnected
  <2>2. Sound(AppDisconnected(SmdDisconnected(OnDisconnected(Fetched))))
    BY <1>1, <1>2, <1>3, <2>1, DisconnectedSound
  <2> QED BY <2>1, <2>2, HandledInv
<1>7. CASE TimedOut
  <2>1. Next1("TIMEOUT") /\ Handled(OnTimeout(Fetched))
    BY <1>7 DEF TimedOut
  <2>2. Sound(OnTimeout(Fetched))
    BY <1>1, <1>2, <1>3, <2>1, TimedOutSound
  <2> QED BY <2>1, <2>2, HandledInv
<1>8. ASSUME NEW id \in EventIds \ {"CONNECTED", "DISCONNECTED", "TIMEOUT"},
             Next1(id), NEW s, Handled(s),
             Turns({}, Fetched, Fetched) => Turns({}, Fetched, s)
      PROVE  Inv'
  BY <1>2, <1>4, <1>8, FetchedInv
<1>9. CASE SecParamsRequest
  <2>1. /\ "SEC_PARAMS_REQUEST" \in EventIds \ {"CONNECTED", "DISCONNECTED", "TIMEOUT"}
        /\ Next1("SEC_PARAMS_REQUEST")
        /\ Handled(SecParamsRequestProcess(Fetched))
    BY <1>9 DEF SecParamsRequest, EventIds
  <2> QED BY <1>8, <2>1, SecParamsRequestTurns
<1>10. CASE SecInfoRequest
  <2>1. /\ "SEC_INFO_REQUEST" \in EventIds \ {"CONNECTED", "DISCONNECTED", "TIMEOUT"}
        /\ Next1("SEC_INFO_REQUEST")
        /\ Handled(SecInfoRequestProcess(Fetched, Dev))
    BY <1>10 DEF SecInfoRequest, EventIds
  <2> QED BY <1>8, <2>1, SecInfoRequestTurns
<1>11. CASE AuthStatus
  <2>1. {"AUTH_BONDED", "AUTH_PAIRED", "AUTH_FAILED"}
           \subseteq EventIds \ {"CONNECTED", "DISCONNECTED", "TIMEOUT"}
    BY DEF EventIds
  <2>2. CASE Next1("AUTH_BONDED") /\ Handled(AuthBonded(Fetched, Dev))
    BY <1>8, <2>1, <2>2, AuthBondedTurns
  <2>3. CASE Next1("AUTH_PAIRED") /\ Handled(AuthPaired(Fetched))
    BY <1>8, <2>1, <2>3, AuthPairedTurns
  <2>4. CASE Next1("AUTH_FAILED") /\ Handled(LinkSecureFailure(Fetched))
    BY <1>8, <2>1, <2>4, LinkSecureFailureTurns
  <2> QED BY <1>11, <2>2, <2>3, <2>4 DEF AuthStatus
<1>12. CASE ConnSecUpdate
  <2>1. {"ENCRYPTED", "NOT_ENCRYPTED"}
           \subseteq EventIds \ {"CONNECTED", "DISCONNECTED", "TIMEOUT"}
    BY DEF EventIds
  <2>2. CASE Next1("ENCRYPTED") /\ Handled(ConnSecUpdateProcess(Fetched, TRUE))
    BY <1>8, <2>1, <2>2, ConnSecUpdateTurns
  <2>3. CASE Next1("NOT_ENCRYPTED") /\ Handled(ConnSecUpdateProcess(Fetched, FALSE))
    BY <1>8, <2>1, <2>3, ConnSecUpdateTurns
  <2> QED BY <1>12, <2>2, <2>3, Zenon DEF ConnSecUpdate
<1> QED BY <1>5, <1>6, <1>7, <1>9, <1>10, <1>11, <1>12 DEF StackHandlers

\* of the buttons,
LEMMA ButtonHandlersInv ==
    ASSUME Inv, ButtonHandlers PROVE Inv'
<1>1. Sound(fw) /\ Turns({}, fw, fw)
  BY TurnsRefl DEF Inv, Sound
<1>2. CASE Key2
  <2>1. Handled([fw EXCEPT !.isDeleteBonds = TRUE])
    BY <1>2 DEF Key2
  <2>2. Turns({}, fw, [fw EXCEPT !.isDeleteBonds = TRUE])
    BY <1>1, Sets DEF PeerPart
  <2> QED BY <2>1, <2>2, TurnsInv
<1>3. CASE Key3
  <2>1. Handled(Advertise(AddNew(fw)))
    BY <1>3 DEF Key3
  <2>2. Turns({}, fw, Advertise(AddNew(fw)))
    BY <1>1, AddNewTurns, AdvertiseTurns
  <2> QED BY <2>1, <2>2, TurnsInv
<1>4. CASE ButtonDisconnect
  <2>1. Running /\ (Handled(SdDisconnect(fw))
                    \/ Handled(Check(SdDisconnect(fw), "bsp_event_handler")))
    BY <1>4 DEF ButtonDisconnect, Handled
  <2>2. Sound(SdDisconnect(fw)) /\ Sound(Check(SdDisconnect(fw), "bsp_event_handler"))
    BY <1>1, <2>1, ButtonDisconnectSound DEF Running
  <2> QED BY <2>1, <2>2, HandledInv
<1>5. CASE ButtonWhitelistOff
  <2>1. Handled(RestartWithoutWhitelist(fw))
    BY <1>5 DEF ButtonWhitelistOff
  <2>2. Turns({}, fw, RestartWithoutWhitelist(fw))
    BY <1>1, WithoutWhitelistTurns
  <2> QED BY <2>1, <2>2, TurnsInv
<1> QED BY <1>2, <1>3, <1>4, <1>5 DEF ButtonHandlers

\* and the rest of the main loop.
LEMMA MainLoopInv ==
    ASSUME Inv, MainLoop PROVE Inv'
<1>1. Sound(fw) /\ Turns({}, fw, fw)
  BY TurnsRefl DEF Inv, Sound
<1>2. CASE SchedulerDone
  BY <1>2 DEF SchedulerDone, Inv
<1>3. CASE AppProcessing
  <2>1. Turns({}, fw, Synced(fw))
    BY <1>1, SyncedTurns
  <2>2. Turns({}, fw, DeleteBonds(Synced(fw)))
    BY <2>1, DeleteBondsTurns
  <2>3. \/ fw' \in Settles(DeleteBonds(Synced(fw)))
        \/ fw' \in Settles(Synced(fw))
    BY <1>3 DEF AppProcessing
  <2>4. Sound(DeleteBonds(Synced(fw))) /\ Sound(Synced(fw))
    BY <1>1, <2>1, <2>2, TurnsSound
  <2> QED BY <2>3, <2>4, SettlesSound DEF Inv
<1>4. CASE TimerProcessing
  <2>1. Turns({}, fw, [fw EXCEPT !.scanTimer = "idle"])
    BY <1>1, Notes DEF NotesPart
  <2>2. Turns({}, fw, AppAdvScanStopCB([fw EXCEPT !.scanTimer = "idle"]))
    BY <2>1, ScanStopTurns
  <2>3. \/ fw' = Settled(AppAdvScanStopCB([fw EXCEPT !.scanTimer = "idle"]))
        \/ fw' = Settled(fw)
    BY <1>4 DEF TimerProcessing
  <2>4. Sound(AppAdvScanStopCB([fw EXCEPT !.scanTimer = "idle"]))
    BY <1>1, <2>2, TurnsSound
  <2> QED BY <1>1, <2>3, <2>4, SettledSound DEF Inv
<1> QED BY <1>2, <1>3, <1>4 DEF MainLoop

\* The invariant holds of the firmware.
LEMMA InvHolds == Spec => []Inv
<1>1. Init => Inv
  BY BootSound DEF Init, Inv
<1>2. ASSUME Inv, [Next]_vars PROVE Inv'
  <2>1. CASE FlashDone
    <3>1. Handled(FlashOperationDone(fw))
      BY <2>1 DEF FlashDone
    <3>2. Turns({}, fw, FlashOperationDone(fw))
      BY <1>2, TurnsRefl, FlashOperationDoneTurns DEF Inv, Sound
    <3> QED BY <1>2, <3>1, <3>2, TurnsInv
  <2>2. CASE Reset
    BY <2>2, BootSound DEF Reset, Inv
  <2>3. CASE UNCHANGED vars
    BY <1>2, <2>3 DEF vars, Inv
  <2> QED
    BY <1>2, <2>1, <2>2, <2>3, EnvironmentInv, StackHandlersInv,
       ButtonHandlersInv, MainLoopInv DEF Next
<1> QED BY <1>1, <1>2, PTL DEF Spec

\* For all devices, ids and queues: when no event about the link waits to be
\* fetched, appState.connectState and m_conn_handle tell whether there is a link,
\* whichever of pm_evt_handler and ble_evt_handler has set them.
THEOREM LinkIsTracked == Spec => []LinkTracked
<1>1. Inv => LinkTracked
  <2> SUFFICES ASSUME Inv, Running, ~Pending(LinkEvents)
               PROVE  /\ (fw.link = NoDev) <=> (fw.connectState = "DISCONNECT")
                      /\ fw.connectState = "START_DISCONNECT" => fw.closing
                      /\ fw.connHandle <=> (fw.link # NoDev)
    BY DEF LinkTracked, LinkEvents
  <2>1. Linked(fw)
    BY DEF Inv, Sound, Running
  <2>2. fw.connHandle = (fw.link # NoDev)
    <3>1. \A k \in DOMAIN fw.evts : fw.evts[k].id \notin LinkEvents
      BY DEF Pending
    <3>2. /\ fw.evts \in Seq(Events) /\ fw.connHandle \in BOOLEAN
          /\ (fw.link # NoDev) \in BOOLEAN
          /\ Follows(fw.evts, fw.connHandle, fw.link # NoDev)
      BY <2>1 DEF Linked
    <3> QED BY <3>1, <3>2, FollowsQuiet
  <2>3. ~Waits(fw, {"DISCONNECTED"})
    BY DEF Pending, Waits, LinkEvents
  <2> QED BY <2>1, <2>2, <2>3 DEF Linked
<1> QED BY <1>1, InvHolds, PTL

\* For all devices, ids and queues: when isRealAdv of main.c is set, no link is up
\* and nothing that says otherwise waits, the radio advertises or will when the
\* flash is done: appAdvStart, which trusts it, never leaves the mouse dark.
THEOREM RealAdvHolds == Spec => []RealAdvMeansRadio
<1>1. Inv => RealAdvMeansRadio
  BY DEF Inv, Sound, Running, Heard, RadioOn, Waits, Pending, RealAdvMeansRadio
<1> QED BY <1>1, InvHolds, PTL

-------------------------------------------------------------------------------
(* No peer id is lost                                                        *)

\* a list, whatever it is made of
IsSeq(q) == \E S : q \in Seq(S)

\* an operation of the flash queue that has not been done
IsOp(x) ==
    /\ x = [op |-> x.op, id |-> x.id, dev |-> x.dev]
    /\ x.op \in {"bond", "delete", "order", "unorder"}
    /\ x.op = "unorder" => x.id \in Nat
    /\ x.op = "bond" => x.dev # NoDev

\* the queue and the order records are lists
Shaped(s) == IsState(s) /\ IsSeq(s.fdsq) /\ IsSeq(s.orderRecs)

\* ... of what belongs on them, and so is what the flash holds of the peers
Formed(s) ==
    /\ Shaped(s)
    /\ DOMAIN s.bond = Ids
    /\ s.used \subseteq Ids
    /\ \A k \in DOMAIN s.fdsq : IsOp(s.fdsq[k])

\* the peer manager frees peers and puts operations into the flash queue: what
\* it does not change in such a step
KeptFields ==
    {"evts", "link", "sec", "bond", "gap", "secProc", "newPeer", "orderRecs"}

\* Such a step leads from s to t: no id comes into use, no operation leaves the
\* queue, the peer of the connection stays unless it is freed.
Keeps(s, t) ==
    /\ IsState(t)
    /\ \A f \in KeptFields : t[f] = s[f]
    /\ t.used \subseteq s.used
    /\ Listed(t) \subseteq Listed(s)
    /\ IsSeq(t.fdsq)
    /\ Len(s.fdsq) <= Len(t.fdsq)
    /\ \A k \in 1 .. Len(s.fdsq) : t.fdsq[k] = s.fdsq[k]
    /\ \A k \in Len(s.fdsq) + 1 .. Len(t.fdsq) : IsOp(t.fdsq[k])
    /\ t.connPeer = s.connPeer \/ s.connPeer \notin Listed(t)

\* the same for the calls that only write the order: no id is freed
OrderOps == {"order", "unorder"}
SparedFields == {"used", "deleted", "connPeer", "isDeleteBonds"}

Spares(s, t) ==
    /\ Keeps(s, t)
    /\ \A f \in SparedFields : t[f] = s[f]
    /\ \A k \in Len(s.fdsq) + 1 .. Len(t.fdsq) : t.fdsq[k].op \in OrderOps

\* the length of a list
LEMMA SeqIs ==
    ASSUME NEW q, IsSeq(q)
    PROVE  Len(q) \in Nat /\ DOMAIN q = 1 .. Len(q)
  BY DEF IsSeq

\* one more element
LEMMA AppendIs ==
    ASSUME NEW q, IsSeq(q), NEW e
    PROVE  /\ IsSeq(Append(q, e))
           /\ Len(Append(q, e)) = Len(q) + 1
           /\ Append(q, e)[Len(q) + 1] = e
           /\ \A k \in 1 .. Len(q) : Append(q, e)[k] = q[k]
<1>1. PICK S : q \in Seq(S)
  BY DEF IsSeq
<1>2. q \in Seq(S \cup {e}) /\ e \in S \cup {e}
  BY <1>1
<1>3. Append(q, e) \in Seq(S \cup {e})
  BY <1>2
<1> QED BY <1>1, <1>3 DEF IsSeq

\* doing nothing
LEMMA KeepsRefl ==
    ASSUME NEW s, Shaped(s) PROVE Keeps(s, s)
<1>1. Len(s.fdsq) \in Nat
  BY SeqIs DEF Shaped
<1> QED BY <1>1 DEF Keeps, Shaped

\* one step after the other
LEMMA KeepsTrans ==
    ASSUME NEW s, NEW t, NEW u, Shaped(s), Keeps(s, t), Keeps(t, u)
    PROVE  Keeps(s, u)
<1>1. Len(s.fdsq) \in Nat /\ Len(t.fdsq) \in Nat /\ Len(u.fdsq) \in Nat
  BY SeqIs DEF Shaped, Keeps
<1>2. Len(s.fdsq) <= Len(t.fdsq) /\ Len(t.fdsq) <= Len(u.fdsq)
  BY DEF Keeps
<1>3. ASSUME NEW k \in 1 .. Len(s.fdsq) PROVE u.fdsq[k] = s.fdsq[k]
  <2>1. k \in 1 .. Len(t.fdsq)
    BY <1>1, <1>2
  <2> QED BY <1>3, <2>1 DEF Keeps
<1>4. ASSUME NEW k \in Len(s.fdsq) + 1 .. Len(u.fdsq) PROVE IsOp(u.fdsq[k])
  <2>1. CASE k \in 1 .. Len(t.fdsq)
    <3>1. k \in Len(s.fdsq) + 1 .. Len(t.fdsq)
      BY <1>1, <1>4, <2>1
    <3>2. u.fdsq[k] = t.fdsq[k] /\ IsOp(t.fdsq[k])
      BY <2>1, <3>1 DEF Keeps
    <3> QED BY <3>2
  <2>2. CASE k \notin 1 .. Len(t.fdsq)
    <3>1. k \in Len(t.fdsq) + 1 .. Len(u.fdsq)
      BY <1>1, <1>2, <1>4, <2>2
    <3> QED BY <3>1 DEF Keeps
  <2> QED BY <2>1, <2>2
<1>5. \A f \in KeptFields : u[f] = s[f]
  BY DEF Keeps
<1>6. u.connPeer = s.connPeer \/ s.connPeer \notin Listed(u)
  BY DEF Keeps
<1>7. Len(s.fdsq) <= Len(u.fdsq)
  BY <1>1, <1>2
<1> QED BY <1>3, <1>4, <1>5, <1>6, <1>7 DEF Keeps

\* the lists stay lists
LEMMA KeepsShaped ==
    ASSUME NEW s, NEW t, Shaped(s), Keeps(s, t) PROVE Shaped(t)
  BY DEF Keeps, Shaped, KeptFields

\* what a function of the application leaves alone is kept
LEMMA SameKeeps ==
    ASSUME NEW s, NEW t, Shaped(s), IsState(t),
           \A f \in KeptFields \cup {"used", "deleted", "fdsq", "connPeer"} :
               t[f] = s[f]
    PROVE  Keeps(s, t)
<1>1. /\ \A f \in KeptFields : t[f] = s[f]
      /\ t.used = s.used /\ t.deleted = s.deleted /\ t.fdsq = s.fdsq
      /\ t.connPeer = s.connPeer
  OBVIOUS
<1>2. Len(s.fdsq) \in Nat
  BY SeqIs DEF Shaped
<1> QED BY <1>1, <1>2 DEF Keeps, Shaped, Listed

\* one assignment to a variable that is of no concern here
LEMMA KeepsAssign ==
    ASSUME NEW s, NEW t, Shaped(s), Keeps(s, t),
           NEW a \in Fields \ (KeptFields \cup {"used", "deleted", "fdsq", "connPeer"}),
           NEW v
    PROVE  Keeps(s, [t EXCEPT ![a] = v])
<1> DEFINE u == [t EXCEPT ![a] = v]
<1>1. IsState(t)
  BY DEF Keeps
<1>2. IsState(u) /\ \A f \in Fields \ {a} : u[f] = t[f]
  BY <1>1, SetField
<1>3. \A f \in KeptFields \cup {"used", "deleted", "fdsq", "connPeer"} :
          f \in Fields \ {a}
  BY DEF KeptFields, Fields
<1> HIDE DEF u
<1>4. Shaped(t)
  BY KeepsShaped
<1>5. Keeps(t, u)
  BY <1>2, <1>3, <1>4, SameKeeps
<1> QED BY <1>5, KeepsTrans DEF u

\* a turn of the application's functions
LEMMA TurnsKeep ==
    ASSUME NEW s, NEW t, Shaped(s), Turns(PeerPart, s, t) PROVE Keeps(s, t)
<1>1. IsState(t) /\ \A f \in LinkPart \cup PeerPart : t[f] = s[f]
  BY DEF Turns
<1>2. KeptFields \cup {"used", "deleted", "fdsq", "connPeer"}
          \subseteq LinkPart \cup PeerPart
  BY DEF KeptFields, LinkPart, PeerPart
<1> QED BY <1>1, <1>2, SameKeeps

\* The same lemmas for the calls that free no id.
LEMMA SparesRefl ==
    ASSUME NEW s, Shaped(s) PROVE Spares(s, s)
<1>1. Len(s.fdsq) \in Nat
  BY SeqIs DEF Shaped
<1>2. \A k \in Len(s.fdsq) + 1 .. Len(s.fdsq) : FALSE
  BY <1>1
<1> QED BY <1>2, KeepsRefl DEF Spares

\* one call after the other,
LEMMA SparesTrans ==
    ASSUME NEW s, NEW t, NEW u, Shaped(s), Spares(s, t), Spares(t, u)
    PROVE  Spares(s, u)
<1>1. Keeps(s, t) /\ Keeps(t, u) /\ Keeps(s, u)
  BY KeepsTrans DEF Spares
<1>2. Len(s.fdsq) \in Nat /\ Len(t.fdsq) \in Nat /\ Len(u.fdsq) \in Nat
  BY <1>1, SeqIs DEF Shaped, Keeps
<1>3. ASSUME NEW k \in Len(s.fdsq) + 1 .. Len(u.fdsq) PROVE u.fdsq[k].op \in OrderOps
  <2>1. CASE k \in 1 .. Len(t.fdsq)
    <3>1. k \in Len(s.fdsq) + 1 .. Len(t.fdsq)
      BY <1>2, <1>3, <2>1
    <3>2. u.fdsq[k] = t.fdsq[k] /\ t.fdsq[k].op \in OrderOps
      BY <1>1, <2>1, <3>1 DEF Keeps, Spares
    <3> QED BY <3>2
  <2>2. CASE k \notin 1 .. Len(t.fdsq)
    <3>1. k \in Len(t.fdsq) + 1 .. Len(u.fdsq)
      BY <1>2, <1>3, <2>2
    <3> QED BY <3>1 DEF Spares
  <2> QED BY <2>1, <2>2
<1> QED BY <1>1, <1>3 DEF Spares

\* one assignment,
LEMMA SparesAssign ==
    ASSUME NEW s, NEW t, Shaped(s), Spares(s, t),
           NEW a \in Fields \ (KeptFields \cup SparedFields \cup {"fdsq"}), NEW v
    PROVE  Spares(s, [t EXCEPT ![a] = v])
<1> DEFINE u == [t EXCEPT ![a] = v]
<1>1. IsState(t) /\ a \in Fields
  BY DEF Spares, Keeps
<1>2. \A f \in Fields \ {a} : u[f] = t[f]
  BY <1>1, SetField
<1>3. \A f \in SparedFields \cup {"fdsq"} : f \in Fields \ {a}
  BY DEF SparedFields, Fields
<1>4. Keeps(s, u)
  BY KeepsAssign DEF Spares, SparedFields
<1> HIDE DEF u
<1>5. u.fdsq = t.fdsq /\ \A f \in SparedFields : u[f] = t[f]
  BY <1>2, <1>3
<1>6. Spares(s, u)
  BY <1>4, <1>5 DEF Spares
<1> QED BY <1>6 DEF u

\* a turn of the application
LEMMA TurnsSpare ==
    ASSUME NEW s, NEW t, Shaped(s), Turns(PeerPart, s, t) PROVE Spares(s, t)
<1>1. \A f \in SparedFields \cup {"fdsq"} : t[f] = s[f]
  BY DEF Turns, SparedFields, PeerPart
<1>2. Len(s.fdsq) \in Nat /\ t.fdsq = s.fdsq
  BY <1>1, SeqIs DEF Shaped
<1>3. \A k \in Len(s.fdsq) + 1 .. Len(t.fdsq) : FALSE
  BY <1>2
<1> QED BY <1>1, <1>3, TurnsKeep DEF Spares

\* an operation is put into the flash queue
LEMMA FdsPutKeeps ==
    ASSUME NEW s, Shaped(s), NEW op, NEW id, NEW dev,
           op \in {"bond", "delete"}, op = "bond" => dev # NoDev
    PROVE  /\ Keeps(s, FdsPut(s, op, id, dev))
           /\ \E k \in DOMAIN FdsPut(s, op, id, dev).fdsq :
                  /\ FdsPut(s, op, id, dev).fdsq[k].op = op
                  /\ FdsPut(s, op, id, dev).fdsq[k].id = id
<1> DEFINE e == [op |-> op, id |-> id, dev |-> dev]
           q == Append(s.fdsq, e)
           t == FdsPut(s, op, id, dev)
<1>1. IsOp(e) /\ e.op = op /\ e.id = id
  BY DEF IsOp
<1> HIDE DEF e
<1>2. /\ IsSeq(s.fdsq) /\ IsSeq(q) /\ Len(s.fdsq) \in Nat
      /\ Len(q) = Len(s.fdsq) + 1 /\ q[Len(s.fdsq) + 1] = e
      /\ \A k \in 1 .. Len(s.fdsq) : q[k] = s.fdsq[k]
      /\ DOMAIN q = 1 .. Len(q)
  BY AppendIs, SeqIs DEF Shaped
<1> HIDE DEF q
<1>3. t = [s EXCEPT !.fdsq = q]
  BY DEF FdsPut, q, e
<1> HIDE DEF t
<1>4. IsState(t) /\ t.fdsq = q /\ \A f \in Fields \ {"fdsq"} : t[f] = s[f]
  <2>1. IsState(s) /\ "fdsq" \in Fields
    BY DEF Shaped, Fields
  <2> QED BY <1>3, <2>1, SetField
<1>5. /\ \A f \in KeptFields : t[f] = s[f]
      /\ t.used = s.used /\ t.deleted = s.deleted /\ t.connPeer = s.connPeer
  BY <1>4 DEF KeptFields, Fields
<1>6. \A k \in Len(s.fdsq) + 1 .. Len(t.fdsq) : IsOp(t.fdsq[k])
  <2>1. \A k \in Len(s.fdsq) + 1 .. Len(s.fdsq) + 1 : k = Len(s.fdsq) + 1
    BY <1>2
  <2> QED BY <1>1, <1>2, <1>4, <2>1
<1>7. Len(s.fdsq) <= Len(t.fdsq)
  BY <1>2, <1>4
<1>8. Keeps(s, t)
  BY <1>2, <1>4, <1>5, <1>6, <1>7 DEF Keeps, Listed
<1>9. Len(s.fdsq) + 1 \in DOMAIN t.fdsq
  BY <1>2, <1>4
<1> QED BY <1>1, <1>2, <1>4, <1>8, <1>9 DEF t

\* peer_data_delete of peer_data_storage.c
LEMMA PeerDataDeleteKeeps ==
    ASSUME NEW s, Shaped(s)
    PROVE  /\ Keeps(s, PeerDataDelete(s))
           /\ PeerDataDelete(s).connPeer = s.connPeer
<1>1. CASE PeerDataDelete(s) = s
  BY <1>1, KeepsRefl
<1>2. CASE PeerDataDelete(s) = FdsPut(s, "delete", Min(s.deleted), NoDev)
  <2> DEFINE m == Min(s.deleted)
  <2> HIDE DEF m
  <2>1. Keeps(s, FdsPut(s, "delete", m, NoDev))
    BY FdsPutKeeps
  <2>2. FdsPut(s, "delete", m, NoDev).connPeer = s.connPeer
    BY DEF FdsPut, Shaped, IsState, Fields
  <2> QED BY <1>2, <2>1, <2>2 DEF m
<1>3. CASE PeerDataDelete(s) = [s EXCEPT !.used = @ \ s.deleted, !.deleted = {}]
  <2> DEFINE u == s.used \ s.deleted
             t == [s EXCEPT !.used = u, !.deleted = {}]
  <2>1. IsState(s)
    BY DEF Shaped
  <2>2. /\ IsState(t) /\ t.used = u /\ t.deleted = {}
        /\ t.fdsq = s.fdsq /\ t.connPeer = s.connPeer
        /\ \A f \in KeptFields : t[f] = s[f]
    BY <2>1 DEF IsState, Fields, KeptFields
  <2>3. PeerDataDelete(s) = t
    BY <1>3
  <2> HIDE DEF t
  <2>4. IsSeq(s.fdsq) /\ Len(s.fdsq) \in Nat
    BY SeqIs DEF Shaped
  <2>5. t.used \subseteq s.used /\ Listed(t) \subseteq Listed(s)
    BY <2>2 DEF Listed
  <2>6. \A k \in Len(s.fdsq) + 1 .. Len(t.fdsq) : FALSE
    BY <2>2, <2>4
  <2>7. Keeps(s, t)
    BY <2>2, <2>4, <2>5, <2>6 DEF Keeps
  <2> QED BY <2>2, <2>3, <2>7
<1> QED BY <1>1, <1>2, <1>3 DEF PeerDataDelete

\* im_peer_free: the id is on the list of peers no longer
LEMMA PeerFreeKeeps ==
    ASSUME NEW s, Shaped(s), NEW id
    PROVE  /\ Keeps(s, PeerFree(s, id))
           /\ id \in Ids => id \notin Listed(PeerFree(s, id))
<1> DEFINE ds   == s.deleted \cup {id}
           more == [s EXCEPT !.deleted = ds]
           tidy == PeerDataDelete(more)
           peer == IF tidy.connPeer = id THEN PeerIdInvalid ELSE tidy.connPeer
           t    == [tidy EXCEPT !.connPeer = peer]
<1>1. IsState(s) /\ IsSeq(s.fdsq) /\ Len(s.fdsq) \in Nat
  BY SeqIs DEF Shaped
<1>2. /\ IsState(more) /\ more.deleted = ds /\ more.used = s.used
      /\ more.fdsq = s.fdsq /\ more.connPeer = s.connPeer
      /\ \A f \in KeptFields : more[f] = s[f]
  BY <1>1 DEF IsState, Fields, KeptFields
<1> HIDE DEF more
<1>3. Listed(more) \subseteq Listed(s) /\ id \notin Listed(more)
  BY <1>2 DEF Listed
<1>4. \A k \in Len(s.fdsq) + 1 .. Len(more.fdsq) : FALSE
  BY <1>1, <1>2
<1>5. Keeps(s, more)
  BY <1>1, <1>2, <1>3, <1>4 DEF Keeps
<1>6. Keeps(more, tidy) /\ Shaped(more)
  BY <1>5, KeepsShaped, PeerDataDeleteKeeps
<1> HIDE DEF tidy, peer
<1>7. IsState(tidy) /\ IsSeq(tidy.fdsq) /\ Len(tidy.fdsq) \in Nat
  BY <1>6, SeqIs DEF Keeps
<1>8. /\ IsState(t) /\ t.connPeer = peer
      /\ t.used = tidy.used /\ t.deleted = tidy.deleted
      /\ t.fdsq = tidy.fdsq
      /\ \A f \in KeptFields : t[f] = tidy[f]
  BY <1>7 DEF IsState, Fields, KeptFields
<1> HIDE DEF t
<1>9. Listed(t) = Listed(tidy) /\ id \notin Listed(t)
  BY <1>3, <1>6, <1>8 DEF Listed, Keeps
<1>10. t.connPeer = tidy.connPeer \/ tidy.connPeer \notin Listed(t)
  BY <1>8, <1>9 DEF peer
<1>11. \A k \in Len(tidy.fdsq) + 1 .. Len(t.fdsq) : FALSE
  BY <1>7, <1>8
<1>12. Keeps(tidy, t)
  BY <1>7, <1>8, <1>9, <1>10, <1>11 DEF Keeps
<1>13. Keeps(s, t)
  BY <1>5, <1>6, <1>12, KeepsTrans
<1>14. CASE id \in Ids
  BY <1>9, <1>13, <1>14 DEF PeerFree, t, peer, tidy, more, ds
<1>15. CASE id \notin Ids
  BY <1>15, KeepsRefl DEF PeerFree
<1> QED BY <1>14, <1>15

\* the first operations of a list
LEMMA JoinedIs ==
    ASSUME NEW q, NEW p, IsSeq(q), IsSeq(p), NEW m \in Int, m <= Len(p)
    PROVE  LET r == q \o SubSeq(p, 1, m) IN
           /\ IsSeq(r)
           /\ Len(q) <= Len(r)
           /\ \A k \in 1 .. Len(q) : r[k] = q[k]
           /\ \A k \in Len(q) + 1 .. Len(r) :
                  k - Len(q) \in DOMAIN p /\ r[k] = p[k - Len(q)]
<1>1. PICK S : q \in Seq(S)
  BY DEF IsSeq
<1>2. PICK T : p \in Seq(T)
  BY DEF IsSeq
<1>3. PICK U : U = S \cup T
  OBVIOUS
<1>4. q \in Seq(U) /\ p \in Seq(U) /\ Len(q) \in Nat /\ Len(p) \in Nat
  BY <1>1, <1>2, <1>3
<1> DEFINE f == SubSeq(p, 1, m)
<1>5. /\ f \in Seq(U)
      /\ \A k \in 1 .. Len(f) : k \in DOMAIN p /\ f[k] = p[k]
  BY <1>4
<1> HIDE DEF f
<1>6. q \o f \in Seq(U) /\ Len(q \o f) = Len(q) + Len(f) /\ Len(f) \in Nat
  BY <1>4, <1>5
<1>7. \A k \in 1 .. Len(q) : (q \o f)[k] = q[k]
  BY <1>4, <1>5
<1>8. ASSUME NEW k \in Len(q) + 1 .. Len(q \o f)
      PROVE  k - Len(q) \in DOMAIN p /\ (q \o f)[k] = p[k - Len(q)]
  <2>1. k - Len(q) \in 1 .. Len(f) /\ k \in 1 .. Len(q) + Len(f) /\ ~(k <= Len(q))
    BY <1>4, <1>6
  <2>2. (q \o f)[k] = f[k - Len(q)]
    BY <1>4, <1>5, <1>6, <2>1
  <2> QED BY <1>5, <2>1, <2>2
<1>9. IsSeq(q \o f) /\ Len(q) <= Len(q \o f)
  BY <1>4, <1>6 DEF IsSeq
<1> QED BY <1>7, <1>8, <1>9 DEF f

\* every set of numbers has a least element
LEMMA MinIn ==
    ASSUME NEW T, T \subseteq Nat, T # {}
    PROVE  Min(T) \in T /\ \A y \in T : Min(T) <= y
<1>1. PICK x \in T : \A y \in T : ~(<<y, x>> \in OpToRel(<, Nat))
  BY WFMin, NatLessThanWellFounded
<1>2. ASSUME NEW y \in T PROVE x <= y
  <2>1. <<y, x>> \notin OpToRel(<, Nat)
    BY <1>1
  <2> QED BY <2>1 DEF OpToRel
<1> QED BY <1>2 DEF Min

\* the smaller of two numbers
LEMMA MinOfTwo ==
    ASSUME NEW a \in Int, NEW b \in Int
    PROVE  Min({a, b}) \in Int /\ Min({a, b}) <= b
<1>1. CASE a <= b
  <2>1. a \in {a, b} /\ \A y \in {a, b} : a <= y
    BY <1>1
  <2>2. \A x \in {a, b} : (\A y \in {a, b} : x <= y) => x = a
    BY <1>1
  <2> QED BY <2>1, <2>2 DEF Min
<1>2. CASE ~(a <= b)
  <2>1. b \in {a, b} /\ \A y \in {a, b} : b <= y
    BY <1>2
  <2>2. \A x \in {a, b} : (\A y \in {a, b} : x <= y) => x = b
    BY <1>2
  <2> QED BY <2>1, <2>2 DEF Min
<1> QED BY <1>1, <1>2

\* operations are offered to the flash queue
LEMMA FdsTrySpares ==
    ASSUME NEW s, Shaped(s), NEW ops, IsSeq(ops),
           \A k \in DOMAIN ops : IsOp(ops[k]) /\ ops[k].op \in OrderOps
    PROVE  Spares(s, FdsTry(s, ops))
<1> DEFINE room == FdsQueueSize - Len(s.fdsq)
           m    == Min({room, Len(ops)})
           q    == s.fdsq \o SubSeq(ops, 1, m)
           put  == [s EXCEPT !.fdsq = q]
           over == put.overrun \/ room < Len(ops)
<1>1. IsState(s) /\ IsSeq(s.fdsq) /\ Len(s.fdsq) \in Nat /\ Len(ops) \in Nat
  BY SeqIs DEF Shaped
<1>2. m \in Int /\ m <= Len(ops)
  <2>1. room \in Int
    BY <1>1, PeerManagerAssumption
  <2> QED BY <1>1, <2>1, MinOfTwo
<1> HIDE DEF room, m, q
<1>3. /\ IsSeq(q) /\ Len(s.fdsq) <= Len(q)
      /\ \A k \in 1 .. Len(s.fdsq) : q[k] = s.fdsq[k]
      /\ \A k \in Len(s.fdsq) + 1 .. Len(q) :
             k - Len(s.fdsq) \in DOMAIN ops /\ q[k] = ops[k - Len(s.fdsq)]
  <2> DEFINE f == s.fdsq
  <2>1. q = f \o SubSeq(ops, 1, m) /\ IsSeq(f)
    BY <1>1 DEF q
  <2> HIDE DEF f
  <2>2. /\ IsSeq(q) /\ Len(f) <= Len(q)
        /\ \A k \in 1 .. Len(f) : q[k] = f[k]
        /\ \A k \in Len(f) + 1 .. Len(q) :
               k - Len(f) \in DOMAIN ops /\ q[k] = ops[k - Len(f)]
    BY <1>2, <2>1, JoinedIs
  <2> QED BY <2>2 DEF f
<1>4. /\ IsState(put) /\ put.fdsq = q
      /\ put.used = s.used /\ put.deleted = s.deleted
      /\ put.connPeer = s.connPeer
      /\ \A f \in KeptFields \cup SparedFields : put[f] = s[f]
  BY <1>1 DEF IsState, Fields, KeptFields, SparedFields
<1> HIDE DEF put, over
<1>5. Spares(s, put)
  BY <1>3, <1>4 DEF Keeps, Spares, Listed
<1>6. Spares(s, [put EXCEPT !.overrun = over])
  BY <1>5, SparesAssign DEF Fields, KeptFields, SparedFields
<1>7. FdsTry(s, ops) = [put EXCEPT !.overrun = over]
  BY DEF FdsTry, put, q, m, over, room
<1> QED BY <1>6, <1>7

\* flashMemWriteBytes of main.c
LEMMA OrderWriteSpares ==
    ASSUME NEW s, Shaped(s) PROVE Spares(s, OrderWriteFlash(s))
<1> DEFINE Do(op, k) == [op |-> op, id |-> k, dev |-> NoDev]
           old == [k \in DOMAIN s.orderRecs |-> Do("unorder", k)]
           e   == Do("order", 0)
<1>1. Len(s.orderRecs) \in Nat /\ DOMAIN s.orderRecs = 1 .. Len(s.orderRecs)
  BY SeqIs DEF Shaped
<1>2. /\ IsOp(e) /\ e.op \in OrderOps
      /\ \A k \in Nat : IsOp(Do("unorder", k)) /\ Do("unorder", k).op \in OrderOps
  BY DEF IsOp, OrderOps
<1>3. IsSeq(old) /\ \A k \in DOMAIN old : IsOp(old[k]) /\ old[k].op \in OrderOps
  <2>1. old \in Seq({Do("unorder", k) : k \in Nat})
    BY <1>1
  <2>2. \A k \in DOMAIN old : k \in Nat /\ old[k] = Do("unorder", k)
    BY <1>1
  <2> HIDE DEF old, Do
  <2> QED BY <1>2, <2>1, <2>2 DEF IsSeq
<1>4. OrderWriteFlash(s) = FdsTry(s, Append(old, e))
  BY DEF OrderWriteFlash
<1> HIDE DEF old, e
<1>5. /\ IsSeq(Append(old, e))
      /\ \A k \in DOMAIN Append(old, e) :
            IsOp(Append(old, e)[k]) /\ Append(old, e)[k].op \in OrderOps
  <2>1. /\ IsSeq(Append(old, e)) /\ Len(Append(old, e)) = Len(old) + 1
        /\ Append(old, e)[Len(old) + 1] = e
        /\ \A k \in 1 .. Len(old) : Append(old, e)[k] = old[k]
        /\ Len(old) \in Nat /\ DOMAIN old = 1 .. Len(old)
        /\ DOMAIN Append(old, e) = 1 .. Len(Append(old, e))
    BY <1>3, AppendIs, SeqIs
  <2>2. \A k \in DOMAIN Append(old, e) : k \in DOMAIN old \/ k = Len(old) + 1
    BY <2>1
  <2> QED BY <1>2, <1>3, <2>1, <2>2
<1>6. PICK ops : ops = Append(old, e)
  OBVIOUS
<1> QED BY <1>4, <1>5, <1>6, FdsTrySpares

\* orderSetFirst and the writing of the order
LEMMA AddOrderSpares ==
    ASSUME NEW s, Shaped(s), NEW peerId PROVE Spares(s, AddOrder(s, peerId))
<1> DEFINE order == OrderSetFirst(s.deviceOrder, peerId % 256)
           first == [s EXCEPT !.deviceOrder = order]
<1> HIDE DEF order
<1>1. Spares(s, first)
  BY SparesRefl, SparesAssign DEF Fields, KeptFields, SparedFields
<1> HIDE DEF first
<1>2. Spares(first, OrderWriteFlash(first))
  BY <1>1, KeepsShaped, OrderWriteSpares DEF Spares
<1>3. AddOrder(s, peerId) = OrderWriteFlash(first)
  BY DEF AddOrder, first, order
<1> QED BY <1>1, <1>2, <1>3, SparesTrans

\* pm_evt_handler, PM_EVT_CONN_SEC_SUCCEEDED
LEMMA ConnSecSucceededSpares ==
    ASSUME NEW s, Shaped(s) PROVE Spares(s, ConnSecSucceeded(s))
<1> DEFINE first == AddOrder(s, s.connPeer)
<1>1. Spares(s, first)
  BY AddOrderSpares
<1> HIDE DEF first
<1>2. Spares(s, [first EXCEPT !.peerId = s.connPeer])
  BY <1>1, SparesAssign DEF Fields, KeptFields, SparedFields
<1> QED BY <1>2 DEF ConnSecSucceeded, first

\* pm_evt_handler, PM_EVT_PEER_DATA_UPDATE_SUCCEEDED
LEMMA PeerDataUpdateSpares ==
    ASSUME NEW s, Shaped(s), NEW peerId
    PROVE  Spares(s, PeerDataUpdateSucceeded(s, peerId))
<1> DEFINE first == AddOrder(s, peerId)
           peers == Append(s.whitelistPeers, s.peerId)
           more  == [first EXCEPT !.whitelistPeers = peers]
           known == Check(PmWhitelistSet(more, peers), "pm_evt_handler")
           ids   == Check(PmDeviceIdentitiesListSet(known, peers), "pm_evt_handler")
<1>1. Spares(s, first)
  BY AddOrderSpares
<1> HIDE DEF first, peers
<1>2. Spares(s, more)
  BY <1>1, SparesAssign DEF Fields, KeptFields, SparedFields
<1>3. Shaped(more) /\ IsState(more)
  BY <1>2, KeepsShaped DEF Keeps, Spares
<1> HIDE DEF more
<1> DEFINE P == PeerPart
<1>4. /\ P \in SUBSET PeerPart /\ P \in SUBSET Parts
      /\ P \in SUBSET (PeerPart \cup NotesPart)
      /\ Turns(P, more, more)
  BY <1>3, TurnsRefl, PartsIs
<1> HIDE DEF P
<1>5. Turns(P, more, PmWhitelistSet(more, peers))
  BY <1>4, ListsTurn
<1>6. Turns(P, more, known)
  BY <1>4, <1>5, Checks DEF NoFault
<1> HIDE DEF known
<1>7. Turns(P, more, PmDeviceIdentitiesListSet(known, peers))
  BY <1>4, <1>6, ListsTurn
<1>8. Turns(P, more, ids)
  BY <1>4, <1>7, Checks DEF NoFault
<1> HIDE DEF ids
<1>9. Spares(more, ids)
  BY <1>3, <1>8, TurnsSpare DEF P
<1>10. Spares(s, ids)
  BY <1>2, <1>9, SparesTrans
<1>11. PeerDataUpdateSucceeded(s, peerId) \in {first, ids}
  BY DEF PeerDataUpdateSucceeded, ids, known, more, peers, first
<1> QED BY <1>1, <1>10, <1>11

\* induction up to a number
LEMMA UpTo ==
    ASSUME NEW n \in Nat, NEW T, 0 \in T, \A k \in 1 .. n : k - 1 \in T => k \in T
    PROVE  n \in T
<1> DEFINE U == {k \in 0 .. n : k \notin T}
<1> SUFFICES ASSUME U # {} PROVE FALSE
  OBVIOUS
<1>1. Min(U) \in U /\ \A y \in U : Min(U) <= y
  <2>1. U \subseteq Nat
    OBVIOUS
  <2> HIDE DEF U
  <2> QED BY <2>1, MinIn
<1>2. PICK k \in U : \A y \in U : k <= y
  BY <1>1
<1>3. k \in 1 .. n /\ k - 1 \notin U
  BY <1>2
<1> QED BY <1>2, <1>3

\* the highest peer id
LEMMA HighestId == Max(Ids) + 1 \in Nat
<1> DEFINE U == {n \in Nat : \A y \in Ids : y <= n}
<1>1. Ids \subseteq 0 .. 254 /\ 0 \in Ids
  BY PeerManagerAssumption
<1>2. 254 \in U /\ U \subseteq Nat
  BY <1>1
<1>3. PICK m \in U : \A y \in U : m <= y
  <2> HIDE DEF U
  <2>1. Min(U) \in U /\ \A y \in U : Min(U) <= y
    BY <1>2, MinIn
  <2> QED BY <2>1
<1>4. m \in Ids
  <2> SUFFICES ASSUME m \notin Ids PROVE FALSE
    OBVIOUS
  <2>1. m \in Nat /\ (\A y \in Ids : y <= m) /\ m # 0
    BY <1>1, <1>3
  <2>2. m - 1 \in U
    BY <1>1, <2>1
  <2>3. m <= m - 1
    BY <1>3, <2>2
  <2> QED BY <2>1, <2>3
<1>5. \E x \in Ids : \A y \in Ids : x >= y
  BY <1>1, <1>3, <1>4
<1>6. Max(Ids) \in Ids
  BY <1>5 DEF Max
<1> HIDE DEF U
<1>7. \A h \in Ids : h + 1 \in Nat
  BY <1>1
<1> QED BY <1>6, <1>7

\* the loop of pm_peers_delete, id by id
LEMMA DeleteRuns ==
    ASSUME NEW s
    PROVE  \E c : /\ c[0] = s
                  /\ \A n \in 1 .. Max(Ids) + 1 : c[n] = FreeNext(c[n - 1], n - 1)
                  /\ PmPeersDelete(s) =
                        [s EXCEPT !.used     = c[Max(Ids) + 1].used,
                                  !.deleted  = c[Max(Ids) + 1].deleted,
                                  !.fdsq     = c[Max(Ids) + 1].fdsq,
                                  !.connPeer = c[Max(Ids) + 1].connPeer,
                                  !.ret      = "SUCCESS"]
<1> DEFINE N == Max(Ids) + 1
           IsRun(g, m) == g = [n \in 0 .. m |-> IF n = 0 THEN s ELSE FreeNext(g[n - 1], n - 1)]
           T == {m \in Nat : \E g : IsRun(g, m)}
           c == CHOOSE g : IsRun(g, N)
<1>1. N \in Nat
  BY HighestId
<1>2. PmPeersDelete(s) = [s EXCEPT !.used = c[N].used, !.deleted = c[N].deleted,
                                   !.fdsq = c[N].fdsq, !.connPeer = c[N].connPeer,
                                   !.ret = "SUCCESS"]
  BY DEF PmPeersDelete
<1> HIDE DEF N
<1>3. N \in T
  <2>1. 0 \in T
    <3>1. IsRun([n \in 0 .. 0 |-> s], 0)
      OBVIOUS
    <3> QED BY <3>1
  <2>2. ASSUME NEW m \in 1 .. N, m - 1 \in T PROVE m \in T
    <3>1. PICK g : IsRun(g, m - 1)
      BY <2>2
    <3>2. PICK h : h = [n \in 0 .. m |-> IF n = m THEN FreeNext(g[m - 1], m - 1) ELSE g[n]]
      OBVIOUS
    <3>3. ASSUME NEW n \in 0 .. m
          PROVE  h[n] = IF n = 0 THEN s ELSE FreeNext(h[n - 1], n - 1)
      BY <1>1, <3>1, <3>2
    <3>4. IsRun(h, m)
      BY <3>2, <3>3
    <3> QED BY <1>1, <3>4
  <2> HIDE DEF T
  <2> QED BY <1>1, <2>1, <2>2, UpTo
<1>4. IsRun(c, N)
  BY <1>3
<1> HIDE DEF c
<1>5. c[0] = s /\ \A n \in 1 .. N : c[n] = FreeNext(c[n - 1], n - 1)
  <2>1. \A n \in 0 .. N : c[n] = IF n = 0 THEN s ELSE FreeNext(c[n - 1], n - 1)
    BY <1>4
  <2>2. 0 \in 0 .. N /\ \A n \in 1 .. N : n \in 0 .. N /\ n # 0
    BY <1>1
  <2> QED BY <2>1, <2>2
<1> QED BY <1>2, <1>5 DEF N

\* pm_peers_delete
LEMMA PmPeersDeleteKeeps ==
    ASSUME NEW s, Shaped(s) PROVE Keeps(s, PmPeersDelete(s))
<1>1. PICK c : /\ c[0] = s
               /\ \A n \in 1 .. Max(Ids) + 1 : c[n] = FreeNext(c[n - 1], n - 1)
               /\ PmPeersDelete(s) =
                     [s EXCEPT !.used     = c[Max(Ids) + 1].used,
                               !.deleted  = c[Max(Ids) + 1].deleted,
                               !.fdsq     = c[Max(Ids) + 1].fdsq,
                               !.connPeer = c[Max(Ids) + 1].connPeer,
                               !.ret      = "SUCCESS"]
  BY DeleteRuns
<1> DEFINE N == Max(Ids) + 1
           T == {n \in Nat : Keeps(s, c[n])}
<1>2. N \in Nat
  BY HighestId
<1> HIDE DEF N
<1>3. N \in T
  <2>1. 0 \in T
    BY <1>1, KeepsRefl
  <2>2. ASSUME NEW n \in 1 .. N, n - 1 \in T PROVE n \in T
    <3>1. c[n] = FreeNext(c[n - 1], n - 1) /\ Keeps(s, c[n - 1])
      BY <1>1, <2>2 DEF N
    <3>2. Shaped(c[n - 1])
      BY <3>1, KeepsShaped
    <3>3. Keeps(c[n - 1], FreeNext(c[n - 1], n - 1))
      BY <3>2, PeerFreeKeeps, KeepsRefl DEF FreeNext
    <3>4. Keeps(s, c[n])
      BY <3>1, <3>3, KeepsTrans
    <3> QED BY <1>2, <3>4
  <2> HIDE DEF T
  <2> QED BY <1>2, <2>1, <2>2, UpTo
<1>4. PICK all : all = c[N]
  OBVIOUS
<1>5. Keeps(s, all)
  BY <1>3, <1>4
<1> DEFINE t == [s EXCEPT !.used = all.used, !.deleted = all.deleted,
                          !.fdsq = all.fdsq, !.connPeer = all.connPeer,
                          !.ret = "SUCCESS"]
<1>6. PmPeersDelete(s) = t
  BY <1>1, <1>4 DEF N
<1>7. /\ IsState(t) /\ t.used = all.used /\ t.deleted = all.deleted
      /\ t.fdsq = all.fdsq /\ t.connPeer = all.connPeer
      /\ \A f \in KeptFields : t[f] = s[f]
  BY DEF Shaped, IsState, Fields, KeptFields
<1> HIDE DEF t
<1>8. Keeps(s, t)
  BY <1>5, <1>7 DEF Keeps, Listed
<1> QED BY <1>6, <1>8

\* appProcessing of main.c, the deletion of the bonds
LEMMA DeleteBondsKeeps ==
    ASSUME NEW s, Shaped(s) PROVE Keeps(s, DeleteBonds(s))
<1> DEFINE begun   == [s EXCEPT !.isDeleteBonds = FALSE]
           freed   == PmPeersDelete(begun)
           cleaned == [freed EXCEPT !.deviceOrder = CleanOrder]
<1>1. Keeps(s, begun)
  BY KeepsRefl, KeepsAssign DEF Fields, KeptFields
<1> HIDE DEF begun
<1>2. Keeps(begun, freed) /\ Shaped(begun)
  BY <1>1, KeepsShaped, PmPeersDeleteKeeps
<1>3. Keeps(s, freed)
  BY <1>1, <1>2, KeepsTrans
<1> HIDE DEF freed
<1>4. Keeps(s, cleaned)
  BY <1>3, KeepsAssign DEF Fields, KeptFields
<1> HIDE DEF cleaned
<1>5. Keeps(cleaned, OrderWriteFlash(cleaned))
  BY <1>4, KeepsShaped, OrderWriteSpares DEF Spares
<1> QED BY <1>4, <1>5, KeepsTrans DEF DeleteBonds, cleaned, freed, begun

\* appDisconnect and the checks, which the failures end with
LEMMA FailuresKeep ==
    ASSUME NEW s, NEW t, Shaped(s), Keeps(s, t)
    PROVE  /\ Keeps(s, AppDisconnect(t))
           /\ \A f : f # NoFault => Keeps(s, Check(t, f))
<1>1. Shaped(t) /\ IsState(t)
  BY KeepsShaped DEF Keeps
<1> DEFINE P == PeerPart
<1>2. /\ P \in SUBSET PeerPart /\ P \in SUBSET Parts
      /\ P \in SUBSET (PeerPart \cup NotesPart)
      /\ Turns(P, t, t)
  BY <1>1, TurnsRefl, PartsIs
<1> HIDE DEF P
<1>3. Turns(P, t, AppDisconnect(t)) /\ \A f : f # NoFault => Turns(P, t, Check(t, f))
  BY <1>2, AppDisconnectTurns, Checks
<1>4. Keeps(t, AppDisconnect(t)) /\ \A f : f # NoFault => Keeps(t, Check(t, f))
  BY <1>1, <1>3, TurnsKeep DEF P
<1> QED BY <1>4, KeepsTrans

-------------------------------------------------------------------------------
\* A pairing ends with one of the first of these events; with one of the others
\* the security dispatcher turns to another connection or procedure.
Ends   == {"DISCONNECTED", "AUTH_BONDED", "AUTH_PAIRED", "AUTH_FAILED"}
Starts == {"CONNECTED", "SEC_PARAMS_REQUEST", "SEC_INFO_REQUEST"}

\* the stack has been asked to pair
PairingSec == {"params", "pairing", "rejected"}

\* The pairing that was going on after the first j events is not over in the
\* stack, or its end waits behind them, and it comes before anything new.
Guarded(evts, sec, j) ==
    /\ \/ sec \in PairingSec
       \/ \E m \in j + 1 .. Len(evts) : evts[m].id \in Ends
    /\ \A k \in j + 1 .. Len(evts) :
          evts[k].id \in Starts => \E m \in j + 1 .. k - 1 : evts[m].id \in Ends

\* what the stack has to tell: a request to pair waits only while the pairing
\* is guarded from there on
Told(s) ==
    /\ s.evts \in Seq(Events)
    /\ s.link \in Others
    /\ s.sec # "none" => s.link # NoDev
    /\ \A k \in 1 .. Len(s.evts) :
          s.evts[k].id = "AUTH_BONDED" => s.evts[k].dev # NoDev
    /\ \A j \in 1 .. Len(s.evts) :
          s.evts[j].id = "SEC_PARAMS_REQUEST" => Guarded(s.evts, s.sec, j)

\* the id has a bond or will have one
HasOp(s, i) == \E k \in DOMAIN s.fdsq : s.fdsq[k].op = "bond" /\ s.fdsq[k].id = i
Bonds(s, i) == HasBond(s, i) \/ HasOp(s, i)

\* a pairing has allocated the id of the connection
Pairs(s) == s.secProc = "pairing" /\ s.newPeer

\* NoIdLeaks of MouseApp for any state, without and with a pairing
Stored(s) == ~s.gap => \A i \in Listed(s) : Bonds(s, i)
Owned(s)  ==
    ~s.gap => \A i \in Listed(s) : Bonds(s, i) \/ (Pairs(s) /\ s.connPeer = i)

\* the invariant while no pairing has allocated an id, and while one may have
Calm(s) == Formed(s) /\ Told(s) /\ Stored(s)
Busy(s) == Formed(s) /\ Told(s) /\ Owned(s)

\* The invariant, of any state.
Safe(s) == Busy(s) /\ (Pairs(s) => Guarded(s.evts, s.sec, 0))

-------------------------------------------------------------------------------
\* The stack's part.

\* a fetched event: the pairing is guarded by what is left
LEMMA GuardedTail ==
    ASSUME NEW evts \in Seq(Events), evts # <<>>, NEW sec, NEW j \in 0 .. Len(evts),
           Guarded(evts, sec, j), j = 0 => Head(evts).id \notin Ends
    PROVE  /\ j # 0 => Guarded(Tail(evts), sec, j - 1)
           /\ j = 0 => Guarded(Tail(evts), sec, 0) /\ Head(evts).id \notin Starts
<1> DEFINE n == Len(evts)
           rest == Tail(evts)
           i == IF j = 0 THEN 0 ELSE j - 1
<1>1. /\ n \in Nat /\ n >= 1 /\ Len(rest) = n - 1 /\ Head(evts) = evts[1]
      /\ \A k \in 1 .. n - 1 : rest[k] = evts[k + 1]
      /\ i \in Nat
  OBVIOUS
<1> HIDE DEF n, rest
<1>2. ASSUME NEW m \in j + 1 .. n, evts[m].id \in Ends
      PROVE  m - 1 \in i + 1 .. n - 1 /\ rest[m - 1].id \in Ends
  <2>1. m # 1
    BY <1>1, <1>2
  <2>2. m - 1 \in i + 1 .. n - 1 /\ m - 1 \in 1 .. n - 1 /\ (m - 1) + 1 = m
    BY <1>1, <2>1
  <2> QED BY <1>1, <1>2, <2>2
<1>3. sec \in PairingSec \/ \E m \in i + 1 .. n - 1 : rest[m].id \in Ends
  BY <1>2 DEF Guarded, n
<1>4. ASSUME NEW k \in i + 1 .. n - 1, rest[k].id \in Starts
      PROVE  \E m \in i + 1 .. k - 1 : rest[m].id \in Ends
  <2>1. k + 1 \in j + 1 .. n /\ evts[k + 1].id \in Starts
    BY <1>1, <1>4
  <2>2. PICK m \in j + 1 .. (k + 1) - 1 : evts[m].id \in Ends
    BY <2>1 DEF Guarded, n
  <2>3. m \in j + 1 .. n
    BY <1>1, <2>1
  <2>4. m - 1 \in i + 1 .. n - 1 /\ rest[m - 1].id \in Ends
    BY <1>2, <2>2, <2>3
  <2>5. m - 1 \in i + 1 .. k - 1
    BY <1>1, <2>2, <2>4
  <2> QED BY <2>4, <2>5
<1>5. Guarded(rest, sec, i)
  BY <1>1, <1>3, <1>4 DEF Guarded
<1>6. j = 0 => Head(evts).id \notin Starts
  <2>1. ~ \E m \in 0 + 1 .. 1 - 1 : TRUE
    OBVIOUS
  <2>2. j = 0 => 1 \in j + 1 .. Len(evts)
    BY <1>1 DEF n
  <2> QED BY <1>1, <2>1, <2>2 DEF Guarded
<1> QED BY <1>5, <1>6 DEF rest

\* one more event guards what was guarded, unless it ends the pairing
LEMMA GuardedAppend ==
    ASSUME NEW evts \in Seq(Events), NEW e \in Events, NEW sec, NEW next,
           NEW j \in 0 .. Len(evts), Guarded(evts, sec, j),
           sec \in PairingSec => next \in PairingSec \/ e.id \in Ends,
           e.id \in Starts => sec \notin PairingSec
    PROVE  Guarded(Append(evts, e), next, j)
<1> DEFINE n == Len(evts)
           more == Append(evts, e)
<1>1. /\ n \in Nat /\ Len(more) = n + 1 /\ more[n + 1] = e
      /\ \A k \in 1 .. n : more[k] = evts[k]
  OBVIOUS
<1> HIDE DEF n, more
<1>2. ASSUME NEW k \in j + 1 .. n PROVE k \in 1 .. n /\ k \in j + 1 .. n + 1 /\ more[k] = evts[k]
  BY <1>1
<1>3. n + 1 \in j + 1 .. n + 1
  BY <1>1 DEF n
<1>4. next \in PairingSec \/ \E m \in j + 1 .. n + 1 : more[m].id \in Ends
  <2>1. CASE sec \in PairingSec
    BY <1>1, <1>3, <2>1
  <2>2. CASE sec \notin PairingSec
    <3>1. PICK m \in j + 1 .. n : evts[m].id \in Ends
      BY <2>2 DEF Guarded, n
    <3> QED BY <1>2, <3>1
  <2> QED BY <2>1, <2>2
<1>5. ASSUME NEW k \in j + 1 .. n + 1, more[k].id \in Starts
      PROVE  \E m \in j + 1 .. k - 1 : more[m].id \in Ends
  <2>1. CASE k = n + 1
    <3>1. sec \notin PairingSec
      BY <1>1, <1>5, <2>1
    <3>2. PICK m \in j + 1 .. n : evts[m].id \in Ends
      BY <3>1 DEF Guarded, n
    <3>3. m \in j + 1 .. k - 1
      BY <1>1, <2>1, <3>2
    <3> QED BY <1>2, <3>2, <3>3
  <2>2. CASE k # n + 1
    <3>1. k \in j + 1 .. n
      BY <1>1, <1>5, <2>2
    <3>2. PICK m \in j + 1 .. k - 1 : evts[m].id \in Ends
      BY <1>2, <1>5, <3>1 DEF Guarded, n
    <3>3. m \in j + 1 .. n
      BY <1>1, <3>1, <3>2
    <3> QED BY <1>2, <3>2, <3>3
  <2> QED BY <2>1, <2>2
<1> QED BY <1>1, <1>4, <1>5 DEF Guarded, more

\* an answer to the stack
LEMMA GuardedSec ==
    ASSUME NEW evts, NEW sec, NEW next, NEW j, Guarded(evts, sec, j),
           sec \in PairingSec => next \in PairingSec
    PROVE  Guarded(evts, next, j)
  BY DEF Guarded

\* fetching an event leaves all else alone and the rest of the events true
LEMMA FetchTold ==
    ASSUME NEW s, IsState(s), Told(s), s.evts # <<>>
    PROVE  LET f == Fetch(s) IN
           /\ IsState(f) /\ f.evts = Tail(s.evts)
           /\ \A x \in Fields \ {"evts"} : f[x] = s[x]
           /\ Told(f)
           /\ Head(s.evts).id = "SEC_PARAMS_REQUEST" => Guarded(f.evts, f.sec, 0)
           /\ Head(s.evts).id = "AUTH_BONDED" => Head(s.evts).dev # NoDev
           /\ Head(s.evts) \in Events
<1> DEFINE f == Fetch(s)
           n == Len(s.evts)
<1>1. /\ IsState(f) /\ f.evts = Tail(s.evts)
      /\ \A x \in Fields \ {"evts"} : f[x] = s[x]
  BY DEF Fetch, IsState, Fields
<1>2. f.link = s.link /\ f.sec = s.sec
  BY <1>1 DEF Fields
<1> HIDE DEF f
<1>3. /\ s.evts \in Seq(Events) /\ f.evts \in Seq(Events)
      /\ n \in Nat /\ n >= 1 /\ Len(f.evts) = n - 1 /\ Head(s.evts) = s.evts[1]
      /\ \A k \in 1 .. n - 1 : k + 1 \in 1 .. n /\ f.evts[k] = s.evts[k + 1]
      /\ Head(s.evts) \in Events
  BY <1>1 DEF Told
<1> HIDE DEF n
<1>4. ASSUME NEW j \in 1 .. n, s.evts[j].id = "SEC_PARAMS_REQUEST"
      PROVE  Guarded(f.evts, f.sec, j - 1)
  <2>1. Guarded(s.evts, s.sec, j) /\ j \in 0 .. Len(s.evts) /\ j # 0
    BY <1>3, <1>4 DEF Told, n
  <2> QED BY <1>1, <1>2, <1>3, <2>1, GuardedTail
<1>5. ASSUME NEW j \in 1 .. n - 1, f.evts[j].id = "SEC_PARAMS_REQUEST"
      PROVE  Guarded(f.evts, f.sec, j)
  <2>1. j + 1 \in 1 .. n /\ s.evts[j + 1].id = "SEC_PARAMS_REQUEST" /\ (j + 1) - 1 = j
    BY <1>3, <1>5
  <2> QED BY <1>4, <2>1
<1>6. \A k \in 1 .. n - 1 : f.evts[k].id = "AUTH_BONDED" => f.evts[k].dev # NoDev
  BY <1>3 DEF Told, n
<1>7. Told(f)
  BY <1>2, <1>3, <1>5, <1>6 DEF Told
<1>8. 1 \in 1 .. n /\ 1 - 1 = 0
  BY <1>3
<1>9. Head(s.evts).id = "SEC_PARAMS_REQUEST" => Guarded(f.evts, f.sec, 0)
  BY <1>3, <1>4, <1>8
<1>10. Head(s.evts).id = "AUTH_BONDED" => Head(s.evts).dev # NoDev
  BY <1>3, <1>8 DEF Told, n
<1> QED BY <1>1, <1>3, <1>7, <1>9, <1>10 DEF f

-------------------------------------------------------------------------------
\* What the peer manager keeps keeps the invariant, part by part.

\* the shapes of the queue, the ids and the bonds,
LEMMA KeepsFormed ==
    ASSUME NEW s, NEW t, Formed(s), Keeps(s, t) PROVE Formed(t)
<1>1. Shaped(s) /\ Shaped(t)
  BY KeepsShaped DEF Formed
<1>2. /\ Len(s.fdsq) \in Nat /\ DOMAIN s.fdsq = 1 .. Len(s.fdsq)
      /\ Len(t.fdsq) \in Nat /\ DOMAIN t.fdsq = 1 .. Len(t.fdsq)
  BY <1>1, SeqIs DEF Shaped
<1>3. ASSUME NEW k \in DOMAIN t.fdsq PROVE IsOp(t.fdsq[k])
  <2>1. CASE k \in 1 .. Len(s.fdsq)
    BY <1>2, <2>1 DEF Keeps, Formed
  <2>2. CASE k \notin 1 .. Len(s.fdsq)
    <3>1. k \in Len(s.fdsq) + 1 .. Len(t.fdsq)
      BY <1>2, <1>3, <2>2
    <3> QED BY <3>1 DEF Keeps
  <2> QED BY <2>1, <2>2
<1>4. t.bond = s.bond /\ t.used \subseteq s.used
  BY DEF Keeps, KeptFields
<1> QED BY <1>1, <1>3, <1>4 DEF Formed

\* what the events tell,
LEMMA KeepsTold ==
    ASSUME NEW s, NEW t, Told(s), Keeps(s, t) PROVE Told(t)
<1>1. t.evts = s.evts /\ t.link = s.link /\ t.sec = s.sec
  BY DEF Keeps, KeptFields
<1> QED BY <1>1 DEF Told

\* the bond of an id, done or to be done,
LEMMA KeepsBonds ==
    ASSUME NEW s, NEW t, Shaped(s), Keeps(s, t), NEW i, Bonds(s, i)
    PROVE  Bonds(t, i)
<1>1. CASE HasBond(s, i)
  BY <1>1 DEF Keeps, KeptFields, HasBond, Bonds
<1>2. CASE HasOp(s, i)
  <2>1. Shaped(t)
    BY KeepsShaped
  <2>2. /\ Len(s.fdsq) \in Nat /\ DOMAIN s.fdsq = 1 .. Len(s.fdsq)
        /\ Len(t.fdsq) \in Nat /\ DOMAIN t.fdsq = 1 .. Len(t.fdsq)
    BY <2>1, SeqIs DEF Shaped
  <2>3. PICK k \in DOMAIN s.fdsq : s.fdsq[k].op = "bond" /\ s.fdsq[k].id = i
    BY <1>2 DEF HasOp
  <2>4. k \in DOMAIN t.fdsq /\ t.fdsq[k] = s.fdsq[k]
    BY <2>2 DEF Keeps
  <2> QED BY <2>3, <2>4 DEF HasOp, Bonds
<1> QED BY <1>1, <1>2 DEF Bonds

\* the bonds of all ids,
LEMMA KeepsStored ==
    ASSUME NEW s, NEW t, Shaped(s), Keeps(s, t), Stored(s) PROVE Stored(t)
<1>1. t.gap = s.gap /\ Listed(t) \subseteq Listed(s)
  BY DEF Keeps, KeptFields
<1> QED BY <1>1, KeepsBonds DEF Stored

\* or of all but that of the pairing,
LEMMA KeepsOwned ==
    ASSUME NEW s, NEW t, Shaped(s), Keeps(s, t), Owned(s) PROVE Owned(t)
<1>1. /\ t.gap = s.gap /\ Listed(t) \subseteq Listed(s)
      /\ t.secProc = s.secProc /\ t.newPeer = s.newPeer
      /\ t.connPeer = s.connPeer \/ s.connPeer \notin Listed(t)
  BY DEF Keeps, KeptFields
<1>2. ASSUME ~t.gap, NEW i \in Listed(t)
      PROVE  Bonds(t, i) \/ (Pairs(t) /\ t.connPeer = i)
  <2>1. CASE Bonds(s, i)
    BY <2>1, KeepsBonds
  <2>2. CASE Pairs(s) /\ s.connPeer = i
    BY <1>1, <1>2, <2>2 DEF Pairs
  <2> QED BY <1>1, <1>2, <2>1, <2>2 DEF Owned
<1> QED BY <1>2 DEF Owned

\* and with them the invariant without,
LEMMA KeepsCalm ==
    ASSUME NEW s, NEW t, Calm(s), Keeps(s, t) PROVE Calm(t)
<1>1. Shaped(s)
  BY DEF Calm, Formed
<1> QED BY <1>1, KeepsFormed, KeepsTold, KeepsStored DEF Calm

\* with a pairing
LEMMA KeepsBusy ==
    ASSUME NEW s, NEW t, Busy(s), Keeps(s, t) PROVE Busy(t)
<1>1. Shaped(s)
  BY DEF Busy, Formed
<1> QED BY <1>1, KeepsFormed, KeepsTold, KeepsOwned DEF Busy

\* and as a whole
LEMMA KeepsSafe ==
    ASSUME NEW s, NEW t, Safe(s), Keeps(s, t) PROVE Safe(t)
<1>1. Busy(t)
  BY KeepsBusy DEF Safe
<1>2. /\ t.secProc = s.secProc /\ t.newPeer = s.newPeer
      /\ t.evts = s.evts /\ t.sec = s.sec
  BY DEF Keeps, KeptFields
<1> QED BY <1>1, <1>2 DEF Safe, Pairs

\* turns of the application
LEMMA TurnsSafe ==
    ASSUME NEW s, NEW t, Safe(s), Turns(PeerPart, s, t) PROVE Safe(t)
<1>1. Shaped(s)
  BY DEF Safe, Busy, Formed
<1> QED BY <1>1, TurnsKeep, KeepsSafe

\* what the peer manager knows of a procedure is of no concern without one
CalmFields == {"evts", "link", "sec", "bond", "used", "deleted", "fdsq", "gap",
               "orderRecs"}

\* these variables decide it
LEMMA CalmOf ==
    ASSUME NEW s, NEW t, Calm(s), IsState(t), \A f \in CalmFields : t[f] = s[f]
    PROVE  Calm(t)
<1>1. /\ t.evts = s.evts /\ t.link = s.link /\ t.sec = s.sec /\ t.bond = s.bond
      /\ t.used = s.used /\ t.deleted = s.deleted /\ t.fdsq = s.fdsq
      /\ t.gap = s.gap /\ t.orderRecs = s.orderRecs
  BY DEF CalmFields
<1>2. Formed(t)
  BY <1>1 DEF Calm, Formed, Shaped
<1>3. Told(t)
  BY <1>1 DEF Calm, Told
<1>4. Stored(t)
  BY <1>1 DEF Calm, Stored, Listed, Bonds, HasBond, HasOp
<1> QED BY <1>2, <1>3, <1>4 DEF Calm

\* without a pairing the invariant is the same
LEMMA CalmSafe ==
    ASSUME NEW s, Calm(s), ~Pairs(s) PROVE Safe(s)
  BY DEF Calm, Safe, Busy, Stored, Owned

\* the other way round
LEMMA BusyCalm ==
    ASSUME NEW s, Busy(s), ~Pairs(s) PROVE Calm(s)
  BY DEF Calm, Busy, Stored, Owned

\* one assignment to such a variable
LEMMA CalmAssign ==
    ASSUME NEW s, Calm(s), NEW a \in Fields \ CalmFields, NEW v
    PROVE  Calm([s EXCEPT ![a] = v]) /\ IsState([s EXCEPT ![a] = v])
<1> DEFINE t == [s EXCEPT ![a] = v]
<1>1. IsState(s)
  BY DEF Calm, Formed, Shaped
<1>2. IsState(t) /\ \A f \in Fields \ {a} : t[f] = s[f]
  BY <1>1, SetField
<1>3. \A f \in CalmFields : f \in Fields \ {a}
  BY DEF CalmFields, Fields
<1> HIDE DEF t
<1> QED BY <1>2, <1>3, CalmOf DEF t

-------------------------------------------------------------------------------
\* The stack's steps keep the invariant.

\* what the stack does not touch
FlashFields == {"bond", "used", "deleted", "fdsq", "gap", "orderRecs"}

\* one more event: one that ends a pairing when the stack is through with it,
\* none that starts something before
LEMMA AnnounceSafe ==
    ASSUME NEW s, NEW b, Safe(s), IsState(b), b.evts = s.evts,
           \A f \in FlashFields \cup {"connPeer", "secProc", "newPeer"} :
               b[f] = s[f],
           b.link \in Others, b.sec # "none" => b.link # NoDev,
           NEW id \in EventIds, NEW dev \in Others,
           id = "AUTH_BONDED" => dev # NoDev,
           s.sec \in PairingSec => b.sec \in PairingSec \/ id \in Ends,
           id \in Starts => s.sec \notin PairingSec,
           id = "SEC_PARAMS_REQUEST" => b.sec \in PairingSec
    PROVE  Safe(Event(b, id, dev))
<1> DEFINE e == [id |-> id, dev |-> dev]
           t == Event(b, id, dev)
           n == Len(s.evts)
<1>1. e \in Events /\ e.id = id /\ e.dev = dev
  BY DEF Events
<1>2. /\ IsState(t) /\ t.evts = Append(s.evts, e)
      /\ \A f \in Fields \ {"evts"} : t[f] = b[f]
  BY EventFields
<1> HIDE DEF e, t
<1>3. /\ t.link = b.link /\ t.sec = b.sec /\ t.bond = s.bond
      /\ t.used = s.used /\ t.deleted = s.deleted /\ t.fdsq = s.fdsq
      /\ t.gap = s.gap /\ t.orderRecs = s.orderRecs
      /\ t.connPeer = s.connPeer /\ t.secProc = s.secProc
      /\ t.newPeer = s.newPeer
  BY <1>2 DEF Fields, FlashFields
<1>4. Formed(s) /\ Told(s) /\ Owned(s)
  BY DEF Safe, Busy
<1>5. /\ s.evts \in Seq(Events) /\ t.evts \in Seq(Events)
      /\ n \in Nat /\ Len(t.evts) = n + 1 /\ t.evts[n + 1] = e
      /\ \A k \in 1 .. n : t.evts[k] = s.evts[k]
  BY <1>1, <1>2, <1>4 DEF Told
<1> HIDE DEF n
<1>6. ASSUME NEW j \in 0 .. n, Guarded(s.evts, s.sec, j)
      PROVE  Guarded(t.evts, t.sec, j)
  <2>1. t.sec \in PairingSec \/ e.id \in Ends \/ s.sec \notin PairingSec
    BY <1>1, <1>3
  <2> QED BY <1>1, <1>2, <1>5, <1>6, <2>1, GuardedAppend DEF n
<1>7. Formed(t)
  BY <1>2, <1>3, <1>4 DEF Formed, Shaped
<1>8. Owned(t)
  BY <1>3, <1>4 DEF Owned, Listed, Bonds, HasBond, HasOp, Pairs
<1>9. Told(t)
  <2>1. ASSUME NEW j \in 1 .. n + 1, t.evts[j].id = "SEC_PARAMS_REQUEST"
        PROVE  Guarded(t.evts, t.sec, j)
    <3>1. CASE j \in 1 .. n
      BY <1>4, <1>5, <1>6, <2>1, <3>1 DEF Told, n
    <3>2. CASE j = n + 1
      <4>1. t.sec \in PairingSec
        BY <1>1, <1>3, <1>5, <2>1, <3>2
      <4>2. \A k \in j + 1 .. n + 1 : FALSE
        BY <1>5, <3>2
      <4> QED BY <1>5, <4>1, <4>2 DEF Guarded
    <3> QED BY <1>5, <2>1, <3>1, <3>2
  <2>2. ASSUME NEW k \in 1 .. n + 1, t.evts[k].id = "AUTH_BONDED"
        PROVE  t.evts[k].dev # NoDev
    <3>1. CASE k \in 1 .. n
      BY <1>4, <1>5, <2>2, <3>1 DEF Told, n
    <3>2. CASE k = n + 1
      BY <1>1, <1>5, <2>2, <3>2
    <3> QED BY <1>5, <2>2, <3>1, <3>2
  <2> QED BY <1>3, <1>5, <2>1, <2>2 DEF Told
<1>10. Pairs(t) => Guarded(t.evts, t.sec, 0)
  <2>1. Pairs(t) => Guarded(s.evts, s.sec, 0)
    BY <1>3 DEF Pairs, Safe
  <2> QED BY <1>5, <1>6, <2>1
<1> QED BY <1>7, <1>8, <1>9, <1>10 DEF Safe, Busy, t

\* a central connects: the stack has no link and no procedure
LEMMA LinkUpSafe ==
    ASSUME NEW s, NEW d \in Devices, Safe(s), Accepts(s, d)
    PROVE  Safe(LinkUp(s, d))
<1> DEFINE b == [s EXCEPT !.radio = "off", !.link = d, !.sec = "none"]
<1>1. /\ IsState(b) /\ b.link = d /\ b.sec = "none" /\ b.evts = s.evts
      /\ \A f \in FlashFields \cup {"connPeer", "secProc", "newPeer"} : b[f] = s[f]
  BY DEF Safe, Busy, Formed, Shaped, IsState, Fields, FlashFields
<1>2. s.sec \notin PairingSec /\ d \in Others
  BY DEF Accepts, Safe, Busy, Told, PairingSec, Others
<1>3. "CONNECTED" \in EventIds
  BY DEF EventIds
<1> HIDE DEF b
<1>4. Safe(Event(b, "CONNECTED", d))
  BY <1>1, <1>2, <1>3, AnnounceSafe
<1> QED BY <1>4 DEF LinkUp, b

\* the link is lost: that ends a pairing
LEMMA LinkDownSafe ==
    ASSUME NEW s, Safe(s) PROVE Safe(LinkDown(s))
<1> DEFINE b == [s EXCEPT !.link = NoDev, !.closing = FALSE, !.sec = "none"]
<1>1. /\ IsState(b) /\ b.link = NoDev /\ b.sec = "none" /\ b.evts = s.evts
      /\ \A f \in FlashFields \cup {"connPeer", "secProc", "newPeer"} : b[f] = s[f]
  BY DEF Safe, Busy, Formed, Shaped, IsState, Fields, FlashFields
<1>2. s.link \in Others /\ NoDev \in Others
  BY DEF Safe, Busy, Told, Others
<1>3. "DISCONNECTED" \in EventIds /\ "DISCONNECTED" \in Ends /\ "DISCONNECTED" \notin Starts
  BY DEF EventIds, Ends, Starts
<1> HIDE DEF b
<1>4. Safe(Event(b, "DISCONNECTED", s.link))
  BY <1>1, <1>2, <1>3, AnnounceSafe
<1> QED BY <1>4 DEF LinkDown, b

\* the end of the advertising
LEMMA AdvertisingEndsSafe ==
    ASSUME NEW s, Safe(s) PROVE Safe(AdvertisingEnds(s))
<1> DEFINE b == [s EXCEPT !.radio = "off"]
<1>1. /\ IsState(b) /\ b.link = s.link /\ b.sec = s.sec /\ b.evts = s.evts
      /\ \A f \in FlashFields \cup {"connPeer", "secProc", "newPeer"} : b[f] = s[f]
  BY DEF Safe, Busy, Formed, Shaped, IsState, Fields, FlashFields
<1>2. s.link \in Others /\ NoDev \in Others /\ (s.sec # "none" => s.link # NoDev)
  BY DEF Safe, Busy, Told, Others
<1>3. "TIMEOUT" \in EventIds /\ "TIMEOUT" \notin Starts
  BY DEF EventIds, Starts
<1> HIDE DEF b
<1>4. Safe(Event(b, "TIMEOUT", NoDev))
  BY <1>1, <1>2, <1>3, AnnounceSafe
<1> QED BY <1>4 DEF AdvertisingEnds, b

\* an event of a security procedure
LEMMA SecurityEventSafe ==
    ASSUME NEW s, Safe(s), s.link # NoDev, NEW v, NEW id \in EventIds,
           s.sec \in PairingSec => v \in PairingSec \/ id \in Ends,
           id \in Starts => s.sec \notin PairingSec,
           id = "SEC_PARAMS_REQUEST" => v \in PairingSec
    PROVE  Safe(Event([s EXCEPT !.sec = v], id, s.link))
<1> DEFINE b == [s EXCEPT !.sec = v]
<1>1. /\ IsState(b) /\ b.link = s.link /\ b.sec = v /\ b.evts = s.evts
      /\ \A f \in FlashFields \cup {"connPeer", "secProc", "newPeer"} : b[f] = s[f]
  BY DEF Safe, Busy, Formed, Shaped, IsState, Fields, FlashFields
<1>2. s.link \in Others
  BY DEF Safe, Busy, Told
<1> HIDE DEF b
<1>3. Safe(Event(b, id, s.link))
  BY <1>1, <1>2, AnnounceSafe
<1> QED BY <1>3 DEF b

\* The world's steps.
LEMMA EnvironmentSafe ==
    ASSUME Safe(fw), Environment PROVE Safe(fw')
<1>1. ASSUME NEW s, Safe(s), Becomes(s) PROVE Safe(fw')
  BY <1>1 DEF Becomes
<1>2. ASSUME NEW d \in Devices, CentralConnects(d) PROVE Safe(fw')
  BY <1>1, <1>2, LinkUpSafe DEF CentralConnects
<1>3. CASE LinkLost
  BY <1>1, <1>3, LinkDownSafe DEF LinkLost
<1>4. CASE AdvertisingTimeout
  BY <1>1, <1>4, AdvertisingEndsSafe DEF AdvertisingTimeout
<1>5. CASE CentralPairs
  <2>1. fw.link # NoDev /\ fw.sec = "none" /\ Becomes(AskToPair(fw))
    BY <1>5 DEF CentralPairs, CanAsk
  <2>2. "SEC_PARAMS_REQUEST" \in EventIds /\ "params" \in PairingSec
        /\ "none" \notin PairingSec
    BY DEF EventIds, PairingSec
  <2>3. Safe(AskToPair(fw))
    BY <2>1, <2>2, SecurityEventSafe DEF AskToPair
  <2> QED BY <1>1, <2>1, <2>3
<1>6. CASE CentralEncrypts
  <2>1. fw.link # NoDev /\ fw.sec = "none" /\ Becomes(AskToEncrypt(fw))
    BY <1>6 DEF CentralEncrypts, CanAsk
  <2>2. "SEC_INFO_REQUEST" \in EventIds /\ "none" \notin PairingSec
    BY DEF EventIds, PairingSec
  <2>3. Safe(AskToEncrypt(fw))
    BY <2>1, <2>2, SecurityEventSafe DEF AskToEncrypt
  <2> QED BY <1>1, <2>1, <2>3
<1>7. CASE SecurityProcedureEnds
  <2>1. PICK outcome \in Outcomes(fw.sec) : Becomes(SecurityEnds(fw, outcome))
    BY <1>7 DEF SecurityProcedureEnds
  <2>2. /\ outcome \in EventIds \ Starts /\ outcome # "SEC_PARAMS_REQUEST"
        /\ fw.sec # "none" /\ (fw.sec \in PairingSec => outcome \in Ends)
    BY DEF Outcomes, EventIds, Starts, Ends, PairingSec
  <2>3. fw.link # NoDev
    BY <2>2 DEF Safe, Busy, Told
  <2>4. Safe(SecurityEnds(fw, outcome))
    BY <2>2, <2>3, SecurityEventSafe DEF SecurityEnds
  <2> QED BY <1>1, <2>1, <2>4
<1>8. CASE ScanTimeElapses
  <2> DEFINE t == [fw EXCEPT !.scanTimer = "due"]
  <2>1. Shaped(fw)
    BY DEF Safe, Busy, Formed
  <2>2. Keeps(fw, t)
    BY <2>1, KeepsRefl, KeepsAssign DEF Fields, KeptFields
  <2>3. Becomes(t)
    BY <1>8 DEF ScanTimeElapses
  <2> HIDE DEF t
  <2> QED BY <1>1, <2>2, <2>3, KeepsSafe
<1> QED BY <1>2, <1>3, <1>4, <1>5, <1>6, <1>7, <1>8 DEF Environment

-------------------------------------------------------------------------------
\* The handlers of the stack's events.

\* every id but one has a bond or will have one
CalmBut(s, id) ==
    /\ Formed(s)
    /\ Told(s)
    /\ ~s.gap => \A i \in Listed(s) : Bonds(s, i) \/ i = id

\* the event the scheduler hands to the observers, and what is left
LEMMA FetchSafe ==
    ASSUME NEW s, Safe(s), s.evts # <<>>
    PROVE  LET f == Fetch(s) IN
           /\ Busy(f) /\ IsState(f)
           /\ Head(s.evts).id \in Starts => Calm(f) /\ ~Pairs(f)
           /\ Head(s.evts).id \notin Ends => Safe(f)
           /\ Head(s.evts).id = "SEC_PARAMS_REQUEST" => Guarded(f.evts, f.sec, 0)
           /\ Head(s.evts).id = "AUTH_BONDED" => Head(s.evts).dev # NoDev
<1> DEFINE f  == Fetch(s)
           id == Head(s.evts).id
<1>1. IsState(s) /\ Told(s) /\ Formed(s) /\ Owned(s)
  BY DEF Safe, Busy, Formed, Shaped
<1>2. /\ IsState(f) /\ f.evts = Tail(s.evts)
      /\ \A x \in Fields \ {"evts"} : f[x] = s[x]
      /\ Told(f)
      /\ id = "SEC_PARAMS_REQUEST" => Guarded(f.evts, f.sec, 0)
      /\ id = "AUTH_BONDED" => Head(s.evts).dev # NoDev
  BY <1>1, FetchTold
<1> HIDE DEF f, id
<1>3. /\ f.sec = s.sec /\ f.bond = s.bond /\ f.used = s.used
      /\ f.deleted = s.deleted /\ f.fdsq = s.fdsq /\ f.gap = s.gap
      /\ f.orderRecs = s.orderRecs /\ f.connPeer = s.connPeer
      /\ f.secProc = s.secProc /\ f.newPeer = s.newPeer
  BY <1>2 DEF Fields
<1>4. Formed(f)
  BY <1>1, <1>2, <1>3 DEF Formed, Shaped
<1>5. Owned(f)
  BY <1>1, <1>3 DEF Owned, Listed, Bonds, HasBond, HasOp, Pairs
<1>6. Busy(f) /\ (Pairs(f) <=> Pairs(s))
  BY <1>2, <1>3, <1>4, <1>5 DEF Busy, Pairs
<1>7. Pairs(s) /\ id \notin Ends => Guarded(f.evts, f.sec, 0) /\ id \notin Starts
  <2> SUFFICES ASSUME Pairs(s), id \notin Ends
               PROVE  Guarded(f.evts, f.sec, 0) /\ id \notin Starts
    OBVIOUS
  <2>1. s.evts \in Seq(Events) /\ Guarded(s.evts, s.sec, 0) /\ 0 \in 0 .. Len(s.evts)
    BY <1>1 DEF Safe, Told
  <2> QED BY <1>2, <1>3, <2>1, GuardedTail DEF id
<1>8. id \in Starts => id \notin Ends
  BY DEF Starts, Ends
<1>9. id \in Starts => Calm(f) /\ ~Pairs(f)
  BY <1>6, <1>7, <1>8, BusyCalm
<1>10. id \notin Ends => Safe(f)
  BY <1>6, <1>7 DEF Safe
<1> QED BY <1>2, <1>6, <1>9, <1>10 DEF f, id

\* the one id is freed or gets its bond
LEMMA CalmButDone ==
    ASSUME NEW s, NEW t, NEW id, CalmBut(s, id), Keeps(s, t),
           id \notin Listed(t) \/ HasOp(t, id)
    PROVE  Calm(t)
<1>1. Shaped(s) /\ Formed(t) /\ Told(t)
  BY KeepsFormed, KeepsTold DEF CalmBut, Formed
<1>2. t.gap = s.gap /\ Listed(t) \subseteq Listed(s)
  BY DEF Keeps, KeptFields
<1>3. ASSUME ~t.gap, NEW i \in Listed(t) PROVE Bonds(t, i)
  <2>1. Bonds(s, i) \/ i = id
    BY <1>2, <1>3 DEF CalmBut
  <2> QED BY <1>1, <1>3, <2>1, KeepsBonds DEF Bonds
<1> QED BY <1>1, <1>3 DEF Calm, Stored

\* the same variables decide it,
LEMMA CalmButOf ==
    ASSUME NEW s, NEW t, NEW id, CalmBut(s, id), IsState(t),
           \A f \in CalmFields : t[f] = s[f]
    PROVE  CalmBut(t, id)
<1>1. /\ t.evts = s.evts /\ t.link = s.link /\ t.sec = s.sec /\ t.bond = s.bond
      /\ t.used = s.used /\ t.deleted = s.deleted /\ t.fdsq = s.fdsq
      /\ t.gap = s.gap /\ t.orderRecs = s.orderRecs
  BY DEF CalmFields
<1>2. Formed(t)
  BY <1>1 DEF CalmBut, Formed, Shaped
<1>3. Told(t)
  BY <1>1 DEF CalmBut, Told
<1> QED BY <1>1, <1>2, <1>3 DEF CalmBut, Listed, Bonds, HasBond, HasOp

\* and with a pairing it is the id of the pairing
LEMMA BusyCalmBut ==
    ASSUME NEW s, Busy(s) PROVE CalmBut(s, s.connPeer)
  BY DEF Busy, Owned, CalmBut

\* the id of the connection is freed
LEMMA FreeCalm ==
    ASSUME NEW s, NEW id, CalmBut(s, id)
    PROVE  /\ Calm(PeerFree(s, id))
           /\ PeerFree(s, id).secProc = s.secProc
           /\ PeerFree(s, id).newPeer = s.newPeer
<1>1. Shaped(s)
  BY DEF CalmBut, Formed
<1>2. id \notin Ids => PeerFree(s, id) = s /\ id \notin Listed(s)
  BY DEF PeerFree, Listed, CalmBut, Formed
<1>3. Keeps(s, PeerFree(s, id)) /\ id \notin Listed(PeerFree(s, id))
  BY <1>1, <1>2, PeerFreeKeeps
<1> QED BY <1>3, CalmButDone DEF Keeps, KeptFields

\* conn_sec_failure
LEMMA ConnSecFailureCalm ==
    ASSUME NEW s, Calm(s)
    PROVE  Calm(ConnSecFailure(s)) /\ ConnSecFailure(s).secProc = "none"
<1> DEFINE t == [s EXCEPT !.secProc = "none"]
<1>1. Calm(t) /\ IsState(t)
  BY CalmAssign DEF Fields, CalmFields
<1>2. t.secProc = "none"
  BY DEF Calm, Formed, Shaped, IsState, Fields
<1>3. ConnSecFailure(s) = AppDisconnect(t)
  BY DEF ConnSecFailure
<1> HIDE DEF t
<1>4. Shaped(t)
  BY <1>1 DEF Calm, Formed
<1>5. Keeps(t, AppDisconnect(t))
  BY <1>4, KeepsRefl, FailuresKeep
<1>6. AppDisconnect(t).secProc = "none"
  BY <1>2, <1>5 DEF Keeps, KeptFields
<1> QED BY <1>1, <1>3, <1>5, <1>6, KeepsCalm

\* link_secure_failure and pairing_failure: no pairing is left
LEMMA LinkSecureFailureCalm ==
    ASSUME NEW s, Busy(s)
    PROVE  Calm(LinkSecureFailure(s)) /\ LinkSecureFailure(s).secProc = "none"
<1>1. CASE s.secProc = "none"
  <2>1. LinkSecureFailure(s) = s /\ ~Pairs(s)
    BY <1>1 DEF LinkSecureFailure, Pairs
  <2> QED BY <1>1, <2>1, BusyCalm
<1>2. CASE s.secProc # "none" /\ Pairs(s)
  <2> DEFINE freed == PeerFree(s, s.connPeer)
  <2>1. LinkSecureFailure(s) = ConnSecFailure(freed)
    BY <1>2 DEF LinkSecureFailure, Pairs
  <2>2. Calm(freed)
    BY BusyCalmBut, FreeCalm
  <2> HIDE DEF freed
  <2> QED BY <2>1, <2>2, ConnSecFailureCalm
<1>3. CASE s.secProc # "none" /\ ~Pairs(s)
  <2>1. LinkSecureFailure(s) = ConnSecFailure(s)
    BY <1>3 DEF LinkSecureFailure, Pairs
  <2> QED BY <1>3, <2>1, BusyCalm, ConnSecFailureCalm
<1> QED BY <1>1, <1>2, <1>3

\* BLE_GAP_EVT_DISCONNECTED: whatever was going on is over
LEMMA DisconnectedSafe ==
    ASSUME NEW s, Busy(s)
    PROVE  Safe(AppDisconnected(SmdDisconnected(OnDisconnected(s))))
<1> DEFINE adv   == OnDisconnected(s)
           ended == LinkSecureFailure(adv)
           g     == [ended EXCEPT !.connPeer = PeerIdInvalid]
           t     == AppDisconnected(g)
<1>1. Shaped(s) /\ IsState(s)
  BY DEF Busy, Formed, Shaped
<1> DEFINE P == PeerPart
<1>2. /\ P \in SUBSET PeerPart /\ P \in SUBSET Parts
      /\ P \in SUBSET (PeerPart \cup NotesPart)
      /\ Turns(P, s, s)
  BY <1>1, TurnsRefl, PartsIs
<1> HIDE DEF P
<1>3. Turns(P, s, adv)
  BY <1>2, OnDisconnectedTurns
<1>4. Busy(adv)
  BY <1>1, <1>3, TurnsKeep, KeepsBusy DEF P
<1> HIDE DEF adv
<1>5. Calm(ended) /\ ended.secProc = "none"
  BY <1>4, LinkSecureFailureCalm
<1> HIDE DEF ended
<1>6. IsState(ended)
  BY <1>5 DEF Calm, Formed, Shaped
<1>7. /\ IsState(t) /\ t.secProc = "none"
      /\ \A f \in CalmFields : t[f] = ended[f]
  BY <1>5, <1>6 DEF AppDisconnected, IsState, Fields, CalmFields
<1>8. SmdDisconnected(adv) = g
  BY DEF SmdDisconnected, ended
<1> HIDE DEF t
<1>9. Calm(t)
  BY <1>5, <1>7, CalmOf
<1>10. Safe(t)
  BY <1>7, <1>9, CalmSafe DEF Pairs
<1> QED BY <1>8, <1>10 DEF t, adv

\* BLE_GAP_EVT_AUTH_STATUS without success
LEMMA AuthFailedSafe ==
    ASSUME NEW s, Busy(s) PROVE Safe(LinkSecureFailure(s))
<1>1. Calm(LinkSecureFailure(s)) /\ LinkSecureFailure(s).secProc = "none"
  BY LinkSecureFailureCalm
<1> QED BY <1>1, CalmSafe DEF Pairs

\* the application hears of a connection that is secure
LEMMA SucceededSafe ==
    ASSUME NEW s, Calm(s), s.secProc = "none" PROVE Safe(ConnSecSucceeded(s))
<1>1. Shaped(s)
  BY DEF Calm, Formed
<1> QED BY <1>1, CalmSafe, ConnSecSucceededSpares, KeepsSafe DEF Pairs, Spares

\* an error is checked or passed over
LEMMA ReplyFailedKeeps ==
    ASSUME NEW s, Shaped(s)
    PROVE  Keeps(s, ReplyFailed(s)) /\ Keeps(s, ErrorUnexpected(s))
<1>1. Keeps(s, s)
  BY KeepsRefl
<1>2. "PM_EVT_ERROR_UNEXPECTED" # NoFault
  BY DEF NoFault
<1>3. Keeps(s, ErrorUnexpected(s))
  BY <1>1, <1>2, FailuresKeep DEF ErrorUnexpected
<1> QED BY <1>1, <1>3 DEF ReplyFailed

\* so that without a pairing nothing changes
LEMMA ReplyFailedSafe ==
    ASSUME NEW s, Calm(s), ~Pairs(s)
    PROVE  Safe(ReplyFailed(s)) /\ Safe(ErrorUnexpected(s))
<1>1. Shaped(s) /\ Safe(s)
  BY CalmSafe DEF Calm, Formed
<1> QED BY <1>1, ReplyFailedKeeps, KeepsSafe

\* BLE_GAP_EVT_AUTH_STATUS, bonded
LEMMA AuthBondedSafe ==
    ASSUME NEW s, Busy(s), NEW dev, dev # NoDev PROVE Safe(AuthBonded(s, dev))
<1> DEFINE other == FindBond(s, dev)
           ended == [s EXCEPT !.secProc = "none"]
           known == [ended EXCEPT !.connPeer = other]
           put   == FdsPut(ended, "bond", s.connPeer, dev)
           freed == PeerFree(known, s.connPeer)
           none  == Return(ended, "INVALID_PARAM")
<1>1. IsState(s)
  BY DEF Busy, Formed, Shaped
<1>2. /\ IsState(ended) /\ ended.secProc = "none"
      /\ \A f \in CalmFields : ended[f] = s[f]
  BY <1>1 DEF IsState, Fields, CalmFields
<1> HIDE DEF other
<1>3. /\ IsState(known) /\ known.secProc = "none"
      /\ \A f \in CalmFields : known[f] = s[f]
  BY <1>1 DEF IsState, Fields, CalmFields
<1>4. \/ ~s.newPeer /\ AuthBonded(s, dev) = ConnSecSucceeded(known)
      \/ AuthBonded(s, dev) = ConnSecSucceeded(freed)
      \/ AuthBonded(s, dev) = ConnSecSucceeded(put)
      \/ s.connPeer \notin s.used /\ AuthBonded(s, dev) = ErrorUnexpected(none)
  BY DEF AuthBonded, other
<1> HIDE DEF ended, known
<1>5. CalmBut(s, s.connPeer)
  BY BusyCalmBut
<1>6. CalmBut(ended, s.connPeer) /\ CalmBut(known, s.connPeer)
  BY <1>2, <1>3, <1>5, CalmButOf
<1>7. Calm(put) /\ put.secProc = "none"
  <2>1. Shaped(ended)
    BY <1>6 DEF CalmBut, Formed
  <2>2. Keeps(ended, put) /\ HasOp(put, s.connPeer)
    BY <2>1, FdsPutKeeps DEF HasOp
  <2>3. put.secProc = ended.secProc
    BY <2>2 DEF Keeps, KeptFields
  <2> HIDE DEF put
  <2> QED BY <1>2, <1>6, <2>2, <2>3, CalmButDone
<1>8. Calm(freed) /\ freed.secProc = "none"
  BY <1>3, <1>6, FreeCalm
<1>9. ~s.newPeer => Calm(known)
  BY <1>3, BusyCalm, CalmOf DEF Pairs
<1>10. s.connPeer \notin s.used => Safe(ErrorUnexpected(none))
  <2>1. s.connPeer \notin s.used => Calm(ended)
    BY <1>2, <1>6 DEF CalmBut, Calm, Stored, Listed, CalmFields
  <2>2. IsState(none) /\ \A f \in Fields \ {"ret"} : none[f] = ended[f]
    BY <1>2 DEF Return, IsState, Fields
  <2>3. none.secProc = "none" /\ \A f \in CalmFields : none[f] = ended[f]
    BY <1>2, <2>2 DEF Fields, CalmFields
  <2> HIDE DEF none
  <2> QED BY <2>1, <2>2, <2>3, CalmOf, ReplyFailedSafe DEF Pairs
<1> HIDE DEF put, freed, none
<1> QED BY <1>3, <1>4, <1>7, <1>8, <1>9, <1>10, SucceededSafe

\* BLE_GAP_EVT_AUTH_STATUS, not bonded
LEMMA AuthPairedSafe ==
    ASSUME NEW s, Busy(s) PROVE Safe(AuthPaired(s))
<1> DEFINE ended == [s EXCEPT !.secProc = "none"]
           freed == PeerFree(ended, s.connPeer)
<1>1. IsState(s)
  BY DEF Busy, Formed, Shaped
<1>2. /\ IsState(ended) /\ ended.secProc = "none"
      /\ \A f \in CalmFields : ended[f] = s[f]
  BY <1>1 DEF IsState, Fields, CalmFields
<1>3. /\ s.newPeer  => AuthPaired(s) = ConnSecSucceeded(freed)
      /\ ~s.newPeer => AuthPaired(s) = ConnSecSucceeded(ended)
  BY DEF AuthPaired
<1> HIDE DEF ended
<1>4. CalmBut(ended, s.connPeer)
  BY <1>2, BusyCalmBut, CalmButOf
<1>5. Calm(freed) /\ freed.secProc = "none"
  BY <1>2, <1>4, FreeCalm
<1>6. ~s.newPeer => Calm(ended)
  BY <1>2, BusyCalm, CalmOf DEF Pairs
<1> HIDE DEF freed
<1> QED BY <1>2, <1>3, <1>5, <1>6, SucceededSafe

\* BLE_GAP_EVT_CONN_SEC_UPDATE
LEMMA ConnSecUpdateSafe ==
    ASSUME NEW s, Safe(s), NEW isEncrypted \in BOOLEAN
    PROVE  Safe(ConnSecUpdateProcess(s, isEncrypted))
<1> DEFINE ended == [s EXCEPT !.secProc = "none"]
<1>1. CASE s.secProc = "pairing"
  BY <1>1 DEF ConnSecUpdateProcess
<1>2. CASE s.secProc # "pairing"
  <2>1. Calm(s) /\ IsState(s)
    BY <1>2, BusyCalm DEF Safe, Pairs, Busy, Formed, Shaped
  <2>2. Calm(ended) /\ ended.secProc = "none"
    <3>1. /\ IsState(ended) /\ ended.secProc = "none"
          /\ \A f \in CalmFields : ended[f] = s[f]
      BY <2>1 DEF IsState, Fields, CalmFields
    <3> QED BY <2>1, <3>1, CalmOf
  <2>3. ConnSecUpdateProcess(s, isEncrypted) =
           IF isEncrypted THEN ConnSecSucceeded(ended) ELSE ConnSecFailure(s)
    BY <1>2 DEF ConnSecUpdateProcess
  <2> HIDE DEF ended
  <2>4. Safe(ConnSecSucceeded(ended))
    BY <2>2, SucceededSafe
  <2>5. Safe(ConnSecFailure(s))
    BY <2>1, ConnSecFailureCalm, CalmSafe DEF Pairs
  <2> QED BY <2>3, <2>4, <2>5
<1> QED BY <1>1, <1>2

-------------------------------------------------------------------------------
\* an answer to what the stack has asked for
LEMMA ReplyIs ==
    ASSUME NEW s, Formed(s), Told(s), NEW asked, NEW next,
           asked \in PairingSec => next \in PairingSec
    PROVE  LET r == SdSecReply(s, asked, next) IN
           /\ Formed(r) /\ Told(r)
           /\ \A f \in Fields \ {"sec", "ret"} : r[f] = s[f]
           /\ r.ret = "SUCCESS" => s.sec = asked /\ r.sec = next
<1> DEFINE r == SdSecReply(s, asked, next)
<1>1. IsState(s)
  BY DEF Formed, Shaped
<1>2. /\ IsState(r)
      /\ \A f \in Fields \ {"sec", "ret"} : r[f] = s[f]
      /\ r.sec = s.sec \/ (s.sec = asked /\ r.sec = next /\ s.link # NoDev)
      /\ r.ret = "SUCCESS" => s.sec = asked /\ r.sec = next
  <2>1. CASE s.link = NoDev
    BY <1>1, <2>1 DEF SdSecReply, Return, IsState, Fields
  <2>2. CASE s.link # NoDev /\ s.sec # asked
    BY <1>1, <2>2 DEF SdSecReply, Return, IsState, Fields
  <2>3. CASE s.link # NoDev /\ s.sec = asked
    <3>1. r = [s EXCEPT !.sec = next, !.ret = "SUCCESS"]
      BY <2>3 DEF SdSecReply
    <3> QED BY <1>1, <2>3, <3>1 DEF IsState, Fields
  <2> QED BY <2>1, <2>2, <2>3
<1> HIDE DEF r
<1>3. /\ r.evts = s.evts /\ r.link = s.link /\ r.bond = s.bond
      /\ r.used = s.used /\ r.fdsq = s.fdsq /\ r.orderRecs = s.orderRecs
  BY <1>2 DEF Fields
<1>4. Formed(r)
  BY <1>2, <1>3 DEF Formed, Shaped
<1>5. \A j : Guarded(s.evts, s.sec, j) => Guarded(r.evts, r.sec, j)
  BY <1>2, <1>3, GuardedSec
<1>6. Told(r)
  BY <1>2, <1>3, <1>5 DEF Told
<1> QED BY <1>2, <1>4, <1>6 DEF r

\* a procedure starts: the peer manager has allocated no id for it
LEMMA CalmStart ==
    ASSUME NEW s, Calm(s), NEW procedure
    PROVE  LET t == SecProcStart(s, procedure) IN
           /\ Calm(t)
           /\ t.secProc = procedure
           /\ ~t.newPeer
           /\ \A f \in Fields \ {"secProc", "newPeer"} : t[f] = s[f]
<1> DEFINE t == SecProcStart(s, procedure)
<1>1. IsState(s)
  BY DEF Calm, Formed, Shaped
<1>2. /\ IsState(t) /\ t.secProc = procedure /\ ~t.newPeer
      /\ \A f \in Fields \ {"secProc", "newPeer"} : t[f] = s[f]
  BY <1>1 DEF SecProcStart, IsState, Fields
<1> HIDE DEF t
<1>3. \A f \in CalmFields : f \in Fields \ {"secProc", "newPeer"}
  BY DEF CalmFields, Fields
<1> QED BY <1>2, <1>3, CalmOf DEF t

\* an id that is given to a new peer is one of the ids
LEMMA NewIdIs ==
    ASSUME NEW s, Unallocated(s) # {} PROVE Min(Unallocated(s)) \in Ids
<1>1. Unallocated(s) \subseteq Ids
  BY DEF Unallocated
<1>2. Ids \subseteq Nat
  BY PeerManagerAssumption
<1> QED BY <1>1, <1>2, MinIn

\* BLE_GAP_EVT_SEC_PARAMS_REQUEST: a pairing begins, or is refused
LEMMA SecParamsRequestSafe ==
    ASSUME NEW s, Calm(s), Guarded(s.evts, s.sec, 0)
    PROVE  Safe(SecParamsRequestProcess(s))
<1> DEFINE started == SecProcStart(s, "pairing")
<1>1. /\ Calm(started) /\ ~started.newPeer /\ started.secProc = "pairing"
      /\ \A f \in Fields \ {"secProc", "newPeer"} : started[f] = s[f]
  BY CalmStart
<1> DEFINE new     == Min(Unallocated(s))
           more    == [started EXCEPT !.used = @ \cup {new}]
           reply   == SdSecReply(more, "params", "pairing")
           refuse  == SdSecReply(started, "params", "rejected")
           begun   == [reply EXCEPT !.newPeer = TRUE, !.connPeer = new]
           freed   == PeerFree(reply, new)
           full    == Return(started, "INTERNAL")
<1>2. /\ s.connPeer # PeerIdInvalid => SecParamsRequestProcess(s) = ReplyFailed(refuse)
      /\ s.connPeer = PeerIdInvalid /\ Unallocated(s) = {}
            => SecParamsRequestProcess(s) = ReplyFailed(full)
      /\ s.connPeer = PeerIdInvalid /\ Unallocated(s) # {} /\ reply.ret = "SUCCESS"
            => SecParamsRequestProcess(s) = begun
      /\ s.connPeer = PeerIdInvalid /\ Unallocated(s) # {} /\ reply.ret # "SUCCESS"
            => SecParamsRequestProcess(s) = ReplyFailed(freed)
  BY DEF SecParamsRequestProcess
<1>3. started.evts = s.evts /\ started.sec = s.sec /\ started.used = s.used
  BY <1>1 DEF Fields
<1>4. /\ "params" \in PairingSec /\ "pairing" \in PairingSec
      /\ "rejected" \in PairingSec
  BY DEF PairingSec
<1> HIDE DEF started, new
<1>5. Safe(ReplyFailed(refuse))
  <2>1. Formed(started) /\ Told(started) /\ Stored(started)
    BY <1>1 DEF Calm
  <2>2. /\ Formed(refuse) /\ Told(refuse)
        /\ \A f \in Fields \ {"sec", "ret"} : refuse[f] = started[f]
    BY <1>4, <2>1, ReplyIs
  <2> HIDE DEF refuse
  <2>3. /\ ~refuse.newPeer
        /\ refuse.bond = started.bond /\ refuse.used = started.used
        /\ refuse.deleted = started.deleted /\ refuse.fdsq = started.fdsq
        /\ refuse.gap = started.gap
    BY <1>1, <2>2 DEF Fields
  <2>4. Stored(refuse)
    BY <2>1, <2>3 DEF Stored, Listed, Bonds, HasBond, HasOp
  <2>5. Calm(refuse) /\ ~Pairs(refuse)
    BY <2>2, <2>3, <2>4 DEF Calm, Pairs
  <2> QED BY <2>5, ReplyFailedSafe
<1>6. Safe(ReplyFailed(full))
  <2>1. Calm(full)
    BY <1>1, CalmAssign DEF Return, Fields, CalmFields
  <2>2. ~full.newPeer
    BY <1>1 DEF Return, Calm, Formed, Shaped, IsState, Fields
  <2> HIDE DEF full
  <2> QED BY <2>1, <2>2, ReplyFailedSafe DEF Pairs
<1>7. ASSUME Unallocated(s) # {}
      PROVE  (reply.ret = "SUCCESS" => Safe(begun)) /\ Safe(ReplyFailed(freed))
  <2>1. new \in Ids
    BY <1>7, NewIdIs DEF new
  <2>2. CalmBut(more, new) /\ ~more.newPeer /\ more.evts = s.evts
        /\ more.secProc = "pairing" /\ more.sec = s.sec
    <3>1. IsState(started)
      BY <1>1 DEF Calm, Formed, Shaped
    <3>2. /\ IsState(more) /\ more.used = started.used \cup {new}
          /\ \A f \in Fields \ {"used"} : more[f] = started[f]
      BY <3>1 DEF IsState, Fields
    <3> HIDE DEF more
    <3>3. /\ more.evts = started.evts /\ more.link = started.link
          /\ more.sec = started.sec /\ more.bond = started.bond
          /\ more.deleted = started.deleted /\ more.fdsq = started.fdsq
          /\ more.gap = started.gap /\ more.orderRecs = started.orderRecs
          /\ ~more.newPeer /\ more.secProc = "pairing"
      BY <1>1, <3>2 DEF Fields
    <3>4. Formed(more)
      BY <1>1, <2>1, <3>2, <3>3 DEF Calm, Formed, Shaped
    <3>5. Told(more)
      BY <1>1, <3>3 DEF Calm, Told
    <3>6. ASSUME ~more.gap, NEW i \in Listed(more) PROVE Bonds(more, i) \/ i = new
      <4>1. i \in Listed(started) \/ i = new
        BY <3>2, <3>3, <3>6 DEF Listed
      <4>2. i \in Listed(started) => Bonds(started, i)
        BY <1>1, <3>3, <3>6 DEF Calm, Stored
      <4> QED BY <3>3, <4>1, <4>2 DEF Bonds, HasBond, HasOp
    <3> QED BY <1>3, <3>3, <3>4, <3>5, <3>6 DEF CalmBut
  <2> HIDE DEF more
  <2>3. /\ Formed(reply) /\ Told(reply)
        /\ \A f \in Fields \ {"sec", "ret"} : reply[f] = more[f]
        /\ reply.ret = "SUCCESS" => reply.sec = "pairing"
    BY <1>4, <2>2, ReplyIs DEF CalmBut
  <2> HIDE DEF reply
  <2>4. CalmBut(reply, new) /\ ~reply.newPeer /\ reply.evts = s.evts
        /\ reply.secProc = "pairing"
    <3>1. /\ reply.bond = more.bond /\ reply.used = more.used
          /\ reply.deleted = more.deleted /\ reply.fdsq = more.fdsq
          /\ reply.gap = more.gap /\ ~reply.newPeer
          /\ reply.evts = s.evts /\ reply.secProc = "pairing"
      BY <2>2, <2>3 DEF Fields
    <3> QED BY <2>2, <2>3, <3>1 DEF CalmBut, Listed, Bonds, HasBond, HasOp
  <2>5. Safe(ReplyFailed(freed))
    <3>1. Calm(freed) /\ ~freed.newPeer
      BY <2>4, FreeCalm
    <3> HIDE DEF freed
    <3> QED BY <3>1, ReplyFailedSafe DEF Pairs
  <2>6. ASSUME reply.ret = "SUCCESS" PROVE Safe(begun)
    <3>1. IsState(reply)
      BY <2>3 DEF Formed, Shaped
    <3>2. /\ IsState(begun) /\ begun.newPeer = TRUE /\ begun.connPeer = new
          /\ begun.secProc = "pairing" /\ begun.sec = "pairing"
          /\ begun.evts = s.evts
          /\ \A f \in CalmFields : begun[f] = reply[f]
      BY <2>3, <2>4, <2>6, <3>1 DEF IsState, Fields, CalmFields
    <3> HIDE DEF begun
    <3>3. CalmBut(begun, new)
      BY <2>4, <3>2, CalmButOf
    <3>4. Pairs(begun)
      BY <3>2 DEF Pairs
    <3>5. Guarded(begun.evts, begun.sec, 0)
      BY <1>4, <3>2, GuardedSec
    <3> QED BY <3>2, <3>3, <3>4, <3>5 DEF CalmBut, Safe, Busy, Owned
  <2> QED BY <2>5, <2>6
<1> HIDE DEF refuse, full, begun, freed, reply
<1> QED BY <1>2, <1>5, <1>6, <1>7

\* BLE_GAP_EVT_SEC_INFO_REQUEST
LEMMA SecInfoRequestSafe ==
    ASSUME NEW s, Calm(s), NEW dev
    PROVE  Safe(SecInfoRequestProcess(s, dev))
<1> DEFINE byKey   == FindBond(s, dev)
           peer    == IF byKey = PeerIdInvalid THEN s.connPeer ELSE byKey
           here    == [s EXCEPT !.connPeer = peer]
           started == SecProcStart(here, "encryption")
           next    == IF HasBond(s, peer) THEN "encrypting" ELSE "none"
           reply   == SdSecReply(started, "info", next)
<1>1. \/ SecInfoRequestProcess(s, dev) = ErrorUnexpected(reply)
      \/ SecInfoRequestProcess(s, dev) = reply
      \/ SecInfoRequestProcess(s, dev) = ConnSecFailure(reply)
  BY DEF SecInfoRequestProcess
<1> HIDE DEF peer, next
<1>2. Calm(here)
  BY CalmAssign DEF Fields, CalmFields
<1> HIDE DEF here
<1>3. Calm(started) /\ started.secProc = "encryption"
  BY <1>2, CalmStart
<1> HIDE DEF started
<1>4. "info" \notin PairingSec
  BY DEF PairingSec
<1>5. /\ Formed(reply) /\ Told(reply)
      /\ \A f \in Fields \ {"sec", "ret"} : reply[f] = started[f]
  BY <1>3, <1>4, ReplyIs DEF Calm
<1> HIDE DEF reply
<1>6. /\ reply.bond = started.bond /\ reply.used = started.used
      /\ reply.deleted = started.deleted /\ reply.fdsq = started.fdsq
      /\ reply.gap = started.gap /\ reply.secProc = "encryption"
  BY <1>3, <1>5 DEF Fields
<1>7. Calm(reply) /\ ~Pairs(reply)
  BY <1>3, <1>5, <1>6 DEF Calm, Stored, Listed, Bonds, HasBond, HasOp, Pairs
<1>8. Safe(ConnSecFailure(reply))
  BY <1>7, ConnSecFailureCalm, CalmSafe DEF Pairs
<1> QED BY <1>1, <1>7, <1>8, CalmSafe, ReplyFailedSafe

\* BLE_GAP_EVT_CONNECTED: no pairing is going on, for its flag is cleared
LEMMA ConnectedSafe ==
    ASSUME NEW s, Calm(s), NEW dev
    PROVE  Safe(AppConnected(ImConnected(s, dev)))
<1> DEFINE P == PeerPart
<1>1. /\ P \in SUBSET PeerPart /\ P \in SUBSET Parts
      /\ P \in SUBSET (PeerPart \cup NotesPart)
      /\ \A t : IsState(t) => Turns(P, t, t)
  BY TurnsRefl, PartsIs
<1>2. \A t, u : Safe(t) /\ Turns(P, t, u) => Safe(u)
  BY TurnsSafe
<1> HIDE DEF P
<1>3. ASSUME NEW t, IsState(t), \A f \in CalmFields : t[f] = s[f],
             t.newPeer = FALSE
      PROVE  Safe(t)
  <2>1. Calm(t)
    BY <1>3, CalmOf
  <2> QED BY <1>3, <2>1, CalmSafe DEF Pairs
<1>4. ASSUME NEW t, Safe(t) PROVE Safe(AppConnected(t))
  <2> DEFINE here == [t EXCEPT !.connHandle = TRUE]
             made == [here EXCEPT !.isRealAdv = FALSE, !.connectState = "CONNECT"]
  <2>1. IsState(t) /\ Shaped(t)
    BY <1>4 DEF Safe, Busy, Formed, Shaped
  <2>2. AppConnected(t) = here \/ AppConnected(t) = ProcConnect(made)
    BY DEF AppConnected
  <2>3. Keeps(t, here)
    BY <2>1, KeepsRefl, KeepsAssign DEF Fields, KeptFields
  <2>4. Keeps(t, made)
    <3>1. /\ IsState(made)
          /\ \A f \in KeptFields \cup {"used", "deleted", "fdsq", "connPeer"} :
                made[f] = t[f]
      BY <2>1 DEF IsState, Fields, KeptFields
    <3> HIDE DEF made
    <3> QED BY <2>1, <3>1, SameKeeps
  <2> HIDE DEF here, made
  <2>5. Safe(here) /\ Safe(made) /\ IsState(made)
    BY <1>4, <2>3, <2>4, KeepsSafe DEF Keeps
  <2>6. Safe(ProcConnect(made))
    BY <1>1, <1>2, <2>5, ProcConnectTurns
  <2> QED BY <2>2, <2>5, <2>6
<1> DEFINE id    == FindBond(s, dev)
           new   == [s EXCEPT !.newPeer = FALSE, !.connPeer = id]
           known == [new EXCEPT !.isPrevConn   = TRUE,
                                !.isRealAdv    = FALSE,
                                !.connectState = "CONNECT"]
<1>5. IsState(s)
  BY DEF Calm, Formed, Shaped
<1>6. \/ ImConnected(s, dev) = new
      \/ ImConnected(s, dev) = StartConnect(known, new.connPeer)
  BY DEF ImConnected, RecordPurgeDisconnected, BondedPeerConnected
<1> HIDE DEF id
<1>7. /\ IsState(new) /\ (\A f \in CalmFields : new[f] = s[f])
      /\ new.newPeer = FALSE
  BY <1>5 DEF IsState, Fields, CalmFields
<1>8. /\ IsState(known) /\ (\A f \in CalmFields : known[f] = s[f])
      /\ known.newPeer = FALSE
  <2> HIDE DEF new
  <2> QED BY <1>7 DEF IsState, Fields, CalmFields
<1> HIDE DEF new, known
<1>9. Safe(new) /\ Safe(known)
  BY <1>3, <1>7, <1>8
<1>10. Safe(StartConnect(known, new.connPeer))
  BY <1>1, <1>2, <1>8, <1>9, StartConnectTurns
<1> QED BY <1>4, <1>6, <1>9, <1>10

-------------------------------------------------------------------------------
\* The flash.  The operation that is being done stays at the head of the queue
\* until the handlers of its end are through.

\* an operation is being done
Working(s) ==
    /\ Shaped(s)
    /\ DOMAIN s.bond = Ids
    /\ s.used \subseteq Ids
    /\ s.fdsq # <<>>
    /\ s.fdsq[1].op = "done"
    /\ \A k \in 2 .. Len(s.fdsq) : IsOp(s.fdsq[k])

\* Safe but for the ids in X, whose bond was the operation at the head
Doing(s, X) ==
    /\ Working(s)
    /\ Told(s)
    /\ Pairs(s) => Guarded(s.evts, s.sec, 0)
    /\ ~s.gap => \A i \in Listed(s) \ X :
                    Bonds(s, i) \/ (Pairs(s) /\ s.connPeer = i)

\* lists made place by place
LEMMA MadeIs ==
    ASSUME NEW n \in Nat, NEW r, r = [k \in 1 .. n |-> r[k]]
    PROVE  IsSeq(r) /\ Len(r) = n
<1> DEFINE T == {r[k] : k \in 1 .. n}
<1>1. r \in [1 .. n -> T]
  OBVIOUS
<1> HIDE DEF T
<1>2. r \in Seq(T) /\ Len(r) = n
  BY <1>1
<1> QED BY <1>2 DEF IsSeq

\* a list without its first element
LEMMA TailIs ==
    ASSUME NEW q, IsSeq(q), q # <<>>
    PROVE  /\ IsSeq(Tail(q)) /\ Len(Tail(q)) = Len(q) - 1
           /\ Len(q) \in Nat /\ Len(q) >= 1 /\ Head(q) = q[1]
           /\ \A k \in 1 .. Len(q) - 1 : Tail(q)[k] = q[k + 1]
<1>1. PICK S : q \in Seq(S)
  BY DEF IsSeq
<1>2. Tail(q) \in Seq(S)
  BY <1>1
<1> QED BY <1>1, <1>2 DEF IsSeq

\* what the peer manager does meanwhile
LEMMA DoingKeeps ==
    ASSUME NEW s, NEW t, NEW X, Doing(s, X), Keeps(s, t) PROVE Doing(t, X)
<1>1. Shaped(s) /\ Shaped(t)
  BY KeepsShaped DEF Doing, Working
<1>2. /\ Len(s.fdsq) \in Nat /\ Len(t.fdsq) \in Nat /\ Len(s.fdsq) <= Len(t.fdsq)
      /\ Len(s.fdsq) >= 1
  BY <1>1, SeqIs, TailIs DEF Shaped, Keeps, Doing, Working
<1>3. t.fdsq # <<>> /\ t.fdsq[1].op = "done"
  <2>1. 1 \in 1 .. Len(s.fdsq)
    BY <1>2
  <2>2. t.fdsq[1] = s.fdsq[1]
    BY <2>1 DEF Keeps
  <2>3. Len(<<>>) = 0
    OBVIOUS
  <2> QED BY <1>2, <2>2, <2>3 DEF Doing, Working
<1>4. ASSUME NEW k \in 2 .. Len(t.fdsq) PROVE IsOp(t.fdsq[k])
  <2>1. CASE k <= Len(s.fdsq)
    <3>1. k \in 2 .. Len(s.fdsq) /\ k \in 1 .. Len(s.fdsq)
      BY <1>2, <2>1
    <3> QED BY <3>1 DEF Keeps, Doing, Working
  <2>2. CASE ~(k <= Len(s.fdsq))
    <3>1. k \in Len(s.fdsq) + 1 .. Len(t.fdsq)
      BY <1>2, <2>2
    <3> QED BY <3>1 DEF Keeps
  <2> QED BY <2>1, <2>2
<1>5. /\ t.bond = s.bond /\ t.used \subseteq s.used /\ t.gap = s.gap
      /\ Listed(t) \subseteq Listed(s) /\ t.evts = s.evts /\ t.sec = s.sec
      /\ t.secProc = s.secProc /\ t.newPeer = s.newPeer
      /\ t.connPeer = s.connPeer \/ s.connPeer \notin Listed(t)
  BY DEF Keeps, KeptFields
<1>6. Working(t)
  BY <1>1, <1>3, <1>4, <1>5 DEF Working, Doing
<1>7. Told(t)
  BY KeepsTold DEF Doing
<1>8. ASSUME ~t.gap, NEW i \in Listed(t) \ X
      PROVE  Bonds(t, i) \/ (Pairs(t) /\ t.connPeer = i)
  <2>1. CASE Bonds(s, i)
    BY <1>1, <2>1, KeepsBonds
  <2>2. CASE Pairs(s) /\ s.connPeer = i
    BY <1>5, <1>8, <2>2 DEF Pairs
  <2> QED BY <1>5, <1>8, <2>1, <2>2 DEF Doing
<1>9. Pairs(t) => Guarded(t.evts, t.sec, 0)
  BY <1>5 DEF Doing, Pairs
<1> QED BY <1>6, <1>7, <1>8, <1>9 DEF Doing

\* the operation leaves the queue
LEMMA DoneSafe ==
    ASSUME NEW s, Doing(s, {})
    PROVE  Safe([s EXCEPT !.fdsq = Tail(@)])
<1> DEFINE q == Tail(s.fdsq)
           t == [s EXCEPT !.fdsq = q]
           n == Len(s.fdsq)
<1>1. /\ IsSeq(q) /\ Len(q) = n - 1 /\ n \in Nat /\ n >= 1
      /\ \A k \in 1 .. n - 1 : q[k] = s.fdsq[k + 1]
      /\ DOMAIN s.fdsq = 1 .. n /\ DOMAIN q = 1 .. n - 1
  BY TailIs, SeqIs DEF Doing, Working, Shaped
<1> HIDE DEF q
<1>2. /\ IsState(t) /\ t.fdsq = q
      /\ \A f \in Fields \ {"fdsq"} : t[f] = s[f]
  BY DEF Doing, Working, Shaped, IsState, Fields
<1> HIDE DEF t
<1>3. /\ t.evts = s.evts /\ t.link = s.link /\ t.sec = s.sec /\ t.bond = s.bond
      /\ t.used = s.used /\ t.deleted = s.deleted /\ t.gap = s.gap
      /\ t.orderRecs = s.orderRecs /\ t.connPeer = s.connPeer
      /\ t.secProc = s.secProc /\ t.newPeer = s.newPeer
  BY <1>2 DEF Fields
<1>4. ASSUME NEW k \in 1 .. n - 1 PROVE IsOp(q[k])
  <2>1. k + 1 \in 2 .. n
    BY <1>1
  <2> QED BY <1>1, <2>1 DEF Doing, Working, n
<1>5. Formed(t)
  BY <1>1, <1>2, <1>3, <1>4 DEF Formed, Shaped, Doing, Working
<1>6. Told(t)
  BY <1>3 DEF Told, Doing
<1>7. ASSUME NEW i, Bonds(s, i) PROVE Bonds(t, i)
  <2>1. CASE HasBond(s, i)
    BY <1>3, <2>1 DEF HasBond, Bonds
  <2>2. CASE HasOp(s, i)
    <3>1. PICK k \in 1 .. n : s.fdsq[k].op = "bond" /\ s.fdsq[k].id = i
      BY <1>1, <2>2 DEF HasOp
    <3>2. k # 1
      BY <3>1 DEF Doing, Working
    <3>3. k - 1 \in 1 .. n - 1 /\ (k - 1) + 1 = k
      BY <1>1, <3>1, <3>2
    <3>4. q[k - 1] = s.fdsq[k]
      BY <1>1, <3>3
    <3> QED BY <1>1, <1>2, <3>1, <3>3, <3>4 DEF HasOp, Bonds
  <2> QED BY <1>7, <2>1, <2>2 DEF Bonds
<1>8. Owned(t)
  BY <1>3, <1>7 DEF Doing, Owned, Listed, Pairs
<1>9. Pairs(t) => Guarded(t.evts, t.sec, 0)
  BY <1>3 DEF Doing, Pairs
<1> QED BY <1>5, <1>6, <1>8, <1>9 DEF Safe, Busy, t, q

\* what the first operation is for
Writes(op) == IF op.op = "bond" THEN {op.id} ELSE {}

\* the flash takes it up
LEMMA TakenDoing ==
    ASSUME NEW s, Safe(s), s.fdsq # <<>>
    PROVE  Doing([s EXCEPT !.fdsq[1].op = "done"], Writes(Head(s.fdsq)))
           /\ IsOp(Head(s.fdsq))
<1> DEFINE q == [s.fdsq EXCEPT ![1].op = "done"]
           t == [s EXCEPT !.fdsq = q]
           n == Len(s.fdsq)
           x == Head(s.fdsq)
<1>1. Shaped(s) /\ Formed(s) /\ Told(s) /\ Owned(s)
  BY DEF Safe, Busy, Formed
<1>2. /\ n \in Nat /\ n >= 1 /\ DOMAIN s.fdsq = 1 .. n /\ x = s.fdsq[1]
  BY <1>1, TailIs, SeqIs DEF Shaped
<1> HIDE DEF n
<1>3. IsOp(x)
  BY <1>1, <1>2 DEF Formed
<1>4. /\ q = [k \in 1 .. n |-> q[k]]
      /\ q[1].op = "done"
      /\ \A k \in 2 .. n : q[k] = s.fdsq[k]
  <2> DEFINE y == [x EXCEPT !.op = "done"]
  <2>1. q = [k \in 1 .. n |-> IF k = 1 THEN y ELSE s.fdsq[k]]
    BY <1>2
  <2>2. y.op = "done"
    BY <1>3 DEF IsOp
  <2> HIDE DEF q, x, y
  <2> QED BY <1>2, <2>1, <2>2
<1> HIDE DEF q, x
<1>5. IsSeq(q) /\ Len(q) = n /\ DOMAIN q = 1 .. n
  BY <1>2, <1>4, MadeIs
<1>6. /\ IsState(t) /\ t.fdsq = q
      /\ \A f \in Fields \ {"fdsq"} : t[f] = s[f]
  BY <1>1 DEF Shaped, IsState, Fields
<1>7. t = [s EXCEPT !.fdsq[1].op = "done"]
  BY DEF q
<1> HIDE DEF t
<1>8. /\ t.evts = s.evts /\ t.link = s.link /\ t.sec = s.sec /\ t.bond = s.bond
      /\ t.used = s.used /\ t.deleted = s.deleted /\ t.gap = s.gap
      /\ t.orderRecs = s.orderRecs /\ t.connPeer = s.connPeer
      /\ t.secProc = s.secProc /\ t.newPeer = s.newPeer
  BY <1>6 DEF Fields
<1>9. Working(t)
  <2>1. q # <<>>
    BY <1>2, <1>5
  <2>2. \A k \in 2 .. n : k \in 1 .. n
    BY <1>2
  <2> QED BY <1>1, <1>2, <1>4, <1>5, <1>6, <1>8, <2>1, <2>2
          DEF Working, Formed, Shaped
<1>10. Told(t)
  BY <1>1, <1>8 DEF Told
<1>11. Pairs(t) => Guarded(t.evts, t.sec, 0)
  BY <1>8 DEF Safe, Pairs
<1>12. ASSUME ~t.gap, NEW i \in Listed(t) \ Writes(x)
       PROVE  Bonds(t, i) \/ (Pairs(t) /\ t.connPeer = i)
  <2>1. CASE HasBond(s, i)
    BY <1>8, <2>1 DEF HasBond, Bonds
  <2>2. CASE HasOp(s, i)
    <3>1. PICK k \in 1 .. n : s.fdsq[k].op = "bond" /\ s.fdsq[k].id = i
      BY <1>2, <2>2 DEF HasOp
    <3>2. k # 1
      BY <1>2, <1>12, <3>1 DEF Writes
    <3>3. k \in 2 .. n
      BY <1>2, <3>2
    <3>4. k \in DOMAIN t.fdsq /\ t.fdsq[k] = s.fdsq[k]
      BY <1>4, <1>5, <1>6, <3>3
    <3> QED BY <3>1, <3>4 DEF HasOp, Bonds
  <2>3. CASE Pairs(s) /\ s.connPeer = i
    BY <1>8, <2>3 DEF Pairs
  <2> QED BY <1>1, <1>8, <1>12, <2>1, <2>2, <2>3 DEF Owned, Listed, Bonds
<1> QED BY <1>3, <1>7, <1>9, <1>10, <1>11, <1>12 DEF Doing, x

-------------------------------------------------------------------------------
\* A change of the flash and of the order records that takes no bond from an id
\* on the list, but for those in X, leaves all as it was.
LEMMA DoingOf ==
    ASSUME NEW s, NEW t, NEW X, NEW Y, Doing(s, X), Working(t),
           \A f \in {"evts", "link", "sec", "connPeer", "secProc", "newPeer"} :
               t[f] = s[f],
           ~t.gap => ~s.gap,
           \A i \in Listed(t) \ Y :
               i \in Listed(s) /\ (Bonds(s, i) \/ i \in X => Bonds(t, i))
    PROVE  Doing(t, Y)
<1>1. /\ t.evts = s.evts /\ t.link = s.link /\ t.sec = s.sec
      /\ t.connPeer = s.connPeer /\ t.secProc = s.secProc
      /\ t.newPeer = s.newPeer
  OBVIOUS
<1>2. Told(t)
  BY <1>1 DEF Doing, Told
<1>3. Pairs(t) => Guarded(t.evts, t.sec, 0)
  BY <1>1 DEF Doing, Pairs
<1>4. ASSUME ~t.gap, NEW i \in Listed(t) \ Y
      PROVE  Bonds(t, i) \/ (Pairs(t) /\ t.connPeer = i)
  BY <1>1, <1>4 DEF Doing, Pairs
<1> QED BY <1>2, <1>3, <1>4 DEF Doing

\* a bonding record has been written
LEMMA BondDoing ==
    ASSUME NEW s, NEW op, IsOp(op), op.op = "bond", Doing(s, {op.id})
    PROVE  Doing(Visible(s, [s EXCEPT !.bond[op.id] = op.dev]), {})
<1> DEFINE b == [s.bond EXCEPT ![op.id] = op.dev]
           t == [s EXCEPT !.bond = b]
<1>1. CASE s.gap
  BY <1>1 DEF Visible, Doing
<1>2. CASE ~s.gap
  <2>1. IsState(s) /\ DOMAIN s.bond = Ids
    BY DEF Doing, Working, Shaped
  <2>2. /\ DOMAIN b = Ids
        /\ \A i \in Ids : i # op.id => b[i] = s.bond[i]
        /\ op.id \in Ids => b[op.id] = op.dev
    BY <2>1
  <2> HIDE DEF b
  <2>3. IsState(t) /\ t.bond = b /\ \A f \in Fields \ {"bond"} : t[f] = s[f]
    BY <2>1 DEF IsState, Fields
  <2>4. Visible(s, [s EXCEPT !.bond[op.id] = op.dev]) = t
    BY <1>2 DEF Visible, b
  <2> HIDE DEF t
  <2>5. /\ t.used = s.used /\ t.deleted = s.deleted /\ t.fdsq = s.fdsq
        /\ t.orderRecs = s.orderRecs /\ t.gap = s.gap
        /\ \A f \in {"evts", "link", "sec", "connPeer", "secProc", "newPeer"} :
              t[f] = s[f]
    BY <2>3 DEF Fields
  <2>6. Working(t)
    BY <2>2, <2>3, <2>5 DEF Doing, Working, Shaped
  <2>7. Listed(t) = Listed(s) /\ Listed(t) \subseteq Ids
    BY <2>5 DEF Listed, Doing, Working
  <2>8. op.dev # NoDev
    BY DEF IsOp
  <2>9. ASSUME NEW i \in Listed(t), Bonds(s, i) \/ i = op.id PROVE Bonds(t, i)
    BY <2>2, <2>3, <2>5, <2>7, <2>8, <2>9 DEF Bonds, HasBond, HasOp
  <2> QED BY <2>4, <2>5, <2>6, <2>7, <2>9, DoingOf
<1> QED BY <1>1, <1>2

\* a file has been deleted, and the next is looked for
LEMMA DeleteDoing ==
    ASSUME NEW s, NEW id, Doing(s, {})
    PROVE  Doing(PeerDeleted([s EXCEPT !.bond[id] = NoDev], id), {})
<1> DEFINE b == [s.bond EXCEPT ![id] = NoDev]
           u == s.used \ {id}
           d == s.deleted \ {id}
           c == [s EXCEPT !.bond = b]
           t == [c EXCEPT !.used = u, !.deleted = d]
<1>1. IsState(s) /\ DOMAIN s.bond = Ids
  BY DEF Doing, Working, Shaped
<1>2. DOMAIN b = Ids /\ \A i \in Ids : i # id => b[i] = s.bond[i]
  BY <1>1
<1>3. PeerDeleted([s EXCEPT !.bond[id] = NoDev], id) = PeerDataDelete(t)
  <2>1. c = [s EXCEPT !.bond[id] = NoDev]
    OBVIOUS
  <2>2. c.used = s.used /\ c.deleted = s.deleted
    BY <1>1 DEF IsState, Fields
  <2> HIDE DEF c
  <2> QED BY <2>1, <2>2 DEF PeerDeleted
<1> HIDE DEF b, u, d
<1>4. /\ IsState(t) /\ t.bond = b /\ t.used = u /\ t.deleted = d
      /\ \A f \in Fields \ {"bond", "used", "deleted"} : t[f] = s[f]
  BY <1>1 DEF IsState, Fields
<1> HIDE DEF t
<1>5. /\ t.fdsq = s.fdsq /\ t.orderRecs = s.orderRecs /\ t.gap = s.gap
      /\ \A f \in {"evts", "link", "sec", "connPeer", "secProc", "newPeer"} :
            t[f] = s[f]
  BY <1>4 DEF Fields
<1>6. Working(t)
  BY <1>2, <1>4, <1>5 DEF Doing, Working, Shaped, u
<1>7. \A i \in Listed(t) : i \in Listed(s) /\ i # id
  BY <1>4 DEF Listed, u, d
<1>8. ASSUME NEW i \in Listed(t), Bonds(s, i) PROVE Bonds(t, i)
  BY <1>2, <1>4, <1>5, <1>7, <1>8 DEF Bonds, HasBond, HasOp
<1>9. Doing(t, {})
  BY <1>5, <1>6, <1>7, <1>8, DoingOf
<1>10. Keeps(t, PeerDataDelete(t))
  BY <1>6, PeerDataDeleteKeeps DEF Working
<1> QED BY <1>3, <1>9, <1>10, DoingKeeps

\* the order has been written
LEMMA OrderDoing ==
    ASSUME NEW s, Doing(s, {})
    PROVE  Doing(Visible(s, [s EXCEPT !.orderRecs = Append(@, s.deviceOrder)]), {})
<1> DEFINE recs == Append(s.orderRecs, s.deviceOrder)
           t    == [s EXCEPT !.orderRecs = recs]
<1>1. IsState(s) /\ IsSeq(s.orderRecs)
  BY DEF Doing, Working, Shaped
<1>2. IsSeq(recs)
  BY <1>1, AppendIs
<1> HIDE DEF recs
<1>3. IsState(t) /\ t.orderRecs = recs /\ \A f \in Fields \ {"orderRecs"} : t[f] = s[f]
  BY <1>1 DEF IsState, Fields
<1>4. Visible(s, [s EXCEPT !.orderRecs = Append(@, s.deviceOrder)]) \in {s, t}
  BY DEF Visible, recs
<1> HIDE DEF t
<1>5. /\ t.used = s.used /\ t.deleted = s.deleted /\ t.fdsq = s.fdsq
      /\ t.bond = s.bond /\ t.gap = s.gap
      /\ \A f \in {"evts", "link", "sec", "connPeer", "secProc", "newPeer"} :
            t[f] = s[f]
  BY <1>3 DEF Fields
<1>6. Working(t)
  BY <1>2, <1>3, <1>5 DEF Doing, Working, Shaped
<1>7. \A i \in Listed(t) : i \in Listed(s) /\ (Bonds(s, i) => Bonds(t, i))
  BY <1>5 DEF Listed, Bonds, HasBond, HasOp
<1>8. Doing(t, {})
  BY <1>5, <1>6, <1>7, DoingOf
<1> QED BY <1>4, <1>8

\* a record to delete is gone: of the operations that fail behind it none is a
\* bond, or the interrupt that finds the scheduler full resets
LEMMA NotFoundDoing ==
    ASSUME NEW s, Doing(s, {}) PROVE Doing(OrderNotFound(s), {})
<1> DEFINE behind == {op.op : op \in Range(Tail(s.fdsq))}
           q      == <<Head(s.fdsq)>>
           g      == s.gap \/ "order" \in behind
           stop   == [s EXCEPT !.fault = "queue_process"]
           t      == [s EXCEPT !.fdsq = q, !.gap = g]
<1>1. Shaped(s) /\ IsState(s) /\ DOMAIN s.bond = Ids
  BY DEF Doing, Working, Shaped
<1>2. Keeps(s, stop)
  BY <1>1, KeepsRefl, KeepsAssign DEF Fields, KeptFields
<1> HIDE DEF stop
<1>3. Doing(stop, {})
  BY <1>2, DoingKeeps
<1>4. \/ OrderNotFound(s) = stop
      \/ "bond" \notin behind /\ OrderNotFound(s) = t
  BY DEF OrderNotFound, stop
<1>5. ASSUME "bond" \notin behind PROVE Doing(t, {})
  <2>1. /\ Len(s.fdsq) \in Nat /\ Len(s.fdsq) >= 1 /\ Head(s.fdsq) = s.fdsq[1]
        /\ IsSeq(Tail(s.fdsq)) /\ Len(Tail(s.fdsq)) = Len(s.fdsq) - 1
        /\ \A k \in 1 .. Len(s.fdsq) - 1 : Tail(s.fdsq)[k] = s.fdsq[k + 1]
        /\ DOMAIN s.fdsq = 1 .. Len(s.fdsq)
        /\ DOMAIN Tail(s.fdsq) = 1 .. Len(s.fdsq) - 1
    BY <1>1, TailIs, SeqIs DEF Shaped, Doing, Working
  <2>2. \A k \in DOMAIN Tail(s.fdsq) : Tail(s.fdsq)[k].op \in behind
    BY DEF Range
  <2> HIDE DEF behind, g
  <2>3. ASSUME NEW i PROVE ~HasOp(s, i)
    <3> SUFFICES ASSUME NEW k \in 1 .. Len(s.fdsq), s.fdsq[k].op = "bond" PROVE FALSE
      BY <2>1 DEF HasOp
    <3>1. k # 1
      BY DEF Doing, Working
    <3>2. k - 1 \in 1 .. Len(s.fdsq) - 1 /\ (k - 1) + 1 = k
      BY <2>1, <3>1
    <3> QED BY <1>5, <2>1, <2>2, <3>2
  <2>4. /\ IsSeq(q) /\ Len(q) = 1 /\ q # <<>> /\ q[1] = s.fdsq[1]
    <3>1. q \in Seq({Head(s.fdsq)})
      OBVIOUS
    <3> QED BY <2>1, <3>1 DEF IsSeq
  <2> HIDE DEF q
  <2>5. /\ IsState(t) /\ t.fdsq = q /\ t.gap = g
        /\ \A f \in Fields \ {"fdsq", "gap"} : t[f] = s[f]
    BY <1>1 DEF IsState, Fields
  <2> HIDE DEF t
  <2>6. /\ t.used = s.used /\ t.deleted = s.deleted /\ t.bond = s.bond
        /\ t.orderRecs = s.orderRecs
        /\ \A f \in {"evts", "link", "sec", "connPeer", "secProc", "newPeer"} :
              t[f] = s[f]
    BY <2>5 DEF Fields
  <2>7. Working(t)
    <3>1. \A k \in 2 .. 1 : FALSE
      OBVIOUS
    <3> QED BY <2>4, <2>5, <2>6, <3>1 DEF Doing, Working, Shaped
  <2>8. \A i \in Listed(t) : i \in Listed(s) /\ (Bonds(s, i) => Bonds(t, i))
    BY <2>3, <2>6 DEF Listed, Bonds, HasBond
  <2>9. ~t.gap => ~s.gap
    BY <2>5 DEF g
  <2> QED BY <2>6, <2>7, <2>8, <2>9, DoingOf
<1> HIDE DEF t, behind
<1> QED BY <1>3, <1>4, <1>5

\* a list without one of its elements
LEMMA RemovedIs ==
    ASSUME NEW q, IsSeq(q), NEW pos \in Nat \ {0} PROVE IsSeq(RemoveAt(q, pos))
<1>1. PICK S : q \in Seq(S)
  BY DEF IsSeq
<1> DEFINE T == {q[i] : i \in Nat}
           m == pos - 1
<1>2. Len(q) \in Nat /\ m \in Nat /\ \A i \in Nat : q[i] \in T
  BY <1>1
<1> HIDE DEF T, m
<1>3. SubSeq(q, 1, m) \in Seq(T)
  BY <1>1, <1>2
<1>4. q \in Seq(T)
  BY <1>1, <1>2
<1>5. SubSeq(q, pos + 1, Len(q)) \in Seq(T)
  BY <1>2, <1>4
<1>6. RemoveAt(q, pos) \in Seq(T)
  BY <1>3, <1>5 DEF RemoveAt, m
<1> QED BY <1>6 DEF IsSeq

\* the operations that are left, after a record is gone
LEMMA RenumberedIs ==
    ASSUME NEW x, NEW pos \in Nat
    PROVE  /\ x.op # "unorder" => Renumbered(x, pos) = x
           /\ IsOp(x) => /\ IsOp(Renumbered(x, pos))
                         /\ Renumbered(x, pos).op = x.op
<1>1. x.op # "unorder" => Renumbered(x, pos) = x
  BY DEF Renumbered
<1>2. ASSUME IsOp(x), x.op = "unorder"
      PROVE  IsOp(Renumbered(x, pos)) /\ Renumbered(x, pos).op = x.op
  <2>1. x = [op |-> x.op, id |-> x.id, dev |-> x.dev] /\ x.id \in Nat
    BY <1>2 DEF IsOp
  <2>2. CASE x.id < pos
    BY <1>2, <2>1, <2>2 DEF Renumbered
  <2>3. CASE x.id = pos
    <3>1. Renumbered(x, pos) = [op |-> x.op, id |-> 0, dev |-> x.dev]
      BY <1>2, <2>1, <2>3 DEF Renumbered
    <3> QED BY <1>2, <3>1 DEF IsOp
  <2>4. CASE x.id > pos
    <3>1. Renumbered(x, pos) = [op |-> x.op, id |-> x.id - 1, dev |-> x.dev]
      BY <1>2, <2>1, <2>4 DEF Renumbered
    <3>2. x.id - 1 \in Nat
      BY <2>1, <2>4
    <3> QED BY <1>2, <3>1, <3>2 DEF IsOp
  <2> QED BY <2>1, <2>2, <2>3, <2>4
<1> QED BY <1>1, <1>2

\* a record of the order has been deleted
LEMMA OrderDeletedDoing ==
    ASSUME NEW s, NEW pos \in Nat \ {0}, Doing(s, {})
    PROVE  Doing(OrderDeleted(s, pos), {})
<1> DEFINE r == RemoveAt(s.orderRecs, pos)
           n == Len(s.fdsq)
           q == [k \in DOMAIN s.fdsq |-> Renumbered(s.fdsq[k], pos)]
           t == [s EXCEPT !.orderRecs = r, !.fdsq = q]
<1>1. Shaped(s) /\ IsState(s) /\ DOMAIN s.bond = Ids
  BY DEF Doing, Working, Shaped
<1>2. IsSeq(r)
  BY <1>1, RemovedIs DEF Shaped
<1>3. n \in Nat /\ DOMAIN s.fdsq = 1 .. n
  BY <1>1, SeqIs DEF Shaped
<1>4. /\ IsSeq(q) /\ Len(q) = n /\ DOMAIN q = 1 .. n
      /\ \A k \in 1 .. n : q[k] = Renumbered(s.fdsq[k], pos)
  <2>1. q = [k \in 1 .. n |-> q[k]]
    BY <1>3
  <2>2. \A k \in 1 .. n : q[k] = Renumbered(s.fdsq[k], pos)
    BY <1>3
  <2> HIDE DEF q, n
  <2>3. DOMAIN q = 1 .. n
    BY <2>1
  <2> QED BY <1>3, <2>1, <2>2, <2>3, MadeIs
<1> HIDE DEF r, q
<1>5. /\ IsState(t) /\ t.orderRecs = r /\ t.fdsq = q
      /\ \A f \in Fields \ {"orderRecs", "fdsq"} : t[f] = s[f]
  BY <1>1 DEF IsState, Fields
<1>6. OrderDeleted(s, pos) = t
  BY DEF OrderDeleted, r, q
<1> HIDE DEF t, n
<1>7. /\ t.used = s.used /\ t.deleted = s.deleted /\ t.bond = s.bond
      /\ t.gap = s.gap
      /\ \A f \in {"evts", "link", "sec", "connPeer", "secProc", "newPeer"} :
            t[f] = s[f]
  BY <1>5 DEF Fields
<1>8. Working(t)
  <2>1. n >= 1 /\ 1 \in 1 .. n
    BY <1>1, TailIs DEF Doing, Working, Shaped, n
  <2>2. q # <<>> /\ q[1].op = "done"
    <3>1. q[1] = s.fdsq[1]
      BY <1>4, <2>1, RenumberedIs DEF Doing, Working
    <3>2. Len(<<>>) = 0
      OBVIOUS
    <3> QED BY <1>4, <2>1, <3>1, <3>2 DEF Doing, Working
  <2>3. ASSUME NEW k \in 2 .. n PROVE IsOp(q[k])
    <3>1. k \in 1 .. n /\ IsOp(s.fdsq[k])
      BY <1>3, <2>3 DEF Doing, Working, n
    <3> QED BY <1>4, <3>1, RenumberedIs
  <2> QED BY <1>2, <1>4, <1>5, <1>7, <2>2, <2>3 DEF Doing, Working, Shaped
<1>9. ASSUME NEW i, HasOp(s, i) PROVE HasOp(t, i)
  <2>1. PICK k \in 1 .. n : s.fdsq[k].op = "bond" /\ s.fdsq[k].id = i
    BY <1>3, <1>9 DEF HasOp
  <2>2. q[k] = s.fdsq[k]
    BY <1>4, <2>1, RenumberedIs
  <2> QED BY <1>4, <1>5, <2>1, <2>2 DEF HasOp
<1>10. \A i \in Listed(t) : i \in Listed(s) /\ (Bonds(s, i) => Bonds(t, i))
  BY <1>7, <1>9 DEF Listed, Bonds, HasBond
<1> QED BY <1>6, <1>7, <1>8, <1>10, DoingOf

\* what the end of an operation does
LEMMA CompletedDoing ==
    ASSUME NEW s, NEW op, IsOp(op), Doing(s, Writes(op))
    PROVE  Doing(Completed(s, op), {})
<1>1. CASE op.op = "bond"
  <2> DEFINE written == Visible(s, [s EXCEPT !.bond[op.id] = op.dev])
  <2>1. Doing(written, {})
    BY <1>1, BondDoing DEF Writes
  <2>2. Completed(s, op) = PeerDataUpdateSucceeded(written, op.id)
    BY <1>1 DEF Completed
  <2> HIDE DEF written
  <2>3. Keeps(written, PeerDataUpdateSucceeded(written, op.id))
    BY <2>1, PeerDataUpdateSpares DEF Doing, Working, Spares
  <2> QED BY <2>1, <2>2, <2>3, DoingKeeps
<1>2. CASE op.op = "delete"
  <2>1. Completed(s, op) = PeerDeleted([s EXCEPT !.bond[op.id] = NoDev], op.id)
    BY <1>2 DEF Completed
  <2> QED BY <1>2, <2>1, DeleteDoing DEF Writes
<1>3. CASE op.op = "order"
  <2>1. Completed(s, op) = Visible(s, [s EXCEPT !.orderRecs = Append(@, s.deviceOrder)])
    BY <1>3 DEF Completed
  <2> QED BY <1>3, <2>1, OrderDoing DEF Writes
<1>4. CASE op.op = "unorder" /\ op.id = 0
  <2>1. Completed(s, op) = OrderNotFound(s)
    BY <1>4 DEF Completed
  <2> QED BY <1>4, <2>1, NotFoundDoing DEF Writes
<1>5. CASE op.op = "unorder" /\ op.id # 0
  <2>1. Completed(s, op) = OrderDeleted(s, op.id)
    BY <1>5 DEF Completed
  <2> QED BY <1>5, <2>1, OrderDeletedDoing DEF Writes, IsOp
<1> QED BY <1>1, <1>2, <1>3, <1>4, <1>5 DEF IsOp

\* and the observers of its end
LEMMA FlashDoneSafe ==
    ASSUME NEW s, Safe(s), s.fdsq # <<>> PROVE Safe(FlashOperationDone(s))
<1> DEFINE taken == [s EXCEPT !.fdsq[1].op = "done"]
           done  == Completed(taken, Head(s.fdsq))
           left  == [done EXCEPT !.fdsq = Tail(@)]
<1>1. Doing(taken, Writes(Head(s.fdsq))) /\ IsOp(Head(s.fdsq))
  BY TakenDoing
<1>2. FdsDone(s) = left
  BY DEF FdsDone
<1> HIDE DEF taken
<1>3. Doing(done, {})
  BY <1>1, CompletedDoing
<1> HIDE DEF done
<1>4. Safe(left) /\ IsState(left)
  BY <1>3, DoneSafe DEF Safe, Busy, Formed, Shaped
<1> HIDE DEF left
<1> DEFINE P == PeerPart
<1>5. /\ P \in SUBSET PeerPart /\ P \in SUBSET Parts
      /\ P \in SUBSET (PeerPart \cup NotesPart)
      /\ Turns(P, left, left)
  BY <1>4, TurnsRefl, PartsIs
<1> HIDE DEF P
<1>6. Turns(P, left, OnSysEvt(left))
  BY <1>5, OnSysEvtTurns
<1> QED BY <1>2, <1>4, <1>6, TurnsSafe DEF FlashOperationDone, P

-------------------------------------------------------------------------------
\* Power on and reset: the ids in use are those with a bond.

\* after power on,
LEMMA PowerOnCalm ==
    ASSUME NEW bond, NEW recs, DOMAIN bond = Ids, IsSeq(recs)
    PROVE  LET s == PowerOn(bond, recs) IN
           Calm(s) /\ ~Pairs(s) /\ IsState(s)
<1> DEFINE s == PowerOn(bond, recs)
<1>1. /\ IsState(s)
      /\ s.link = NoDev /\ s.evts = <<>> /\ s.fault = NoFault
      /\ Booted(s, bond, recs)
  BY PowerOnIs
<1> HIDE DEF s
<1> USE DEF Booted
<1>2. <<>> \in Seq(Events) /\ IsSeq(<<>>) /\ Len(<<>>) = 0 /\ DOMAIN <<>> = {}
  <2>1. <<>> \in Seq({})
    OBVIOUS
  <2> QED BY <2>1 DEF IsSeq
<1>3. Formed(s)
  BY <1>1, <1>2 DEF Formed, Shaped
<1>4. Told(s)
  <2>1. \A k \in 1 .. Len(s.evts) : FALSE
    BY <1>1, <1>2
  <2> QED BY <1>1, <1>2, <2>1 DEF Told, Others
<1>5. Stored(s)
  BY <1>1 DEF Stored, Listed, Bonds, HasBond
<1>6. ~Pairs(s)
  BY <1>1 DEF Pairs
<1> QED BY <1>1, <1>3, <1>4, <1>5, <1>6 DEF Calm, s

\* the reset of a failed check,
LEMMA SettledSafe ==
    ASSUME NEW s, Safe(s) PROVE Safe(Settled(s))
<1>1. Shaped(s) /\ DOMAIN s.bond = Ids /\ IsSeq(s.orderRecs)
  BY DEF Safe, Busy, Formed, Shaped
<1>2. CASE s.fault = NoFault
  <2>1. Keeps(s, Return(s, "SUCCESS"))
    BY <1>1, KeepsRefl, KeepsAssign DEF Return, Fields, KeptFields
  <2> QED BY <1>2, <2>1, KeepsSafe DEF Settled
<1>3. CASE s.fault # NoFault
  <2> DEFINE on == PowerOn(s.bond, s.orderRecs)
             f  == s.fault
             t  == [on EXCEPT !.fault = f]
  <2>1. Safe(on)
    BY <1>1, PowerOnCalm, CalmSafe
  <2> HIDE DEF on, f
  <2>2. Shaped(on)
    BY <2>1 DEF Safe, Busy, Formed
  <2>3. Keeps(on, t)
    BY <2>2, KeepsRefl, KeepsAssign DEF Fields, KeptFields
  <2>4. Settled(s) = t
    BY <1>3 DEF Settled, on, f
  <2> HIDE DEF t
  <2> QED BY <2>1, <2>3, <2>4, KeepsSafe
<1> QED BY <1>2, <1>3

\* whichever outcome the write of queue_buf_get has,
LEMMA SettlesSafe ==
    ASSUME NEW s, Safe(s), NEW t \in Settles(s) PROVE Safe(t)
<1> DEFINE clear      == [s EXCEPT !.overrun = FALSE]
           cleared(f) == [clear EXCEPT !.fault = f]
           faults     == IF s.overrun /\ s.fault = NoFault
                         THEN {"queue_buf_get"} ELSE {}
<1>1. Shaped(s)
  BY DEF Safe, Busy, Formed
<1>2. t \in {Settled(clear)} \cup {Settled(cleared(f)) : f \in faults}
  BY Zenon DEF Settles
<1>3. Keeps(s, clear)
  BY <1>1, KeepsRefl, KeepsAssign DEF Fields, KeptFields
<1> HIDE DEF clear, faults
<1>4. ASSUME NEW f PROVE Keeps(s, cleared(f))
  BY <1>1, <1>3, KeepsAssign DEF Fields, KeptFields
<1> HIDE DEF cleared
<1> QED BY <1>2, <1>3, <1>4, KeepsSafe, SettledSafe

\* main() up to its loop,
LEMMA BootSafe ==
    ASSUME NEW bond, NEW recs, DOMAIN bond = Ids, IsSeq(recs)
    PROVE  Safe(Boot(bond, recs))
<1> DEFINE on == PowerOn(bond, recs)
           up == Advertise(ReconnectScan(on))
           P  == PeerPart
<1>1. IsState(on) /\ Safe(on)
  BY PowerOnCalm, CalmSafe
<1> HIDE DEF on
<1>2. /\ P \in SUBSET PeerPart /\ P \in SUBSET Parts
      /\ P \in SUBSET (PeerPart \cup NotesPart)
      /\ Turns(P, on, on)
  BY <1>1, TurnsRefl, PartsIs
<1> HIDE DEF P
<1>3. Turns(P, on, up)
  BY <1>2, ReconnectScanTurns, AdvertiseTurns
<1>4. Safe(up)
  BY <1>1, <1>3, TurnsSafe DEF P
<1> HIDE DEF up
<1>5. Safe(Settled(up))
  BY <1>4, SettledSafe
<1> QED BY <1>5 DEF Boot, up, on

-------------------------------------------------------------------------------
\* the invariant
InvSafe == Safe(fw)

\* It is enough that a handler keeps the invariant
LEMMA HandledSafe ==
    ASSUME NEW s, Safe(s), Handled(s) PROVE InvSafe'
  BY SettlesSafe DEF Handled, InvSafe

\* or that it is a turn of the application.
LEMMA TurnsInvSafe ==
    ASSUME NEW s, NEW P, P = PeerPart, InvSafe, Turns(P, fw, s), Handled(s)
    PROVE  InvSafe'
  BY TurnsSafe, HandledSafe DEF InvSafe

\* the observers of the stack,
LEMMA StackHandlersSafe ==
    ASSUME InvSafe, StackHandlers PROVE InvSafe'
<1> DEFINE f  == Fetched
           id == Head(fw.evts).id
<1>1. ASSUME fw.evts # <<>>
      PROVE  /\ Busy(f) /\ IsState(f)
             /\ id \in Starts => Calm(f) /\ ~Pairs(f)
             /\ id \notin Ends => Safe(f)
             /\ id = "SEC_PARAMS_REQUEST" => Guarded(f.evts, f.sec, 0)
             /\ id = "AUTH_BONDED" => Dev # NoDev
  <2>1. f = Fetch(fw)
    BY DEF Fetched, Fetch
  <2> HIDE DEF f
  <2> QED BY <1>1, <2>1, FetchSafe DEF InvSafe, Dev
<1> HIDE DEF f
<1>2. \A x : Next1(x) => fw.evts # <<>> /\ id = x
  BY DEF Next1
<1> HIDE DEF id
<1>3. CASE Connected
  <2>1. Calm(f) /\ ~Pairs(f) /\ Handled(AppConnected(ImConnected(f, Dev)))
    BY <1>1, <1>2, <1>3 DEF Connected, Starts, f
  <2> QED BY <2>1, ConnectedSafe, HandledSafe
<1>4. CASE Disconnected
  <2>1. Busy(f) /\ Handled(AppDisconnected(SmdDisconnected(OnDisconnected(f))))
    BY <1>1, <1>2, <1>4 DEF Disconnected, f
  <2> QED BY <2>1, DisconnectedSafe, HandledSafe
<1>5. CASE TimedOut
  <2> DEFINE P == PeerPart
  <2>1. Safe(f) /\ IsState(f) /\ Handled(OnTimeout(f))
    BY <1>1, <1>2, <1>5 DEF TimedOut, Ends, f
  <2>2. /\ P \in SUBSET PeerPart /\ P \in SUBSET Parts
        /\ P \in SUBSET (PeerPart \cup NotesPart)
        /\ Turns(P, f, f)
    BY <2>1, TurnsRefl, PartsIs
  <2> HIDE DEF P
  <2>3. Turns(P, f, OnTimeout(f))
    BY <2>2, OnTimeoutTurns
  <2> QED BY <2>1, <2>3, TurnsSafe, HandledSafe DEF P
<1>6. CASE SecParamsRequest
  <2>1. Calm(f) /\ Guarded(f.evts, f.sec, 0) /\ Handled(SecParamsRequestProcess(f))
    BY <1>1, <1>2, <1>6 DEF SecParamsRequest, Starts, f
  <2> QED BY <2>1, SecParamsRequestSafe, HandledSafe
<1>7. CASE SecInfoRequest
  <2>1. Calm(f) /\ Handled(SecInfoRequestProcess(f, Dev))
    BY <1>1, <1>2, <1>7 DEF SecInfoRequest, Starts, f
  <2> QED BY <2>1, SecInfoRequestSafe, HandledSafe
<1>8. CASE AuthStatus
  <2>1. CASE Next1("AUTH_BONDED") /\ Handled(AuthBonded(f, Dev))
    BY <1>1, <1>2, <2>1, AuthBondedSafe, HandledSafe
  <2>2. CASE Next1("AUTH_PAIRED") /\ Handled(AuthPaired(f))
    BY <1>1, <1>2, <2>2, AuthPairedSafe, HandledSafe
  <2>3. CASE Next1("AUTH_FAILED") /\ Handled(LinkSecureFailure(f))
    BY <1>1, <1>2, <2>3, AuthFailedSafe, HandledSafe
  <2> QED BY <1>8, <2>1, <2>2, <2>3 DEF AuthStatus, f
<1>9. CASE ConnSecUpdate
  <2>1. "ENCRYPTED" \notin Ends /\ "NOT_ENCRYPTED" \notin Ends
    BY DEF Ends
  <2>2. PICK e \in BOOLEAN : Safe(f) /\ Handled(ConnSecUpdateProcess(f, e))
    BY <1>1, <1>2, <1>9, <2>1, Zenon DEF ConnSecUpdate, f
  <2> QED BY <2>2, ConnSecUpdateSafe, HandledSafe
<1> QED BY <1>3, <1>4, <1>5, <1>6, <1>7, <1>8, <1>9 DEF StackHandlers

\* the handlers of the buttons
LEMMA ButtonHandlersSafe ==
    ASSUME InvSafe, ButtonHandlers PROVE InvSafe'
<1> DEFINE P == PeerPart
<1>1. Safe(fw) /\ Shaped(fw) /\ IsState(fw) /\ P = PeerPart
  BY DEF InvSafe, Safe, Busy, Formed, Shaped
<1>2. /\ P \in SUBSET PeerPart /\ P \in SUBSET Parts
      /\ P \in SUBSET (PeerPart \cup NotesPart)
      /\ Turns(P, fw, fw)
  BY <1>1, TurnsRefl, PartsIs
<1> HIDE DEF P
<1>3. CASE Key2
  <2> DEFINE t == [fw EXCEPT !.isDeleteBonds = TRUE]
  <2>1. Keeps(fw, t)
    BY <1>1, KeepsRefl, KeepsAssign DEF Fields, KeptFields
  <2>2. Handled(t)
    BY <1>3 DEF Key2
  <2> HIDE DEF t
  <2> QED BY <1>1, <2>1, <2>2, KeepsSafe, HandledSafe
<1>4. CASE Key3
  <2>1. Handled(Advertise(AddNew(fw)))
    BY <1>4 DEF Key3
  <2>2. Turns(P, fw, Advertise(AddNew(fw)))
    BY <1>2, AddNewTurns, AdvertiseTurns
  <2> QED BY <1>1, <2>1, <2>2, TurnsInvSafe
<1>5. CASE ButtonDisconnect
  <2> DEFINE called == SdDisconnect(fw)
  <2>1. Handled(called) \/ Handled(Check(called, "bsp_event_handler"))
    BY <1>5 DEF ButtonDisconnect
  <2>2. Keeps(fw, called)
    <3>1. /\ IsState(called)
          /\ \A x \in KeptFields \cup {"used", "deleted", "fdsq", "connPeer"} :
                called[x] = fw[x]
      BY <1>1 DEF SdDisconnect, Return, IsState, Fields, KeptFields
    <3> HIDE DEF called
    <3> QED BY <1>1, <3>1, SameKeeps
  <2> HIDE DEF called
  <2>3. "bsp_event_handler" # NoFault
    BY DEF NoFault
  <2>4. Keeps(fw, Check(called, "bsp_event_handler"))
    BY <1>1, <2>2, <2>3, FailuresKeep
  <2> QED BY <1>1, <2>1, <2>2, <2>4, KeepsSafe, HandledSafe
<1>6. CASE ButtonWhitelistOff
  <2>1. Handled(RestartWithoutWhitelist(fw))
    BY <1>6 DEF ButtonWhitelistOff
  <2>2. Turns(P, fw, RestartWithoutWhitelist(fw))
    BY <1>2, WithoutWhitelistTurns
  <2> QED BY <1>1, <2>1, <2>2, TurnsInvSafe
<1> QED BY <1>3, <1>4, <1>5, <1>6 DEF ButtonHandlers

\* and the main loop keep the invariant
LEMMA MainLoopSafe ==
    ASSUME InvSafe, MainLoop PROVE InvSafe'
<1> DEFINE P == PeerPart
<1>1. Safe(fw) /\ Shaped(fw) /\ IsState(fw) /\ P = PeerPart
  BY DEF InvSafe, Safe, Busy, Formed, Shaped
<1>2. /\ P \in SUBSET PeerPart /\ P \in SUBSET Parts
      /\ P \in SUBSET (PeerPart \cup NotesPart)
      /\ Turns(P, fw, fw)
  BY <1>1, TurnsRefl, PartsIs
<1> HIDE DEF P
<1>3. CASE SchedulerDone
  BY <1>3 DEF SchedulerDone, InvSafe
<1>4. CASE AppProcessing
  <2> DEFINE synced == Synced(fw)
  <2>1. \/ fw' \in Settles(DeleteBonds(synced))
        \/ fw' \in Settles(synced)
    BY <1>4 DEF AppProcessing
  <2>2. Turns(P, fw, synced)
    BY <1>2, SyncedTurns
  <2> HIDE DEF synced
  <2>3. Safe(synced)
    BY <1>1, <2>2, TurnsSafe
  <2>4. Safe(DeleteBonds(synced))
    <3>1. Shaped(synced)
      BY <2>3 DEF Safe, Busy, Formed
    <3> QED BY <2>3, <3>1, DeleteBondsKeeps, KeepsSafe
  <2> QED BY <2>1, <2>3, <2>4, SettlesSafe DEF InvSafe
<1>5. CASE TimerProcessing
  <2> DEFINE t == [fw EXCEPT !.scanTimer = "idle"]
  <2>1. fw' = Settled(AppAdvScanStopCB(t)) \/ fw' = Settled(fw)
    BY <1>5 DEF TimerProcessing
  <2>2. Turns(P, fw, t)
    BY <1>2, Notes DEF NotesPart
  <2> HIDE DEF t
  <2>3. Turns(P, fw, AppAdvScanStopCB(t))
    BY <1>2, <2>2, ScanStopTurns
  <2>4. Safe(AppAdvScanStopCB(t))
    BY <1>1, <2>3, TurnsSafe
  <2> QED BY <1>1, <2>1, <2>4, SettledSafe DEF InvSafe
<1> QED BY <1>3, <1>4, <1>5 DEF MainLoop

\* The invariant holds of the firmware.
LEMMA InvSafeHolds == Spec => []InvSafe
<1>1. Init => InvSafe
  <2> SUFFICES ASSUME NEW f \in Flash, fw = Boot(f.bond, f.recs) PROVE InvSafe
    BY DEF Init
  <2>1. DOMAIN f.bond = Ids /\ IsSeq(f.recs)
    BY FlashAssumption DEF IsSeq
  <2> QED BY <2>1, BootSafe DEF InvSafe
<1>2. ASSUME InvSafe, [Next]_vars PROVE InvSafe'
  <2>1. CASE FlashDone
    <3>1. fw.fdsq # <<>> /\ Handled(FlashOperationDone(fw))
      BY <2>1 DEF FlashDone, FlashIsBusy
    <3> QED BY <1>2, <3>1, FlashDoneSafe, HandledSafe DEF InvSafe
  <2>2. CASE Reset
    <3>1. fw' = Boot(fw.bond, fw.orderRecs)
      BY <2>2 DEF Reset
    <3>2. DOMAIN fw.bond = Ids /\ IsSeq(fw.orderRecs)
      BY <1>2 DEF InvSafe, Safe, Busy, Formed, Shaped
    <3> QED BY <3>1, <3>2, BootSafe DEF InvSafe
  <2>3. CASE UNCHANGED vars
    BY <1>2, <2>3 DEF vars, InvSafe
  <2>4. CASE Environment
    BY <1>2, <2>4, EnvironmentSafe DEF InvSafe
  <2> QED
    BY <1>2, <2>1, <2>2, <2>3, <2>4, StackHandlersSafe, ButtonHandlersSafe,
       MainLoopSafe DEF Next
<1> QED BY <1>1, <1>2, PTL DEF Spec

\* For all devices, ids and queues, whatever fails, ends or is reset on the way:
\* the peer manager loses no peer id.  An id in use has its bond, has it on the
\* way into flash, is being deleted, or belongs to the pairing going on, as long
\* as no write has left erased words that hide what is written behind.
THEOREM NoIdIsLost == Spec => []NoIdLeaks
<1>1. InvSafe => NoIdLeaks
  BY DEF InvSafe, Safe, Busy, Owned, Bonds, HasOp, Pairs, NoIdLeaks
<1> QED BY <1>1, InvSafeHolds, PTL
-------------------------------------------------------------------------------
(* Without KEY_2 no bond is deleted                                          *)

\* the events with which the stack reports a pairing done
Successes == {"AUTH_BONDED", "AUTH_PAIRED"}

\* the stack pairs when it has been asked to
Asking == {"params", "pairing"}

\* one of the events after the first j, up to the k-th, asks to pair
Asked(evts, j, k) == \E m \in j + 1 .. k : evts[m].id = "SEC_PARAMS_REQUEST"

\* After the first j events no pairing is going on: none succeeds, and the stack
\* is at none, that an event has not asked for behind them.
Renewed(evts, sec, j) ==
    /\ \A k \in j + 1 .. Len(evts) :
          evts[k].id \in Successes => Asked(evts, j, k - 1)
    /\ sec \in Asking => Asked(evts, j, Len(evts))

\* what the stack has to tell: an event that ends a pairing ends it, and an event
\* that starts something tells which device it was
Tells(s) ==
    /\ \A j \in 1 .. Len(s.evts) :
          s.evts[j].id \in Ends => Renewed(s.evts, s.sec, j)
    /\ \A k \in 1 .. Len(s.evts) :
          s.evts[k].id \in Starts => s.evts[k].dev # NoDev

\* the flag of a pairing that is over is still set
Spent(s) == s.newPeer /\ s.secProc # "pairing"

\* No id is being deleted, an id that has a bond or will have one is in use, and
\* so is that of the connection.
Intact(s) ==
    /\ Shaped(s)
    /\ DOMAIN s.bond = Ids
    /\ s.used \subseteq Ids
    /\ ~s.isDeleteBonds
    /\ s.deleted = {}
    /\ \A k \in DOMAIN s.fdsq : s.fdsq[k].op # "delete"
    /\ \A i \in Ids : Bonds(s, i) => i \in s.used
    /\ s.connPeer \in s.used \cup {PeerIdInvalid}

\* ... and the id that a pairing has allocated has no bond
Held(s) == Intact(s) /\ (Pairs(s) => ~Bonds(s, s.connPeer))

\* The invariant, of any state.
Spared(s) == Held(s) /\ Tells(s) /\ (Spent(s) => Renewed(s.evts, s.sec, 0))

-------------------------------------------------------------------------------
\* The stack's part.

\* a fetched event
LEMMA RenewedTail ==
    ASSUME NEW evts \in Seq(Events), evts # <<>>, NEW sec, NEW j \in 0 .. Len(evts),
           Renewed(evts, sec, j), j = 0 => Head(evts).id # "SEC_PARAMS_REQUEST"
    PROVE  /\ j # 0 => Renewed(Tail(evts), sec, j - 1)
           /\ j = 0 => Renewed(Tail(evts), sec, 0) /\ Head(evts).id \notin Successes
<1> DEFINE n == Len(evts)
           rest == Tail(evts)
           i == IF j = 0 THEN 0 ELSE j - 1
<1>1. /\ n \in Nat /\ n >= 1 /\ Len(rest) = n - 1 /\ Head(evts) = evts[1]
      /\ \A k \in 1 .. n - 1 : rest[k] = evts[k + 1]
      /\ i \in Nat
  OBVIOUS
<1> HIDE DEF n, rest
<1>2. ASSUME NEW k \in Nat, k <= n - 1, Asked(evts, j, k + 1) PROVE Asked(rest, i, k)
  <2>1. PICK m \in j + 1 .. k + 1 : evts[m].id = "SEC_PARAMS_REQUEST"
    BY <1>2 DEF Asked
  <2>2. m # 1
    BY <1>1, <2>1
  <2>3. m - 1 \in i + 1 .. k /\ m - 1 \in 1 .. n - 1 /\ (m - 1) + 1 = m
    BY <1>1, <1>2, <2>2
  <2> QED BY <1>1, <2>1, <2>3 DEF Asked
<1>3. ASSUME NEW k \in i + 1 .. n - 1, rest[k].id \in Successes
      PROVE  Asked(rest, i, k - 1)
  <2>1. k + 1 \in j + 1 .. n /\ evts[k + 1].id \in Successes
    BY <1>1, <1>3
  <2>2. Asked(evts, j, (k + 1) - 1)
    BY <2>1 DEF Renewed, n
  <2>3. k - 1 \in Nat /\ k - 1 <= n - 1 /\ (k + 1) - 1 = (k - 1) + 1
    BY <1>1
  <2>4. Asked(evts, j, (k - 1) + 1)
    BY <2>2, <2>3
  <2> QED BY <1>2, <2>3, <2>4
<1>4. sec \in Asking => Asked(rest, i, n - 1)
  <2>1. n - 1 \in Nat /\ n - 1 <= n - 1 /\ (n - 1) + 1 = n
    BY <1>1
  <2>2. sec \in Asking => Asked(evts, j, (n - 1) + 1)
    BY <2>1 DEF Renewed, n
  <2> QED BY <1>2, <2>1, <2>2
<1>5. Renewed(rest, sec, i)
  BY <1>1, <1>3, <1>4 DEF Renewed
<1>6. j = 0 => Head(evts).id \notin Successes
  <2>1. ~ \E m \in 0 + 1 .. 1 - 1 : TRUE
    OBVIOUS
  <2>2. j = 0 => 1 \in j + 1 .. Len(evts)
    BY <1>1 DEF n
  <2> QED BY <1>1, <2>1, <2>2 DEF Renewed, Asked
<1> QED BY <1>5, <1>6 DEF rest

\* one more event: a success is that of a pairing, which had been asked for
LEMMA RenewedAppend ==
    ASSUME NEW evts \in Seq(Events), NEW e \in Events, NEW sec, NEW next,
           NEW j \in 0 .. Len(evts), Renewed(evts, sec, j),
           e.id \in Successes => sec \in Asking,
           next \in Asking => sec \in Asking \/ e.id = "SEC_PARAMS_REQUEST"
    PROVE  Renewed(Append(evts, e), next, j)
<1> DEFINE n == Len(evts)
           more == Append(evts, e)
<1>1. /\ n \in Nat /\ Len(more) = n + 1 /\ more[n + 1] = e
      /\ \A k \in 1 .. n : more[k] = evts[k]
  OBVIOUS
<1> HIDE DEF n, more
<1>2. ASSUME NEW k \in Int, k <= n, NEW l \in Int, k <= l, Asked(evts, j, k)
      PROVE  Asked(more, j, l)
  <2>1. PICK m \in j + 1 .. k : evts[m].id = "SEC_PARAMS_REQUEST"
    BY <1>2 DEF Asked
  <2>2. m \in j + 1 .. l /\ m \in 1 .. n
    BY <1>1, <1>2, <2>1
  <2> QED BY <1>1, <2>1, <2>2 DEF Asked
<1>3. sec \in Asking => Asked(more, j, n) /\ Asked(more, j, n + 1)
  <2>1. sec \in Asking => Asked(evts, j, n)
    BY DEF Renewed, n
  <2>2. n \in Int /\ n <= n /\ n + 1 \in Int /\ n <= n + 1
    BY <1>1
  <2> QED BY <1>2, <2>1, <2>2
<1>4. ASSUME NEW k \in j + 1 .. n + 1, more[k].id \in Successes
      PROVE  Asked(more, j, k - 1)
  <2>1. CASE k = n + 1
    <3>1. sec \in Asking /\ k - 1 = n
      BY <1>1, <1>4, <2>1
    <3> QED BY <1>3, <3>1
  <2>2. CASE k # n + 1
    <3>1. k \in j + 1 .. n /\ k \in 1 .. n
      BY <1>1, <1>4, <2>2
    <3>2. Asked(evts, j, k - 1)
      BY <1>1, <1>4, <3>1 DEF Renewed, n
    <3>3. k - 1 \in Int /\ k - 1 <= n /\ k - 1 <= k - 1
      BY <1>1, <3>1
    <3> QED BY <1>2, <3>2, <3>3
  <2> QED BY <2>1, <2>2
<1>5. next \in Asking => Asked(more, j, n + 1)
  <2>1. CASE e.id = "SEC_PARAMS_REQUEST"
    <3>1. n + 1 \in j + 1 .. n + 1
      BY <1>1 DEF n
    <3> QED BY <1>1, <2>1, <3>1 DEF Asked
  <2>2. CASE e.id # "SEC_PARAMS_REQUEST"
    BY <1>3, <2>2
  <2> QED BY <2>1, <2>2
<1> QED BY <1>1, <1>4, <1>5 DEF Renewed, more

\* an answer to the stack
LEMMA RenewedSec ==
    ASSUME NEW evts, NEW sec, NEW next, NEW j, Renewed(evts, sec, j),
           next \in Asking => sec \in Asking
    PROVE  Renewed(evts, next, j)
  BY DEF Renewed

\* fetching an event
LEMMA FetchTells ==
    ASSUME NEW s, IsState(s), Told(s), Tells(s), s.evts # <<>>
    PROVE  LET f == Fetch(s) IN
           /\ Tells(f)
           /\ Head(s.evts).id \in Ends => Renewed(f.evts, f.sec, 0)
           /\ Head(s.evts).id \in Starts => Head(s.evts).dev # NoDev
           /\ Renewed(s.evts, s.sec, 0) =>
                 /\ Head(s.evts).id \notin Successes
                 /\ Head(s.evts).id # "SEC_PARAMS_REQUEST"
                       => Renewed(f.evts, f.sec, 0)
<1> DEFINE f == Fetch(s)
           n == Len(s.evts)
           id == Head(s.evts).id
<1>1. f.evts = Tail(s.evts) /\ f.sec = s.sec
  <2>1. f.evts = Tail(s.evts) /\ \A x \in Fields \ {"evts"} : f[x] = s[x]
    BY FetchTold
  <2> QED BY <2>1 DEF Fields
<1> HIDE DEF f
<1>2. /\ s.evts \in Seq(Events)
      /\ n \in Nat /\ n >= 1 /\ Len(f.evts) = n - 1 /\ Head(s.evts) = s.evts[1]
      /\ \A k \in 1 .. n - 1 : k + 1 \in 1 .. n /\ f.evts[k] = s.evts[k + 1]
  BY <1>1 DEF Told
<1> HIDE DEF n
<1>3. ASSUME NEW j \in 1 .. n, s.evts[j].id \in Ends
      PROVE  Renewed(f.evts, f.sec, j - 1)
  <2>1. Renewed(s.evts, s.sec, j) /\ j \in 0 .. Len(s.evts) /\ j # 0
    BY <1>2, <1>3 DEF Tells, n
  <2> QED BY <1>1, <1>2, <2>1, RenewedTail
<1>4. ASSUME NEW j \in 1 .. n - 1, f.evts[j].id \in Ends
      PROVE  Renewed(f.evts, f.sec, j)
  <2>1. j + 1 \in 1 .. n /\ s.evts[j + 1].id \in Ends /\ (j + 1) - 1 = j
    BY <1>2, <1>4
  <2> QED BY <1>3, <2>1
<1>5. \A k \in 1 .. n - 1 : f.evts[k].id \in Starts => f.evts[k].dev # NoDev
  BY <1>2 DEF Tells, n
<1>6. Tells(f)
  BY <1>2, <1>4, <1>5 DEF Tells
<1>7. 1 \in 1 .. n /\ 1 - 1 = 0 /\ 0 \in 0 .. n
  BY <1>2
<1>8. id \in Ends => Renewed(f.evts, f.sec, 0)
  BY <1>2, <1>3, <1>7
<1>9. id \in Starts => Head(s.evts).dev # NoDev
  BY <1>2, <1>7 DEF Tells, n
<1>10. Renewed(s.evts, s.sec, 0) /\ id # "SEC_PARAMS_REQUEST"
          => id \notin Successes /\ Renewed(f.evts, f.sec, 0)
  BY <1>1, <1>2, <1>7, RenewedTail DEF n
<1>11. id = "SEC_PARAMS_REQUEST" => id \notin Successes
  BY DEF Successes
<1> HIDE DEF id
<1> QED BY <1>6, <1>8, <1>9, <1>10, <1>11 DEF f, id

-------------------------------------------------------------------------------
\* The ids and their bonds.

\* what decides whether they are intact, but for the id of the connection
IntactFields == {"bond", "used", "deleted", "fdsq", "isDeleteBonds", "orderRecs"}

\* the id of the connection may become another one that is in use
LEMMA IntactOf ==
    ASSUME NEW s, NEW t, Intact(s), IsState(t), \A f \in IntactFields : t[f] = s[f],
           t.connPeer \in s.used \cup {PeerIdInvalid}
    PROVE  /\ Intact(t)
           /\ \A i : Bonds(t, i) <=> Bonds(s, i)
<1>1. /\ t.bond = s.bond /\ t.used = s.used /\ t.deleted = s.deleted
      /\ t.fdsq = s.fdsq /\ t.isDeleteBonds = s.isDeleteBonds
      /\ t.orderRecs = s.orderRecs
  BY DEF IntactFields
<1>2. \A i : Bonds(t, i) <=> Bonds(s, i)
  BY <1>1 DEF Bonds, HasBond, HasOp
<1> QED BY <1>1, <1>2 DEF Intact, Shaped

\* bonds may go, and operations that delete no peer may come
LEMMA SparedOf ==
    ASSUME NEW s, NEW t, Spared(s), Shaped(t), DOMAIN t.bond = Ids,
           \A f \in {"used", "deleted", "connPeer", "isDeleteBonds", "secProc",
                     "newPeer", "evts", "sec"} : t[f] = s[f],
           \A k \in DOMAIN t.fdsq : t.fdsq[k].op # "delete",
           \A i : Bonds(t, i) => Bonds(s, i)
    PROVE  Spared(t)
<1>1. /\ t.used = s.used /\ t.deleted = s.deleted /\ t.connPeer = s.connPeer
      /\ t.isDeleteBonds = s.isDeleteBonds /\ t.secProc = s.secProc
      /\ t.newPeer = s.newPeer /\ t.evts = s.evts /\ t.sec = s.sec
  OBVIOUS
<1>2. Intact(t)
  BY <1>1 DEF Spared, Held, Intact
<1>3. Pairs(t) => ~Bonds(t, t.connPeer)
  BY <1>1 DEF Spared, Held, Pairs
<1>4. Tells(t) /\ (Spent(t) => Renewed(t.evts, t.sec, 0))
  BY <1>1 DEF Spared, Tells, Spent
<1> QED BY <1>2, <1>3, <1>4 DEF Spared, Held

\* calls that free no id bring no bond
LEMMA SparesBonds ==
    ASSUME NEW s, NEW t, Shaped(s), Spares(s, t)
    PROVE  /\ \A i : Bonds(t, i) => Bonds(s, i)
           /\ (\A k \in DOMAIN s.fdsq : s.fdsq[k].op # "delete")
                 => \A k \in DOMAIN t.fdsq : t.fdsq[k].op # "delete"
<1>1. Shaped(t) /\ Keeps(s, t)
  BY KeepsShaped DEF Spares
<1>2. /\ Len(s.fdsq) \in Nat /\ DOMAIN s.fdsq = 1 .. Len(s.fdsq)
      /\ Len(t.fdsq) \in Nat /\ DOMAIN t.fdsq = 1 .. Len(t.fdsq)
  BY <1>1, SeqIs DEF Shaped
<1>3. ASSUME NEW k \in DOMAIN t.fdsq
      PROVE  \/ k \in DOMAIN s.fdsq /\ t.fdsq[k] = s.fdsq[k]
             \/ t.fdsq[k].op \in OrderOps
  <2>1. k \in 1 .. Len(s.fdsq) \/ k \in Len(s.fdsq) + 1 .. Len(t.fdsq)
    BY <1>2
  <2> QED BY <1>1, <1>2, <2>1 DEF Keeps, Spares
<1>4. "bond" \notin OrderOps /\ "delete" \notin OrderOps
  BY DEF OrderOps
<1>5. ASSUME NEW i, HasOp(t, i) PROVE HasOp(s, i)
  BY <1>3, <1>4, <1>5 DEF HasOp
<1>6. ASSUME NEW i PROVE HasBond(t, i) <=> HasBond(s, i)
  BY <1>1 DEF Keeps, KeptFields, HasBond
<1> QED BY <1>3, <1>4, <1>5, <1>6 DEF Bonds

\* and keep the invariant
LEMMA SparesSpared ==
    ASSUME NEW s, NEW t, Spared(s), Spares(s, t) PROVE Spared(t)
<1>1. Shaped(s) /\ Keeps(s, t) /\ Shaped(t)
  BY KeepsShaped DEF Spared, Held, Intact, Spares
<1>2. /\ t.bond = s.bond
      /\ \A f \in {"used", "deleted", "connPeer", "isDeleteBonds", "secProc",
                    "newPeer", "evts", "sec"} : t[f] = s[f]
  BY <1>1 DEF Keeps, KeptFields, Spares, SparedFields
<1>3. /\ \A i : Bonds(t, i) => Bonds(s, i)
      /\ \A k \in DOMAIN t.fdsq : t.fdsq[k].op # "delete"
  BY <1>1, SparesBonds DEF Spared, Held, Intact
<1>4. DOMAIN t.bond = Ids
  BY <1>2 DEF Spared, Held, Intact
<1> QED BY <1>1, <1>2, <1>3, <1>4, SparedOf

\* as turns of the application do
LEMMA TurnsSpared ==
    ASSUME NEW s, NEW t, Spared(s), Turns(PeerPart, s, t) PROVE Spared(t)
<1>1. Shaped(s)
  BY DEF Spared, Held, Intact
<1> QED BY <1>1, TurnsSpare, SparesSpared

\* im_peer_free of an id without a bond, while no other is being deleted
LEMMA PeerFreeIs ==
    ASSUME NEW s, IsState(s), s.deleted = {}, NEW id \in Ids, ~HasBond(s, id)
    PROVE  LET t == PeerFree(s, id) IN
           /\ IsState(t)
           /\ t.used = s.used \ {id} /\ t.deleted = {}
           /\ t.connPeer = IF s.connPeer = id THEN PeerIdInvalid ELSE s.connPeer
           /\ \A f \in Fields \ {"used", "deleted", "connPeer"} : t[f] = s[f]
<1> DEFINE ds   == s.deleted \cup {id}
           more == [s EXCEPT !.deleted = ds]
           u    == more.used \ more.deleted
           tidy == [more EXCEPT !.used = u, !.deleted = {}]
           peer == IF tidy.connPeer = id THEN PeerIdInvalid ELSE tidy.connPeer
           t    == [tidy EXCEPT !.connPeer = peer]
<1>1. ds = {id} /\ Min(ds) = id
  <2>1. ds = {id}
    OBVIOUS
  <2>2. id \in {id} /\ \A y \in {id} : id <= y
    BY PeerManagerAssumption
  <2> QED BY <2>1, <2>2 DEF Min
<1> HIDE DEF ds
<1>2. /\ IsState(more) /\ more.deleted = ds
      /\ \A f \in Fields \ {"deleted"} : more[f] = s[f]
  BY DEF IsState, Fields
<1>3. more.used = s.used /\ more.connPeer = s.connPeer /\ more.bond = s.bond
  BY <1>2 DEF Fields
<1> HIDE DEF more
<1>4. ~HasFile(more, Min(more.deleted)) /\ more.deleted # {}
  BY <1>1, <1>2, <1>3 DEF HasFile, HasBond
<1>5. PeerDataDelete(more) = tidy
  BY <1>4 DEF PeerDataDelete
<1> HIDE DEF u
<1>6. /\ IsState(tidy) /\ tidy.used = u /\ tidy.deleted = {}
      /\ \A f \in Fields \ {"used", "deleted"} : tidy[f] = more[f]
  BY <1>2 DEF IsState, Fields
<1> HIDE DEF tidy, peer
<1>7. IsState(t) /\ t.connPeer = peer /\ \A f \in Fields \ {"connPeer"} : t[f] = tidy[f]
  BY <1>6 DEF IsState, Fields
<1>8. PeerFree(s, id) = t
  BY <1>5 DEF PeerFree, t, peer, more, ds
<1> HIDE DEF t
<1>9. tidy.connPeer = s.connPeer /\ t.used = u /\ t.deleted = {}
  BY <1>3, <1>6, <1>7 DEF Fields
<1> QED BY <1>1, <1>2, <1>3, <1>6, <1>7, <1>8, <1>9 DEF u, peer

\* all ids are numbers
LEMMA IdsAre == Ids \subseteq Nat /\ PeerIdInvalid \in Nat /\ PeerIdInvalid \notin Ids
  BY PeerManagerAssumption DEF PeerIdInvalid

\* the id of the connection is freed
LEMMA FreeIntact ==
    ASSUME NEW s, Intact(s), NEW id \in s.used \cup {PeerIdInvalid},
           id \in Ids => ~Bonds(s, id)
    PROVE  LET t == PeerFree(s, id) IN
           /\ Intact(t)
           /\ \A f \in Fields \ {"used", "deleted", "connPeer"} : t[f] = s[f]
<1> DEFINE t == PeerFree(s, id)
<1>1. s.used \subseteq Ids /\ IsState(s) /\ s.deleted = {}
  BY DEF Intact, Shaped
<1>2. /\ IsState(t)
      /\ t.used = s.used \ {id} /\ t.deleted = {}
      /\ t.connPeer = IF s.connPeer = id THEN PeerIdInvalid ELSE s.connPeer
      /\ \A f \in Fields \ {"used", "deleted", "connPeer"} : t[f] = s[f]
  <2>1. CASE id \in Ids
    BY <1>1, <2>1, PeerFreeIs DEF Bonds, HasBond
  <2>2. CASE id \notin Ids
    <3>1. t = s /\ id = PeerIdInvalid
      BY <1>1, <2>2 DEF PeerFree
    <3> QED BY <1>1, <2>2, <3>1
  <2> QED BY <2>1, <2>2
<1> HIDE DEF t
<1>3. /\ t.bond = s.bond /\ t.fdsq = s.fdsq /\ t.orderRecs = s.orderRecs
      /\ t.isDeleteBonds = s.isDeleteBonds
  BY <1>2 DEF Fields
<1>4. \A i : Bonds(t, i) <=> Bonds(s, i)
  BY <1>3 DEF Bonds, HasBond, HasOp
<1>5. Intact(t)
  BY <1>2, <1>3, <1>4 DEF Intact, Shaped
<1> QED BY <1>2, <1>5 DEF t

\* the id of a device's bond is in use
LEMMA FindBondIs ==
    ASSUME NEW s, Intact(s), NEW dev, dev # NoDev
    PROVE  FindBond(s, dev) \in s.used \cup {PeerIdInvalid}
<1> DEFINE match == {i \in Ids : s.bond[i] = dev}
<1>1. CASE match = {}
  BY <1>1 DEF FindBond
<1>2. CASE match # {}
  <2>1. match \subseteq Nat
    BY IdsAre
  <2>2. FindBond(s, dev) = Min(match)
    BY <1>2 DEF FindBond
  <2> HIDE DEF match
  <2>3. Min(match) \in match
    BY <1>2, <2>1, MinIn
  <2>4. \A i \in match : i \in Ids /\ Bonds(s, i)
    BY DEF match, Bonds, HasBond
  <2> QED BY <2>2, <2>3, <2>4 DEF Intact
<1> QED BY <1>1, <1>2
-------------------------------------------------------------------------------
\* The stack's steps keep the invariant.

\* one more event
LEMMA AnnounceSpared ==
    ASSUME NEW s, NEW b, Spared(s), Told(s), IsState(b), b.evts = s.evts,
           \A f \in IntactFields \cup {"connPeer", "secProc", "newPeer"} : b[f] = s[f],
           NEW id \in EventIds, NEW dev \in Others,
           id \in Starts => dev # NoDev,
           id \in Successes => s.sec \in Asking,
           id \in Ends => b.sec \notin Asking,
           b.sec \in Asking => s.sec \in Asking \/ id = "SEC_PARAMS_REQUEST"
    PROVE  Spared(Event(b, id, dev))
<1> DEFINE e == [id |-> id, dev |-> dev]
           t == Event(b, id, dev)
           n == Len(s.evts)
<1>1. e \in Events /\ e.id = id /\ e.dev = dev
  BY DEF Events
<1>2. /\ IsState(t) /\ t.evts = Append(s.evts, e)
      /\ \A f \in Fields \ {"evts"} : t[f] = b[f]
  BY EventFields
<1> HIDE DEF e, t
<1>3. /\ \A f \in IntactFields : t[f] = s[f]
      /\ t.connPeer = s.connPeer /\ t.secProc = s.secProc
      /\ t.newPeer = s.newPeer /\ t.sec = b.sec
  <2>1. \A f \in IntactFields \cup {"connPeer", "secProc", "newPeer", "sec"} :
            f \in Fields \ {"evts"}
    BY DEF IntactFields, Fields
  <2> QED BY <1>2, <2>1
<1>4. Held(t)
  <2>1. Intact(s) /\ s.connPeer \in s.used \cup {PeerIdInvalid}
    BY DEF Spared, Held, Intact
  <2>2. Intact(t) /\ \A i : Bonds(t, i) <=> Bonds(s, i)
    BY <1>2, <1>3, <2>1, IntactOf
  <2> QED BY <1>3, <2>2 DEF Spared, Held, Pairs
<1>5. /\ s.evts \in Seq(Events)
      /\ n \in Nat /\ Len(t.evts) = n + 1 /\ t.evts[n + 1] = e
      /\ \A k \in 1 .. n : t.evts[k] = s.evts[k]
  BY <1>1, <1>2 DEF Told
<1> HIDE DEF n
<1>6. ASSUME NEW j \in 0 .. n, Renewed(s.evts, s.sec, j)
      PROVE  Renewed(t.evts, t.sec, j)
  BY <1>1, <1>2, <1>3, <1>5, <1>6, RenewedAppend DEF n
<1>7. ASSUME NEW j \in 1 .. n + 1, t.evts[j].id \in Ends
      PROVE  Renewed(t.evts, t.sec, j)
  <2>1. CASE j \in 1 .. n
    BY <1>5, <1>6, <1>7, <2>1 DEF Spared, Tells, n
  <2>2. CASE j = n + 1
    <3>1. t.sec \notin Asking
      BY <1>1, <1>3, <1>5, <1>7, <2>2
    <3>2. \A k \in j + 1 .. n + 1 : FALSE
      BY <1>5, <2>2
    <3> QED BY <1>5, <3>1, <3>2 DEF Renewed
  <2> QED BY <1>5, <1>7, <2>1, <2>2
<1>8. ASSUME NEW k \in 1 .. n + 1, t.evts[k].id \in Starts
      PROVE  t.evts[k].dev # NoDev
  <2>1. CASE k \in 1 .. n
    BY <1>5, <1>8, <2>1 DEF Spared, Tells, n
  <2>2. CASE k = n + 1
    BY <1>1, <1>5, <1>8, <2>2
  <2> QED BY <1>5, <1>8, <2>1, <2>2
<1>9. Tells(t)
  BY <1>5, <1>7, <1>8 DEF Tells
<1>10. Spent(t) => Renewed(t.evts, t.sec, 0)
  <2>1. Spent(t) => Renewed(s.evts, s.sec, 0)
    BY <1>3 DEF Spent, Spared
  <2>2. 0 \in 0 .. n
    BY <1>5
  <2> QED BY <1>6, <2>1, <2>2
<1> QED BY <1>4, <1>9, <1>10 DEF Spared, t

\* an event of a security procedure
LEMMA SecurityEventSpared ==
    ASSUME NEW s, Spared(s), Told(s), s.link # NoDev, NEW v, NEW id \in EventIds,
           id \in Successes => s.sec \in Asking,
           id \in Ends => v \notin Asking,
           v \in Asking => id = "SEC_PARAMS_REQUEST"
    PROVE  Spared(Event([s EXCEPT !.sec = v], id, s.link))
<1> DEFINE b == [s EXCEPT !.sec = v]
<1>1. /\ IsState(b) /\ b.sec = v /\ b.evts = s.evts
      /\ \A f \in IntactFields \cup {"connPeer", "secProc", "newPeer"} : b[f] = s[f]
  BY DEF Spared, Held, Intact, Shaped, IsState, Fields, IntactFields
<1>2. s.link \in Others
  BY DEF Told
<1> HIDE DEF b
<1>3. Spared(Event(b, id, s.link))
  BY <1>1, <1>2, AnnounceSpared
<1> QED BY <1>3 DEF b

\* The world's steps.
LEMMA EnvironmentSpared ==
    ASSUME Spared(fw), Told(fw), Environment PROVE Spared(fw')
<1>1. ASSUME NEW s, Spared(s), Becomes(s) PROVE Spared(fw')
  BY <1>1 DEF Becomes
<1>2. IsState(fw) /\ Shaped(fw)
  BY DEF Spared, Held, Intact, Shaped
<1>3. "none" \notin Asking /\ "info" \notin Asking
  BY DEF Asking
<1>4. ASSUME NEW d \in Devices, CentralConnects(d) PROVE Spared(fw')
  <2> DEFINE b == [fw EXCEPT !.radio = "off", !.link = d, !.sec = "none"]
  <2>1. /\ IsState(b) /\ b.sec = "none" /\ b.evts = fw.evts
        /\ \A f \in IntactFields \cup {"connPeer", "secProc", "newPeer"} : b[f] = fw[f]
    BY <1>2 DEF IsState, Fields, IntactFields
  <2>2. d \in Others /\ d # NoDev
    BY SoftDeviceAssumption DEF Others
  <2>3. /\ "CONNECTED" \in EventIds /\ "CONNECTED" \notin Successes
        /\ "CONNECTED" \notin Ends
    BY DEF EventIds, Successes, Ends
  <2>4. Becomes(Event(b, "CONNECTED", d))
    BY <1>4 DEF CentralConnects, LinkUp
  <2> HIDE DEF b
  <2>5. Spared(Event(b, "CONNECTED", d))
    BY <1>3, <2>1, <2>2, <2>3, AnnounceSpared
  <2> QED BY <1>1, <2>4, <2>5
<1>5. CASE LinkLost
  <2> DEFINE b == [fw EXCEPT !.link = NoDev, !.closing = FALSE, !.sec = "none"]
  <2>1. /\ IsState(b) /\ b.sec = "none" /\ b.evts = fw.evts
        /\ \A f \in IntactFields \cup {"connPeer", "secProc", "newPeer"} : b[f] = fw[f]
    BY <1>2 DEF IsState, Fields, IntactFields
  <2>2. fw.link \in Others
    BY DEF Told
  <2>3. /\ "DISCONNECTED" \in EventIds /\ "DISCONNECTED" \notin Successes
        /\ "DISCONNECTED" \notin Starts
    BY DEF EventIds, Successes, Starts
  <2>4. Becomes(Event(b, "DISCONNECTED", fw.link))
    BY <1>5 DEF LinkLost, LinkDown
  <2> HIDE DEF b
  <2>5. Spared(Event(b, "DISCONNECTED", fw.link))
    BY <1>3, <2>1, <2>2, <2>3, AnnounceSpared
  <2> QED BY <1>1, <2>4, <2>5
<1>6. CASE AdvertisingTimeout
  <2> DEFINE b == [fw EXCEPT !.radio = "off"]
  <2>1. /\ IsState(b) /\ b.sec = fw.sec /\ b.evts = fw.evts
        /\ \A f \in IntactFields \cup {"connPeer", "secProc", "newPeer"} : b[f] = fw[f]
    BY <1>2 DEF IsState, Fields, IntactFields
  <2>2. NoDev \in Others
    BY DEF Others
  <2>3. /\ "TIMEOUT" \in EventIds /\ "TIMEOUT" \notin Successes
        /\ "TIMEOUT" \notin Starts /\ "TIMEOUT" \notin Ends
    BY DEF EventIds, Successes, Starts, Ends
  <2>4. Becomes(Event(b, "TIMEOUT", NoDev))
    BY <1>6 DEF AdvertisingTimeout, AdvertisingEnds
  <2> HIDE DEF b
  <2>5. Spared(Event(b, "TIMEOUT", NoDev))
    BY <2>1, <2>2, <2>3, AnnounceSpared
  <2> QED BY <1>1, <2>4, <2>5
<1>7. CASE CentralPairs
  <2>1. fw.link # NoDev /\ Becomes(AskToPair(fw))
    BY <1>7 DEF CentralPairs, CanAsk
  <2>2. /\ "SEC_PARAMS_REQUEST" \in EventIds /\ "SEC_PARAMS_REQUEST" \notin Successes
        /\ "SEC_PARAMS_REQUEST" \notin Ends
    BY DEF EventIds, Successes, Ends
  <2>3. Spared(AskToPair(fw))
    BY <2>1, <2>2, SecurityEventSpared DEF AskToPair
  <2> QED BY <1>1, <2>1, <2>3
<1>8. CASE CentralEncrypts
  <2>1. fw.link # NoDev /\ Becomes(AskToEncrypt(fw))
    BY <1>8 DEF CentralEncrypts, CanAsk
  <2>2. "SEC_INFO_REQUEST" \in EventIds /\ "SEC_INFO_REQUEST" \notin Successes
    BY DEF EventIds, Successes
  <2>3. Spared(AskToEncrypt(fw))
    BY <1>3, <2>1, <2>2, SecurityEventSpared DEF AskToEncrypt
  <2> QED BY <1>1, <2>1, <2>3
<1>9. CASE SecurityProcedureEnds
  <2>1. PICK outcome \in Outcomes(fw.sec) : Becomes(SecurityEnds(fw, outcome))
    BY <1>9 DEF SecurityProcedureEnds
  <2>2. /\ outcome \in EventIds /\ fw.sec # "none"
        /\ outcome \in Successes => fw.sec \in Asking
    BY DEF Outcomes, EventIds, Successes, Asking
  <2>3. fw.link # NoDev
    BY <2>2 DEF Told
  <2>4. Spared(SecurityEnds(fw, outcome))
    BY <1>3, <2>2, <2>3, SecurityEventSpared DEF SecurityEnds
  <2> QED BY <1>1, <2>1, <2>4
<1>10. CASE ScanTimeElapses
  <2> DEFINE t == [fw EXCEPT !.scanTimer = "due"]
  <2>1. Spares(fw, t)
    BY <1>2, SparesRefl, SparesAssign DEF Fields, KeptFields, SparedFields
  <2>2. Becomes(t)
    BY <1>10 DEF ScanTimeElapses
  <2> HIDE DEF t
  <2> QED BY <1>1, <2>1, <2>2, SparesSpared
<1> QED BY <1>4, <1>5, <1>6, <1>7, <1>8, <1>9, <1>10 DEF Environment

-------------------------------------------------------------------------------
\* The handlers of the stack's events.

\* no pairing has an id, or none that is going on
LEMMA IntactSpared ==
    ASSUME NEW s, Intact(s), Tells(s), ~Pairs(s),
           s.newPeer => Renewed(s.evts, s.sec, 0)
    PROVE  Spared(s)
  BY DEF Spared, Held, Spent

\* conn_sec_failure
LEMMA ConnSecFailureSpared ==
    ASSUME NEW s, Intact(s), Tells(s), s.newPeer => Renewed(s.evts, s.sec, 0)
    PROVE  LET t == ConnSecFailure(s) IN
           /\ Spared(t) /\ t.secProc = "none"
           /\ t.evts = s.evts /\ t.sec = s.sec
<1> DEFINE ended == [s EXCEPT !.secProc = "none"]
<1>1. IsState(s) /\ s.connPeer \in s.used \cup {PeerIdInvalid}
  BY DEF Intact, Shaped
<1>2. /\ IsState(ended) /\ ended.secProc = "none"
      /\ \A f \in Fields \ {"secProc"} : ended[f] = s[f]
  BY <1>1 DEF IsState, Fields
<1>3. ConnSecFailure(s) = AppDisconnect(ended)
  BY DEF ConnSecFailure
<1> HIDE DEF ended
<1>4. /\ ended.evts = s.evts /\ ended.sec = s.sec /\ ended.newPeer = s.newPeer
      /\ ended.connPeer = s.connPeer /\ \A f \in IntactFields : ended[f] = s[f]
  BY <1>2 DEF Fields, IntactFields
<1>5. Intact(ended) /\ Tells(ended)
  BY <1>1, <1>2, <1>4, IntactOf DEF Tells
<1>6. Spared(ended) /\ Shaped(ended)
  BY <1>2, <1>4, <1>5, IntactSpared DEF Pairs, Intact
<1> DEFINE P == PeerPart
<1>7. /\ P \in SUBSET PeerPart /\ P \in SUBSET Parts
      /\ P \in SUBSET (PeerPart \cup NotesPart)
      /\ Turns(P, ended, ended)
  BY <1>2, TurnsRefl, PartsIs
<1> HIDE DEF P
<1>8. Turns(P, ended, AppDisconnect(ended))
  BY <1>7, AppDisconnectTurns
<1>9. Spares(ended, AppDisconnect(ended))
  BY <1>6, <1>8, TurnsSpare DEF P
<1>10. \A f \in {"evts", "sec", "secProc"} : AppDisconnect(ended)[f] = ended[f]
  BY <1>9 DEF Spares, Keeps, KeptFields
<1>11. Spared(AppDisconnect(ended))
  BY <1>6, <1>9, SparesSpared
<1> QED BY <1>2, <1>3, <1>4, <1>10, <1>11

\* link_secure_failure and pairing_failure
LEMMA LinkSecureFailureSpared ==
    ASSUME NEW s, Held(s), Tells(s), Renewed(s.evts, s.sec, 0)
    PROVE  LET t == LinkSecureFailure(s) IN
           /\ Spared(t) /\ t.secProc = "none"
           /\ Renewed(t.evts, t.sec, 0)
<1>1. Intact(s) /\ s.connPeer \in s.used \cup {PeerIdInvalid}
  BY DEF Held, Intact
<1>2. CASE s.secProc = "none"
  <2>1. LinkSecureFailure(s) = s /\ ~Pairs(s)
    BY <1>2 DEF LinkSecureFailure, Pairs
  <2> QED BY <1>1, <1>2, <2>1, IntactSpared
<1>3. CASE s.secProc # "none" /\ Pairs(s)
  <2> DEFINE freed == PeerFree(s, s.connPeer)
  <2>1. LinkSecureFailure(s) = ConnSecFailure(freed)
    BY <1>3 DEF LinkSecureFailure, Pairs
  <2>2. Intact(freed) /\ \A f \in Fields \ {"used", "deleted", "connPeer"} : freed[f] = s[f]
    BY <1>1, <1>3, FreeIntact DEF Held
  <2> HIDE DEF freed
  <2>3. freed.evts = s.evts /\ freed.sec = s.sec
    BY <2>2 DEF Fields
  <2>4. Tells(freed)
    BY <2>3 DEF Tells
  <2> QED BY <2>1, <2>2, <2>3, <2>4, ConnSecFailureSpared
<1>4. CASE s.secProc # "none" /\ ~Pairs(s)
  <2>1. LinkSecureFailure(s) = ConnSecFailure(s)
    BY <1>4 DEF LinkSecureFailure, Pairs
  <2> QED BY <1>1, <2>1, ConnSecFailureSpared
<1> QED BY <1>2, <1>3, <1>4

\* BLE_GAP_EVT_DISCONNECTED
LEMMA DisconnectedSpared ==
    ASSUME NEW s, Held(s), Tells(s), Renewed(s.evts, s.sec, 0)
    PROVE  Spared(AppDisconnected(SmdDisconnected(OnDisconnected(s))))
<1> DEFINE adv   == OnDisconnected(s)
           ended == LinkSecureFailure(adv)
           g     == [ended EXCEPT !.connPeer = PeerIdInvalid]
           t     == AppDisconnected(g)
           P     == PeerPart
<1>1. IsState(s) /\ Shaped(s) /\ Spared(s)
  BY DEF Held, Intact, Shaped, Spared
<1>2. /\ P \in SUBSET PeerPart /\ P \in SUBSET Parts
      /\ P \in SUBSET (PeerPart \cup NotesPart)
      /\ Turns(P, s, s)
  BY <1>1, TurnsRefl, PartsIs
<1> HIDE DEF P
<1>3. Turns(P, s, adv)
  BY <1>2, OnDisconnectedTurns
<1> HIDE DEF adv
<1>4. Spares(s, adv)
  BY <1>1, <1>3, TurnsSpare DEF P
<1>5. adv.evts = s.evts /\ adv.sec = s.sec
  BY <1>4 DEF Spares, Keeps, KeptFields
<1>6. Spared(adv)
  BY <1>1, <1>4, SparesSpared
<1>7. Spared(ended) /\ ended.secProc = "none" /\ Renewed(ended.evts, ended.sec, 0)
  BY <1>5, <1>6, LinkSecureFailureSpared DEF Spared
<1> HIDE DEF ended
<1>8. IsState(ended) /\ Intact(ended) /\ Tells(ended)
  BY <1>7 DEF Spared, Held, Intact, Shaped
<1>9. /\ IsState(t) /\ t.connPeer = PeerIdInvalid /\ t.secProc = "none"
      /\ t.evts = ended.evts /\ t.sec = ended.sec
      /\ \A f \in IntactFields : t[f] = ended[f]
  BY <1>7, <1>8 DEF AppDisconnected, IsState, Fields, IntactFields
<1>10. SmdDisconnected(adv) = g
  BY DEF SmdDisconnected, ended
<1> HIDE DEF t
<1>11. Intact(t) /\ Tells(t)
  BY <1>8, <1>9, IntactOf DEF Tells
<1>12. Spared(t)
  BY <1>7, <1>9, <1>11, IntactSpared DEF Pairs
<1> QED BY <1>10, <1>12 DEF t, adv

\* the application hears of a connection that is secure
LEMMA SucceededSpared ==
    ASSUME NEW s, Spared(s) PROVE Spared(ConnSecSucceeded(s))
<1>1. Shaped(s)
  BY DEF Spared, Held, Intact
<1> QED BY <1>1, ConnSecSucceededSpares, SparesSpared

\* an error is checked or passed over
LEMMA ReplyFailedSpared ==
    ASSUME NEW s, Spared(s)
    PROVE  Spared(ReplyFailed(s)) /\ Spared(ErrorUnexpected(s))
<1> DEFINE P == PeerPart
<1>1. IsState(s) /\ "PM_EVT_ERROR_UNEXPECTED" # NoFault
  BY DEF Spared, Held, Intact, Shaped, NoFault
<1>2. /\ P \in SUBSET PeerPart /\ P \in SUBSET Parts
      /\ P \in SUBSET (PeerPart \cup NotesPart)
      /\ Turns(P, s, s)
  BY <1>1, TurnsRefl, PartsIs
<1> HIDE DEF P
<1>3. Turns(P, s, ErrorUnexpected(s))
  BY <1>1, <1>2, Checks DEF ErrorUnexpected
<1>4. Spared(ErrorUnexpected(s))
  BY <1>3, TurnsSpared DEF P
<1> QED BY <1>4 DEF ReplyFailed

\* BLE_GAP_EVT_AUTH_STATUS, bonded: the id gets the bond, or the device has one
\* under another id and this one, which has none, is freed
LEMMA AuthBondedSpared ==
    ASSUME NEW s, Held(s), Tells(s), ~Spent(s), Renewed(s.evts, s.sec, 0),
           NEW dev, dev # NoDev
    PROVE  Spared(AuthBonded(s, dev))
<1> DEFINE other == FindBond(s, dev)
           ended == [s EXCEPT !.secProc = "none"]
           known == [ended EXCEPT !.connPeer = other]
           put   == FdsPut(ended, "bond", s.connPeer, dev)
           freed == PeerFree(known, s.connPeer)
<1>1. Intact(s) /\ IsState(s) /\ s.connPeer \in s.used \cup {PeerIdInvalid}
  BY DEF Held, Intact, Shaped
<1>2. other \in s.used \cup {PeerIdInvalid}
  BY <1>1, FindBondIs
<1> DEFINE none == Return(ended, "INVALID_PARAM")
<1>3. \/ AuthBonded(s, dev) = ErrorUnexpected(none)
      \/ AuthBonded(s, dev) = ConnSecSucceeded(put)
      \/ s.newPeer /\ AuthBonded(s, dev) = ConnSecSucceeded(freed)
      \/ ~s.newPeer /\ AuthBonded(s, dev) = ConnSecSucceeded(known)
  BY DEF AuthBonded
<1> HIDE DEF other
<1>4. /\ IsState(ended) /\ ended.secProc = "none"
      /\ ended.evts = s.evts /\ ended.sec = s.sec /\ ended.newPeer = s.newPeer
      /\ ended.connPeer = s.connPeer /\ \A f \in IntactFields : ended[f] = s[f]
  BY <1>1 DEF IsState, Fields, IntactFields
<1>5. /\ IsState(known) /\ known.secProc = "none"
      /\ known.evts = s.evts /\ known.sec = s.sec /\ known.newPeer = s.newPeer
      /\ known.connPeer = other /\ \A f \in IntactFields : known[f] = s[f]
  BY <1>1 DEF IsState, Fields, IntactFields
<1> HIDE DEF ended, known
<1>6. /\ Intact(ended) /\ \A i : Bonds(ended, i) <=> Bonds(s, i)
      /\ Intact(known) /\ \A i : Bonds(known, i) <=> Bonds(s, i)
  BY <1>1, <1>2, <1>4, <1>5, IntactOf
<1>7. Tells(ended) /\ Tells(known)
  BY <1>4, <1>5 DEF Tells
<1>8. Spared(put)
  <2> DEFINE e == [op |-> "bond", id |-> s.connPeer, dev |-> dev]
             q == Append(ended.fdsq, e)
  <2>1. put = [ended EXCEPT !.fdsq = q]
    BY DEF FdsPut
  <2>2. /\ IsSeq(ended.fdsq) /\ IsSeq(q) /\ Len(ended.fdsq) \in Nat
        /\ Len(q) = Len(ended.fdsq) + 1 /\ q[Len(ended.fdsq) + 1] = e
        /\ \A k \in 1 .. Len(ended.fdsq) : q[k] = ended.fdsq[k]
        /\ DOMAIN q = 1 .. Len(q) /\ DOMAIN ended.fdsq = 1 .. Len(ended.fdsq)
    BY <1>6, AppendIs, SeqIs DEF Intact, Shaped
  <2>3. e.op = "bond" /\ e.id = s.connPeer
    OBVIOUS
  <2> HIDE DEF e, q, put
  <2>4. IsState(put) /\ put.fdsq = q /\ \A f \in Fields \ {"fdsq"} : put[f] = ended[f]
    BY <1>4, <2>1 DEF IsState, Fields
  <2>5. /\ put.bond = ended.bond /\ put.used = ended.used
        /\ put.deleted = ended.deleted /\ put.isDeleteBonds = ended.isDeleteBonds
        /\ put.orderRecs = ended.orderRecs /\ put.connPeer = s.connPeer
        /\ put.evts = s.evts /\ put.sec = s.sec /\ put.secProc = "none"
        /\ ended.used = s.used
    BY <1>4, <2>4 DEF Fields, IntactFields
  <2>6. ASSUME NEW k \in DOMAIN put.fdsq
        PROVE  \/ k \in DOMAIN ended.fdsq /\ put.fdsq[k] = ended.fdsq[k]
               \/ put.fdsq[k].op = "bond" /\ put.fdsq[k].id = s.connPeer
    <3>1. k \in 1 .. Len(ended.fdsq) \/ k = Len(ended.fdsq) + 1
      BY <2>2, <2>4
    <3> QED BY <2>2, <2>3, <2>4, <3>1
  <2>7. ASSUME NEW i, Bonds(put, i) PROVE Bonds(ended, i) \/ i = s.connPeer
    BY <2>5, <2>6, <2>7 DEF Bonds, HasBond, HasOp
  <2>8. \A i \in Ids : Bonds(put, i) => i \in put.used
    BY <1>1, <1>6, <2>5, <2>7, IdsAre DEF Intact
  <2>9. \A k \in DOMAIN put.fdsq : put.fdsq[k].op # "delete"
    BY <1>6, <2>6 DEF Intact
  <2>10. Intact(put)
    BY <1>1, <1>6, <2>2, <2>4, <2>5, <2>8, <2>9 DEF Intact, Shaped
  <2>11. Tells(put)
    BY <2>5 DEF Tells
  <2> QED BY <2>5, <2>10, <2>11, IntactSpared DEF Pairs
<1>9. ~s.newPeer => Spared(known)
  BY <1>5, <1>6, <1>7, IntactSpared DEF Pairs
<1>10. s.newPeer => Spared(freed)
  <2> SUFFICES ASSUME s.newPeer PROVE Spared(freed)
    OBVIOUS
  <2>1. ~Bonds(known, s.connPeer)
    BY <1>6 DEF Held, Spent, Pairs
  <2>2. s.connPeer \in known.used \cup {PeerIdInvalid}
    BY <1>1, <1>5 DEF IntactFields
  <2>3. Intact(freed) /\ \A f \in Fields \ {"used", "deleted", "connPeer"} : freed[f] = known[f]
    BY <1>6, <2>1, <2>2, FreeIntact
  <2> HIDE DEF freed
  <2>4. freed.evts = s.evts /\ freed.sec = s.sec /\ freed.secProc = "none"
    BY <1>5, <2>3 DEF Fields
  <2>5. Tells(freed)
    BY <2>4 DEF Tells
  <2> QED BY <2>3, <2>4, <2>5, IntactSpared DEF Pairs
<1>11. Spared(ErrorUnexpected(none))
  <2> DEFINE P == PeerPart
  <2>1. Spared(ended)
    BY <1>4, <1>6, <1>7, IntactSpared DEF Pairs
  <2>2. P \in SUBSET Parts /\ Turns(P, ended, ended)
    BY <1>4, TurnsRefl, PartsIs
  <2> HIDE DEF P
  <2>3. Turns(P, ended, none)
    BY <2>2, Returns
  <2> HIDE DEF none
  <2>4. Spared(none)
    BY <2>1, <2>3, TurnsSpared DEF P
  <2> QED BY <2>4, ReplyFailedSpared
<1> HIDE DEF put, freed, none
<1> QED BY <1>3, <1>8, <1>9, <1>10, <1>11, SucceededSpared

\* BLE_GAP_EVT_AUTH_STATUS, not bonded
LEMMA AuthPairedSpared ==
    ASSUME NEW s, Held(s), Tells(s), ~Spent(s), Renewed(s.evts, s.sec, 0)
    PROVE  Spared(AuthPaired(s))
<1> DEFINE ended == [s EXCEPT !.secProc = "none"]
           freed == PeerFree(ended, s.connPeer)
<1>1. Intact(s) /\ IsState(s) /\ s.connPeer \in s.used \cup {PeerIdInvalid}
  BY DEF Held, Intact, Shaped
<1>2. \/ s.newPeer  /\ AuthPaired(s) = ConnSecSucceeded(freed)
      \/ ~s.newPeer /\ AuthPaired(s) = ConnSecSucceeded(ended)
  BY DEF AuthPaired
<1>3. /\ IsState(ended) /\ ended.secProc = "none"
      /\ ended.evts = s.evts /\ ended.sec = s.sec /\ ended.newPeer = s.newPeer
      /\ ended.connPeer = s.connPeer /\ \A f \in IntactFields : ended[f] = s[f]
  BY <1>1 DEF IsState, Fields, IntactFields
<1> HIDE DEF ended
<1>4. /\ Intact(ended) /\ \A i : Bonds(ended, i) <=> Bonds(s, i)
      /\ Tells(ended)
  BY <1>1, <1>3, IntactOf DEF Tells
<1>5. ~s.newPeer => Spared(ended)
  BY <1>3, <1>4, IntactSpared DEF Pairs
<1>6. s.newPeer => Spared(freed)
  <2> SUFFICES ASSUME s.newPeer PROVE Spared(freed)
    OBVIOUS
  <2>1. ~Bonds(ended, s.connPeer)
    BY <1>4 DEF Held, Spent, Pairs
  <2>2. s.connPeer \in ended.used \cup {PeerIdInvalid}
    BY <1>1, <1>3 DEF IntactFields
  <2>3. Intact(freed) /\ \A f \in Fields \ {"used", "deleted", "connPeer"} : freed[f] = ended[f]
    BY <1>4, <2>1, <2>2, FreeIntact
  <2> HIDE DEF freed
  <2>4. freed.evts = s.evts /\ freed.sec = s.sec /\ freed.secProc = "none"
    BY <1>3, <2>3 DEF Fields
  <2>5. Tells(freed)
    BY <2>4 DEF Tells
  <2> QED BY <2>3, <2>4, <2>5, IntactSpared DEF Pairs
<1> HIDE DEF freed
<1> QED BY <1>2, <1>5, <1>6, SucceededSpared

\* BLE_GAP_EVT_CONN_SEC_UPDATE
LEMMA ConnSecUpdateSpared ==
    ASSUME NEW s, Spared(s), NEW isEncrypted \in BOOLEAN
    PROVE  Spared(ConnSecUpdateProcess(s, isEncrypted))
<1> DEFINE ended == [s EXCEPT !.secProc = "none"]
<1>1. CASE s.secProc = "pairing"
  BY <1>1 DEF ConnSecUpdateProcess
<1>2. CASE s.secProc # "pairing"
  <2>1. /\ Intact(s) /\ Tells(s) /\ IsState(s)
        /\ s.newPeer => Renewed(s.evts, s.sec, 0)
        /\ s.connPeer \in s.used \cup {PeerIdInvalid}
    BY <1>2 DEF Spared, Held, Spent, Intact, Shaped
  <2>2. /\ IsState(ended) /\ ended.secProc = "none"
        /\ ended.evts = s.evts /\ ended.sec = s.sec /\ ended.newPeer = s.newPeer
        /\ ended.connPeer = s.connPeer /\ \A f \in IntactFields : ended[f] = s[f]
    BY <2>1 DEF IsState, Fields, IntactFields
  <2>3. ConnSecUpdateProcess(s, isEncrypted) =
           IF isEncrypted THEN ConnSecSucceeded(ended) ELSE ConnSecFailure(s)
    BY <1>2 DEF ConnSecUpdateProcess
  <2> HIDE DEF ended
  <2>4. Intact(ended) /\ Tells(ended)
    BY <2>1, <2>2, IntactOf DEF Tells
  <2>5. Spared(ConnSecSucceeded(ended))
    BY <2>1, <2>2, <2>4, IntactSpared, SucceededSpared DEF Pairs
  <2>6. Spared(ConnSecFailure(s))
    BY <2>1, ConnSecFailureSpared
  <2> QED BY <2>3, <2>5, <2>6
<1> QED BY <1>1, <1>2
-------------------------------------------------------------------------------
\* an answer to what the stack has asked for
LEMMA ReplyIntact ==
    ASSUME NEW s, Intact(s), Tells(s), NEW asked, NEW next,
           next \in Asking => asked \in Asking
    PROVE  LET r == SdSecReply(s, asked, next) IN
           /\ Intact(r) /\ Tells(r)
           /\ \A f \in Fields \ {"sec", "ret"} : r[f] = s[f]
           /\ \A i : Bonds(r, i) <=> Bonds(s, i)
<1> DEFINE r == SdSecReply(s, asked, next)
<1>1. IsState(s) /\ s.connPeer \in s.used \cup {PeerIdInvalid}
  BY DEF Intact, Shaped
<1>2. /\ IsState(r)
      /\ \A f \in Fields \ {"sec", "ret"} : r[f] = s[f]
      /\ r.sec = s.sec \/ (s.sec = asked /\ r.sec = next)
  <2>1. CASE s.link = NoDev
    BY <1>1, <2>1 DEF SdSecReply, Return, IsState, Fields
  <2>2. CASE s.link # NoDev /\ s.sec # asked
    BY <1>1, <2>2 DEF SdSecReply, Return, IsState, Fields
  <2>3. CASE s.link # NoDev /\ s.sec = asked
    <3>1. r = [s EXCEPT !.sec = next, !.ret = "SUCCESS"]
      BY <2>3 DEF SdSecReply
    <3> QED BY <1>1, <2>3, <3>1 DEF IsState, Fields
  <2> QED BY <2>1, <2>2, <2>3
<1> HIDE DEF r
<1>3. r.evts = s.evts /\ r.connPeer = s.connPeer /\ \A f \in IntactFields : r[f] = s[f]
  BY <1>2 DEF Fields, IntactFields
<1>4. Intact(r) /\ \A i : Bonds(r, i) <=> Bonds(s, i)
  BY <1>1, <1>2, <1>3, IntactOf
<1>5. \A j : Renewed(s.evts, s.sec, j) => Renewed(r.evts, r.sec, j)
  BY <1>2, <1>3, RenewedSec
<1>6. Tells(r)
  BY <1>3, <1>5 DEF Tells
<1> QED BY <1>2, <1>4, <1>6 DEF r

\* a procedure starts
LEMMA IntactStart ==
    ASSUME NEW s, Intact(s), Tells(s), NEW procedure
    PROVE  LET t == SecProcStart(s, procedure) IN
           /\ Intact(t) /\ Tells(t)
           /\ t.secProc = procedure
           /\ ~t.newPeer
           /\ \A f \in Fields \ {"secProc", "newPeer"} : t[f] = s[f]
           /\ \A i : Bonds(t, i) <=> Bonds(s, i)
<1> DEFINE t == SecProcStart(s, procedure)
<1>1. IsState(s) /\ s.connPeer \in s.used \cup {PeerIdInvalid}
  BY DEF Intact, Shaped
<1>2. /\ IsState(t) /\ t.secProc = procedure /\ ~t.newPeer
      /\ \A f \in Fields \ {"secProc", "newPeer"} : t[f] = s[f]
  BY <1>1 DEF SecProcStart, IsState, Fields
<1> HIDE DEF t
<1>3. /\ t.evts = s.evts /\ t.sec = s.sec /\ t.connPeer = s.connPeer
      /\ \A f \in IntactFields : t[f] = s[f]
  BY <1>2 DEF Fields, IntactFields
<1>4. Intact(t) /\ \A i : Bonds(t, i) <=> Bonds(s, i)
  BY <1>1, <1>2, <1>3, IntactOf
<1>5. Tells(t)
  BY <1>3 DEF Tells
<1> QED BY <1>2, <1>4, <1>5 DEF t

\* BLE_GAP_EVT_SEC_PARAMS_REQUEST: the id that a pairing is given is in use by no
\* one, so it has no bond and will have none
LEMMA SecParamsRequestSpared ==
    ASSUME NEW s, Intact(s), Tells(s) PROVE Spared(SecParamsRequestProcess(s))
<1> DEFINE started == SecProcStart(s, "pairing")
<1>1. /\ Intact(started) /\ Tells(started)
      /\ ~started.newPeer /\ started.secProc = "pairing"
      /\ \A f \in Fields \ {"secProc", "newPeer"} : started[f] = s[f]
  BY IntactStart
<1> DEFINE new     == Min(Unallocated(s))
           more    == [started EXCEPT !.used = @ \cup {new}]
           reply   == SdSecReply(more, "params", "pairing")
           refuse  == SdSecReply(started, "params", "rejected")
           begun   == [reply EXCEPT !.newPeer = TRUE, !.connPeer = new]
           freed   == PeerFree(reply, new)
           full    == Return(started, "INTERNAL")
<1>2. /\ s.connPeer # PeerIdInvalid => SecParamsRequestProcess(s) = ReplyFailed(refuse)
      /\ s.connPeer = PeerIdInvalid /\ Unallocated(s) = {}
            => SecParamsRequestProcess(s) = ReplyFailed(full)
      /\ s.connPeer = PeerIdInvalid /\ Unallocated(s) # {} /\ reply.ret = "SUCCESS"
            => SecParamsRequestProcess(s) = begun
      /\ s.connPeer = PeerIdInvalid /\ Unallocated(s) # {} /\ reply.ret # "SUCCESS"
            => SecParamsRequestProcess(s) = ReplyFailed(freed)
  BY DEF SecParamsRequestProcess
<1>3. started.used = s.used
  BY <1>1 DEF Fields
<1>4. "params" \in Asking /\ "rejected" \notin Asking
  BY DEF Asking
<1>5. IsState(started) /\ started.connPeer \in started.used \cup {PeerIdInvalid}
  BY <1>1 DEF Intact, Shaped
<1> HIDE DEF started
<1>6. Spared(ReplyFailed(refuse))
  <2>1. /\ Intact(refuse) /\ Tells(refuse)
        /\ \A f \in Fields \ {"sec", "ret"} : refuse[f] = started[f]
    BY <1>1, <1>4, ReplyIntact
  <2> HIDE DEF refuse
  <2>2. ~refuse.newPeer
    BY <1>1, <2>1 DEF Fields
  <2> QED BY <2>1, <2>2, IntactSpared, ReplyFailedSpared DEF Pairs
<1>7. Spared(ReplyFailed(full))
  <2>1. /\ IsState(full) /\ ~full.newPeer
        /\ full.evts = started.evts /\ full.sec = started.sec
        /\ full.connPeer = started.connPeer
        /\ \A f \in IntactFields : full[f] = started[f]
    BY <1>1, <1>5 DEF Return, IsState, Fields, IntactFields
  <2> HIDE DEF full
  <2>2. Intact(full) /\ Tells(full)
    BY <1>1, <1>5, <2>1, IntactOf DEF Tells
  <2> QED BY <2>1, <2>2, IntactSpared, ReplyFailedSpared DEF Pairs
<1>8. ASSUME Unallocated(s) # {}
      PROVE  Spared(begun) /\ Spared(ReplyFailed(freed))
  <2>1. new \in Ids /\ new \notin s.used
    <3>1. Unallocated(s) \subseteq Nat
      BY IdsAre DEF Unallocated
    <3>2. new \in Unallocated(s)
      BY <1>8, <3>1, MinIn
    <3> QED BY <3>2 DEF Unallocated
  <2> HIDE DEF new
  <2>2. ~Bonds(started, new)
    BY <1>1, <1>3, <2>1 DEF Intact
  <2>3. /\ IsState(more) /\ more.used = started.used \cup {new}
        /\ \A f \in Fields \ {"used"} : more[f] = started[f]
    BY <1>5 DEF IsState, Fields
  <2> HIDE DEF more
  <2>4. /\ more.evts = started.evts /\ more.sec = started.sec
        /\ more.bond = started.bond /\ more.deleted = started.deleted
        /\ more.fdsq = started.fdsq /\ more.orderRecs = started.orderRecs
        /\ more.isDeleteBonds = started.isDeleteBonds
        /\ more.connPeer = started.connPeer
        /\ ~more.newPeer /\ more.secProc = "pairing"
    BY <1>1, <2>3 DEF Fields
  <2>5. \A i : Bonds(more, i) <=> Bonds(started, i)
    BY <2>4 DEF Bonds, HasBond, HasOp
  <2>6. Intact(more) /\ Tells(more)
    BY <1>1, <1>5, <2>1, <2>3, <2>4, <2>5 DEF Intact, Shaped, Tells
  <2>7. /\ Intact(reply) /\ Tells(reply)
        /\ \A f \in Fields \ {"sec", "ret"} : reply[f] = more[f]
        /\ \A i : Bonds(reply, i) <=> Bonds(more, i)
    BY <1>4, <2>6, ReplyIntact
  <2> HIDE DEF reply
  <2>8. /\ IsState(reply) /\ ~reply.newPeer /\ reply.secProc = "pairing"
        /\ new \in reply.used /\ ~Bonds(reply, new)
    BY <2>2, <2>3, <2>4, <2>5, <2>7 DEF Fields, Intact, Shaped
  <2>9. Spared(begun)
    <3>1. /\ IsState(begun) /\ begun.newPeer = TRUE /\ begun.connPeer = new
          /\ begun.secProc = "pairing"
          /\ begun.evts = reply.evts /\ begun.sec = reply.sec
          /\ \A f \in IntactFields : begun[f] = reply[f]
      BY <2>8 DEF IsState, Fields, IntactFields
    <3> HIDE DEF begun
    <3>2. Intact(begun) /\ \A i : Bonds(begun, i) <=> Bonds(reply, i)
      BY <2>7, <2>8, <3>1, IntactOf
    <3>3. Tells(begun)
      BY <2>7, <3>1 DEF Tells
    <3> QED BY <2>8, <3>1, <3>2, <3>3 DEF Spared, Held, Spent
  <2>10. Spared(ReplyFailed(freed))
    <3>1. /\ Intact(freed)
          /\ \A f \in Fields \ {"used", "deleted", "connPeer"} : freed[f] = reply[f]
      BY <2>7, <2>8, FreeIntact
    <3> HIDE DEF freed
    <3>2. freed.evts = reply.evts /\ freed.sec = reply.sec /\ ~freed.newPeer
      BY <2>8, <3>1 DEF Fields
    <3>3. Tells(freed)
      BY <2>7, <3>2 DEF Tells
    <3> QED BY <3>1, <3>2, <3>3, IntactSpared, ReplyFailedSpared DEF Pairs
  <2> QED BY <2>9, <2>10
<1> HIDE DEF refuse, full, begun, freed, reply
<1> QED BY <1>2, <1>6, <1>7, <1>8

\* BLE_GAP_EVT_SEC_INFO_REQUEST
LEMMA SecInfoRequestSpared ==
    ASSUME NEW s, Intact(s), Tells(s), NEW dev, dev # NoDev
    PROVE  Spared(SecInfoRequestProcess(s, dev))
<1> DEFINE byKey   == FindBond(s, dev)
           peer    == IF byKey = PeerIdInvalid THEN s.connPeer ELSE byKey
           here    == [s EXCEPT !.connPeer = peer]
           started == SecProcStart(here, "encryption")
           next    == IF HasBond(s, peer) THEN "encrypting" ELSE "none"
           reply   == SdSecReply(started, "info", next)
<1>1. \/ SecInfoRequestProcess(s, dev) = ErrorUnexpected(reply)
      \/ SecInfoRequestProcess(s, dev) = reply
      \/ SecInfoRequestProcess(s, dev) = ConnSecFailure(reply)
  BY DEF SecInfoRequestProcess
<1>2. IsState(s) /\ s.connPeer \in s.used \cup {PeerIdInvalid}
  BY DEF Intact, Shaped
<1>3. peer \in s.used \cup {PeerIdInvalid} /\ next \notin Asking
  BY <1>2, FindBondIs DEF Asking
<1> HIDE DEF peer, next
<1>4. /\ IsState(here) /\ here.connPeer = peer
      /\ here.evts = s.evts /\ here.sec = s.sec
      /\ \A f \in IntactFields : here[f] = s[f]
  BY <1>2 DEF IsState, Fields, IntactFields
<1> HIDE DEF here
<1>5. Intact(here) /\ Tells(here)
  BY <1>3, <1>4, IntactOf DEF Tells
<1>6. Intact(started) /\ Tells(started) /\ ~started.newPeer
  BY <1>5, IntactStart
<1> HIDE DEF started
<1>7. /\ Intact(reply) /\ Tells(reply)
      /\ \A f \in Fields \ {"sec", "ret"} : reply[f] = started[f]
  BY <1>3, <1>6, ReplyIntact
<1> HIDE DEF reply
<1>8. ~reply.newPeer
  BY <1>6, <1>7 DEF Fields
<1>9. Spared(reply) /\ Spared(ConnSecFailure(reply))
  BY <1>7, <1>8, IntactSpared, ConnSecFailureSpared DEF Pairs
<1> QED BY <1>1, <1>9, ReplyFailedSpared

\* BLE_GAP_EVT_CONNECTED: no pairing is going on, for its flag is cleared
LEMMA ConnectedSpared ==
    ASSUME NEW s, Intact(s), Tells(s), NEW dev, dev # NoDev
    PROVE  Spared(AppConnected(ImConnected(s, dev)))
<1> DEFINE P == PeerPart
<1>1. /\ P \in SUBSET PeerPart /\ P \in SUBSET Parts
      /\ P \in SUBSET (PeerPart \cup NotesPart)
      /\ \A t : IsState(t) => Turns(P, t, t)
  BY TurnsRefl, PartsIs
<1>2. \A t, u : Spared(t) /\ Turns(P, t, u) => Spared(u)
  BY TurnsSpared
<1> HIDE DEF P
<1>3. \A t : Spared(t) => Shaped(t) /\ IsState(t)
  BY DEF Spared, Held, Intact, Shaped
<1>4. ASSUME NEW t, Spared(t) PROVE Spared(AppConnected(t))
  <2> DEFINE here == [t EXCEPT !.connHandle = TRUE]
             deaf == [here EXCEPT !.isRealAdv = FALSE]
             made == [deaf EXCEPT !.connectState = "CONNECT"]
  <2>1. AppConnected(t) = here \/ AppConnected(t) = ProcConnect(made)
    BY DEF AppConnected
  <2>2. Spares(t, here)
    BY <1>3, <1>4, SparesRefl, SparesAssign DEF Fields, KeptFields, SparedFields
  <2> HIDE DEF here
  <2>3. Spares(t, deaf)
    BY <1>3, <1>4, <2>2, SparesAssign DEF Fields, KeptFields, SparedFields
  <2> HIDE DEF deaf
  <2>4. Spares(t, made)
    BY <1>3, <1>4, <2>3, SparesAssign DEF Fields, KeptFields, SparedFields
  <2> HIDE DEF made
  <2>5. Spared(here) /\ Spared(made)
    BY <1>4, <2>2, <2>4, SparesSpared
  <2>6. Spared(ProcConnect(made))
    BY <1>1, <1>2, <1>3, <2>5, ProcConnectTurns
  <2> QED BY <2>1, <2>5, <2>6
<1> DEFINE id    == FindBond(s, dev)
           new   == [s EXCEPT !.newPeer = FALSE, !.connPeer = id]
           known == [new EXCEPT !.isPrevConn   = TRUE,
                                !.isRealAdv    = FALSE,
                                !.connectState = "CONNECT"]
<1>5. IsState(s) /\ id \in s.used \cup {PeerIdInvalid}
  BY FindBondIs DEF Intact, Shaped
<1>6. \/ ImConnected(s, dev) = new
      \/ ImConnected(s, dev) = StartConnect(known, new.connPeer)
  BY DEF ImConnected, RecordPurgeDisconnected, BondedPeerConnected
<1> HIDE DEF id
<1>7. ASSUME NEW t, IsState(t), t.connPeer = id, t.newPeer = FALSE,
             t.evts = s.evts, t.sec = s.sec,
             \A f \in IntactFields : t[f] = s[f]
      PROVE  Spared(t)
  <2>1. Intact(t) /\ Tells(t)
    BY <1>5, <1>7, IntactOf DEF Tells
  <2> QED BY <1>7, <2>1, IntactSpared DEF Pairs
<1>8. /\ IsState(new) /\ new.connPeer = id
      /\ new.newPeer = FALSE /\ new.evts = s.evts /\ new.sec = s.sec
      /\ \A f \in IntactFields : new[f] = s[f]
  BY <1>5 DEF IsState, Fields, IntactFields
<1>9. /\ IsState(known) /\ known.connPeer = id
      /\ known.newPeer = FALSE /\ known.evts = s.evts /\ known.sec = s.sec
      /\ \A f \in IntactFields : known[f] = s[f]
  <2> HIDE DEF new
  <2> QED BY <1>8 DEF IsState, Fields, IntactFields
<1> HIDE DEF new, known
<1>10. Spared(new) /\ Spared(known)
  BY <1>7, <1>8, <1>9
<1>11. Spared(StartConnect(known, new.connPeer))
  BY <1>1, <1>2, <1>9, <1>10, StartConnectTurns
<1> QED BY <1>4, <1>6, <1>10, <1>11
\* the event the scheduler hands to the observers, and what is left
LEMMA FetchSpared ==
    ASSUME NEW s, Safe(s), Spared(s), s.evts # <<>>
    PROVE  LET f  == Fetch(s)
               id == Head(s.evts).id
           IN  /\ Held(f) /\ Tells(f) /\ IsState(f)
               /\ id \in Ends => Renewed(f.evts, f.sec, 0)
               /\ id \in Successes => ~Spent(f)
               /\ id \in Starts => ~Pairs(f)
               /\ id \in Starts \cup {"AUTH_BONDED"} => Head(s.evts).dev # NoDev
               /\ id \notin Ends \cup {"SEC_PARAMS_REQUEST"} => Spared(f)
<1> DEFINE f  == Fetch(s)
           id == Head(s.evts).id
<1>1. IsState(s) /\ Told(s) /\ Tells(s)
  BY DEF Safe, Busy, Formed, Shaped, Spared
<1>2. /\ id \in Starts => ~Pairs(f)
      /\ id = "AUTH_BONDED" => Head(s.evts).dev # NoDev
  BY FetchSafe
<1>3. /\ Tells(f)
      /\ id \in Ends => Renewed(f.evts, f.sec, 0)
      /\ id \in Starts => Head(s.evts).dev # NoDev
      /\ Renewed(s.evts, s.sec, 0) =>
            /\ id \notin Successes
            /\ id # "SEC_PARAMS_REQUEST" => Renewed(f.evts, f.sec, 0)
  BY <1>1, FetchTells
<1>4. IsState(f) /\ \A x \in Fields \ {"evts"} : f[x] = s[x]
  BY <1>1, FetchTold
<1> HIDE DEF f, id
<1>5. /\ f.connPeer = s.connPeer /\ f.secProc = s.secProc /\ f.newPeer = s.newPeer
      /\ \A x \in IntactFields : f[x] = s[x]
  BY <1>4 DEF Fields, IntactFields
<1>6. Intact(s) /\ s.connPeer \in s.used \cup {PeerIdInvalid}
  BY DEF Spared, Held, Intact
<1>7. Intact(f) /\ \A i : Bonds(f, i) <=> Bonds(s, i)
  BY <1>4, <1>5, <1>6, IntactOf
<1>8. Held(f)
  BY <1>5, <1>7 DEF Spared, Held, Pairs
<1>9. Spent(f) => Renewed(s.evts, s.sec, 0)
  BY <1>5 DEF Spared, Spent
<1>10. id \in Successes => ~Spent(f)
  BY <1>3, <1>9
<1>11. id \notin Ends \cup {"SEC_PARAMS_REQUEST"} => Spared(f)
  BY <1>3, <1>8, <1>9 DEF Spared
<1> QED BY <1>2, <1>3, <1>4, <1>8, <1>10, <1>11 DEF f, id

-------------------------------------------------------------------------------
\* The flash.

\* in the queue only operations that were in it, or one that is being done
LEMMA QueueSpared ==
    ASSUME NEW s, NEW t, Spared(s), Shaped(t),
           \A f \in Fields \ {"fdsq", "orderRecs", "gap"} : t[f] = s[f],
           \A k \in DOMAIN t.fdsq :
              \/ t.fdsq[k].op = "done"
              \/ \E m \in DOMAIN s.fdsq :
                    /\ t.fdsq[k].op = s.fdsq[m].op
                    /\ t.fdsq[k].op = "bond" => t.fdsq[k].id = s.fdsq[m].id
              \/ t.fdsq[k].op \in OrderOps
    PROVE  Spared(t)
<1>1. /\ t.bond = s.bond
      /\ \A f \in {"used", "deleted", "connPeer", "isDeleteBonds", "secProc",
                    "newPeer", "evts", "sec"} : t[f] = s[f]
  BY DEF Fields
<1>2. "delete" \notin OrderOps /\ "bond" \notin OrderOps
  BY DEF OrderOps
<1>3. \A k \in DOMAIN t.fdsq : t.fdsq[k].op # "delete"
  BY <1>2 DEF Spared, Held, Intact
<1>4. ASSUME NEW i, HasOp(t, i) PROVE HasOp(s, i)
  <2>1. PICK k \in DOMAIN t.fdsq : t.fdsq[k].op = "bond" /\ t.fdsq[k].id = i
    BY <1>4 DEF HasOp
  <2>2. PICK m \in DOMAIN s.fdsq : /\ t.fdsq[k].op = s.fdsq[m].op
                                   /\ t.fdsq[k].id = s.fdsq[m].id
    BY <1>2, <2>1
  <2> QED BY <2>1, <2>2 DEF HasOp
<1>5. \A i : Bonds(t, i) => Bonds(s, i)
  BY <1>1, <1>4 DEF Bonds, HasBond
<1>6. DOMAIN t.bond = Ids
  BY <1>1 DEF Spared, Held, Intact
<1> QED BY <1>1, <1>3, <1>5, <1>6, SparedOf

\* the first operation is taken up
LEMMA TakenSpared ==
    ASSUME NEW s, Safe(s), Spared(s), s.fdsq # <<>>
    PROVE  LET t == [s EXCEPT !.fdsq[1].op = "done"] IN
           /\ Spared(t)
           /\ \A f \in Fields \ {"fdsq"} : t[f] = s[f]
           /\ Head(s.fdsq).op # "delete"
           /\ Head(s.fdsq).op = "bond" => HasOp(s, Head(s.fdsq).id)
<1> DEFINE t == [s EXCEPT !.fdsq[1].op = "done"]
<1>1. Shaped(s) /\ IsState(s) /\ IsSeq(s.fdsq)
  BY DEF Spared, Held, Intact, Shaped
<1>2. Doing(t, Writes(Head(s.fdsq)))
  BY TakenDoing
<1>3. /\ DOMAIN t.fdsq = DOMAIN s.fdsq
      /\ \A k \in DOMAIN s.fdsq : k # 1 => t.fdsq[k] = s.fdsq[k]
      /\ \A f \in Fields \ {"fdsq"} : t[f] = s[f]
  BY <1>1 DEF IsState, Fields
<1> HIDE DEF t
<1>4. Shaped(t) /\ t.fdsq[1].op = "done"
  BY <1>2 DEF Doing, Working
<1>5. ASSUME NEW k \in DOMAIN t.fdsq, k # 1
      PROVE  \E m \in DOMAIN s.fdsq :
                /\ t.fdsq[k].op = s.fdsq[m].op
                /\ t.fdsq[k].op = "bond" => t.fdsq[k].id = s.fdsq[m].id
  <2>1. k \in DOMAIN s.fdsq /\ t.fdsq[k] = s.fdsq[k]
    BY <1>3, <1>5
  <2> QED BY <2>1
<1>6. \A f \in Fields \ {"fdsq", "orderRecs", "gap"} : t[f] = s[f]
  BY <1>3
<1>7. Spared(t)
  BY <1>4, <1>5, <1>6, QueueSpared
<1>8. 1 \in DOMAIN s.fdsq /\ Head(s.fdsq) = s.fdsq[1]
  <2>1. /\ Len(s.fdsq) \in Nat /\ Len(s.fdsq) >= 1 /\ Head(s.fdsq) = s.fdsq[1]
        /\ DOMAIN s.fdsq = 1 .. Len(s.fdsq)
    BY <1>1, TailIs, SeqIs
  <2> QED BY <2>1
<1>9. /\ Head(s.fdsq).op # "delete"
      /\ Head(s.fdsq).op = "bond" => HasOp(s, Head(s.fdsq).id)
  BY <1>8 DEF Spared, Held, Intact, HasOp
<1> QED BY <1>3, <1>7, <1>9 DEF t

\* A bonding record has been written: the id had a bond on the way, so it is not
\* one that a pairing has allocated.
LEMMA BondSpared ==
    ASSUME NEW s, Safe(s), Spared(s), s.fdsq # <<>>, Head(s.fdsq).op = "bond"
    PROVE  LET op == Head(s.fdsq)
               t  == [s EXCEPT !.fdsq[1].op = "done"]
           IN  Spared(Visible(t, [t EXCEPT !.bond[op.id] = op.dev]))
<1> DEFINE op == Head(s.fdsq)
           t  == [s EXCEPT !.fdsq[1].op = "done"]
<1>1. /\ Spared(t) /\ HasOp(s, op.id)
      /\ \A f \in Fields \ {"fdsq"} : t[f] = s[f]
  BY TakenSpared
<1>2. \A i : HasOp(t, i) => HasOp(s, i)
  <2>1. Shaped(s) /\ IsState(s)
    BY DEF Spared, Held, Intact, Shaped
  <2>2. /\ DOMAIN t.fdsq = DOMAIN s.fdsq
        /\ \A k \in DOMAIN s.fdsq : k # 1 => t.fdsq[k] = s.fdsq[k]
    BY <2>1 DEF IsState, Fields
  <2>3. Doing(t, Writes(op))
    BY TakenDoing
  <2> HIDE DEF t
  <2>4. t.fdsq[1].op # "bond"
    BY <2>3 DEF Doing, Working
  <2> QED BY <2>2, <2>4 DEF HasOp
<1> HIDE DEF t, op
<1> DEFINE b == [t.bond EXCEPT ![op.id] = op.dev]
           w == [t EXCEPT !.bond = b]
<1>3. Visible(t, [t EXCEPT !.bond[op.id] = op.dev]) \in {t, w}
  BY DEF Visible
<1>4. IsState(t) /\ Shaped(t) /\ DOMAIN t.bond = Ids
  BY <1>1 DEF Spared, Held, Intact, Shaped
<1>5. /\ DOMAIN b = Ids
      /\ \A i \in Ids : i # op.id => b[i] = t.bond[i]
  BY <1>4
<1> HIDE DEF b
<1>6. IsState(w) /\ w.bond = b /\ \A f \in Fields \ {"bond"} : w[f] = t[f]
  BY <1>4 DEF IsState, Fields
<1> HIDE DEF w
<1>7. /\ \A f \in {"used", "deleted", "connPeer", "isDeleteBonds", "secProc",
                   "newPeer", "evts", "sec"} : w[f] = s[f]
      /\ w.fdsq = t.fdsq /\ w.orderRecs = t.orderRecs /\ t.bond = s.bond
  BY <1>1, <1>6 DEF Fields
<1>8. Shaped(w)
  BY <1>4, <1>6, <1>7 DEF Shaped
<1>9. \A k \in DOMAIN w.fdsq : w.fdsq[k].op # "delete"
  BY <1>1, <1>7 DEF Spared, Held, Intact
<1>10. ASSUME NEW i, Bonds(w, i) PROVE Bonds(s, i)
  <2>1. HasOp(w, i) => HasOp(s, i)
    BY <1>2, <1>7 DEF HasOp
  <2>2. HasBond(w, i) => HasBond(s, i) \/ i = op.id
    BY <1>5, <1>6, <1>7 DEF HasBond
  <2> QED BY <1>1, <1>10, <2>1, <2>2 DEF Bonds
<1>11. Spared(w)
  BY <1>5, <1>6, <1>7, <1>8, <1>9, <1>10, SparedOf
<1> QED BY <1>1, <1>3, <1>11 DEF t, op

\* the order has been written
LEMMA OrderSpared ==
    ASSUME NEW s, Spared(s)
    PROVE  Spared(Visible(s, [s EXCEPT !.orderRecs = Append(@, s.deviceOrder)]))
<1> DEFINE recs == Append(s.orderRecs, s.deviceOrder)
           t    == [s EXCEPT !.orderRecs = recs]
<1>1. Shaped(s) /\ IsState(s)
  BY DEF Spared, Held, Intact, Shaped
<1>2. IsSeq(recs)
  BY <1>1, AppendIs DEF Shaped
<1> HIDE DEF recs
<1>3. IsState(t) /\ t.orderRecs = recs /\ \A f \in Fields \ {"orderRecs"} : t[f] = s[f]
  BY <1>1 DEF IsState, Fields
<1>4. Visible(s, [s EXCEPT !.orderRecs = Append(@, s.deviceOrder)]) \in {s, t}
  BY DEF Visible, recs
<1> HIDE DEF t
<1>5. t.fdsq = s.fdsq
  BY <1>3 DEF Fields
<1>6. Shaped(t)
  BY <1>1, <1>2, <1>3, <1>5 DEF Shaped
<1>7. \A f \in Fields \ {"fdsq", "orderRecs", "gap"} : t[f] = s[f]
  BY <1>3
<1>8. Spared(t)
  BY <1>5, <1>6, <1>7, QueueSpared
<1> QED BY <1>4, <1>8

\* a record to delete is gone
LEMMA NotFoundSpared ==
    ASSUME NEW s, Spared(s), s.fdsq # <<>> PROVE Spared(OrderNotFound(s))
<1> DEFINE behind == {op.op : op \in Range(Tail(s.fdsq))}
           q      == <<Head(s.fdsq)>>
           g      == s.gap \/ "order" \in behind
           stop   == [s EXCEPT !.fault = "queue_process"]
           t      == [s EXCEPT !.fdsq = q, !.gap = g]
<1>1. Shaped(s) /\ IsState(s)
  BY DEF Spared, Held, Intact, Shaped
<1>2. OrderNotFound(s) = stop \/ OrderNotFound(s) = t
  BY DEF OrderNotFound
<1>3. Spares(s, stop)
  BY <1>1, SparesRefl, SparesAssign DEF Fields, KeptFields, SparedFields
<1> HIDE DEF stop, g
<1>4. /\ IsSeq(q) /\ DOMAIN q = {1} /\ q[1] = s.fdsq[1] /\ 1 \in DOMAIN s.fdsq
  <2>1. /\ Len(s.fdsq) \in Nat /\ Len(s.fdsq) >= 1 /\ Head(s.fdsq) = s.fdsq[1]
        /\ DOMAIN s.fdsq = 1 .. Len(s.fdsq)
    BY <1>1, TailIs, SeqIs DEF Shaped
  <2>2. q \in Seq({Head(s.fdsq)}) /\ DOMAIN q = {1} /\ q[1] = Head(s.fdsq)
    OBVIOUS
  <2>3. 1 \in DOMAIN s.fdsq
    BY <2>1
  <2> HIDE DEF q
  <2>4. IsSeq(q)
    BY <2>2 DEF IsSeq
  <2> QED BY <2>1, <2>2, <2>3, <2>4
<1> HIDE DEF q
<1>5. /\ IsState(t) /\ t.fdsq = q
      /\ \A f \in Fields \ {"fdsq", "gap"} : t[f] = s[f]
  BY <1>1 DEF IsState, Fields
<1> HIDE DEF t
<1>6. t.orderRecs = s.orderRecs
  BY <1>5 DEF Fields
<1>7. Shaped(t)
  BY <1>1, <1>4, <1>5, <1>6 DEF Shaped
<1>8. \A f \in Fields \ {"fdsq", "orderRecs", "gap"} : t[f] = s[f]
  BY <1>5
<1>9. Spared(t)
  BY <1>4, <1>5, <1>7, <1>8, QueueSpared
<1> QED BY <1>2, <1>3, <1>9, SparesSpared

\* a record of the order has been deleted
LEMMA OrderDeletedSpared ==
    ASSUME NEW s, NEW pos \in Nat \ {0}, Spared(s), Working(s)
    PROVE  Spared(OrderDeleted(s, pos))
<1> DEFINE r == RemoveAt(s.orderRecs, pos)
           n == Len(s.fdsq)
           q == [k \in DOMAIN s.fdsq |-> Renumbered(s.fdsq[k], pos)]
           t == [s EXCEPT !.orderRecs = r, !.fdsq = q]
<1>1. Shaped(s) /\ IsState(s)
  BY DEF Working, Shaped
<1>2. IsSeq(r)
  BY <1>1, RemovedIs DEF Shaped
<1>3. n \in Nat /\ DOMAIN s.fdsq = 1 .. n
  BY <1>1, SeqIs DEF Shaped
<1>4. /\ IsSeq(q) /\ DOMAIN q = 1 .. n
      /\ \A k \in 1 .. n : q[k] = Renumbered(s.fdsq[k], pos)
  <2>1. q = [k \in 1 .. n |-> q[k]]
    BY <1>3
  <2>2. \A k \in 1 .. n : q[k] = Renumbered(s.fdsq[k], pos)
    BY <1>3
  <2> HIDE DEF q, n
  <2>3. DOMAIN q = 1 .. n
    BY <2>1
  <2> QED BY <1>3, <2>1, <2>2, <2>3, MadeIs
<1> HIDE DEF r, q
<1>5. /\ IsState(t) /\ t.orderRecs = r /\ t.fdsq = q
      /\ \A f \in Fields \ {"orderRecs", "fdsq"} : t[f] = s[f]
  BY <1>1 DEF IsState, Fields
<1>6. OrderDeleted(s, pos) = t
  BY DEF OrderDeleted, r, q
<1> HIDE DEF t
<1>7. ASSUME NEW k \in DOMAIN t.fdsq
      PROVE  \/ t.fdsq[k].op = "done"
             \/ /\ t.fdsq[k].op = s.fdsq[k].op
                /\ t.fdsq[k].op = "bond" => t.fdsq[k].id = s.fdsq[k].id
  <2>1. k \in 1 .. n /\ t.fdsq[k] = Renumbered(s.fdsq[k], pos)
    BY <1>4, <1>5, <1>7
  <2>2. CASE s.fdsq[k].op # "unorder"
    BY <2>1, <2>2, RenumberedIs
  <2>3. CASE s.fdsq[k].op = "unorder"
    <3>1. k # 1
      BY <2>3 DEF Working
    <3>2. k \in 2 .. n
      BY <1>3, <2>1, <3>1
    <3>3. IsOp(s.fdsq[k])
      BY <3>2 DEF Working, n
    <3> QED BY <2>1, <2>3, <3>3, RenumberedIs
  <2> QED BY <2>2, <2>3
<1>8. \A k \in DOMAIN t.fdsq : k \in DOMAIN s.fdsq
  BY <1>3, <1>4, <1>5
<1>9. Shaped(t)
  BY <1>2, <1>4, <1>5 DEF Shaped
<1>10. \A f \in Fields \ {"fdsq", "orderRecs", "gap"} : t[f] = s[f]
  BY <1>5
<1>11. Spared(t)
  BY <1>7, <1>8, <1>9, <1>10, QueueSpared
<1> QED BY <1>6, <1>11

\* what the end of the first operation does, and the observers of its end
LEMMA FlashDoneSpared ==
    ASSUME NEW s, Safe(s), Spared(s), s.fdsq # <<>>
    PROVE  Spared(FlashOperationDone(s))
<1> DEFINE op    == Head(s.fdsq)
           taken == [s EXCEPT !.fdsq[1].op = "done"]
           done  == Completed(taken, op)
           q     == Tail(done.fdsq)
           left  == [done EXCEPT !.fdsq = q]
<1>1. Doing(taken, Writes(op)) /\ IsOp(op)
  BY TakenDoing
<1>2. Spared(taken) /\ op.op # "delete"
  BY TakenSpared
<1>3. FdsDone(s) = left
  BY DEF FdsDone
<1>4. op.op = "bond"
         => Spared(Visible(taken, [taken EXCEPT !.bond[op.id] = op.dev]))
  BY BondSpared
<1> HIDE DEF taken, op
<1>5. Spared(done)
  <2>1. CASE op.op = "bond"
    <3> DEFINE written == Visible(taken, [taken EXCEPT !.bond[op.id] = op.dev])
    <3>1. done = PeerDataUpdateSucceeded(written, op.id)
      BY <2>1 DEF Completed
    <3>2. Spared(written)
      BY <1>4, <2>1
    <3> HIDE DEF written
    <3>3. Shaped(written)
      BY <3>2 DEF Spared, Held, Intact
    <3> QED BY <3>1, <3>2, <3>3, PeerDataUpdateSpares, SparesSpared
  <2>2. CASE op.op = "order"
    <3>1. done = Visible(taken, [taken EXCEPT !.orderRecs = Append(@, taken.deviceOrder)])
      BY <2>2 DEF Completed
    <3> QED BY <1>2, <3>1, OrderSpared
  <2>3. CASE op.op = "unorder" /\ op.id = 0
    <3>1. done = OrderNotFound(taken) /\ taken.fdsq # <<>>
      BY <1>1, <2>3 DEF Completed, Doing, Working
    <3> QED BY <1>2, <3>1, NotFoundSpared
  <2>4. CASE op.op = "unorder" /\ op.id # 0
    <3>1. done = OrderDeleted(taken, op.id) /\ op.id \in Nat \ {0} /\ Working(taken)
      BY <1>1, <2>4 DEF Completed, Doing, IsOp
    <3> QED BY <1>2, <3>1, OrderDeletedSpared
  <2> QED BY <1>1, <1>2, <2>1, <2>2, <2>3, <2>4 DEF IsOp
<1>6. Doing(done, {})
  BY <1>1, CompletedDoing
<1> HIDE DEF done
<1>7. Spared(left) /\ IsState(left)
  <2>1. IsState(done) /\ Shaped(done) /\ done.fdsq # <<>>
    BY <1>6 DEF Doing, Working, Shaped
  <2>2. /\ IsSeq(q) /\ DOMAIN q = 1 .. Len(done.fdsq) - 1
        /\ \A k \in DOMAIN q : k + 1 \in DOMAIN done.fdsq /\ q[k] = done.fdsq[k + 1]
    <3>1. /\ IsSeq(q) /\ Len(q) = Len(done.fdsq) - 1 /\ Len(done.fdsq) \in Nat
          /\ DOMAIN q = 1 .. Len(q) /\ DOMAIN done.fdsq = 1 .. Len(done.fdsq)
          /\ \A k \in 1 .. Len(done.fdsq) - 1 : q[k] = done.fdsq[k + 1]
      BY <2>1, TailIs, SeqIs DEF Shaped
    <3> QED BY <3>1
  <2> HIDE DEF q
  <2>3. IsState(left) /\ left.fdsq = q /\ \A f \in Fields \ {"fdsq"} : left[f] = done[f]
    BY <2>1 DEF IsState, Fields
  <2> HIDE DEF left
  <2>4. left.orderRecs = done.orderRecs
    BY <2>3 DEF Fields
  <2>5. Shaped(left)
    BY <2>1, <2>2, <2>3, <2>4 DEF Shaped
  <2>6. \A f \in Fields \ {"fdsq", "orderRecs", "gap"} : left[f] = done[f]
    BY <2>3
  <2>7. ASSUME NEW k \in DOMAIN left.fdsq
        PROVE  \E m \in DOMAIN done.fdsq :
                  /\ left.fdsq[k].op = done.fdsq[m].op
                  /\ left.fdsq[k].op = "bond" => left.fdsq[k].id = done.fdsq[m].id
    <3>1. k + 1 \in DOMAIN done.fdsq /\ left.fdsq[k] = done.fdsq[k + 1]
      BY <2>2, <2>3, <2>7
    <3> QED BY <3>1
  <2>8. Spared(left)
    BY <1>5, <2>5, <2>6, <2>7, QueueSpared
  <2> QED BY <2>3, <2>8
<1> HIDE DEF left
<1> DEFINE P == PeerPart
<1>8. /\ P \in SUBSET PeerPart /\ P \in SUBSET Parts
      /\ P \in SUBSET (PeerPart \cup NotesPart)
      /\ Turns(P, left, left)
  BY <1>7, TurnsRefl, PartsIs
<1> HIDE DEF P
<1>9. Turns(P, left, OnSysEvt(left))
  BY <1>8, OnSysEvtTurns
<1> QED BY <1>3, <1>7, <1>9, TurnsSpared DEF FlashOperationDone, P
-------------------------------------------------------------------------------
\* Power on and reset: nothing goes on, and the ids in use have a bond.

\* after power on,
LEMMA PowerOnSpared ==
    ASSUME NEW bond, NEW recs, DOMAIN bond = Ids, IsSeq(recs)
    PROVE  LET s == PowerOn(bond, recs) IN Spared(s) /\ IsState(s)
<1> DEFINE s == PowerOn(bond, recs)
<1>1. IsState(s) /\ s.evts = <<>> /\ Booted(s, bond, recs)
  BY PowerOnIs
<1> HIDE DEF s
<1> USE DEF Booted
<1>2. IsSeq(<<>>) /\ Len(<<>>) = 0 /\ DOMAIN <<>> = {}
  <2>1. <<>> \in Seq({})
    OBVIOUS
  <2> QED BY <2>1 DEF IsSeq
<1>3. Shaped(s)
  BY <1>1, <1>2 DEF Shaped
<1>4. \A i \in Ids : Bonds(s, i) => i \in s.used
  BY <1>1, <1>2 DEF Bonds, HasBond, HasOp
<1>5. Intact(s)
  BY <1>1, <1>2, <1>3, <1>4 DEF Intact
<1>6. Tells(s)
  <2>1. \A k \in 1 .. Len(s.evts) : FALSE
    BY <1>1, <1>2
  <2> QED BY <2>1 DEF Tells
<1>7. Spared(s)
  BY <1>1, <1>5, <1>6, IntactSpared DEF Pairs
<1> QED BY <1>1, <1>7 DEF s

\* the reset of a failed check,
LEMMA SettledSpared ==
    ASSUME NEW s, Spared(s) PROVE Spared(Settled(s))
<1>1. Shaped(s) /\ DOMAIN s.bond = Ids /\ IsSeq(s.orderRecs)
  BY DEF Spared, Held, Intact, Shaped
<1>2. CASE s.fault = NoFault
  <2>1. Spares(s, Return(s, "SUCCESS"))
    BY <1>1, SparesRefl, SparesAssign DEF Return, Fields, KeptFields, SparedFields
  <2> QED BY <1>2, <2>1, SparesSpared DEF Settled
<1>3. CASE s.fault # NoFault
  <2> DEFINE on == PowerOn(s.bond, s.orderRecs)
             f  == s.fault
             t  == [on EXCEPT !.fault = f]
  <2>1. Spared(on)
    BY <1>1, PowerOnSpared
  <2> HIDE DEF on, f
  <2>2. Shaped(on)
    BY <2>1 DEF Spared, Held, Intact
  <2>3. Spares(on, t)
    BY <2>2, SparesRefl, SparesAssign DEF Fields, KeptFields, SparedFields
  <2>4. Settled(s) = t
    BY <1>3 DEF Settled, on, f
  <2> HIDE DEF t
  <2> QED BY <2>1, <2>3, <2>4, SparesSpared
<1> QED BY <1>2, <1>3

\* whichever outcome the write of queue_buf_get has,
LEMMA SettlesSpared ==
    ASSUME NEW s, Spared(s), NEW t \in Settles(s) PROVE Spared(t)
<1> DEFINE clear      == [s EXCEPT !.overrun = FALSE]
           cleared(f) == [clear EXCEPT !.fault = f]
           faults     == IF s.overrun /\ s.fault = NoFault
                         THEN {"queue_buf_get"} ELSE {}
<1>1. Shaped(s)
  BY DEF Spared, Held, Intact
<1>2. t \in {Settled(clear)} \cup {Settled(cleared(f)) : f \in faults}
  BY Zenon DEF Settles
<1>3. Spares(s, clear)
  BY <1>1, SparesRefl, SparesAssign DEF Fields, KeptFields, SparedFields
<1> HIDE DEF clear, faults
<1>4. ASSUME NEW f PROVE Spares(s, cleared(f))
  BY <1>1, <1>3, SparesAssign DEF Fields, KeptFields, SparedFields
<1> HIDE DEF cleared
<1> QED BY <1>2, <1>3, <1>4, SparesSpared, SettledSpared

\* main() up to its loop,
LEMMA BootSpared ==
    ASSUME NEW bond, NEW recs, DOMAIN bond = Ids, IsSeq(recs)
    PROVE  Spared(Boot(bond, recs))
<1> DEFINE on == PowerOn(bond, recs)
           up == Advertise(ReconnectScan(on))
           P  == PeerPart
<1>1. IsState(on) /\ Spared(on)
  BY PowerOnSpared
<1> HIDE DEF on
<1>2. /\ P \in SUBSET PeerPart /\ P \in SUBSET Parts
      /\ P \in SUBSET (PeerPart \cup NotesPart)
      /\ Turns(P, on, on)
  BY <1>1, TurnsRefl, PartsIs
<1> HIDE DEF P
<1>3. Turns(P, on, up)
  BY <1>2, ReconnectScanTurns, AdvertiseTurns
<1>4. Spared(up)
  BY <1>1, <1>3, TurnsSpared DEF P
<1> HIDE DEF up
<1>5. Spared(Settled(up))
  BY <1>4, SettledSpared
<1> QED BY <1>5 DEF Boot, up, on

-------------------------------------------------------------------------------
\* the invariant
InvSpared == Spared(fw)

\* It is enough that a handler keeps the invariant
LEMMA HandledSpared ==
    ASSUME NEW s, Spared(s), Handled(s) PROVE InvSpared'
  BY SettlesSpared DEF Handled, InvSpared

\* or that it is a turn of the application.
LEMMA TurnsInvSpared ==
    ASSUME NEW s, NEW P, P = PeerPart, InvSpared, Turns(P, fw, s), Handled(s)
    PROVE  InvSpared'
  BY TurnsSpared, HandledSpared DEF InvSpared

\* the observers of the stack,
LEMMA StackHandlersSpared ==
    ASSUME InvSafe, InvSpared, StackHandlers PROVE InvSpared'
<1> DEFINE f  == Fetched
           id == Head(fw.evts).id
<1>1. ASSUME fw.evts # <<>>
      PROVE  /\ Held(f) /\ Tells(f) /\ IsState(f)
             /\ id \in Ends => Renewed(f.evts, f.sec, 0)
             /\ id \in Successes => ~Spent(f)
             /\ id \in Starts => ~Pairs(f)
             /\ id \in Starts \cup {"AUTH_BONDED"} => Dev # NoDev
             /\ id \notin Ends \cup {"SEC_PARAMS_REQUEST"} => Spared(f)
  <2>1. f = Fetch(fw)
    BY DEF Fetched, Fetch
  <2> HIDE DEF f
  <2> QED BY <1>1, <2>1, FetchSpared DEF InvSafe, InvSpared, Dev
<1> HIDE DEF f
<1>2. \A x : Next1(x) => fw.evts # <<>> /\ id = x
  BY DEF Next1
<1> HIDE DEF id
<1>3. CASE Connected
  <2>1. "CONNECTED" \in Starts /\ "CONNECTED" \notin Ends \cup {"SEC_PARAMS_REQUEST"}
    BY DEF Starts, Ends
  <2>2. /\ Spared(f) /\ ~Pairs(f) /\ Dev # NoDev
        /\ Handled(AppConnected(ImConnected(f, Dev)))
    BY <1>1, <1>2, <1>3, <2>1 DEF Connected, f
  <2>3. Intact(f) /\ Tells(f) /\ (f.newPeer => Renewed(f.evts, f.sec, 0))
    BY <2>2 DEF Spared, Held, Pairs, Spent
  <2> QED BY <2>2, <2>3, ConnectedSpared, HandledSpared
<1>4. CASE Disconnected
  <2>1. /\ Held(f) /\ Tells(f) /\ Renewed(f.evts, f.sec, 0)
        /\ Handled(AppDisconnected(SmdDisconnected(OnDisconnected(f))))
    BY <1>1, <1>2, <1>4 DEF Disconnected, Ends, f
  <2> QED BY <2>1, DisconnectedSpared, HandledSpared
<1>5. CASE TimedOut
  <2> DEFINE P == PeerPart
  <2>1. Spared(f) /\ IsState(f) /\ Handled(OnTimeout(f))
    BY <1>1, <1>2, <1>5 DEF TimedOut, Ends, f
  <2>2. /\ P \in SUBSET PeerPart /\ P \in SUBSET Parts
        /\ P \in SUBSET (PeerPart \cup NotesPart)
        /\ Turns(P, f, f)
    BY <2>1, TurnsRefl, PartsIs
  <2> HIDE DEF P
  <2>3. Turns(P, f, OnTimeout(f))
    BY <2>2, OnTimeoutTurns
  <2> QED BY <2>1, <2>3, TurnsSpared, HandledSpared DEF P
<1>6. CASE SecParamsRequest
  <2>1. Intact(f) /\ Tells(f) /\ Handled(SecParamsRequestProcess(f))
    BY <1>1, <1>2, <1>6 DEF SecParamsRequest, Held, f
  <2> QED BY <2>1, SecParamsRequestSpared, HandledSpared
<1>7. CASE SecInfoRequest
  <2>1. "SEC_INFO_REQUEST" \in Starts
    BY DEF Starts
  <2>2. /\ Intact(f) /\ Tells(f) /\ Dev # NoDev
        /\ Handled(SecInfoRequestProcess(f, Dev))
    BY <1>1, <1>2, <1>7, <2>1 DEF SecInfoRequest, Held, f
  <2> QED BY <2>2, SecInfoRequestSpared, HandledSpared
<1>8. CASE AuthStatus
  <2>1. /\ {"AUTH_BONDED", "AUTH_PAIRED", "AUTH_FAILED"} \subseteq Ends
        /\ {"AUTH_BONDED", "AUTH_PAIRED"} \subseteq Successes
    BY DEF Ends, Successes
  <2>2. CASE Next1("AUTH_BONDED") /\ Handled(AuthBonded(f, Dev))
    <3>1. /\ Held(f) /\ Tells(f) /\ ~Spent(f) /\ Renewed(f.evts, f.sec, 0)
          /\ Dev # NoDev
      BY <1>1, <1>2, <2>1, <2>2
    <3> QED BY <2>2, <3>1, AuthBondedSpared, HandledSpared
  <2>3. CASE Next1("AUTH_PAIRED") /\ Handled(AuthPaired(f))
    <3>1. Held(f) /\ Tells(f) /\ ~Spent(f) /\ Renewed(f.evts, f.sec, 0)
      BY <1>1, <1>2, <2>1, <2>3
    <3> QED BY <2>3, <3>1, AuthPairedSpared, HandledSpared
  <2>4. CASE Next1("AUTH_FAILED") /\ Handled(LinkSecureFailure(f))
    <3>1. Held(f) /\ Tells(f) /\ Renewed(f.evts, f.sec, 0)
      BY <1>1, <1>2, <2>1, <2>4
    <3> QED BY <2>4, <3>1, LinkSecureFailureSpared, HandledSpared
  <2> QED BY <1>8, <2>2, <2>3, <2>4 DEF AuthStatus, f
<1>9. CASE ConnSecUpdate
  <2>1. /\ "ENCRYPTED" \notin Ends \cup {"SEC_PARAMS_REQUEST"}
        /\ "NOT_ENCRYPTED" \notin Ends \cup {"SEC_PARAMS_REQUEST"}
    BY DEF Ends
  <2>2. PICK e \in BOOLEAN : Spared(f) /\ Handled(ConnSecUpdateProcess(f, e))
    BY <1>1, <1>2, <1>9, <2>1, Zenon DEF ConnSecUpdate, f
  <2> QED BY <2>2, ConnSecUpdateSpared, HandledSpared
<1> QED BY <1>3, <1>4, <1>5, <1>6, <1>7, <1>8, <1>9 DEF StackHandlers

\* the handlers of the other buttons
LEMMA ButtonHandlersSpared ==
    ASSUME InvSpared, ButtonHandlers, "KEY_2" \notin Buttons PROVE InvSpared'
<1> DEFINE P == PeerPart
<1>1. Spared(fw) /\ Shaped(fw) /\ IsState(fw) /\ P = PeerPart
  BY DEF InvSpared, Spared, Held, Intact, Shaped
<1>2. /\ P \in SUBSET PeerPart /\ P \in SUBSET Parts
      /\ P \in SUBSET (PeerPart \cup NotesPart)
      /\ Turns(P, fw, fw)
  BY <1>1, TurnsRefl, PartsIs
<1> HIDE DEF P
<1>3. ~Key2
  BY DEF Key2
<1>4. CASE Key3
  <2>1. Handled(Advertise(AddNew(fw)))
    BY <1>4 DEF Key3
  <2>2. Turns(P, fw, Advertise(AddNew(fw)))
    BY <1>2, AddNewTurns, AdvertiseTurns
  <2> QED BY <1>1, <2>1, <2>2, TurnsInvSpared
<1>5. CASE ButtonDisconnect
  <2> DEFINE called == SdDisconnect(fw)
             back(c) == [fw EXCEPT !.ret = c]
             closes  == [fw EXCEPT !.closing = TRUE]
             closed  == [closes EXCEPT !.ret = "SUCCESS"]
  <2>1. Handled(called) \/ Handled(Check(called, "bsp_event_handler"))
    BY <1>5 DEF ButtonDisconnect
  <2>2. Spares(fw, closes)
    BY <1>1, SparesRefl, SparesAssign DEF Fields, KeptFields, SparedFields
  <2>3. called \in {back("INVALID_CONN_HANDLE"), back("INVALID_STATE"), closed}
    BY DEF SdDisconnect, Return
  <2> HIDE DEF closes
  <2>4. Spares(fw, closed) /\ \A c : Spares(fw, back(c))
    BY <1>1, <2>2, SparesRefl, SparesAssign DEF Fields, KeptFields, SparedFields
  <2> HIDE DEF closed, back, called
  <2>5. Spared(called) /\ IsState(called)
    BY <1>1, <2>3, <2>4, SparesSpared DEF Spares, Keeps
  <2> DEFINE Q == PeerPart
  <2>6. Q \in SUBSET Parts /\ Turns(Q, called, called)
    BY <2>5, TurnsRefl, PartsIs
  <2> HIDE DEF Q
  <2>7. Turns(Q, called, Check(called, "bsp_event_handler"))
    BY <2>6, Checks DEF NoFault
  <2>8. Spared(Check(called, "bsp_event_handler"))
    BY <2>5, <2>7, TurnsSpared DEF Q
  <2> QED BY <2>1, <2>5, <2>8, HandledSpared
<1>6. CASE ButtonWhitelistOff
  <2>1. Handled(RestartWithoutWhitelist(fw))
    BY <1>6 DEF ButtonWhitelistOff
  <2>2. Turns(P, fw, RestartWithoutWhitelist(fw))
    BY <1>2, WithoutWhitelistTurns
  <2> QED BY <1>1, <2>1, <2>2, TurnsInvSpared
<1> QED BY <1>3, <1>4, <1>5, <1>6 DEF ButtonHandlers

\* and the main loop keep the invariant
LEMMA MainLoopSpared ==
    ASSUME InvSpared, MainLoop PROVE InvSpared'
<1> DEFINE P == PeerPart
<1>1. Spared(fw) /\ IsState(fw) /\ P = PeerPart
  BY DEF InvSpared, Spared, Held, Intact, Shaped
<1>2. /\ P \in SUBSET PeerPart /\ P \in SUBSET Parts
      /\ P \in SUBSET (PeerPart \cup NotesPart)
      /\ Turns(P, fw, fw)
  BY <1>1, TurnsRefl, PartsIs
<1> HIDE DEF P
<1>3. CASE SchedulerDone
  BY <1>3 DEF SchedulerDone, InvSpared
<1>4. CASE AppProcessing
  <2> DEFINE synced == Synced(fw)
  <2>1. Turns(P, fw, synced)
    BY <1>2, SyncedTurns
  <2>2. fw' \in Settles(synced) \/ synced.isDeleteBonds
    BY <1>4 DEF AppProcessing
  <2> HIDE DEF synced
  <2>3. Spared(synced)
    BY <1>1, <2>1, TurnsSpared
  <2> QED BY <2>2, <2>3, SettlesSpared DEF InvSpared, Spared, Held, Intact
<1>5. CASE TimerProcessing
  <2> DEFINE t == [fw EXCEPT !.scanTimer = "idle"]
  <2>1. fw' = Settled(AppAdvScanStopCB(t)) \/ fw' = Settled(fw)
    BY <1>5 DEF TimerProcessing
  <2>2. Turns(P, fw, t)
    BY <1>2, Notes DEF NotesPart
  <2> HIDE DEF t
  <2>3. Turns(P, fw, AppAdvScanStopCB(t))
    BY <1>2, <2>2, ScanStopTurns
  <2>4. Spared(AppAdvScanStopCB(t))
    BY <1>1, <2>3, TurnsSpared
  <2> QED BY <1>1, <2>1, <2>4, SettledSpared DEF InvSpared
<1> QED BY <1>3, <1>4, <1>5 DEF MainLoop

\* The invariant holds of the firmware while nobody presses KEY_2.
LEMMA InvSparedHolds ==
    ASSUME "KEY_2" \notin Buttons PROVE Spec => []InvSpared
<1>1. Init => InvSpared
  <2> SUFFICES ASSUME NEW f \in Flash, fw = Boot(f.bond, f.recs) PROVE InvSpared
    BY DEF Init
  <2>1. DOMAIN f.bond = Ids /\ IsSeq(f.recs)
    BY FlashAssumption DEF IsSeq
  <2> QED BY <2>1, BootSpared DEF InvSpared
<1>2. ASSUME InvSafe, InvSpared, [Next]_vars PROVE InvSpared'
  <2>1. CASE FlashDone
    <3>1. fw.fdsq # <<>> /\ Handled(FlashOperationDone(fw))
      BY <2>1 DEF FlashDone, FlashIsBusy
    <3> QED BY <1>2, <3>1, FlashDoneSpared, HandledSpared DEF InvSafe, InvSpared
  <2>2. CASE Reset
    <3>1. fw' = Boot(fw.bond, fw.orderRecs)
      BY <2>2 DEF Reset
    <3>2. DOMAIN fw.bond = Ids /\ IsSeq(fw.orderRecs)
      BY <1>2 DEF InvSpared, Spared, Held, Intact, Shaped
    <3> QED BY <3>1, <3>2, BootSpared DEF InvSpared
  <2>3. CASE UNCHANGED vars
    BY <1>2, <2>3 DEF vars, InvSpared
  <2>4. CASE Environment
    <3>1. Told(fw)
      BY <1>2 DEF InvSafe, Safe, Busy
    <3> QED BY <1>2, <2>4, <3>1, EnvironmentSpared DEF InvSpared
  <2>5. CASE StackHandlers
    BY <1>2, <2>5, StackHandlersSpared
  <2>6. CASE ButtonHandlers
    BY <1>2, <2>6, ButtonHandlersSpared
  <2>7. CASE MainLoop
    BY <1>2, <2>7, MainLoopSpared
  <2> QED BY <1>2, <2>1, <2>2, <2>3, <2>4, <2>5, <2>6, <2>7 DEF Next
<1> QED BY <1>1, <1>2, InvSafeHolds, PTL DEF Spec

\* For all devices, ids and queues, whatever fails, ends or is reset on the way:
\* while nobody presses KEY_2 no id that has a bond is freed.  The peer manager
\* frees ids of its own accord, when a pairing fails, ends without bonding or
\* finds the device bonded: it frees the id of the connection if newPeer is set,
\* and by then this is the id that the pairing allocated, not one with a bond.
THEOREM BondsStay ==
    ASSUME "KEY_2" \notin Buttons PROVE Spec => OnlyKey2Deletes
<1>1. InvSpared' => [\A i \in Ids : HasBond(fw, i) /\ i \in fw'.deleted \ fw.deleted
                                    => fw.isDeleteBonds]_vars
  BY DEF InvSpared, Spared, Held, Intact
<1> QED BY <1>1, InvSparedHolds, PTL DEF OnlyKey2Deletes

-------------------------------------------------------------------------------
(* What the application has noted of the devices agrees                      *)

\* the places of the list of detected devices that hold one
Found(list) == {k \in Detected : list[k] # DetectedDevFree}

\* the mouse is offered to a detected device
Offers(s) == s.phase = "CONNECTION" /\ s.currentAdvType = "RECONNECT_CONNECT"

\* The invariant, of any state.  While devices are detected they are counted.
\* When the mouse is offered to them the timer of the scan is not run any more, so
\* that this phase comes to no end, and the list of peers begins with the device
\* whose turn it is.
Noted(s) ==
    /\ IsState(s)
    /\ s.phase \in {"SCANNING", "CONNECTION"}
    /\ s.phase = "SCANNING" =>
          /\ s.listDetectedDev \in [Detected -> Places]
          /\ s.quantityDetectedDev = Cardinality(Found(s.listDetectedDev))
    /\ s.phase = "CONNECTION" => s.scanTimer = "idle"
    /\ Offers(s) =>
          /\ IsSeq(s.whitelistPeers)
          /\ s.whitelistPeers # <<>>
          /\ Head(s.whitelistPeers) = s.listDetectedDev[s.connectCnt]

\* a step that does not touch the notes
LEMMA NotedOf ==
    ASSUME NEW s, NEW t, Noted(s), IsState(t), \A f \in NotesPart : t[f] = s[f]
    PROVE  Noted(t)
  BY DEF Noted, Offers, NotesPart

\* a turn that does not touch them
LEMMA TurnsNoted ==
    ASSUME NEW s, NEW t, Noted(s), Turns(NotesPart, s, t) PROVE Noted(t)
  BY NotedOf DEF Turns

\* every function that leaves the notes alone
LEMMA NotesAre ==
    ASSUME NEW P, P = NotesPart
    PROVE  /\ P \in SUBSET Parts /\ P \in SUBSET AppPart
           /\ P \in SUBSET FlashPart
           /\ P \in SUBSET (PeerPart \cup NotesPart)
           /\ \A s : Noted(s) => Turns(P, s, s)
           /\ \A s, t : Noted(s) /\ Turns(P, s, t) => Noted(t)
  BY TurnsRefl, TurnsNoted DEF Parts, AppPart, FlashPart, Noted

\* one assignment that does not touch them
LEMMA NotedSet ==
    ASSUME NEW s, Noted(s), NEW a \in Fields \ NotesPart, NEW v
    PROVE  Noted([s EXCEPT ![a] = v])
<1>1. IsState(s) /\ NotesPart \subseteq Fields \ {a}
  BY DEF Noted, NotesPart, Fields
<1>2. /\ IsState([s EXCEPT ![a] = v])
      /\ \A f \in Fields \ {a} : [s EXCEPT ![a] = v][f] = s[f]
  BY <1>1, SetField
<1> QED BY <1>1, <1>2, NotedOf

-------------------------------------------------------------------------------
\* The functions of main.c that change the notes.

\* the place of a device that is in the order
LEMMA GetIDPosIs ==
    ASSUME NEW order, NEW i, IsListed(order, i)
    PROVE  GetIDPos(order, i) \in Detected
<1> DEFINE at == {p \in Positions : order[p] = i}
<1>1. at \subseteq Nat /\ at # {}
  BY OrderListAssumption DEF IsListed, Positions
<1>2. Min(at) \in at /\ \A y \in at : Min(at) <= y
  BY <1>1, MinIn
<1>3. \E p \in Positions :
         /\ order[p] = i
         /\ \A q \in Positions : order[q] = i => p <= q
  BY <1>2
<1>4. GetIDPos(order, i) \in Positions
  BY <1>3 DEF GetIDPos
<1> QED BY <1>4, OrderListAssumption, AppAssumption DEF Positions, Detected

\* one more device
LEMMA FoundMore ==
    ASSUME NEW list \in [Detected -> Places], NEW k \in Detected, NEW i \in Ids,
           list[k] = DetectedDevFree
    PROVE  LET more == [list EXCEPT ![k] = i] IN
           /\ more \in [Detected -> Places]
           /\ Cardinality(Found(more)) = Cardinality(Found(list)) + 1
<1> DEFINE more == [list EXCEPT ![k] = i]
<1>1. i \in Places /\ i # DetectedDevFree
  BY PeerManagerAssumption DEF Places, DetectedDevFree
<1>2. Found(more) = Found(list) \cup {k} /\ k \notin Found(list)
  BY <1>1 DEF Found
<1>3. IsFiniteSet(Found(list))
  <2>1. IsFiniteSet(Detected)
    BY AppAssumption, FS_Interval DEF Detected
  <2> QED BY <2>1, FS_Subset DEF Found
<1>4. Cardinality(Found(list) \cup {k}) = Cardinality(Found(list)) + 1
  BY <1>2, <1>3, FS_AddElement
<1> QED BY <1>1, <1>2, <1>4

\* appAdvSetStart, ADD_NEW
LEMMA AddNewNoted ==
    ASSUME NEW s, Noted(s) PROVE Noted(AddNew(s))
  BY DEF Noted, Offers, AddNew, IsState, Fields

\* appAdvSetStart, RECONNECT_SCAN
LEMMA ReconnectScanNoted ==
    ASSUME NEW s, Noted(s), s.phase = "SCANNING"
    PROVE  Noted(ReconnectScan(s))
<1> DEFINE peers == PeerList(s)
           n     == IF Len(peers) < WhitelistMax THEN Len(peers) ELSE WhitelistMax
           first == SubSeq(peers, 1, n)
           scan  == [s EXCEPT !.currentAdvType = "RECONNECT_SCAN",
                              !.whitelistPeers = first,
                              !.scanTimer      = "waiting"]
<1>1. ReconnectScan(s) = IF peers = <<>> THEN AddNew(s) ELSE scan
  BY DEF ReconnectScan
<1> HIDE DEF peers, first
<1>2. Noted(scan)
  BY DEF Noted, Offers, IsState, Fields
<1> QED BY <1>1, <1>2, AddNewNoted

\* appAdvSetStart
LEMMA AdvertiseNoted ==
    ASSUME NEW s, Noted(s) PROVE Noted(Advertise(s))
<1> DEFINE P == NotesPart
<1>1. P = NotesPart
  OBVIOUS
<1> HIDE DEF P
<1> QED BY <1>1, NotesAre, AdvertiseTurns

\* appAdvDirectProc: the peer is taken off the lists
LEMMA UnlistNoted ==
    ASSUME NEW s, NEW i, Noted(s), s.phase = "SCANNING"
    PROVE  Noted(Unlist(s, i)) /\ Unlist(s, i).phase = "SCANNING"
<1> DEFINE t == Unlist(s, i)
           P == NotesPart \ {"whitelistPeers"}
<1>1. P \in SUBSET (PeerPart \cup (NotesPart \ {"whitelistPeers"}))
  OBVIOUS
<1>2. Turns(P, s, s)
  BY TurnsRefl DEF Noted
<1> HIDE DEF P
<1>3. Turns(P, s, t)
  BY <1>1, <1>2, UnlistTurns
<1> HIDE DEF t
<1>4. IsState(t) /\ \A f \in P : t[f] = s[f]
  BY <1>3 DEF Turns
<1>5. Noted(t) /\ t.phase = "SCANNING"
  BY <1>4 DEF Noted, Offers, NotesPart, P
<1> QED BY <1>5 DEF t

\* appAdvDirectProc: the peer is noted
LEMMA NoteDetectedNoted ==
    ASSUME NEW s, NEW i \in Ids, Noted(s), s.phase = "SCANNING"
    PROVE  Noted(NoteDetected(s, i)) /\ NoteDetected(s, i).phase = "SCANNING"
<1> DEFINE pos  == GetIDPos(s.deviceOrder, i)
           list == [s.listDetectedDev EXCEPT ![pos] = i]
           more == [s EXCEPT !.listDetectedDev[pos] = i,
                             !.quantityDetectedDev = s.quantityDetectedDev + 1]
<1>1. ASSUME IsListed(s.deviceOrder, i), s.listDetectedDev[pos] = DetectedDevFree
      PROVE  Noted(more) /\ more.phase = "SCANNING"
  <2>1. pos \in Detected /\ s.listDetectedDev \in [Detected -> Places]
    BY <1>1, GetIDPosIs DEF Noted
  <2> HIDE DEF pos
  <2>2. /\ list \in [Detected -> Places]
        /\ Cardinality(Found(list)) = s.quantityDetectedDev + 1
    BY <1>1, <2>1, FoundMore DEF Noted
  <2>3. /\ IsState(more)
        /\ more.listDetectedDev = list
        /\ more.quantityDetectedDev = s.quantityDetectedDev + 1
        /\ \A f \in {"phase", "scanTimer", "currentAdvType", "whitelistPeers",
                     "connectCnt"} : more[f] = s[f]
    <3> HIDE DEF list
    <3>1. more = [s EXCEPT !.listDetectedDev = list,
                           !.quantityDetectedDev = s.quantityDetectedDev + 1]
      BY DEF list
    <3> QED BY <3>1 DEF Noted, IsState, Fields
  <2> HIDE DEF more, list
  <2> QED BY <2>2, <2>3 DEF Noted, Offers
<1>2. NoteDetected(s, i) \in {s, more}
  BY DEF NoteDetected
<1>3. NoteDetected(s, i) = more =>
         \/ more = s
         \/ IsListed(s.deviceOrder, i) /\ s.listDetectedDev[pos] = DetectedDevFree
  BY DEF NoteDetected
<1> HIDE DEF more
<1> QED BY <1>1, <1>2, <1>3

\* appAdvDirectProc, ADV_PROC_START_CONNECT
LEMMA StartConnectNoted ==
    ASSUME NEW s, NEW i \in Ids, Noted(s) PROVE Noted(StartConnect(s, i))
<1> DEFINE P == NotesPart
<1>1. P = NotesPart
  OBVIOUS
<1> HIDE DEF P
<1>2. ASSUME NEW t, Noted(t)
      PROVE  /\ Noted(AppAdvStop(t))
             /\ Noted(AppDisconnect(t))
             /\ AppDisconnect(t).phase = t.phase
  <2>1. Turns(P, t, AppAdvStop(t)) /\ Turns(P, t, AppDisconnect(t))
    BY <1>1, <1>2, NotesAre, AppAdvStopTurns, AppDisconnectTurns
  <2> QED BY <1>1, <1>2, <2>1, NotesAre DEF Turns, NotesPart
<1>3. CASE s.phase = "SCANNING"
  <2> DEFINE rest  == AppDisconnect(Unlist(s, i))
             noted == NoteDetected(rest, i)
  <2>1. Noted(rest) /\ rest.phase = "SCANNING"
    BY <1>2, <1>3, UnlistNoted
  <2> HIDE DEF rest
  <2>2. Noted(noted)
    BY <2>1, NoteDetectedNoted
  <2>3. StartConnectScanning(s, i) \in {noted, AppAdvStop(noted)}
    BY DEF StartConnectScanning, rest
  <2> HIDE DEF noted
  <2> QED BY <1>2, <1>3, <2>2, <2>3 DEF StartConnect
<1> QED BY <1>2, <1>3 DEF StartConnect

\* appAdvScanStopCB: the phase of the connection is entered
LEMMA ScanStopNoted ==
    ASSUME NEW s, Noted(s), s.phase = "SCANNING", s.scanTimer = "idle"
    PROVE  Noted(AppAdvScanStopCB(s))
<1> DEFINE P == NotesPart
<1>1. P = NotesPart
  OBVIOUS
<1> HIDE DEF P
<1> DEFINE t == AppAdvStop(s)
<1>2. /\ Noted(t) /\ t.phase = "SCANNING" /\ t.scanTimer = "idle"
  <2>1. Turns(P, s, t)
    BY <1>1, NotesAre, AppAdvStopTurns
  <2> QED BY <1>1, <2>1, NotesAre DEF Turns, NotesPart
<1> HIDE DEF t
<1> DEFINE list == ShiftUp(t.listDetectedDev)
           up   == [t EXCEPT !.listDetectedDev = list, !.connectCnt = 0]
           rc   == ReconnectConnect(up, list[0])
           adv  == Advertise(rc)
           on   == [adv EXCEPT !.phase = "CONNECTION"]
<1> HIDE DEF list
<1>3. /\ IsState(rc) /\ rc.listDetectedDev = list /\ rc.connectCnt = 0
      /\ rc.whitelistPeers = <<list[0]>> /\ rc.scanTimer = "idle"
  BY <1>2 DEF ReconnectConnect, Noted, IsState, Fields
<1> HIDE DEF rc
<1>4. Turns(P, rc, adv)
  <2>1. Turns(P, rc, rc)
    BY <1>3, TurnsRefl
  <2> QED BY <1>1, <2>1, NotesAre, AdvertiseTurns
<1> HIDE DEF adv
<1>5. /\ IsState(adv) /\ adv.listDetectedDev = list /\ adv.connectCnt = 0
      /\ adv.whitelistPeers = <<list[0]>> /\ adv.scanTimer = "idle"
  BY <1>1, <1>3, <1>4 DEF Turns, NotesPart
<1>6. /\ IsState(on) /\ on.listDetectedDev = list /\ on.connectCnt = 0
      /\ on.whitelistPeers = <<list[0]>> /\ on.scanTimer = "idle"
      /\ on.phase = "CONNECTION"
  BY <1>5 DEF IsState, Fields
<1> HIDE DEF on
<1>7. IsSeq(<<list[0]>>) /\ <<list[0]>> # <<>> /\ Head(<<list[0]>>) = list[0]
  <2>1. <<list[0]>> \in Seq({list[0]})
    OBVIOUS
  <2>2. IsSeq(<<list[0]>>)
    BY <2>1 DEF IsSeq
  <2>3. <<list[0]>> # <<>> /\ Head(<<list[0]>>) = list[0]
    OBVIOUS
  <2> QED BY <2>2, <2>3
<1>8. Noted(on)
  BY <1>6, <1>7 DEF Noted, Offers
<1>9. Noted(Advertise(ReconnectScan(t)))
  BY <1>2, ReconnectScanNoted, AdvertiseNoted
<1>10. AppAdvScanStopCB(s) \in {t, on, Advertise(ReconnectScan(t))}
  BY <1>2 DEF AppAdvScanStopCB, ProcStopAdv, StopAdvScanning, t, on, adv, rc, up, list
<1> QED BY <1>2, <1>8, <1>9, <1>10

-------------------------------------------------------------------------------
\* The end of a flash operation.

\* pm_evt_handler, PM_EVT_PEER_DATA_UPDATE_SUCCEEDED: the list begins as before
LEMMA PeerDataUpdateNoted ==
    ASSUME NEW s, NEW peerId, Noted(s)
    PROVE  Noted(PeerDataUpdateSucceeded(s, peerId))
<1> DEFINE P     == NotesPart
           first == AddOrder(s, peerId)
           peers == Append(s.whitelistPeers, s.peerId)
           more  == [first EXCEPT !.whitelistPeers = peers]
           known == Check(PmWhitelistSet(more, peers), "pm_evt_handler")
           ids   == PmDeviceIdentitiesListSet(known, peers)
<1>1. P = NotesPart /\ NoFault # "pm_evt_handler"
  BY DEF NoFault
<1> HIDE DEF P
<1>2. Turns(P, s, first)
  BY <1>1, NotesAre, AddOrderTurns
<1> HIDE DEF first
<1>3. /\ Noted(first) /\ IsState(first)
      /\ \A f \in NotesPart : first[f] = s[f]
  BY <1>1, <1>2, NotesAre DEF Turns
<1>4. Offers(s) => IsSeq(peers) /\ peers # <<>> /\ Head(peers) = Head(s.whitelistPeers)
  <2> SUFFICES ASSUME Offers(s)
               PROVE  IsSeq(peers) /\ peers # <<>>
                      /\ Head(peers) = Head(s.whitelistPeers)
    OBVIOUS
  <2>1. PICK S : s.whitelistPeers \in Seq(S)
    BY DEF Noted, IsSeq
  <2>2. s.whitelistPeers # <<>>
    BY DEF Noted
  <2>3. IsSeq(peers)
    BY <2>1, AppendIs DEF IsSeq
  <2>4. s.whitelistPeers \in Seq(S \cup {s.peerId})
    BY <2>1
  <2>5. peers # <<>> /\ Head(peers) = Head(s.whitelistPeers)
    BY <2>2, <2>4
  <2> QED BY <2>3, <2>5
<1> HIDE DEF peers
<1>5. Noted(more)
  <2>1. /\ IsState(more) /\ more.whitelistPeers = peers
        /\ \A f \in Fields \ {"whitelistPeers"} : more[f] = first[f]
    BY <1>3 DEF IsState, Fields
  <2> HIDE DEF more
  <2>2. \A f \in NotesPart \ {"whitelistPeers"} : more[f] = s[f]
    BY <1>3, <2>1 DEF NotesPart, Fields
  <2> QED BY <1>4, <2>1, <2>2 DEF Noted, Offers, NotesPart
<1> HIDE DEF more
<1>6. Turns(P, more, PmWhitelistSet(more, peers))
  BY <1>1, <1>5, NotesAre, ListsTurn
<1>7. Turns(P, more, known)
  BY <1>1, <1>6, NotesAre, Checks
<1> HIDE DEF known
<1>8. Turns(P, more, ids)
  BY <1>1, <1>7, NotesAre, ListsTurn
<1> HIDE DEF ids
<1>9. Noted(Check(ids, "pm_evt_handler"))
  BY <1>1, <1>5, <1>8, NotesAre, Checks
<1>10. PeerDataUpdateSucceeded(s, peerId) \in {first, Check(ids, "pm_evt_handler")}
  BY DEF PeerDataUpdateSucceeded, ids, known, more, peers, first
<1> QED BY <1>3, <1>9, <1>10

\* what the end of an operation does
LEMMA CompletedNoted ==
    ASSUME NEW s, NEW op, Noted(s) PROVE Noted(Completed(s, op))
<1> DEFINE P     == NotesPart
           bond  == [s.bond EXCEPT ![op.id] = op.dev]
           clear == [s.bond EXCEPT ![op.id] = NoDev]
           recs  == Append(s.orderRecs, s.deviceOrder)
           with  == [s EXCEPT !.bond = bond]
           none  == [s EXCEPT !.bond = clear]
           wrote == [s EXCEPT !.orderRecs = recs]
<1>1. P = NotesPart
  OBVIOUS
<1> HIDE DEF P, bond, clear, recs
<1>2. Noted(with) /\ Noted(none) /\ Noted(wrote)
  <2>1. {"bond", "orderRecs"} \subseteq Fields \ NotesPart
    BY DEF Fields, NotesPart
  <2> QED BY <2>1, NotedSet
<1>3. Completed(s, op) \in
          {PeerDataUpdateSucceeded(s, op.id), PeerDataUpdateSucceeded(with, op.id),
           PeerDeleted(none, op.id), s, wrote, OrderNotFound(s),
           OrderDeleted(s, op.id)}
  BY DEF Completed, Visible, with, none, wrote, bond, clear, recs
<1> HIDE DEF with, none, wrote
<1>4. Noted(PeerDeleted(none, op.id))
  BY <1>1, <1>2, NotesAre, Free
<1>5. Noted(OrderNotFound(s)) /\ Noted(OrderDeleted(s, op.id))
  BY <1>1, NotesAre, OrderNotFoundTurns, OrderDeletedTurns
<1> QED BY <1>2, <1>3, <1>4, <1>5, PeerDataUpdateNoted

\* and the observers of its end
LEMMA FlashDoneNoted ==
    ASSUME NEW s, Noted(s) PROVE Noted(FlashOperationDone(s))
<1> DEFINE P     == NotesPart
           q     == [s.fdsq EXCEPT ![1].op = "done"]
           taken == [s EXCEPT !.fdsq = q]
           done  == Completed(taken, Head(s.fdsq))
           rest  == Tail(done.fdsq)
           left  == [done EXCEPT !.fdsq = rest]
<1>1. P = NotesPart /\ "fdsq" \in Fields \ NotesPart
  BY DEF Fields, NotesPart
<1>2. FdsDone(s) = left
  BY DEF FdsDone
<1> HIDE DEF P, q
<1>3. Noted(taken)
  BY <1>1, NotedSet
<1> HIDE DEF taken
<1>4. Noted(done)
  BY <1>3, CompletedNoted
<1> HIDE DEF done, rest
<1>5. Noted(left)
  BY <1>1, <1>4, NotedSet
<1> HIDE DEF left
<1>6. Turns(P, left, OnSysEvt(left))
  BY <1>1, <1>5, NotesAre, OnSysEvtTurns
<1> QED BY <1>1, <1>2, <1>5, <1>6, NotesAre DEF FlashOperationDone

-------------------------------------------------------------------------------
\* The handlers of the stack's events.

\* a peer that is found has an id
LEMMA FoundIsId ==
    ASSUME NEW s, NEW dev, FindBond(s, dev) # PeerIdInvalid
    PROVE  FindBond(s, dev) \in Ids
<1> DEFINE match == {i \in Ids : s.bond[i] = dev}
<1>1. match # {} /\ FindBond(s, dev) = Min(match) /\ match \subseteq Nat
  BY IdsAre DEF FindBond
<1> HIDE DEF match
<1>2. Min(match) \in match
  BY <1>1, MinIn
<1> QED BY <1>1, <1>2 DEF match

\* BLE_GAP_EVT_CONNECTED
LEMMA ConnectedNoted ==
    ASSUME NEW s, NEW dev, Noted(s)
    PROVE  Noted(AppConnected(ImConnected(s, dev)))
<1> DEFINE P     == NotesPart
           id    == FindBond(s, dev)
           old   == [s EXCEPT !.newPeer = FALSE]
           new   == [old EXCEPT !.connPeer = id]
           prev  == [new EXCEPT !.isPrevConn = TRUE]
           fresh == [prev EXCEPT !.isRealAdv = FALSE]
           known == [fresh EXCEPT !.connectState = "CONNECT"]
<1>1. P = NotesPart
  OBVIOUS
<1>2. {"newPeer", "connPeer", "isPrevConn", "isRealAdv", "connectState",
       "connHandle"} \subseteq Fields \ NotesPart
  BY DEF Fields, NotesPart
<1> HIDE DEF P
<1>3. ImConnected(s, dev) \in {new, StartConnect(known, id)}
      /\ (ImConnected(s, dev) = new \/ id \in Ids)
  <2>1. id # PeerIdInvalid => id \in Ids
    BY FoundIsId
  <2>2. new.connPeer = id
    BY DEF Noted, IsState, Fields
  <2> HIDE DEF id
  <2> QED BY <2>1, <2>2
      DEF ImConnected, RecordPurgeDisconnected, BondedPeerConnected, id
<1> HIDE DEF id
<1>4. Noted(new)
  <2>1. Noted(old)
    BY <1>2, NotedSet
  <2> HIDE DEF old
  <2> QED BY <1>2, <2>1, NotedSet
<1> HIDE DEF new
<1>5. Noted(prev)
  BY <1>2, <1>4, NotedSet
<1> HIDE DEF prev
<1>6. Noted(fresh)
  BY <1>2, <1>5, NotedSet
<1> HIDE DEF fresh
<1>7. Noted(known)
  BY <1>2, <1>6, NotedSet
<1> HIDE DEF known
<1>8. Noted(ImConnected(s, dev))
  BY <1>3, <1>4, <1>7, StartConnectNoted
<1>9. ASSUME NEW t, Noted(t) PROVE Noted(AppConnected(t))
  <2> DEFINE here == [t EXCEPT !.connHandle = TRUE]
             off  == [here EXCEPT !.isRealAdv = FALSE]
             made == [off EXCEPT !.connectState = "CONNECT"]
  <2>1. AppConnected(t) \in {here, ProcConnect(made)}
    BY DEF AppConnected
  <2>2. Noted(here)
    BY <1>2, <1>9, NotedSet
  <2> HIDE DEF here
  <2>3. Noted(off)
    BY <1>2, <2>2, NotedSet
  <2> HIDE DEF off
  <2>4. Noted(made)
    BY <1>2, <2>3, NotedSet
  <2> HIDE DEF made
  <2>5. Noted(ProcConnect(made))
    BY <1>1, <2>4, NotesAre, ProcConnectTurns
  <2> QED BY <2>1, <2>2, <2>5
<1> QED BY <1>8, <1>9

\* BLE_GAP_EVT_DISCONNECTED
LEMMA DisconnectedNoted ==
    ASSUME NEW s, Noted(s)
    PROVE  Noted(AppDisconnected(SmdDisconnected(OnDisconnected(s))))
<1> DEFINE P    == NotesPart
           t    == SmdDisconnected(OnDisconnected(s))
           prev == [t EXCEPT !.isPrevConn = FALSE]
           down == [prev EXCEPT !.connectState = "DISCONNECT"]
<1>1. P = NotesPart
      /\ {"isPrevConn", "connectState", "connHandle"} \subseteq Fields \ NotesPart
  BY DEF Fields, NotesPart
<1> HIDE DEF P
<1>2. AppDisconnected(t) = [down EXCEPT !.connHandle = FALSE]
  BY DEF AppDisconnected
<1>3. Noted(t)
  BY <1>1, NotesAre, OnDisconnectedTurns, SmdDisconnectedTurns
<1> HIDE DEF t
<1>4. Noted(prev)
  BY <1>1, <1>3, NotedSet
<1> HIDE DEF prev
<1>5. Noted(down)
  BY <1>1, <1>4, NotedSet
<1> HIDE DEF down
<1>6. Noted([down EXCEPT !.connHandle = FALSE])
  BY <1>1, <1>5, NotedSet
<1> QED BY <1>2, <1>6 DEF t

-------------------------------------------------------------------------------
\* Power on and reset: no device is noted, and the scan begins.

\* what main.c's variables are after power on
LEMMA PowerOnApp ==
    ASSUME NEW bond, NEW recs
    PROVE  \A f \in DOMAIN AppBoot(recs) :
              PowerOn(bond, recs)[f] = AppBoot(recs)[f]
<1> DEFINE And(f, g) == [x \in DOMAIN f \cup DOMAIN g |->
                            IF x \in DOMAIN f THEN f[x] ELSE g[x]]
           sd    == SdBoot
           pm    == PmBoot(bond)
           adv   == AdvBoot
           app   == AppBoot(recs)
           stack == And(sd, pm)
           main  == And(adv, app)
<1>1. /\ DOMAIN sd = {"radio", "link", "closing", "sec", "evts", "whitelist",
                      "identities", "ret"}
      /\ DOMAIN pm = {"bond", "used", "deleted", "fdsq", "gap", "overrun",
                      "wlisted", "connPeer", "secProc", "newPeer"}
      /\ DOMAIN adv = {"isRealAdv", "isAppAdv", "connectState",
                       "advModeCurrent", "advStartPending", "whitelistOff",
                       "fault"}
      /\ DOMAIN app = {"currentAdvType", "isDeleteBonds", "isPrevConn",
                       "connHandle", "peerId", "whitelistPeers", "phase",
                       "listDetectedDev", "quantityDetectedDev", "connectCnt",
                       "loopCnt", "deviceOrder", "orderRecs", "scanTimer"}
  BY DEF SdBoot, PmBoot, AdvBoot, AppBoot
<1>2. PowerOn(bond, recs) = And(stack, main)
  BY DEF PowerOn, sd, pm, adv, app
<1> HIDE DEF sd, pm, adv, app
<1>3. DOMAIN stack = DOMAIN sd \cup DOMAIN pm
      /\ DOMAIN main = DOMAIN adv \cup DOMAIN app
  OBVIOUS
<1>4. \A f \in DOMAIN app : f \notin DOMAIN stack /\ f \notin DOMAIN adv
  BY <1>1, <1>3
<1>5. \A f \in DOMAIN app : main[f] = app[f]
  BY <1>4
<1> HIDE DEF stack, main
<1>6. \A f \in DOMAIN app : And(stack, main)[f] = app[f]
  BY <1>3, <1>4, <1>5
<1> QED BY <1>2, <1>6 DEF app

\* after power on,
LEMMA PowerOnNoted ==
    ASSUME NEW bond, NEW recs
    PROVE  Noted(PowerOn(bond, recs)) /\ PowerOn(bond, recs).phase = "SCANNING"
<1> DEFINE s    == PowerOn(bond, recs)
           list == [k \in Detected |-> DetectedDevFree]
<1>1. /\ s.phase = "SCANNING" /\ s.listDetectedDev = list
      /\ s.quantityDetectedDev = 0
  <2> DEFINE app == AppBoot(recs)
  <2>1. /\ {"phase", "listDetectedDev", "quantityDetectedDev"} \subseteq DOMAIN app
        /\ app.phase = "SCANNING" /\ app.listDetectedDev = list
        /\ app.quantityDetectedDev = 0
    BY DEF AppBoot
  <2>2. \A f \in DOMAIN app : s[f] = app[f]
    BY PowerOnApp
  <2> HIDE DEF s, app, list
  <2> QED BY <2>1, <2>2
<1>2. IsState(s)
  BY PowerOnIs
<1> HIDE DEF s
<1>3. list \in [Detected -> Places] /\ Found(list) = {}
  BY DEF Places, Found
<1>4. Cardinality(Found(list)) = 0
  BY <1>3, FS_EmptySet
<1> HIDE DEF list
<1>5. Noted(s)
  BY <1>1, <1>2, <1>3, <1>4 DEF Noted, Offers
<1> QED BY <1>1, <1>5 DEF s

\* the reset of a failed check,
LEMMA SettledNoted ==
    ASSUME NEW s, Noted(s) PROVE Noted(Settled(s))
<1> DEFINE on == PowerOn(s.bond, s.orderRecs)
           f  == s.fault
<1>1. {"ret", "fault"} \subseteq Fields \ NotesPart
  BY DEF Fields, NotesPart
<1>2. Noted(Return(s, "SUCCESS"))
  BY <1>1, NotedSet DEF Return
<1>3. Noted(on)
  BY PowerOnNoted
<1>4. Settled(s) \in {Return(s, "SUCCESS"), [on EXCEPT !.fault = f]}
  BY DEF Settled
<1> HIDE DEF on, f
<1>5. Noted([on EXCEPT !.fault = f])
  BY <1>1, <1>3, NotedSet
<1> QED BY <1>2, <1>4, <1>5

\* whichever outcome the write of queue_buf_get has,
LEMMA SettlesNoted ==
    ASSUME NEW s, Noted(s), NEW t \in Settles(s) PROVE Noted(t)
<1> DEFINE clear      == [s EXCEPT !.overrun = FALSE]
           cleared(f) == [clear EXCEPT !.fault = f]
           faults     == IF s.overrun /\ s.fault = NoFault
                         THEN {"queue_buf_get"} ELSE {}
<1>1. {"overrun", "fault"} \subseteq Fields \ NotesPart
  BY DEF Fields, NotesPart
<1>2. t \in {Settled(clear)} \cup {Settled(cleared(f)) : f \in faults}
  BY Zenon DEF Settles
<1>3. Noted(clear)
  BY <1>1, NotedSet
<1> HIDE DEF clear, faults
<1>4. ASSUME NEW f PROVE Noted(cleared(f))
  BY <1>1, <1>3, NotedSet
<1> HIDE DEF cleared
<1> QED BY <1>2, <1>3, <1>4, SettledNoted

\* main() up to its loop.
LEMMA BootNoted ==
    ASSUME NEW bond, NEW recs PROVE Noted(Boot(bond, recs))
  BY PowerOnNoted, ReconnectScanNoted, AdvertiseNoted, SettledNoted DEF Boot

-------------------------------------------------------------------------------
\* the invariant
InvNoted == Noted(fw)

\* It is enough that a handler keeps it.
LEMMA HandledNoted ==
    ASSUME NEW s, Noted(s), Handled(s) PROVE InvNoted'
  BY SettlesNoted DEF Handled, InvNoted

\* The events of the stack do not touch the notes, and the timer of the scan is
\* due only if it was run.
LEMMA EnvironmentNoted ==
    ASSUME InvNoted, Environment PROVE InvNoted'
<1>1. ASSUME NEW s, Noted(s), Becomes(s) PROVE InvNoted'
  BY <1>1 DEF Becomes, InvNoted
<1>2. Noted(fw) /\ IsState(fw)
  BY DEF InvNoted, Noted
<1>3. ASSUME NEW b, IsState(b), \A f \in NotesPart : b[f] = fw[f], NEW id, NEW dev
      PROVE  Noted(Event(b, id, dev))
  <2>1. Noted(b)
    BY <1>2, <1>3, NotedOf
  <2>2. "evts" \in Fields \ NotesPart
    BY DEF Fields, NotesPart
  <2> DEFINE q == Append(b.evts, [id |-> id, dev |-> dev])
  <2> HIDE DEF q
  <2>3. Noted([b EXCEPT !.evts = q])
    BY <2>1, <2>2, NotedSet
  <2> QED BY <2>3 DEF Event, q
<1>4. ASSUME NEW d \in Devices, CentralConnects(d) PROVE InvNoted'
  <2> DEFINE b == [fw EXCEPT !.radio = "off", !.link = d, !.sec = "none"]
  <2>1. IsState(b) /\ \A f \in NotesPart : b[f] = fw[f]
    BY <1>2 DEF IsState, Fields, NotesPart
  <2> HIDE DEF b
  <2>2. Noted(Event(b, "CONNECTED", d))
    BY <1>3, <2>1
  <2> QED BY <1>1, <1>4, <2>2 DEF CentralConnects, LinkUp, b
<1>5. CASE LinkLost
  <2> DEFINE b == [fw EXCEPT !.link = NoDev, !.closing = FALSE, !.sec = "none"]
  <2>1. IsState(b) /\ \A f \in NotesPart : b[f] = fw[f]
    BY <1>2 DEF IsState, Fields, NotesPart
  <2> HIDE DEF b
  <2>2. Noted(Event(b, "DISCONNECTED", fw.link))
    BY <1>3, <2>1
  <2> QED BY <1>1, <1>5, <2>2 DEF LinkLost, LinkDown, b
<1>6. CASE AdvertisingTimeout
  <2> DEFINE b == [fw EXCEPT !.radio = "off"]
  <2>1. IsState(b) /\ \A f \in NotesPart : b[f] = fw[f]
    BY <1>2 DEF IsState, Fields, NotesPart
  <2> HIDE DEF b
  <2>2. Noted(Event(b, "TIMEOUT", NoDev))
    BY <1>3, <2>1
  <2> QED BY <1>1, <1>6, <2>2 DEF AdvertisingTimeout, AdvertisingEnds, b
<1>7. ASSUME NEW v, NEW id PROVE Noted(Event([fw EXCEPT !.sec = v], id, fw.link))
  <2> DEFINE b == [fw EXCEPT !.sec = v]
  <2>1. IsState(b) /\ \A f \in NotesPart : b[f] = fw[f]
    BY <1>2 DEF IsState, Fields, NotesPart
  <2> HIDE DEF b
  <2>2. Noted(Event(b, id, fw.link))
    BY <1>3, <2>1
  <2> QED BY <2>2 DEF b
<1>8. CASE CentralPairs
  BY <1>1, <1>7, <1>8 DEF CentralPairs, AskToPair
<1>9. CASE CentralEncrypts
  BY <1>1, <1>7, <1>9 DEF CentralEncrypts, AskToEncrypt
<1>10. CASE SecurityProcedureEnds
  BY <1>1, <1>7, <1>10 DEF SecurityProcedureEnds, SecurityEnds
<1>11. CASE ScanTimeElapses
  <2> DEFINE t == [fw EXCEPT !.scanTimer = "due"]
  <2>1. fw.scanTimer = "waiting" /\ Becomes(t)
    BY <1>11 DEF ScanTimeElapses
  <2>2. /\ IsState(t)
        /\ \A f \in NotesPart \ {"scanTimer"} : t[f] = fw[f]
    BY <1>2 DEF IsState, Fields, NotesPart
  <2> HIDE DEF t
  <2>3. Noted(t)
    BY <1>2, <2>1, <2>2 DEF Noted, Offers, NotesPart
  <2> QED BY <1>1, <2>1, <2>3
<1> QED BY <1>4, <1>5, <1>6, <1>8, <1>9, <1>10, <1>11 DEF Environment

\* the observers of the stack,
LEMMA StackHandlersNoted ==
    ASSUME InvNoted, StackHandlers PROVE InvNoted'
<1> DEFINE P == NotesPart
           f == Fetched
<1>1. P = NotesPart
  OBVIOUS
<1> HIDE DEF P
<1>2. Noted(f)
  <2> DEFINE q == Tail(fw.evts)
  <2>1. "evts" \in Fields \ NotesPart /\ f = [fw EXCEPT !.evts = q]
    BY DEF Fields, NotesPart, Fetched
  <2> HIDE DEF q, f
  <2> QED BY <2>1, NotedSet DEF InvNoted
<1> HIDE DEF f
<1>3. CASE Connected
  BY <1>2, <1>3, ConnectedNoted, HandledNoted DEF Connected, f
<1>4. CASE Disconnected
  BY <1>2, <1>4, DisconnectedNoted, HandledNoted DEF Disconnected, f
<1>5. CASE TimedOut
  BY <1>1, <1>2, <1>5, NotesAre, OnTimeoutTurns, HandledNoted DEF TimedOut, f
<1>6. CASE SecParamsRequest
  BY <1>1, <1>2, <1>6, NotesAre, SecParamsRequestTurns, HandledNoted
  DEF SecParamsRequest, f
<1>7. CASE SecInfoRequest
  BY <1>1, <1>2, <1>7, NotesAre, SecInfoRequestTurns, HandledNoted
  DEF SecInfoRequest, f
<1>8. CASE AuthStatus
  <2>1. /\ Noted(AuthBonded(f, Dev)) /\ Noted(AuthPaired(f))
        /\ Noted(LinkSecureFailure(f))
    BY <1>1, <1>2, NotesAre, AuthBondedTurns, AuthPairedTurns,
       LinkSecureFailureTurns
  <2> QED BY <1>8, <2>1, HandledNoted DEF AuthStatus, f
<1>9. CASE ConnSecUpdate
  <2>1. \A e : Noted(ConnSecUpdateProcess(f, e))
    BY <1>1, <1>2, NotesAre, ConnSecUpdateTurns
  <2> QED BY <1>9, <2>1, HandledNoted DEF ConnSecUpdate, f
<1> QED BY <1>3, <1>4, <1>5, <1>6, <1>7, <1>8, <1>9 DEF StackHandlers

\* the handlers of the buttons
LEMMA ButtonHandlersNoted ==
    ASSUME InvNoted, ButtonHandlers PROVE InvNoted'
<1> DEFINE P == NotesPart
<1>1. P = NotesPart /\ Noted(fw)
      /\ {"isDeleteBonds", "ret", "closing"} \subseteq Fields \ NotesPart
  BY DEF InvNoted, Fields, NotesPart
<1> HIDE DEF P
<1>2. CASE Key2
  <2>1. Noted([fw EXCEPT !.isDeleteBonds = TRUE])
    BY <1>1, NotedSet
  <2> QED BY <1>2, <2>1, HandledNoted DEF Key2
<1>3. CASE Key3
  BY <1>1, <1>3, AddNewNoted, AdvertiseNoted, HandledNoted DEF Key3
<1>4. CASE ButtonDisconnect
  <2> DEFINE called == SdDisconnect(fw)
             shut   == [fw EXCEPT !.closing = TRUE]
  <2>1. Handled(called) \/ Handled(Check(called, "bsp_event_handler"))
    BY <1>4 DEF ButtonDisconnect
  <2>2. \/ \E c : called = Return(fw, c)
        \/ called = [shut EXCEPT !.ret = "SUCCESS"]
    BY DEF SdDisconnect
  <2>3. Noted(shut)
    BY <1>1, NotedSet
  <2> HIDE DEF shut
  <2>4. Noted(called)
    BY <1>1, <2>2, <2>3, NotedSet DEF Return
  <2> HIDE DEF called
  <2>5. "bsp_event_handler" # NoFault
    BY DEF NoFault
  <2>6. Noted(Check(called, "bsp_event_handler"))
    BY <1>1, <2>4, <2>5, NotesAre, Checks
  <2> QED BY <2>1, <2>4, <2>6, HandledNoted
<1>5. CASE ButtonWhitelistOff
  BY <1>1, <1>5, NotesAre, WithoutWhitelistTurns, HandledNoted
  DEF ButtonWhitelistOff
<1> QED BY <1>2, <1>3, <1>4, <1>5 DEF ButtonHandlers

\* and the main loop keep the invariant.
LEMMA MainLoopNoted ==
    ASSUME InvNoted, MainLoop PROVE InvNoted'
<1> DEFINE P == NotesPart
<1>1. P = NotesPart /\ Noted(fw)
  BY DEF InvNoted
<1> HIDE DEF P
<1>2. CASE SchedulerDone
  BY <1>2 DEF SchedulerDone, InvNoted
<1>3. CASE AppProcessing
  <2> DEFINE synced == Synced(fw)
  <2>1. fw' \in Settles(DeleteBonds(synced)) \/ fw' \in Settles(synced)
    BY <1>3 DEF AppProcessing
  <2>2. Turns(P, fw, synced)
    BY <1>1, NotesAre, SyncedTurns
  <2> HIDE DEF synced
  <2>3. Noted(synced)
    BY <1>1, <2>2, NotesAre
  <2>4. Noted(DeleteBonds(synced))
    BY <1>1, <2>3, NotesAre, DeleteBondsTurns
  <2> QED BY <2>1, <2>3, <2>4, SettlesNoted DEF InvNoted
<1>4. CASE TimerProcessing
  <2> DEFINE t == [fw EXCEPT !.scanTimer = "idle"]
  <2>1. \/ fw.scanTimer = "due" /\ fw' = Settled(AppAdvScanStopCB(t))
        \/ fw' = Settled(fw)
    BY <1>4 DEF TimerProcessing
  <2>2. /\ IsState(t) /\ t.scanTimer = "idle"
        /\ \A f \in NotesPart \ {"scanTimer"} : t[f] = fw[f]
    BY <1>1 DEF Noted, IsState, Fields, NotesPart
  <2> HIDE DEF t
  <2>3. ASSUME fw.scanTimer = "due" PROVE Noted(AppAdvScanStopCB(t))
    <3>1. fw.phase = "SCANNING"
      BY <1>1, <2>3 DEF Noted
    <3>2. Noted(t) /\ t.phase = "SCANNING"
      BY <1>1, <2>2, <3>1 DEF Noted, Offers, NotesPart
    <3> QED BY <2>2, <3>2, ScanStopNoted
  <2> QED BY <1>1, <2>1, <2>3, SettledNoted DEF InvNoted
<1> QED BY <1>2, <1>3, <1>4 DEF MainLoop

\* The invariant holds of the firmware.
LEMMA InvNotedHolds == Spec => []InvNoted
<1>1. Init => InvNoted
  BY BootNoted DEF Init, InvNoted
<1>2. ASSUME InvNoted, [Next]_vars PROVE InvNoted'
  <2>1. CASE FlashDone
    BY <1>2, <2>1, FlashDoneNoted, HandledNoted DEF FlashDone, InvNoted
  <2>2. CASE Reset
    BY <2>2, BootNoted DEF Reset, InvNoted
  <2>3. CASE UNCHANGED vars
    BY <1>2, <2>3 DEF vars, InvNoted
  <2> QED
    BY <1>2, <2>1, <2>2, <2>3, EnvironmentNoted, StackHandlersNoted,
       ButtonHandlersNoted, MainLoopNoted DEF Next
<1> QED BY <1>1, <1>2, PTL DEF Spec

\* For all devices, ids and queues, KEY_2, resets and failing checks included: while
\* scanning quantityDetectedDev counts the noted devices, and in the connection phase
\* the mouse is offered to the noted device whose turn it is.
THEOREM NotesHold == Spec => []NotesAgree
<1>1. InvNoted => NotesAgree
  BY DEF InvNoted, Noted, NotesAgree, CountsDetected, OffersDetected, Offers, Found
<1> QED BY <1>1, InvNotedHolds, PTL

-------------------------------------------------------------------------------
(* The security dispatcher and the stack agree on the procedure going on     *)

\* the events after which the security dispatcher may know more or less
Telling == EventIds \ {"CONNECTED", "TIMEOUT"}
Updates == {"ENCRYPTED", "NOT_ENCRYPTED"}

\* where the stack may be when an event was the last of these: a request may have
\* been answered already by the handler of an earlier one
Allows(id, sec) ==
    /\ id = "SEC_PARAMS_REQUEST" => sec \in {"params", "pairing", "rejected"}
    /\ id = "SEC_INFO_REQUEST" => sec \in {"info", "encrypting", "none"}
    /\ id \notin {"SEC_PARAMS_REQUEST", "SEC_INFO_REQUEST"} => sec = "none"

\* where it is when nothing has to be told
Agree(sec, proc) ==
    /\ sec \in {"none", "pairing", "rejected", "encrypting"}
    /\ proc = "none" <=> sec = "none"
    /\ proc = "pairing" <=> sec \in {"pairing", "rejected"}

\* the events after the first j, up to the k-th, tell nothing
Quiet(evts, j, k) == \A m \in j + 1 .. k : evts[m].id \notin Telling

\* The stack is where the last event allows it to be.  News of an encryption
\* comes right behind its request or, when that has been handled, while the
\* dispatcher is not pairing.
Secured(evts, sec, proc) ==
    /\ \A k \in 1 .. Len(evts) :
          evts[k].id \in Telling /\ Quiet(evts, k, Len(evts))
              => Allows(evts[k].id, sec)
    /\ Quiet(evts, 0, Len(evts)) => Agree(sec, proc)
    /\ \A k \in 1 .. Len(evts) : evts[k].id \in Updates =>
          \/ \E m \in 1 .. k - 1 :
                evts[m].id = "SEC_INFO_REQUEST" /\ Quiet(evts, m, k - 1)
          \/ proc # "pairing" /\ Quiet(evts, 0, k - 1)

\* The invariant, of any state.
Matched(s) ==
    IsState(s) /\ (s.fault = NoFault => Secured(s.evts, s.sec, s.secProc))

-------------------------------------------------------------------------------
\* Events come and are fetched.

\* if one of the events tells something there is a last one that does
LEMMA LastTelling ==
    ASSUME NEW evts \in Seq(Events), ~Quiet(evts, 0, Len(evts))
    PROVE  \E k \in 1 .. Len(evts) :
              evts[k].id \in Telling /\ Quiet(evts, k, Len(evts))
<1> DEFINE n     == Len(evts)
           tells == {x \in Nat : n - x \in 1 .. n /\ evts[n - x].id \in Telling}
<1>1. n \in Nat
  OBVIOUS
<1>2. PICK k \in 1 .. n : evts[k].id \in Telling
  BY DEF Quiet
<1> HIDE DEF n
<1>3. n - k \in tells
  <2>1. n - k \in Nat /\ n - (n - k) = k
    BY <1>1, <1>2
  <2> QED BY <1>2, <2>1
<1>4. Min(tells) \in tells /\ \A y \in tells : Min(tells) <= y
  BY <1>3, MinIn
<1> DEFINE x == Min(tells)
<1> HIDE DEF x
<1>5. /\ x \in Nat /\ n - x \in 1 .. n /\ evts[n - x].id \in Telling
      /\ \A y \in tells : x <= y
  BY <1>4 DEF x
<1>6. ASSUME NEW m \in n - x + 1 .. n PROVE evts[m].id \notin Telling
  <2>1. n - m \in Nat /\ n - (n - m) = m /\ m \in 1 .. n /\ ~(x <= n - m)
    BY <1>1, <1>5, <1>6
  <2> QED BY <1>5, <2>1
<1>7. Quiet(evts, n - x, n)
  BY <1>6 DEF Quiet
<1> QED BY <1>5, <1>7 DEF n

\* one more event, with which the stack goes from sec to next
LEMMA SecuredAppend ==
    ASSUME NEW evts \in Seq(Events), NEW e \in Events, NEW sec, NEW next, NEW proc,
           Secured(evts, sec, proc),
           e.id \notin Telling => next = sec,
           e.id \in Telling => Allows(e.id, next),
           e.id \in Updates => sec = "encrypting"
    PROVE  Secured(Append(evts, e), next, proc)
<1> DEFINE n == Len(evts)
           q == Append(evts, e)
<1>1. /\ n \in Nat /\ Len(q) = n + 1 /\ q[n + 1] = e
      /\ \A k \in 1 .. n : q[k] = evts[k]
  OBVIOUS
<1> HIDE DEF q
<1>2. ASSUME NEW j \in 0 .. n, NEW k \in 0 .. n
      PROVE  Quiet(q, j, k) <=> Quiet(evts, j, k)
  <2>1. \A m \in j + 1 .. k : m \in 1 .. n
    BY <1>1
  <2> QED BY <1>1, <2>1 DEF Quiet
<1>3. ASSUME NEW j \in 0 .. n, Quiet(q, j, n + 1)
      PROVE  Quiet(evts, j, n) /\ e.id \notin Telling
  <2>1. \A m \in j + 1 .. n : m \in j + 1 .. n + 1
    BY <1>1
  <2>2. n + 1 \in j + 1 .. n + 1
    BY <1>1
  <2>3. Quiet(q, j, n)
    BY <1>3, <2>1 DEF Quiet
  <2>4. e.id \notin Telling
    BY <1>1, <1>3, <2>2 DEF Quiet
  <2>5. n \in 0 .. n
    BY <1>1
  <2> QED BY <1>2, <2>3, <2>4, <2>5
<1>4. ASSUME NEW k \in 1 .. n + 1, q[k].id \in Telling, Quiet(q, k, n + 1)
      PROVE  Allows(q[k].id, next)
  <2>1. CASE k = n + 1
    BY <1>1, <1>4, <2>1
  <2>2. CASE k # n + 1
    <3>1. k \in 1 .. n /\ k \in 0 .. n
      BY <1>1, <2>2
    <3> QED BY <1>1, <1>3, <1>4, <3>1 DEF Secured
  <2> QED BY <2>1, <2>2
<1>5. ASSUME Quiet(q, 0, n + 1) PROVE Agree(next, proc)
  <2>1. 0 \in 0 .. n
    BY <1>1
  <2> QED BY <1>3, <1>5, <2>1 DEF Secured
<1>6. ASSUME NEW k \in 1 .. n + 1, q[k].id \in Updates
      PROVE  \/ \E m \in 1 .. k - 1 :
                   q[m].id = "SEC_INFO_REQUEST" /\ Quiet(q, m, k - 1)
             \/ proc # "pairing" /\ Quiet(q, 0, k - 1)
  <2>1. \/ \E m \in 1 .. k - 1 :
              evts[m].id = "SEC_INFO_REQUEST" /\ Quiet(evts, m, k - 1)
        \/ proc # "pairing" /\ Quiet(evts, 0, k - 1)
    <3>1. CASE k = n + 1
      <4>1. sec = "encrypting" /\ k - 1 = n
        BY <1>1, <1>6, <3>1
      <4>2. CASE Quiet(evts, 0, n)
        BY <4>1, <4>2 DEF Secured, Agree
      <4>3. CASE ~Quiet(evts, 0, n)
        <5>1. PICK m \in 1 .. n : evts[m].id \in Telling /\ Quiet(evts, m, n)
          BY <4>3, LastTelling
        <5>2. Allows(evts[m].id, "encrypting")
          BY <4>1, <5>1 DEF Secured
        <5>3. evts[m].id = "SEC_INFO_REQUEST"
          BY <5>2 DEF Allows
        <5> QED BY <4>1, <5>1, <5>3
      <4> QED BY <4>2, <4>3
    <3>2. CASE k # n + 1
      <4>1. k \in 1 .. n
        BY <1>1, <3>2
      <4> QED BY <1>1, <1>6, <4>1 DEF Secured
    <3> QED BY <3>1, <3>2
  <2>2. k - 1 \in 0 .. n /\ 0 \in 0 .. n
    BY <1>1
  <2>3. CASE proc # "pairing" /\ Quiet(evts, 0, k - 1)
    BY <1>2, <2>2, <2>3
  <2>4. ASSUME NEW m \in 1 .. k - 1, evts[m].id = "SEC_INFO_REQUEST",
               Quiet(evts, m, k - 1)
        PROVE  q[m].id = "SEC_INFO_REQUEST" /\ Quiet(q, m, k - 1)
    <3>1. m \in 1 .. n /\ m \in 0 .. n
      BY <1>1, <2>2
    <3> QED BY <1>1, <1>2, <2>2, <2>4, <3>1
  <2> QED BY <2>1, <2>3, <2>4
<1> QED BY <1>1, <1>4, <1>5, <1>6 DEF Secured, q

\* An event is fetched and handled: the stack goes from sec to next and the
\* dispatcher from proc to then.
LEMMA SecuredTail ==
    ASSUME NEW evts \in Seq(Events), evts # <<>>,
           NEW sec, NEW next, NEW proc, NEW then, Secured(evts, sec, proc),
           \A id : Allows(id, sec) => Allows(id, next),
           Head(evts).id \in Telling /\ Allows(Head(evts).id, sec)
               => Agree(next, then),
           Head(evts).id = "SEC_INFO_REQUEST" => then # "pairing",
           Head(evts).id \notin Telling => next = sec /\ then = proc
    PROVE  Secured(Tail(evts), next, then)
<1> DEFINE n == Len(evts)
           q == Tail(evts)
<1>1. /\ n \in Nat /\ n >= 1 /\ Len(q) = n - 1 /\ Head(evts) = evts[1]
      /\ \A k \in 1 .. n - 1 : q[k] = evts[k + 1]
  OBVIOUS
<1> HIDE DEF q
<1>2. ASSUME NEW j \in 0 .. n - 1, NEW k \in 0 .. n - 1
      PROVE  Quiet(q, j, k) <=> Quiet(evts, j + 1, k + 1)
  <2>1. \A m \in j + 1 .. k : m \in 1 .. n - 1 /\ m + 1 \in j + 2 .. k + 1
    BY <1>1
  <2>2. \A m \in j + 2 .. k + 1 : m - 1 \in j + 1 .. k /\ (m - 1) + 1 = m
    BY <1>1
  <2>3. Quiet(evts, j + 1, k + 1) => Quiet(q, j, k)
    <3>1. j + 1 + 1 = j + 2
      BY <1>1
    <3> QED BY <1>1, <2>1, <3>1 DEF Quiet
  <2>4. Quiet(q, j, k) => Quiet(evts, j + 1, k + 1)
    <3>1. \A m \in j + 2 .. k + 1 : evts[m] = q[m - 1]
      BY <1>1, <2>1, <2>2
    <3>2. j + 1 + 1 = j + 2
      BY <1>1
    <3> QED BY <2>2, <3>1, <3>2 DEF Quiet
  <2> QED BY <2>3, <2>4
<1>3. ASSUME NEW k \in 0 .. n - 1, Quiet(q, 0, k), evts[1].id \notin Telling
      PROVE  Quiet(evts, 0, k + 1)
  <2>1. Quiet(evts, 1, k + 1)
    <3>1. 0 \in 0 .. n - 1 /\ 0 + 1 = 1
      BY <1>1
    <3> QED BY <1>2, <1>3, <3>1
  <2>2. \A m \in 0 + 1 .. k + 1 : m = 1 \/ m \in 1 + 1 .. k + 1
    BY <1>1
  <2> QED BY <1>3, <2>1, <2>2 DEF Quiet
<1>4. ASSUME NEW k \in 1 .. n - 1, q[k].id \in Telling, Quiet(q, k, n - 1)
      PROVE  Allows(q[k].id, next)
  <2>1. k + 1 \in 1 .. n /\ k \in 0 .. n - 1 /\ n - 1 \in 0 .. n - 1
        /\ (n - 1) + 1 = n
    BY <1>1
  <2>2. Quiet(evts, k + 1, n) /\ evts[k + 1].id \in Telling
    BY <1>1, <1>2, <1>4, <2>1
  <2> QED BY <1>1, <2>1, <2>2 DEF Secured
<1>5. ASSUME Quiet(q, 0, n - 1) PROVE Agree(next, then)
  <2>1. n - 1 \in 0 .. n - 1 /\ 0 \in 0 .. n - 1 /\ (n - 1) + 1 = n /\ 0 + 1 = 1
        /\ 1 \in 1 .. n
    BY <1>1
  <2>2. CASE evts[1].id \in Telling
    <3>1. Quiet(evts, 1, n)
      BY <1>2, <1>5, <2>1
    <3>2. Allows(evts[1].id, sec)
      BY <2>1, <2>2, <3>1 DEF Secured
    <3> QED BY <1>1, <2>2, <3>2
  <2>3. CASE evts[1].id \notin Telling
    <3>1. Quiet(evts, 0, n)
      BY <1>3, <1>5, <2>1, <2>3
    <3> QED BY <1>1, <2>3, <3>1 DEF Secured
  <2> QED BY <2>2, <2>3
<1>6. ASSUME NEW k \in 1 .. n - 1, q[k].id \in Updates
      PROVE  \/ \E m \in 1 .. k - 1 :
                   q[m].id = "SEC_INFO_REQUEST" /\ Quiet(q, m, k - 1)
             \/ then # "pairing" /\ Quiet(q, 0, k - 1)
  <2>1. /\ k + 1 \in 1 .. n /\ k - 1 \in 0 .. n - 1 /\ 0 \in 0 .. n - 1
        /\ (k - 1) + 1 = k /\ (k + 1) - 1 = k /\ 0 + 1 = 1
    BY <1>1
  <2>2. \/ \E m \in 1 .. k :
              evts[m].id = "SEC_INFO_REQUEST" /\ Quiet(evts, m, k)
        \/ proc # "pairing" /\ Quiet(evts, 0, k)
    BY <1>1, <1>6, <2>1 DEF Secured
  <2>3. Quiet(q, 0, k - 1) <=> Quiet(evts, 1, k)
    BY <1>2, <2>1
  <2>4. CASE proc # "pairing" /\ Quiet(evts, 0, k)
    <3>1. 1 \in 0 + 1 .. k /\ \A m \in 1 + 1 .. k : m \in 0 + 1 .. k
      BY <1>1
    <3>2. evts[1].id \notin Telling /\ Quiet(evts, 1, k)
      BY <2>4, <3>1 DEF Quiet
    <3> QED BY <1>1, <2>3, <2>4, <3>2
  <2>5. ASSUME NEW m \in 1 .. k, evts[m].id = "SEC_INFO_REQUEST", Quiet(evts, m, k)
        PROVE  \/ \E l \in 1 .. k - 1 :
                     q[l].id = "SEC_INFO_REQUEST" /\ Quiet(q, l, k - 1)
               \/ then # "pairing" /\ Quiet(q, 0, k - 1)
    <3>1. CASE m = 1
      BY <1>1, <2>3, <2>5, <3>1
    <3>2. CASE m # 1
      <4>1. m - 1 \in 1 .. k - 1 /\ m - 1 \in 1 .. n - 1 /\ m - 1 \in 0 .. n - 1
            /\ (m - 1) + 1 = m
        BY <1>1, <3>2
      <4>2. q[m - 1].id = "SEC_INFO_REQUEST" /\ Quiet(q, m - 1, k - 1)
        BY <1>1, <1>2, <2>1, <2>5, <4>1
      <4> QED BY <4>1, <4>2
    <3> QED BY <3>1, <3>2
  <2> QED BY <2>2, <2>4, <2>5
<1> QED BY <1>1, <1>4, <1>5, <1>6 DEF Secured, q

\* news of an encryption is fetched
LEMMA UpdateFetched ==
    ASSUME NEW evts \in Seq(Events), evts # <<>>, NEW sec, NEW proc,
           Secured(evts, sec, proc), Head(evts).id \in Updates
    PROVE  proc # "pairing"
<1>1. Head(evts) = evts[1] /\ 1 \in 1 .. Len(evts)
  OBVIOUS
<1>2. \A m \in 1 .. 1 - 1 : FALSE
  OBVIOUS
<1> QED BY <1>1, <1>2 DEF Secured

-------------------------------------------------------------------------------
\* The handlers.
MatchedPart == {"sec", "secProc"}

\* the functions that leave the procedure alone
LEMMA MatchedAre ==
    ASSUME NEW P, P = MatchedPart
    PROVE  /\ P \in SUBSET PeerPart /\ P \in SUBSET Parts
           /\ P \in SUBSET FlashPart /\ P \in SUBSET StoredPart
           /\ P \in SUBSET (Parts \ FileFields)
           /\ P \in SUBSET (PeerPart \cup NotesPart)
           /\ \A s : IsState(s) => Turns(P, s, s)
           /\ \A s, t : Turns(P, s, t) =>
                 /\ IsState(t)
                 /\ t.evts = s.evts /\ t.sec = s.sec /\ t.secProc = s.secProc
                 /\ t.fault = NoFault => s.fault = NoFault
           /\ \A s, t : Matched(s) /\ Turns(P, s, t) => Matched(t)
  BY TurnsRefl
  DEF MatchedPart, Matched, Turns, PeerPart, Parts, FlashPart, AppPart, StoredPart,
      FileFields, NotesPart, ListsPart, LinkPart

\* other assignments
LEMMA MatchedSet ==
    ASSUME NEW s, IsState(s), NEW a \in Fields \ {"evts", "sec", "secProc", "fault"},
           NEW v
    PROVE  LET t == [s EXCEPT ![a] = v] IN
           /\ IsState(t)
           /\ t.evts = s.evts /\ t.sec = s.sec /\ t.secProc = s.secProc
           /\ t.fault = s.fault
           /\ Matched(s) => Matched(t)
  BY DEF IsState, Fields, Matched

\* what the handler of the event at the head has to achieve
LEMMA HandlerMatched ==
    ASSUME NEW s, Matched(s), s.fault = NoFault, s.evts \in Seq(Events), s.evts # <<>>,
           NEW t, IsState(t),
           t.fault = NoFault =>
              /\ t.evts = Tail(s.evts)
              /\ \A id : Allows(id, s.sec) => Allows(id, t.sec)
              /\ Head(s.evts).id \in Telling /\ Allows(Head(s.evts).id, s.sec)
                    => Agree(t.sec, t.secProc)
              /\ Head(s.evts).id = "SEC_INFO_REQUEST" => t.secProc # "pairing"
              /\ Head(s.evts).id \notin Telling
                    => t.sec = s.sec /\ t.secProc = s.secProc
    PROVE  Matched(t)
<1>1. Secured(s.evts, s.sec, s.secProc)
  BY DEF Matched
<1>2. t.fault = NoFault => Secured(Tail(s.evts), t.sec, t.secProc)
  BY <1>1, SecuredTail
<1> QED BY <1>2 DEF Matched

\* a procedure fails
LEMMA FailureEnds ==
    ASSUME NEW s, IsState(s)
    PROVE  \A t \in {ConnSecFailure(s), LinkSecureFailure(s)} :
              /\ IsState(t) /\ t.evts = s.evts /\ t.sec = s.sec
              /\ t.secProc = "none"
<1> DEFINE P == MatchedPart
<1>1. P = MatchedPart
  OBVIOUS
<1> HIDE DEF P
<1>2. ASSUME NEW t, IsState(t)
      PROVE  LET u == ConnSecFailure(t) IN
             IsState(u) /\ u.evts = t.evts /\ u.sec = t.sec /\ u.secProc = "none"
  <2> DEFINE ended == [t EXCEPT !.secProc = "none"]
  <2>1. IsState(ended) /\ ended.evts = t.evts /\ ended.sec = t.sec
        /\ ended.secProc = "none"
    BY <1>2 DEF IsState, Fields
  <2> HIDE DEF ended
  <2>2. Turns(P, ended, AppDisconnect(ended))
    BY <1>1, <2>1, MatchedAre, AppDisconnectTurns
  <2>3. ConnSecFailure(t) = AppDisconnect(ended)
    BY DEF ConnSecFailure, ended
  <2>4. /\ IsState(AppDisconnect(ended))
        /\ AppDisconnect(ended).evts = ended.evts
        /\ AppDisconnect(ended).sec = ended.sec
        /\ AppDisconnect(ended).secProc = ended.secProc
    BY <1>1, <2>2, MatchedAre
  <2> QED BY <2>1, <2>3, <2>4
<1>3. LET u == PeerFree(s, s.connPeer) IN
      IsState(u) /\ u.evts = s.evts /\ u.sec = s.sec
  BY <1>1, MatchedAre, PeerFreeTurns
<1>4. \/ LinkSecureFailure(s) = s /\ s.secProc = "none"
      \/ LinkSecureFailure(s) = ConnSecFailure(PeerFree(s, s.connPeer))
      \/ LinkSecureFailure(s) = ConnSecFailure(s)
  BY DEF LinkSecureFailure
<1> QED BY <1>2, <1>3, <1>4

\* the application hears of a connection that is secure, or of an error
LEMMA SuccessEnds ==
    ASSUME NEW s, IsState(s), NEW dev
    PROVE  \A t \in {AuthBonded(s, dev), AuthPaired(s)} :
              /\ IsState(t) /\ t.evts = s.evts /\ t.sec = s.sec
              /\ t.secProc = "none"
<1> DEFINE P     == MatchedPart
           other == FindBond(s, dev)
           ended == [s EXCEPT !.secProc = "none"]
           known == [ended EXCEPT !.connPeer = other]
           put   == FdsPut(ended, "bond", s.connPeer, dev)
           freed == PeerFree(known, s.connPeer)
           gone  == PeerFree(ended, s.connPeer)
           none  == Return(ended, "INVALID_PARAM")
<1>1. P = MatchedPart
  OBVIOUS
<1> HIDE DEF P, other
<1>2. IsState(ended) /\ ended.evts = s.evts /\ ended.sec = s.sec
      /\ ended.secProc = "none"
  BY DEF IsState, Fields
<1>3. AuthBonded(s, dev) \in
          {ConnSecSucceeded(put), ConnSecSucceeded(freed), ConnSecSucceeded(known),
           ErrorUnexpected(none)}
      /\ AuthPaired(s) \in {ConnSecSucceeded(ended), ConnSecSucceeded(gone)}
  BY DEF AuthBonded, AuthPaired, other
<1> HIDE DEF ended
<1>4. Turns(P, ended, ended)
  BY <1>1, <1>2, MatchedAre
<1>5. Turns(P, ended, known) /\ Turns(P, ended, put) /\ Turns(P, ended, gone)
  BY <1>1, <1>4, MatchedAre, AssignsFile, FdsPutTurns, PeerFreeTurns DEF FileFields
<1> HIDE DEF known, put, gone
<1>6. Turns(P, ended, freed) /\ Turns(P, ended, none)
  BY <1>1, <1>4, <1>5, MatchedAre, PeerFreeTurns, Returns
<1> HIDE DEF freed, none
<1>7. Turns(P, ended, ErrorUnexpected(none))
  BY <1>1, <1>6, MatchedAre, Checks DEF ErrorUnexpected, NoFault
<1>8. \A t \in {AuthBonded(s, dev), AuthPaired(s)} : Turns(P, ended, t)
  BY <1>1, <1>3, <1>4, <1>5, <1>6, <1>7, MatchedAre, ConnSecSucceededTurns
<1> QED BY <1>1, <1>2, <1>8, MatchedAre

\* the connection is encrypted, or is not
LEMMA UpdateEnds ==
    ASSUME NEW s, IsState(s), s.secProc # "pairing", NEW isEncrypted
    PROVE  LET t == ConnSecUpdateProcess(s, isEncrypted) IN
           /\ IsState(t) /\ t.evts = s.evts /\ t.sec = s.sec
           /\ t.secProc = "none"
<1> DEFINE P     == MatchedPart
           ended == [s EXCEPT !.secProc = "none"]
<1>1. P = MatchedPart
  OBVIOUS
<1> HIDE DEF P
<1>2. IsState(ended) /\ ended.evts = s.evts /\ ended.sec = s.sec
      /\ ended.secProc = "none"
  BY DEF IsState, Fields
<1>3. ConnSecUpdateProcess(s, isEncrypted) \in
          {ConnSecSucceeded(ended), ConnSecFailure(s)}
  BY DEF ConnSecUpdateProcess
<1> HIDE DEF ended
<1>4. Turns(P, ended, ConnSecSucceeded(ended))
  BY <1>1, <1>2, MatchedAre, ConnSecSucceededTurns
<1> QED BY <1>1, <1>2, <1>3, <1>4, MatchedAre, FailureEnds

\* what the stack answers to a reply
LEMMA ReplySec ==
    ASSUME NEW s, IsState(s), NEW asked, NEW next
    PROVE  LET t == SdSecReply(s, asked, next) IN
           /\ IsState(t) /\ t.evts = s.evts /\ t.secProc = s.secProc
           /\ t.fault = s.fault /\ t.link = s.link
           /\ t.ret = "SUCCESS" => s.sec = asked /\ t.sec = next
           /\ t.ret # "SUCCESS" => /\ t.sec = s.sec
                                   /\ s.sec # asked \/ s.link = NoDev
  BY DEF SdSecReply, Return, IsState, Fields

\* the stack asks for the parameters of a pairing
LEMMA ParamsAnswered ==
    ASSUME NEW s, IsState(s), s.sec # "none" => s.link # NoDev
    PROVE  LET t == SecParamsRequestProcess(s) IN
           /\ IsState(t) /\ t.evts = s.evts
           /\ t.fault = NoFault =>
                 /\ t.secProc = "pairing"
                 /\ IF s.sec = "params" THEN t.sec \in {"pairing", "rejected"}
                    ELSE t.sec = s.sec
<1> DEFINE P       == MatchedPart
           new     == Min(Unallocated(s))
           started == SecProcStart(s, "pairing")
           u       == started.used \cup {new}
           taken   == [started EXCEPT !.used = u]
           reply   == SdSecReply(taken, "params", "pairing")
           refuse  == SdSecReply(started, "params", "rejected")
           full    == Return(started, "INTERNAL")
           fresh   == [reply EXCEPT !.newPeer = TRUE]
           given   == [fresh EXCEPT !.connPeer = new]
           failed  == PeerFree(reply, new)
           Answers(t) == /\ IsState(t) /\ t.evts = s.evts /\ t.secProc = "pairing"
                         /\ IF s.sec = "params" THEN t.sec \in {"pairing", "rejected"}
                            ELSE t.sec = s.sec
<1>1. P = MatchedPart /\ "PM_EVT_ERROR_UNEXPECTED" # NoFault
  BY DEF NoFault
<1> HIDE DEF P, new
<1>2. \/ SecParamsRequestProcess(s) = ReplyFailed(refuse)
      \/ SecParamsRequestProcess(s) = ReplyFailed(full)
      \/ SecParamsRequestProcess(s) = given /\ reply.ret = "SUCCESS"
      \/ SecParamsRequestProcess(s) = ReplyFailed(failed) /\ reply.ret # "SUCCESS"
  BY DEF SecParamsRequestProcess, new
<1>3. /\ IsState(started) /\ started.evts = s.evts /\ started.sec = s.sec
      /\ started.secProc = "pairing" /\ started.link = s.link
  BY DEF SecProcStart, IsState, Fields
<1> HIDE DEF started, u
<1>4. /\ IsState(taken) /\ taken.evts = s.evts /\ taken.sec = s.sec
      /\ taken.secProc = "pairing" /\ taken.link = s.link
  BY <1>3 DEF IsState, Fields
<1> HIDE DEF taken
<1>5. ASSUME NEW t, Answers(t)
      PROVE  /\ IsState(ReplyFailed(t)) /\ ReplyFailed(t).evts = s.evts
             /\ ReplyFailed(t).fault = NoFault => Answers(ReplyFailed(t))
  <2>1. Turns(P, t, Check(t, "PM_EVT_ERROR_UNEXPECTED"))
        /\ (Check(t, "PM_EVT_ERROR_UNEXPECTED").fault = NoFault
               => Check(t, "PM_EVT_ERROR_UNEXPECTED") = t)
    BY <1>1, <1>5, MatchedAre, Checks
  <2> QED BY <1>1, <1>5, <2>1, MatchedAre DEF ReplyFailed, ErrorUnexpected
<1>6. Answers(refuse)
  <2>1. /\ IsState(refuse) /\ refuse.evts = s.evts /\ refuse.secProc = "pairing"
        /\ refuse.ret = "SUCCESS" => s.sec = "params" /\ refuse.sec = "rejected"
        /\ refuse.ret # "SUCCESS" => /\ refuse.sec = s.sec
                                     /\ s.sec # "params" \/ s.link = NoDev
    BY <1>3, ReplySec
  <2> HIDE DEF refuse
  <2> QED BY <2>1
<1>7. /\ IsState(ReplyFailed(full)) /\ ReplyFailed(full).evts = s.evts
      /\ ReplyFailed(full).fault # NoFault
  <2>1. IsState(full) /\ full.evts = s.evts /\ full.ret = "INTERNAL"
    BY <1>3 DEF Return, IsState, Fields
  <2> HIDE DEF full
  <2>2. Turns(P, full, Check(full, "PM_EVT_ERROR_UNEXPECTED"))
        /\ Check(full, "PM_EVT_ERROR_UNEXPECTED").fault # NoFault
    BY <1>1, <2>1, MatchedAre, Checks
  <2> QED BY <1>1, <2>1, <2>2, MatchedAre DEF ReplyFailed, ErrorUnexpected
<1>8. /\ IsState(reply) /\ reply.evts = s.evts /\ reply.secProc = "pairing"
      /\ reply.ret = "SUCCESS" => s.sec = "params" /\ reply.sec = "pairing"
      /\ reply.ret # "SUCCESS" => reply.sec = s.sec /\ s.sec # "params"
  BY <1>4, ReplySec
<1> HIDE DEF reply
<1>9. reply.ret = "SUCCESS" => Answers(given)
  <2>1. IsState(fresh) /\ fresh.evts = s.evts /\ fresh.secProc = "pairing"
        /\ fresh.sec = reply.sec
    BY <1>8, MatchedSet DEF Fields
  <2> HIDE DEF fresh
  <2>2. IsState(given) /\ given.evts = s.evts /\ given.secProc = "pairing"
        /\ given.sec = reply.sec
    BY <2>1, MatchedSet DEF Fields
  <2> HIDE DEF given
  <2> QED BY <1>8, <2>2
<1>10. reply.ret # "SUCCESS" => Answers(failed)
  <2>1. Turns(P, reply, failed)
    BY <1>1, <1>8, MatchedAre, PeerFreeTurns
  <2> HIDE DEF failed
  <2> QED BY <1>1, <1>8, <2>1, MatchedAre
<1> HIDE DEF refuse, full, given, failed
<1> QED BY <1>2, <1>5, <1>6, <1>7, <1>9, <1>10

\* the stack asks for the keys
LEMMA InfoAnswered ==
    ASSUME NEW s, IsState(s), NEW dev
    PROVE  LET t == SecInfoRequestProcess(s, dev) IN
           /\ IsState(t) /\ t.evts = s.evts
           /\ t.fault = NoFault =>
                 /\ s.sec = "info"
                 /\ \/ t.sec = "encrypting" /\ t.secProc = "encryption"
                    \/ t.sec = "none" /\ t.secProc = "none"
<1> DEFINE P       == MatchedPart
           byKey   == FindBond(s, dev)
           peer    == IF byKey = PeerIdInvalid THEN s.connPeer ELSE byKey
           next    == IF HasBond(s, peer) THEN "encrypting" ELSE "none"
           with    == [s EXCEPT !.connPeer = peer]
           started == SecProcStart(with, "encryption")
           reply   == SdSecReply(started, "info", next)
<1>1. P = MatchedPart /\ "PM_EVT_ERROR_UNEXPECTED" # NoFault
  BY DEF NoFault
<1> HIDE DEF P, byKey, peer
<1>2. SecInfoRequestProcess(s, dev) =
         IF reply.ret # "SUCCESS" THEN ErrorUnexpected(reply)
         ELSE IF HasBond(s, peer) THEN reply ELSE ConnSecFailure(reply)
  BY DEF SecInfoRequestProcess, peer, byKey
<1>3. IsState(with) /\ with.evts = s.evts /\ with.sec = s.sec
  BY DEF IsState, Fields
<1> HIDE DEF with
<1>4. IsState(started) /\ started.evts = s.evts /\ started.sec = s.sec
      /\ started.secProc = "encryption"
  BY <1>3 DEF SecProcStart, IsState, Fields
<1> HIDE DEF started
<1>5. /\ IsState(reply) /\ reply.evts = s.evts /\ reply.secProc = "encryption"
      /\ reply.ret = "SUCCESS" => s.sec = "info" /\ reply.sec = next
  BY <1>4, ReplySec
<1> HIDE DEF reply
<1>6. CASE reply.ret # "SUCCESS"
  <2>1. Turns(P, reply, Check(reply, "PM_EVT_ERROR_UNEXPECTED"))
        /\ Check(reply, "PM_EVT_ERROR_UNEXPECTED").fault # NoFault
    BY <1>1, <1>5, <1>6, MatchedAre, Checks
  <2> QED BY <1>1, <1>2, <1>5, <1>6, <2>1, MatchedAre DEF ErrorUnexpected
<1>7. CASE reply.ret = "SUCCESS" /\ HasBond(s, peer)
  BY <1>2, <1>5, <1>7
<1>8. CASE reply.ret = "SUCCESS" /\ ~HasBond(s, peer)
  BY <1>2, <1>5, <1>8, FailureEnds
<1> QED BY <1>6, <1>7, <1>8

-------------------------------------------------------------------------------
\* Power on and reset: there is no procedure and no event.
LEMMA PowerOnMatched ==
    ASSUME NEW bond, NEW recs PROVE Matched(PowerOn(bond, recs))
<1> DEFINE s == PowerOn(bond, recs)
<1>1. IsState(s) /\ s.evts = <<>> /\ Booted(s, bond, recs)
  BY PowerOnIs
<1> HIDE DEF s
<1>2. IsState(s) /\ s.evts = <<>> /\ s.sec = "none" /\ s.secProc = "none"
  BY <1>1 DEF Booted
<1>3. \A k \in 1 .. Len(<<>>) : FALSE
  OBVIOUS
<1>4. Secured(<<>>, "none", "none")
  BY <1>3 DEF Secured, Agree
<1> QED BY <1>2, <1>4 DEF Matched, s

\* the reset of a failed check,
LEMMA SettledMatched ==
    ASSUME NEW s, Matched(s) PROVE Matched(Settled(s))
<1> DEFINE on == PowerOn(s.bond, s.orderRecs)
           f  == s.fault
           t  == [on EXCEPT !.fault = f]
<1>1. CASE s.fault = NoFault
  BY <1>1, MatchedSet DEF Settled, Return, Matched, Fields
<1>2. CASE s.fault # NoFault
  <2>1. Settled(s) = t /\ f # NoFault
    BY <1>2 DEF Settled
  <2>2. Matched(on)
    BY PowerOnMatched
  <2> HIDE DEF on, f
  <2>3. IsState(t) /\ t.fault = f
    BY <2>2 DEF Matched, IsState, Fields
  <2> QED BY <2>1, <2>3 DEF Matched
<1> QED BY <1>1, <1>2

\* whichever outcome the write of queue_buf_get has,
LEMMA SettlesMatched ==
    ASSUME NEW s, Matched(s), NEW t \in Settles(s) PROVE Matched(t)
<1> DEFINE clear      == [s EXCEPT !.overrun = FALSE]
           cleared(f) == [clear EXCEPT !.fault = f]
           faults     == IF s.overrun /\ s.fault = NoFault
                         THEN {"queue_buf_get"} ELSE {}
<1>1. t \in {Settled(clear)} \cup {Settled(cleared(f)) : f \in faults}
  BY Zenon DEF Settles
<1>2. Matched(clear) /\ IsState(clear)
  BY MatchedSet DEF Matched, Fields
<1>3. \A f \in faults : f # NoFault
  BY DEF NoFault
<1> HIDE DEF clear, faults
<1>4. ASSUME NEW f, f # NoFault PROVE Matched(cleared(f))
  <2>1. IsState(cleared(f)) /\ cleared(f).fault = f
    BY <1>2 DEF IsState, Fields
  <2> HIDE DEF cleared
  <2> QED BY <1>4, <2>1 DEF Matched
<1> HIDE DEF cleared
<1> QED BY <1>1, <1>2, <1>3, <1>4, SettledMatched

\* main() up to its loop.
LEMMA BootMatched ==
    ASSUME NEW bond, NEW recs PROVE Matched(Boot(bond, recs))
<1> DEFINE P  == MatchedPart
           on == PowerOn(bond, recs)
           up == Advertise(ReconnectScan(on))
<1>1. P = MatchedPart
  OBVIOUS
<1> HIDE DEF P
<1>2. Matched(on)
  BY PowerOnMatched
<1> HIDE DEF on
<1>3. Turns(P, on, up)
  BY <1>1, <1>2, MatchedAre, ReconnectScanTurns, AdvertiseTurns DEF Matched
<1>4. Matched(up)
  BY <1>1, <1>2, <1>3, MatchedAre
<1> QED BY <1>4, SettledMatched DEF Boot, up, on

-------------------------------------------------------------------------------
\* the invariant
InvMatched == Matched(fw)

\* It is enough that a handler keeps it
LEMMA HandledMatched ==
    ASSUME NEW s, Matched(s), Handled(s) PROVE InvMatched'
  BY SettlesMatched DEF Handled, InvMatched

\* or that it is a turn of the application.
LEMMA TurnsInvMatched ==
    ASSUME NEW s, NEW P, P = MatchedPart, InvMatched, Turns(P, fw, s), Handled(s)
    PROVE  InvMatched'
  BY MatchedAre, HandledMatched DEF InvMatched

\* What the stack announces: the event allows the stack to be where it is then.
LEMMA EnvironmentMatched ==
    ASSUME InvMatched, InvSafe, Environment PROVE InvMatched'
<1>1. ASSUME NEW s, Matched(s), Becomes(s) PROVE InvMatched'
  BY <1>1 DEF Becomes, InvMatched
<1>2. /\ IsState(fw) /\ fw.evts \in Seq(Events) /\ fw.link \in Others
      /\ fw.sec # "none" => fw.link # NoDev
  BY DEF InvMatched, Matched, InvSafe, Safe, Busy, Told
<1>3. ASSUME NEW b, IsState(b), b.evts = fw.evts, b.secProc = fw.secProc, Running,
             NEW id \in EventIds, NEW dev \in Others,
             id \notin Telling => b.sec = fw.sec,
             id \in Telling => Allows(id, b.sec),
             id \in Updates => fw.sec = "encrypting"
      PROVE  Matched(Event(b, id, dev))
  <2> DEFINE e == [id |-> id, dev |-> dev]
             t == Event(b, id, dev)
  <2>1. e \in Events /\ e.id = id
    BY DEF Events
  <2>2. /\ IsState(t) /\ t.evts = Append(fw.evts, e)
        /\ t.sec = b.sec /\ t.secProc = fw.secProc
    BY <1>3, EventFields DEF Fields
  <2> HIDE DEF e, t
  <2>3. Secured(fw.evts, fw.sec, fw.secProc)
    BY <1>3 DEF InvMatched, Matched, Running
  <2>4. Secured(t.evts, t.sec, t.secProc)
    BY <1>2, <1>3, <2>1, <2>2, <2>3, SecuredAppend
  <2> QED BY <2>2, <2>4 DEF Matched, t
<1>4. ASSUME NEW d \in Devices, CentralConnects(d) PROVE InvMatched'
  <2> DEFINE b == [fw EXCEPT !.radio = "off", !.link = d, !.sec = "none"]
  <2>1. fw.link = NoDev /\ Running /\ Becomes(LinkUp(fw, d))
    BY <1>4 DEF CentralConnects, Accepts, Becomes
  <2>2. /\ IsState(b) /\ b.evts = fw.evts /\ b.secProc = fw.secProc
        /\ b.sec = "none"
    BY <1>2 DEF IsState, Fields
  <2> HIDE DEF b
  <2>3. "CONNECTED" \in EventIds /\ "CONNECTED" \notin Telling
        /\ "CONNECTED" \notin Updates /\ d \in Others
    BY DEF EventIds, Telling, Updates, Others
  <2>4. Matched(Event(b, "CONNECTED", d))
    BY <1>2, <1>3, <2>1, <2>2, <2>3
  <2> QED BY <1>1, <2>1, <2>4 DEF LinkUp, b
<1>5. CASE LinkLost
  <2> DEFINE b == [fw EXCEPT !.link = NoDev, !.closing = FALSE, !.sec = "none"]
  <2>1. Running /\ Becomes(LinkDown(fw))
    BY <1>5 DEF LinkLost, Becomes
  <2>2. /\ IsState(b) /\ b.evts = fw.evts /\ b.secProc = fw.secProc
        /\ b.sec = "none"
    BY <1>2 DEF IsState, Fields
  <2> HIDE DEF b
  <2>3. "DISCONNECTED" \in EventIds /\ "DISCONNECTED" \in Telling
        /\ "DISCONNECTED" \notin Updates /\ Allows("DISCONNECTED", "none")
    BY DEF EventIds, Telling, Updates, Allows
  <2>4. Matched(Event(b, "DISCONNECTED", fw.link))
    BY <1>2, <1>3, <2>1, <2>2, <2>3
  <2> QED BY <1>1, <2>1, <2>4 DEF LinkDown, b
<1>6. CASE AdvertisingTimeout
  <2> DEFINE b == [fw EXCEPT !.radio = "off"]
  <2>1. Running /\ Becomes(AdvertisingEnds(fw))
    BY <1>6 DEF AdvertisingTimeout, Becomes
  <2>2. /\ IsState(b) /\ b.evts = fw.evts /\ b.secProc = fw.secProc
        /\ b.sec = fw.sec
    BY <1>2 DEF IsState, Fields
  <2> HIDE DEF b
  <2>3. "TIMEOUT" \in EventIds /\ "TIMEOUT" \notin Telling
        /\ "TIMEOUT" \notin Updates /\ NoDev \in Others
    BY DEF EventIds, Telling, Updates, Others
  <2>4. Matched(Event(b, "TIMEOUT", NoDev))
    BY <1>2, <1>3, <2>1, <2>2, <2>3
  <2> QED BY <1>1, <2>1, <2>4 DEF AdvertisingEnds, b
<1>7. ASSUME NEW v, NEW id \in Telling, Allows(id, v), Running,
             id \in Updates => fw.sec = "encrypting"
      PROVE  Matched(Event([fw EXCEPT !.sec = v], id, fw.link))
  <2> DEFINE b == [fw EXCEPT !.sec = v]
  <2>1. IsState(b) /\ b.evts = fw.evts /\ b.secProc = fw.secProc /\ b.sec = v
    BY <1>2 DEF IsState, Fields
  <2> HIDE DEF b
  <2>2. id \in EventIds
    BY <1>7 DEF Telling
  <2>3. Matched(Event(b, id, fw.link))
    BY <1>2, <1>3, <1>7, <2>1, <2>2
  <2> QED BY <2>3 DEF b
<1>8. CASE CentralPairs
  <2>1. Running /\ Becomes(AskToPair(fw))
    BY <1>8 DEF CentralPairs, Becomes
  <2>2. "SEC_PARAMS_REQUEST" \in Telling /\ Allows("SEC_PARAMS_REQUEST", "params")
        /\ "SEC_PARAMS_REQUEST" \notin Updates
    BY DEF EventIds, Telling, Allows, Updates
  <2> QED BY <1>1, <1>7, <2>1, <2>2 DEF AskToPair
<1>9. CASE CentralEncrypts
  <2>1. Running /\ Becomes(AskToEncrypt(fw))
    BY <1>9 DEF CentralEncrypts, Becomes
  <2>2. "SEC_INFO_REQUEST" \in Telling /\ Allows("SEC_INFO_REQUEST", "info")
        /\ "SEC_INFO_REQUEST" \notin Updates
    BY DEF EventIds, Telling, Allows, Updates
  <2> QED BY <1>1, <1>7, <2>1, <2>2 DEF AskToEncrypt
<1>10. CASE SecurityProcedureEnds
  <2>1. PICK outcome \in Outcomes(fw.sec) : Becomes(SecurityEnds(fw, outcome))
    BY <1>10 DEF SecurityProcedureEnds
  <2>2. /\ outcome \in Telling /\ Allows(outcome, "none") /\ Running
        /\ outcome \in Updates => fw.sec = "encrypting"
    BY <2>1 DEF Outcomes, EventIds, Telling, Allows, Updates, Becomes
  <2> QED BY <1>1, <1>7, <2>1, <2>2 DEF SecurityEnds
<1>11. CASE ScanTimeElapses
  <2>1. Becomes([fw EXCEPT !.scanTimer = "due"])
    BY <1>11 DEF ScanTimeElapses
  <2>2. Matched([fw EXCEPT !.scanTimer = "due"])
    BY <1>2, MatchedSet DEF InvMatched, Fields
  <2> QED BY <1>1, <2>1, <2>2
<1> QED BY <1>4, <1>5, <1>6, <1>8, <1>9, <1>10, <1>11 DEF Environment

\* the observers of the stack,
LEMMA StackHandlersMatched ==
    ASSUME InvMatched, InvSafe, StackHandlers PROVE InvMatched'
<1> DEFINE P  == MatchedPart
           f  == Fetched
           id == Head(fw.evts).id
           Does(t) == /\ IsState(t) /\ t.evts = f.evts
                      /\ t.fault = NoFault =>
                            /\ \A x : Allows(x, fw.sec) => Allows(x, t.sec)
                            /\ id \in Telling /\ Allows(id, fw.sec)
                                  => Agree(t.sec, t.secProc)
                            /\ id = "SEC_INFO_REQUEST" => t.secProc # "pairing"
                            /\ id \notin Telling
                                  => t.sec = fw.sec /\ t.secProc = fw.secProc
<1>1. P = MatchedPart
  OBVIOUS
<1> HIDE DEF P
<1>2. /\ Matched(fw) /\ IsState(fw) /\ fw.evts \in Seq(Events)
      /\ fw.sec # "none" => fw.link # NoDev
  BY DEF InvMatched, Matched, InvSafe, Safe, Busy, Told
<1>3. /\ IsState(f) /\ f.evts = Tail(fw.evts) /\ f.sec = fw.sec
      /\ f.secProc = fw.secProc /\ f.link = fw.link
  BY <1>2 DEF Fetched, IsState, Fields
<1> HIDE DEF f
<1>4. /\ \A x : Next1(x) => fw.evts # <<>> /\ id = x
      /\ \A t : Handled(t) => fw.fault = NoFault
  BY DEF Next1, Handled, Running
<1> HIDE DEF id
<1>5. ASSUME NEW t, fw.evts # <<>>, Handled(t), Does(t) PROVE InvMatched'
  <2>1. Matched(t)
    BY <1>2, <1>3, <1>4, <1>5, HandlerMatched DEF id
  <2> QED BY <1>5, <2>1, HandledMatched
<1>6. ASSUME NEW t, Turns(P, f, t), id \notin Telling PROVE Does(t)
  <2>1. IsState(t) /\ t.evts = f.evts /\ t.sec = fw.sec /\ t.secProc = fw.secProc
    BY <1>1, <1>3, <1>6, MatchedAre
  <2>2. id # "SEC_INFO_REQUEST"
    BY <1>6 DEF Telling, EventIds
  <2> QED BY <1>6, <2>1, <2>2
<1>7. ASSUME NEW t, IsState(t), t.evts = f.evts, t.sec = fw.sec, t.secProc = "none",
             id \in Telling \ {"SEC_PARAMS_REQUEST", "SEC_INFO_REQUEST"}
      PROVE  Does(t)
  <2>1. Allows(id, fw.sec) => Agree(t.sec, t.secProc)
    BY <1>7 DEF Allows, Agree
  <2> QED BY <1>7, <2>1
<1>8. CASE Connected
  <2> DEFINE met == ImConnected(f, Dev)
             new == [f EXCEPT !.newPeer = FALSE, !.connPeer = FindBond(f, Dev)]
             set == [new EXCEPT !.isPrevConn   = TRUE,
                                !.isRealAdv    = FALSE,
                                !.connectState = "CONNECT"]
             here == [met EXCEPT !.connHandle = TRUE]
             made == [here EXCEPT !.isRealAdv = FALSE, !.connectState = "CONNECT"]
  <2>1. fw.evts # <<>> /\ id \notin Telling /\ Handled(AppConnected(met))
    BY <1>4, <1>8 DEF Connected, Telling, f
  <2>2. met \in {new, StartConnect(set, new.connPeer)}
    BY DEF ImConnected, RecordPurgeDisconnected, BondedPeerConnected
  <2>3. AppConnected(met) \in {here, ProcConnect(made)}
    BY DEF AppConnected
  <2>4. IsState(new) /\ new.evts = f.evts /\ new.sec = f.sec
        /\ new.secProc = f.secProc
    BY <1>3 DEF IsState, Fields
  <2> HIDE DEF new
  <2>5. IsState(set) /\ set.evts = f.evts /\ set.sec = f.sec
        /\ set.secProc = f.secProc
    BY <2>4 DEF IsState, Fields
  <2> HIDE DEF set, met
  <2>6. Turns(P, set, StartConnect(set, new.connPeer))
    BY <1>1, <2>5, MatchedAre, StartConnectTurns
  <2>7. IsState(met) /\ met.evts = f.evts /\ met.sec = f.sec
        /\ met.secProc = f.secProc
    BY <1>1, <2>2, <2>4, <2>5, <2>6, MatchedAre
  <2>8. IsState(here) /\ here.evts = f.evts /\ here.sec = f.sec
        /\ here.secProc = f.secProc
    BY <2>7 DEF IsState, Fields
  <2> HIDE DEF here
  <2>9. IsState(made) /\ made.evts = f.evts /\ made.sec = f.sec
        /\ made.secProc = f.secProc
    BY <2>8 DEF IsState, Fields
  <2> HIDE DEF made
  <2>10. Turns(P, made, ProcConnect(made))
    BY <1>1, <2>9, MatchedAre, ProcConnectTurns
  <2> DEFINE t == AppConnected(met)
  <2>11. IsState(t) /\ t.evts = f.evts /\ t.sec = f.sec /\ t.secProc = f.secProc
    BY <1>1, <2>3, <2>8, <2>9, <2>10, MatchedAre
  <2> HIDE DEF t
  <2>12. id # "SEC_INFO_REQUEST"
    BY <2>1 DEF Telling, EventIds
  <2>13. Does(t)
    BY <1>3, <2>1, <2>11, <2>12
  <2> QED BY <1>5, <2>1, <2>13 DEF t
<1>9. CASE Disconnected
  <2> DEFINE adv   == OnDisconnected(f)
             ended == LinkSecureFailure(adv)
             gone  == [ended EXCEPT !.connPeer = PeerIdInvalid]
             t     == AppDisconnected(gone)
  <2>1. fw.evts # <<>> /\ Handled(t)
        /\ id \in Telling \ {"SEC_PARAMS_REQUEST", "SEC_INFO_REQUEST"}
    BY <1>4, <1>9 DEF Disconnected, SmdDisconnected, Telling, EventIds, f
  <2>2. IsState(adv) /\ adv.evts = f.evts /\ adv.sec = f.sec
    BY <1>1, <1>3, MatchedAre, OnDisconnectedTurns
  <2> HIDE DEF adv
  <2>3. IsState(ended) /\ ended.evts = f.evts /\ ended.sec = f.sec
        /\ ended.secProc = "none"
    BY <2>2, FailureEnds
  <2> HIDE DEF ended
  <2>4. IsState(gone) /\ gone.evts = f.evts /\ gone.sec = f.sec
        /\ gone.secProc = "none"
    BY <2>3 DEF IsState, Fields
  <2> HIDE DEF gone
  <2>5. IsState(t) /\ t.evts = f.evts /\ t.sec = f.sec /\ t.secProc = "none"
    BY <2>4 DEF AppDisconnected, IsState, Fields
  <2> HIDE DEF t
  <2> QED BY <1>3, <1>5, <1>7, <2>1, <2>5
<1>10. CASE TimedOut
  <2>1. fw.evts # <<>> /\ id \notin Telling /\ Handled(OnTimeout(f))
    BY <1>4, <1>10 DEF TimedOut, Telling, f
  <2>2. Turns(P, f, OnTimeout(f))
    BY <1>1, <1>3, MatchedAre, OnTimeoutTurns
  <2> QED BY <1>5, <1>6, <2>1, <2>2
<1>11. CASE SecParamsRequest
  <2> DEFINE t == SecParamsRequestProcess(f)
  <2>1. fw.evts # <<>> /\ id = "SEC_PARAMS_REQUEST" /\ Handled(t)
    BY <1>4, <1>11 DEF SecParamsRequest, f
  <2>2. /\ IsState(t) /\ t.evts = f.evts
        /\ t.fault = NoFault =>
              /\ t.secProc = "pairing"
              /\ IF fw.sec = "params" THEN t.sec \in {"pairing", "rejected"}
                 ELSE t.sec = fw.sec
    BY <1>2, <1>3, ParamsAnswered
  <2> HIDE DEF t
  <2>3. ASSUME t.fault = NoFault
        PROVE  /\ \A x : Allows(x, fw.sec) => Allows(x, t.sec)
               /\ Allows(id, fw.sec) => Agree(t.sec, t.secProc)
    BY <2>1, <2>2, <2>3 DEF Allows, Agree
  <2>4. Does(t)
    BY <2>1, <2>2, <2>3 DEF Telling, EventIds
  <2> QED BY <1>5, <2>1, <2>4
<1>12. CASE SecInfoRequest
  <2> DEFINE t == SecInfoRequestProcess(f, Dev)
  <2>1. fw.evts # <<>> /\ id = "SEC_INFO_REQUEST" /\ Handled(t)
    BY <1>4, <1>12 DEF SecInfoRequest, f
  <2>2. /\ IsState(t) /\ t.evts = f.evts
        /\ t.fault = NoFault =>
              /\ fw.sec = "info"
              /\ \/ t.sec = "encrypting" /\ t.secProc = "encryption"
                 \/ t.sec = "none" /\ t.secProc = "none"
    BY <1>3, InfoAnswered
  <2> HIDE DEF t
  <2>3. ASSUME t.fault = NoFault
        PROVE  /\ \A x : Allows(x, fw.sec) => Allows(x, t.sec)
               /\ Agree(t.sec, t.secProc) /\ t.secProc # "pairing"
    BY <2>2, <2>3 DEF Allows, Agree
  <2>4. Does(t)
    BY <2>1, <2>2, <2>3 DEF Telling, EventIds
  <2> QED BY <1>5, <2>1, <2>4
<1>13. CASE AuthStatus
  <2>1. PICK t \in {AuthBonded(f, Dev), AuthPaired(f), LinkSecureFailure(f)} :
           /\ fw.evts # <<>> /\ Handled(t)
           /\ id \in {"AUTH_BONDED", "AUTH_PAIRED", "AUTH_FAILED"}
    BY <1>4, <1>13 DEF AuthStatus, f
  <2>2. IsState(t) /\ t.evts = f.evts /\ t.sec = f.sec /\ t.secProc = "none"
    BY <1>3, FailureEnds, SuccessEnds
  <2>3. id \in Telling \ {"SEC_PARAMS_REQUEST", "SEC_INFO_REQUEST"}
    BY <2>1 DEF Telling, EventIds
  <2> QED BY <1>3, <1>5, <1>7, <2>1, <2>2, <2>3
<1>14. CASE ConnSecUpdate
  <2>1. PICK e \in BOOLEAN :
           /\ fw.evts # <<>> /\ Handled(ConnSecUpdateProcess(f, e))
           /\ id \in Updates
    BY <1>4, <1>14, Zenon DEF ConnSecUpdate, Updates, f
  <2>2. fw.secProc # "pairing"
    <3>1. Secured(fw.evts, fw.sec, fw.secProc)
      BY <1>2, <1>4, <2>1 DEF Matched
    <3> QED BY <1>2, <2>1, <3>1, UpdateFetched DEF id
  <2> DEFINE t == ConnSecUpdateProcess(f, e)
  <2>3. IsState(t) /\ t.evts = f.evts /\ t.sec = f.sec /\ t.secProc = "none"
    BY <1>3, <2>2, UpdateEnds
  <2> HIDE DEF t
  <2>4. id \in Telling \ {"SEC_PARAMS_REQUEST", "SEC_INFO_REQUEST"}
    BY <2>1 DEF Telling, EventIds, Updates
  <2> QED BY <1>3, <1>5, <1>7, <2>1, <2>3, <2>4 DEF t
<1> QED BY <1>8, <1>9, <1>10, <1>11, <1>12, <1>13, <1>14 DEF StackHandlers

\* the handlers of the buttons
LEMMA ButtonHandlersMatched ==
    ASSUME InvMatched, ButtonHandlers PROVE InvMatched'
<1> DEFINE P == MatchedPart
<1>1. P = MatchedPart /\ Matched(fw) /\ IsState(fw)
  BY DEF InvMatched, Matched
<1> HIDE DEF P
<1>2. Turns(P, fw, fw)
  BY <1>1, MatchedAre
<1>3. CASE Key2
  <2>1. Matched([fw EXCEPT !.isDeleteBonds = TRUE])
    BY <1>1, MatchedSet DEF Fields
  <2> QED BY <1>3, <2>1, HandledMatched DEF Key2
<1>4. CASE Key3
  <2>1. Turns(P, fw, Advertise(AddNew(fw)))
    BY <1>1, <1>2, MatchedAre, AddNewTurns, AdvertiseTurns
  <2> QED BY <1>1, <1>4, <2>1, TurnsInvMatched DEF Key3
<1>5. CASE ButtonDisconnect
  <2> DEFINE called == SdDisconnect(fw)
  <2>1. Handled(called) \/ Handled(Check(called, "bsp_event_handler"))
    BY <1>5 DEF ButtonDisconnect
  <2>2. /\ IsState(called) /\ called.evts = fw.evts /\ called.sec = fw.sec
        /\ called.secProc = fw.secProc /\ called.fault = fw.fault
    BY <1>1 DEF SdDisconnect, Return, IsState, Fields
  <2> HIDE DEF called
  <2>3. Matched(called)
    BY <1>1, <2>2 DEF Matched
  <2>4. "bsp_event_handler" # NoFault
    BY DEF NoFault
  <2>5. Turns(P, called, Check(called, "bsp_event_handler"))
    BY <1>1, <2>2, <2>4, MatchedAre, Checks
  <2> QED BY <1>1, <2>1, <2>3, <2>5, MatchedAre, HandledMatched
<1>6. CASE ButtonWhitelistOff
  <2>1. Turns(P, fw, RestartWithoutWhitelist(fw))
    BY <1>1, <1>2, MatchedAre, WithoutWhitelistTurns
  <2> QED BY <1>1, <1>6, <2>1, TurnsInvMatched DEF ButtonWhitelistOff
<1> QED BY <1>3, <1>4, <1>5, <1>6 DEF ButtonHandlers

\* and the main loop keep the invariant.
LEMMA MainLoopMatched ==
    ASSUME InvMatched, MainLoop PROVE InvMatched'
<1> DEFINE P == MatchedPart
<1>1. P = MatchedPart /\ Matched(fw) /\ IsState(fw)
  BY DEF InvMatched, Matched
<1> HIDE DEF P
<1>2. Turns(P, fw, fw)
  BY <1>1, MatchedAre
<1>3. CASE SchedulerDone
  BY <1>3 DEF SchedulerDone, InvMatched
<1>4. CASE AppProcessing
  <2> DEFINE synced == Synced(fw)
  <2>1. fw' \in Settles(DeleteBonds(synced)) \/ fw' \in Settles(synced)
    BY <1>4 DEF AppProcessing
  <2>2. Turns(P, fw, synced)
    BY <1>1, <1>2, MatchedAre, SyncedTurns
  <2> HIDE DEF synced
  <2>3. Turns(P, fw, DeleteBonds(synced))
    BY <1>1, <2>2, MatchedAre, DeleteBondsTurns
  <2> QED BY <1>1, <2>1, <2>2, <2>3, MatchedAre, SettlesMatched DEF InvMatched
<1>5. CASE TimerProcessing
  <2> DEFINE t == [fw EXCEPT !.scanTimer = "idle"]
  <2>1. fw' = Settled(AppAdvScanStopCB(t)) \/ fw' = Settled(fw)
    BY <1>5 DEF TimerProcessing
  <2>2. Turns(P, fw, t)
    BY <1>1, <1>2, MatchedAre, Notes DEF NotesPart
  <2> HIDE DEF t
  <2>3. Turns(P, fw, AppAdvScanStopCB(t))
    BY <1>1, <2>2, MatchedAre, ScanStopTurns
  <2> QED BY <1>1, <2>1, <2>3, MatchedAre, SettledMatched DEF InvMatched
<1> QED BY <1>3, <1>4, <1>5 DEF MainLoop

\* The invariant holds of the firmware.
LEMMA InvMatchedHolds == Spec => []InvMatched
<1>1. Init => InvMatched
  BY BootMatched DEF Init, InvMatched
<1>2. ASSUME InvMatched, InvSafe, [Next]_vars PROVE InvMatched'
  <2>1. CASE FlashDone
    <3> DEFINE P == MatchedPart
    <3>1. P = MatchedPart /\ IsState(fw)
      BY <1>2 DEF InvMatched, Matched
    <3> HIDE DEF P
    <3>2. Turns(P, fw, FlashOperationDone(fw))
      BY <3>1, MatchedAre, FlashOperationDoneTurns
    <3> QED BY <1>2, <2>1, <3>1, <3>2, TurnsInvMatched DEF FlashDone
  <2>2. CASE Reset
    BY <2>2, BootMatched DEF Reset, InvMatched
  <2>3. CASE UNCHANGED vars
    BY <1>2, <2>3 DEF vars, InvMatched
  <2> QED
    BY <1>2, <2>1, <2>2, <2>3, EnvironmentMatched, StackHandlersMatched,
       ButtonHandlersMatched, MainLoopMatched DEF Next
<1> QED BY <1>1, <1>2, InvSafeHolds, PTL DEF Spec

\* For all devices, ids and queues, KEY_2 and failing checks included: when all
\* events of the procedure and of the link have been handled, the security
\* dispatcher knows of a procedure exactly when the stack runs one.
THEOREM SecurityHolds == Spec => []SecurityTracked
<1>1. InvMatched /\ InvSafe => SecurityTracked
  <2> SUFFICES ASSUME InvMatched, InvSafe, Running,
                      ~Pending(EventIds \ {"CONNECTED", "TIMEOUT"})
               PROVE  fw.secProc = "none" <=> fw.sec = "none"
    BY DEF SecurityTracked
  <2>1. fw.evts \in Seq(Events)
    BY DEF InvSafe, Safe, Busy, Told
  <2>2. Quiet(fw.evts, 0, Len(fw.evts))
    BY <2>1 DEF Quiet, Pending, Telling
  <2>3. Secured(fw.evts, fw.sec, fw.secProc)
    BY DEF InvMatched, Matched, Running
  <2> QED BY <2>2, <2>3 DEF Secured, Agree
<1> QED BY <1>1, InvMatchedHolds, InvSafeHolds, PTL

===============================================================================
